------------------------- MODULE InboundBodyProofs -------------------------
(***************************************************************************)
(* Proofs about InboundBody for every set of overlapping reads, every      *)
(* channel capacity, byte limit and number of frames.                      *)
(*                                                                         *)
(* None of the safety properties is inductive.  IInv adds what ties the    *)
(* pump's verdict to the error slot (SlotInv), the history of the entry to *)
(* the state of the channel (EntryInv), and says what a read that met the  *)
(* end may rely on (EndInv, OnceInv).                                      *)
(***************************************************************************)
EXTENDS InboundBody, FiniteSetTheorems, TLAPS

\* The slot holds the failure that stopped the pump until a read takes it.
SlotInv ==
    /\ verdict = "none" <=> pump # "done"
    /\ pump \in {"reading", "sending"} => ~overflowed
    /\ pump = "draining" => overflowed
    /\ (pump # "done" /\ ~Abandoned) =>
           terminal_error = IF overflowed THEN "tooLarge" ELSE "none"
    /\ (pump = "done" /\ ~Abandoned /\ firstEnd = "open") =>
           terminal_error = IF verdict \in Errors THEN verdict ELSE "none"

\* The entry leaves the registry for a known reason; only an ended body
\* removes it by itself, and a read is woken only in an abandoned one.
EntryInv ==
    /\ entry = "gone" <=> removed # "no"
    /\ removed = "eof" => pump = "done" /\ queue = <<>> /\ firstEnd # "open"
    /\ (firstEnd # "open" /\ ~Abandoned) => removed = "eof"
    /\ signal # "no" => removed = "cancel"
    /\ notified # {} => Abandoned
    /\ verdict = "gone" => Abandoned

\* A read that got no chunk met the end of the body, unless it is abandoned.
EndInv == \A c \in Call : (read[c] = "none" /\ ~Abandoned) => pump = "done" /\ queue = <<>>

\* The slot is emptied by the read that ends first, and that read is the
\* only one that reports an error.
OnceInv ==
    /\ (firstEnd # "open" /\ ~Abandoned) => terminal_error = "none"
    /\ \A c \in Call : (ended[c] \in Errors /\ ~Abandoned) => firstEnd # "open"
    /\ \A c, d \in Call : (ended[c] \in Errors /\ ended[d] \in Errors /\ ~Abandoned) => c = d

\* The first end is the producer's verdict.
VerdictInv ==
    (firstEnd # "open" /\ ~Abandoned) => firstEnd = IF verdict \in Errors THEN verdict ELSE "eof"

IInv == BodyTypeOK /\ NothingLost /\ SlotInv /\ EntryInv /\ EndInv /\ OnceInv /\ VerdictInv

-----------------------------------------------------------------------------
(* Sequences *)

\* A chunk sent goes behind everything delivered and buffered.
LEMMA SendKeepsOrder ==
    ASSUME NEW S, NEW d \in Seq(S), NEW q \in Seq(S), NEW x \in S
    PROVE d \o Append(q, x) = Append(d \o q, x)
OBVIOUS

\* A chunk received moves from the front of the buffer to the end of what
\* was delivered.
LEMMA ReceiveKeepsOrder ==
    ASSUME NEW S, NEW d \in Seq(S), NEW q \in Seq(S), q # <<>>
    PROVE /\ Append(d, Head(q)) \o Tail(q) = d \o q
          /\ Append(d, Head(q)) \in Seq(S)
          /\ Tail(q) \in Seq(S)
          /\ Len(d) < Len(d \o q)
          /\ Head(q) = (d \o q)[Len(d) + 1]
OBVIOUS

\* With an empty buffer everything pushed has been delivered.
LEMMA NothingBuffered ==
    ASSUME NEW S, NEW d \in Seq(S)
    PROVE d \o <<>> = d
OBVIOUS

-----------------------------------------------------------------------------
(* One lemma per part of the invariant *)

\* A read takes the chunk at the front of the buffer.
Received ==
    /\ queue # <<>>
    /\ delivered' = Append(delivered, Head(queue))
    /\ queue' = Tail(queue)
    /\ pushed' = pushed

\* Taking a chunk keeps the types and the order.
LEMMA ReceivedKeeps ==
    ASSUME BodyTypeOK, Received
    PROVE /\ NothingLost => NothingLost'
          /\ delivered' \in Seq(1..MaxFrames)
          /\ queue' \in Seq(1..MaxFrames)
<1>1. delivered \in Seq(1..MaxFrames) /\ queue \in Seq(1..MaxFrames)
  BY DEF BodyTypeOK
<1>2. /\ Append(delivered, Head(queue)) \o Tail(queue) = delivered \o queue
      /\ Append(delivered, Head(queue)) \in Seq(1..MaxFrames)
      /\ Tail(queue) \in Seq(1..MaxFrames)
  BY <1>1, ReceiveKeepsOrder, Zenon DEF Received
<1> QED
  BY <1>2, Zenon DEF Received, NothingLost

\* A step keeps the types.
LEMMA TypeStep ==
    ASSUME BodyTypeOK, [BodyNext]_bodyVars
    PROVE BodyTypeOK'
<1> USE BodyAssumption
<1>1. CASE FrameData
  <2>1. frames' \in 0..MaxFrames /\ frames' > 0
    BY <1>1, BodyAssumption DEF FrameData, BodyTypeOK
  <2>2. pump' \in {"sending", "draining"} /\ overflowed' \in BOOLEAN
           /\ terminal_error' \in {"none"} \cup Errors
    BY <1>1, Zenon DEF FrameData, BodyTypeOK, Errors
  <2>3. UNCHANGED <<verdict, pushed, readVars, entryVars, queue>>
    BY <1>1 DEF FrameData
  <2> QED
    BY <2>1, <2>2, <2>3 DEF BodyTypeOK, readVars, entryVars
<1>2. CASE SendOk
  BY <1>2 DEF SendOk, Push, RxDropped, Holds, BodyTypeOK, Errors, Verdicts, ReadStates, Ends,
     bodyVars, pumpVars, readVars, entryVars
<1>3. CASE SendClosed
  BY <1>3 DEF SendClosed, Stop, RxDropped, Holds, BodyTypeOK, Errors, Verdicts, ReadStates,
     Ends, bodyVars, pumpVars, readVars, entryVars
<1>4. CASE SendTimesOut
  BY <1>4 DEF SendTimesOut, Stop, BodyTypeOK, Errors, Verdicts, ReadStates, Ends, bodyVars,
     pumpVars, readVars, entryVars
<1>5. CASE FrameEnd
  BY <1>5 DEF FrameEnd, Stop, BodyTypeOK, Errors, Verdicts, ReadStates, Ends, bodyVars,
       pumpVars, readVars, entryVars
<1>6. CASE FrameError
  BY <1>6 DEF FrameError, Stop, AbortOnFrameError, BodyTypeOK, Errors, Verdicts, ReadStates,
     Ends, bodyVars, pumpVars, readVars, entryVars
<1>7. CASE FrameTimeout
  BY <1>7 DEF FrameTimeout, Stop, AbortOnTimeout, BodyTypeOK, Errors, Verdicts, ReadStates,
     Ends, bodyVars, pumpVars, readVars, entryVars
<1>8. CASE CancelRemoves
  BY <1>8 DEF CancelRemoves, BodyTypeOK, Errors, Verdicts, ReadStates, Ends, bodyVars, pumpVars,
     readVars, entryVars
<1>9. CASE CancelNotifies
  BY <1>9 DEF CancelNotifies, Registered, BodyTypeOK, Errors, Verdicts, ReadStates, Ends,
       bodyVars, pumpVars, readVars, entryVars
<1>10. CASE BodyExpire
  BY <1>10 DEF BodyExpire, BodyTypeOK, Errors, Verdicts, ReadStates, Ends, bodyVars,
       pumpVars, readVars, entryVars
<1>11. CASE BodySweep
  BY <1>11 DEF BodySweep, SweepNotifies, Registered, BodyTypeOK, Errors, Verdicts,
       ReadStates, Ends, bodyVars, pumpVars, readVars, entryVars
<1>12. ASSUME NEW c \in Call, Begin(c) PROVE BodyTypeOK'
  BY <1>12 DEF Begin, BodyTypeOK, Errors, Verdicts, ReadStates, Ends, bodyVars, pumpVars,
       readVars, entryVars
<1>13. ASSUME NEW c \in Call, Register(c) PROVE BodyTypeOK'
  BY <1>13 DEF Register, BodyTypeOK, Errors, Verdicts, ReadStates, Ends, bodyVars, pumpVars,
     readVars, entryVars
<1>14. ASSUME NEW c \in Call, LockRx(c) PROVE BodyTypeOK'
  BY <1>14 DEF LockRx, BodyTypeOK, Errors, Verdicts, ReadStates, Ends, bodyVars, pumpVars,
       readVars, entryVars
<1>15. ASSUME NEW c \in Call, ReadCancelled(c) PROVE BodyTypeOK'
  BY <1>15 DEF ReadCancelled, BodyTypeOK, Errors, Verdicts, ReadStates, Ends, bodyVars,
       pumpVars, readVars, entryVars
<1>16. ASSUME NEW c \in Call, RecvChunk(c) PROVE BodyTypeOK'
  <2>1. Received
    BY <1>16 DEF RecvChunk, HandOver, Received, pumpVars
  <2>2. read' \in [Call -> ReadStates] /\ rxOwner' \subseteq Call
    BY <1>16 DEF RecvChunk, BodyTypeOK, ReadStates
  <2>3. UNCHANGED <<notified, ended, firstEnd, entryVars, pumpVars, terminal_error>>
    BY <1>16 DEF RecvChunk
  <2> QED
    BY <2>1, <2>2, <2>3, ReceivedKeeps DEF BodyTypeOK, pumpVars, entryVars
<1>17. ASSUME NEW c \in Call, RecvEof(c) PROVE BodyTypeOK'
  BY <1>17 DEF RecvEof, Eof, Disconnected, BodyTypeOK, Errors, Verdicts, ReadStates, Ends,
       bodyVars, pumpVars, readVars, entryVars
<1>18. ASSUME NEW c \in Call, TryRecv(c) PROVE BodyTypeOK'
  <2>1. Received \/ UNCHANGED <<delivered, queue>>
    BY <1>18 DEF TryRecv, HandOver, Received, pumpVars
  <2>2. delivered' \in Seq(1..MaxFrames) /\ queue' \in Seq(1..MaxFrames)
    BY <2>1, ReceivedKeeps DEF BodyTypeOK
  <2>3. read' \in [Call -> ReadStates]
    BY <1>18, Zenon DEF TryRecv, BodyTypeOK, ReadStates
  <2>4. UNCHANGED <<notified, rxOwner, ended, firstEnd, entryVars, pumpVars, terminal_error>>
    BY <1>18 DEF TryRecv
  <2> QED
    BY <2>2, <2>3, <2>4 DEF BodyTypeOK, pumpVars, entryVars
<1>19. ASSUME NEW c \in Call, Finish(c) PROVE BodyTypeOK'
  BY <1>19 DEF Finish, Answer, SlotTaken, BodyTypeOK, Errors, Verdicts, ReadStates, Ends,
       bodyVars, pumpVars, readVars, entryVars
<1>20. CASE UNCHANGED bodyVars
  BY <1>20 DEF BodyTypeOK, Errors, Verdicts, ReadStates, Ends, bodyVars, pumpVars, readVars,
      entryVars
<1> QED
  BY <1>1, <1>2, <1>3, <1>4, <1>5, <1>6, <1>7, <1>8, <1>9, <1>10, <1>11, <1>12, <1>13,
     <1>14, <1>15, <1>16, <1>17, <1>18, <1>19, <1>20 DEF BodyNext, Pump, Read

\* A step keeps the order of the chunks.
LEMMA OrderStep ==
    ASSUME BodyTypeOK, NothingLost, [BodyNext]_bodyVars
    PROVE NothingLost'
<1>1. ASSUME UNCHANGED <<delivered, queue, pushed>> PROVE NothingLost'
  BY <1>1 DEF NothingLost
<1>2. CASE FrameData \/ SendClosed \/ SendTimesOut \/ FrameEnd \/ FrameError \/
   FrameTimeout \/ CancelRemoves \/ CancelNotifies \/ BodyExpire \/ BodySweep
  BY <1>2, <1>1 DEF FrameData, SendClosed, SendTimesOut, FrameEnd, FrameError,
     FrameTimeout, CancelRemoves, CancelNotifies, BodyExpire, BodySweep, Stop, pumpVars,
     readVars, entryVars
<1>3. ASSUME NEW c \in Call, Begin(c) \/ Register(c) \/ LockRx(c) \/ ReadCancelled(c) \/
   RecvEof(c) \/ Finish(c) PROVE NothingLost'
  BY <1>3, <1>1 DEF Begin, Register, LockRx, ReadCancelled, RecvEof, Finish, pumpVars,
     readVars, entryVars
<1>4. CASE SendOk
  <2>1. frames \in 1..MaxFrames /\ delivered \in Seq(1..MaxFrames) /\ queue \in Seq(1..MaxFrames)
    BY <1>4, BodyAssumption DEF SendOk, BodyTypeOK
  <2>2. delivered \o Append(queue, frames) = Append(delivered \o queue, frames)
    BY <2>1, SendKeepsOrder
  <2>3. delivered' = delivered /\ queue' = Append(queue, frames) /\ pushed' = Append(pushed,
      frames)
    BY <1>4 DEF SendOk, Push, readVars
  <2> QED
    BY <2>2, <2>3 DEF NothingLost
<1>5. ASSUME NEW c \in Call, RecvChunk(c) PROVE NothingLost'
  <2>1. Received
    BY <1>5 DEF RecvChunk, HandOver, Received, pumpVars
  <2> QED
    BY <2>1, ReceivedKeeps
<1>6. ASSUME NEW c \in Call, TryRecv(c) PROVE NothingLost'
  <2>1. Received \/ UNCHANGED <<delivered, queue, pushed>>
    BY <1>6 DEF TryRecv, HandOver, Received, pumpVars
  <2> QED
    BY <2>1, <1>1, ReceivedKeeps
<1>7. CASE UNCHANGED bodyVars
  BY <1>7, <1>1 DEF bodyVars, pumpVars, readVars, entryVars
<1> QED
  BY <1>2, <1>3, <1>4, <1>5, <1>6, <1>7 DEF BodyNext, Pump, Read

\* A step keeps slot and verdict in agreement.
LEMMA SlotStep ==
    ASSUME BodyTypeOK, SlotInv, EntryInv, EndInv, [BodyNext]_bodyVars
    PROVE SlotInv'
<1>1. ASSUME UNCHANGED <<verdict, pump, overflowed, removed, terminal_error,
    firstEnd>> PROVE SlotInv'
  BY <1>1 DEF SlotInv, Abandoned
<1>2. CASE CancelNotifies \/ BodyExpire
  BY <1>2, <1>1 DEF CancelNotifies, BodyExpire, pumpVars, readVars, entryVars
<1>3. ASSUME NEW c \in Call, Begin(c) \/ Register(c) \/ LockRx(c) \/ ReadCancelled(c) \/
   RecvChunk(c) \/ RecvEof(c) \/ TryRecv(c) PROVE SlotInv'
  BY <1>3, <1>1 DEF Begin, Register, LockRx, ReadCancelled, RecvChunk, RecvEof, TryRecv,
     pumpVars, readVars, entryVars
<1>4. CASE FrameData
  BY <1>4 DEF FrameData, SlotInv, Abandoned, pumpVars, readVars, entryVars
<1>5. CASE SendOk
  BY <1>5 DEF SendOk, SlotInv, Abandoned, pumpVars, readVars, entryVars
<1>6. CASE SendClosed
  BY <1>6 DEF SendClosed, Stop, RxDropped, EntryInv, Errors, SlotInv, Abandoned, pumpVars,
     readVars, entryVars
<1>7. CASE SendTimesOut
  BY <1>7 DEF SendTimesOut, Stop, Errors, SlotInv, Abandoned, pumpVars, readVars, entryVars
<1>8. CASE FrameEnd
  BY <1>8 DEF FrameEnd, Stop, Errors, SlotInv, Abandoned, pumpVars, readVars, entryVars
<1>9. CASE FrameError
  BY <1>9 DEF FrameError, Stop, AbortOnFrameError, Errors, SlotInv, Abandoned, pumpVars,
     readVars, entryVars
<1>10. CASE FrameTimeout
  BY <1>10 DEF FrameTimeout, Stop, AbortOnTimeout, Errors, SlotInv, Abandoned, pumpVars,
     readVars, entryVars
<1>11. CASE CancelRemoves
  BY <1>11 DEF CancelRemoves, SlotInv, Abandoned, pumpVars, readVars, entryVars
<1>12. CASE BodySweep
  BY <1>12 DEF BodySweep, SlotInv, Abandoned, pumpVars, readVars, entryVars
<1>13. ASSUME NEW c \in Call, Finish(c) PROVE SlotInv'
  <2>1. Abandoned \/ (pump = "done" /\ queue = <<>>)
    BY <1>13 DEF Finish, EndInv
  <2>2. entry = "gone" <=> removed # "no"
    BY DEF EntryInv
  <2>3. firstEnd' # "open"
    BY <1>13 DEF Finish, Answer, BodyTypeOK, Errors
  <2> QED
    BY <1>13, <2>1, <2>2, <2>3 DEF Finish, SlotInv, Abandoned, pumpVars
<1>14. CASE UNCHANGED bodyVars
  BY <1>14, <1>1 DEF bodyVars, pumpVars, readVars, entryVars
<1> QED
  BY <1>2, <1>3, <1>4, <1>5, <1>6, <1>7, <1>8, <1>9, <1>10, <1>11, <1>12, <1>13, <1>14
     DEF BodyNext, Pump, Read

\* A step keeps the history of the entry truthful.
LEMMA EntryStep ==
    ASSUME BodyTypeOK, SlotInv, EntryInv, EndInv, [BodyNext]_bodyVars
    PROVE EntryInv'
<1>1. ASSUME UNCHANGED <<entry, removed, pump, queue, firstEnd, signal, notified,
    verdict>> PROVE EntryInv'
  BY <1>1 DEF EntryInv, Abandoned
<1>2. ASSUME NEW c \in Call, Register(c) \/ LockRx(c) \/ RecvEof(c) PROVE EntryInv'
  BY <1>2, <1>1 DEF Register, LockRx, RecvEof, pumpVars, readVars, entryVars
<1>3. CASE FrameData
  BY <1>3 DEF FrameData, EntryInv, Abandoned, pumpVars, readVars, entryVars
<1>4. CASE SendOk
  BY <1>4 DEF SendOk, EntryInv, Abandoned, pumpVars, readVars, entryVars
<1>5. CASE SendClosed
  <2>1. Abandoned
    BY <1>5 DEF SendClosed, RxDropped, EntryInv, BodyTypeOK, Abandoned
  <2> QED
    BY <1>5, <2>1 DEF SendClosed, Stop, EntryInv, Abandoned, readVars, entryVars
<1>6. CASE SendTimesOut
  BY <1>6 DEF SendTimesOut, Stop, EntryInv, Abandoned, pumpVars, readVars, entryVars
<1>7. CASE FrameEnd
  BY <1>7 DEF FrameEnd, Stop, EntryInv, Abandoned, pumpVars, readVars, entryVars
<1>8. CASE FrameError
  BY <1>8 DEF FrameError, Stop, EntryInv, Abandoned, pumpVars, readVars, entryVars
<1>9. CASE FrameTimeout
  BY <1>9 DEF FrameTimeout, Stop, EntryInv, Abandoned, pumpVars, readVars, entryVars
<1>10. CASE CancelRemoves
  BY <1>10 DEF CancelRemoves, EntryInv, Abandoned, pumpVars, readVars, entryVars
<1>11. CASE CancelNotifies
  BY <1>11 DEF CancelNotifies, EntryInv, Abandoned, pumpVars, readVars, entryVars
<1>12. CASE BodyExpire
  BY <1>12 DEF BodyExpire, EntryInv, Abandoned, pumpVars, readVars, entryVars
<1>13. CASE BodySweep
  BY <1>13 DEF BodySweep, EntryInv, Abandoned, pumpVars, readVars, entryVars
<1>14. ASSUME NEW c \in Call, Begin(c) PROVE EntryInv'
  BY <1>14 DEF Begin, EntryInv, Abandoned, pumpVars, readVars, entryVars
<1>15. ASSUME NEW c \in Call, ReadCancelled(c) PROVE EntryInv'
  BY <1>15 DEF ReadCancelled, EntryInv, Abandoned, pumpVars, readVars, entryVars
<1>16. ASSUME NEW c \in Call, RecvChunk(c) PROVE EntryInv'
  <2>1. removed # "eof"
    BY <1>16 DEF RecvChunk, EntryInv
  <2> QED
    BY <1>16, <2>1 DEF RecvChunk, EntryInv, Abandoned, pumpVars, entryVars
<1>17. ASSUME NEW c \in Call, TryRecv(c) PROVE EntryInv'
  <2>1. queue' = queue \/ removed # "eof"
    BY <1>17 DEF TryRecv, EntryInv
  <2> QED
    BY <1>17, <2>1 DEF TryRecv, EntryInv, Abandoned, pumpVars, entryVars
<1>18. ASSUME NEW c \in Call, Finish(c) PROVE EntryInv'
  <2>1. Abandoned \/ (pump = "done" /\ queue = <<>>)
    BY <1>18 DEF Finish, EndInv
  <2>2. firstEnd' # "open"
    BY <1>18 DEF Finish, Answer, BodyTypeOK, Errors
  <2>3. UNCHANGED <<signal, notified, pump, queue, verdict>> /\ entry' = "gone"
    BY <1>18 DEF Finish, pumpVars
  <2>4. CASE entry = "gone"
    <3>1. removed' = removed /\ removed \in {"eof", "cancel", "sweep"}
      BY <1>18, <2>4 DEF Finish, EntryInv, BodyTypeOK
    <3> QED
      BY <2>2, <2>3, <2>4, <3>1 DEF EntryInv, Abandoned
  <2>5. CASE entry # "gone"
    BY <1>18, <2>1, <2>2, <2>3, <2>5 DEF Finish, EntryInv, Abandoned
  <2> QED
    BY <2>4, <2>5
<1>19. CASE UNCHANGED bodyVars
  BY <1>19, <1>1 DEF bodyVars, pumpVars, readVars, entryVars
<1> QED
  BY <1>2, <1>3, <1>4, <1>5, <1>6, <1>7, <1>8, <1>9, <1>10, <1>11, <1>12, <1>13, <1>14,
     <1>15, <1>16, <1>17, <1>18, <1>19 DEF BodyNext, Pump, Read

\* A step lets no read meet the end of a body that has not ended.
LEMMA EndStep ==
    ASSUME BodyTypeOK, SlotInv, EntryInv, EndInv, [BodyNext]_bodyVars
    PROVE EndInv'
<1>1. ASSUME UNCHANGED <<read, removed, pump, queue>> PROVE EndInv'
  BY <1>1 DEF EndInv, Abandoned
<1>2. CASE CancelNotifies \/ BodyExpire
  BY <1>2, <1>1 DEF CancelNotifies, BodyExpire, pumpVars, readVars, entryVars
<1>3. CASE FrameData
  BY <1>3 DEF FrameData, EndInv, Abandoned, pumpVars, readVars, entryVars
<1>4. CASE SendOk
  BY <1>4 DEF SendOk, EndInv, Abandoned, pumpVars, readVars, entryVars
<1>5. CASE SendClosed
  BY <1>5 DEF SendClosed, Stop, EndInv, Abandoned, pumpVars, readVars, entryVars
<1>6. CASE SendTimesOut
  BY <1>6 DEF SendTimesOut, Stop, EndInv, Abandoned, pumpVars, readVars, entryVars
<1>7. CASE FrameEnd
  BY <1>7 DEF FrameEnd, Stop, EndInv, Abandoned, pumpVars, readVars, entryVars
<1>8. CASE FrameError
  BY <1>8 DEF FrameError, Stop, EndInv, Abandoned, pumpVars, readVars, entryVars
<1>9. CASE FrameTimeout
  BY <1>9 DEF FrameTimeout, Stop, EndInv, Abandoned, pumpVars, readVars, entryVars
<1>10. CASE CancelRemoves
  BY <1>10 DEF CancelRemoves, EndInv, Abandoned, pumpVars, readVars, entryVars
<1>11. CASE BodySweep
  BY <1>11 DEF BodySweep, EndInv, Abandoned, pumpVars, readVars, entryVars
<1>12. ASSUME NEW c \in Call, Begin(c) PROVE EndInv'
  <2>1. read \in [Call -> ReadStates]
    BY DEF BodyTypeOK
  <2> QED
    BY <1>12, <2>1 DEF Begin, ReadStates, EndInv, Abandoned, pumpVars, readVars, entryVars
<1>13. ASSUME NEW c \in Call, Register(c) PROVE EndInv'
  <2>1. read \in [Call -> ReadStates]
    BY DEF BodyTypeOK
  <2> QED
    BY <1>13, <2>1 DEF Register, ReadStates, EndInv, Abandoned, pumpVars, readVars,
       entryVars
<1>14. ASSUME NEW c \in Call, LockRx(c) PROVE EndInv'
  <2>1. read \in [Call -> ReadStates]
    BY DEF BodyTypeOK
  <2> QED
    BY <1>14, <2>1 DEF LockRx, ReadStates, EndInv, Abandoned, pumpVars, readVars, entryVars
<1>15. ASSUME NEW c \in Call, ReadCancelled(c) PROVE EndInv'
  <2>1. read \in [Call -> ReadStates]
    BY DEF BodyTypeOK
  <2>2. Abandoned /\ removed' = removed
    BY <1>15 DEF ReadCancelled, EntryInv, entryVars
  <2> QED
    BY <2>2 DEF EndInv, Abandoned
<1>16. ASSUME NEW c \in Call, RecvChunk(c) PROVE EndInv'
  <2>1. read \in [Call -> ReadStates]
    BY DEF BodyTypeOK
  <2> QED
    BY <1>16, <2>1 DEF RecvChunk, ReadStates, EndInv, Abandoned, pumpVars, readVars,
       entryVars
<1>17. ASSUME NEW c \in Call, RecvEof(c) PROVE EndInv'
  <2>1. read \in [Call -> ReadStates]
    BY DEF BodyTypeOK
  <2> QED
    BY <1>17, <2>1 DEF RecvEof, Eof, Disconnected, ReadStates, EndInv, Abandoned, pumpVars,
       readVars, entryVars
<1>18. ASSUME NEW c \in Call, TryRecv(c) PROVE EndInv'
  <2>1. read \in [Call -> ReadStates]
    BY DEF BodyTypeOK
  <2> QED
    BY <1>18, <2>1 DEF TryRecv, Eof, Disconnected, ReadStates, EndInv, Abandoned, pumpVars,
       readVars, entryVars
<1>19. ASSUME NEW c \in Call, Finish(c) PROVE EndInv'
  <2>1. read \in [Call -> ReadStates]
    BY DEF BodyTypeOK
  <2>2. UNCHANGED <<pump, queue>> /\ (Abandoned => Abandoned')
    BY <1>19 DEF Finish, EntryInv, Abandoned, pumpVars
  <2>3. \A d \in Call : read'[d] = "none" => read[d] = "none"
    BY <1>19, <2>1 DEF Finish, ReadStates
  <2> QED
    BY <2>2, <2>3 DEF EndInv
<1>20. CASE UNCHANGED bodyVars
  BY <1>20, <1>1 DEF bodyVars, pumpVars, readVars, entryVars
<1> QED
  BY <1>2, <1>3, <1>4, <1>5, <1>6, <1>7, <1>8, <1>9, <1>10, <1>11, <1>12, <1>13, <1>14,
     <1>15, <1>16, <1>17, <1>18, <1>19, <1>20 DEF BodyNext, Pump, Read

\* A step lets at most one read report the error.
LEMMA OnceStep ==
    ASSUME BodyTypeOK, SlotInv, EntryInv, EndInv, OnceInv, [BodyNext]_bodyVars
    PROVE OnceInv'
<1>1. ASSUME UNCHANGED <<firstEnd, removed, terminal_error, ended>> PROVE OnceInv'
  BY <1>1 DEF OnceInv, Abandoned
<1>2. CASE SendOk \/ SendClosed \/ SendTimesOut \/ FrameEnd \/ CancelNotifies \/ BodyExpire
  BY <1>2, <1>1 DEF SendOk, SendClosed, SendTimesOut, FrameEnd, CancelNotifies, BodyExpire,
     Stop, pumpVars, readVars, entryVars
<1>3. ASSUME NEW c \in Call, Begin(c) \/ Register(c) \/ LockRx(c) \/ ReadCancelled(c) \/
   RecvChunk(c) \/ RecvEof(c) \/ TryRecv(c) PROVE OnceInv'
  BY <1>3, <1>1, Zenon DEF Begin, Register, LockRx, ReadCancelled, RecvChunk, RecvEof, TryRecv,
     pumpVars, readVars, entryVars
<1>4. CASE FrameData
  <2>1. Abandoned \/ firstEnd = "open"
    BY <1>4 DEF FrameData, EntryInv, Abandoned
  <2> QED
    BY <1>4, <2>1 DEF FrameData, OnceInv, Abandoned, readVars, entryVars
<1>5. CASE FrameError
  <2>1. Abandoned \/ firstEnd = "open"
    BY <1>5 DEF FrameError, EntryInv, Abandoned
  <2> QED
    BY <1>5, <2>1 DEF FrameError, OnceInv, Abandoned, readVars, entryVars
<1>6. CASE FrameTimeout
  <2>1. Abandoned \/ firstEnd = "open"
    BY <1>6 DEF FrameTimeout, EntryInv, Abandoned
  <2> QED
    BY <1>6, <2>1 DEF FrameTimeout, OnceInv, Abandoned, readVars, entryVars
<1>7. CASE CancelRemoves
  BY <1>7 DEF CancelRemoves, OnceInv, Abandoned, pumpVars, readVars, entryVars
<1>8. CASE BodySweep
  BY <1>8 DEF BodySweep, OnceInv, Abandoned, pumpVars, readVars, entryVars
<1>9. ASSUME NEW c \in Call, Finish(c) PROVE OnceInv'
  <2>1. ended \in [Call -> Ends]
    BY DEF BodyTypeOK
  <2>2. /\ ended' = [ended EXCEPT ![c] = Answer]
        /\ terminal_error' = "none"
        /\ firstEnd' = IF firstEnd = "open" THEN Answer ELSE firstEnd
    BY <1>9 DEF Finish, SlotTaken
  <2>3. Abandoned => Abandoned'
    BY <1>9 DEF Finish, EntryInv, Abandoned
  <2>4. firstEnd' # "open"
    BY <2>2 DEF Answer, BodyTypeOK, Errors
  <2>5. CASE Abandoned
    BY <2>3, <2>5 DEF OnceInv
  <2>6. CASE ~Abandoned /\ firstEnd = "open"
    <3>1. \A d \in Call : ended[d] \notin Errors
      BY <2>6 DEF OnceInv
    <3>2. \A d \in Call : ended'[d] \in Errors => d = c
      BY <3>1, <2>1, <2>2
    <3> QED
      BY <3>2, <2>2, <2>4 DEF OnceInv
  <2>7. CASE ~Abandoned /\ firstEnd # "open"
    <3>1. Answer = "eof"
      BY <2>7 DEF OnceInv, Answer
    <3>2. \A d \in Call : ended'[d] \in Errors => ended[d] \in Errors
      BY <3>1, <2>1, <2>2 DEF Errors
    <3> QED
      BY <3>2, <2>2, <2>4, <2>7 DEF OnceInv
  <2> QED
    BY <2>5, <2>6, <2>7
<1>10. CASE UNCHANGED bodyVars
  BY <1>10, <1>1 DEF bodyVars, pumpVars, readVars, entryVars
<1> QED
  BY <1>2, <1>3, <1>4, <1>5, <1>6, <1>7, <1>8, <1>9, <1>10 DEF BodyNext, Pump, Read

\* A step keeps the first end equal to the verdict.
LEMMA VerdictStep ==
    ASSUME BodyTypeOK, SlotInv, EntryInv, EndInv, VerdictInv, [BodyNext]_bodyVars
    PROVE VerdictInv'
<1>1. ASSUME UNCHANGED <<firstEnd, removed, verdict>> PROVE VerdictInv'
  BY <1>1 DEF VerdictInv, Abandoned
<1>2. CASE FrameData \/ SendOk \/ CancelNotifies \/ BodyExpire
  BY <1>2, <1>1 DEF FrameData, SendOk, CancelNotifies, BodyExpire, pumpVars, readVars,
     entryVars
<1>3. ASSUME NEW c \in Call, Begin(c) \/ Register(c) \/ LockRx(c) \/ ReadCancelled(c) \/
   RecvChunk(c) \/ RecvEof(c) \/ TryRecv(c) PROVE VerdictInv'
  BY <1>3, <1>1, Zenon DEF Begin, Register, LockRx, ReadCancelled, RecvChunk, RecvEof, TryRecv,
     pumpVars, readVars, entryVars
<1>4. CASE SendClosed
  <2>1. Abandoned \/ firstEnd = "open"
    BY <1>4 DEF SendClosed, EntryInv, Abandoned
  <2> QED
    BY <1>4, <2>1 DEF SendClosed, VerdictInv, Abandoned, readVars, entryVars
<1>5. CASE SendTimesOut
  <2>1. Abandoned \/ firstEnd = "open"
    BY <1>5 DEF SendTimesOut, EntryInv, Abandoned
  <2> QED
    BY <1>5, <2>1 DEF SendTimesOut, VerdictInv, Abandoned, readVars, entryVars
<1>6. CASE FrameEnd
  <2>1. Abandoned \/ firstEnd = "open"
    BY <1>6 DEF FrameEnd, EntryInv, Abandoned
  <2> QED
    BY <1>6, <2>1 DEF FrameEnd, VerdictInv, Abandoned, readVars, entryVars
<1>7. CASE FrameError
  <2>1. Abandoned \/ firstEnd = "open"
    BY <1>7 DEF FrameError, EntryInv, Abandoned
  <2> QED
    BY <1>7, <2>1 DEF FrameError, VerdictInv, Abandoned, readVars, entryVars
<1>8. CASE FrameTimeout
  <2>1. Abandoned \/ firstEnd = "open"
    BY <1>8 DEF FrameTimeout, EntryInv, Abandoned
  <2> QED
    BY <1>8, <2>1 DEF FrameTimeout, VerdictInv, Abandoned, readVars, entryVars
<1>9. CASE CancelRemoves
  BY <1>9 DEF CancelRemoves, VerdictInv, Abandoned, pumpVars, readVars, entryVars
<1>10. CASE BodySweep
  BY <1>10 DEF BodySweep, VerdictInv, Abandoned, pumpVars, readVars, entryVars
<1>11. ASSUME NEW c \in Call, Finish(c) PROVE VerdictInv'
  <2>1. (Abandoned => Abandoned') /\ verdict' = verdict
    BY <1>11 DEF Finish, EntryInv, Abandoned, pumpVars
  <2>2. CASE Abandoned
    BY <2>1, <2>2 DEF VerdictInv
  <2>3. CASE ~Abandoned /\ firstEnd # "open"
    BY <1>11, <2>1, <2>3 DEF Finish, VerdictInv
  <2>4. CASE ~Abandoned /\ firstEnd = "open"
    <3>1. terminal_error = IF verdict \in Errors THEN verdict ELSE "none"
      BY <1>11, <2>4 DEF Finish, EndInv, SlotInv
    <3>2. firstEnd' = IF verdict \in Errors THEN verdict ELSE "eof"
      BY <1>11, <2>4, <3>1 DEF Finish, Answer, Errors
    <3> QED
      BY <2>1, <3>2 DEF VerdictInv
  <2> QED
    BY <2>2, <2>3, <2>4
<1>12. CASE UNCHANGED bodyVars
  BY <1>12, <1>1 DEF bodyVars, pumpVars, readVars, entryVars
<1> QED
  BY <1>2, <1>3, <1>4, <1>5, <1>6, <1>7, <1>8, <1>9, <1>10, <1>11, <1>12 DEF BodyNext, Pump,
     Read

\* The initial state satisfies the invariant.
LEMMA InvInit == BodyInit => IInv
<1> SUFFICES ASSUME BodyInit PROVE IInv
  OBVIOUS
<1>1. BodyTypeOK
  <2>1. <<>> \in Seq(1..MaxFrames) /\ 0 \in 0..MaxFrames
    BY BodyAssumption
  <2>2. read \in [Call -> ReadStates] /\ ended \in [Call -> Ends]
    BY DEF BodyInit, ReadStates, Ends
  <2> QED
    BY <2>1, <2>2, Zenon DEF BodyInit, BodyTypeOK, Errors, Verdicts, ReadStates, Ends
<1>2. NothingLost
  BY DEF BodyInit, NothingLost
<1>3. SlotInv /\ EntryInv /\ EndInv /\ OnceInv /\ VerdictInv
  BY DEF BodyInit, SlotInv, EntryInv, EndInv, OnceInv, VerdictInv, Errors
<1> QED
  BY <1>1, <1>2, <1>3 DEF IInv

\* The invariant holds in every reachable state.
THEOREM Invariance == BodySpec => []IInv
<1>1. IInv /\ [BodyNext]_bodyVars => IInv'
  BY TypeStep, OrderStep, SlotStep, EntryStep, EndStep, OnceStep, VerdictStep DEF IInv
<1> QED
  BY InvInit, <1>1, PTL DEF BodySpec

-----------------------------------------------------------------------------
(* The theorems *)

\* Every variable of the body keeps its type.
THEOREM TypeCorrect == BodySpec => []BodyTypeOK
<1>1. IInv => BodyTypeOK
  BY DEF IInv
<1> QED
  BY Invariance, <1>1, PTL

\* What the reads were given, followed by what is buffered, is exactly what
\* the channel pushed: recv_with_cancel loses no chunk.
THEOREM InOrder == BodySpec => []NothingLost
<1>1. IInv => NothingLost
  BY DEF IInv
<1> QED
  BY Invariance, <1>1, PTL

\* The first read that ends an unabandoned body reports what stopped the
\* pump, after every pushed chunk.
THEOREM EndTruthful == BodySpec => []FirstEndTruthful
<1>1. IInv => FirstEndTruthful
  <2> SUFFICES ASSUME IInv, firstEnd # "open", ~Abandoned
               PROVE /\ firstEnd = IF verdict \in Errors THEN verdict ELSE "eof"
                     /\ verdict \in {"end", "slow"} \cup Errors
                     /\ delivered = pushed
    BY DEF FirstEndTruthful
  <2>1. pump = "done" /\ queue = <<>>
    BY DEF IInv, EntryInv
  <2>2. verdict \in {"end", "slow"} \cup Errors
    BY <2>1 DEF IInv, BodyTypeOK, Verdicts, SlotInv, EntryInv
  <2>3. delivered = pushed
    BY <2>1, NothingBuffered DEF IInv, BodyTypeOK, NothingLost
  <2> QED
    BY <2>2, <2>3 DEF IInv, VerdictInv
<1> QED
  BY Invariance, <1>1, PTL

\* At most one read of an unabandoned body reports its error (take() in
\* next_chunk and try_next_chunk).
THEOREM ErrorOnce == BodySpec => []ErrorReportedOnce
<1>1. IInv => ErrorReportedOnce
  <2> SUFFICES ASSUME IInv, ~Abandoned
               PROVE Cardinality({c \in Call : ended[c] \in Errors}) <= 1
    BY DEF ErrorReportedOnce
  <2> DEFINE S == {c \in Call : ended[c] \in Errors}
  <2> SUFFICES Cardinality(S) <= 1
    OBVIOUS
  <2>1. CASE S = {}
    BY <2>1, FS_EmptySet
  <2>2. CASE S # {}
    <3>1. PICK d : d \in S
      BY <2>2
    <3>2. S = {d}
      BY <3>1 DEF IInv, OnceInv
    <3> HIDE DEF S
    <3> QED
      BY <3>2, FS_Singleton
  <2> QED
    BY <2>1, <2>2
<1> QED
  BY Invariance, <1>1, PTL

-----------------------------------------------------------------------------
(* The refinement *)

\* A step that leaves these variables alone is invisible to the stream.
LEMMA Unseen ==
    ASSUME UNCHANGED <<pushed, delivered, pump, verdict, firstEnd, removed>>
    PROVE [Stream!Next]_(Stream!streamVars)
<1>1. producer' = producer
  BY DEF producer
<1>2. consumer' = consumer
  BY <1>1 DEF consumer, Abandoned
<1> QED
  BY <1>1, <1>2 DEF Stream!streamVars

\* The pump stops: the producer closes the stream with the pump's verdict.
LEMMA StopCloses ==
    ASSUME IInv, pump # "done", NEW v \in {"end", "slow", "gone"} \cup Errors, Stop(v),
           UNCHANGED <<pushed, delivered, firstEnd, removed>>
    PROVE [Stream!Next]_(Stream!streamVars)
<1>1. producer = "open" /\ producer' \in {"whole", "cut"} \cup Errors
  BY DEF producer, Stop, Errors
<1>2. Abandoned \/ firstEnd = "open"
  BY DEF IInv, EntryInv, Abandoned
<1>3. consumer' = consumer
  BY <1>2 DEF consumer, Abandoned
<1> QED
  BY <1>1, <1>3 DEF Stream!Next, Stream!Close

\* A read takes a chunk: it is the next one of the stream.
LEMMA ReceivedReads ==
    ASSUME IInv, Received, UNCHANGED <<pump, verdict, firstEnd, removed>>
    PROVE [Stream!Next]_(Stream!streamVars)
<1>1. delivered \in Seq(1..MaxFrames) /\ queue \in Seq(1..MaxFrames) /\ pushed = delivered \o queue
  BY DEF IInv, BodyTypeOK, NothingLost
<1>2. Len(delivered) < Len(pushed) /\ Head(queue) = pushed[Len(delivered) + 1]
  BY <1>1, ReceiveKeepsOrder DEF Received
<1>3. delivered' = Append(delivered, pushed[Len(delivered) + 1]) /\ pushed' = pushed
  BY <1>2 DEF Received
<1>4. producer' = producer
  BY DEF producer
<1>5. consumer' = consumer
  BY <1>4 DEF consumer, Abandoned
<1> QED
  BY <1>2, <1>3, <1>4, <1>5 DEF Stream!Next, Stream!Read

\* The consumer gives up, or loses the body to the sweep.
LEMMA RemovalAbandons ==
    ASSUME IInv, entry # "gone", removed' \in {"cancel", "sweep"},
           UNCHANGED <<pushed, delivered, pump, verdict, firstEnd>>
    PROVE [Stream!Next]_(Stream!streamVars)
<1>1. removed = "no" /\ firstEnd = "open"
  BY DEF IInv, EntryInv, Abandoned
<1>2. consumer = "open" /\ consumer' = "abandoned"
  BY <1>1 DEF consumer, Abandoned
<1>3. producer' = producer
  BY DEF producer
<1> QED
  BY <1>2, <1>3 DEF Stream!Next, Stream!Abandon

\* A read ends: the first one to do so in a body nobody gave up ends the
\* stream with the producer's verdict, every other one is invisible.
LEMMA FinishEnds ==
    ASSUME IInv, NEW c \in Call, Finish(c)
    PROVE [Stream!Next]_(Stream!streamVars)
<1>1. UNCHANGED <<pushed, delivered, pump, verdict>>
  BY DEF Finish, pumpVars
<1>2. producer' = producer
  BY <1>1 DEF producer
<1>3. CASE Abandoned
  <2>1. removed' = removed
    BY <1>3 DEF IInv, EntryInv, Finish, Abandoned
  <2>2. consumer = "abandoned" /\ consumer' = "abandoned"
    BY <1>3, <2>1 DEF consumer, Abandoned
  <2> QED
    BY <1>1, <1>2, <2>2 DEF Stream!streamVars
<1>4. CASE ~Abandoned /\ firstEnd # "open"
  <2>1. removed' = removed /\ firstEnd' = firstEnd
    BY <1>4 DEF IInv, EntryInv, Finish, Abandoned
  <2> QED
    BY <1>1, <2>1, Unseen
<1>5. CASE ~Abandoned /\ firstEnd = "open"
  <2>1. pump = "done" /\ queue = <<>>
    BY <1>5 DEF IInv, EndInv, Finish
  <2>2. delivered = pushed
    BY <2>1, NothingBuffered DEF IInv, BodyTypeOK, NothingLost
  <2>3. verdict \in {"end", "slow"} \cup Errors
    BY <1>5, <2>1 DEF IInv, BodyTypeOK, SlotInv, EntryInv, Verdicts
  <2>4. firstEnd' = IF verdict \in Errors THEN verdict ELSE "eof"
    <3>1. terminal_error = IF verdict \in Errors THEN verdict ELSE "none"
      BY <1>5, <2>1 DEF IInv, SlotInv
    <3> QED
      BY <1>5, <3>1 DEF Finish, Answer, Errors
  <2>5. ~Abandoned'
    BY <1>5 DEF Finish, Abandoned
  <2>6. consumer = "open"
    BY <1>5 DEF consumer
  <2>7. producer = (IF verdict = "end" THEN "whole" ELSE IF verdict = "slow" THEN "cut" ELSE verdict)
    BY <2>1, <2>3 DEF producer, Errors
  <2>8. producer # "open" /\ consumer' = producer
    BY <2>3, <2>4, <2>5, <2>7, <1>2 DEF consumer, Errors
  <2> QED
    BY <1>1, <1>2, <2>2, <2>6, <2>8 DEF Stream!Next, Stream!End
<1> QED
  BY <1>3, <1>4, <1>5

\* Every step of the channel is a step of the abstract stream or changes
\* nothing the stream can see.
LEMMA StreamStep ==
    ASSUME IInv, [BodyNext]_bodyVars
    PROVE [Stream!Next]_(Stream!streamVars)
<1>1. CASE FrameData
  <2>1. producer' = producer
    BY <1>1 DEF FrameData, producer
  <2>2. consumer' = consumer
    BY <1>1, <2>1 DEF FrameData, consumer, Abandoned, readVars, entryVars
  <2> QED
    BY <1>1, <2>1, <2>2 DEF FrameData, readVars, Stream!streamVars
<1>2. CASE SendOk
  <2>1. frames \in 1..MaxFrames
    BY <1>2, BodyAssumption DEF SendOk, IInv, BodyTypeOK
  <2>2. producer = "open" /\ producer' = "open"
    BY <1>2 DEF SendOk, producer
  <2>3. consumer' = consumer
    BY <1>2, <2>2 DEF SendOk, consumer, Abandoned, readVars, entryVars
  <2> QED
    BY <1>2, <2>1, <2>2, <2>3 DEF SendOk, readVars, Stream!Next, Stream!Write
<1>3. CASE SendClosed \/ SendTimesOut
  BY <1>3, StopCloses DEF SendClosed, SendTimesOut, readVars, entryVars
<1>4. CASE FrameEnd
  BY <1>4, StopCloses DEF FrameEnd, Errors, readVars, entryVars
<1>5. CASE FrameError
  BY <1>5, StopCloses DEF FrameError, Errors, readVars, entryVars
<1>6. CASE FrameTimeout
  BY <1>6, StopCloses DEF FrameTimeout, Errors, readVars, entryVars
<1>7. CASE CancelRemoves \/ BodySweep
  BY <1>7, RemovalAbandons DEF CancelRemoves, BodySweep, readVars, pumpVars
<1>8. CASE CancelNotifies \/ BodyExpire
  BY <1>8, Unseen DEF CancelNotifies, BodyExpire, pumpVars, readVars
<1>9. ASSUME NEW c \in Call,
    Begin(c) \/ Register(c) \/ LockRx(c) \/ ReadCancelled(c) \/ RecvEof(c)
      PROVE [Stream!Next]_(Stream!streamVars)
  BY <1>9, Unseen DEF Begin, Register, LockRx, ReadCancelled, RecvEof, pumpVars, entryVars
<1>10. ASSUME NEW c \in Call, RecvChunk(c) PROVE [Stream!Next]_(Stream!streamVars)
  BY <1>10, ReceivedReads DEF RecvChunk, HandOver, Received, pumpVars, entryVars
<1>11. ASSUME NEW c \in Call, TryRecv(c) PROVE [Stream!Next]_(Stream!streamVars)
  <2>1. UNCHANGED <<pushed, pump, verdict, firstEnd, removed>>
    BY <1>11 DEF TryRecv, pumpVars, entryVars
  <2>2. Received \/ UNCHANGED delivered
    BY <1>11 DEF TryRecv, HandOver, Received, pumpVars
  <2> QED
    BY <2>1, <2>2, ReceivedReads, Unseen
<1>12. ASSUME NEW c \in Call, Finish(c) PROVE [Stream!Next]_(Stream!streamVars)
  BY <1>12, FinishEnds
<1>13. CASE UNCHANGED bodyVars
  BY <1>13, Unseen DEF bodyVars, pumpVars, readVars, entryVars
<1> QED
  BY <1>1, <1>2, <1>3, <1>4, <1>5, <1>6, <1>7, <1>8, <1>9, <1>10, <1>11, <1>12, <1>13
     DEF BodyNext, Pump, Read

\* The pump, the channel and its handle implement the abstract body stream.
THEOREM Refinement == BodySpec => ImplementsStream
<1>1. BodyInit => Stream!Init
  BY DEF BodyInit, Stream!Init, producer, consumer, Abandoned
<1>2. IInv /\ [BodyNext]_bodyVars => [Stream!Next]_(Stream!streamVars)
  BY StreamStep
<1> QED
  BY Invariance, <1>1, <1>2, PTL DEF BodySpec, ImplementsStream, Stream!Spec

=============================================================================
