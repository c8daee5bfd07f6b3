---------------------------- MODULE InboundBody ----------------------------
(***************************************************************************)
(* A body on its way to JavaScript: the pump of                            *)
(* crates/iroh-http-core/src/ffi/pumps.rs reads frames off the wire and    *)
(* feeds a bounded channel; JavaScript reads the channel through a handle  *)
(* of the HandleStore (ffi/handles.rs) with next_chunk or try_next_chunk,  *)
(* may cancel it, and loses it to the TTL sweep when it leaves it alone.   *)
(*                                                                         *)
(* Calls of next_chunk on one handle may overlap: each call in flight is   *)
(* an element of Call.  Frames all have the size 1, so the byte limit is a *)
(* number of frames.  A call on a removed handle answers INVALID_HANDLE    *)
(* and changes nothing, as does reading a trailer frame or a frame that is *)
(* thrown away while draining: those are stuttering steps.                 *)
(***************************************************************************)
EXTENDS Naturals, Sequences, FiniteSets

CONSTANTS
    Call,        \* the reads that may be in flight on the handle at once
    Capacity,    \* channel_capacity of the store
    MaxBytes,    \* max_bytes of the pump
    MaxFrames    \* bound: data frames the peer sends in one behaviour

ASSUME BodyAssumption ==
    /\ Capacity \in Nat \ {0}
    /\ MaxBytes \in Nat
    /\ MaxFrames \in Nat

VARIABLES
    pump,            \* where the pump stands
    frames,          \* data frames read so far; the last one is the one in hand
    verdict,         \* history: why the pump stopped
    overflowed,      \* the pump's flag: the body exceeded max_bytes
    queue,           \* the mpsc channel's buffer
    pushed,        \* history: every chunk the channel took
    delivered,       \* history: every chunk handed to a read
    terminal_error,  \* the error slot shared by writer and reader
    entry,           \* the handle's registry entry
    removed,         \* history: what removed the entry
    signal,          \* progress of the one cancel_reader call
    read,            \* program counter of each read
    notified,        \* the registered reads that the cancel Notify has woken
    rxOwner,         \* the reads that hold the receiver's mutex: at most one
    ended,           \* how the body ended for each read
    firstEnd         \* history: how it ended for the read that ended first

pumpVars == <<pump, frames, verdict, overflowed, pushed>>
readVars == <<read, notified, rxOwner, ended, firstEnd, delivered>>
entryVars == <<entry, removed, signal>>
bodyVars == <<pumpVars, readVars, entryVars, queue, terminal_error>>

Errors == {"timeout", "tooLarge", "internal"}
Verdicts == {"none", "end", "slow", "gone"} \cup Errors
ReadStates == {"idle", "cloned", "tryCloned", "waiting", "receiving", "none"}
Ends == {"open", "eof"} \cup Errors

BodyTypeOK ==
    /\ pump \in {"reading", "sending", "draining", "done"}
    /\ frames \in 0..MaxFrames
    /\ pump = "sending" => frames > 0
    /\ verdict \in Verdicts
    /\ overflowed \in BOOLEAN
    /\ queue \in Seq(1..MaxFrames)
    /\ pushed \in Seq(1..MaxFrames)
    /\ delivered \in Seq(1..MaxFrames)
    /\ terminal_error \in {"none"} \cup Errors
    /\ entry \in {"live", "idle", "gone"}
    /\ removed \in {"no", "eof", "cancel", "sweep"}
    /\ signal \in {"no", "unlocked", "sent"}
    /\ read \in [Call -> ReadStates]
    /\ notified \subseteq Call
    /\ rxOwner \subseteq Call
    /\ ended \in [Call -> Ends]
    /\ firstEnd \in Ends

BodyInit ==
    /\ pump = "reading"
    /\ frames = 0
    /\ verdict = "none"
    /\ overflowed = FALSE
    /\ queue = <<>>
    /\ pushed = <<>>
    /\ delivered = <<>>
    /\ terminal_error = "none"
    /\ entry = "live"
    /\ removed = "no"
    /\ signal = "no"
    /\ read = [c \in Call |-> "idle"]
    /\ notified = {}
    /\ rxOwner = {}
    /\ ended = [c \in Call |-> "open"]
    /\ firstEnd = "open"

\* A read that holds a clone of the receiver's Arc.
Holds(c) == read[c] \in {"cloned", "tryCloned", "waiting", "receiving"}

\* The receiver is dropped with the registry entry and the last clone.
RxDropped == entry = "gone" /\ \A c \in Call : ~Holds(c)

\* The channel reports end of stream once its only sender is dropped.
Disconnected == pump = "done" /\ queue = <<>>

-----------------------------------------------------------------------------
(* The pump *)

\* The writer is dropped, which is what disconnects the channel.
Stop(why) == pump' = "done" /\ verdict' = why

\* total > limit
OverLimit(n) == n > MaxBytes

\* A data frame arrives.  Within the limit the pump starts to send it; over
\* the limit it records BodyTooLarge and turns to draining.
FrameData ==
    /\ pump = "reading"
    /\ frames < MaxFrames
    /\ frames' = frames + 1
    /\ IF OverLimit(frames + 1)
          THEN /\ pump' = "draining"
               /\ overflowed' = TRUE
               /\ terminal_error' = "tooLarge"
          ELSE /\ pump' = "sending"
               /\ UNCHANGED <<overflowed, terminal_error>>
    /\ UNCHANGED <<verdict, pushed, readVars, entryVars, queue>>

\* try_send and send put the chunk behind the buffered ones.
Push(s, x) == Append(s, x)

\* send_chunk: room in the channel, at once or after a wait.
SendOk ==
    /\ pump = "sending"
    /\ ~RxDropped
    /\ Len(queue) < Capacity
    /\ queue' = Push(queue, frames)
    /\ pushed' = Append(pushed, frames)
    /\ pump' = "reading"
    /\ UNCHANGED <<frames, verdict, overflowed, readVars, entryVars, terminal_error>>

\* send_chunk: the receiver is dropped, the pump returns.
SendClosed ==
    /\ pump = "sending"
    /\ RxDropped
    /\ Stop("gone")
    /\ UNCHANGED <<frames, overflowed, pushed, readVars, entryVars, queue, terminal_error>>

\* send_chunk: the channel stays full for drain_timeout.  The pump returns
\* as it does for a dropped reader, without an abort.
SendTimesOut ==
    /\ pump = "sending"
    /\ ~RxDropped
    /\ Len(queue) >= Capacity
    /\ Stop("slow")
    /\ UNCHANGED <<frames, overflowed, pushed, readVars, entryVars, queue, terminal_error>>

\* The body ends: the loop breaks and the writer is dropped.
FrameEnd ==
    /\ pump \in {"reading", "draining"}
    /\ Stop(IF overflowed THEN "tooLarge" ELSE "end")
    /\ UNCHANGED <<frames, overflowed, pushed, readVars, entryVars, queue, terminal_error>>

\* `if overflowed { break; }` keeps the size violation.
AbortOnFrameError(e) == IF overflowed THEN terminal_error ELSE e

\* The frame is an error: over a limit of the server stack, or anything else.
FrameError ==
    /\ pump \in {"reading", "draining"}
    /\ \E e \in {"tooLarge", "internal"} :
          /\ terminal_error' = AbortOnFrameError(e)
          /\ Stop(IF overflowed THEN "tooLarge" ELSE e)
    /\ UNCHANGED <<frames, overflowed, pushed, readVars, entryVars, queue>>

\* writer.abort(CoreError::timeout(..))
AbortOnTimeout == "timeout"

\* Fault: body.frame() is awaited without a timeout.
NoFrameTimeout == FALSE /\ UNCHANGED bodyVars

\* No frame for frame_timeout, draining or not: abort and break.
FrameTimeout ==
    /\ pump \in {"reading", "draining"}
    /\ terminal_error' = AbortOnTimeout
    /\ Stop("timeout")
    /\ UNCHANGED <<frames, overflowed, pushed, readVars, entryVars, queue>>

Pump == FrameData \/ SendOk \/ SendClosed \/ SendTimesOut \/ FrameEnd \/ FrameError \/ FrameTimeout

-----------------------------------------------------------------------------
(* next_chunk and try_next_chunk *)

\* The registry lookup: touch the entry and clone its Arcs, then unlock.
Begin(c) ==
    /\ read[c] = "idle"
    /\ entry # "gone"
    /\ entry' = "live"
    /\ \E s \in {"cloned", "tryCloned"} : read' = [read EXCEPT ![c] = s]
    /\ UNCHANGED <<removed, signal, notified, rxOwner, ended, firstEnd, delivered, pumpVars,
                   queue, terminal_error>>

\* recv_with_cancel starts: from here on notify_waiters reaches this read.
Register(c) ==
    /\ read[c] = "cloned"
    /\ read' = [read EXCEPT ![c] = "waiting"]
    /\ UNCHANGED <<notified, rxOwner, ended, firstEnd, delivered, entryVars, pumpVars, queue,
                   terminal_error>>

\* rx.lock().await
LockRx(c) ==
    /\ read[c] = "waiting"
    /\ c \notin notified
    /\ rxOwner = {}
    /\ rxOwner' = {c}
    /\ read' = [read EXCEPT ![c] = "receiving"]
    /\ UNCHANGED <<notified, ended, firstEnd, delivered, entryVars, pumpVars, queue,
                   terminal_error>>

\* The biased select looks at the cancel signal first.
ReadCancelled(c) ==
    /\ read[c] \in {"waiting", "receiving"}
    /\ c \in notified
    /\ read' = [read EXCEPT ![c] = "none"]
    /\ notified' = notified \ {c}
    /\ rxOwner' = rxOwner \ {c}
    /\ UNCHANGED <<ended, firstEnd, delivered, entryVars, pumpVars, queue, terminal_error>>

\* The received chunk is the call's result.
HandOver(s) == Append(delivered, Head(s))

\* recv returns a chunk, which is the call's result.
RecvChunk(c) ==
    /\ read[c] = "receiving"
    /\ c \notin notified
    /\ queue # <<>>
    /\ delivered' = HandOver(queue)
    /\ queue' = Tail(queue)
    /\ read' = [read EXCEPT ![c] = "idle"]
    /\ rxOwner' = rxOwner \ {c}
    /\ UNCHANGED <<notified, ended, firstEnd, entryVars, pumpVars, terminal_error>>

\* Fault: an empty buffer is taken for the end of the body.
EmptyIsEof == queue = <<>>

\* recv and try_recv: no chunk is left and no sender either.
Eof == Disconnected

\* recv returns None: the writer is gone and the buffer is empty.
RecvEof(c) ==
    /\ read[c] = "receiving"
    /\ c \notin notified
    /\ Eof
    /\ read' = [read EXCEPT ![c] = "none"]
    /\ rxOwner' = rxOwner \ {c}
    /\ UNCHANGED <<notified, ended, firstEnd, delivered, entryVars, pumpVars, queue,
                   terminal_error>>

\* try_next_chunk after the lookup: a chunk, end of stream, or an error that
\* asks the caller to try again (mutex held by a read, or channel empty).
TryRecv(c) ==
    /\ read[c] = "tryCloned"
    /\ \/ /\ rxOwner = {}
          /\ queue # <<>>
          /\ delivered' = HandOver(queue)
          /\ queue' = Tail(queue)
          /\ read' = [read EXCEPT ![c] = "idle"]
       \/ /\ rxOwner = {}
          /\ Eof
          /\ read' = [read EXCEPT ![c] = "none"]
          /\ UNCHANGED <<delivered, queue>>
       \/ /\ rxOwner # {} \/ (queue = <<>> /\ ~Eof)
          /\ read' = [read EXCEPT ![c] = "idle"]
          /\ UNCHANGED <<delivered, queue>>
    /\ UNCHANGED <<notified, rxOwner, ended, firstEnd, entryVars, pumpVars, terminal_error>>

\* terminal_error.take(): the error if there is one, else Ok(None).
Answer == IF terminal_error = "none" THEN "eof" ELSE terminal_error

\* What take() leaves in the slot.
SlotTaken == "none"

\* The call got no chunk: remove the handle, take the error, answer.
Finish(c) ==
    /\ read[c] = "none"
    /\ read' = [read EXCEPT ![c] = "idle"]
    /\ ended' = [ended EXCEPT ![c] = Answer]
    /\ firstEnd' = IF firstEnd = "open" THEN Answer ELSE firstEnd
    /\ terminal_error' = SlotTaken
    /\ entry' = "gone"
    /\ removed' = IF entry = "gone" THEN removed ELSE "eof"
    /\ UNCHANGED <<signal, notified, rxOwner, delivered, pumpVars, queue>>

Read(c) ==
    \/ Begin(c)
    \/ Register(c)
    \/ LockRx(c)
    \/ ReadCancelled(c)
    \/ RecvChunk(c)
    \/ RecvEof(c)
    \/ TryRecv(c)
    \/ Finish(c)

-----------------------------------------------------------------------------
(* cancel_reader and the sweep *)

\* The reads notify_waiters wakes: those registered when it is called.
Registered == {c \in Call : read[c] \in {"waiting", "receiving"}}

\* cancel_reader takes the entry out under the lock.
CancelRemoves ==
    /\ signal = "no"
    /\ entry # "gone"
    /\ entry' = "gone"
    /\ removed' = "cancel"
    /\ signal' = "unlocked"
    /\ UNCHANGED <<readVars, pumpVars, queue, terminal_error>>

\* It fires the Notify after the lock is released.
CancelNotifies ==
    /\ signal = "unlocked"
    /\ signal' = "sent"
    /\ notified' = notified \cup Registered
    /\ UNCHANGED <<entry, removed, read, rxOwner, ended, firstEnd, delivered, pumpVars, queue,
                   terminal_error>>

\* Nobody has touched the entry for longer than the TTL.
BodyExpire ==
    /\ entry = "live"
    /\ entry' = "idle"
    /\ UNCHANGED <<removed, signal, readVars, pumpVars, queue, terminal_error>>

\* entry.value.cancel.notify_waiters(), under the registry lock.
SweepNotifies == notified \cup Registered

\* sweep_readers removes the expired entry and wakes its reads.
BodySweep ==
    /\ entry = "idle"
    /\ entry' = "gone"
    /\ removed' = "sweep"
    /\ notified' = SweepNotifies
    /\ UNCHANGED <<signal, read, rxOwner, ended, firstEnd, delivered, pumpVars, queue,
                   terminal_error>>

-----------------------------------------------------------------------------

BodyNext ==
    \/ Pump
    \/ \E c \in Call : Read(c)
    \/ CancelRemoves
    \/ CancelNotifies
    \/ BodyExpire
    \/ BodySweep

BodySpec == BodyInit /\ [][BodyNext]_bodyVars

\* The runtime polls every task that is ready, so a started read and a
\* started cancel_reader get on; frame_timeout and drain_timeout bound each
\* wait of the pump.  Nothing makes the peer send, and nothing makes
\* JavaScript read, cancel or stay away.
Progress(c) == Register(c) \/ LockRx(c) \/ ReadCancelled(c) \/ RecvChunk(c) \/ RecvEof(c)
                  \/ TryRecv(c) \/ Finish(c)

BodyFairness ==
    /\ WF_bodyVars(FrameTimeout)
    /\ WF_bodyVars(SendOk \/ SendClosed \/ SendTimesOut)
    /\ WF_bodyVars(CancelNotifies)
    /\ \A c \in Call : WF_bodyVars(Progress(c))

BodyFairSpec == BodySpec /\ BodyFairness

-----------------------------------------------------------------------------
(* Properties *)

\* No chunk is lost, duplicated or reordered between the channel and the
\* reads, whatever reads overlap, are cancelled or find the mutex taken:
\* `tokio::select!` in recv_with_cancel drops a receive only before it took
\* a chunk.
NothingLost == delivered \o queue = pushed

\* The consumer gave the body up or lost it to the sweep.
Abandoned == removed \in {"cancel", "sweep"}

\* A body that failed never looks whole: unless the handle was cancelled or
\* swept, the first read that ends reports exactly the failure that stopped
\* the pump, and a clean end is reported only for a body that ended or whose
\* reader stalled past drain_timeout; every pushed chunk came first.
FirstEndTruthful ==
    (firstEnd # "open" /\ ~Abandoned) =>
        /\ firstEnd = IF verdict \in Errors THEN verdict ELSE "eof"
        /\ verdict \in {"end", "slow"} \cup Errors
        /\ delivered = pushed

\* The error of a failed body is reported by one read and by one only, also
\* when several reads meet the end together (`take()` in next_chunk), as long
\* as the handle was not cancelled or swept while the pump still ran.
ErrorReportedOnce == ~Abandoned => Cardinality({c \in Call : ended[c] \in Errors}) <= 1

\* Ok(None) means the end of the body, for a reader that was neither
\* cancelled nor swept: "Returns `Ok(None)` at EOF."
EofMeansWholeBody == (firstEnd = "eof" /\ ~Abandoned) => verdict = "end"

\* Once cancel_reader has returned, every read still waiting has been woken:
\* "notified when `cancel_reader` is called so in-flight `next_chunk` awaits
\* terminate promptly."
CancelReachesReads ==
    signal = "sent" => \A c \in Registered : c \in notified

\* Every read returns: the sender's timeouts end the body at the latest, and
\* neither the mutex nor a missed signal can hold a read for ever.
EveryReadReturns == \A c \in Call : read[c] # "idle" ~> read[c] = "idle"

\* The channel as its consumer sees it.
producer == IF pump # "done" THEN "open"
            ELSE CASE verdict = "end" -> "whole"
                   [] verdict \in {"slow", "gone"} -> "cut"
                   [] OTHER -> verdict

consumer == IF Abandoned THEN "abandoned"
            ELSE IF firstEnd = "eof" THEN (IF producer = "cut" THEN "cut" ELSE "whole")
            ELSE firstEnd

Stream == INSTANCE BodyStream WITH Chunks <- 1..MaxFrames, written <- pushed, got <- delivered

\* The channel implements the stream of module BodyStream: in-order delivery,
\* then the producer's own verdict, however pump, reads, cancel and sweep
\* interleave.
ImplementsStream == Stream!Spec

=============================================================================
