----------------------------- MODULE CoreProofs ------------------------------
(***************************************************************************)
(* Proofs about an endpoint: its serve cycles (ServeLifecycle), its place  *)
(* in the table of endpoints (EndpointTable) and its outgoing requests     *)
(* over the connection pool (FetchRequest), for any set of serve calls,    *)
(* any number of endpoints, and any number of callers and of dials. For    *)
(* serve calls, which cycle the slot, the done receiver and the close call *)
(* hold, and how far a call has come when its task exists, has to be       *)
(* carried along. For a caller the invariant says what its program counter *)
(* tells about the connection it looks at; it is shown to be kept by the   *)
(* steps a caller makes inside the pool and by a send that fails, then by  *)
(* all other steps.                                                        *)
(***************************************************************************)
EXTENDS ServeLifecycle, EndpointTable, FetchRequest, TLAPS

-----------------------------------------------------------------------------
(* The life of a serve call.                                               *)

\* The slot, the done receiver and the close call hold registered cycles, and
\* the latest registration is in the slot unless a close took it.
SlotInv ==
    /\ \A s \in {serveSlot, doneRx, closer.cycle} \ {NoCycle} : Registered(s)
    /\ serveSlot # NoCycle => serveSlot = doneRx /\ serveSlot # closer.cycle
    /\ (doneRx # NoCycle /\ serveSlot = NoCycle) => closer.cycle = doneRx

\* The accept task exists from Spawn on, its handle has it from AttachJoin
\* on, until a drain takes it.
TaskInv ==
    \A s \in Cycle :
        /\ accept[s] = "unborn" <=> servePc[s] \in {"new", "registered"}
        /\ servePc[s] = "new" => s \notin stopReq
        /\ servePc[s] \in {"attached", "installed", "over"} =>
              s \in join \cup abortSent \/ (closer.kind = "graceful" /\ closer.cycle = s)

\* Where the close call stands and what it has done so far.
CloserInv ==
    /\ closer.step = "idle" => closer.cycle = NoCycle
    /\ closer.step \in {"took", "waits", "aborts"} => closer.cycle # NoCycle
    /\ closer.step = "aborts" => closer.kind = "force" /\ closer.cycle \in abortReq
    /\ closer.step = "waits" => closer.kind = "graceful"
    /\ closer.step \in {"idle", "took"} => abortReq = {}
    /\ abortReq \subseteq {closer.cycle}
    /\ closer.kind = "graceful" => abortReq = {}
    /\ ended <=> closer.step \in {"sends", "over"}
    /\ (closer.kind = "graceful" /\ closer.cycle # NoCycle
            /\ closer.step \in {"clears", "closes", "sends", "over"}) => Ended(closer.cycle)

\* The inductive invariant of the serve cycles.
LifecycleInv ==
    /\ LifecycleTypeOK /\ SlotInv /\ TaskInv /\ CloserInv
    /\ EveryCycleControlled /\ LocalIsCurrent
    /\ AbortReachesTask /\ CutOnlyWhenSuperseded

\* The invariant holds before any serve call.
LEMMA InitInv == LifecycleInit => LifecycleInv
<1> SUFFICES ASSUME LifecycleInit PROVE LifecycleInv
  OBVIOUS
<1>1. LifecycleTypeOK
  BY Zenon DEF LifecycleInit, LifecycleTypeOK, Steps, CloserSteps
<1>2. SlotInv /\ TaskInv /\ CloserInv
  BY DEF LifecycleInit, SlotInv, TaskInv, CloserInv, Ended
<1>3. EveryCycleControlled /\ LocalIsCurrent /\ AbortReachesTask /\ CutOnlyWhenSuperseded
  BY DEF LifecycleInit, EveryCycleControlled, Registered, LocalIsCurrent, AbortReachesTask,
      CutOnlyWhenSuperseded
<1> QED
  BY <1>1, <1>2, <1>3 DEF LifecycleInv

\* The type invariant is preserved: an empty slot is never shut down as if it were a cycle.
LEMMA TypeOKStep == LifecycleInv /\ [LifecycleNext]_lifecycleVars => LifecycleTypeOK'
<1> SUFFICES ASSUME LifecycleInv, [LifecycleNext]_lifecycleVars PROVE LifecycleTypeOK'
  OBVIOUS
<1> USE CycleAssumption DEF NoCycle
<1>0. LifecycleTypeOK /\ SlotInv /\ CloserInv
  BY DEF LifecycleInv
<1>1. ASSUME NEW c \in Cycle, Register(c) PROVE LifecycleTypeOK'
  BY <1>0, <1>1 DEF Register, LifecycleGoto, ShutdownAndClose, Shutdown, StopHeard, Replaced,
       serveSlotVars, handleVars, closeVars, LifecycleTypeOK, Steps, CloserSteps, SlotInv,
       Registered, CloserInv, Ended
<1>2. ASSUME NEW c \in Cycle, Spawn(c) PROVE LifecycleTypeOK'
  BY <1>0, <1>2 DEF Spawn, LifecycleGoto, serveSlotVars, handleVars, closeVars,
       LifecycleTypeOK, Steps, CloserSteps, SlotInv, Registered, CloserInv, Ended
<1>3. ASSUME NEW c \in Cycle, AttachJoin(c) PROVE LifecycleTypeOK'
  BY <1>0, <1>3 DEF AttachJoin, LifecycleGoto, AbortedEarly, serveSlotVars, handleVars,
       closeVars, LifecycleTypeOK, Steps, CloserSteps, SlotInv, Registered, CloserInv, Ended
<1>4. ASSUME NEW c \in Cycle, InstallLocal(c) PROVE LifecycleTypeOK'
  BY <1>0, <1>4 DEF InstallLocal, LifecycleGoto, Installs, serveSlotVars, handleVars,
       closeVars, LifecycleTypeOK, Steps, CloserSteps, SlotInv, Registered, CloserInv, Ended
<1>5. ASSUME NEW c \in Cycle, HandOff(c) PROVE LifecycleTypeOK'
  BY <1>0, <1>5 DEF HandOff, LifecycleGoto, LateHandOff, ShutdownAndClose, Shutdown, StopHeard,
       serveSlotVars, handleVars, closeVars, LifecycleTypeOK, Steps, CloserSteps, SlotInv,
       Registered, CloserInv, Ended
<1>6. ASSUME NEW c \in Cycle, AcceptStarts(c) PROVE LifecycleTypeOK'
  BY <1>0, <1>6 DEF AcceptStarts, serveSlotVars, handleVars, closeVars, LifecycleTypeOK, Steps,
       CloserSteps, SlotInv, Registered, CloserInv, Ended
<1>7. ASSUME NEW c \in Cycle, AcceptStopped(c) PROVE LifecycleTypeOK'
  BY <1>0, <1>7 DEF AcceptStopped, serveSlotVars, handleVars, closeVars, LifecycleTypeOK, Steps,
       CloserSteps, SlotInv, Registered, CloserInv, Ended
<1>8. ASSUME NEW c \in Cycle, AcceptEndpointClosed(c) PROVE LifecycleTypeOK'
  BY <1>0, <1>8 DEF AcceptEndpointClosed, serveSlotVars, handleVars, closeVars,
       LifecycleTypeOK, Steps, CloserSteps, SlotInv, Registered, CloserInv, Ended
<1>9. ASSUME NEW c \in Cycle, AcceptDone(c) PROVE LifecycleTypeOK'
  BY <1>0, <1>9 DEF AcceptDone, serveSlotVars, handleVars, closeVars, LifecycleTypeOK, Steps,
       CloserSteps, SlotInv, Registered, CloserInv, Ended
<1>10. ASSUME NEW c \in Cycle, AcceptAborted(c) PROVE LifecycleTypeOK'
  BY <1>0, <1>10 DEF AcceptAborted, serveSlotVars, handleVars, closeVars, LifecycleTypeOK,
       Steps, CloserSteps, SlotInv, Registered, CloserInv, Ended
<1>11. ASSUME StopServe PROVE LifecycleTypeOK'
  BY <1>0, <1>11 DEF StopServe, Shutdown, StopHeard, serveSlotVars, handleVars, closeVars,
       LifecycleTypeOK, Steps, CloserSteps, SlotInv, Registered, CloserInv, Ended
<1>12. ASSUME CloseTakes PROVE LifecycleTypeOK'
  BY <1>0, <1>12, Zenon
     DEF CloseTakes, serveSlotVars, handleVars, closeVars, LifecycleTypeOK, Steps,
       CloserSteps, SlotInv, Registered, CloserInv, Ended
<1>13. ASSUME DrainBegins PROVE LifecycleTypeOK'
  BY <1>0, <1>13 DEF DrainBegins, Shutdown, StopHeard, CloserAt, WaitsForEnd, serveSlotVars,
       handleVars, closeVars, LifecycleTypeOK, Steps, CloserSteps, SlotInv, Registered,
       CloserInv, Ended
<1>14. ASSUME DrainEnds PROVE LifecycleTypeOK'
  BY <1>0, <1>14 DEF DrainEnds, CloserAt, serveSlotVars, handleVars, closeVars,
       LifecycleTypeOK, Steps, CloserSteps, SlotInv, Registered, CloserInv, Ended
<1>15. ASSUME AbortFlag PROVE LifecycleTypeOK'
  BY <1>0, <1>15 DEF AbortFlag, CloserAt, serveSlotVars, handleVars, closeVars,
       LifecycleTypeOK, Steps, CloserSteps, SlotInv, Registered, CloserInv, Ended
<1>16. ASSUME AbortJoin PROVE LifecycleTypeOK'
  BY <1>0, <1>16 DEF AbortJoin, CloserAt, serveSlotVars, handleVars, closeVars,
       LifecycleTypeOK, Steps, CloserSteps, SlotInv, Registered, CloserInv, Ended
<1>17. ASSUME ClearLocal PROVE LifecycleTypeOK'
  BY <1>0, <1>17 DEF ClearLocal, CloserAt, serveSlotVars, handleVars, closeVars,
       LifecycleTypeOK, Steps, CloserSteps, SlotInv, Registered, CloserInv, Ended
<1>18. ASSUME CloseTransport PROVE LifecycleTypeOK'
  BY <1>0, <1>18 DEF CloseTransport, CloserAt, serveSlotVars, handleVars, closeVars,
       LifecycleTypeOK, Steps, CloserSteps, SlotInv, Registered, CloserInv, Ended
<1>19. ASSUME SendClosed PROVE LifecycleTypeOK'
  BY <1>0, <1>19 DEF SendClosed, CloserAt, serveSlotVars, handleVars, closeVars,
       LifecycleTypeOK, Steps, CloserSteps, SlotInv, Registered, CloserInv, Ended
<1>20. CASE UNCHANGED lifecycleVars
  BY <1>0, <1>20 DEF lifecycleVars, serveSlotVars, handleVars, closeVars, LifecycleTypeOK,
       Steps, CloserSteps, SlotInv, Registered, CloserInv, Ended
<1> QED
  BY <1>1, <1>2, <1>3, <1>4, <1>5, <1>6, <1>7, <1>8, <1>9, <1>10, <1>11, <1>12, <1>13, <1>14,
      <1>15, <1>16, <1>17, <1>18, <1>19, <1>20 DEF LifecycleNext, ServeCall, AcceptTask,
      CloseStep

\* The slot and the done receiver keep naming the same cycle until a close takes it.
LEMMA SlotInvStep == LifecycleInv /\ [LifecycleNext]_lifecycleVars => SlotInv'
<1> SUFFICES ASSUME LifecycleInv, [LifecycleNext]_lifecycleVars PROVE SlotInv'
  OBVIOUS
<1> USE CycleAssumption DEF NoCycle
<1>0. SlotInv /\ LifecycleTypeOK /\ CloserInv
  BY DEF LifecycleInv
<1>1. ASSUME NEW c \in Cycle, Register(c) PROVE SlotInv'
  BY <1>0, <1>1 DEF Register, LifecycleGoto, ShutdownAndClose, Shutdown, StopHeard, Replaced,
       serveSlotVars, handleVars, closeVars, SlotInv, Registered, LifecycleTypeOK, Steps,
       CloserSteps, CloserInv, Ended
<1>2. ASSUME NEW c \in Cycle, Spawn(c) PROVE SlotInv'
  BY <1>0, <1>2 DEF Spawn, LifecycleGoto, serveSlotVars, handleVars, closeVars, SlotInv,
       Registered, LifecycleTypeOK, Steps, CloserSteps, CloserInv, Ended
<1>3. ASSUME NEW c \in Cycle, AttachJoin(c) PROVE SlotInv'
  BY <1>0, <1>3 DEF AttachJoin, LifecycleGoto, AbortedEarly, serveSlotVars, handleVars,
       closeVars, SlotInv, Registered, LifecycleTypeOK, Steps, CloserSteps, CloserInv, Ended
<1>4. ASSUME NEW c \in Cycle, InstallLocal(c) PROVE SlotInv'
  BY <1>0, <1>4 DEF InstallLocal, LifecycleGoto, Installs, serveSlotVars, handleVars,
       closeVars, SlotInv, Registered, LifecycleTypeOK, Steps, CloserSteps, CloserInv, Ended
<1>5. ASSUME NEW c \in Cycle, HandOff(c) PROVE SlotInv'
  BY <1>0, <1>5 DEF HandOff, LifecycleGoto, LateHandOff, ShutdownAndClose, Shutdown, StopHeard,
       serveSlotVars, handleVars, closeVars, SlotInv, Registered, LifecycleTypeOK, Steps,
       CloserSteps, CloserInv, Ended
<1>6. ASSUME NEW c \in Cycle, AcceptStarts(c) PROVE SlotInv'
  BY <1>0, <1>6 DEF AcceptStarts, serveSlotVars, handleVars, closeVars, SlotInv, Registered,
       LifecycleTypeOK, Steps, CloserSteps, CloserInv, Ended
<1>7. ASSUME NEW c \in Cycle, AcceptStopped(c) PROVE SlotInv'
  BY <1>0, <1>7 DEF AcceptStopped, serveSlotVars, handleVars, closeVars, SlotInv, Registered,
       LifecycleTypeOK, Steps, CloserSteps, CloserInv, Ended
<1>8. ASSUME NEW c \in Cycle, AcceptEndpointClosed(c) PROVE SlotInv'
  BY <1>0, <1>8 DEF AcceptEndpointClosed, serveSlotVars, handleVars, closeVars, SlotInv,
       Registered, LifecycleTypeOK, Steps, CloserSteps, CloserInv, Ended
<1>9. ASSUME NEW c \in Cycle, AcceptDone(c) PROVE SlotInv'
  BY <1>0, <1>9 DEF AcceptDone, serveSlotVars, handleVars, closeVars, SlotInv, Registered,
       LifecycleTypeOK, Steps, CloserSteps, CloserInv, Ended
<1>10. ASSUME NEW c \in Cycle, AcceptAborted(c) PROVE SlotInv'
  BY <1>0, <1>10 DEF AcceptAborted, serveSlotVars, handleVars, closeVars, SlotInv, Registered,
       LifecycleTypeOK, Steps, CloserSteps, CloserInv, Ended
<1>11. ASSUME StopServe PROVE SlotInv'
  BY <1>0, <1>11 DEF StopServe, Shutdown, StopHeard, serveSlotVars, handleVars, closeVars,
       SlotInv, Registered, LifecycleTypeOK, Steps, CloserSteps, CloserInv, Ended
<1>12. ASSUME CloseTakes PROVE SlotInv'
  BY <1>0, <1>12 DEF CloseTakes, serveSlotVars, handleVars, closeVars, SlotInv, Registered,
       LifecycleTypeOK, Steps, CloserSteps, CloserInv, Ended
<1>13. ASSUME DrainBegins PROVE SlotInv'
  BY <1>0, <1>13 DEF DrainBegins, Shutdown, StopHeard, CloserAt, WaitsForEnd, serveSlotVars,
       handleVars, closeVars, SlotInv, Registered, LifecycleTypeOK, Steps, CloserSteps,
       CloserInv, Ended
<1>14. ASSUME DrainEnds PROVE SlotInv'
  BY <1>0, <1>14 DEF DrainEnds, CloserAt, serveSlotVars, handleVars, closeVars, SlotInv,
       Registered, LifecycleTypeOK, Steps, CloserSteps, CloserInv, Ended
<1>15. ASSUME AbortFlag PROVE SlotInv'
  BY <1>0, <1>15 DEF AbortFlag, CloserAt, serveSlotVars, handleVars, closeVars, SlotInv,
       Registered, LifecycleTypeOK, Steps, CloserSteps, CloserInv, Ended
<1>16. ASSUME AbortJoin PROVE SlotInv'
  BY <1>0, <1>16 DEF AbortJoin, CloserAt, serveSlotVars, handleVars, closeVars, SlotInv,
       Registered, LifecycleTypeOK, Steps, CloserSteps, CloserInv, Ended
<1>17. ASSUME ClearLocal PROVE SlotInv'
  BY <1>0, <1>17 DEF ClearLocal, CloserAt, serveSlotVars, handleVars, closeVars, SlotInv,
       Registered, LifecycleTypeOK, Steps, CloserSteps, CloserInv, Ended
<1>18. ASSUME CloseTransport PROVE SlotInv'
  BY <1>0, <1>18 DEF CloseTransport, CloserAt, serveSlotVars, handleVars, closeVars, SlotInv,
       Registered, LifecycleTypeOK, Steps, CloserSteps, CloserInv, Ended
<1>19. ASSUME SendClosed PROVE SlotInv'
  BY <1>0, <1>19 DEF SendClosed, CloserAt, serveSlotVars, handleVars, closeVars, SlotInv,
       Registered, LifecycleTypeOK, Steps, CloserSteps, CloserInv, Ended
<1>20. CASE UNCHANGED lifecycleVars
  BY <1>0, <1>20 DEF lifecycleVars, serveSlotVars, handleVars, closeVars, SlotInv,
       Registered, LifecycleTypeOK, Steps, CloserSteps, CloserInv, Ended
<1> QED
  BY <1>1, <1>2, <1>3, <1>4, <1>5, <1>6, <1>7, <1>8, <1>9, <1>10, <1>11, <1>12, <1>13, <1>14,
      <1>15, <1>16, <1>17, <1>18, <1>19, <1>20 DEF LifecycleNext, ServeCall, AcceptTask,
      CloseStep

\* The task of a cycle exists, and is attached, exactly when its serve call has come that far.
LEMMA TaskInvStep == LifecycleInv /\ [LifecycleNext]_lifecycleVars => TaskInv'
<1> SUFFICES ASSUME LifecycleInv, [LifecycleNext]_lifecycleVars PROVE TaskInv'
  OBVIOUS
<1> USE CycleAssumption DEF NoCycle
<1>0. TaskInv /\ LifecycleTypeOK /\ SlotInv /\ CloserInv
  BY DEF LifecycleInv
<1>1. ASSUME NEW c \in Cycle, Register(c) PROVE TaskInv'
  BY <1>0, <1>1 DEF Register, LifecycleGoto, ShutdownAndClose, Shutdown, StopHeard, Replaced,
       serveSlotVars, handleVars, closeVars, TaskInv, LifecycleTypeOK, Steps, CloserSteps,
       SlotInv, Registered, CloserInv, Ended
<1>2. ASSUME NEW c \in Cycle, Spawn(c) PROVE TaskInv'
  BY <1>0, <1>2 DEF Spawn, LifecycleGoto, serveSlotVars, handleVars, closeVars, TaskInv,
       LifecycleTypeOK, Steps, CloserSteps, SlotInv, Registered, CloserInv, Ended
<1>3. ASSUME NEW c \in Cycle, AttachJoin(c) PROVE TaskInv'
  BY <1>0, <1>3 DEF AttachJoin, LifecycleGoto, AbortedEarly, serveSlotVars, handleVars,
       closeVars, TaskInv, LifecycleTypeOK, Steps, CloserSteps, SlotInv, Registered,
       CloserInv, Ended
<1>4. ASSUME NEW c \in Cycle, InstallLocal(c) PROVE TaskInv'
  BY <1>0, <1>4 DEF InstallLocal, LifecycleGoto, Installs, serveSlotVars, handleVars,
       closeVars, TaskInv, LifecycleTypeOK, Steps, CloserSteps, SlotInv, Registered,
       CloserInv, Ended
<1>5. ASSUME NEW c \in Cycle, HandOff(c) PROVE TaskInv'
  BY <1>0, <1>5 DEF HandOff, LifecycleGoto, LateHandOff, ShutdownAndClose, Shutdown, StopHeard,
       serveSlotVars, handleVars, closeVars, TaskInv, LifecycleTypeOK, Steps, CloserSteps,
       SlotInv, Registered, CloserInv, Ended
<1>6. ASSUME NEW c \in Cycle, AcceptStarts(c) PROVE TaskInv'
  BY <1>0, <1>6 DEF AcceptStarts, serveSlotVars, handleVars, closeVars, TaskInv,
       LifecycleTypeOK, Steps, CloserSteps, SlotInv, Registered, CloserInv, Ended
<1>7. ASSUME NEW c \in Cycle, AcceptStopped(c) PROVE TaskInv'
  BY <1>0, <1>7 DEF AcceptStopped, serveSlotVars, handleVars, closeVars, TaskInv,
       LifecycleTypeOK, Steps, CloserSteps, SlotInv, Registered, CloserInv, Ended
<1>8. ASSUME NEW c \in Cycle, AcceptEndpointClosed(c) PROVE TaskInv'
  BY <1>0, <1>8 DEF AcceptEndpointClosed, serveSlotVars, handleVars, closeVars, TaskInv,
       LifecycleTypeOK, Steps, CloserSteps, SlotInv, Registered, CloserInv, Ended
<1>9. ASSUME NEW c \in Cycle, AcceptDone(c) PROVE TaskInv'
  BY <1>0, <1>9 DEF AcceptDone, serveSlotVars, handleVars, closeVars, TaskInv,
       LifecycleTypeOK, Steps, CloserSteps, SlotInv, Registered, CloserInv, Ended
<1>10. ASSUME NEW c \in Cycle, AcceptAborted(c) PROVE TaskInv'
  BY <1>0, <1>10 DEF AcceptAborted, serveSlotVars, handleVars, closeVars, TaskInv,
       LifecycleTypeOK, Steps, CloserSteps, SlotInv, Registered, CloserInv, Ended
<1>11. ASSUME StopServe PROVE TaskInv'
  BY <1>0, <1>11 DEF StopServe, Shutdown, StopHeard, serveSlotVars, handleVars, closeVars,
       TaskInv, LifecycleTypeOK, Steps, CloserSteps, SlotInv, Registered, CloserInv,
       Ended
<1>12. ASSUME CloseTakes PROVE TaskInv'
  BY <1>0, <1>12 DEF CloseTakes, serveSlotVars, handleVars, closeVars, TaskInv,
       LifecycleTypeOK, Steps, CloserSteps, SlotInv, Registered, CloserInv, Ended
<1>13. ASSUME DrainBegins PROVE TaskInv'
  BY <1>0, <1>13 DEF DrainBegins, Shutdown, StopHeard, CloserAt, WaitsForEnd, serveSlotVars,
       handleVars, closeVars, TaskInv, LifecycleTypeOK, Steps, CloserSteps, SlotInv,
       Registered, CloserInv, Ended
<1>14. ASSUME DrainEnds PROVE TaskInv'
  BY <1>0, <1>14 DEF DrainEnds, CloserAt, serveSlotVars, handleVars, closeVars, TaskInv,
       LifecycleTypeOK, Steps, CloserSteps, SlotInv, Registered, CloserInv, Ended
<1>15. ASSUME AbortFlag PROVE TaskInv'
  BY <1>0, <1>15 DEF AbortFlag, CloserAt, serveSlotVars, handleVars, closeVars, TaskInv,
       LifecycleTypeOK, Steps, CloserSteps, SlotInv, Registered, CloserInv, Ended
<1>16. ASSUME AbortJoin PROVE TaskInv'
  BY <1>0, <1>16 DEF AbortJoin, CloserAt, serveSlotVars, handleVars, closeVars, TaskInv,
       LifecycleTypeOK, Steps, CloserSteps, SlotInv, Registered, CloserInv, Ended
<1>17. ASSUME ClearLocal PROVE TaskInv'
  BY <1>0, <1>17 DEF ClearLocal, CloserAt, serveSlotVars, handleVars, closeVars, TaskInv,
       LifecycleTypeOK, Steps, CloserSteps, SlotInv, Registered, CloserInv, Ended
<1>18. ASSUME CloseTransport PROVE TaskInv'
  BY <1>0, <1>18 DEF CloseTransport, CloserAt, serveSlotVars, handleVars, closeVars, TaskInv,
       LifecycleTypeOK, Steps, CloserSteps, SlotInv, Registered, CloserInv, Ended
<1>19. ASSUME SendClosed PROVE TaskInv'
  BY <1>0, <1>19 DEF SendClosed, CloserAt, serveSlotVars, handleVars, closeVars, TaskInv,
       LifecycleTypeOK, Steps, CloserSteps, SlotInv, Registered, CloserInv, Ended
<1>20. CASE UNCHANGED lifecycleVars
  BY <1>0, <1>20 DEF lifecycleVars, serveSlotVars, handleVars, closeVars, TaskInv,
       LifecycleTypeOK, Steps, CloserSteps, SlotInv, Registered, CloserInv, Ended
<1> QED
  BY <1>1, <1>2, <1>3, <1>4, <1>5, <1>6, <1>7, <1>8, <1>9, <1>10, <1>11, <1>12, <1>13, <1>14,
      <1>15, <1>16, <1>17, <1>18, <1>19, <1>20 DEF LifecycleNext, ServeCall, AcceptTask,
      CloseStep

\* The close call's progress is preserved; only the accept task changes what it waits for.
LEMMA CloserInvStep == LifecycleInv /\ [LifecycleNext]_lifecycleVars => CloserInv'
<1> SUFFICES ASSUME LifecycleInv, [LifecycleNext]_lifecycleVars PROVE CloserInv'
  OBVIOUS
<1> USE CycleAssumption DEF NoCycle
<1>0. CloserInv /\ LifecycleTypeOK /\ SlotInv /\ TaskInv
  BY DEF LifecycleInv
<1>1. ASSUME NEW c \in Cycle, Register(c) PROVE CloserInv'
  BY <1>0, <1>1 DEF Register, LifecycleGoto, ShutdownAndClose, Shutdown, StopHeard, Replaced,
       serveSlotVars, handleVars, closeVars, CloserInv, Ended, LifecycleTypeOK, Steps,
       CloserSteps, SlotInv, Registered, TaskInv
<1>2. ASSUME NEW c \in Cycle, Spawn(c) PROVE CloserInv'
  BY <1>0, <1>2 DEF Spawn, LifecycleGoto, serveSlotVars, handleVars, closeVars, CloserInv,
       Ended, LifecycleTypeOK, Steps, CloserSteps, SlotInv, Registered, TaskInv
<1>3. ASSUME NEW c \in Cycle, AttachJoin(c) PROVE CloserInv'
  BY <1>0, <1>3 DEF AttachJoin, LifecycleGoto, AbortedEarly, serveSlotVars, handleVars,
       closeVars, CloserInv, Ended, LifecycleTypeOK, Steps, CloserSteps, SlotInv,
       Registered, TaskInv
<1>4. ASSUME NEW c \in Cycle, InstallLocal(c) PROVE CloserInv'
  BY <1>0, <1>4 DEF InstallLocal, LifecycleGoto, Installs, serveSlotVars, handleVars, closeVars,
       CloserInv, Ended, LifecycleTypeOK, Steps, CloserSteps, SlotInv, Registered,
       TaskInv
<1>5. ASSUME NEW c \in Cycle, HandOff(c) PROVE CloserInv'
  BY <1>0, <1>5 DEF HandOff, LifecycleGoto, LateHandOff, ShutdownAndClose, Shutdown, StopHeard,
       serveSlotVars, handleVars, closeVars, CloserInv, Ended, LifecycleTypeOK, Steps,
       CloserSteps, SlotInv, Registered, TaskInv
<1>6. ASSUME NEW c \in Cycle, AcceptStarts(c) PROVE CloserInv'
  BY <1>0, <1>6 DEF AcceptStarts, serveSlotVars, handleVars, closeVars, CloserInv, Ended,
       LifecycleTypeOK, Steps, CloserSteps, SlotInv, Registered, TaskInv
<1>7. ASSUME NEW c \in Cycle, AcceptStopped(c) PROVE CloserInv'
  BY <1>0, <1>7 DEF AcceptStopped, serveSlotVars, handleVars, closeVars, CloserInv, Ended,
       LifecycleTypeOK, Steps, CloserSteps, SlotInv, Registered, TaskInv
<1>8. ASSUME NEW c \in Cycle, AcceptEndpointClosed(c) PROVE CloserInv'
  BY <1>0, <1>8 DEF AcceptEndpointClosed, serveSlotVars, handleVars, closeVars, CloserInv,
       Ended, LifecycleTypeOK, Steps, CloserSteps, SlotInv, Registered, TaskInv
<1>9. ASSUME NEW c \in Cycle, AcceptDone(c) PROVE CloserInv'
  BY <1>0, <1>9 DEF AcceptDone, serveSlotVars, handleVars, closeVars, CloserInv, Ended,
       LifecycleTypeOK, Steps, CloserSteps, SlotInv, Registered, TaskInv
<1>10. ASSUME NEW c \in Cycle, AcceptAborted(c) PROVE CloserInv'
  BY <1>0, <1>10 DEF AcceptAborted, serveSlotVars, handleVars, closeVars, CloserInv, Ended,
       LifecycleTypeOK, Steps, CloserSteps, SlotInv, Registered, TaskInv
<1>11. ASSUME StopServe PROVE CloserInv'
  BY <1>0, <1>11 DEF StopServe, Shutdown, StopHeard, serveSlotVars, handleVars, closeVars,
       CloserInv, Ended, LifecycleTypeOK, Steps, CloserSteps, SlotInv, Registered,
       TaskInv
<1>12. ASSUME CloseTakes PROVE CloserInv'
  BY <1>0, <1>12 DEF CloseTakes, serveSlotVars, handleVars, closeVars, CloserInv, Ended,
       LifecycleTypeOK, Steps, CloserSteps, SlotInv, Registered, TaskInv
<1>13. ASSUME DrainBegins PROVE CloserInv'
  BY <1>0, <1>13 DEF DrainBegins, Shutdown, StopHeard, CloserAt, WaitsForEnd, serveSlotVars,
       handleVars, closeVars, CloserInv, Ended, LifecycleTypeOK, Steps, CloserSteps,
       SlotInv, Registered, TaskInv
<1>14. ASSUME DrainEnds PROVE CloserInv'
  BY <1>0, <1>14 DEF DrainEnds, CloserAt, serveSlotVars, handleVars, closeVars, CloserInv,
       Ended, LifecycleTypeOK, Steps, CloserSteps, SlotInv, Registered, TaskInv
<1>15. ASSUME AbortFlag PROVE CloserInv'
  BY <1>0, <1>15 DEF AbortFlag, CloserAt, serveSlotVars, handleVars, closeVars, CloserInv,
       Ended, LifecycleTypeOK, Steps, CloserSteps, SlotInv, Registered, TaskInv
<1>16. ASSUME AbortJoin PROVE CloserInv'
  BY <1>0, <1>16 DEF AbortJoin, CloserAt, serveSlotVars, handleVars, closeVars, CloserInv,
       Ended, LifecycleTypeOK, Steps, CloserSteps, SlotInv, Registered, TaskInv
<1>17. ASSUME ClearLocal PROVE CloserInv'
  BY <1>0, <1>17 DEF ClearLocal, CloserAt, serveSlotVars, handleVars, closeVars, CloserInv,
       Ended, LifecycleTypeOK, Steps, CloserSteps, SlotInv, Registered, TaskInv
<1>18. ASSUME CloseTransport PROVE CloserInv'
  BY <1>0, <1>18 DEF CloseTransport, CloserAt, serveSlotVars, handleVars, closeVars, CloserInv,
       Ended, LifecycleTypeOK, Steps, CloserSteps, SlotInv, Registered, TaskInv
<1>19. ASSUME SendClosed PROVE CloserInv'
  BY <1>0, <1>19 DEF SendClosed, CloserAt, serveSlotVars, handleVars, closeVars, CloserInv,
       Ended, LifecycleTypeOK, Steps, CloserSteps, SlotInv, Registered, TaskInv
<1>20. CASE UNCHANGED lifecycleVars
  BY <1>0, <1>20 DEF lifecycleVars, serveSlotVars, handleVars, closeVars, CloserInv, Ended,
       LifecycleTypeOK, Steps, CloserSteps, SlotInv, Registered, TaskInv
<1> QED
  BY <1>1, <1>2, <1>3, <1>4, <1>5, <1>6, <1>7, <1>8, <1>9, <1>10, <1>11, <1>12, <1>13, <1>14,
      <1>15, <1>16, <1>17, <1>18, <1>19, <1>20 DEF LifecycleNext, ServeCall, AcceptTask,
      CloseStep

\* A registration, the only step that empties the slot besides a close, stops the cycle it replaces.
LEMMA EveryCycleControlledStep == LifecycleInv /\ [LifecycleNext]_lifecycleVars => EveryCycleControlled'
<1> SUFFICES ASSUME LifecycleInv, [LifecycleNext]_lifecycleVars PROVE EveryCycleControlled'
  OBVIOUS
<1> USE CycleAssumption DEF NoCycle
<1>0. EveryCycleControlled /\ LifecycleTypeOK /\ SlotInv /\ CloserInv
  BY DEF LifecycleInv
<1>1. ASSUME NEW c \in Cycle, Register(c) PROVE EveryCycleControlled'
  BY <1>0, <1>1 DEF Register, LifecycleGoto, ShutdownAndClose, Shutdown, StopHeard, Replaced,
       serveSlotVars, handleVars, closeVars, EveryCycleControlled, Registered,
       LifecycleTypeOK, Steps, CloserSteps, SlotInv, CloserInv, Ended
<1>2. ASSUME NEW c \in Cycle, Spawn(c) PROVE EveryCycleControlled'
  BY <1>0, <1>2 DEF Spawn, LifecycleGoto, serveSlotVars, handleVars, closeVars,
       EveryCycleControlled, Registered, LifecycleTypeOK, Steps, CloserSteps, SlotInv,
       CloserInv, Ended
<1>3. ASSUME NEW c \in Cycle, AttachJoin(c) PROVE EveryCycleControlled'
  BY <1>0, <1>3 DEF AttachJoin, LifecycleGoto, AbortedEarly, serveSlotVars, handleVars,
       closeVars, EveryCycleControlled, Registered, LifecycleTypeOK, Steps, CloserSteps,
       SlotInv, CloserInv, Ended
<1>4. ASSUME NEW c \in Cycle, InstallLocal(c) PROVE EveryCycleControlled'
  BY <1>0, <1>4 DEF InstallLocal, LifecycleGoto, Installs, serveSlotVars, handleVars, closeVars,
       EveryCycleControlled, Registered, LifecycleTypeOK, Steps, CloserSteps, SlotInv,
       CloserInv, Ended
<1>5. ASSUME NEW c \in Cycle, HandOff(c) PROVE EveryCycleControlled'
  BY <1>0, <1>5 DEF HandOff, LifecycleGoto, LateHandOff, ShutdownAndClose, Shutdown, StopHeard,
       serveSlotVars, handleVars, closeVars, EveryCycleControlled, Registered,
       LifecycleTypeOK, Steps, CloserSteps, SlotInv, CloserInv, Ended
<1>6. ASSUME NEW c \in Cycle, AcceptStarts(c) PROVE EveryCycleControlled'
  BY <1>0, <1>6 DEF AcceptStarts, serveSlotVars, handleVars, closeVars, EveryCycleControlled,
       Registered, LifecycleTypeOK, Steps, CloserSteps, SlotInv, CloserInv, Ended
<1>7. ASSUME NEW c \in Cycle, AcceptStopped(c) PROVE EveryCycleControlled'
  BY <1>0, <1>7 DEF AcceptStopped, serveSlotVars, handleVars, closeVars, EveryCycleControlled,
       Registered, LifecycleTypeOK, Steps, CloserSteps, SlotInv, CloserInv, Ended
<1>8. ASSUME NEW c \in Cycle, AcceptEndpointClosed(c) PROVE EveryCycleControlled'
  BY <1>0, <1>8 DEF AcceptEndpointClosed, serveSlotVars, handleVars, closeVars,
       EveryCycleControlled, Registered, LifecycleTypeOK, Steps, CloserSteps, SlotInv,
       CloserInv, Ended
<1>9. ASSUME NEW c \in Cycle, AcceptDone(c) PROVE EveryCycleControlled'
  BY <1>0, <1>9 DEF AcceptDone, serveSlotVars, handleVars, closeVars, EveryCycleControlled,
       Registered, LifecycleTypeOK, Steps, CloserSteps, SlotInv, CloserInv, Ended
<1>10. ASSUME NEW c \in Cycle, AcceptAborted(c) PROVE EveryCycleControlled'
  BY <1>0, <1>10 DEF AcceptAborted, serveSlotVars, handleVars, closeVars, EveryCycleControlled,
       Registered, LifecycleTypeOK, Steps, CloserSteps, SlotInv, CloserInv, Ended
<1>11. ASSUME StopServe PROVE EveryCycleControlled'
  BY <1>0, <1>11 DEF StopServe, Shutdown, StopHeard, serveSlotVars, handleVars, closeVars,
       EveryCycleControlled, Registered, LifecycleTypeOK, Steps, CloserSteps, SlotInv,
       CloserInv, Ended
<1>12. ASSUME CloseTakes PROVE EveryCycleControlled'
  BY <1>0, <1>12 DEF CloseTakes, serveSlotVars, handleVars, closeVars, EveryCycleControlled,
       Registered, LifecycleTypeOK, Steps, CloserSteps, SlotInv, CloserInv, Ended
<1>13. ASSUME DrainBegins PROVE EveryCycleControlled'
  BY <1>0, <1>13 DEF DrainBegins, Shutdown, StopHeard, CloserAt, WaitsForEnd, serveSlotVars,
       handleVars, closeVars, EveryCycleControlled, Registered, LifecycleTypeOK, Steps,
       CloserSteps, SlotInv, CloserInv, Ended
<1>14. ASSUME DrainEnds PROVE EveryCycleControlled'
  BY <1>0, <1>14 DEF DrainEnds, CloserAt, serveSlotVars, handleVars, closeVars,
       EveryCycleControlled, Registered, LifecycleTypeOK, Steps, CloserSteps, SlotInv,
       CloserInv, Ended
<1>15. ASSUME AbortFlag PROVE EveryCycleControlled'
  BY <1>0, <1>15 DEF AbortFlag, CloserAt, serveSlotVars, handleVars, closeVars,
       EveryCycleControlled, Registered, LifecycleTypeOK, Steps, CloserSteps, SlotInv,
       CloserInv, Ended
<1>16. ASSUME AbortJoin PROVE EveryCycleControlled'
  BY <1>0, <1>16 DEF AbortJoin, CloserAt, serveSlotVars, handleVars, closeVars,
       EveryCycleControlled, Registered, LifecycleTypeOK, Steps, CloserSteps, SlotInv,
       CloserInv, Ended
<1>17. ASSUME ClearLocal PROVE EveryCycleControlled'
  BY <1>0, <1>17 DEF ClearLocal, CloserAt, serveSlotVars, handleVars, closeVars,
       EveryCycleControlled, Registered, LifecycleTypeOK, Steps, CloserSteps, SlotInv,
       CloserInv, Ended
<1>18. ASSUME CloseTransport PROVE EveryCycleControlled'
  BY <1>0, <1>18 DEF CloseTransport, CloserAt, serveSlotVars, handleVars, closeVars,
       EveryCycleControlled, Registered, LifecycleTypeOK, Steps, CloserSteps, SlotInv,
       CloserInv, Ended
<1>19. ASSUME SendClosed PROVE EveryCycleControlled'
  BY <1>0, <1>19 DEF SendClosed, CloserAt, serveSlotVars, handleVars, closeVars,
       EveryCycleControlled, Registered, LifecycleTypeOK, Steps, CloserSteps, SlotInv,
       CloserInv, Ended
<1>20. CASE UNCHANGED lifecycleVars
  BY <1>0, <1>20 DEF lifecycleVars, serveSlotVars, handleVars, closeVars, EveryCycleControlled,
       Registered, LifecycleTypeOK, Steps, CloserSteps, SlotInv, CloserInv, Ended
<1> QED
  BY <1>1, <1>2, <1>3, <1>4, <1>5, <1>6, <1>7, <1>8, <1>9, <1>10, <1>11, <1>12, <1>13, <1>14,
      <1>15, <1>16, <1>17, <1>18, <1>19, <1>20 DEF LifecycleNext, ServeCall, AcceptTask,
      CloseStep

\* Every step that stops or replaces a cycle clears the local service in the same step.
LEMMA LocalIsCurrentStep == LifecycleInv /\ [LifecycleNext]_lifecycleVars => LocalIsCurrent'
<1> SUFFICES ASSUME LifecycleInv, [LifecycleNext]_lifecycleVars PROVE LocalIsCurrent'
  OBVIOUS
<1> USE CycleAssumption DEF NoCycle
<1>0. LocalIsCurrent /\ LifecycleTypeOK /\ SlotInv /\ CloserInv /\ CutOnlyWhenSuperseded
  BY DEF LifecycleInv
<1>1. ASSUME NEW c \in Cycle, Register(c) PROVE LocalIsCurrent'
  BY <1>0, <1>1 DEF Register, LifecycleGoto, ShutdownAndClose, Shutdown, StopHeard,
       Replaced, serveSlotVars, handleVars, closeVars, LocalIsCurrent, LifecycleTypeOK,
       Steps, CloserSteps, SlotInv, Registered, CloserInv, Ended, CutOnlyWhenSuperseded
<1>2. ASSUME NEW c \in Cycle, Spawn(c) PROVE LocalIsCurrent'
  BY <1>0, <1>2 DEF Spawn, LifecycleGoto, serveSlotVars, handleVars, closeVars,
       LocalIsCurrent, LifecycleTypeOK, Steps, CloserSteps, SlotInv, Registered, CloserInv,
       Ended, CutOnlyWhenSuperseded
<1>3. ASSUME NEW c \in Cycle, AttachJoin(c) PROVE LocalIsCurrent'
  BY <1>0, <1>3 DEF AttachJoin, LifecycleGoto, AbortedEarly, serveSlotVars, handleVars,
       closeVars, LocalIsCurrent, LifecycleTypeOK, Steps, CloserSteps, SlotInv, Registered,
       CloserInv, Ended, CutOnlyWhenSuperseded
<1>4. ASSUME NEW c \in Cycle, InstallLocal(c) PROVE LocalIsCurrent'
  BY <1>0, <1>4 DEF InstallLocal, LifecycleGoto, Installs, serveSlotVars, handleVars, closeVars,
       LocalIsCurrent, LifecycleTypeOK, Steps, CloserSteps, SlotInv, Registered,
       CloserInv, Ended, CutOnlyWhenSuperseded
<1>5. ASSUME NEW c \in Cycle, HandOff(c) PROVE LocalIsCurrent'
  BY <1>0, <1>5 DEF HandOff, LifecycleGoto, LateHandOff, ShutdownAndClose, Shutdown,
       StopHeard, serveSlotVars, handleVars, closeVars, LocalIsCurrent, LifecycleTypeOK,
       Steps, CloserSteps, SlotInv, Registered, CloserInv, Ended, CutOnlyWhenSuperseded
<1>6. ASSUME NEW c \in Cycle, AcceptStarts(c) PROVE LocalIsCurrent'
  BY <1>0, <1>6 DEF AcceptStarts, serveSlotVars, handleVars, closeVars, LocalIsCurrent,
       LifecycleTypeOK, Steps, CloserSteps, SlotInv, Registered, CloserInv, Ended,
       CutOnlyWhenSuperseded
<1>7. ASSUME NEW c \in Cycle, AcceptStopped(c) PROVE LocalIsCurrent'
  BY <1>0, <1>7 DEF AcceptStopped, serveSlotVars, handleVars, closeVars, LocalIsCurrent,
       LifecycleTypeOK, Steps, CloserSteps, SlotInv, Registered, CloserInv, Ended,
       CutOnlyWhenSuperseded
<1>8. ASSUME NEW c \in Cycle, AcceptEndpointClosed(c) PROVE LocalIsCurrent'
  BY <1>0, <1>8 DEF AcceptEndpointClosed, serveSlotVars, handleVars, closeVars, LocalIsCurrent,
       LifecycleTypeOK, Steps, CloserSteps, SlotInv, Registered, CloserInv, Ended,
       CutOnlyWhenSuperseded
<1>9. ASSUME NEW c \in Cycle, AcceptDone(c) PROVE LocalIsCurrent'
  BY <1>0, <1>9 DEF AcceptDone, serveSlotVars, handleVars, closeVars, LocalIsCurrent,
       LifecycleTypeOK, Steps, CloserSteps, SlotInv, Registered, CloserInv, Ended,
       CutOnlyWhenSuperseded
<1>10. ASSUME NEW c \in Cycle, AcceptAborted(c) PROVE LocalIsCurrent'
  BY <1>0, <1>10 DEF AcceptAborted, serveSlotVars, handleVars, closeVars, LocalIsCurrent,
       LifecycleTypeOK, Steps, CloserSteps, SlotInv, Registered, CloserInv, Ended,
       CutOnlyWhenSuperseded
<1>11. ASSUME StopServe PROVE LocalIsCurrent'
  BY <1>0, <1>11 DEF StopServe, Shutdown, StopHeard, serveSlotVars, handleVars, closeVars,
       LocalIsCurrent, LifecycleTypeOK, Steps, CloserSteps, SlotInv, Registered,
       CloserInv, Ended, CutOnlyWhenSuperseded
<1>12. ASSUME CloseTakes PROVE LocalIsCurrent'
  BY <1>0, <1>12 DEF CloseTakes, serveSlotVars, handleVars, closeVars, LocalIsCurrent,
       LifecycleTypeOK, Steps, CloserSteps, SlotInv, Registered, CloserInv, Ended,
       CutOnlyWhenSuperseded
<1>13. ASSUME DrainBegins PROVE LocalIsCurrent'
  BY <1>0, <1>13 DEF DrainBegins, Shutdown, StopHeard, CloserAt, WaitsForEnd, serveSlotVars,
       handleVars, closeVars, LocalIsCurrent, LifecycleTypeOK, Steps, CloserSteps,
       SlotInv, Registered, CloserInv, Ended, CutOnlyWhenSuperseded
<1>14. ASSUME DrainEnds PROVE LocalIsCurrent'
  BY <1>0, <1>14 DEF DrainEnds, CloserAt, serveSlotVars, handleVars, closeVars, LocalIsCurrent,
       LifecycleTypeOK, Steps, CloserSteps, SlotInv, Registered, CloserInv, Ended,
       CutOnlyWhenSuperseded
<1>15. ASSUME AbortFlag PROVE LocalIsCurrent'
  BY <1>0, <1>15 DEF AbortFlag, CloserAt, serveSlotVars, handleVars, closeVars, LocalIsCurrent,
       LifecycleTypeOK, Steps, CloserSteps, SlotInv, Registered, CloserInv, Ended,
       CutOnlyWhenSuperseded
<1>16. ASSUME AbortJoin PROVE LocalIsCurrent'
  BY <1>0, <1>16 DEF AbortJoin, CloserAt, serveSlotVars, handleVars, closeVars, LocalIsCurrent,
       LifecycleTypeOK, Steps, CloserSteps, SlotInv, Registered, CloserInv, Ended,
       CutOnlyWhenSuperseded
<1>17. ASSUME ClearLocal PROVE LocalIsCurrent'
  BY <1>0, <1>17 DEF ClearLocal, CloserAt, serveSlotVars, handleVars, closeVars, LocalIsCurrent,
       LifecycleTypeOK, Steps, CloserSteps, SlotInv, Registered, CloserInv, Ended,
       CutOnlyWhenSuperseded
<1>18. ASSUME CloseTransport PROVE LocalIsCurrent'
  BY <1>0, <1>18 DEF CloseTransport, CloserAt, serveSlotVars, handleVars, closeVars,
       LocalIsCurrent, LifecycleTypeOK, Steps, CloserSteps, SlotInv, Registered,
       CloserInv, Ended, CutOnlyWhenSuperseded
<1>19. ASSUME SendClosed PROVE LocalIsCurrent'
  BY <1>0, <1>19 DEF SendClosed, CloserAt, serveSlotVars, handleVars, closeVars, LocalIsCurrent,
       LifecycleTypeOK, Steps, CloserSteps, SlotInv, Registered, CloserInv, Ended,
       CutOnlyWhenSuperseded
<1>20. CASE UNCHANGED lifecycleVars
  BY <1>0, <1>20 DEF lifecycleVars, serveSlotVars, handleVars, closeVars, LocalIsCurrent,
       LifecycleTypeOK, Steps, CloserSteps, SlotInv, Registered, CloserInv, Ended,
       CutOnlyWhenSuperseded
<1> QED
  BY <1>1, <1>2, <1>3, <1>4, <1>5, <1>6, <1>7, <1>8, <1>9, <1>10, <1>11, <1>12, <1>13, <1>14,
      <1>15, <1>16, <1>17, <1>18, <1>19, <1>20 DEF LifecycleNext, ServeCall, AcceptTask,
      CloseStep

\* Whichever of AbortJoin and AttachJoin comes second tells the task.
LEMMA AbortReachesTaskStep == LifecycleInv /\ [LifecycleNext]_lifecycleVars => AbortReachesTask'
<1> SUFFICES ASSUME LifecycleInv, [LifecycleNext]_lifecycleVars PROVE AbortReachesTask'
  OBVIOUS
<1> USE CycleAssumption DEF NoCycle
<1>0. AbortReachesTask /\ LifecycleTypeOK /\ SlotInv /\ TaskInv /\ CloserInv
  BY DEF LifecycleInv
<1>1. ASSUME NEW c \in Cycle, Register(c) PROVE AbortReachesTask'
  BY <1>0, <1>1 DEF Register, LifecycleGoto, ShutdownAndClose, Shutdown, StopHeard, Replaced,
       serveSlotVars, handleVars, closeVars, AbortReachesTask, LifecycleTypeOK, Steps,
       CloserSteps, SlotInv, Registered, TaskInv, CloserInv, Ended
<1>2. ASSUME NEW c \in Cycle, Spawn(c) PROVE AbortReachesTask'
  BY <1>0, <1>2 DEF Spawn, LifecycleGoto, serveSlotVars, handleVars, closeVars,
       AbortReachesTask, LifecycleTypeOK, Steps, CloserSteps, SlotInv, Registered, TaskInv,
       CloserInv, Ended
<1>3. ASSUME NEW c \in Cycle, AttachJoin(c) PROVE AbortReachesTask'
  BY <1>0, <1>3 DEF AttachJoin, LifecycleGoto, AbortedEarly, serveSlotVars, handleVars,
       closeVars, AbortReachesTask, LifecycleTypeOK, Steps, CloserSteps, SlotInv,
       Registered, TaskInv, CloserInv, Ended
<1>4. ASSUME NEW c \in Cycle, InstallLocal(c) PROVE AbortReachesTask'
  BY <1>0, <1>4 DEF InstallLocal, LifecycleGoto, Installs, serveSlotVars, handleVars, closeVars,
       AbortReachesTask, LifecycleTypeOK, Steps, CloserSteps, SlotInv, Registered,
       TaskInv, CloserInv, Ended
<1>5. ASSUME NEW c \in Cycle, HandOff(c) PROVE AbortReachesTask'
  BY <1>0, <1>5 DEF HandOff, LifecycleGoto, LateHandOff, ShutdownAndClose, Shutdown, StopHeard,
       serveSlotVars, handleVars, closeVars, AbortReachesTask, LifecycleTypeOK, Steps,
       CloserSteps, SlotInv, Registered, TaskInv, CloserInv, Ended
<1>6. ASSUME NEW c \in Cycle, AcceptStarts(c) PROVE AbortReachesTask'
  BY <1>0, <1>6 DEF AcceptStarts, serveSlotVars, handleVars, closeVars, AbortReachesTask,
       LifecycleTypeOK, Steps, CloserSteps, SlotInv, Registered, TaskInv, CloserInv,
       Ended
<1>7. ASSUME NEW c \in Cycle, AcceptStopped(c) PROVE AbortReachesTask'
  BY <1>0, <1>7 DEF AcceptStopped, serveSlotVars, handleVars, closeVars, AbortReachesTask,
       LifecycleTypeOK, Steps, CloserSteps, SlotInv, Registered, TaskInv, CloserInv,
       Ended
<1>8. ASSUME NEW c \in Cycle, AcceptEndpointClosed(c) PROVE AbortReachesTask'
  BY <1>0, <1>8 DEF AcceptEndpointClosed, serveSlotVars, handleVars, closeVars,
       AbortReachesTask, LifecycleTypeOK, Steps, CloserSteps, SlotInv, Registered,
       TaskInv, CloserInv, Ended
<1>9. ASSUME NEW c \in Cycle, AcceptDone(c) PROVE AbortReachesTask'
  BY <1>0, <1>9 DEF AcceptDone, serveSlotVars, handleVars, closeVars, AbortReachesTask,
       LifecycleTypeOK, Steps, CloserSteps, SlotInv, Registered, TaskInv, CloserInv, Ended
<1>10. ASSUME NEW c \in Cycle, AcceptAborted(c) PROVE AbortReachesTask'
  BY <1>0, <1>10 DEF AcceptAborted, serveSlotVars, handleVars, closeVars, AbortReachesTask,
       LifecycleTypeOK, Steps, CloserSteps, SlotInv, Registered, TaskInv, CloserInv,
       Ended
<1>11. ASSUME StopServe PROVE AbortReachesTask'
  BY <1>0, <1>11 DEF StopServe, Shutdown, StopHeard, serveSlotVars, handleVars, closeVars,
       AbortReachesTask, LifecycleTypeOK, Steps, CloserSteps, SlotInv, Registered,
       TaskInv, CloserInv, Ended
<1>12. ASSUME CloseTakes PROVE AbortReachesTask'
  BY <1>0, <1>12 DEF CloseTakes, serveSlotVars, handleVars, closeVars, AbortReachesTask,
       LifecycleTypeOK, Steps, CloserSteps, SlotInv, Registered, TaskInv, CloserInv, Ended
<1>13. ASSUME DrainBegins PROVE AbortReachesTask'
  BY <1>0, <1>13 DEF DrainBegins, Shutdown, StopHeard, CloserAt, WaitsForEnd, serveSlotVars,
       handleVars, closeVars, AbortReachesTask, LifecycleTypeOK, Steps, CloserSteps,
       SlotInv, Registered, TaskInv, CloserInv, Ended
<1>14. ASSUME DrainEnds PROVE AbortReachesTask'
  BY <1>0, <1>14 DEF DrainEnds, CloserAt, serveSlotVars, handleVars, closeVars,
       AbortReachesTask, LifecycleTypeOK, Steps, CloserSteps, SlotInv, Registered, TaskInv,
       CloserInv, Ended
<1>15. ASSUME AbortFlag PROVE AbortReachesTask'
  BY <1>0, <1>15 DEF AbortFlag, CloserAt, serveSlotVars, handleVars, closeVars,
       AbortReachesTask, LifecycleTypeOK, Steps, CloserSteps, SlotInv, Registered, TaskInv,
       CloserInv, Ended
<1>16. ASSUME AbortJoin PROVE AbortReachesTask'
  BY <1>0, <1>16 DEF AbortJoin, CloserAt, serveSlotVars, handleVars, closeVars,
       AbortReachesTask, LifecycleTypeOK, Steps, CloserSteps, SlotInv, Registered, TaskInv,
       CloserInv, Ended
<1>17. ASSUME ClearLocal PROVE AbortReachesTask'
  BY <1>0, <1>17 DEF ClearLocal, CloserAt, serveSlotVars, handleVars, closeVars,
       AbortReachesTask, LifecycleTypeOK, Steps, CloserSteps, SlotInv, Registered,
       TaskInv, CloserInv, Ended
<1>18. ASSUME CloseTransport PROVE AbortReachesTask'
  BY <1>0, <1>18 DEF CloseTransport, CloserAt, serveSlotVars, handleVars, closeVars,
       AbortReachesTask, LifecycleTypeOK, Steps, CloserSteps, SlotInv, Registered,
       TaskInv, CloserInv, Ended
<1>19. ASSUME SendClosed PROVE AbortReachesTask'
  BY <1>0, <1>19 DEF SendClosed, CloserAt, serveSlotVars, handleVars, closeVars,
       AbortReachesTask, LifecycleTypeOK, Steps, CloserSteps, SlotInv, Registered,
       TaskInv, CloserInv, Ended
<1>20. CASE UNCHANGED lifecycleVars
  BY <1>0, <1>20 DEF lifecycleVars, serveSlotVars, handleVars, closeVars, AbortReachesTask,
       LifecycleTypeOK, Steps, CloserSteps, SlotInv, Registered, TaskInv, CloserInv, Ended
<1> QED
  BY <1>1, <1>2, <1>3, <1>4, <1>5, <1>6, <1>7, <1>8, <1>9, <1>10, <1>11, <1>12, <1>13, <1>14,
      <1>15, <1>16, <1>17, <1>18, <1>19, <1>20 DEF LifecycleNext, ServeCall, AcceptTask,
      CloseStep

\* Connections are cut when the slot holds another cycle or a close took it.
LEMMA CutOnlyWhenSupersededStep == LifecycleInv /\ [LifecycleNext]_lifecycleVars => CutOnlyWhenSuperseded'
<1> SUFFICES ASSUME LifecycleInv, [LifecycleNext]_lifecycleVars PROVE CutOnlyWhenSuperseded'
  OBVIOUS
<1> USE CycleAssumption DEF NoCycle
<1>0. CutOnlyWhenSuperseded /\ LifecycleTypeOK /\ SlotInv /\ TaskInv /\ CloserInv
  BY DEF LifecycleInv
<1>1. ASSUME NEW c \in Cycle, Register(c) PROVE CutOnlyWhenSuperseded'
  BY <1>0, <1>1 DEF Register, LifecycleGoto, ShutdownAndClose, Shutdown, StopHeard, Replaced,
       serveSlotVars, handleVars, closeVars, CutOnlyWhenSuperseded, LifecycleTypeOK, Steps,
       CloserSteps, SlotInv, Registered, TaskInv, CloserInv, Ended
<1>2. ASSUME NEW c \in Cycle, Spawn(c) PROVE CutOnlyWhenSuperseded'
  BY <1>0, <1>2 DEF Spawn, LifecycleGoto, serveSlotVars, handleVars, closeVars,
       CutOnlyWhenSuperseded, LifecycleTypeOK, Steps, CloserSteps, SlotInv, Registered,
       TaskInv, CloserInv, Ended
<1>3. ASSUME NEW c \in Cycle, AttachJoin(c) PROVE CutOnlyWhenSuperseded'
  BY <1>0, <1>3 DEF AttachJoin, LifecycleGoto, AbortedEarly, serveSlotVars, handleVars,
       closeVars, CutOnlyWhenSuperseded, LifecycleTypeOK, Steps, CloserSteps, SlotInv,
       Registered, TaskInv, CloserInv, Ended
<1>4. ASSUME NEW c \in Cycle, InstallLocal(c) PROVE CutOnlyWhenSuperseded'
  BY <1>0, <1>4 DEF InstallLocal, LifecycleGoto, Installs, serveSlotVars, handleVars, closeVars,
       CutOnlyWhenSuperseded, LifecycleTypeOK, Steps, CloserSteps, SlotInv, Registered,
       TaskInv, CloserInv, Ended
<1>5. ASSUME NEW c \in Cycle, HandOff(c) PROVE CutOnlyWhenSuperseded'
  BY <1>0, <1>5 DEF HandOff, LifecycleGoto, LateHandOff, ShutdownAndClose, Shutdown, StopHeard,
       serveSlotVars, handleVars, closeVars, CutOnlyWhenSuperseded, LifecycleTypeOK, Steps,
       CloserSteps, SlotInv, Registered, TaskInv, CloserInv, Ended
<1>6. ASSUME NEW c \in Cycle, AcceptStarts(c) PROVE CutOnlyWhenSuperseded'
  BY <1>0, <1>6 DEF AcceptStarts, serveSlotVars, handleVars, closeVars, CutOnlyWhenSuperseded,
       LifecycleTypeOK, Steps, CloserSteps, SlotInv, Registered, TaskInv, CloserInv,
       Ended
<1>7. ASSUME NEW c \in Cycle, AcceptStopped(c) PROVE CutOnlyWhenSuperseded'
  BY <1>0, <1>7 DEF AcceptStopped, serveSlotVars, handleVars, closeVars, CutOnlyWhenSuperseded,
       LifecycleTypeOK, Steps, CloserSteps, SlotInv, Registered, TaskInv, CloserInv,
       Ended
<1>8. ASSUME NEW c \in Cycle, AcceptEndpointClosed(c) PROVE CutOnlyWhenSuperseded'
  BY <1>0, <1>8 DEF AcceptEndpointClosed, serveSlotVars, handleVars, closeVars,
       CutOnlyWhenSuperseded, LifecycleTypeOK, Steps, CloserSteps, SlotInv, Registered,
       TaskInv, CloserInv, Ended
<1>9. ASSUME NEW c \in Cycle, AcceptDone(c) PROVE CutOnlyWhenSuperseded'
  BY <1>0, <1>9 DEF AcceptDone, serveSlotVars, handleVars, closeVars, CutOnlyWhenSuperseded,
       LifecycleTypeOK, Steps, CloserSteps, SlotInv, Registered, TaskInv, CloserInv,
       Ended
<1>10. ASSUME NEW c \in Cycle, AcceptAborted(c) PROVE CutOnlyWhenSuperseded'
  BY <1>0, <1>10 DEF AcceptAborted, serveSlotVars, handleVars, closeVars, CutOnlyWhenSuperseded,
       LifecycleTypeOK, Steps, CloserSteps, SlotInv, Registered, TaskInv, CloserInv,
       Ended
<1>11. ASSUME StopServe PROVE CutOnlyWhenSuperseded'
  BY <1>0, <1>11 DEF StopServe, Shutdown, StopHeard, serveSlotVars, handleVars, closeVars,
       CutOnlyWhenSuperseded, LifecycleTypeOK, Steps, CloserSteps, SlotInv, Registered,
       TaskInv, CloserInv, Ended
<1>12. ASSUME CloseTakes PROVE CutOnlyWhenSuperseded'
  BY <1>0, <1>12 DEF CloseTakes, serveSlotVars, handleVars, closeVars, CutOnlyWhenSuperseded,
       LifecycleTypeOK, Steps, CloserSteps, SlotInv, Registered, TaskInv, CloserInv,
       Ended
<1>13. ASSUME DrainBegins PROVE CutOnlyWhenSuperseded'
  BY <1>0, <1>13 DEF DrainBegins, Shutdown, StopHeard, CloserAt, WaitsForEnd, serveSlotVars,
       handleVars, closeVars, CutOnlyWhenSuperseded, LifecycleTypeOK, Steps,
       CloserSteps, SlotInv, Registered, TaskInv, CloserInv, Ended
<1>14. ASSUME DrainEnds PROVE CutOnlyWhenSuperseded'
  BY <1>0, <1>14 DEF DrainEnds, CloserAt, serveSlotVars, handleVars, closeVars,
       CutOnlyWhenSuperseded, LifecycleTypeOK, Steps, CloserSteps, SlotInv, Registered,
       TaskInv, CloserInv, Ended
<1>15. ASSUME AbortFlag PROVE CutOnlyWhenSuperseded'
  BY <1>0, <1>15 DEF AbortFlag, CloserAt, serveSlotVars, handleVars, closeVars,
       CutOnlyWhenSuperseded, LifecycleTypeOK, Steps, CloserSteps, SlotInv, Registered,
       TaskInv, CloserInv, Ended
<1>16. ASSUME AbortJoin PROVE CutOnlyWhenSuperseded'
  BY <1>0, <1>16 DEF AbortJoin, CloserAt, serveSlotVars, handleVars, closeVars,
       CutOnlyWhenSuperseded, LifecycleTypeOK, Steps, CloserSteps, SlotInv, Registered,
       TaskInv, CloserInv, Ended
<1>17. ASSUME ClearLocal PROVE CutOnlyWhenSuperseded'
  BY <1>0, <1>17 DEF ClearLocal, CloserAt, serveSlotVars, handleVars, closeVars,
       CutOnlyWhenSuperseded, LifecycleTypeOK, Steps, CloserSteps, SlotInv, Registered,
       TaskInv, CloserInv, Ended
<1>18. ASSUME CloseTransport PROVE CutOnlyWhenSuperseded'
  BY <1>0, <1>18 DEF CloseTransport, CloserAt, serveSlotVars, handleVars, closeVars,
       CutOnlyWhenSuperseded, LifecycleTypeOK, Steps, CloserSteps, SlotInv, Registered,
       TaskInv, CloserInv, Ended
<1>19. ASSUME SendClosed PROVE CutOnlyWhenSuperseded'
  BY <1>0, <1>19 DEF SendClosed, CloserAt, serveSlotVars, handleVars, closeVars,
       CutOnlyWhenSuperseded, LifecycleTypeOK, Steps, CloserSteps, SlotInv, Registered,
       TaskInv, CloserInv, Ended
<1>20. CASE UNCHANGED lifecycleVars
  BY <1>0, <1>20 DEF lifecycleVars, serveSlotVars, handleVars, closeVars,
       CutOnlyWhenSuperseded, LifecycleTypeOK, Steps, CloserSteps, SlotInv, Registered,
       TaskInv, CloserInv, Ended
<1> QED
  BY <1>1, <1>2, <1>3, <1>4, <1>5, <1>6, <1>7, <1>8, <1>9, <1>10, <1>11, <1>12, <1>13, <1>14,
      <1>15, <1>16, <1>17, <1>18, <1>19, <1>20 DEF LifecycleNext, ServeCall, AcceptTask,
      CloseStep

\* LifecycleInv holds in every reachable state.
THEOREM LifecycleInvariance == LifecycleSpec => []LifecycleInv
<1>1. LifecycleInv /\ [LifecycleNext]_lifecycleVars => LifecycleInv'
  BY TypeOKStep, SlotInvStep, TaskInvStep, CloserInvStep, EveryCycleControlledStep,
     LocalIsCurrentStep, AbortReachesTaskStep, CutOnlyWhenSupersededStep DEF LifecycleInv
<1> QED
  BY <1>1, InitInv, PTL DEF LifecycleSpec

\* Type correctness of the endpoint's serve state.
THEOREM LifecycleTypeCorrect == LifecycleSpec => []LifecycleTypeOK
<1>1. LifecycleInv => LifecycleTypeOK
  BY DEF LifecycleInv
<1> QED
  BY <1>1, LifecycleInvariance, PTL

\* register_serve_handle, stop_serve, set_serve_handle and the close calls
\* together never lose a cycle.
THEOREM NoCycleEscapes == LifecycleSpec => []EveryCycleControlled
<1>1. LifecycleInv => EveryCycleControlled
  BY DEF LifecycleInv
<1> QED
  BY <1>1, LifecycleInvariance, PTL

\* set_local_service_for is linearizable with stops, replacements and closes.
THEOREM SelfRequestsAreCurrent == LifecycleSpec => []LocalIsCurrent
<1>1. LifecycleInv => LocalIsCurrent
  BY DEF LifecycleInv
<1> QED
  BY <1>1, LifecycleInvariance, PTL

\* The flag and the join lock of ServeHandle leave no window for an abort.
THEOREM AbortNotLost == LifecycleSpec => []AbortReachesTask
<1>1. LifecycleInv => AbortReachesTask
  BY DEF LifecycleInv
<1> QED
  BY <1>1, LifecycleInvariance, PTL

\* close() waits for the cycle it took whether or not its task was attached.
THEOREM CloseWaits == LifecycleSpec => []GracefulCloseWaits
<1>1. LifecycleInv => GracefulCloseWaits
  BY DEF LifecycleInv, CloserInv, GracefulCloseWaits, LifecycleTypeOK, CloserSteps
<1> QED
  BY <1>1, LifecycleInvariance, PTL

\* Connections are cut without a drain only for a replaced or closed cycle.
THEOREM CutsAreReplacements == LifecycleSpec => []CutOnlyWhenSuperseded
<1>1. LifecycleInv => CutOnlyWhenSuperseded
  BY DEF LifecycleInv
<1> QED
  BY <1>1, LifecycleInvariance, PTL

-----------------------------------------------------------------------------
(* Outgoing requests.                                                      *)

(* What holds of one caller.                                                *)
Known(f) ==
    /\ seen[f] <= dials /\ lastSeq[f] <= dials /\ since[f] <= dials
    /\ \A s \in failedOn[f] : s <= dials

(* A caller past its cache miss: whatever is cached now was dialed since.   *)
Fresh(f) ==
    /\ getter[f] \in {"join", "waiting", "dialing"} => cache = None \/ cache > since[f]
    /\ getter[f] = "fresh" => seen[f] > since[f]
    /\ getter[f] = "hit" => seen[f] # None /\ (reused[f] \/ seen[f] > since[f])

(* The attempts made so far bound the requests sent.                        *)
Counted(f) ==
    /\ stage[f] = "new" => attempt[f] = 0 /\ sends[f] = 0 /\ failedOn[f] = {}
    /\ stage[f] \in {"get", "send"} => sends[f] < attempt[f]
    /\ sends[f] <= attempt[f]
    /\ attempt[f] = 2 => RetrySafe(f)

(* The connections a caller failed on are out of its way.                   *)
Avoided(f) ==
    /\ stage[f] \in {"get", "send"} /\ attempt[f] = 1 => failedOn[f] = {}
    /\ stage[f] = "get" => cache \notin failedOn[f]
    /\ stage[f] = "get" /\ getter[f] \in Looking \cup {"hit"} => seen[f] \notin failedOn[f]
    /\ stage[f] = "send" => lastSeq[f] # None /\ lastSeq[f] \notin failedOn[f]
    /\ stage[f] = "evict" /\ attempt[f] = 1 => failedOn[f] \subseteq {lastSeq[f]}
    /\ stage[f] = "evict" => lastSeq[f] = None \/ lastSeq[f] \in failedOn[f]

\* What is carried along of every caller.
CallerInv(f) == Known(f) /\ Fresh(f) /\ Counted(f) /\ Avoided(f)

\* The inductive invariant of requests over the pool.
FetchInv ==
    /\ RequestTypeOK
    /\ cache <= dials
    /\ BlameIsExact
    /\ \A f \in Caller : CallerInv(f)

-----------------------------------------------------------------------------
(* The pool's steps *)

\* get_or_connect keeps the invariant: what a caller sees in the cache after
\* its miss was dialed since.
LEMMA PoolStep ==
    ASSUME FetchInv, NEW f \in Caller, GetOrConnect(f), UNCHANGED fetchVars
    PROVE  FetchInv'
<1> USE DialAssumption DEF fetchVars
<1>a. RequestTypeOK /\ cache <= dials /\ BlameIsExact /\ \A g \in Caller : CallerInv(g)
  BY DEF FetchInv
<1>1. CASE Lookup(f)
  <2>1. RequestTypeOK'
    BY <1>a, <1>1 DEF RequestTypeOK, PoolTypeOK, GetterStates, Looking, ConnStates, Seq,
       None, Stages, Outcomes, Lookup, Step
  <2>2. cache' <= dials'
    BY <1>a, <1>1 DEF RequestTypeOK, PoolTypeOK, Seq, None, Lookup, Step
  <2>3. BlameIsExact'
    BY <1>a, <1>1 DEF RequestTypeOK, PoolTypeOK, BlameIsExact, Seq, None, Lookup, Step
  <2>4. ASSUME NEW g \in Caller PROVE CallerInv(g)'
    <3>1. Known(g)'
      BY <1>a, <1>1 DEF RequestTypeOK, PoolTypeOK, CallerInv, Known, Seq, None, Lookup, Step
    <3>2. Fresh(g)'
      BY <1>a, <1>1 DEF RequestTypeOK, PoolTypeOK, CallerInv, Known, Fresh, Seq, None,
         Looking, Lookup, Step
    <3>3. Counted(g)'
      BY <1>a, <1>1 DEF RequestTypeOK, CallerInv, Counted, RetrySafe, Lookup, Step
    <3>4. Avoided(g)'
      BY <1>a, <1>1 DEF RequestTypeOK, PoolTypeOK, CallerInv, Known, Fresh, Counted,
         Avoided, Seq, None, Looking, Lookup, Step
    <3>5. QED
      BY <3>1, <3>2, <3>3, <3>4 DEF CallerInv
  <2>5. QED
    BY <2>1, <2>2, <2>3, <2>4 DEF FetchInv
<1>2. CASE Inspect(f)
  <2>1. RequestTypeOK'
    BY <1>a, <1>2 DEF RequestTypeOK, PoolTypeOK, GetterStates, Looking, ConnStates, Seq,
       None, Stages, Outcomes, Inspect, Step, HitIsReused, Alive
  <2>2. cache' <= dials'
    BY <1>a, <1>2 DEF RequestTypeOK, PoolTypeOK, Seq, None, Inspect, Step, HitIsReused,
       Alive
  <2>3. BlameIsExact'
    BY <1>a, <1>2 DEF RequestTypeOK, PoolTypeOK, BlameIsExact, Seq, None, Inspect, Step,
       HitIsReused, Alive
  <2>4. ASSUME NEW g \in Caller PROVE CallerInv(g)'
    <3>1. Known(g)'
      BY <1>a, <1>2 DEF RequestTypeOK, PoolTypeOK, CallerInv, Known, Seq, None, Inspect,
         Step, HitIsReused, Alive
    <3>2. Fresh(g)'
      BY <1>a, <1>2 DEF RequestTypeOK, PoolTypeOK, CallerInv, Known, Fresh, Seq, None,
         Looking, Inspect, Step, HitIsReused, Alive
    <3>3. Counted(g)'
      BY <1>a, <1>2 DEF RequestTypeOK, CallerInv, Counted, RetrySafe, Inspect, Step,
         HitIsReused, Alive
    <3>4. Avoided(g)'
      BY <1>a, <1>2 DEF RequestTypeOK, PoolTypeOK, CallerInv, Known, Fresh, Counted,
         Avoided, Seq, None, Looking, Inspect, Step, HitIsReused, Alive
    <3>5. QED
      BY <3>1, <3>2, <3>3, <3>4 DEF CallerInv
  <2>5. QED
    BY <2>1, <2>2, <2>3, <2>4 DEF FetchInv
<1>3. CASE RemoveStale(f)
  <2>1. RequestTypeOK'
    BY <1>a, <1>3 DEF RequestTypeOK, PoolTypeOK, GetterStates, Looking, ConnStates, Seq,
       None, Stages, Outcomes, RemoveStale, Step, StaleRemoved, Removed, Matches
  <2>2. cache' <= dials'
    BY <1>a, <1>3 DEF RequestTypeOK, PoolTypeOK, Seq, None, RemoveStale, Step,
       StaleRemoved, Removed, Matches
  <2>3. BlameIsExact'
    BY <1>a, <1>3 DEF RequestTypeOK, PoolTypeOK, BlameIsExact, Seq, None, RemoveStale,
       Step, StaleRemoved, Removed, Matches
  <2>4. ASSUME NEW g \in Caller PROVE CallerInv(g)'
    <3>1. Known(g)'
      BY <1>a, <1>3 DEF RequestTypeOK, PoolTypeOK, CallerInv, Known, Seq, None,
         RemoveStale, Step, StaleRemoved, Removed, Matches
    <3>2. Fresh(g)'
      BY <1>a, <1>3 DEF RequestTypeOK, PoolTypeOK, CallerInv, Known, Fresh, Seq, None,
         Looking, RemoveStale, Step, StaleRemoved, Removed, Matches
    <3>3. Counted(g)'
      BY <1>a, <1>3 DEF RequestTypeOK, CallerInv, Counted, RetrySafe, RemoveStale, Step,
         StaleRemoved, Removed, Matches
    <3>4. Avoided(g)'
      BY <1>a, <1>3 DEF RequestTypeOK, PoolTypeOK, CallerInv, Known, Fresh, Counted,
         Avoided, Seq, None, Looking, RemoveStale, Step, StaleRemoved, Removed, Matches
    <3>5. QED
      BY <3>1, <3>2, <3>3, <3>4 DEF CallerInv
  <2>5. QED
    BY <2>1, <2>2, <2>3, <2>4 DEF FetchInv
<1>4. CASE Join(f)
  <2>1. RequestTypeOK'
    BY <1>a, <1>4 DEF RequestTypeOK, PoolTypeOK, GetterStates, Looking, ConnStates, Seq,
       None, Stages, Outcomes, Join, Step
  <2>2. cache' <= dials'
    BY <1>a, <1>4 DEF RequestTypeOK, PoolTypeOK, Seq, None, Join, Step
  <2>3. BlameIsExact'
    BY <1>a, <1>4 DEF RequestTypeOK, PoolTypeOK, BlameIsExact, Seq, None, Join, Step
  <2>4. ASSUME NEW g \in Caller PROVE CallerInv(g)'
    <3>1. Known(g)'
      BY <1>a, <1>4 DEF RequestTypeOK, PoolTypeOK, CallerInv, Known, Seq, None, Join, Step
    <3>2. Fresh(g)'
      BY <1>a, <1>4 DEF RequestTypeOK, PoolTypeOK, CallerInv, Known, Fresh, Seq, None,
         Looking, Join, Step
    <3>3. Counted(g)'
      BY <1>a, <1>4 DEF RequestTypeOK, CallerInv, Counted, RetrySafe, Join, Step
    <3>4. Avoided(g)'
      BY <1>a, <1>4 DEF RequestTypeOK, PoolTypeOK, CallerInv, Known, Fresh, Counted,
         Avoided, Seq, None, Looking, Join, Step
    <3>5. QED
      BY <3>1, <3>2, <3>3, <3>4 DEF CallerInv
  <2>5. QED
    BY <2>1, <2>2, <2>3, <2>4 DEF FetchInv
<1>5. CASE DialOk(f)
  <2>1. RequestTypeOK'
    BY <1>a, <1>5 DEF RequestTypeOK, PoolTypeOK, GetterStates, Looking, ConnStates, Seq,
       None, Stages, Outcomes, DialOk, Batch
  <2>2. cache' <= dials'
    BY <1>a, <1>5 DEF RequestTypeOK, PoolTypeOK, Seq, None, DialOk, Batch
  <2>3. BlameIsExact'
    BY <1>a, <1>5 DEF RequestTypeOK, PoolTypeOK, BlameIsExact, Seq, None, DialOk, Batch
  <2>4. ASSUME NEW g \in Caller PROVE CallerInv(g)'
    <3>1. Known(g)'
      <4>1. dials \in Nat /\ dials' = dials + 1 /\ seen[g] \in Nat /\ seen'[g] \in {seen[g], dials + 1}
        BY <1>a, <1>5 DEF RequestTypeOK, PoolTypeOK, Seq, None, DialOk
      <4>2. lastSeq' = lastSeq /\ since' = since /\ failedOn' = failedOn
        BY <1>5 DEF DialOk
      <4>3. lastSeq[g] \in Nat /\ since[g] \in Nat /\ \A s \in failedOn[g] : s \in Nat
        BY <1>a DEF RequestTypeOK, PoolTypeOK, Seq, None
      <4>4. Known(g)
        BY <1>a DEF CallerInv
      <4>5. QED
        BY <4>1, <4>2, <4>3, <4>4 DEF Known
    <3>2. Fresh(g)'
      BY <1>a, <1>5 DEF RequestTypeOK, PoolTypeOK, CallerInv, Known, Fresh, Seq, None,
         Looking, DialOk, Batch
    <3>3. Counted(g)'
      BY <1>a, <1>5, Zenon DEF RequestTypeOK, CallerInv, Counted, RetrySafe, DialOk, Batch
    <3>4. Avoided(g)'
      BY <1>a, <1>5 DEF RequestTypeOK, PoolTypeOK, CallerInv, Known, Fresh, Counted,
         Avoided, Seq, None, Looking, DialOk, Batch
    <3>5. QED
      BY <3>1, <3>2, <3>3, <3>4 DEF CallerInv
  <2>5. QED
    BY <2>1, <2>2, <2>3, <2>4 DEF FetchInv
<1>6. CASE DialFails(f)
  <2>1. RequestTypeOK'
    BY <1>a, <1>6 DEF RequestTypeOK, PoolTypeOK, GetterStates, Looking, ConnStates, Seq,
       None, Stages, Outcomes, DialFails, Batch
  <2>2. cache' <= dials'
    BY <1>a, <1>6 DEF RequestTypeOK, PoolTypeOK, Seq, None, DialFails, Batch
  <2>3. BlameIsExact'
    BY <1>a, <1>6 DEF RequestTypeOK, PoolTypeOK, BlameIsExact, Seq, None, DialFails, Batch
  <2>4. ASSUME NEW g \in Caller PROVE CallerInv(g)'
    <3>1. Known(g)'
      BY <1>a, <1>6 DEF RequestTypeOK, PoolTypeOK, CallerInv, Known, Seq, None,
         DialFails, Batch
    <3>2. Fresh(g)'
      BY <1>a, <1>6 DEF RequestTypeOK, PoolTypeOK, CallerInv, Known, Fresh, Seq, None,
         Looking, DialFails, Batch
    <3>3. Counted(g)'
      BY <1>a, <1>6 DEF RequestTypeOK, CallerInv, Counted, RetrySafe, DialFails, Batch
    <3>4. Avoided(g)'
      BY <1>a, <1>6 DEF RequestTypeOK, PoolTypeOK, CallerInv, Known, Fresh, Counted,
         Avoided, Seq, None, Looking, DialFails, Batch
    <3>5. QED
      BY <3>1, <3>2, <3>3, <3>4 DEF CallerInv
  <2>5. QED
    BY <2>1, <2>2, <2>3, <2>4 DEF FetchInv
<1>7. CASE CheckFresh(f)
  <2>1. RequestTypeOK'
    BY <1>a, <1>7 DEF RequestTypeOK, PoolTypeOK, GetterStates, Looking, ConnStates, Seq,
       None, Stages, Outcomes, CheckFresh, Step, Alive
  <2>2. cache' <= dials'
    BY <1>a, <1>7 DEF RequestTypeOK, PoolTypeOK, Seq, None, CheckFresh, Step, Alive
  <2>3. BlameIsExact'
    BY <1>a, <1>7 DEF RequestTypeOK, PoolTypeOK, BlameIsExact, Seq, None, CheckFresh,
       Step, Alive
  <2>4. ASSUME NEW g \in Caller PROVE CallerInv(g)'
    <3>1. Known(g)'
      BY <1>a, <1>7 DEF RequestTypeOK, PoolTypeOK, CallerInv, Known, Seq, None,
         CheckFresh, Step, Alive
    <3>2. Fresh(g)'
      BY <1>a, <1>7 DEF RequestTypeOK, PoolTypeOK, CallerInv, Known, Fresh, Seq, None,
         Looking, CheckFresh, Step, Alive
    <3>3. Counted(g)'
      BY <1>a, <1>7 DEF RequestTypeOK, CallerInv, Counted, RetrySafe, CheckFresh, Step,
         Alive
    <3>4. Avoided(g)'
      BY <1>a, <1>7 DEF RequestTypeOK, PoolTypeOK, CallerInv, Known, Fresh, Counted,
         Avoided, Seq, None, Looking, CheckFresh, Step, Alive
    <3>5. QED
      BY <3>1, <3>2, <3>3, <3>4 DEF CallerInv
  <2>5. QED
    BY <2>1, <2>2, <2>3, <2>4 DEF FetchInv
<1>8. CASE RemoveGone(f)
  <2>1. RequestTypeOK'
    BY <1>a, <1>8 DEF RequestTypeOK, PoolTypeOK, GetterStates, Looking, ConnStates, Seq,
       None, Stages, Outcomes, RemoveGone, Step, Removed, Matches
  <2>2. cache' <= dials'
    BY <1>a, <1>8 DEF RequestTypeOK, PoolTypeOK, Seq, None, RemoveGone, Step, Removed,
       Matches
  <2>3. BlameIsExact'
    BY <1>a, <1>8 DEF RequestTypeOK, PoolTypeOK, BlameIsExact, Seq, None, RemoveGone,
       Step, Removed, Matches
  <2>4. ASSUME NEW g \in Caller PROVE CallerInv(g)'
    <3>1. Known(g)'
      BY <1>a, <1>8 DEF RequestTypeOK, PoolTypeOK, CallerInv, Known, Seq, None,
         RemoveGone, Step, Removed, Matches
    <3>2. Fresh(g)'
      BY <1>a, <1>8 DEF RequestTypeOK, PoolTypeOK, CallerInv, Known, Fresh, Seq, None,
         Looking, RemoveGone, Step, Removed, Matches
    <3>3. Counted(g)'
      BY <1>a, <1>8 DEF RequestTypeOK, CallerInv, Counted, RetrySafe, RemoveGone, Step,
         Removed, Matches
    <3>4. Avoided(g)'
      BY <1>a, <1>8 DEF RequestTypeOK, PoolTypeOK, CallerInv, Known, Fresh, Counted,
         Avoided, Seq, None, Looking, RemoveGone, Step, Removed, Matches
    <3>5. QED
      BY <3>1, <3>2, <3>3, <3>4 DEF CallerInv
  <2>5. QED
    BY <2>1, <2>2, <2>3, <2>4 DEF FetchInv
<1>9. CASE LookReplacement(f)
  <2>1. RequestTypeOK'
    BY <1>a, <1>9 DEF RequestTypeOK, PoolTypeOK, GetterStates, Looking, ConnStates, Seq,
       None, Stages, Outcomes, LookReplacement, Step
  <2>2. cache' <= dials'
    BY <1>a, <1>9 DEF RequestTypeOK, PoolTypeOK, Seq, None, LookReplacement, Step
  <2>3. BlameIsExact'
    BY <1>a, <1>9 DEF RequestTypeOK, PoolTypeOK, BlameIsExact, Seq, None,
       LookReplacement, Step
  <2>4. ASSUME NEW g \in Caller PROVE CallerInv(g)'
    <3>1. Known(g)'
      BY <1>a, <1>9 DEF RequestTypeOK, PoolTypeOK, CallerInv, Known, Seq, None,
         LookReplacement, Step
    <3>2. Fresh(g)'
      BY <1>a, <1>9 DEF RequestTypeOK, PoolTypeOK, CallerInv, Known, Fresh, Seq, None,
         Looking, LookReplacement, Step
    <3>3. Counted(g)'
      BY <1>a, <1>9 DEF RequestTypeOK, CallerInv, Counted, RetrySafe, LookReplacement, Step
    <3>4. Avoided(g)'
      BY <1>a, <1>9, Zenon DEF RequestTypeOK, PoolTypeOK, CallerInv, Known, Fresh, Counted,
         Avoided, Seq, None, Looking, LookReplacement, Step
    <3>5. QED
      BY <3>1, <3>2, <3>3, <3>4 DEF CallerInv
  <2>5. QED
    BY <2>1, <2>2, <2>3, <2>4 DEF FetchInv
<1>10. CASE InspectReplacement(f)
  <2>1. RequestTypeOK'
    BY <1>a, <1>10 DEF RequestTypeOK, PoolTypeOK, GetterStates, Looking, ConnStates, Seq,
       None, Stages, Outcomes, InspectReplacement, Step, Alive
  <2>2. cache' <= dials'
    BY <1>a, <1>10 DEF RequestTypeOK, PoolTypeOK, Seq, None, InspectReplacement, Step, Alive
  <2>3. BlameIsExact'
    BY <1>a, <1>10 DEF RequestTypeOK, PoolTypeOK, BlameIsExact, Seq, None,
       InspectReplacement, Step, Alive
  <2>4. ASSUME NEW g \in Caller PROVE CallerInv(g)'
    <3>1. Known(g)'
      BY <1>a, <1>10 DEF RequestTypeOK, PoolTypeOK, CallerInv, Known, Seq, None,
         InspectReplacement, Step, Alive
    <3>2. Fresh(g)'
      BY <1>a, <1>10, Zenon DEF RequestTypeOK, PoolTypeOK, CallerInv, Known, Fresh, Seq, None,
         Looking, InspectReplacement, Step, Alive
    <3>3. Counted(g)'
      BY <1>a, <1>10, Zenon DEF RequestTypeOK, CallerInv, Counted, RetrySafe,
         InspectReplacement, Step, Alive
    <3>4. Avoided(g)'
      BY <1>a, <1>10 DEF RequestTypeOK, PoolTypeOK, CallerInv, Known, Fresh, Counted,
         Avoided, Seq, None, Looking, InspectReplacement, Step, Alive
    <3>5. QED
      BY <3>1, <3>2, <3>3, <3>4 DEF CallerInv
  <2>5. QED
    BY <2>1, <2>2, <2>3, <2>4 DEF FetchInv
<1>11. QED
  BY <1>1, <1>2, <1>3, <1>4, <1>5, <1>6, <1>7, <1>8, <1>9, <1>10 DEF GetOrConnect

-----------------------------------------------------------------------------
(* A send that fails *)

\* A send that fails at the connection level names the connection it was sent
\* on.
LEMMA SendFailsStep ==
    ASSUME FetchInv, NEW f \in Caller, NEW e \in {"connectionFailed", "bodyFailed"},
           NEW reached \in BOOLEAN, SendFails(f, e, reached)
    PROVE  FetchInv'
<1> USE DialAssumption DEF poolVars
<1>a. RequestTypeOK /\ cache <= dials /\ BlameIsExact /\ \A g \in Caller : CallerInv(g)
  BY DEF FetchInv
<1>b. /\ stage[f] = "send" /\ lastSeq[f] \in Seq /\ lastSeq[f] \notin failedOn[f]
      /\ sends[f] < attempt[f]
  BY <1>a DEF SendFails, CallerInv, Avoided, Counted, RequestTypeOK, PoolTypeOK
<1>c. /\ UNCHANGED <<cache, conn, dials, flight, getter, seen, reused, since, attempt, lastSeq, firstReused>>
      /\ sends' \in {sends, [sends EXCEPT ![f] = @ + 1]}
      /\ \/ /\ e = "connectionFailed" /\ UNCHANGED outcome
            /\ failedOn' = [failedOn EXCEPT ![f] = @ \cup {lastSeq[f]}]
            /\ stage' = [stage EXCEPT ![f] = "evict"]
         \/ /\ e # "connectionFailed" /\ outcome' = [outcome EXCEPT ![f] = e]
            /\ failedOn' = failedOn
            /\ stage' = [stage EXCEPT ![f] = "done"]
  <2>1. sends' \in {sends, [sends EXCEPT ![f] = @ + 1]}
    BY <1>a, Zenon DEF SendFails, RequestTypeOK
  <2>2. failedOn' = IF e = "connectionFailed" THEN [failedOn EXCEPT ![f] = @ \cup {lastSeq[f]}] ELSE failedOn
    BY ZenonT(60), <1>a DEF SendFails, RequestTypeOK
  <2>3. QED
    BY <2>1, <2>2, Zenon DEF SendFails, Retryable, Finish
<1>1. RequestTypeOK'
  <2>1. sends' \in [Caller -> 0..2]
    BY <1>a, <1>b, <1>c DEF RequestTypeOK
  <2>2. QED
    BY <1>a, <1>b, <1>c, <2>1 DEF RequestTypeOK, PoolTypeOK, Stages, Outcomes
<1>2. BlameIsExact'
  BY <1>a, <1>c DEF BlameIsExact, RequestTypeOK
<1>3. ASSUME NEW g \in Caller PROVE CallerInv(g)'
  <2>0. CallerInv(g) /\ (g # f => stage'[g] = stage[g] /\ sends'[g] = sends[g] /\ failedOn'[g] = failedOn[g])
    BY <1>a, <1>c DEF RequestTypeOK
  <2>1. Known(g)'
    BY <1>a, <1>c, <2>0 DEF CallerInv, Known, RequestTypeOK
  <2>2. Fresh(g)'
    BY <1>c, <2>0, Zenon DEF CallerInv, Fresh
  <2>3. Counted(g)'
    BY <1>a, <1>b, <1>c, <2>0 DEF RequestTypeOK, CallerInv, Counted, RetrySafe
  <2>4. Avoided(g)'
    <3>1. CASE g # f
      BY <1>c, <2>0, <3>1, Zenon DEF CallerInv, Avoided
    <3>2. CASE g = f
      <4>1. CASE stage' = [stage EXCEPT ![f] = "done"]
        <5>1. stage'[g] = "done"
          BY <1>a, <3>2, <4>1 DEF RequestTypeOK
        <5>2. QED
          BY <5>1 DEF Avoided
      <4>2. CASE /\ stage' = [stage EXCEPT ![f] = "evict"]
                 /\ failedOn' = [failedOn EXCEPT ![f] = @ \cup {lastSeq[f]}]
        <5>1. stage'[g] = "evict" /\ failedOn'[g] = failedOn[g] \cup {lastSeq[g]}
          BY <1>a, <3>2, <4>2 DEF RequestTypeOK
        <5>2. attempt[g] = 1 => failedOn[g] = {}
          BY <1>b, <2>0, <3>2, Zenon DEF CallerInv, Avoided
        <5>3. attempt'[g] = attempt[g] /\ lastSeq'[g] = lastSeq[g]
          BY <1>c, Zenon
        <5>4. QED
          BY <5>1, <5>2, <5>3 DEF Avoided
      <4>3. QED
        BY <1>c, <4>1, <4>2
    <3>3. QED
      BY <3>1, <3>2
  <2>5. QED
    BY <2>1, <2>2, <2>3, <2>4 DEF CallerInv
<1>4. QED
  BY <1>a, <1>c, <1>1, <1>2, <1>3 DEF FetchInv

-----------------------------------------------------------------------------
(* Connections that die and cache entries that are evicted *)

\* A connection that dies and an entry the cache evicts change nothing the
\* callers know.
LEMMA EnvironmentStep ==
    ASSUME FetchInv,
           \/ (\E s \in Seq : ConnectionDies(s)) /\ UNCHANGED fetchVars
           \/ CacheEvicts /\ UNCHANGED fetchVars
           \/ UNCHANGED requestVars
    PROVE  FetchInv'
<1>a. RequestTypeOK /\ cache <= dials /\ BlameIsExact /\ \A g \in Caller : CallerInv(g)
  BY DEF FetchInv
<1>1. ASSUME NEW s \in Seq, ConnectionDies(s), UNCHANGED fetchVars PROVE FetchInv'
  <2>1. RequestTypeOK' /\ BlameIsExact'
    BY <1>a, <1>1 DEF RequestTypeOK, PoolTypeOK, BlameIsExact, ConnStates,
       ConnectionDies, fetchVars
  <2>2. ASSUME NEW g \in Caller PROVE CallerInv(g)'
    BY ZenonT(60), <1>a, <1>1 DEF ConnectionDies, fetchVars, CallerInv, Known, Fresh,
       Counted, Avoided, RetrySafe
  <2>3. QED
    BY <1>a, <1>1, <2>1, <2>2 DEF FetchInv, ConnectionDies
<1>2. CASE CacheEvicts /\ UNCHANGED fetchVars
  <2>1. RequestTypeOK' /\ BlameIsExact' /\ cache' <= dials'
    BY <1>a, <1>2, DialAssumption DEF RequestTypeOK, PoolTypeOK, BlameIsExact,
       CacheEvicts, fetchVars, None, Seq
  <2>2. ASSUME NEW g \in Caller PROVE CallerInv(g)'
    <3>1. None \notin failedOn[g]
      BY <1>a DEF RequestTypeOK, Seq, None
    <3>2. QED
      BY <1>a, <1>2, <3>1, Zenon DEF CacheEvicts, fetchVars, CallerInv, Known, Fresh, Counted,
         Avoided, RetrySafe
  <2>3. QED
    BY <2>1, <2>2 DEF FetchInv
<1>3. CASE UNCHANGED requestVars
  <2>1. RequestTypeOK' /\ BlameIsExact' /\ cache' <= dials'
    BY <1>a, <1>3 DEF requestVars, poolVars, fetchVars, RequestTypeOK, PoolTypeOK,
       BlameIsExact
  <2>2. ASSUME NEW g \in Caller PROVE CallerInv(g)'
    BY <1>a, <1>3, Zenon DEF requestVars, poolVars, fetchVars, CallerInv, Known, Fresh, Counted,
       Avoided, RetrySafe
  <2>3. QED
    BY <2>1, <2>2 DEF FetchInv
<1>4. QED
  BY <1>1, <1>2, <1>3

-----------------------------------------------------------------------------
(* The steps of fetch_request *)

\* evict_and_close closes the connection the caller's own send failed on, and
\* the retry starts over.
LEMMA EvictAndCloseStep ==
    ASSUME FetchInv, NEW f \in Caller, EvictAndClose(f)
    PROVE  FetchInv'
<1> USE DialAssumption DEF poolVars, fetchVars
<1>a. RequestTypeOK /\ cache <= dials /\ BlameIsExact /\ \A g \in Caller : CallerInv(g)
  BY DEF FetchInv
<1>c. /\ cache' \in {cache, None}
      /\ conn' \in {conn, [conn EXCEPT ![lastSeq[f]] = "ours"]}
      /\ conn' # conn => lastSeq[f] # None
      /\ cache' # lastSeq[f] \/ lastSeq[f] = None
  BY ZenonT(60) DEF EvictAndClose, Evicts, Matches
<1>f. \/ /\ RetriesNow(f) /\ UNCHANGED outcome
         /\ stage' = [stage EXCEPT ![f] = "get"]
         /\ attempt' = [attempt EXCEPT ![f] = 2]
         /\ getter' = [getter EXCEPT ![f] = "lookup"]
      \/ /\ UNCHANGED <<attempt, getter>>
         /\ stage' = [stage EXCEPT ![f] = "done"]
         /\ outcome' = [outcome EXCEPT ![f] = "connectionFailed"]
  BY DEF EvictAndClose, Attempt, Finish
<1>u. stage[f] = "evict" /\ UNCHANGED <<dials, flight, seen, reused, since, lastSeq, firstReused, sends, failedOn>>
  BY Zenon DEF EvictAndClose
<1>1. RequestTypeOK'
  <2>1. cache' \in Seq \cup {None} /\ conn' \in [Seq -> ConnStates]
    BY <1>a, <1>c DEF RequestTypeOK, PoolTypeOK, ConnStates
  <2>2. /\ stage' \in [Caller -> Stages] /\ attempt' \in [Caller -> 0..2]
        /\ getter' \in [Caller -> GetterStates] /\ outcome' \in [Caller -> Outcomes]
    BY <1>a, <1>f DEF RequestTypeOK, PoolTypeOK, Stages, GetterStates, Outcomes
  <2>3. QED
    BY <1>a, <1>u, <2>1, <2>2 DEF RequestTypeOK, PoolTypeOK
<1>2. cache' <= dials'
  BY <1>a, <1>c, <1>u DEF RequestTypeOK, PoolTypeOK, Seq, None
<1>3. BlameIsExact'
  <2>1. conn' # conn => lastSeq[f] \in failedOn[f]
    BY <1>a, <1>c, <1>u, Zenon DEF CallerInv, Avoided
  <2>2. ASSUME NEW s \in Seq, conn'[s] = "ours" PROVE \E g \in Caller : s \in failedOn[g]
    <3>1. CASE conn[s] = "ours"
      BY <1>a, <3>1 DEF BlameIsExact
    <3>2. CASE conn[s] # "ours"
      <4>1. s = lastSeq[f] /\ conn' # conn
        BY <1>a, <1>c, <2>2, <3>2 DEF RequestTypeOK, PoolTypeOK
      <4>2. QED
        BY <2>1, <4>1
    <3>3. QED
      BY <3>1, <3>2, Zenon
  <2>3. QED
    BY ZenonT(60), <1>u, <2>2 DEF BlameIsExact
<1>4. ASSUME NEW g \in Caller PROVE CallerInv(g)'
  <2>0. CallerInv(g)
    BY <1>a
  <2>1. Known(g)'
    BY <1>u, <2>0, Zenon DEF CallerInv, Known
  <2>2. Fresh(g)'
    BY <1>a, <1>c, <1>f, <1>u, <2>0, Zenon DEF RequestTypeOK, PoolTypeOK, CallerInv, Fresh
  <2>3. Counted(g)'
    <3>1. CASE g # f \/ ~RetriesNow(f)
      BY <1>a, <1>f, <1>u, <2>0, <3>1, Zenon DEF RequestTypeOK, PoolTypeOK, CallerInv, Counted,
         RetrySafe
    <3>2. CASE g = f /\ RetriesNow(f)
      BY <1>a, <1>f, <1>u, <2>0, <3>2 DEF RequestTypeOK, PoolTypeOK, CallerInv, Counted,
         RetriesNow, RetrySafe
    <3>3. QED
      BY <3>1, <3>2
  <2>4. Avoided(g)'
    <3>0. None \notin failedOn[g]
      BY <1>a DEF RequestTypeOK, Seq, None
    <3>c. cache' \in {cache, None}
      BY <1>c
    <3>s. seen'[g] = seen[g] /\ lastSeq'[g] = lastSeq[g] /\ failedOn'[g] = failedOn[g]
      BY <1>u, Zenon
    <3>1. CASE g # f
      <4>1. stage'[g] = stage[g] /\ attempt'[g] = attempt[g] /\ getter'[g] = getter[g]
        BY <1>a, <1>f, <3>1 DEF RequestTypeOK, PoolTypeOK
      <4>2. QED
        BY <2>0, <3>0, <3>c, <3>s, <4>1, Zenon DEF CallerInv, Avoided
    <3>2. CASE g = f /\ stage'[f] = "done"
      BY <3>2, Zenon DEF Avoided
    <3>4. CASE g = f /\ stage'[f] # "done"
      <4>1. RetriesNow(f) /\ stage'[f] = "get" /\ attempt'[f] = 2 /\ getter'[f] = "lookup"
        BY <1>a, <1>f, <3>4 DEF RequestTypeOK, PoolTypeOK
      <4>2. attempt[f] = 1
        BY ZenonT(60), <4>1 DEF RetriesNow
      <4>3. failedOn[f] \subseteq {lastSeq[f]}
        BY <1>a, <1>u, <4>2, Zenon DEF CallerInv, Avoided
      <4>4. cache' # lastSeq[f] \/ cache' = None
        BY <1>c
      <4>9. cache' \notin failedOn[f]
        BY <3>0, <3>4, <4>3, <4>4
      <4>5. getter'[f] \notin Looking \cup {"hit"}
        BY <4>1 DEF Looking
      <4>6. failedOn'[f] = failedOn[f]
        BY <1>u
      <4>7. Avoided(f)'
        BY <4>1, <4>9, <4>5, <4>6 DEF Avoided
      <4>8. QED
        BY <3>4, <4>7
    <3>3. QED
      BY <3>1, <3>2, <3>4
  <2>5. QED
    BY <2>1, <2>2, <2>3, <2>4 DEF CallerInv
<1>5. QED
  BY <1>1, <1>2, <1>3, <1>4 DEF FetchInv

\* The remaining steps of fetch_request keep the invariant.
LEMMA FetchStep ==
    ASSUME FetchInv, NEW f \in Caller,
           \/ Start(f) \/ Obtain(f) \/ ObtainNothing(f) \/ PeerResponds(f) \/ EvictAndClose(f)
           \/ Timeout(f) \/ EvictOnly(f) \/ Cancel(f)
    PROVE  FetchInv'
<1> USE DialAssumption DEF poolVars, fetchVars
<1>a. RequestTypeOK /\ cache <= dials /\ BlameIsExact /\ \A g \in Caller : CallerInv(g)
  BY DEF FetchInv
<1>1. CASE Start(f)
  <2>1. RequestTypeOK'
    BY <1>a, <1>1 DEF RequestTypeOK, PoolTypeOK, GetterStates, Looking, ConnStates, Seq,
       None, Stages, Outcomes, Start, Attempt
  <2>2. cache' <= dials'
    BY <1>a, <1>1 DEF RequestTypeOK, PoolTypeOK, Seq, None, Start, Attempt
  <2>3. BlameIsExact'
    BY <1>a, <1>1, Zenon DEF RequestTypeOK, PoolTypeOK, BlameIsExact, Seq, None, Start, Attempt
  <2>4. ASSUME NEW g \in Caller PROVE CallerInv(g)'
    <3>1. Known(g)'
      BY <1>a, <1>1, Zenon DEF RequestTypeOK, PoolTypeOK, CallerInv, Known, Seq, None, Start,
         Attempt
    <3>2. Fresh(g)'
      BY <1>a, <1>1, Zenon DEF RequestTypeOK, PoolTypeOK, CallerInv, Known, Fresh, Seq, None,
         Looking, Start, Attempt
    <3>3. Counted(g)'
      BY <1>a, <1>1 DEF RequestTypeOK, CallerInv, Counted, RetrySafe, Start, Attempt
    <3>4. Avoided(g)'
      BY <1>a, <1>1, Zenon DEF RequestTypeOK, PoolTypeOK, CallerInv, Known, Fresh, Counted,
         Avoided, Seq, None, Looking, Start, Attempt
    <3>5. QED
      BY <3>1, <3>2, <3>3, <3>4 DEF CallerInv
  <2>5. QED
    BY <2>1, <2>2, <2>3, <2>4 DEF FetchInv
<1>2. CASE Obtain(f)
  <2>1. RequestTypeOK'
    BY <1>a, <1>2, Zenon DEF RequestTypeOK, PoolTypeOK, GetterStates, Looking, ConnStates, Seq,
       None, Stages, Outcomes, Obtain, Step
  <2>2. cache' <= dials'
    BY <1>a, <1>2, Zenon DEF RequestTypeOK, PoolTypeOK, Seq, None, Obtain, Step
  <2>3. BlameIsExact'
    BY <1>a, <1>2, Zenon DEF RequestTypeOK, PoolTypeOK, BlameIsExact, Seq, None, Obtain, Step
  <2>4. ASSUME NEW g \in Caller PROVE CallerInv(g)'
    <3>1. Known(g)'
      BY <1>a, <1>2, Zenon
         DEF RequestTypeOK, PoolTypeOK, CallerInv, Known, Seq, None, Obtain, Step
    <3>2. Fresh(g)'
      BY <1>a, <1>2, Zenon DEF RequestTypeOK, PoolTypeOK, CallerInv, Known, Fresh, Seq, None,
         Looking, Obtain, Step
    <3>3. Counted(g)'
      BY <1>a, <1>2, Zenon DEF RequestTypeOK, CallerInv, Counted, RetrySafe, Obtain, Step
    <3>4. Avoided(g)'
      BY <1>a, <1>2, Zenon DEF RequestTypeOK, PoolTypeOK, CallerInv, Known, Fresh, Counted,
         Avoided, Seq, None, Looking, Obtain, Step
    <3>5. QED
      BY <3>1, <3>2, <3>3, <3>4 DEF CallerInv
  <2>5. QED
    BY <2>1, <2>2, <2>3, <2>4 DEF FetchInv
<1>3. CASE ObtainNothing(f)
  <2>1. RequestTypeOK'
    BY <1>a, <1>3, Zenon DEF RequestTypeOK, PoolTypeOK, GetterStates, Looking, ConnStates, Seq,
       None, Stages, Outcomes, ObtainNothing, Step
  <2>2. cache' <= dials'
    BY <1>a, <1>3 DEF RequestTypeOK, PoolTypeOK, Seq, None, ObtainNothing, Step
  <2>3. BlameIsExact'
    BY <1>a, <1>3 DEF RequestTypeOK, PoolTypeOK, BlameIsExact, Seq, None, ObtainNothing,
       Step
  <2>4. ASSUME NEW g \in Caller PROVE CallerInv(g)'
    <3>1. Known(g)'
      BY <1>a, <1>3 DEF RequestTypeOK, PoolTypeOK, CallerInv, Known, Seq, None,
         ObtainNothing, Step
    <3>2. Fresh(g)'
      BY <1>a, <1>3, Zenon DEF RequestTypeOK, PoolTypeOK, CallerInv, Known, Fresh, Seq, None,
         Looking, ObtainNothing, Step
    <3>3. Counted(g)'
      BY <1>a, <1>3, Zenon DEF RequestTypeOK, CallerInv, Counted, RetrySafe, ObtainNothing, Step
    <3>4. Avoided(g)'
      BY <1>a, <1>3, Zenon DEF RequestTypeOK, PoolTypeOK, CallerInv, Known, Fresh, Counted,
         Avoided, Seq, None, Looking, ObtainNothing, Step
    <3>5. QED
      BY <3>1, <3>2, <3>3, <3>4 DEF CallerInv
  <2>5. QED
    BY <2>1, <2>2, <2>3, <2>4 DEF FetchInv
<1>4. CASE PeerResponds(f)
  <2>1. RequestTypeOK'
    <3>1. sends' = [sends EXCEPT ![f] = @ + 1] /\ sends[f] \in 0..1
      BY <1>a, <1>4 DEF RequestTypeOK, CallerInv, Counted, PeerResponds
    <3>2. sends' \in [Caller -> 0..2]
      BY <1>a, <3>1 DEF RequestTypeOK
    <3>3. QED
      BY <1>a, <1>4, <3>2, Zenon DEF RequestTypeOK, PoolTypeOK, Stages, Outcomes, PeerResponds,
         Finish
  <2>2. cache' <= dials'
    BY <1>a, <1>4, Zenon DEF RequestTypeOK, PoolTypeOK, Seq, None, PeerResponds, Alive, Finish
  <2>3. BlameIsExact'
    BY <1>a, <1>4, Zenon DEF RequestTypeOK, PoolTypeOK, BlameIsExact, Seq, None, PeerResponds,
       Alive, Finish
  <2>4. ASSUME NEW g \in Caller PROVE CallerInv(g)'
    <3>1. Known(g)'
      BY <1>a, <1>4, Zenon DEF RequestTypeOK, PoolTypeOK, CallerInv, Known, Seq, None,
         PeerResponds, Alive, Finish
    <3>2. Fresh(g)'
      BY <1>a, <1>4, Zenon DEF RequestTypeOK, PoolTypeOK, CallerInv, Known, Fresh, Seq, None,
         Looking, PeerResponds, Alive, Finish
    <3>3. Counted(g)'
      BY <1>a, <1>4 DEF RequestTypeOK, CallerInv, Counted, RetrySafe, PeerResponds,
         Alive, Finish
    <3>4. Avoided(g)'
      BY <1>a, <1>4, Zenon DEF RequestTypeOK, PoolTypeOK, CallerInv, Known, Fresh, Counted,
         Avoided, Seq, None, Looking, PeerResponds, Alive, Finish
    <3>5. QED
      BY <3>1, <3>2, <3>3, <3>4 DEF CallerInv
  <2>5. QED
    BY <2>1, <2>2, <2>3, <2>4 DEF FetchInv
<1>5. CASE EvictAndClose(f)
  BY <1>5, EvictAndCloseStep
<1>6. CASE Timeout(f)
  <2>1. RequestTypeOK'
    BY <1>a, <1>6, Zenon DEF RequestTypeOK, PoolTypeOK, GetterStates, Looking, ConnStates, Seq,
       None, Stages, Outcomes, Timeout, Dropped
  <2>2. cache' <= dials'
    BY <1>a, <1>6, Zenon DEF RequestTypeOK, PoolTypeOK, Seq, None, Timeout, Dropped
  <2>3. BlameIsExact'
    BY <1>a, <1>6, Zenon DEF RequestTypeOK, PoolTypeOK, BlameIsExact, Seq, None, Timeout, Dropped
  <2>4. ASSUME NEW g \in Caller PROVE CallerInv(g)'
    <3>1. Known(g)'
      BY <1>a, <1>6, Zenon DEF RequestTypeOK, PoolTypeOK, CallerInv, Known, Seq, None, Timeout,
         Dropped
    <3>2. Fresh(g)'
      BY <1>a, <1>6, Zenon DEF RequestTypeOK, PoolTypeOK, CallerInv, Known, Fresh, Seq, None,
         Looking, Timeout, Dropped
    <3>3. Counted(g)'
      BY <1>a, <1>6, Zenon DEF RequestTypeOK, CallerInv, Counted, RetrySafe, Timeout, Dropped
    <3>4. Avoided(g)'
      BY <1>a, <1>6, Zenon DEF RequestTypeOK, PoolTypeOK, CallerInv, Known, Fresh, Counted,
         Avoided, Seq, None, Looking, Timeout, Dropped
    <3>5. QED
      BY <3>1, <3>2, <3>3, <3>4 DEF CallerInv
  <2>5. QED
    BY <2>1, <2>2, <2>3, <2>4 DEF FetchInv
<1>7. CASE EvictOnly(f)
  <2>1. RequestTypeOK'
    BY <1>a, <1>7, Zenon DEF RequestTypeOK, PoolTypeOK, GetterStates, Looking, ConnStates, Seq,
       None, Stages, Outcomes, EvictOnly, Removed, Matches, SparedOnTimeout, Finish
  <2>2. cache' <= dials'
    BY <1>a, <1>7 DEF RequestTypeOK, PoolTypeOK, Seq, None, EvictOnly, Removed, Matches,
       SparedOnTimeout, Finish
  <2>3. BlameIsExact'
    BY <1>a, <1>7, Zenon DEF RequestTypeOK, PoolTypeOK, BlameIsExact, Seq, None, EvictOnly,
       Removed, Matches, SparedOnTimeout, Finish
  <2>4. ASSUME NEW g \in Caller PROVE CallerInv(g)'
    <3>1. Known(g)'
      BY <1>a, <1>7, Zenon DEF RequestTypeOK, PoolTypeOK, CallerInv, Known, Seq, None,
         EvictOnly, Removed, Matches, SparedOnTimeout, Finish
    <3>2. Fresh(g)'
      BY <1>a, <1>7, Zenon DEF RequestTypeOK, PoolTypeOK, CallerInv, Known, Fresh, Seq, None,
         Looking, EvictOnly, Removed, Matches, SparedOnTimeout, Finish
    <3>3. Counted(g)'
      BY ZenonT(60), <1>a, <1>7 DEF RequestTypeOK, CallerInv, Counted, RetrySafe,
         EvictOnly, Removed, Matches, SparedOnTimeout, Finish
    <3>4. Avoided(g)'
      <4>1. cache' \in {cache, None}
        BY <1>7, Zenon DEF EvictOnly, Removed
      <4>2. None \notin failedOn[g]
        BY <1>a DEF RequestTypeOK, Seq, None
      <4>3. stage'[g] \in {stage[g], "done"}
        BY <1>a, <1>7, Zenon DEF RequestTypeOK, EvictOnly, Finish
      <4>4. UNCHANGED <<getter, seen, attempt, lastSeq, failedOn>>
        BY <1>7, Zenon DEF EvictOnly
      <4>5. Avoided(g)
        BY <1>a, Zenon DEF CallerInv
      <4>6. QED
        BY <4>1, <4>2, <4>3, <4>4, <4>5, Zenon DEF Avoided
    <3>5. QED
      BY <3>1, <3>2, <3>3, <3>4 DEF CallerInv
  <2>5. QED
    BY <2>1, <2>2, <2>3, <2>4 DEF FetchInv
<1>8. CASE Cancel(f)
  <2>1. RequestTypeOK'
    BY <1>a, <1>8, Zenon DEF RequestTypeOK, PoolTypeOK, GetterStates, Looking, ConnStates, Seq,
       None, Stages, Outcomes, Cancel, Dropped, Finish
  <2>2. cache' <= dials'
    BY <1>a, <1>8, Zenon DEF RequestTypeOK, PoolTypeOK, Seq, None, Cancel, Dropped, Finish
  <2>3. BlameIsExact'
    BY <1>a, <1>8, Zenon DEF RequestTypeOK, PoolTypeOK, BlameIsExact, Seq, None, Cancel,
       Dropped, Finish
  <2>4. ASSUME NEW g \in Caller PROVE CallerInv(g)'
    <3>1. Known(g)'
      BY <1>a, <1>8, Zenon DEF RequestTypeOK, PoolTypeOK, CallerInv, Known, Seq, None, Cancel,
         Dropped, Finish
    <3>2. Fresh(g)'
      BY <1>a, <1>8, Zenon DEF RequestTypeOK, PoolTypeOK, CallerInv, Known, Fresh, Seq, None,
         Looking, Cancel, Dropped, Finish
    <3>3. Counted(g)'
      BY <1>a, <1>8, Zenon DEF RequestTypeOK, CallerInv, Counted, RetrySafe, Cancel, Dropped,
         Finish
    <3>4. Avoided(g)'
      BY <1>a, <1>8, Zenon DEF RequestTypeOK, PoolTypeOK, CallerInv, Known, Fresh, Counted,
         Avoided, Seq, None, Looking, Cancel, Dropped, Finish
    <3>5. QED
      BY <3>1, <3>2, <3>3, <3>4 DEF CallerInv
  <2>5. QED
    BY <2>1, <2>2, <2>3, <2>4 DEF FetchInv
<1>9. QED
  BY <1>1, <1>2, <1>3, <1>4, <1>5, <1>6, <1>7, <1>8

-----------------------------------------------------------------------------
(* The inductive invariant and what follows from it *)

\* Every step keeps the invariant.
LEMMA Inductive == FetchInv /\ [RequestNext]_requestVars => FetchInv'
<1> SUFFICES ASSUME FetchInv, [RequestNext]_requestVars PROVE FetchInv'
  OBVIOUS
<1>a. RequestTypeOK /\ cache <= dials /\ BlameIsExact /\ \A g \in Caller : CallerInv(g)
  BY DEF FetchInv
<1>1. ASSUME NEW f \in Caller, CallerRuns(f) PROVE FetchInv'
  BY <1>1, PoolStep, FetchStep DEF CallerRuns
<1>2. ASSUME NEW f \in Caller, Start(f) \/ PeerResponds(f) \/ Timeout(f) \/ Cancel(f) PROVE FetchInv'
  BY <1>2, FetchStep
<1>3. CASE (\E s \in Seq : ConnectionDies(s)) /\ UNCHANGED fetchVars
  BY <1>3, EnvironmentStep
<1>4. CASE CacheEvicts /\ UNCHANGED fetchVars
  BY <1>4, EnvironmentStep
<1>5. CASE UNCHANGED requestVars
  BY <1>5, EnvironmentStep
<1>6. QED
  BY <1>1, <1>2, <1>3, <1>4, <1>5, SendFailsStep DEF RequestNext

\* The invariant holds before the first request.
LEMMA Initially == RequestInit => FetchInv
<1> SUFFICES ASSUME RequestInit PROVE FetchInv
  OBVIOUS
<1>1. RequestTypeOK
  BY DialAssumption DEF RequestInit, PoolInit, RequestTypeOK, PoolTypeOK, ConnStates,
     GetterStates, Stages, Outcomes, None, Seq
<1>2. cache <= dials /\ BlameIsExact
  BY DialAssumption DEF RequestInit, PoolInit, BlameIsExact, None
<1>3. ASSUME NEW f \in Caller PROVE CallerInv(f)
  BY DEF RequestInit, PoolInit, CallerInv, Known, Fresh, Counted, Avoided, None
<1>4. QED
  BY <1>1, <1>2, <1>3 DEF FetchInv

\* The invariant holds in every reachable state.
LEMMA FetchInvariance == RequestSpec => []FetchInv
  BY Initially, Inductive, PTL DEF RequestSpec

(* Every variable keeps its type; in particular there are at most two       *)
(* attempts.                                                                *)
THEOREM FetchTypeCorrect == RequestSpec => []RequestTypeOK
<1>1. FetchInv => RequestTypeOK
  BY DEF FetchInv
<1>2. QED
  BY <1>1, FetchInvariance, PTL

(* evict_and_close closes only a connection that failed its own request.    *)
THEOREM BlameSafe == RequestSpec => []BlameIsExact
<1>1. FetchInv => BlameIsExact
  BY DEF FetchInv
<1>2. QED
  BY <1>1, FetchInvariance, PTL

(* A request that may not be repeated reaches the peer at most once.        *)
THEOREM AtMostOnce == RequestSpec => []AtMostOnceUnlessSafe
<1>1. ASSUME FetchInv PROVE AtMostOnceUnlessSafe
  <2> SUFFICES ASSUME NEW f \in Caller
               PROVE  sends[f] <= IF f \in Idempotent /\ f \in Empty THEN 2 ELSE 1
    BY DEF AtMostOnceUnlessSafe
  <2>1. /\ sends[f] <= attempt[f] /\ (attempt[f] = 2 => RetrySafe(f))
        /\ sends[f] \in 0..2 /\ attempt[f] \in 0..2
    BY <1>1 DEF FetchInv, CallerInv, Counted, RequestTypeOK
  <2>2. QED
    BY <2>1 DEF RetrySafe
<1>2. QED
  BY <1>1, FetchInvariance, PTL

(* The transparent retry leaves the connection that failed behind.          *)
THEOREM RetrySafeConnection == RequestSpec => []RetryAvoidsFailed
<1>1. FetchInv => RetryAvoidsFailed
  BY Zenon DEF FetchInv, CallerInv, Avoided, RetryAvoidsFailed
<1>2. QED
  BY <1>1, FetchInvariance, PTL

(* "Not reused" is said only of a connection dialed during the call.        *)
THEOREM FreshIsFresh == RequestSpec => []FreshMeansDialedDuringCall
<1>1. FetchInv => FreshMeansDialedDuringCall
  BY DEF FetchInv, CallerInv, Fresh, FreshMeansDialedDuringCall
<1>2. QED
  BY <1>1, FetchInvariance, PTL

-----------------------------------------------------------------------------
(* The table of endpoints.                                                 *)

\* The endpoint table of the adapters on its own.
TableSpec == TableInit /\ [][TableNext]_tableVars

\* The stages of making an endpoint.
Making == {"idle", "bound", "inserted", "owner", "replacing", "binding", "stale", "claiming", "made"}

\* h is a handle that was inserted into the slab.
WasInserted(h) == h \in Endp /\ made[h] \notin {"idle", "bound"}

\* A scheme binding found stale belongs to an endpoint that has left the slab,
\* and a handle is never inserted again.
StaleInv ==
    /\ made \in [Endp -> Making] /\ loaded \in [Endp -> Endp \cup {Nobody}]
    /\ slots \subseteq Endp
    /\ scheme = Nobody \/ WasInserted(scheme)
    /\ \A e \in Endp : made[e] = "stale" => WasInserted(loaded[e]) /\ loaded[e] \notin slots

\* The invariant holds initially.
LEMMA StaleInitially == TableInit => StaleInv
  BY TableAssumption DEF TableInit, StaleInv, WasInserted, Making

\* Every step keeps it.
LEMMA StaleInductive == StaleInv /\ [TableNext]_tableVars => StaleInv'
<1> SUFFICES ASSUME StaleInv, [TableNext]_tableVars PROVE StaleInv'
  OBVIOUS
<1> USE DEF StaleInv, WasInserted, Making
<1>1. CASE UNCHANGED tableVars
  BY <1>1 DEF tableVars
<1>2. ASSUME NEW e \in Endp, Bind(e) PROVE StaleInv'
  BY <1>2 DEF Bind, Makes
<1>3. ASSUME NEW e \in Endp, CloseBegins(e) PROVE StaleInv'
  BY <1>3 DEF CloseBegins
<1>4. ASSUME NEW e \in Endp, insert_endpoint(e) PROVE StaleInv'
  BY <1>4 DEF insert_endpoint, Makes
<1>5. ASSUME NEW e \in Endp, OwnerInsert(e) PROVE StaleInv'
  BY <1>5 DEF OwnerInsert, Makes
<1>6. ASSUME NEW e \in Endp, RemoveOld(e) PROVE StaleInv'
  BY <1>6 DEF RemoveOld, Makes
<1>7. ASSUME NEW e \in Endp, CloseOld(e) PROVE StaleInv'
  BY <1>7 DEF CloseOld, Makes
<1>8. ASSUME NEW e \in Endp, LoadScheme(e) PROVE StaleInv'
  BY <1>8 DEF LoadScheme, Makes
<1>9. ASSUME NEW e \in Endp, ClearStale(e) PROVE StaleInv'
  BY <1>9 DEF ClearStale, Makes
<1>10. ASSUME NEW e \in Endp, ClaimScheme(e) PROVE StaleInv'
  BY <1>10 DEF ClaimScheme, Makes
<1>11. ASSUME NEW e \in Endp, CloseCore(e) \/ remove_endpoint_owner(e) \/ remove_endpoint(e) PROVE StaleInv'
  BY <1>11 DEF CloseCore, remove_endpoint_owner, remove_endpoint
<1>12. CASE clear_endpoint_owners \/ close_all_endpoints \/ Reopens
  BY <1>12 DEF clear_endpoint_owners, close_all_endpoints, Reopens
<1>13. QED
  BY <1>1, <1>2, <1>3, <1>4, <1>5, <1>6, <1>7, <1>8, <1>9, <1>10, <1>11, <1>12
     DEF TableNext, TableSteps

\* A scheme binding of an endpoint that is alive is never taken over, whichever
\* creations and closes interleave.
THEOREM LiveBindingKeptHolds == TableSpec => LiveBindingKept
<1>1. StaleInv /\ [TableNext]_tableVars => [scheme' # scheme => scheme \notin slots]_tableVars
  <2> SUFFICES ASSUME StaleInv, TableNext, scheme' # scheme PROVE scheme \notin slots
    OBVIOUS
  <2>1. PICK e \in Endp : ClearStale(e) \/ ClaimScheme(e)
    BY DEF TableNext, TableSteps, Bind, CloseBegins, insert_endpoint, OwnerInsert, RemoveOld,
           CloseOld,
           LoadScheme, CloseCore, remove_endpoint_owner, remove_endpoint,
           clear_endpoint_owners, close_all_endpoints, Reopens
  <2>2. CASE ClearStale(e)
    BY <2>2 DEF ClearStale, Makes, StaleInv
  <2>3. CASE ClaimScheme(e)
    BY <2>3, TableAssumption DEF ClaimScheme, StaleInv
  <2>4. QED
    BY <2>1, <2>2, <2>3
<1>2. QED
  BY <1>1, StaleInitially, StaleInductive, PTL DEF TableSpec, LiveBindingKept

\* An endpoint that was inserted and is no longer in the slab is shut down, or
\* the creation that ousted it is about to shut it down.
NoOrphan ==
    \A e \in Endp : made[e] \notin {"idle", "bound"} /\ e \notin slots =>
        e \in shutDown \/ \E f \in Endp : made[f] = "replacing" /\ ousted[f] = e

\* An endpoint is shut down before its owner entry and its slot go.
CloseInv ==
    /\ made \in [Endp -> Making] /\ gone \in [Endp -> {"idle", "core", "owner", "slot", "over", "invalid"}]
    /\ ousted \in [Endp -> Endp \cup {Nobody}] /\ owners \in [Keys -> Endp \cup {Nobody}]
    /\ \A e \in Endp : gone[e] \in {"owner", "slot", "over"} => e \in shutDown
    /\ NoOrphan

\* The invariant holds initially.
LEMMA CloseInitially == TableInit => CloseInv
  BY TableAssumption DEF TableInit, CloseInv, NoOrphan, Making

\* Every step keeps it.
LEMMA CloseInductive == CloseInv /\ [TableNext]_tableVars => CloseInv'
<1> SUFFICES ASSUME CloseInv, [TableNext]_tableVars PROVE CloseInv'
  OBVIOUS
<1> USE DEF CloseInv, Making
<1>1. CASE UNCHANGED tableVars
  BY <1>1 DEF tableVars, NoOrphan
<1>2. ASSUME NEW e \in Endp, Bind(e) PROVE CloseInv'
  BY <1>2 DEF Bind, Makes, NoOrphan
<1>3. ASSUME NEW e \in Endp, CloseBegins(e) PROVE CloseInv'
  BY <1>3 DEF CloseBegins, Closes, NoOrphan
<1>4. ASSUME NEW e \in Endp, insert_endpoint(e) PROVE CloseInv'
  BY <1>4 DEF insert_endpoint, Makes, NoOrphan
<1>5. ASSUME NEW e \in Endp, OwnerInsert(e) PROVE CloseInv'
  BY <1>5 DEF OwnerInsert, Makes, NoOrphan, Keys
<1>6. ASSUME NEW e \in Endp, RemoveOld(e) PROVE CloseInv'
  BY <1>6 DEF RemoveOld, Makes, NoOrphan
<1>7. ASSUME NEW e \in Endp, CloseOld(e) PROVE CloseInv'
  BY <1>7 DEF CloseOld, Makes, NoOrphan
<1>8. ASSUME NEW e \in Endp, LoadScheme(e) \/ ClearStale(e) \/ ClaimScheme(e) PROVE CloseInv'
  BY <1>8 DEF LoadScheme, ClearStale, ClaimScheme, Makes, NoOrphan
<1>9. ASSUME NEW e \in Endp, CloseCore(e) PROVE CloseInv'
  BY <1>9 DEF CloseCore, Closes, NoOrphan
<1>10. ASSUME NEW e \in Endp, remove_endpoint_owner(e) PROVE CloseInv'
  BY <1>10 DEF remove_endpoint_owner, Closes, NoOrphan
<1>11. ASSUME NEW e \in Endp, remove_endpoint(e) PROVE CloseInv'
  BY <1>11 DEF remove_endpoint, Closes, NoOrphan
<1>12. CASE clear_endpoint_owners \/ Reopens
  BY <1>12 DEF clear_endpoint_owners, Reopens, NoOrphan
<1>13. CASE close_all_endpoints
  BY <1>13 DEF close_all_endpoints, NoOrphan
<1>14. QED
  BY <1>1, <1>2, <1>3, <1>4, <1>5, <1>6, <1>7, <1>8, <1>9, <1>10, <1>11, <1>12, <1>13
     DEF TableNext, TableSteps

\* No endpoint is left running that nobody can reach.
THEOREM NoOrphanHolds == TableSpec => []NoOrphan
<1>1. CloseInv => NoOrphan
  BY DEF CloseInv
<1>2. QED
  BY <1>1, CloseInitially, CloseInductive, PTL DEF TableSpec
=============================================================================
