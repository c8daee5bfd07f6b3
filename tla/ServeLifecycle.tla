--------------------------- MODULE ServeLifecycle ---------------------------
(***************************************************************************)
(* Who controls which serve cycle of an endpoint (endpoint/lifecycle.rs,   *)
(* http/server/handle.rs, serve_with_events and ffi_serve_with_callback).  *)
(* A serve call mints a token, puts its handle into the endpoint's serve   *)
(* slot, spawns the accept task, attaches it to the handle, installs the   *)
(* service for self-requests and hands the handle to the adapter, which    *)
(* confirms it.  stop_serve, a further serve call, close and close_force   *)
(* may come between any two of these steps.                                *)
(*                                                                         *)
(* What a cycle does with its connections is module ServeRuntime's; here   *)
(* an accept task runs, drains and ends.  Everything done under the lock   *)
(* of the serve slot is one step.  A cycle is named by its token.          *)
(***************************************************************************)
EXTENDS Naturals, FiniteSets

CONSTANT Cycle      \* the serve calls

ASSUME CycleAssumption == 0 \notin Cycle

NoCycle == 0

VARIABLES
    servePc,          \* how far each serve call is
    serveSlot,        \* SessionRuntime::serve_handle
    doneRx,      \* SessionRuntime::serve_done_rx: the cycle it belongs to
    local,       \* FfiBridge::local_service: the cycle it belongs to
    stopReq,     \* cycles with shutdown_requested
    cyclePermit,      \* cycles whose shutdown_notify holds a permit
    cycleCloseFlag,   \* cycles with close_flag
    abortReq,    \* cycles with abort_requested
    join,        \* cycles whose handle holds the JoinHandle
    abortSent,   \* cycles whose task was told to abort
    accept,      \* the accept task of each cycle
    closer,      \* the close or close_force call: its step, its kind and the cycle it took
    ended,       \* the transport is closed
    closed       \* closed_tx

handleVars == <<stopReq, cyclePermit, cycleCloseFlag, abortReq, join, abortSent>>
serveSlotVars == <<serveSlot, doneRx, local>>
closeVars == <<closer, ended, closed>>
lifecycleVars == <<servePc, serveSlotVars, handleVars, accept, closeVars>>

Steps == {"new", "registered", "spawned", "attached", "installed", "over"}
CloserSteps == {"idle", "took", "waits", "aborts", "clears", "closes", "sends", "over"}

LifecycleTypeOK ==
    /\ servePc \in [Cycle -> Steps]
    /\ serveSlot \in Cycle \cup {NoCycle}
    /\ doneRx \in Cycle \cup {NoCycle}
    /\ local \in Cycle \cup {NoCycle}
    /\ stopReq \subseteq Cycle
    /\ cyclePermit \subseteq stopReq
    /\ cycleCloseFlag \subseteq stopReq
    /\ abortReq \subseteq Cycle
    /\ join \subseteq Cycle
    /\ abortSent \subseteq abortReq
    /\ accept \in [Cycle -> {"unborn", "starting", "running", "draining", "done", "aborted"}]
    /\ closer \in [step : CloserSteps, kind : {"graceful", "force"}, cycle : Cycle \cup {NoCycle}]
    /\ ended \in BOOLEAN /\ closed \in BOOLEAN

LifecycleInit ==
    /\ servePc = [s \in Cycle |-> "new"]
    /\ serveSlot = NoCycle /\ doneRx = NoCycle /\ local = NoCycle
    /\ stopReq = {} /\ cyclePermit = {} /\ cycleCloseFlag = {}
    /\ abortReq = {} /\ join = {} /\ abortSent = {}
    /\ accept = [s \in Cycle |-> "unborn"]
    /\ closer \in [step : {"idle"}, kind : {"graceful", "force"}, cycle : {NoCycle}]
    /\ ended = FALSE /\ closed = FALSE

LifecycleGoto(s, step) == servePc' = [servePc EXCEPT ![s] = step]
Registered(s) == servePc[s] # "new"
\* The accept task is gone: its done_tx has sent or was dropped, and either
\* ends wait_serve_stop.
Ended(s) == accept[s] \in {"done", "aborted"}

-----------------------------------------------------------------------------
(* The handle *)

\* Fault: notify_waiters keeps no permit for a task that does not listen yet.
ShutdownListening(S) == {s \in S : accept[s] = "running"}

\* shutdown_notify.notify_one(): the cyclePermit waits for the accept loop.
StopHeard(S) == S

\* ServeHandle::shutdown
Shutdown(S) ==
    /\ stopReq' = stopReq \cup S
    /\ cyclePermit' = cyclePermit \cup StopHeard(S)

\* ServeHandle::shutdown_and_close; its steps as seen by the connections are
\* in module ServeRuntime.
ShutdownAndClose(S) == Shutdown(S) /\ cycleCloseFlag' = cycleCloseFlag \cup S

\* Fault: the replaced cycle is only dropped.
ReplacedDropped(s) == {}

\* guard.take(): the cycle a registration replaces.
Replaced(s) == {serveSlot} \ {NoCycle, s}

-----------------------------------------------------------------------------
(* serve_with_events and ffi_serve_with_callback *)

\* next_serve_token, register_serve_handle
Register(s) ==
    /\ servePc[s] = "new"
    /\ ShutdownAndClose(Replaced(s))
    /\ local' = NoCycle
    /\ doneRx' = s
    /\ serveSlot' = s
    /\ LifecycleGoto(s, "registered")
    /\ UNCHANGED <<abortReq, join, abortSent, accept, closeVars>>

\* tokio::spawn(accept_loop(...))
Spawn(s) ==
    /\ servePc[s] = "registered"
    /\ accept' = [accept EXCEPT ![s] = "starting"]
    /\ LifecycleGoto(s, "spawned")
    /\ UNCHANGED <<serveSlotVars, handleVars, closeVars>>

\* abort_requested, read under the join lock
AbortedEarly(s) == s \in abortReq

\* ServeHandle::attach_join
AttachJoin(s) ==
    /\ servePc[s] = "spawned"
    /\ IF AbortedEarly(s)
          THEN abortSent' = abortSent \cup {s} /\ UNCHANGED join
          ELSE join' = join \cup {s} /\ UNCHANGED abortSent
    /\ LifecycleGoto(s, "attached")
    /\ UNCHANGED <<serveSlotVars, stopReq, cyclePermit, cycleCloseFlag, abortReq, accept,
        closeVars>>

\* is_current && !handle.is_shutdown_requested()
Installs(s) == serveSlot = s /\ s \notin stopReq

\* set_local_service_for
InstallLocal(s) ==
    /\ servePc[s] = "attached"
    /\ local' = IF Installs(s) THEN s ELSE local
    /\ LifecycleGoto(s, "installed")
    /\ UNCHANGED <<serveSlot, doneRx, handleVars, accept, closeVars>>

\* The slot is empty or holds another cycle's handle.
LateHandOff(s) == serveSlot # s

\* set_serve_handle, called by the adapter with the handle it got
HandOff(s) ==
    /\ servePc[s] = "installed"
    /\ IF LateHandOff(s) THEN ShutdownAndClose({s}) ELSE UNCHANGED <<stopReq, cyclePermit,
        cycleCloseFlag>>
    /\ LifecycleGoto(s, "over")
    /\ UNCHANGED <<serveSlotVars, abortReq, join, abortSent, accept, closeVars>>

ServeCall(s) == Register(s) \/ Spawn(s) \/ AttachJoin(s) \/ InstallLocal(s) \/ HandOff(s)

-----------------------------------------------------------------------------
(* stop_serve *)

StopServe ==
    /\ local' = NoCycle
    /\ Shutdown({serveSlot} \ {NoCycle})
    /\ UNCHANGED <<servePc, serveSlot, doneRx, cycleCloseFlag, abortReq, join, abortSent, accept,
        closeVars>>

-----------------------------------------------------------------------------
(* The accept task *)

\* The cycle's runtime is built; an invalid configuration ends the task here.
AcceptStarts(s) ==
    /\ accept[s] = "starting"
    /\ \E outcome \in {"running", "done"} : accept' = [accept EXCEPT ![s] = outcome]
    /\ UNCHANGED <<servePc, serveSlotVars, handleVars, closeVars>>

\* shutdown_listen.notified()
AcceptStopped(s) ==
    /\ accept[s] = "running"
    /\ s \in cyclePermit
    /\ cyclePermit' = cyclePermit \ {s}
    /\ accept' = [accept EXCEPT ![s] = "draining"]
    /\ UNCHANGED <<servePc, serveSlotVars, stopReq, cycleCloseFlag, abortReq, join, abortSent,
        closeVars>>

\* accept() answers NoCycle on a closed transport
AcceptEndpointClosed(s) ==
    /\ accept[s] = "running"
    /\ ended
    /\ closed' = TRUE
    /\ accept' = [accept EXCEPT ![s] = "draining"]
    /\ UNCHANGED <<servePc, serveSlotVars, handleVars, closer, ended>>

\* runtime.shutdown() has returned, done_tx.send(true)
AcceptDone(s) ==
    /\ accept[s] = "draining"
    /\ accept' = [accept EXCEPT ![s] = "done"]
    /\ UNCHANGED <<servePc, serveSlotVars, handleVars, closeVars>>

\* JoinHandle::abort takes effect at the task's next await.
AcceptAborted(s) ==
    /\ s \in abortSent
    /\ accept[s] \in {"starting", "running", "draining"}
    /\ accept' = [accept EXCEPT ![s] = "aborted"]
    /\ UNCHANGED <<servePc, serveSlotVars, handleVars, closeVars>>

AcceptTask(s) ==
    AcceptStarts(s) \/ AcceptStopped(s) \/ AcceptEndpointClosed(s) \/ AcceptDone(s) \/ AcceptAborted(s)

-----------------------------------------------------------------------------
(* close and close_force *)

CloserAt(step) == closer' = [closer EXCEPT !.step = step]

\* serve_handle.lock().take()
CloseTakes ==
    /\ closer.step = "idle"
    /\ closer' = [closer EXCEPT !.step = IF serveSlot = NoCycle THEN "clears" ELSE "took",
        !.cycle = serveSlot]
    /\ serveSlot' = NoCycle
    /\ UNCHANGED <<servePc, doneRx, local, handleVars, accept, ended, closed>>

\* join.await, or done.wait_for when the task is not attached yet
WaitsForEnd(s) == "waits"

\* ServeHandle::drain: shutdown, then take the JoinHandle
DrainBegins ==
    /\ closer.step = "took" /\ closer.kind = "graceful"
    /\ Shutdown({closer.cycle})
    /\ join' = join \ {closer.cycle}
    /\ CloserAt(WaitsForEnd(closer.cycle))
    /\ UNCHANGED <<servePc, serveSlotVars, cycleCloseFlag, abortReq, abortSent, accept, ended,
        closed>>

DrainEnds ==
    /\ closer.step = "waits"
    /\ Ended(closer.cycle)
    /\ CloserAt("clears")
    /\ UNCHANGED <<servePc, serveSlotVars, handleVars, accept, ended, closed>>

\* ServeHandle::abort: abort_requested first ...
AbortFlag ==
    /\ closer.step = "took" /\ closer.kind = "force"
    /\ abortReq' = abortReq \cup {closer.cycle}
    /\ CloserAt("aborts")
    /\ UNCHANGED <<servePc, serveSlotVars, stopReq, cyclePermit, cycleCloseFlag, join, abortSent,
        accept, ended, closed>>

\* ... then the task, if it is attached
AbortJoin ==
    /\ closer.step = "aborts"
    /\ abortSent' = abortSent \cup (join \cap {closer.cycle})
    /\ CloserAt("clears")
    /\ UNCHANGED <<servePc, serveSlotVars, stopReq, cyclePermit, cycleCloseFlag, abortReq, join,
        accept, ended, closed>>

ClearLocal ==
    /\ closer.step = "clears"
    /\ local' = NoCycle
    /\ CloserAt("closes")
    /\ UNCHANGED <<servePc, serveSlot, doneRx, handleVars, accept, ended, closed>>

\* transport.close().await
CloseTransport ==
    /\ closer.step = "closes"
    /\ ended' = TRUE
    /\ CloserAt("sends")
    /\ UNCHANGED <<servePc, serveSlotVars, handleVars, accept, closed>>

SendClosed ==
    /\ closer.step = "sends"
    /\ closed' = TRUE
    /\ CloserAt("over")
    /\ UNCHANGED <<servePc, serveSlotVars, handleVars, accept, ended>>

CloseStep == DrainBegins \/ DrainEnds \/ AbortFlag \/ AbortJoin \/ ClearLocal \/ CloseTransport \/ SendClosed

LifecycleNext ==
    \/ \E s \in Cycle : ServeCall(s) \/ AcceptTask(s)
    \/ StopServe \/ CloseTakes \/ CloseStep

LifecycleSpec == LifecycleInit /\ [][LifecycleNext]_lifecycleVars

\* serve_with_events runs from registration to attach_join without an await;
\* tasks are scheduled and ready awaits resumed; a drain ends by its deadline.
\* Nobody has to call serve, stop or close.
LifecycleFairness ==
    /\ \A s \in Cycle : WF_lifecycleVars(Spawn(s)) /\ WF_lifecycleVars(AttachJoin(s))
    /\ \A s \in Cycle : WF_lifecycleVars(AcceptTask(s))
    /\ WF_lifecycleVars(CloseStep)

LifecycleFairSpec == LifecycleSpec /\ LifecycleFairness

-----------------------------------------------------------------------------
(* Properties *)

\* No accept loop escapes control: a registered cycle is in the slot, or was
\* told to stop or to abort, or is about to be by the close that took it.
EveryCycleControlled ==
    \A s \in Cycle : Registered(s) =>
        \/ serveSlot = s
        \/ s \in stopReq \cup abortReq
        \/ closer.step = "took" /\ closer.cycle = s

\* Self-requests reach the handler of the current, unstopped cycle only, or
\* of the cycle whose close has not cleared the service yet: a late install
\* revives neither a stopped nor a replaced cycle.
LocalIsCurrent ==
    local # NoCycle =>
        \/ serveSlot = local /\ local \notin stopReq
        \/ closer.cycle = local /\ closer.step \in {"took", "waits", "aborts", "clears"}

\* Abort cannot slip between spawn and attach_join: once both have run, the
\* task of the aborted cycle was told to abort.
AbortReachesTask ==
    \A s \in abortReq :
        closer.step # "aborts" /\ servePc[s] \notin {"registered", "spawned"} => s \in abortSent

\* close() closes the transport only after the cycle it took has ended, even
\* if its task was not attached yet.
GracefulCloseWaits ==
    (closer.kind = "graceful" /\ closer.cycle # NoCycle /\ ended) => Ended(closer.cycle)

\* A cycle's connections are cut without a drain only when it was replaced or
\* taken by a close: stop_serve alone never does it.
CutOnlyWhenSuperseded ==
    \A s \in cycleCloseFlag : serveSlot # s /\ (closer.cycle = s \/ doneRx # s)

\* Every cycle that was told to stop or whose transport is closed ends, also
\* when the stop came before its task ran, so that wait_serve_stop returns, and
\* so does every close and close_force.
StopEndsCycle ==
    []<>(/\ \A s \in Cycle : Registered(s) /\ (s \in stopReq \/ ended) => Ended(s)
         /\ closer.step \in {"idle", "over"})

=============================================================================
