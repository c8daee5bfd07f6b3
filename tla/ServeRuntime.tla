---------------------------- MODULE ServeRuntime ----------------------------
(***************************************************************************)
(* One ConnectionServeRuntime and the accept loop that owns it             *)
(* (crates/iroh-http-core/src/http/server: connection.rs, lifecycle.rs,    *)
(* accept.rs, handle.rs).                                                  *)
(*                                                                         *)
(* Every accepted QUIC connection is served by a handler task, which takes *)
(* a connection slot, accepts streams and spawns one request task per      *)
(* stream.  A request task owns two guards: the request guard, dropped     *)
(* when hyper is done, and the delivery guard, dropped when the transport  *)
(* acknowledged the response.  Shutdown stops stream admission, waits for  *)
(* the deliveries up to a deadline, publishes whether they drained, closes *)
(* the connections and waits for their handlers.                           *)
(*                                                                         *)
(* A step is the code between two points where another thread can be seen: *)
(* a lock, an atomic access, a Notify operation or an await.               *)
(***************************************************************************)
EXTENDS Integers, FiniteSets

CONSTANTS Conn,        \* connections that may reach the endpoint
          Peer,        \* authenticated remote endpoints
          PeerOf,      \* the peer of a connection
          Stream,      \* bidirectional streams peers may open
          ConnOf,      \* the connection a stream belongs to
          MaxPerPeer,  \* ConnectionServeOptions.max_connections_per_peer
          MaxTotal     \* ConnectionServeOptions.max_total_connections

ASSUME ConnAssumption ==
    /\ IsFiniteSet(Conn)
    /\ PeerOf \in [Conn -> Peer]

ASSUME StreamAssumption ==
    /\ IsFiniteSet(Stream)
    /\ ConnOf \in [Stream -> Conn]

\* ConnectionServeOptions::validate refuses a zero limit.
ASSUME LimitAssumption ==
    /\ MaxPerPeer \in Nat \ {0}
    /\ MaxTotal \in Nat \ {0}

VARIABLES
    task,        \* program counter of each connection's handler task
    live,        \* is the QUIC connection open?
    wake,        \* the handler's `close` future: none, registered, notified
    counts,      \* ConnectionAdmission.counts
    total,       \* ConnectionAdmission.total
    told,        \* connection events fired so far: how many of each kind
    stream,      \* state of each stream and of the request task that serves it
    aborted,     \* request tasks on which abort_all was called
    requests,    \* ConnectionServeInner.requests
    deliveries,  \* ConnectionServeInner.deliveries
    stopped,     \* StreamAdmissionBarrier.stopped
    drained,     \* ConnectionServeInner.drained
    closeFlag,   \* ConnectionServeInner.close_flag
    sd,          \* program counter of the shutdown future
    sdWake,      \* the Notified of wait_for_zero_until
    sdDrained,   \* the local `drained` of shutdown
    sdResult,    \* what shutdown returned
    expired,     \* has the shutdown deadline passed?
    acceptor,    \* program counter of accept_loop
    permit,      \* shutdown_notify holds a permit
    force        \* progress of ServeHandle::shutdown_and_close

connVars   == <<task, live, wake>>
slotVars   == <<counts, total, told>>
streamVars == <<stream, aborted, requests, deliveries>>
flagVars   == <<stopped, drained, closeFlag>>
stopVars   == <<flagVars, sd, sdWake, sdDrained, sdResult, expired>>
loopVars   == <<acceptor, permit, force>>
vars == <<connVars, slotVars, streamVars, stopVars, loopVars>>

-----------------------------------------------------------------------------
(* States *)

\* Inside the handler's loop, with its connection slot taken.
InLoop == {"top", "registered", "checked", "parked", "select", "admit"}

\* A handler owns a ConnectionTracker from acquire to its drop.
Holding == {"announce"} \cup InLoop \cup {"ending", "joining", "release"}

Finished == {"rejected", "done"}

TaskStates == {"absent", "spawned", "retract"} \cup Holding \cup Finished

\* A request task holds its request guard while hyper runs and its delivery
\* guard until the response is acknowledged.
Delivering == {"processing", "acking"}

TaskOver == {"complete", "cancelled"}

StreamStates == {"unopened", "queued", "accepted", "refused", "joined"}
                    \cup Delivering \cup TaskOver

TypeOK ==
    /\ task \in [Conn -> TaskStates]
    /\ live \in [Conn -> BOOLEAN]
    /\ wake \in [Conn -> {"none", "registered", "notified"}]
    /\ counts \in [Peer -> Nat]
    /\ total \in Nat
    /\ told \in [Peer -> [connected : Nat, disconnected : Nat]]
    /\ stream \in [Stream -> StreamStates]
    /\ aborted \in SUBSET Stream
    /\ requests \in Nat
    /\ deliveries \in Nat
    /\ stopped \in BOOLEAN /\ drained \in BOOLEAN /\ closeFlag \in BOOLEAN
    /\ sd \in {"idle", "drainRegister", "drainCheck", "drainWait", "store", "flag",
               "notify", "connRegister", "connCheck", "connWait", "returned"}
    /\ sdWake \in {"none", "registered", "notified"}
    /\ sdDrained \in BOOLEAN /\ sdResult \in BOOLEAN /\ expired \in BOOLEAN
    /\ acceptor \in {"accepting", "handshake", "draining", "done"}
    /\ permit \in BOOLEAN
    /\ force \in {"no", "flagged", "stopping", "yes"}

Init ==
    /\ task = [c \in Conn |-> "absent"]
    /\ live = [c \in Conn |-> FALSE]
    /\ wake = [c \in Conn |-> "none"]
    /\ counts = [p \in Peer |-> 0]
    /\ total = 0
    /\ told = [p \in Peer |-> [connected |-> 0, disconnected |-> 0]]
    /\ stream = [s \in Stream |-> "unopened"]
    /\ aborted = {}
    /\ requests = 0
    /\ deliveries = 0
    /\ stopped = FALSE /\ drained = FALSE /\ closeFlag = FALSE
    /\ sd = "idle" /\ sdWake = "none"
    /\ sdDrained = FALSE /\ sdResult = FALSE /\ expired = FALSE
    /\ acceptor = "accepting" /\ permit = FALSE /\ force = "no"

Goto(c, pc) == task' = [task EXCEPT ![c] = pc]

\* The end of one iteration of the handler's loop: its `close` future is dropped.
Leave(c, pc) == Goto(c, pc) /\ wake' = [wake EXCEPT ![c] = "none"]

\* Notify::notify_waiters stores no permit: it reaches the futures registered
\* at this moment and no later one.
Notified(w) == IF w = "registered" THEN "notified" ELSE w

TasksOf(c) == {s \in Stream : ConnOf[s] = c /\ stream[s] \in Delivering \cup TaskOver}

Running(c) == {s \in TasksOf(c) : stream[s] \in Delivering}

-----------------------------------------------------------------------------
(* The accept loop *)

\* The biased select! prefers a stop permit to a new connection.  Having taken
\* a connection, the loop awaits its handshake and looks at nothing else.
TakeIncoming ==
    /\ acceptor = "accepting" /\ ~permit
    /\ acceptor' = "handshake"
    /\ UNCHANGED <<connVars, slotVars, streamVars, stopVars, permit, force>>

\* The handshake yields an HTTP connection; its handler task is spawned.
AcceptConnection(c) ==
    /\ acceptor = "handshake"
    /\ task[c] = "absent"
    /\ acceptor' = "accepting"
    /\ Goto(c, "spawned")
    /\ live' = [live EXCEPT ![c] = TRUE]
    /\ UNCHANGED <<wake, slotVars, streamVars, stopVars, permit, force>>

\* The handshake fails, or validate_http_connection refuses the protocol.
DiscardIncoming ==
    /\ acceptor = "handshake"
    /\ acceptor' = "accepting"
    /\ UNCHANGED <<connVars, slotVars, streamVars, stopVars, permit, force>>

\* The loop breaks and calls runtime.shutdown, whose first act is
\* StreamAdmissionBarrier::stop.
BreakLoop ==
    /\ acceptor' = "draining"
    /\ stopped' = TRUE
    /\ sd' = "drainRegister"
    /\ UNCHANGED <<task, wake, slotVars, streamVars, drained, closeFlag, sdWake,
                   sdDrained, sdResult, expired, force>>

\* The loop takes the stop permit.
StopAccepting ==
    /\ acceptor = "accepting" /\ permit
    /\ permit' = FALSE
    /\ BreakLoop
    /\ UNCHANGED live

\* accept returns None: the endpoint was closed, and its connections with it.
EndpointClosed ==
    /\ acceptor = "accepting" /\ ~permit
    /\ live' = [c \in Conn |-> FALSE]
    /\ BreakLoop
    /\ UNCHANGED permit

\* done_tx.send(true)
SendDone ==
    /\ acceptor = "draining" /\ sd = "returned"
    /\ acceptor' = "done"
    /\ UNCHANGED <<connVars, slotVars, streamVars, stopVars, permit, force>>

-----------------------------------------------------------------------------
(* ServeHandle *)

\* ServeHandle::shutdown.  notify_one stores one permit; a later one is never
\* taken once the loop is left.
HandleShutdown ==
    /\ acceptor \in {"accepting", "handshake"} /\ ~permit
    /\ permit' = TRUE
    /\ UNCHANGED <<connVars, slotVars, streamVars, stopVars, acceptor, force>>

\* ServeHandle::shutdown_and_close, one step per effect: the close flag, the
\* stop permit, the wake-up of the registered handlers.
ForceFlag ==
    /\ force = "no"
    /\ force' = "flagged"
    /\ closeFlag' = TRUE
    /\ UNCHANGED <<connVars, slotVars, streamVars, stopped, drained, sd, sdWake,
                   sdDrained, sdResult, expired, acceptor, permit>>

ForceStop ==
    /\ force = "flagged"
    /\ force' = "stopping"
    /\ permit' = (permit \/ acceptor \in {"accepting", "handshake"})
    /\ UNCHANGED <<connVars, slotVars, streamVars, stopVars, acceptor>>

ForceNotify ==
    /\ force = "stopping"
    /\ force' = "yes"
    /\ wake' = [c \in Conn |-> Notified(wake[c])]
    /\ UNCHANGED <<task, live, slotVars, streamVars, stopVars, acceptor, permit>>

-----------------------------------------------------------------------------
(* ConnectionAdmission::acquire and ConnectionTracker::drop *)

\* Fault: the total limit is off by one.
RoomOffByOne(p) == total <= MaxTotal /\ counts[p] < MaxPerPeer

HasRoom(p) == total < MaxTotal /\ counts[p] < MaxPerPeer

\* The locked section of acquire.  The 0 -> 1 event fires after the unlock.
Acquire(c) ==
    LET p == PeerOf[c] IN
    /\ task[c] = "spawned"
    /\ HasRoom(p)
    /\ counts' = [counts EXCEPT ![p] = @ + 1]
    /\ total' = total + 1
    /\ Goto(c, IF counts[p] = 0 THEN "announce" ELSE "top")
    /\ UNCHANGED <<live, wake, told, streamVars, stopVars, loopVars>>

\* Either limit is full: the connection is closed with an error.
RefuseConnection(c) ==
    /\ task[c] = "spawned"
    /\ ~HasRoom(PeerOf[c])
    /\ Goto(c, "rejected")
    /\ live' = [live EXCEPT ![c] = FALSE]
    /\ UNCHANGED <<wake, slotVars, streamVars, stopVars, loopVars>>

\* callback(connected: true), with the lock released.
FireConnected(c) ==
    /\ task[c] = "announce"
    /\ Goto(c, "top")
    /\ told' = [told EXCEPT ![PeerOf[c]] = [connected |-> @.connected + 1,
                   disconnected |-> @.disconnected]]
    /\ UNCHANGED <<live, wake, counts, total, streamVars, stopVars, loopVars>>

\* Fault: every dropped connection fires a disconnect event.
AnyIsLast(p) == TRUE

\* The drop takes the peer's count from 1 to 0.
IsLast(p) == counts[p] = 1

\* ConnectionTracker::drop: the locked section, then released.notify_waiters.
Release(c) ==
    LET p == PeerOf[c] IN
    /\ task[c] = "release"
    /\ counts' = [counts EXCEPT ![p] = IF @ > 0 THEN @ - 1 ELSE 0]
    /\ total' = total - 1
    /\ Goto(c, IF IsLast(p) THEN "retract" ELSE "done")
    /\ sdWake' = IF sd \in {"connCheck", "connWait"} THEN Notified(sdWake) ELSE sdWake
    /\ UNCHANGED <<live, wake, told, streamVars, flagVars, sd, sdDrained, sdResult,
                   expired, loopVars>>

\* callback(connected: false), with the lock released.
FireDisconnected(c) ==
    /\ task[c] = "retract"
    /\ Goto(c, "done")
    /\ told' = [told EXCEPT ![PeerOf[c]] = [connected |-> @.connected,
                   disconnected |-> @.disconnected + 1]]
    /\ UNCHANGED <<live, wake, counts, total, streamVars, stopVars, loopVars>>

-----------------------------------------------------------------------------
(* serve_validated: the handler's loop *)

\* Fault: the handler does not register before it reads the flags.
RegisterNothing(c) ==
    /\ task[c] = "top"
    /\ Goto(c, "registered")
    /\ UNCHANGED <<live, wake, slotVars, streamVars, stopVars, loopVars>>

\* `close` is registered before the flags are read.
RegisterClose(c) ==
    /\ task[c] = "top"
    /\ Goto(c, "registered")
    /\ wake' = [wake EXCEPT ![c] = "registered"]
    /\ UNCHANGED <<live, slotVars, streamVars, stopVars, loopVars>>

CheckClosed(c) ==
    /\ task[c] = "registered"
    /\ IF closeFlag
       THEN Leave(c, "ending") /\ live' = [live EXCEPT ![c] = FALSE]
       ELSE Goto(c, "checked") /\ UNCHANGED <<live, wake>>
    /\ UNCHANGED <<slotVars, streamVars, stopVars, loopVars>>

\* Once admission is stopped the handler only waits for `close`.
CheckStopped(c) ==
    /\ task[c] = "checked"
    /\ Goto(c, IF stopped THEN "parked" ELSE "select")
    /\ UNCHANGED <<live, wake, slotVars, streamVars, stopVars, loopVars>>

\* `close` resolves, in the parked wait or as the first select! branch.
WakeUp(c) ==
    /\ task[c] \in {"parked", "select"}
    /\ wake[c] = "notified"
    /\ Leave(c, "top")
    /\ UNCHANGED <<live, slotVars, streamVars, stopVars, loopVars>>

\* One poll of the biased select! past its first branch.
Polls(c) == task[c] = "select" /\ wake[c] # "notified"

Over(c) == {s \in TasksOf(c) : stream[s] \in TaskOver}

Queued(c) == {s \in Stream : ConnOf[s] = c /\ stream[s] = "queued"}

JoinNext(c) ==
    /\ Polls(c)
    /\ \E s \in Over(c) : stream' = [stream EXCEPT ![s] = "joined"]
    /\ Leave(c, "top")
    /\ UNCHANGED <<live, slotVars, aborted, requests, deliveries, stopVars, loopVars>>

AcceptStream(c) ==
    /\ Polls(c) /\ Over(c) = {} /\ live[c]
    /\ \E s \in Queued(c) : stream' = [stream EXCEPT ![s] = "accepted"]
    /\ Goto(c, "admit")
    /\ UNCHANGED <<live, wake, slotVars, aborted, requests, deliveries, stopVars, loopVars>>

\* accept_bi fails: the connection is gone.
AcceptFails(c) ==
    /\ Polls(c) /\ Over(c) = {} /\ ~live[c]
    /\ Leave(c, "ending")
    /\ UNCHANGED <<live, slotVars, streamVars, stopVars, loopVars>>

\* No request task and no stream for connection_idle_timeout.
IdleTimeout(c) ==
    /\ Polls(c) /\ live[c]
    /\ TasksOf(c) = {} /\ Queued(c) = {}
    /\ Leave(c, "ending")
    /\ live' = [live EXCEPT ![c] = FALSE]
    /\ UNCHANGED <<slotVars, streamVars, stopVars, loopVars>>

\* Fault: the stop flag is not read again under the gate.
AdmitsAlways == TRUE

AdmitsStreams == ~stopped

\* StreamAdmissionBarrier::try_admit, under its gate; the request task that is
\* spawned next already owns both guards.
TryAdmit(c) ==
    /\ task[c] = "admit"
    /\ \E s \in Stream :
         /\ ConnOf[s] = c /\ stream[s] = "accepted"
         /\ stream' = [stream EXCEPT ![s] = IF AdmitsStreams THEN "processing" ELSE "refused"]
    /\ requests' = IF AdmitsStreams THEN requests + 1 ELSE requests
    /\ deliveries' = IF AdmitsStreams THEN deliveries + 1 ELSE deliveries
    /\ Leave(c, "top")
    /\ UNCHANGED <<live, slotVars, aborted, stopVars, loopVars>>

AbortsTasks == closeFlag /\ ~drained

\* After the loop: abort the request tasks unless the runtime drained.
EndLoop(c) ==
    /\ task[c] = "ending"
    /\ aborted' = IF AbortsTasks THEN aborted \cup Running(c) ELSE aborted
    /\ Goto(c, "joining")
    /\ UNCHANGED <<live, wake, slotVars, stream, requests, deliveries, stopVars, loopVars>>

AllOver(c) == Running(c) = {}

\* join_next until the JoinSet is empty.
JoinAll(c) ==
    /\ task[c] = "joining"
    /\ AllOver(c)
    /\ stream' = [s \in Stream |-> IF s \in Over(c) THEN "joined" ELSE stream[s]]
    /\ Goto(c, "release")
    /\ UNCHANGED <<live, wake, slotVars, aborted, requests, deliveries, stopVars, loopVars>>

-----------------------------------------------------------------------------
(* Request tasks *)

\* DeliveryTracker::drop notifies when the last delivery is gone.
DropDelivery ==
    /\ deliveries' = deliveries - 1
    /\ sdWake' = IF deliveries = 1 /\ sd \in {"drainCheck", "drainWait"}
                 THEN Notified(sdWake) ELSE sdWake

\* serve_bistream returns and the request guard is dropped.
FinishRequest(s) ==
    /\ stream[s] = "processing"
    /\ stream' = [stream EXCEPT ![s] = "acking"]
    /\ requests' = requests - 1
    /\ UNCHANGED <<connVars, slotVars, aborted, deliveries, stopVars, loopVars>>

\* response_stopped resolves: acknowledged, stopped, or the connection failed.
FinishDelivery(s) ==
    /\ stream[s] = "acking"
    /\ stream' = [stream EXCEPT ![s] = "complete"]
    /\ DropDelivery
    /\ UNCHANGED <<connVars, slotVars, aborted, requests, flagVars, sd, sdDrained,
                   sdResult, expired, loopVars>>

OwnsRequest(s) == stream[s] = "processing"

\* An aborted task is dropped with whatever guards it still owns.
CancelTask(s) ==
    /\ s \in aborted
    /\ stream[s] \in Delivering
    /\ stream' = [stream EXCEPT ![s] = "cancelled"]
    /\ requests' = IF OwnsRequest(s) THEN requests - 1 ELSE requests
    /\ DropDelivery
    /\ UNCHANGED <<connVars, slotVars, aborted, flagVars, sd, sdDrained, sdResult,
                   expired, loopVars>>

-----------------------------------------------------------------------------
(* ConnectionServeRuntime::shutdown *)

\* wait_for_zero_until: register, then look at the counter, then wait.
WaitRegister ==
    /\ sd \in {"drainRegister", "connRegister"}
    /\ sd' = IF sd = "drainRegister" THEN "drainCheck" ELSE "connCheck"
    /\ sdWake' = "registered"
    /\ UNCHANGED <<connVars, slotVars, streamVars, flagVars, sdDrained, sdResult,
                   expired, loopVars>>

DrainCheck ==
    /\ sd = "drainCheck"
    /\ sdDrained' = (deliveries = 0)
    /\ sd' = IF deliveries = 0 \/ expired THEN "store" ELSE "drainWait"
    /\ sdWake' = IF sd' = "store" THEN "none" ELSE sdWake
    /\ UNCHANGED <<connVars, slotVars, streamVars, flagVars, sdResult, expired, loopVars>>

\* Fault: shutdown reports the drain only, not whether the handlers exited.
HandlersIgnored == TRUE

HandlersGone == total = 0

ConnCheck ==
    /\ sd = "connCheck"
    /\ sdResult' = (sdDrained /\ HandlersGone)
    /\ sd' = IF HandlersGone \/ expired THEN "returned" ELSE "connWait"
    /\ sdWake' = IF sd' = "returned" THEN "none" ELSE sdWake
    /\ UNCHANGED <<connVars, slotVars, streamVars, flagVars, sdDrained, expired, loopVars>>

\* Fault: the wait has no time limit.
WaitForNotify == sdWake = "notified"

WaitOver == sdWake = "notified" \/ expired

\* The Notified resolves or the sleep for the remaining time ends.
WaitEnds ==
    /\ sd \in {"drainWait", "connWait"}
    /\ WaitOver
    /\ sd' = IF sd = "drainWait" THEN "drainRegister" ELSE "connRegister"
    /\ sdWake' = "none"
    /\ UNCHANGED <<connVars, slotVars, streamVars, flagVars, sdDrained, sdResult,
                   expired, loopVars>>

\* drained is published before close_flag.
StoreDrained ==
    /\ sd = "store"
    /\ sd' = "flag"
    /\ drained' = sdDrained
    /\ UNCHANGED <<connVars, slotVars, streamVars, stopped, closeFlag, sdWake, sdDrained,
                   sdResult, expired, loopVars>>

RaiseCloseFlag ==
    /\ sd = "flag"
    /\ sd' = "notify"
    /\ closeFlag' = TRUE
    /\ UNCHANGED <<connVars, slotVars, streamVars, stopped, drained, sdWake, sdDrained,
                   sdResult, expired, loopVars>>

NotifyConnections ==
    /\ sd = "notify"
    /\ sd' = "connRegister"
    /\ wake' = [c \in Conn |-> Notified(wake[c])]
    /\ UNCHANGED <<task, live, slotVars, streamVars, flagVars, sdWake, sdDrained,
                   sdResult, expired, loopVars>>

-----------------------------------------------------------------------------
(* The environment *)

\* A peer opens a stream on an open connection.
OpenStream(s) ==
    /\ stream[s] = "unopened"
    /\ live[ConnOf[s]]
    /\ stream' = [stream EXCEPT ![s] = "queued"]
    /\ UNCHANGED <<connVars, slotVars, aborted, requests, deliveries, stopVars, loopVars>>

\* The peer closes the connection, or the path to it is lost.
PeerCloses(c) ==
    /\ live[c]
    /\ live' = [live EXCEPT ![c] = FALSE]
    /\ UNCHANGED <<task, wake, slotVars, streamVars, stopVars, loopVars>>

\* The drain timeout passes.
Expire ==
    /\ sd \notin {"idle", "returned"}
    /\ ~expired
    /\ expired' = TRUE
    /\ UNCHANGED <<connVars, slotVars, streamVars, flagVars, sd, sdWake, sdDrained,
                   sdResult, loopVars>>

-----------------------------------------------------------------------------
(* The specification *)

\* The steps a handler task takes by itself once it is scheduled.
HandlerStep(c) ==
    \/ Acquire(c) \/ RefuseConnection(c) \/ FireConnected(c)
    \/ RegisterClose(c) \/ CheckClosed(c) \/ CheckStopped(c) \/ WakeUp(c)
    \/ JoinNext(c) \/ AcceptStream(c) \/ AcceptFails(c) \/ TryAdmit(c)
    \/ EndLoop(c) \/ JoinAll(c) \/ Release(c) \/ FireDisconnected(c)

ShutdownStep ==
    \/ WaitRegister \/ DrainCheck \/ ConnCheck \/ WaitEnds
    \/ StoreDrained \/ RaiseCloseFlag \/ NotifyConnections

\* A connection that is dialled resolves: its handshake succeeds or times out.
AcceptorStep == DiscardIncoming \/ StopAccepting \/ SendDone

ForceStep == ForceStop \/ ForceNotify

Next ==
    \/ \E c \in Conn : \/ AcceptConnection(c) \/ HandlerStep(c) \/ IdleTimeout(c) \/ PeerCloses(c)
    \/ \E s \in Stream : \/ OpenStream(s) \/ FinishRequest(s) \/ FinishDelivery(s)
                         \/ CancelTask(s)
    \/ TakeIncoming \/ EndpointClosed \/ HandleShutdown \/ ForceFlag
    \/ ForceStep \/ AcceptorStep \/ ShutdownStep \/ Expire

Spec == Init /\ [][Next]_vars

\* Tokio keeps polling runnable tasks, drops aborted ones and fires timers.
\* Nothing is assumed of the peers or of how long a request takes.
Fairness ==
    /\ \A c \in Conn : WF_vars(HandlerStep(c))
    /\ \A s \in Stream : WF_vars(CancelTask(s))
    /\ WF_vars(ForceStep) /\ WF_vars(AcceptorStep)
    /\ WF_vars(ShutdownStep) /\ WF_vars(Expire)

FairSpec == Spec /\ Fairness

-----------------------------------------------------------------------------
(* Properties *)

Holders == {c \in Conn : task[c] \in Holding}
HoldersOf(p) == {c \in Holders : PeerOf[c] = p}

\* The admission counters equal the handlers that own a slot, for every peer
\* and in total, so neither max_connections_per_peer nor
\* max_total_connections is ever exceeded and no slot leaks.
AdmissionWithinCaps ==
    /\ total = Cardinality(Holders)
    /\ total <= MaxTotal
    /\ \A p \in Peer : /\ counts[p] = Cardinality(HoldersOf(p))
                       /\ counts[p] <= MaxPerPeer

\* Each counter equals the request tasks that own the matching guard: a task
\* that completes, fails or is aborted releases both exactly once.
GuardAccounting ==
    /\ deliveries = Cardinality({s \in Stream : stream[s] \in Delivering})
    /\ requests = Cardinality({s \in Stream : stream[s] = "processing"})

\* When shutdown has published drained = true, no request task is running and
\* none ever starts: a stream cannot land between the stop flag and the first
\* observation of zero deliveries.
DrainedMeansDelivered ==
    drained => \A s \in Stream : stream[s] \notin Delivering

\* A request task is aborted only if the drain deadline passed or the cycle
\* was closed by force; a graceful stop that drains aborts nothing.
AbortOnlyAfterDeadline ==
    aborted # {} => expired \/ force # "no"

\* When a connection's handler has returned, every request task it spawned is
\* over: no task outlives the connection slot it was counted under.
TasksEndBeforeHandler ==
    \A s \in Stream : stream[s] \in Delivering => task[ConnOf[s]] \in InLoop \cup {"ending", "joining"}

\* shutdown returns true only at a moment when no delivery is in flight and no
\* handler owns a connection slot.
ShutdownTrueMeansQuiet ==
    [][sd # "returned" /\ sd' = "returned" /\ sdResult' =>
          Holders' = {} /\ \A s \in Stream : stream'[s] \notin Delivering]_vars

\* Connect and disconnect events balance: counting the callbacks still to run,
\* exactly the peers with a connection have one connect event more.
EventBalance ==
    \A p \in Peer :
        told[p].connected + Cardinality({c \in HoldersOf(p) : task[c] = "announce"})
            - told[p].disconnected
            - Cardinality({c \in Conn : PeerOf[c] = p /\ task[c] = "retract"})
        = IF counts[p] > 0 THEN 1 ELSE 0

\* A handler still in its loop when the close flag is up always ends: the
\* wake-up cannot be lost, because `close` is registered before the flag is read.
CloseReachesHandlers ==
    \A c \in Conn : closeFlag /\ task[c] \in InLoop ~> task[c] = "done"

\* A stop request always completes: the accept loop reports done, whatever the
\* requests and the peers do.
StopCompletes == []<>(permit \/ acceptor = "draining" => acceptor = "done")

=============================================================================
