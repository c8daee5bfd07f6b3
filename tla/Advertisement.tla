------------------------------ MODULE Advertisement ------------------------------
(***************************************************************************)
(* One iroh-http peer advertisement and the worker that keeps it in step    *)
(* with the endpoint: advertise_peer and its refresh (lib.rs), the engine's *)
(* serialized update (engine/session.rs), the desktop mDNS transport        *)
(* (dns_sd.rs) and the mobile actor with its refresh task                   *)
(* (mobile_discovery_transport.rs, commands.rs).                            *)
(*                                                                         *)
(* A thread in req has won AdvertisementSession::close and still has to     *)
(* call request_close.  The refresh worker is the only caller of update and *)
(* never drops one, so no operation is inherited from a dropped call.       *)
(***************************************************************************)
EXTENDS TLC, PeerServiceConfig

CONSTANTS Setups,       \* [mode, bound, nodes, inventories]: platform ("off" when nothing
                        \* is advertised), sockets, possible worlds
          MaxChanges    \* bound on changes of the endpoint and its interfaces

VARIABLES setup,    \* the member of Setups this host is
          world,    \* the endpoint's address, its interfaces, whether they can be listed, closed
          start,    \* progress of advertise_peer, and of dropping what it returned
          session,   \* AdvertisementSession
          req,      \* threads about to call request_advertisement_close
          worker,   \* run_peer_advertisement_refresh, or the mobile refresh task
          tr        \* the transport and the native record

adVars == <<setup, world, start, session, req, worker, tr>>

Desktop == setup.mode = "desktop"
Mobile == setup.mode = "mobile"

\* The native mobile record: A/AAAA come from the system, addresses from TXT.
mobile_peer_advertisement_update(config) == [config EXCEPT !.port = 1, !.addrs = {}]

advertisement_update(config) ==
    IF Mobile THEN mobile_peer_advertisement_update(config) ELSE config

AdInit ==
    /\ setup \in Setups
    /\ world = [node |-> setup.nodes[1], ifs |-> setup.inventories[1], listable |-> TRUE,
                closed |-> FALSE, changes |-> 0]
    /\ start = "start"
    /\ session = [closed |-> FALSE, current |-> NoConfig, op |-> "none"]
    /\ req = {}
    /\ worker = [pc |-> "none", over |-> "no", cancel |-> FALSE, unseen |-> FALSE,
                 node |-> setup.nodes[1], ifs |-> <<>>, known |-> {}, config |-> NoConfig]
    /\ tr = [closing |-> FALSE, operation |-> "free", job |-> "none", published |-> NoConfig,
             result |-> "none", cleanup |-> "none", cmds |-> <<>>, actor |-> "recv"]

\* The configs a setup can come to: the builder written out over its worlds.
Worlds(s) ==
    LET lists == {operational_interface_ips(i) : i \in ToSet(s.inventories)} \cup {<<>>}
    IN  {s} \X ToSet(s.nodes) \X lists \X SUBSET UNION {ToSet(l) : l \in lists}

Configs ==
    [w \in UNION {Worlds(s) : s \in Setups} |->
       peer_service_config_from_reconciled_snapshot(w[1].bound, w[2], w[3], w[4])] @@ <<>>

Config(node, ifs, known) == Configs[<<setup, node, ifs, known>>]

---------------------------------------------------------------------------
(* AdvertisementSession::close and the transports' request_close.          *)

close_advertisement(t) ==
    /\ session' = [session EXCEPT !.closed = TRUE]
    /\ req' = IF session.closed THEN req ELSE req \cup {t}

\* MdnsAdvertisement starts a cleanup thread (or cleans up inline when it
\* cannot); NativeAdvertisementHandle queues a command for its actor.
request_advertisement_close(t) ==
    /\ t \in req /\ req' = req \ {t}
    /\ tr' = [tr EXCEPT
         !.closing = TRUE,
         !.cleanup = IF Desktop THEN "started" ELSE @,
         !.cmds = IF Mobile /\ tr.actor # "dead" THEN Append(@, "close") ELSE @,
         !.result = IF Mobile /\ tr.actor = "dead" /\ @ = "none" THEN "ok" ELSE @]
    /\ UNCHANGED <<setup, world, start, session, worker>>

---------------------------------------------------------------------------
(* advertise_peer.                                                         *)

\* The snapshot and its config.  The desktop watcher exists before the address
\* is read from it; the mobile one is created after the native start.
Snapshot ==
    /\ start = "start" /\ setup.mode # "off"
    /\ LET ifs == IF world.listable THEN operational_interface_ips(world.ifs) ELSE <<>>
           config == Config(world.node, ifs, ToSet(ifs))
           refused == world.closed \/ config = NoConfig
       IN  /\ start' = IF refused THEN "refused" ELSE "register"
           /\ worker' = IF refused THEN worker
                        ELSE [worker EXCEPT !.node = world.node, !.ifs = ifs, !.known = ToSet(ifs),
                                            !.config = config, !.unseen = FALSE]
    /\ UNCHANGED <<setup, world, session, req, tr>>

\* advertise_inner; detached_mobile_native_start and the new mobile session.
Register(ok) ==
    /\ start = "register"
    /\ IF ok THEN /\ start' = IF Mobile THEN "watch" ELSE "spawn"
                  /\ tr' = [tr EXCEPT !.published = advertisement_update(worker.config)]
                  /\ session' = [session EXCEPT !.current = advertisement_update(worker.config)]
       ELSE start' = "refused" /\ UNCHANGED <<tr, session>>
    /\ UNCHANGED <<setup, world, req, worker>>

\* ep.watch_addr() on mobile: what changed before is not reported.
WatchAddr ==
    /\ start = "watch" /\ start' = "spawn"
    /\ worker' = [worker EXCEPT !.unseen = FALSE]
    /\ UNCHANGED <<setup, world, session, req, tr>>

SpawnWorker(ok) ==
    /\ start = "spawn" /\ (Mobile => ok)
    /\ start' = IF ~ok THEN "drop" ELSE IF Mobile THEN "open" ELSE "recheck"
    /\ worker' = IF ok THEN [worker EXCEPT !.pc = "select"] ELSE worker
    /\ UNCHANGED <<setup, world, session, req, tr>>

AdRecheck ==
    /\ start = "recheck"
    /\ start' = IF world.closed THEN "drop" ELSE "open"
    /\ UNCHANGED <<setup, world, session, req, worker, tr>>

\* Drop of AdvertiseSession; close_mobile_peer_advertisement.
DropCall ==
    /\ start = "open" /\ start' = "drop"
    /\ UNCHANGED <<setup, world, session, req, worker, tr>>

\* Fault: the worker is joined without being cancelled or seeing the close.
join_before_closing ==
    /\ start = "drop" /\ start' = "join"
    /\ UNCHANGED <<setup, world, session, req, worker, tr>>

\* The transport is marked closed before the worker is cancelled and joined.
close_before_joining_refresh ==
    /\ start = "drop" /\ start' = "cancel"
    /\ close_advertisement("owner")
    /\ worker' = [worker EXCEPT !.cancel = IF Mobile THEN TRUE ELSE @]
    /\ UNCHANGED <<setup, world, tr>>

CancelWorker ==
    /\ start = "cancel" /\ "owner" \notin req /\ start' = "join"
    /\ worker' = [worker EXCEPT !.cancel = TRUE]
    /\ UNCHANGED <<setup, world, session, req, tr>>

JoinWorker ==
    /\ start = "join" /\ worker.pc \in {"none", "gone"} /\ start' = "waiting"
    /\ UNCHANGED <<setup, world, session, req, worker, tr>>

wait_closed_blocking ==
    /\ start = "waiting" /\ tr.result # "none" /\ start' = "dropped"
    /\ UNCHANGED <<setup, world, session, req, worker, tr>>

---------------------------------------------------------------------------
(* run_peer_advertisement_refresh, and the mobile refresh task.            *)

WorkerAt(l) == worker.pc = l /\ "worker" \notin req

Interrupted == worker.cancel \/ (Desktop /\ world.closed)

Interruption == IF worker.cancel THEN "cancel" ELSE "closed"

\* What the worker does once its last update is over.
Stops(over) == IF over = "cancel" /\ Desktop THEN "gone" ELSE "finish"

SelectStops ==
    /\ WorkerAt("select") /\ Interrupted
    /\ worker' = [worker EXCEPT !.pc = Stops(Interruption)]
    /\ UNCHANGED <<setup, world, start, session, req, tr>>

\* Fault: a tick re-announces the interfaces the worker started with.
SelectWakesStale ==
    /\ WorkerAt("select") /\ ~Interrupted /\ Desktop
    /\ LET node == IF worker.unseen THEN world.node ELSE worker.node
           config == Config(node, worker.ifs, worker.known)
       IN  worker' = [worker EXCEPT !.unseen = FALSE, !.node = node, !.config = config, !.pc = "update"]
    /\ UNCHANGED <<setup, world, start, session, req, tr>>

\* An endpoint change, or on the desktop a tick; then a new snapshot.  A failed
\* listing of the interfaces or an impossible config keeps the last record.
SelectWakes ==
    /\ WorkerAt("select") /\ ~Interrupted /\ Desktop
    /\ LET node == IF worker.unseen THEN world.node ELSE worker.node
           ifs == operational_interface_ips(world.ifs)
           known == worker.known \cup ToSet(ifs)
           config == Config(node, ifs, known)
           w == [worker EXCEPT !.unseen = FALSE, !.node = node]
       IN  worker' = IF ~world.listable THEN w
                     ELSE [w EXCEPT !.ifs = ifs, !.known = known, !.config = config,
                                    !.pc = IF config = NoConfig THEN "select" ELSE "update"]
    /\ UNCHANGED <<setup, world, start, session, req, tr>>

MobileWakes ==
    /\ WorkerAt("select") /\ ~Interrupted /\ Mobile /\ worker.unseen
    /\ worker' = [worker EXCEPT !.unseen = FALSE, !.pc = "inventory"]
    /\ UNCHANGED <<setup, world, start, session, req, tr>>

\* The interfaces are awaited; the config is read from the endpoint after that.
MobileInventory ==
    /\ WorkerAt("inventory")
    /\ LET ifs == IF world.listable THEN operational_interface_ips(world.ifs) ELSE <<>>
           config == Config(world.node, ifs, ToSet(ifs))
           stop == worker.cancel \/ world.closed \/ config = NoConfig
       IN  worker' = IF stop THEN [worker EXCEPT !.pc = "finish"]
                     ELSE [worker EXCEPT !.pc = "update", !.config = config, !.node = world.node,
                                         !.ifs = ifs, !.known = ToSet(ifs)]
    /\ UNCHANGED <<setup, world, start, session, req, tr>>

Returned(ok) ==
    worker' = [worker EXCEPT !.pc = IF worker.over # "no" THEN Stops(worker.over)
                                    ELSE IF ok THEN "select" ELSE "finish"]

\* The desktop select is biased: cancel, then endpoint close, then the update.
\* Either of them closes the session and lets the update it started finish.
UpdateInterrupted ==
    /\ WorkerAt("update") \/ WorkerAt("await")
    /\ Desktop /\ worker.over = "no" /\ Interrupted
    /\ close_advertisement("worker")
    /\ worker' = [worker EXCEPT !.over = Interruption]
    /\ UNCHANGED <<setup, world, start, tr>>

Uninterrupted == Desktop /\ Interrupted => worker.over # "no"

\* AdvertisementSession::update up to the transport call.
update ==
    /\ WorkerAt("update") /\ Uninterrupted
    /\ LET new == advertisement_update(worker.config) IN
       IF session.closed THEN Returned(FALSE) /\ UNCHANGED session
       ELSE IF session.current = new THEN Returned(TRUE) /\ UNCHANGED session
       ELSE /\ worker' = [worker EXCEPT !.pc = "await"]
            /\ session' = [session EXCEPT !.op = "start"]
    /\ UNCHANGED <<setup, world, start, req, tr>>

UpdateReturns ==
    /\ WorkerAt("await") /\ Uninterrupted /\ session.op \in {"ok", "err"}
    /\ session' = [session EXCEPT !.op = "none",
         !.current = IF session.op = "ok" THEN advertisement_update(worker.config) ELSE @,
         !.closed = @ \/ session.op = "err"]
    /\ req' = IF session.op = "err" /\ ~session.closed THEN req \cup {"worker"} ELSE req
    /\ Returned(session.op = "ok")
    /\ UNCHANGED <<setup, world, start, tr>>

\* on_finish closes the session; the mobile task also waits for the transport.
Finish ==
    /\ WorkerAt("finish")
    /\ close_advertisement("worker")
    /\ worker' = [worker EXCEPT !.pc = IF Mobile THEN "drain" ELSE "gone"]
    /\ UNCHANGED <<setup, world, start, tr>>

MobileDrained ==
    /\ WorkerAt("drain") /\ tr.result # "none"
    /\ worker' = [worker EXCEPT !.pc = "gone"]
    /\ UNCHANGED <<setup, world, start, session, req, tr>>

---------------------------------------------------------------------------
(* The spawned operation: the transport call, then close on failure.       *)

OperationDone(res) == session' = [session EXCEPT !.op = res]

\* MdnsAdvertisement::update hands over to a blocking thread, the mobile handle
\* to its actor; both refuse once closing.
TransportUpdate ==
    /\ session.op = "start"
    /\ IF tr.closing \/ (Mobile /\ tr.actor = "dead")
       THEN OperationDone("failed") /\ UNCHANGED tr
       ELSE /\ OperationDone("sent")
            /\ tr' = [tr EXCEPT !.job = IF Desktop THEN "queued" ELSE @,
                                !.cmds = IF Mobile THEN Append(@, "update") ELSE @]
    /\ UNCHANGED <<setup, world, start, req, worker>>

OperationFails ==
    /\ session.op = "failed"
    /\ session' = [session EXCEPT !.op = "failing", !.closed = TRUE]
    /\ req' = IF session.closed THEN req ELSE req \cup {"operation"}
    /\ UNCHANGED <<setup, world, start, worker, tr>>

OperationCompletes ==
    /\ session.op = "failing" /\ "operation" \notin req
    /\ OperationDone("err")
    /\ UNCHANGED <<setup, world, start, req, worker, tr>>

TransportStep == UNCHANGED <<setup, world, start, req, worker>>

\* replace_advertisement_transaction under the operation lock: goodbye, a gap in
\* which browsers see the service leave, then the new record unless closing.
JobGoodbye(ok) ==
    /\ tr.job = "queued" /\ tr.operation = "free"
    /\ IF tr.closing \/ ~ok
       THEN /\ OperationDone("failed")
            /\ \E gone \in {TRUE, FALSE} :
                 tr' = [tr EXCEPT !.job = "none",
                          !.published = IF gone /\ ~tr.closing THEN NoConfig ELSE @]
       ELSE /\ tr' = [tr EXCEPT !.job = "gap", !.operation = "job", !.published = NoConfig]
            /\ UNCHANGED session
    /\ TransportStep

wait_for_reannounce_or_close ==
    /\ tr.job = "gap"
    /\ tr' = [tr EXCEPT !.job = IF tr.closing THEN "refuse" ELSE "register"]
    /\ TransportStep /\ UNCHANGED session

JobRefused ==
    /\ tr.job = "refuse"
    /\ OperationDone("failed")
    /\ tr' = [tr EXCEPT !.job = "none", !.operation = "free"]
    /\ TransportStep

JobRegister(ok) ==
    /\ tr.job = "register"
    /\ OperationDone(IF ok THEN "ok" ELSE "failed")
    /\ tr' = [tr EXCEPT !.job = "none", !.operation = "free",
                !.published = IF ok THEN advertisement_update(worker.config) ELSE @]
    /\ TransportStep

\* Fault: the cleanup does not wait for the operation lock.
cleanup_unlocked(ok) ==
    /\ tr.cleanup = "started"
    /\ tr' = [tr EXCEPT !.cleanup = "done", !.published = IF ok THEN NoConfig ELSE @,
                        !.result = IF ok THEN "ok" ELSE "err"]
    /\ TransportStep /\ UNCHANGED session

\* MdnsAdvertisementShared::cleanup: stop_after_unregister under the same lock.
cleanup(ok) ==
    /\ tr.cleanup = "started" /\ tr.operation = "free"
    /\ tr' = [tr EXCEPT !.cleanup = "done", !.published = IF ok THEN NoConfig ELSE @,
                        !.result = IF ok THEN "ok" ELSE "err"]
    /\ TransportStep /\ UNCHANGED session

\* run_advertisement_actor: an update that fails stops the native record first.
ActorCommand(ok) ==
    /\ Mobile /\ tr.actor = "recv" /\ tr.cmds # <<>>
    /\ LET applied == Head(tr.cmds) = "update" /\ ok
       IN  /\ tr' = [tr EXCEPT !.cmds = Tail(@),
                       !.actor = IF applied THEN "recv"
                                 ELSE IF Head(tr.cmds) = "update" THEN "fail" ELSE "stop",
                       !.published = IF applied THEN advertisement_update(worker.config) ELSE @]
           /\ IF applied THEN OperationDone("ok") ELSE UNCHANGED session
    /\ TransportStep

close_native_advertisement(ok) ==
    /\ tr.actor \in {"stop", "fail"}
    /\ tr' = [tr EXCEPT !.actor = "dead", !.published = IF ok THEN NoConfig ELSE @,
                        !.result = IF @ # "none" THEN @ ELSE IF ok THEN "ok" ELSE "err"]
    /\ IF tr.actor = "fail" THEN OperationDone("failed") ELSE UNCHANGED session
    /\ TransportStep

---------------------------------------------------------------------------
(* The endpoint and the host.                                              *)

Changed(w) ==
    /\ setup.mode # "off" /\ start \notin {"refused", "dropped"}
    /\ world.changes < MaxChanges
    /\ world' = [w EXCEPT !.changes = @ + 1]
    /\ UNCHANGED <<setup, start, session, req, tr>>

NodeChanges ==
    \E n \in ToSet(setup.nodes) \ {world.node} :
        /\ Changed([world EXCEPT !.node = n])
        /\ worker' = [worker EXCEPT !.unseen = TRUE]

InterfacesChange ==
    \E i \in ToSet(setup.inventories) \ {world.ifs} :
        Changed([world EXCEPT !.ifs = i]) /\ UNCHANGED worker

ListingChanges == Changed([world EXCEPT !.listable = ~@]) /\ UNCHANGED worker

EndpointCloses == ~world.closed /\ Changed([world EXCEPT !.closed = TRUE]) /\ UNCHANGED worker

---------------------------------------------------------------------------

OwnerStep ==
    \/ Snapshot \/ WatchAddr \/ AdRecheck
    \/ \E ok \in BOOLEAN : Register(ok) \/ SpawnWorker(ok)
    \/ close_before_joining_refresh \/ request_advertisement_close("owner") \/ CancelWorker \/ JoinWorker
    \/ wait_closed_blocking

WorkerStep ==
    \/ SelectStops \/ SelectWakes \/ MobileWakes \/ MobileInventory
    \/ UpdateInterrupted \/ update \/ UpdateReturns \/ Finish \/ MobileDrained
    \/ request_advertisement_close("worker")

OperationStep ==
    TransportUpdate \/ OperationFails \/ OperationCompletes \/ request_advertisement_close("operation")

TransportThreads ==
    \/ wait_for_reannounce_or_close \/ JobRefused
    \/ \E ok \in BOOLEAN : JobGoodbye(ok) \/ JobRegister(ok)
    \/ \E ok \in BOOLEAN : ActorCommand(ok) \/ close_native_advertisement(ok)

Cleanup == \E ok \in BOOLEAN : cleanup(ok)

AdNext ==
    \/ OwnerStep \/ WorkerStep \/ OperationStep \/ TransportThreads \/ Cleanup
    \/ DropCall
    \/ NodeChanges \/ InterfacesChange \/ ListingChanges \/ EndpointCloses

\* Every thread and task runs on, and the daemon and the native side answer.
AdFairness ==
    /\ WF_adVars(OwnerStep) /\ WF_adVars(WorkerStep) /\ WF_adVars(OperationStep)
    /\ WF_adVars(TransportThreads) /\ WF_adVars(Cleanup)

---------------------------------------------------------------------------
(* Properties.                                                             *)

\* A withdrawn advertisement stays withdrawn: once the transport reports a clean
\* close nothing is published, whatever update was between its goodbye and its
\* replacement, and when dropping the session returns its worker is gone too
\* (close_before_joining_refresh, MdnsAdvertisementShared::cleanup).
WithdrawnForGood ==
    /\ tr.result = "ok" => tr.published = NoConfig /\ tr.job # "register"
    /\ start = "dropped" => /\ tr.result # "none"
                            /\ worker.pc \in {"none", "gone"} /\ session.op = "none"

\* Every address a browser reads from the record the worker is about to publish
\* can be dialed: it is a candidate of the endpoint with a port of its own, or a
\* socket bound to that family, host and port; and no address the session saw
\* locally outlives its interface (peer_service_config_from_reconciled_snapshot
\* read back by peer_event_from_record).
AdvertisedIsDialable ==
    worker.pc = "update" =>
        LET event == peer_event_from_record(
                       record_from_resolved(AsResolved("i", advertisement_update(worker.config))))
        IN  \A a \in event.addrs \ {worker.config.relay} :
              /\ \/ a \in ToSet(worker.node.ips) /\ ~is_placeholder_port(a.port)
                 \/ \E b \in ToSet(setup.bound) : b.port = a.port /\ Matches(b, a) /\ a.port > 1
              /\ IpOf(a) \in worker.known => IpOf(a) \in ToSet(worker.ifs)

Wanted == advertisement_update(
            Config(world.node, operational_interface_ips(world.ifs),
                   worker.known \cup ToSet(operational_interface_ips(world.ifs))))

\* Once the endpoint and its interfaces stop changing, an open desktop
\* advertisement comes to publish exactly what they are
\* (run_peer_advertisement_refresh).
DesktopFollowsEndpoint ==
    <>[](Desktop /\ start = "open" /\ ~session.closed /\ world.listable =>
           tr.published = Wanted \/ Wanted = NoConfig)

\* The same promise for mobile, whose interfaces do not change here: "A peer
\* advertisement watches Endpoint::watch_addr() and re-registers the same DNS-SD
\* service identity when its direct addresses or relay URLs change" (ADR 019).
MobileFollowsEndpoint ==
    <>[](Mobile /\ start = "open" /\ ~session.closed /\ world.listable =>
           tr.published = Wanted \/ Wanted = NoConfig)

\* Dropping an advertisement returns, and an endpoint that closes withdraws its
\* desktop advertisement without anybody dropping it.
AdvertisementEnds ==
    []<>(/\ start \notin {"drop", "cancel", "join", "waiting"}
         /\ Desktop /\ world.closed /\ start = "open" => tr.result # "none")
=============================================================================
