------------------------ MODULE AdvertisementProofs --------------------------
(***************************************************************************)
(* Proofs about Advertisement, for the desktop and the mobile transport,   *)
(* every setup and any number of address changes. That a withdrawn         *)
(* advertisement stays withdrawn rests on who may still publish: the       *)
(* session's only update in flight, the transport's queue and job, and     *)
(* where the worker and its owner are.                                     *)
(***************************************************************************)
EXTENDS Advertisement, TLAPS

\* x is in the list s.
Has(x, s) == \E i \in DOMAIN s : s[i] = x

\* Every field of the session but the update in flight may change.
SessionGoes(op) ==
    /\ session' = [closed |-> session'.closed, current |-> session'.current, op |-> session'.op]
    /\ session'.op = op

\* Every field of the worker but its place may change: pc is where it goes.
WorkerGoes(pc) ==
    /\ worker' = [pc |-> worker'.pc, over |-> worker'.over, cancel |-> worker'.cancel, unseen |-> worker'.unseen,
                  node |-> worker'.node, ifs |-> worker'.ifs, known |-> worker'.known, config |-> worker'.config]
    /\ worker'.pc = pc

\* The transport after a step, field by field.
TrIs(closing, operation, job, published, result, clean, cmds, actor) ==
    tr' = [closing |-> closing, operation |-> operation, job |-> job, published |-> published,
           result |-> result, cleanup |-> clean, cmds |-> cmds, actor |-> actor]

\* The variables are the records the code's structures are.
AdFields ==
    /\ session = [closed |-> session.closed, current |-> session.current, op |-> session.op]
    /\ worker = [pc |-> worker.pc, over |-> worker.over, cancel |-> worker.cancel, unseen |-> worker.unseen,
                 node |-> worker.node, ifs |-> worker.ifs, known |-> worker.known, config |-> worker.config]
    /\ tr = [closing |-> tr.closing, operation |-> tr.operation, job |-> tr.job, published |-> tr.published,
             result |-> tr.result, cleanup |-> tr.cleanup, cmds |-> tr.cmds, actor |-> tr.actor]
    /\ tr.cmds \in Seq({"update", "close"})

\* An update is in one place: with the worker, the operation, the job or the actor.
Updates ==
    /\ session.op # "none" => worker.pc = "await"
    /\ tr.job # "none" => Desktop /\ session.op = "sent"
    /\ Has("update", tr.cmds) => session.op = "sent"
    /\ \A i, j \in DOMAIN tr.cmds : tr.cmds[i] = "update" /\ tr.cmds[j] = "update" => i = j
    /\ tr.actor = "fail" => session.op = "sent" /\ ~Has("update", tr.cmds)
    /\ tr.actor # "recv" \/ tr.cmds # <<>> => Mobile

\* A transport that reported a clean close publishes nothing and its job is not
\* past the goodbye; it reports only when closing, or when its actor is gone.
Withdrawals ==
    /\ tr.operation = "free" => tr.job \in {"none", "queued"}
    /\ tr.cleanup # "none" => tr.closing /\ Desktop
    /\ tr.result # "none" => (Mobile /\ tr.actor = "dead") \/ (Desktop /\ tr.closing)
    /\ tr.actor = "dead" => tr.result # "none"
    /\ tr.result = "ok" => tr.published = NoConfig /\ tr.job \in {"none", "queued"}

\* Before the worker runs nothing is in flight and nothing is closed; when its
\* owner has joined it, it is gone.
Beginning ==
    /\ start \in {"start", "register", "watch", "spawn", "refused"} =>
         /\ worker.pc = "none" /\ req = {}
         /\ tr.cleanup = "none" /\ tr.actor = "recv" /\ tr.cmds = <<>> /\ tr.result = "none"
    /\ start \in {"waiting", "dropped"} => worker.pc \in {"none", "gone"}
    /\ start = "dropped" => tr.result # "none"

\* The inductive invariant of the advertisement.
AdInv == AdFields /\ Updates /\ Withdrawals /\ Beginning

\* The invariant holds before anything is advertised.
LEMMA AdStarts == AdInit => AdInv
<1>1. SUFFICES ASSUME AdInit PROVE AdInv
  OBVIOUS
<1>2. /\ start = "start" /\ req = {}
      /\ session = [closed |-> FALSE, current |-> NoConfig, op |-> "none"]
      /\ worker = [pc |-> "none", over |-> "no", cancel |-> FALSE, unseen |-> FALSE,
                   node |-> setup.nodes[1], ifs |-> <<>>, known |-> {}, config |-> NoConfig]
      /\ tr = [closing |-> FALSE, operation |-> "free", job |-> "none", published |-> NoConfig,
               result |-> "none", cleanup |-> "none", cmds |-> <<>>, actor |-> "recv"]
  BY <1>1 DEF AdInit
<1>3. <<>> \in Seq({"update", "close"}) /\ \A x : ~Has(x, <<>>)
  BY DEF Has
<1>4. AdFields
  BY <1>2, <1>3 DEF AdFields
<1>5. session.op = "none" /\ worker.pc = "none" /\ tr.job = "none" /\ tr.cmds = <<>> /\ tr.actor = "recv"
      /\ tr.cleanup = "none" /\ tr.result = "none"
  BY <1>2
<1>6. Updates /\ Withdrawals /\ Beginning
  BY <1>2, <1>3, <1>5 DEF Updates, Withdrawals, Beginning
<1>7. QED
  BY <1>4, <1>6 DEF AdInv

\* The worker, and the calls it makes, leave the transport alone.
LEMMA WorkerMoves ==
    ASSUME AdInv, UNCHANGED <<tr, start, setup>>, worker.pc \notin {"none", "gone"},
           NEW pc, WorkerGoes(pc), NEW op, SessionGoes(op),
           op # "none" => pc = "await", session.op = "sent" => op = "sent"
    PROVE  AdInv'
<1>1. worker'.pc = pc /\ session'.op = op
  BY DEF WorkerGoes, SessionGoes
<1>2. AdFields'
  BY DEF AdInv, AdFields, WorkerGoes, SessionGoes
<1>3. Updates'
  BY <1>1 DEF AdInv, Updates, Desktop, Mobile
<1>4. Withdrawals' /\ Beginning'
  BY <1>1 DEF AdInv, Withdrawals, Beginning, Desktop, Mobile
<1>5. QED
  BY <1>2, <1>3, <1>4 DEF AdInv

\* A session that does not change keeps its update.
LEMMA SessionStays == ASSUME AdInv, session' = session PROVE SessionGoes(session.op)
  BY DEF AdInv, AdFields, SessionGoes

\* The worker's select, and the snapshots it takes, keep the invariant.
LEMMA SelectKeeps ==
    ASSUME AdInv, SelectStops \/ SelectWakes \/ MobileWakes \/ MobileInventory \/ MobileDrained
    PROVE  AdInv'
<1>1. AdFields /\ session' = session /\ UNCHANGED <<tr, start, setup>> /\ SessionGoes(session.op)
  BY SessionStays DEF AdInv, SelectStops, SelectWakes, MobileWakes, MobileInventory, MobileDrained
<1>2. worker.pc \in {"select", "inventory", "drain"}
  BY DEF SelectStops, SelectWakes, MobileWakes, MobileInventory, MobileDrained, WorkerAt
<1>3. session.op = "none"
  BY <1>2 DEF AdInv, Updates
<1>4. \E pc : WorkerGoes(pc)
  <2>1. CASE SelectStops
    BY <1>1, <2>1 DEF SelectStops, AdFields, WorkerGoes
  <2>2. CASE SelectWakes
    <3>1. PICK node, ifs, known, config :
            LET w == [worker EXCEPT !.unseen = FALSE, !.node = node]
            IN  worker' = IF ~world.listable THEN w
                          ELSE [w EXCEPT !.ifs = ifs, !.known = known, !.config = config,
                                         !.pc = IF config = NoConfig THEN "select" ELSE "update"]
      BY <2>2, Zenon DEF SelectWakes
    <3>2. CASE ~world.listable
      <4>1. worker' = [worker EXCEPT !.unseen = FALSE, !.node = node]
        BY <3>1, <3>2
      <4>2. QED
        BY <1>1, <4>1, Zenon DEF AdFields, WorkerGoes
    <3>3. CASE world.listable
      <4>1. PICK pc : pc = IF config = NoConfig THEN "select" ELSE "update"
        BY Zenon
      <4>2. worker' = [[worker EXCEPT !.unseen = FALSE, !.node = node]
                        EXCEPT !.ifs = ifs, !.known = known, !.config = config, !.pc = pc]
        BY <3>1, <3>3, <4>1, Zenon
      <4>3. QED
        BY <1>1, <4>2, Zenon DEF AdFields, WorkerGoes
    <3>4. QED
      BY <3>2, <3>3
  <2>3. CASE MobileWakes
    BY <1>1, <2>3, Zenon DEF MobileWakes, AdFields, WorkerGoes
  <2>4. CASE MobileInventory
    <3>1. PICK ifs, known, config :
            \/ worker' = [worker EXCEPT !.pc = "finish"]
            \/ worker' = [worker EXCEPT !.pc = "update", !.config = config, !.node = world.node,
                                        !.ifs = ifs, !.known = known]
      BY <2>4, Zenon DEF MobileInventory
    <3>2. QED
      BY <1>1, <3>1, Zenon DEF AdFields, WorkerGoes
  <2>5. CASE MobileDrained
    BY <1>1, <2>5 DEF MobileDrained, AdFields, WorkerGoes
  <2>6. QED
    BY <2>1, <2>2, <2>3, <2>4, <2>5
<1>5. QED
  BY <1>1, <1>2, <1>3, <1>4, WorkerMoves

\* The worker's update, its interruption and its end keep the invariant.
LEMMA UpdateKeeps ==
    ASSUME AdInv, UpdateInterrupted \/ update \/ UpdateReturns \/ Finish
    PROVE  AdInv'
<1>1. AdFields /\ UNCHANGED <<tr, start, setup>>
  BY Zenon DEF AdInv, UpdateInterrupted, update, UpdateReturns, Finish
<1>2. worker.pc \in {"update", "await", "finish"} /\ (session.op # "none" => worker.pc = "await")
  BY Zenon DEF AdInv, Updates, UpdateInterrupted, update, UpdateReturns, Finish, WorkerAt
<1>3. CASE UpdateInterrupted
  <2>1. WorkerGoes(worker.pc)
    BY <1>1, <1>3, Zenon DEF UpdateInterrupted, AdFields, WorkerGoes
  <2>2. SessionGoes(session.op)
    BY <1>1, <1>3, Zenon DEF UpdateInterrupted, close_advertisement, AdFields, SessionGoes
  <2>3. QED
    BY <1>1, <1>2, <2>1, <2>2, WorkerMoves
<1>4. CASE Finish
  <2>1. PICK pc : worker' = [worker EXCEPT !.pc = pc]
    BY <1>4, Zenon DEF Finish
  <2>2. WorkerGoes(pc)
    BY <1>1, <2>1 DEF AdFields, WorkerGoes
  <2>3. SessionGoes(session.op) /\ worker.pc = "finish"
    BY <1>1, <1>4, Zenon DEF Finish, close_advertisement, AdFields, SessionGoes, WorkerAt
  <2>4. session.op = "none"
    BY <1>2, <2>3
  <2>5. QED
    BY <1>1, <1>2, <2>2, <2>3, <2>4, WorkerMoves
<1>5. CASE update
  <2>1. worker.pc = "update" /\ session.op = "none"
    BY <1>2, <1>5 DEF update, WorkerAt
  <2>2. \/ (\E ok \in BOOLEAN : Returned(ok)) /\ session' = session
        \/ worker' = [worker EXCEPT !.pc = "await"] /\ session' = [session EXCEPT !.op = "start"]
    BY <1>5, Zenon DEF update
  <2>3. CASE (\E ok \in BOOLEAN : Returned(ok)) /\ session' = session
    <3>1. PICK pc : worker' = [worker EXCEPT !.pc = pc]
      BY <2>3, Zenon DEF Returned
    <3>2. WorkerGoes(pc)
      BY <1>1, <3>1 DEF AdFields, WorkerGoes
    <3>3. SessionGoes(session.op)
      BY <2>3, SessionStays
    <3>4. QED
      BY <1>1, <1>2, <2>1, <3>2, <3>3, WorkerMoves
  <2>4. CASE worker' = [worker EXCEPT !.pc = "await"] /\ session' = [session EXCEPT !.op = "start"]
    <3>1. WorkerGoes("await") /\ SessionGoes("start")
      BY <1>1, <2>4, Zenon DEF AdFields, WorkerGoes, SessionGoes
    <3>2. QED
      BY <1>1, <1>2, <2>1, <3>1, WorkerMoves
  <2>5. QED
    BY <2>2, <2>3, <2>4
<1>6. CASE UpdateReturns
  <2>1. session.op \in {"ok", "err"}
    BY <1>6 DEF UpdateReturns
  <2>2. PICK pc : worker' = [worker EXCEPT !.pc = pc]
    BY <1>6, Zenon DEF UpdateReturns, Returned
  <2>3. PICK closed, current : session' = [session EXCEPT !.op = "none", !.current = current, !.closed = closed]
    BY <1>6, Zenon DEF UpdateReturns
  <2>4. WorkerGoes(pc) /\ SessionGoes("none")
    BY <1>1, <2>2, <2>3, Zenon DEF AdFields, WorkerGoes, SessionGoes
  <2>5. QED
    BY <1>1, <1>2, <2>1, <2>4, WorkerMoves
<1>7. QED
  BY <1>3, <1>4, <1>5, <1>6

\* A worker that does not change keeps its place.
LEMMA WorkerStays == ASSUME AdInv, worker' = worker PROVE WorkerGoes(worker.pc)
  BY DEF AdInv, AdFields, WorkerGoes

\* The owner's steps that touch neither the transport nor an update in flight.
LEMMA OwnerMoves ==
    ASSUME AdInv, UNCHANGED <<tr, setup>>, NEW pc, WorkerGoes(pc), SessionGoes(session.op),
           pc = worker.pc \/ (worker.pc = "none" /\ start' \notin {"waiting", "dropped"}),
           start' \in {"start", "register", "watch", "spawn", "refused"} =>
             start \in {"start", "register", "watch", "spawn"} /\ pc = "none" /\ req' = {},
           start' = "waiting" => pc \in {"none", "gone"},
           start' = "dropped" => start = "waiting" /\ tr.result # "none"
    PROVE  AdInv'
<1>1. worker'.pc = pc /\ session'.op = session.op
  BY DEF WorkerGoes, SessionGoes
<1>2. AdFields'
  BY DEF AdInv, AdFields, WorkerGoes, SessionGoes
<1>3. Updates'
  BY <1>1 DEF AdInv, Updates, Desktop, Mobile
<1>4. Withdrawals'
  BY DEF AdInv, Withdrawals, Desktop, Mobile
<1>5. Beginning'
  BY <1>1 DEF AdInv, Beginning
<1>6. QED
  BY <1>2, <1>3, <1>4, <1>5 DEF AdInv

\* advertise_peer and the drop of what it returned keep the invariant.
LEMMA OwnerKeeps ==
    ASSUME AdInv, \/ Snapshot \/ WatchAddr \/ AdRecheck \/ DropCall \/ (\E ok \in BOOLEAN : SpawnWorker(ok))
                  \/ close_before_joining_refresh \/ CancelWorker \/ JoinWorker \/ wait_closed_blocking
    PROVE  AdInv'
<1>1. AdFields /\ UNCHANGED <<tr, setup>>
  BY Zenon DEF AdInv, Snapshot, WatchAddr, AdRecheck, DropCall, SpawnWorker,
         close_before_joining_refresh, CancelWorker,
         JoinWorker, wait_closed_blocking
<1>2. SessionGoes(session.op)
  <2>1. CASE close_before_joining_refresh
    BY <1>1, <2>1, Zenon DEF close_before_joining_refresh, close_advertisement, AdFields, SessionGoes
  <2>2. CASE session' = session
    BY <2>2, SessionStays
  <2>3. QED
    BY Zenon, <2>1, <2>2
       DEF Snapshot, WatchAddr, AdRecheck, DropCall, SpawnWorker, CancelWorker, JoinWorker,
                      wait_closed_blocking
<1>3. start \in {"start", "register", "watch", "spawn"} => worker.pc = "none" /\ req = {}
  BY DEF AdInv, Beginning
<1>4. CASE Snapshot
  <2>1. PICK ifs, known, config :
          \/ worker' = worker
          \/ worker' = [worker EXCEPT !.node = world.node, !.ifs = ifs, !.known = known,
                                      !.config = config, !.unseen = FALSE]
    BY <1>4, Zenon DEF Snapshot
  <2>2. WorkerGoes(worker.pc)
    BY <1>1, <2>1, Zenon DEF AdFields, WorkerGoes
  <2>3. start = "start" /\ start' \in {"refused", "register"} /\ req' = req
    BY <1>4 DEF Snapshot
  <2>4. QED
    BY <1>1, <1>2, <1>3, <2>2, <2>3, OwnerMoves
<1>5. CASE WatchAddr
  <2>1. WorkerGoes(worker.pc)
    BY <1>1, <1>5, Zenon DEF WatchAddr, AdFields, WorkerGoes
  <2>2. start = "watch" /\ start' = "spawn" /\ req' = req
    BY <1>5 DEF WatchAddr
  <2>3. QED
    BY <1>1, <1>2, <1>3, <2>1, <2>2, OwnerMoves
<1>6. CASE \E ok \in BOOLEAN : SpawnWorker(ok)
  <2>1. PICK ok \in BOOLEAN : SpawnWorker(ok)
    BY <1>6
  <2>2. start = "spawn" /\ start' \in {"drop", "open", "recheck"} /\ req' = req
    BY <2>1 DEF SpawnWorker
  <2>3. worker' = worker \/ worker' = [worker EXCEPT !.pc = "select"]
    BY <2>1 DEF SpawnWorker
  <2>4. PICK pc : WorkerGoes(pc)
    <3>1. WorkerGoes(worker.pc) \/ WorkerGoes("select")
      BY <1>1, <2>3 DEF AdFields, WorkerGoes
    <3>2. QED
      BY <3>1
  <2>5. QED
    BY <1>1, <1>2, <1>3, <2>2, <2>4, OwnerMoves
<1>7. CASE AdRecheck \/ DropCall \/ JoinWorker \/ wait_closed_blocking
  <2>1. worker' = worker /\ req' = req
    BY <1>7 DEF AdRecheck, DropCall, JoinWorker, wait_closed_blocking
  <2>2. WorkerGoes(worker.pc)
    BY <2>1, WorkerStays
  <2>3. /\ start' \in {"drop", "open", "waiting", "dropped"}
        /\ start' = "waiting" => worker.pc \in {"none", "gone"}
        /\ start' = "dropped" => start = "waiting" /\ tr.result # "none"
    BY <1>7, Zenon DEF AdRecheck, DropCall, JoinWorker, wait_closed_blocking
  <2>4. QED
    BY <1>1, <1>2, <2>2, <2>3, OwnerMoves
<1>8. CASE close_before_joining_refresh \/ CancelWorker
  <2>1. PICK cancel : worker' = [worker EXCEPT !.cancel = cancel]
    BY <1>8, Zenon DEF close_before_joining_refresh, CancelWorker
  <2>2. WorkerGoes(worker.pc)
    BY <1>1, <2>1 DEF AdFields, WorkerGoes
  <2>3. start' \in {"cancel", "join"}
    BY <1>8, Zenon DEF close_before_joining_refresh, CancelWorker
  <2>4. QED
    BY <1>1, <1>2, <2>2, <2>3, OwnerMoves
<1>9. QED
  BY <1>4, <1>5, <1>6, <1>7, <1>8

\* The endpoint and the host change: only what the worker has not seen.
LEMMA HostKeeps ==
    ASSUME AdInv, NodeChanges \/ InterfacesChange \/ ListingChanges \/ EndpointCloses
    PROVE  AdInv'
<1>1. UNCHANGED <<setup, start, session, req, tr>>
  BY Zenon DEF NodeChanges, InterfacesChange, ListingChanges, EndpointCloses, Changed
<1>2. worker' = worker \/ worker' = [worker EXCEPT !.unseen = TRUE]
  BY Zenon DEF NodeChanges, InterfacesChange, ListingChanges, EndpointCloses
<1>3. AdFields
  BY DEF AdInv
<1>4. WorkerGoes(worker.pc) /\ SessionGoes(session.op)
  BY <1>1, <1>2, <1>3 DEF AdFields, WorkerGoes, SessionGoes
<1>5. worker'.pc = worker.pc
  BY <1>4 DEF WorkerGoes
<1>6. AdFields'
  BY <1>1, <1>3, <1>4 DEF AdFields, WorkerGoes, SessionGoes
<1>7. Updates' /\ Withdrawals'
  BY <1>1, <1>5, Zenon DEF AdInv, Updates, Withdrawals, Desktop, Mobile
<1>8. Beginning'
  BY <1>1, <1>5 DEF AdInv, Beginning
<1>9. QED
  BY <1>6, <1>7, <1>8 DEF AdInv

\* The commands of the actor: at most one of them is an update.
Single(s) == s \in Seq({"update", "close"}) /\ \A i, j \in DOMAIN s : s[i] = "update" /\ s[j] = "update" => i = j

\* Queueing a command: an update only when none is queued.
LEMMA CommandQueued ==
    ASSUME NEW s, Single(s), NEW c \in {"update", "close"}, c = "update" => ~Has("update", s)
    PROVE  /\ Single(Append(s, c))
           /\ Has("update", Append(s, c)) => c = "update" \/ Has("update", s)
<1>1. /\ Append(s, c) \in Seq({"update", "close"}) /\ DOMAIN Append(s, c) = 1..(Len(s) + 1)
      /\ \A i \in 1..Len(s) : Append(s, c)[i] = s[i]
      /\ Append(s, c)[Len(s) + 1] = c /\ Len(s) \in Nat /\ DOMAIN s = 1..Len(s)
  BY DEF Single
<1>2. QED
  BY <1>1 DEF Single, Has

\* Taking a command: after an update no other is queued.
LEMMA CommandTaken ==
    ASSUME NEW s, Single(s), s # <<>>
    PROVE  /\ Single(Tail(s))
           /\ Has("update", Tail(s)) => Has("update", s) /\ Head(s) # "update"
           /\ Head(s) \in {"update", "close"} /\ (Head(s) = "update" => Has("update", s))
<1>1. /\ Tail(s) \in Seq({"update", "close"}) /\ DOMAIN Tail(s) = 1..(Len(s) - 1)
      /\ \A i \in 1..(Len(s) - 1) : Tail(s)[i] = s[i + 1]
      /\ Len(s) \in Nat /\ Len(s) > 0 /\ DOMAIN s = 1..Len(s) /\ Head(s) = s[1]
      /\ Head(s) \in {"update", "close"}
  BY DEF Single
<1>2. 1 \in DOMAIN s /\ \A i \in 1..(Len(s) - 1) : i + 1 \in DOMAIN s /\ i + 1 # 1
  BY <1>1
<1>3. QED
  BY <1>1, <1>2 DEF Single, Has

\* What the invariant asks of the update in flight and of the transport after a step.
Settled(op, closing, operation, job, published, result, clean, cmds, actor) ==
    /\ op # "none" => worker.pc = "await"
    /\ job # "none" => Desktop /\ op = "sent"
    /\ Single(cmds) /\ (Has("update", cmds) => op = "sent")
    /\ actor = "fail" => op = "sent" /\ ~Has("update", cmds)
    /\ actor # "recv" \/ cmds # <<>> => Mobile
    /\ operation = "free" => job \in {"none", "queued"}
    /\ clean # "none" => closing /\ Desktop
    /\ result # "none" => (Mobile /\ actor = "dead") \/ (Desktop /\ closing)
    /\ actor = "dead" => result # "none"
    /\ result = "ok" => published = NoConfig /\ job \in {"none", "queued"}
    /\ tr.result # "none" => result # "none"

\* advertise_peer has spawned its worker, or given up on it.
Begun == start \notin {"start", "register", "watch", "spawn", "refused"}

\* A step that leaves the transport settled keeps the invariant.
LEMMA TransportMoves ==
    ASSUME AdInv, UNCHANGED <<setup, start, worker>>, Begun, NEW op, SessionGoes(op),
           NEW closing, NEW operation, NEW job, NEW published, NEW result, NEW clean, NEW cmds, NEW actor,
           TrIs(closing, operation, job, published, result, clean, cmds, actor),
           Settled(op, closing, operation, job, published, result, clean, cmds, actor)
    PROVE  AdInv'
<1>1. /\ tr'.closing = closing /\ tr'.operation = operation /\ tr'.job = job /\ tr'.published = published
      /\ tr'.result = result /\ tr'.cleanup = clean /\ tr'.cmds = cmds /\ tr'.actor = actor /\ session'.op = op
  BY Zenon DEF TrIs, SessionGoes
<1>2. AdFields'
  BY Zenon DEF AdInv, AdFields, TrIs, SessionGoes, Settled, Single
<1>3. Updates'
  BY <1>1, Zenon DEF Settled, Single, Updates, Desktop, Mobile
<1>4. Withdrawals'
  BY <1>1, Zenon DEF Settled, Withdrawals, Desktop, Mobile
<1>5. Beginning'
  BY <1>1, Zenon DEF AdInv, Beginning, Begun, Settled
<1>6. QED
  BY <1>2, <1>3, <1>4, <1>5 DEF AdInv

\* Nothing is in flight before the worker runs.
LEMMA InFlight ==
    ASSUME AdInv
    PROVE  /\ Settled(session.op, tr.closing, tr.operation, tr.job, tr.published, tr.result, tr.cleanup, tr.cmds, tr.actor)
           /\ session.op # "none" \/ tr.cmds # <<>> \/ tr.actor # "recv" \/ tr.cleanup # "none" \/ req # {} => Begun
<1>1. Settled(session.op, tr.closing, tr.operation, tr.job, tr.published, tr.result, tr.cleanup, tr.cmds, tr.actor)
  BY Zenon DEF AdInv, AdFields, Updates, Withdrawals, Settled, Single
<1>2. session.op # "none" \/ tr.cmds # <<>> \/ tr.actor # "recv" \/ tr.cleanup # "none" \/ req # {} => Begun
  BY DEF AdInv, Updates, Beginning, Begun
<1>3. QED
  BY <1>1, <1>2

\* The spawned operation of an update keeps the invariant.
LEMMA OperationKeeps ==
    ASSUME AdInv, TransportUpdate \/ OperationFails \/ OperationCompletes
    PROVE  AdInv'
<1>1. AdFields /\ UNCHANGED <<setup, start, worker>> /\ session.op \in {"start", "failed", "failing"}
  BY DEF AdInv, TransportUpdate, OperationFails, OperationCompletes
<1>2. /\ Settled(session.op, tr.closing, tr.operation, tr.job, tr.published, tr.result, tr.cleanup, tr.cmds, tr.actor)
      /\ Begun
  BY <1>1, InFlight
<1>3. PICK op : session' = [session EXCEPT !.op = op] \/ session' = [session EXCEPT !.op = op, !.closed = TRUE]
  BY Zenon DEF TransportUpdate, OperationFails, OperationCompletes, OperationDone
<1>4. SessionGoes(op)
  BY <1>1, <1>3, Zenon DEF AdFields, SessionGoes
<1>5. worker.pc = "await" /\ tr.job = "none" /\ ~Has("update", tr.cmds) /\ tr.actor # "fail"
  BY <1>1, <1>2 DEF Settled
<1>6. CASE tr' = tr
  <2>1. TrIs(tr.closing, tr.operation, tr.job, tr.published, tr.result, tr.cleanup, tr.cmds, tr.actor)
    BY <1>1, <1>6 DEF AdFields, TrIs
  <2>2. Settled(op, tr.closing, tr.operation, tr.job, tr.published, tr.result, tr.cleanup, tr.cmds, tr.actor)
    BY <1>2, <1>5, Zenon DEF Settled
  <2>3. QED
    BY <1>1, <1>2, <1>4, <2>1, <2>2, TransportMoves
<1>7. CASE tr' # tr
  <2>1. /\ TransportUpdate /\ op = "sent" /\ ~tr.closing /\ ~(Mobile /\ tr.actor = "dead")
        /\ tr' = [tr EXCEPT !.job = IF Desktop THEN "queued" ELSE @,
                            !.cmds = IF Mobile THEN Append(@, "update") ELSE @]
    <3>1. TransportUpdate /\ ~(tr.closing \/ (Mobile /\ tr.actor = "dead"))
      BY <1>7 DEF TransportUpdate, OperationFails, OperationCompletes
    <3>2. session' = [session EXCEPT !.op = "sent"]
      BY <3>1 DEF TransportUpdate, OperationDone
    <3>3. op = "sent"
      BY <1>1, <1>4, <3>2 DEF SessionGoes, AdFields
    <3>4. QED
      BY <3>1, <3>3 DEF TransportUpdate
  <2>2. PICK job, cmds : job = (IF Desktop THEN "queued" ELSE tr.job)
                         /\ cmds = (IF Mobile THEN Append(tr.cmds, "update") ELSE tr.cmds)
    BY Zenon
  <2>3. TrIs(tr.closing, tr.operation, job, tr.published, tr.result, tr.cleanup, cmds, tr.actor)
    BY <1>1, <2>1, <2>2, Zenon DEF AdFields, TrIs
  <2>4. Single(cmds) /\ (cmds # <<>> => Mobile)
    <3>1. Single(tr.cmds) /\ (tr.cmds # <<>> => Mobile)
      BY <1>2, Zenon DEF Settled
    <3>2. QED
      BY <1>5, <2>2, <3>1, CommandQueued, Zenon
  <2>5. (job # "none" => Desktop) /\ job \in {"none", "queued"}
    BY <1>5, <2>2
  <2>6. Settled(op, tr.closing, tr.operation, job, tr.published, tr.result, tr.cleanup, cmds, tr.actor)
    BY <1>2, <1>5, <2>1, <2>4, <2>5 DEF Settled
  <2>7. QED
    BY <1>1, <1>2, <1>4, <2>3, <2>6, TransportMoves
<1>8. QED
  BY <1>6, <1>7

\* request_close keeps the invariant: it starts the cleanup or queues the
\* close.
LEMMA RequestKeeps ==
    ASSUME AdInv, NEW t, request_advertisement_close(t)
    PROVE  AdInv'
<1>1. AdFields /\ UNCHANGED <<setup, start, worker, session>> /\ req # {}
  BY DEF AdInv, request_advertisement_close
<1>2. /\ Settled(session.op, tr.closing, tr.operation, tr.job, tr.published, tr.result, tr.cleanup, tr.cmds, tr.actor)
      /\ Begun /\ SessionGoes(session.op)
  BY <1>1, InFlight, SessionStays, Zenon
<1>3. PICK clean, cmds, result :
        /\ clean = (IF Desktop THEN "started" ELSE tr.cleanup)
        /\ cmds = (IF Mobile /\ tr.actor # "dead" THEN Append(tr.cmds, "close") ELSE tr.cmds)
        /\ result = (IF Mobile /\ tr.actor = "dead" /\ tr.result = "none" THEN "ok" ELSE tr.result)
  BY Zenon
<1>4. TrIs(TRUE, tr.operation, tr.job, tr.published, result, clean, cmds, tr.actor)
  BY <1>1, <1>3, Zenon DEF request_advertisement_close, AdFields, TrIs
<1>5. result = tr.result
  BY <1>2, <1>3, Zenon DEF Settled
<1>6. Single(cmds) /\ (Has("update", cmds) => Has("update", tr.cmds)) /\ (cmds # <<>> => Mobile)
  <2>1. Single(tr.cmds) /\ (tr.cmds # <<>> => Mobile)
    BY <1>2 DEF Settled
  <2>2. QED
    BY <1>3, <2>1, CommandQueued
<1>7. Settled(session.op, TRUE, tr.operation, tr.job, tr.published, result, clean, cmds, tr.actor)
  BY <1>2, <1>3, <1>5, <1>6, Zenon DEF Settled
<1>8. QED
  BY <1>1, <1>2, <1>4, <1>7, TransportMoves, Zenon

\* The desktop update job keeps the invariant: a replacement begun before a
\* close holds the operation lock until it has seen the close or registered,
\* and one that begins after a close is refused.
LEMMA JobKeeps ==
    ASSUME AdInv, \/ wait_for_reannounce_or_close \/ JobRefused
                  \/ \E ok \in BOOLEAN : JobGoodbye(ok) \/ JobRegister(ok)
    PROVE  AdInv'
<1>1. AdFields /\ UNCHANGED <<setup, start, worker>> /\ tr.job # "none"
  BY Zenon DEF AdInv, wait_for_reannounce_or_close, JobRefused, JobGoodbye, JobRegister, TransportStep
<1>2. Settled(session.op, tr.closing, tr.operation, tr.job, tr.published, tr.result, tr.cleanup, tr.cmds, tr.actor)
  BY InFlight
<1>3. session.op = "sent" /\ Desktop /\ ~Mobile /\ worker.pc = "await"
  BY <1>1, <1>2, Zenon DEF Settled, Desktop, Mobile
<1>4. Begun
  BY <1>3, InFlight
<1>5. PICK op, operation, job, published :
        /\ TrIs(tr.closing, operation, job, published, tr.result, tr.cleanup, tr.cmds, tr.actor)
        /\ SessionGoes(op)
        /\ job # "none" => op = session.op
        /\ operation = "free" => job \in {"none", "queued"}
        /\ tr.result = "ok" => job \in {"none", "queued"} /\ published = tr.published
  <2>1. CASE wait_for_reannounce_or_close
    <3>1. PICK job : job = IF tr.closing THEN "refuse" ELSE "register"
      BY Zenon
    <3>2. TrIs(tr.closing, tr.operation, job, tr.published, tr.result, tr.cleanup, tr.cmds, tr.actor)
      BY <1>1, <2>1, <3>1 DEF wait_for_reannounce_or_close, AdFields, TrIs
    <3>3. SessionGoes(session.op) /\ tr.job = "gap"
      BY <2>1, SessionStays DEF wait_for_reannounce_or_close
    <3>4. QED
      BY <1>2, <3>2, <3>3 DEF Settled
  <2>2. CASE JobRefused
    <3>1. TrIs(tr.closing, "free", "none", tr.published, tr.result, tr.cleanup, tr.cmds, tr.actor)
      BY <1>1, <2>2, Zenon DEF JobRefused, AdFields, TrIs
    <3>2. SessionGoes("failed")
      BY <1>1, <2>2 DEF JobRefused, OperationDone, AdFields, SessionGoes
    <3>3. QED
      BY <3>1, <3>2
  <2>3. CASE \E ok \in BOOLEAN : JobGoodbye(ok)
    <3>1. PICK ok \in BOOLEAN : JobGoodbye(ok)
      BY <2>3
    <3>2. CASE tr.closing \/ ~ok
      <4>1. PICK gone \in BOOLEAN : tr' = [tr EXCEPT !.job = "none",
                                             !.published = IF gone /\ ~tr.closing THEN NoConfig ELSE @]
        BY <3>1, <3>2, Zenon DEF JobGoodbye
      <4>2. PICK published : published = IF gone /\ ~tr.closing THEN NoConfig ELSE tr.published
        BY Zenon
      <4>3. TrIs(tr.closing, tr.operation, "none", published, tr.result, tr.cleanup, tr.cmds, tr.actor)
        BY <1>1, <4>1, <4>2, Zenon DEF AdFields, TrIs
      <4>4. SessionGoes("failed")
        BY <1>1, <3>1, <3>2, Zenon DEF JobGoodbye, OperationDone, AdFields, SessionGoes
      <4>5. tr.result = "ok" => published = tr.published
        BY <1>2, <1>3, <4>2, Zenon DEF Settled
      <4>6. QED
        BY <4>3, <4>4, <4>5
    <3>3. CASE ~tr.closing /\ ok
      <4>1. TrIs(tr.closing, "job", "gap", NoConfig, tr.result, tr.cleanup, tr.cmds, tr.actor)
        BY <1>1, <3>1, <3>3, Zenon DEF JobGoodbye, AdFields, TrIs
      <4>2. SessionGoes(session.op)
        BY <3>1, <3>3, SessionStays DEF JobGoodbye
      <4>3. tr.result # "ok"
        BY <1>2, <1>3, <3>3 DEF Settled
      <4>4. QED
        BY <4>1, <4>2, <4>3
    <3>4. QED
      BY <3>2, <3>3, Zenon
  <2>4. CASE \E ok \in BOOLEAN : JobRegister(ok)
    <3>1. PICK ok \in BOOLEAN : JobRegister(ok)
      BY <2>4
    <3>2. PICK published, op : /\ published = (IF ok THEN advertisement_update(worker.config) ELSE tr.published)
                               /\ op = (IF ok THEN "ok" ELSE "failed")
      BY Zenon
    <3>3. TrIs(tr.closing, "free", "none", published, tr.result, tr.cleanup, tr.cmds, tr.actor)
      BY <1>1, <3>1, <3>2, Zenon DEF JobRegister, AdFields, TrIs
    <3>4. SessionGoes(op) /\ tr.job = "register"
      BY <1>1, <3>1, <3>2, Zenon DEF JobRegister, OperationDone, AdFields, SessionGoes
    <3>5. tr.result # "ok"
      BY <1>2, <3>4 DEF Settled
    <3>6. QED
      BY <3>3, <3>4, <3>5, Zenon
  <2>5. QED
    BY <2>1, <2>2, <2>3, <2>4
<1>6. tr.cmds = <<>> /\ tr.actor = "recv" /\ ~Has("update", <<>>)
  BY <1>2, <1>3 DEF Settled, Has
<1>7. Settled(op, tr.closing, operation, job, published, tr.result, tr.cleanup, tr.cmds, tr.actor)
  BY <1>2, <1>3, <1>5, <1>6, Zenon DEF Settled
<1>8. QED
  BY <1>1, <1>4, <1>5, <1>7, TransportMoves

\* The desktop cleanup keeps the invariant: it has the operation lock, so no
\* replacement is half done.
LEMMA CleanupKeeps ==
    ASSUME AdInv, NEW ok \in BOOLEAN, cleanup(ok)
    PROVE  AdInv'
<1>1. AdFields /\ UNCHANGED <<setup, start, worker, session>> /\ tr.cleanup = "started" /\ tr.operation = "free"
  BY DEF AdInv, cleanup, TransportStep
<1>2. /\ Settled(session.op, tr.closing, tr.operation, tr.job, tr.published, tr.result, tr.cleanup, tr.cmds, tr.actor)
      /\ Begun /\ SessionGoes(session.op)
  BY <1>1, InFlight, SessionStays, Zenon
<1>3. PICK published, result : /\ published = (IF ok THEN NoConfig ELSE tr.published)
                               /\ result = (IF ok THEN "ok" ELSE "err")
  BY Zenon
<1>4. TrIs(tr.closing, tr.operation, tr.job, published, result, "done", tr.cmds, tr.actor)
  BY <1>1, <1>3, Zenon DEF cleanup, AdFields, TrIs
<1>5. result # "none" /\ (result = "ok" => published = NoConfig)
  BY <1>3
<1>6. Settled(session.op, tr.closing, tr.operation, tr.job, published, result, "done", tr.cmds, tr.actor)
  BY <1>1, <1>2, <1>5, Zenon DEF Settled
<1>7. QED
  BY <1>1, <1>2, <1>4, <1>6, TransportMoves

\* The mobile actor keeps the invariant: it serves one command at a time, and
\* none after it stopped.
LEMMA ActorKeeps ==
    ASSUME AdInv, NEW ok \in BOOLEAN, ActorCommand(ok) \/ close_native_advertisement(ok)
    PROVE  AdInv'
<1>1. AdFields /\ UNCHANGED <<setup, start, worker>> /\ (tr.cmds # <<>> \/ tr.actor # "recv")
  BY DEF AdInv, ActorCommand, close_native_advertisement, TransportStep
<1>2. /\ Settled(session.op, tr.closing, tr.operation, tr.job, tr.published, tr.result, tr.cleanup, tr.cmds, tr.actor)
      /\ Begun
  BY <1>1, InFlight, Zenon
<1>3. Mobile /\ ~Desktop
  BY <1>1, <1>2, Zenon DEF Settled, Desktop, Mobile
<1>4. tr.job = "none" /\ tr.cleanup = "none"
  BY <1>2, <1>3, Zenon DEF Settled
<1>5. CASE ActorCommand(ok)
  <2>1. PICK s, head, tail : s = tr.cmds /\ head = Head(s) /\ tail = Tail(s)
    BY Zenon
  <2>2. tr.actor = "recv" /\ s # <<>> /\ Single(s)
    BY <1>2, <1>5, <2>1 DEF ActorCommand, Settled
  <2>3. /\ Single(tail) /\ (Has("update", tail) => Has("update", s) /\ head # "update")
        /\ head \in {"update", "close"} /\ (head = "update" => Has("update", s))
    BY <2>1, <2>2, CommandTaken
  <2>4. tr.result = "none" /\ (Has("update", s) => session.op = "sent")
    BY <1>2, <1>3, <2>1, <2>2 DEF Settled
  <2>5. CASE head = "update" /\ ok
    <3>1. TrIs(tr.closing, tr.operation, tr.job, advertisement_update(worker.config), tr.result, tr.cleanup, tail, "recv")
      BY <1>1, <1>5, <2>1, <2>5, Zenon DEF ActorCommand, AdFields, TrIs
    <3>2. session' = [session EXCEPT !.op = "ok"]
      BY <1>5, <2>1, <2>5 DEF ActorCommand, OperationDone
    <3>3. SessionGoes("ok")
      BY <1>1, <3>2 DEF AdFields, SessionGoes
    <3>4. Settled("ok", tr.closing, tr.operation, tr.job, advertisement_update(worker.config), tr.result, tr.cleanup, tail, "recv")
      BY <1>2, <1>3, <1>4, <2>3, <2>4, <2>5, Zenon DEF Settled
    <3>5. QED
      BY <1>1, <1>2, <3>1, <3>3, <3>4, TransportMoves, Zenon
  <2>6. CASE ~(head = "update" /\ ok)
    <3>1. PICK actor : actor = IF head = "update" THEN "fail" ELSE "stop"
      BY Zenon
    <3>2. TrIs(tr.closing, tr.operation, tr.job, tr.published, tr.result, tr.cleanup, tail, actor)
      BY <1>1, <1>5, <2>1, <2>6, <3>1, Zenon DEF ActorCommand, AdFields, TrIs
    <3>3. session' = session
      BY <1>5, <2>1, <2>6, Zenon DEF ActorCommand
    <3>4. SessionGoes(session.op)
      BY <3>3, SessionStays
    <3>5. Settled(session.op, tr.closing, tr.operation, tr.job, tr.published, tr.result, tr.cleanup, tail, actor)
      BY <1>2, <1>3, <1>4, <2>1, <2>3, <2>4, <3>1, Zenon DEF Settled
    <3>6. QED
      BY <1>1, <1>2, <3>2, <3>4, <3>5, TransportMoves, Zenon
  <2>7. QED
    BY <2>5, <2>6
<1>6. CASE close_native_advertisement(ok)
  <2>1. tr.actor \in {"stop", "fail"}
    BY <1>6 DEF close_native_advertisement
  <2>2. tr.result = "none"
    BY <1>2, <1>3, <2>1, Zenon DEF Settled
  <2>3. PICK published, result : /\ published = (IF ok THEN NoConfig ELSE tr.published)
                                 /\ result = (IF ok THEN "ok" ELSE "err")
    BY Zenon
  <2>4. TrIs(tr.closing, tr.operation, tr.job, published, result, tr.cleanup, tr.cmds, "dead")
    BY <1>1, <1>6, <2>2, <2>3, Zenon DEF close_native_advertisement, AdFields, TrIs
  <2>5. PICK op : SessionGoes(op) /\ op = (IF tr.actor = "fail" THEN "failed" ELSE session.op)
    <3>1. CASE tr.actor = "fail"
      <4>1. SessionGoes("failed")
        BY <1>1, <1>6, <3>1 DEF close_native_advertisement, OperationDone, AdFields, SessionGoes
      <4>2. QED
        BY <3>1, <4>1
    <3>2. CASE tr.actor # "fail"
      BY <1>6, <3>2, SessionStays DEF close_native_advertisement
    <3>3. QED
      BY <3>1, <3>2
  <2>6. result # "none" /\ (result = "ok" => published = NoConfig)
    BY <2>3
  <2>7. Settled(op, tr.closing, tr.operation, tr.job, published, result, tr.cleanup, tr.cmds, "dead")
    BY <1>2, <1>3, <1>4, <2>1, <2>5, <2>6, Zenon DEF Settled
  <2>8. QED
    BY <1>1, <1>2, <2>4, <2>5, <2>7, TransportMoves, Zenon
<1>7. QED
  BY <1>5, <1>6

\* The first registration keeps the invariant: nothing can have been closed
\* yet.
LEMMA RegisterKeeps ==
    ASSUME AdInv, NEW ok \in BOOLEAN, Register(ok)
    PROVE  AdInv'
<1>1. AdFields /\ start = "register" /\ UNCHANGED <<setup, req, worker>>
  BY DEF AdInv, Register
<1>2. /\ worker.pc = "none" /\ req = {} /\ session.op = "none"
      /\ tr.cleanup = "none" /\ tr.actor = "recv" /\ tr.cmds = <<>> /\ tr.result = "none" /\ tr.job = "none"
  BY <1>1, Zenon DEF AdInv, Beginning, Updates
<1>3. start' \in {"watch", "spawn", "refused"}
  BY DEF Register
<1>4. PICK published, current :
        /\ tr' = tr \/ tr' = [tr EXCEPT !.published = published]
        /\ session' = session \/ session' = [session EXCEPT !.current = current]
  BY Zenon DEF Register
<1>5. /\ tr'.cleanup = "none" /\ tr'.actor = "recv" /\ tr'.cmds = <<>> /\ tr'.result = "none" /\ tr'.job = "none"
      /\ session'.op = "none" /\ AdFields'
  BY <1>1, <1>2, <1>4, Zenon DEF AdFields
<1>6. ~Has("update", <<>>) /\ DOMAIN <<>> = {}
  BY DEF Has
<1>7. Updates'
  BY <1>1, <1>2, <1>5, <1>6, Zenon DEF Updates
<1>8. Withdrawals' /\ Beginning'
  BY <1>1, <1>2, <1>3, <1>5, Zenon DEF Withdrawals, Beginning
<1>9. QED
  BY <1>5, <1>7, <1>8 DEF AdInv

\* Every step of the advertisement keeps the invariant.
LEMMA AdInductive == AdInv /\ [AdNext]_adVars => AdInv'
<1>1. SUFFICES ASSUME AdInv, [AdNext]_adVars PROVE AdInv'
  OBVIOUS
<1>2. CASE UNCHANGED adVars
  BY <1>1, <1>2, Zenon DEF adVars, AdInv, AdFields, Updates, Withdrawals, Beginning, Desktop, Mobile
<1>3. CASE OwnerStep \/ DropCall
  BY <1>1, <1>3, OwnerKeeps, RegisterKeeps, RequestKeeps, Zenon DEF OwnerStep
<1>4. CASE WorkerStep
  BY <1>1, <1>4, SelectKeeps, UpdateKeeps, RequestKeeps, Zenon DEF WorkerStep
<1>5. CASE OperationStep
  BY <1>1, <1>5, OperationKeeps, RequestKeeps, Zenon DEF OperationStep
<1>6. CASE TransportThreads \/ Cleanup
  BY <1>1, <1>6, JobKeeps, ActorKeeps, CleanupKeeps, Zenon DEF TransportThreads, Cleanup
<1>7. CASE NodeChanges \/ InterfacesChange \/ ListingChanges \/ EndpointCloses
  BY <1>1, <1>7, HostKeeps
<1>8. QED
  BY <1>1, <1>2, <1>3, <1>4, <1>5, <1>6, <1>7, Zenon DEF AdNext

\* The advertisement on its own.
AdSpec == AdInit /\ [][AdNext]_adVars

\* The inductive invariant holds throughout, for every setup and any number of
\* changes.
THEOREM AdInvariant == AdSpec => []AdInv
  BY AdStarts, AdInductive, PTL DEF AdSpec

\* A withdrawn advertisement stays withdrawn: after a clean close nothing is
\* published and no replacement can follow, and when the drop returns the
\* worker is gone and no update is in flight.
THEOREM WithdrawnForGoodHolds == AdSpec => []WithdrawnForGood
<1>1. AdInv => WithdrawnForGood
  BY Zenon DEF AdInv, Updates, Withdrawals, Beginning, WithdrawnForGood
<1>2. QED
  BY <1>1, AdInvariant, PTL
=============================================================================
