------------------------------- MODULE PeerBrowse -------------------------------
(***************************************************************************)
(* One iroh-http peer browse: the peer session and its lookup source        *)
(* (iroh-http-discovery/src/lib.rs), the engine session that serializes     *)
(* native reads (engine/session.rs), and the two transports under it, the   *)
(* desktop mDNS daemon (dns_sd.rs) and the mobile browse actor              *)
(* (mobile_discovery_transport.rs).                                         *)
(*                                                                         *)
(* close() is a chain of synchronous calls through three layers, any        *)
(* of whose steps another thread may interleave with.  A thread             *)
(* that is closing carries the calls it still has to make in todo[t].       *)
(***************************************************************************)
EXTENDS AddressLookup, Functions, FiniteSetsExt

CONSTANTS Poller,        \* tasks calling next_event
          Closer,        \* tasks calling close or wait_closed, once each
          OtherNode, OtherAddr   \* what another browse session contributes

Me == "me"
Other == "other"
NoThread == "none"
Opener == "opener"
Task == "task"
Thread == Poller \cup Closer \cup {Opener, Task}

\* The opening call and the endpoint-close task are threads of their own.
ASSUME BrowseAssumption == {NoThread, Opener, Task} \cap (Poller \cup Closer) = {}

VARIABLES plan,      \* the environment: transport, threads that exist, what may happen
          opener,    \* progress of browse_peers_with_engine
          epClosed,  \* the iroh endpoint is closed
          peer,      \* PeerBrowseShared; task is the endpoint-close task, slot its handle
          engine,    \* engine::BrowseSession; op is next_operation
          native,    \* the transport handle and the native side behind it
          phase, todo,  \* per thread: where it is, the close calls it still has to make
          rec, evs,  \* the record and the events of the poll that holds the gate
          view       \* what the delivered events told the caller of each node

callerVars == <<phase, rec, evs, view>>
browseVars == <<plan, opener, epClosed, peer, engine, native, callerVars, todo, lookupVars>>

NoRec == Tombstone("")
Op(st, tag, r) == [st |-> st, tag |-> tag, rec |-> r]
NoOp == Op("none", "none", NoRec)
Done(tag) == Op("done", tag, NoRec)
Unknown == [active |-> FALSE, addrs |-> {}]

\* plan.kind is "off" in a composition that does not browse; plan.script is what
\* the network will say, in order.
BrowseInit(plans) ==
    /\ plan \in plans
    /\ opener = "start" /\ epClosed = FALSE
    /\ peer = [closed |-> FALSE, pending |-> <<>>, gate |-> NoThread,
               task |-> "none", slot |-> FALSE]
    /\ engine = [terminal |-> FALSE, callback |-> FALSE, gate |-> NoThread, op |-> NoOp]
    /\ native = [network |-> <<>>, script |-> plan.script, ended |-> "no", closing |-> FALSE,
                 cmds |-> <<>>, actor |-> "recv", buffered |-> <<>>, outcome |-> "none"]
    /\ phase = [t \in Poller \cup Closer |-> "idle"]
    /\ todo = [t \in Thread |-> <<>>]
    /\ rec = NoRec /\ evs = <<>>
    /\ view = [n \in Node |-> Unknown]
    /\ LookupInit

Do(t, steps) == todo' = [todo EXCEPT ![t] = steps]

---------------------------------------------------------------------------
(* Closing, one call at a time.                                            *)

\* PeerBrowseShared::close: what its first caller does.
Retraction == <<"clear", "retire", "removal", "inner", "abort">>

Swap(t, rest) ==
    /\ peer' = [peer EXCEPT !.closed = TRUE]
    /\ Do(t, IF peer.closed THEN rest ELSE Retraction \o rest)
    /\ UNCHANGED <<engine, native, lookupVars>>

Clear(t, rest) ==
    /\ peer' = [peer EXCEPT !.pending = <<>>]
    /\ Do(t, rest)
    /\ UNCHANGED <<engine, native, lookupVars>>

RetireSource(t, rest) ==
    /\ RetireFlag(Me)
    /\ Do(t, rest)
    /\ UNCHANGED <<peer, engine, native>>

Removal(t, rest) ==
    /\ RetireRemoval(Me)
    /\ Do(t, rest)
    /\ UNCHANGED <<peer, engine, native>>

\* engine BrowseSession::close: request_close, then the close callbacks.
Inner(t, rest) ==
    /\ engine' = [engine EXCEPT !.terminal = TRUE]
    /\ Do(t, IF engine.terminal THEN rest ELSE <<"request", "callbacks">> \o rest)
    /\ UNCHANGED <<peer, native, lookupVars>>

\* MdnsBrowse::request_close, NativeBrowseHandle::request_close.
request_browse_close(t, rest) ==
    /\ native' = [native EXCEPT
         !.closing = TRUE,
         !.cmds = IF plan.kind = "mobile" /\ native.actor # "dead" THEN Append(@, "close") ELSE @,
         !.outcome = IF plan.kind = "mobile" /\ native.actor = "dead" /\ @ = "none" THEN "ok" ELSE @]
    /\ Do(t, rest)
    /\ UNCHANGED <<peer, engine, lookupVars>>

Callbacks(t, rest) ==
    /\ engine' = [engine EXCEPT !.callback = FALSE]
    /\ Do(t, IF engine.callback THEN <<"swap">> \o rest ELSE rest)
    /\ UNCHANGED <<peer, native, lookupVars>>

\* An abort cannot stop a task that already runs its close.
AbortTask(t, rest) ==
    /\ peer' = [peer EXCEPT !.slot = FALSE,
                            !.task = IF peer.slot /\ @ = "waiting" THEN "aborted" ELSE @]
    /\ Do(t, rest)
    /\ UNCHANGED <<engine, native, lookupVars>>

\* engine next() holds its gate while it closes its own session.
Ungate(t, rest) ==
    /\ engine' = [engine EXCEPT !.gate = NoThread]
    /\ Do(t, rest)
    /\ UNCHANGED <<peer, native, lookupVars>>

CloseStep(t) ==
    /\ todo[t] # <<>>
    /\ LET rest == Tail(todo[t])
           step == Head(todo[t])
       IN  \/ step = "swap" /\ Swap(t, rest)
           \/ step = "clear" /\ Clear(t, rest)
           \/ step = "retire" /\ RetireSource(t, rest)
           \/ step = "removal" /\ Removal(t, rest)
           \/ step = "inner" /\ Inner(t, rest)
           \/ step = "request" /\ request_browse_close(t, rest)
           \/ step = "callbacks" /\ Callbacks(t, rest)
           \/ step = "abort" /\ AbortTask(t, rest)
           \/ step = "ungate" /\ Ungate(t, rest)
    /\ UNCHANGED <<plan, opener, epClosed, callerVars>>

---------------------------------------------------------------------------
(* browse_peers_with_engine and the endpoint-close task.                   *)

Open ==
    /\ plan.kind # "off" /\ opener = "start"
    /\ opener' = IF epClosed THEN "refused" ELSE "spawn"
    /\ Do(Opener, IF epClosed THEN <<"inner">> ELSE <<>>)
    /\ engine' = [engine EXCEPT !.callback = ~epClosed]
    /\ UNCHANGED <<plan, epClosed, peer, native, callerVars, lookupVars>>

SpawnTask ==
    /\ opener = "spawn" /\ opener' = "install"
    /\ peer' = [peer EXCEPT !.task = "waiting"]
    /\ UNCHANGED <<plan, epClosed, engine, native, callerVars, todo, lookupVars>>

install_endpoint_task ==
    /\ opener = "install" /\ opener' = "recheck"
    /\ peer' = [peer EXCEPT !.slot = ~peer.closed,
                            !.task = IF peer.closed /\ @ = "waiting" THEN "aborted" ELSE @]
    /\ UNCHANGED <<plan, epClosed, engine, native, callerVars, todo, lookupVars>>

BrowseRecheck ==
    /\ opener = "recheck"
    /\ opener' = IF epClosed THEN "refused" ELSE "open"
    /\ Do(Opener, IF epClosed THEN <<"swap">> ELSE <<>>)
    /\ UNCHANGED <<plan, epClosed, peer, engine, native, callerVars, lookupVars>>

TaskRuns ==
    /\ peer.task = "waiting" /\ epClosed
    /\ peer' = [peer EXCEPT !.task = "done"]
    /\ Do(Task, <<"swap">>)
    /\ UNCHANGED <<plan, opener, epClosed, engine, native, callerVars, lookupVars>>

BrowseEndpointCloses ==
    /\ "endpoint closes" \in plan.events /\ ~epClosed
    /\ epClosed' = TRUE
    /\ UNCHANGED <<plan, opener, peer, engine, native, callerVars, todo, lookupVars>>

---------------------------------------------------------------------------
(* next_event: the peer gate, the engine gate, the native read, the lookup. *)
(* A caller that was answered None is "over": it does not poll again.      *)

At(p, l) == phase[p] = l /\ todo[p] = <<>>

Moves(p, l) == phase' = [phase EXCEPT ![p] = l]

PollBegin(p) ==
    /\ p \in plan.threads /\ opener = "open" /\ At(p, "idle")
    /\ Moves(p, "gate")
    /\ UNCHANGED <<plan, opener, epClosed, peer, engine, native, rec, evs, view, todo, lookupVars>>

TakeGate(p) ==
    /\ At(p, "gate") /\ peer.gate = NoThread
    /\ peer' = [peer EXCEPT !.gate = p]
    /\ Moves(p, "head")
    /\ UNCHANGED <<plan, opener, epClosed, engine, native, rec, evs, view, todo, lookupVars>>

Deliver(events) ==
    view' = [view EXCEPT ![Head(events).node] =
               [active |-> Head(events).active, addrs |-> Head(events).addrs]]

\* Closed: None.  A pending event: that one.  Otherwise the native read.
LoopHead(p) ==
    /\ At(p, "head")
    /\ \/ /\ peer.closed
          /\ peer' = [peer EXCEPT !.gate = NoThread]
          /\ Moves(p, "over") /\ UNCHANGED view
       \/ /\ ~peer.closed /\ peer.pending # <<>>
          /\ peer' = [peer EXCEPT !.gate = NoThread, !.pending = Tail(@)]
          /\ Moves(p, "idle") /\ Deliver(peer.pending)
       \/ /\ ~peer.closed /\ peer.pending = <<>>
          /\ Moves(p, "inner") /\ UNCHANGED <<peer, view>>
    /\ UNCHANGED <<plan, opener, epClosed, engine, native, rec, evs, todo, lookupVars>>

\* engine next(): adopt the operation a cancelled poll left, or start one.
EngineNext(p) ==
    /\ At(p, "inner") /\ engine.gate = NoThread
    /\ IF engine.terminal
       THEN Moves(p, "ending") /\ Do(p, <<"swap">>) /\ UNCHANGED engine
       ELSE /\ Moves(p, "wait") /\ UNCHANGED todo
            /\ engine' = [engine EXCEPT !.gate = p,
                            !.op = IF @ = NoOp THEN Op("start", "none", NoRec) ELSE @]
    /\ UNCHANGED <<plan, opener, epClosed, peer, native, rec, evs, view, lookupVars>>

EngineReturns(p) ==
    /\ At(p, "wait") /\ engine.op.st = "done"
    /\ LET over == engine.terminal
           got == ~over /\ engine.op.tag = "record"
       IN  /\ engine' = [engine EXCEPT !.op = NoOp, !.gate = IF over \/ got THEN NoThread ELSE p]
           /\ rec' = IF got THEN engine.op.rec ELSE rec
           /\ Moves(p, IF got THEN "apply" ELSE "ending")
           /\ Do(p, IF got THEN <<>> ELSE IF over THEN <<"swap">> ELSE <<"inner", "ungate", "swap">>)
    /\ UNCHANGED <<plan, opener, epClosed, peer, native, evs, view, lookupVars>>

ApplyRecord(p) ==
    /\ At(p, "apply")
    /\ LET out == apply_peer_record(Me, rec)
       IN  /\ Applied(out)
           /\ evs' = out.events
           /\ Moves(p, IF out.events = <<>> THEN "head" ELSE "publish")
    /\ rec' = NoRec
    /\ UNCHANGED <<plan, opener, epClosed, peer, engine, native, view, todo>>

\* Fault: only the first of two events of one record reaches the caller.
PublishFirst(p) ==
    /\ At(p, "publish")
    /\ peer' = [peer EXCEPT !.gate = NoThread]
    /\ IF peer.closed THEN UNCHANGED view ELSE Deliver(evs)
    /\ evs' = <<>>
    /\ Moves(p, IF peer.closed THEN "over" ELSE "idle")
    /\ UNCHANGED <<plan, opener, epClosed, engine, native, rec, todo, lookupVars>>

PublishEvents(p) ==
    /\ At(p, "publish")
    /\ peer' = [peer EXCEPT !.gate = NoThread,
                            !.pending = IF peer.closed THEN @ ELSE @ \o Tail(evs)]
    /\ IF peer.closed THEN UNCHANGED view ELSE Deliver(evs)
    /\ evs' = <<>>
    /\ Moves(p, IF peer.closed THEN "over" ELSE "idle")
    /\ UNCHANGED <<plan, opener, epClosed, engine, native, rec, todo, lookupVars>>

PollEnds(p) ==
    /\ At(p, "ending")
    /\ peer' = [peer EXCEPT !.gate = NoThread]
    /\ Moves(p, "over")
    /\ UNCHANGED <<plan, opener, epClosed, engine, native, rec, evs, view, todo, lookupVars>>

\* The caller drops the future at one of its await points.
PollDropped(p) ==
    /\ ~peer.closed /\ phase[p] \in {"gate", "inner", "wait"} /\ todo[p] = <<>>
    /\ peer' = [peer EXCEPT !.gate = IF @ = p THEN NoThread ELSE @]
    /\ engine' = [engine EXCEPT !.gate = IF @ = p THEN NoThread ELSE @]
    /\ Moves(p, "idle")
    /\ UNCHANGED <<plan, opener, epClosed, native, rec, evs, view, todo, lookupVars>>

---------------------------------------------------------------------------
(* close, drop and wait_closed.                                            *)

close_browse(c) ==
    /\ c \in plan.threads /\ opener = "open" /\ At(c, "idle")
    /\ Moves(c, "closing") /\ Do(c, <<"swap">>)
    /\ UNCHANGED <<plan, opener, epClosed, peer, engine, native, rec, evs, view, lookupVars>>

CloseReturns(c) ==
    /\ At(c, "closing") /\ Moves(c, "closed")
    /\ UNCHANGED <<plan, opener, epClosed, peer, engine, native, rec, evs, view, todo, lookupVars>>

wait_closed(c) ==
    /\ c \in plan.threads /\ opener = "open" /\ At(c, "idle")
    /\ Moves(c, "drain") /\ Do(c, <<"swap", "inner">>)
    /\ UNCHANGED <<plan, opener, epClosed, peer, engine, native, rec, evs, view, lookupVars>>

WaitTakesGate(c) ==
    /\ At(c, "drain") /\ engine.gate = NoThread
    /\ engine' = [engine EXCEPT !.gate = c]
    /\ Moves(c, "operation")
    /\ UNCHANGED <<plan, opener, epClosed, peer, native, rec, evs, view, todo, lookupVars>>

\* Fault: the wait does not drain the native read that is in flight.
WaitDrainsNothing(c) ==
    /\ At(c, "operation")
    /\ Moves(c, "native")
    /\ UNCHANGED <<plan, opener, epClosed, peer, engine, native, rec, evs, view, todo, lookupVars>>

WaitDrains(c) ==
    /\ At(c, "operation") /\ engine.op.st \in {"none", "done"}
    /\ engine' = [engine EXCEPT !.op = NoOp]
    /\ Moves(c, "native")
    /\ UNCHANGED <<plan, opener, epClosed, peer, native, rec, evs, view, todo, lookupVars>>

\* The desktop transport's closed() is immediate, the mobile one awaits its actor.
WaitReturns(c) ==
    /\ At(c, "native")
    /\ plan.kind = "mobile" => native.outcome # "none"
    /\ engine' = [engine EXCEPT !.gate = NoThread]
    /\ Moves(c, "waited")
    /\ UNCHANGED <<plan, opener, epClosed, peer, native, rec, evs, view, todo, lookupVars>>

---------------------------------------------------------------------------
(* The desktop transport: MdnsBrowse over the daemon's channel.            *)

Reply(tag, r) == engine' = [engine EXCEPT !.op = Op("done", tag, r)]

NativeStep == UNCHANGED <<plan, opener, epClosed, peer, callerVars, todo, lookupVars>>

MdnsNext ==
    /\ plan.kind = "mdns" /\ engine.op.st = "start"
    /\ engine' = [engine EXCEPT !.op = IF native.closing THEN Done("none")
                                       ELSE Op("recv", "none", NoRec)]
    /\ NativeStep /\ UNCHANGED native

\* A record without an instance label is skipped.
MdnsRecv ==
    /\ plan.kind = "mdns" /\ engine.op.st = "recv" /\ native.network # <<>>
    /\ LET r == Head(native.network)
       IN  IF native.closing THEN Reply("none", NoRec)
           ELSE IF r.instance = "" THEN UNCHANGED engine
           ELSE Reply("record", raw_event(r))
    /\ native' = [native EXCEPT !.network = Tail(@)]
    /\ NativeStep

MdnsDisconnected ==
    /\ plan.kind = "mdns" /\ engine.op.st = "recv" /\ native.network = <<>> /\ native.ended # "no"
    /\ Reply("none", NoRec)
    /\ NativeStep /\ UNCHANGED native

DaemonStops ==
    /\ plan.kind = "mdns" /\ native.closing /\ native.ended = "no"
    /\ native' = [native EXCEPT !.ended = "closed"]
    /\ NativeStep /\ UNCHANGED engine

---------------------------------------------------------------------------
(* The mobile transport: NativeBrowseHandle and run_browse_actor.          *)

MobileNext ==
    /\ plan.kind = "mobile" /\ engine.op.st = "start"
    /\ IF native.closing \/ native.actor = "dead"
       THEN Reply("none", NoRec) /\ UNCHANGED native
       ELSE /\ engine' = [engine EXCEPT !.op = Op("sent", "none", NoRec)]
            /\ native' = [native EXCEPT !.cmds = Append(@, "next")]
    /\ NativeStep

BrowseActorCommand ==
    /\ plan.kind = "mobile" /\ native.actor = "recv" /\ native.cmds # <<>>
    /\ LET next == Head(native.cmds) = "next"
           n == [native EXCEPT !.cmds = Tail(@)]
       IN  IF next /\ native.buffered # <<>>
           THEN /\ Reply("record", Head(native.buffered))
                /\ native' = [n EXCEPT !.buffered = Tail(@)]
           ELSE /\ native' = [n EXCEPT !.actor = IF next THEN "poll" ELSE "stop"]
                /\ UNCHANGED engine
    /\ NativeStep

\* raw_event_from_mobile fails on one bad record: the whole browse stops.
ActorPoll ==
    /\ plan.kind = "mobile" /\ native.actor = "poll"
    /\ LET batch == native.network
           n == [native EXCEPT !.network = <<>>]
       IN  \/ /\ native.ended = "closed"
              /\ Reply("none", NoRec)
              /\ native' = [native EXCEPT !.outcome = "ok", !.actor = "dead"]
           \/ /\ native.ended = "failed" \/ (native.ended = "no" /\ \E r \in Range(batch) : r.bad)
              /\ native' = [n EXCEPT !.actor = "fail"] /\ UNCHANGED engine
           \/ /\ native.ended = "no" /\ batch # <<>> /\ ~\E r \in Range(batch) : r.bad
              /\ Reply("record", raw_event(batch[1]))
              /\ native' = [n EXCEPT !.actor = "recv",
                   !.buffered = [i \in 1..(Len(batch) - 1) |-> raw_event(batch[i + 1])]]
           \/ /\ native.ended = "no" /\ batch = <<>>
              /\ native' = [native EXCEPT !.actor = "pause"] /\ UNCHANGED engine
    /\ NativeStep

\* Fault: the pause between two polls does not look for a command.
ActorPausesDeaf ==
    /\ plan.kind = "mobile" /\ native.actor = "pause"
    /\ native' = [native EXCEPT !.actor = "poll"] /\ UNCHANGED engine
    /\ NativeStep

\* 250 ms without a command, then the next poll.  The engine serializes reads,
\* so the only command that can arrive here is Close.
ActorPause ==
    /\ plan.kind = "mobile" /\ native.actor = "pause"
    /\ IF native.cmds # <<>>
       THEN /\ Reply("none", NoRec)
            /\ native' = [native EXCEPT !.cmds = Tail(@), !.actor = "stop"]
       ELSE native' = [native EXCEPT !.actor = "poll"] /\ UNCHANGED engine
    /\ NativeStep

\* close_native_browse; a failed poll is reported after the stop.
close_native_browse(result) ==
    /\ plan.kind = "mobile" /\ native.actor \in {"stop", "fail"}
    /\ native' = [native EXCEPT !.actor = "dead", !.outcome = IF @ = "none" THEN result ELSE @]
    /\ IF native.actor = "fail" THEN Reply("error", NoRec) ELSE UNCHANGED engine
    /\ NativeStep

---------------------------------------------------------------------------
(* The environment: the network, the native side, another browse session.  *)

Announce ==
    /\ opener = "open" /\ native.ended = "no" /\ native.script # <<>>
    /\ native' = [native EXCEPT !.network = Append(@, Head(native.script)), !.script = Tail(@)]
    /\ NativeStep /\ UNCHANGED engine

NativeEnds(how) ==
    /\ how \in plan.events /\ opener = "open" /\ native.ended = "no"
    /\ native' = [native EXCEPT !.ended = how]
    /\ NativeStep /\ UNCHANGED engine

OtherSession ==
    /\ "other session" \in plan.events /\ opener = "open" /\ Other \notin retired
    /\ \/ Applied(upsert(Other, "other", OtherNode, {OtherAddr}))
       \/ RetireFlag(Other)
    /\ UNCHANGED <<plan, opener, epClosed, peer, engine, native, callerVars, todo>>

OtherRetires ==
    /\ Other \in retired /\ \E k \in DOMAIN contributions : k[1] = Other
    /\ RetireRemoval(Other)
    /\ UNCHANGED <<plan, opener, epClosed, peer, engine, native, callerVars, todo>>

---------------------------------------------------------------------------

PollStep(p) ==
    \/ CloseStep(p) \/ TakeGate(p) \/ LoopHead(p) \/ EngineNext(p) \/ EngineReturns(p)
    \/ ApplyRecord(p) \/ PublishEvents(p) \/ PollEnds(p)

CallerStep(c) ==
    \/ CloseStep(c) \/ CloseReturns(c) \/ WaitTakesGate(c) \/ WaitDrains(c) \/ WaitReturns(c)

OpenStep == Open \/ SpawnTask \/ install_endpoint_task \/ BrowseRecheck \/ CloseStep(Opener)

TaskStep == TaskRuns \/ CloseStep(Task)

NativeNext ==
    \/ MdnsNext \/ MdnsRecv \/ MdnsDisconnected \/ DaemonStops
    \/ MobileNext \/ BrowseActorCommand \/ ActorPoll \/ ActorPause
    \/ \E result \in {"ok", "err"} : close_native_browse(result)

BrowseNext ==
    \/ OpenStep \/ TaskStep \/ NativeNext
    \/ \E p \in Poller : PollBegin(p) \/ PollStep(p) \/ PollDropped(p)
    \/ \E c \in Closer : close_browse(c) \/ wait_closed(c) \/ CallerStep(c)
    \/ BrowseEndpointCloses \/ Announce
    \/ \E how \in {"closed", "failed"} : NativeEnds(how)
    \/ OtherSession \/ OtherRetires

\* A synchronous call runs on, a spawned task is polled, and a future that is
\* polled takes the mutex it waits for when nobody holds it.
BrowseFairness ==
    /\ WF_browseVars(OpenStep) /\ WF_browseVars(TaskStep) /\ WF_browseVars(NativeNext)
    /\ \A p \in Poller : WF_browseVars(PollStep(p))
    /\ \A c \in Closer : WF_browseVars(CallerStep(c))

---------------------------------------------------------------------------
(* Properties.                                                             *)

Actual(n) == [active |-> OfSource(contributions, Me, n) # {},
              addrs |-> source_effective_addrs(contributions, Me, n)]

\* What the caller knows of n once it has read the queued events too.
Told(n) ==
    LET queued == peer.pending \o evs
        about == {i \in DOMAIN queued : queued[i].node = n}
    IN  IF about = {} THEN view[n]
        ELSE [active |-> queued[Max(about)].active, addrs |-> queued[Max(about)].addrs]

\* While the browse is open, the events delivered so far and those queued add up
\* to what this browse contributes to the endpoint's lookup: no record is lost
\* by a dropped poll, no event of an identity change or a malformed replacement
\* is missing, and none is out of order (next_event, apply_peer_record).
ViewMatchesLookup == ~peer.closed => \A n \in Node : Told(n) = Actual(n)

\* What resolve() answers for a node is the union of the live contributions of
\* every browse, and once a close has run to its end this browse contributes
\* nothing, reads nothing more and has no task left (SourceLease::retire,
\* PeerBrowseShared::close, install_endpoint_task).
LookupExact ==
    /\ \A n \in Node : resolve(n) = AddrsOf(contributions, OfNode(contributions, n))
    /\ peer.closed /\ (\A t \in Thread : todo[t] = <<>>) =>
         /\ \A k \in DOMAIN contributions : k[1] # Me
         /\ engine.terminal /\ native.closing
         /\ opener \in {"open", "refused"} => peer.task # "waiting"

\* When wait_closed has returned, no native read is in flight and none can start,
\* and the mobile browse has been stopped (BrowseSession::wait_closed).
WaitedMeansStopped ==
    (\E c \in Closer : phase[c] = "waited") =>
        /\ engine.terminal /\ engine.op = NoOp
        /\ plan.kind = "mobile" => native.actor = "dead"

\* Closing the browse or the endpoint ends the session: again and again there is
\* a moment at which every poll, close and wait_closed begun so far has returned,
\* and the addresses are taken back even if only the endpoint was closed
\* (PeerBrowseShared::close, browse_peers_with_engine).
BrowseEnds ==
    []<>(peer.closed \/ (epClosed /\ opener # "start") =>
           /\ opener = "refused" \/ (peer.closed /\ Me \in retired)
           /\ \A p \in Poller : phase[p] \in {"idle", "over"}
           /\ \A c \in Closer : phase[c] \in {"idle", "closed", "waited"})
=============================================================================
