-------------------------- MODULE RequestDispatch --------------------------
(***************************************************************************)
(* How a request reaches a JavaScript handler and how its response head    *)
(* comes back: FfiDispatcher::dispatch and respond                         *)
(* (crates/iroh-http-core/src/ffi/dispatcher.rs), the three registries of  *)
(* the HandleStore they meet in (ffi/handles.rs), and deliver_request      *)
(* (crates/iroh-http-adapter/src/lib.rs), which stands between the two.    *)
(*                                                                         *)
(* A request's entry in a registry is named by the request itself: what a  *)
(* handle may resolve to is the subject of module HandleRegistry.  Bodies  *)
(* are only created and given up here; module InboundBody is about them.   *)
(* A JavaScript call that fails on its arguments or on its handle changes  *)
(* nothing and is a stuttering step.                                       *)
(***************************************************************************)
EXTENDS Naturals, FiniteSets

CONSTANTS
    Req,          \* the requests
    MaxTable    \* max_handles: capacity of each registry

ASSUME DispatchAssumption == MaxTable \in Nat /\ IsFiniteSet(Req)

VARIABLES
    pc,        \* where each request's dispatch stands
    readers,   \* requests whose body reader is registered
    writers,   \* requests whose response body writer is registered
    heads,     \* requests whose response-head sender is registered
    old,       \* <<registry, request>>: entries not touched for the TTL
    slot,      \* each request's oneshot channel for the response head
    js,        \* what JavaScript knows of each request
    accepted,  \* history: how often respond() answered Ok
    answer     \* the response that dispatch produced

tables == <<readers, writers, heads, old>>
dispatchVars == <<pc, tables, slot, js, accepted, answer>>

PCs == {"new", "reader", "writer", "head", "waiting", "dropping", "over"}
Answers == {"none", "rejected", "unavailable", "undeliverable", "js", "internal", "cancelled"}

DispatchTypeOK ==
    /\ pc \in [Req -> PCs]
    /\ readers \subseteq Req /\ Cardinality(readers) <= MaxTable
    /\ writers \subseteq Req /\ Cardinality(writers) <= MaxTable
    /\ heads \subseteq Req /\ Cardinality(heads) <= MaxTable
    /\ old \subseteq {"reader", "writer", "head"} \X Req
    /\ slot \in [Req -> {"empty", "js", "undeliverable", "closed"}]
    /\ js \in [Req -> {"unaware", "handling"}]
    /\ accepted \in [Req -> 0..2]
    /\ answer \in [Req -> Answers]

DispatchInit ==
    /\ pc = [q \in Req |-> "new"]
    /\ readers = {} /\ writers = {} /\ heads = {} /\ old = {}
    /\ slot = [q \in Req |-> "empty"]
    /\ js = [q \in Req |-> "unaware"]
    /\ accepted = [q \in Req |-> 0]
    /\ answer = [q \in Req |-> "none"]

Goto(q, l) == pc' = [pc EXCEPT ![q] = l]
Over(q, a) == Goto(q, "over") /\ answer' = [answer EXCEPT ![q] = a]
\* The entry is gone or was just touched: it is not old.
Forget(reg, q) == old' = old \ {<<reg, q>>}

-----------------------------------------------------------------------------
(* dispatch *)

\* Header block too large, header not UTF-8, or content-length over the
\* limit: answered before anything is allocated.
Reject(q) ==
    /\ pc[q] = "new"
    /\ Over(q, "rejected")
    /\ UNCHANGED <<tables, slot, js, accepted>>

\* insert_checked: reg.len() >= max is an error.
Room(reg) == Cardinality(reg) < MaxTable

\* guard.insert_reader
InsertReader(q) ==
    /\ pc[q] = "new"
    /\ IF Room(readers)
          THEN /\ readers' = readers \cup {q}
               /\ Goto(q, "reader")
               /\ UNCHANGED answer
          ELSE /\ Over(q, "unavailable")
               /\ UNCHANGED readers
    /\ UNCHANGED <<writers, heads, old, slot, js, accepted>>

\* Fault: the guard forgets the handles it tracked.
RollbackNothing(q) == UNCHANGED <<readers, writers>>

\* InsertGuard::drop without commit: every tracked handle is removed.
Rollback(q) == readers' = readers \ {q} /\ writers' = writers \ {q}

\* guard.insert_writer
InsertWriter(q) ==
    /\ pc[q] = "reader"
    /\ IF Room(writers)
          THEN /\ writers' = writers \cup {q}
               /\ Goto(q, "writer")
               /\ UNCHANGED <<readers, answer>>
          ELSE /\ Rollback(q)
               /\ Over(q, "unavailable")
    /\ UNCHANGED <<heads, old, slot, js, accepted>>

\* guard.commit(): the tracked handles stay.
Commit(q) == UNCHANGED <<readers, writers>>

\* guard.allocate_req_handle, then commit
InsertHead(q) ==
    /\ pc[q] = "writer"
    /\ IF Room(heads)
          THEN /\ heads' = heads \cup {q}
               /\ Commit(q)
               /\ Goto(q, "head")
               /\ UNCHANGED answer
          ELSE /\ Rollback(q)
               /\ Over(q, "unavailable")
               /\ UNCHANGED heads
    /\ UNCHANGED <<old, slot, js, accepted>>

\* Spawn the pump and call on_request, which hands the request to JavaScript.
Deliver(q) ==
    /\ pc[q] = "head"
    /\ Goto(q, "waiting")
    /\ js' = [js EXCEPT ![q] = "handling"]
    /\ UNCHANGED <<tables, slot, accepted, answer>>

\* handles.finish_body(res_body_handle)
FinishesBody(q) == writers \ {q}

\* on_request cannot reach JavaScript: deliver_request answers 503 itself
\* and finishes the response body.
Undeliverable(q) ==
    /\ pc[q] = "head"
    /\ Goto(q, "waiting")
    /\ heads' = heads \ {q}
    /\ slot' = [slot EXCEPT ![q] = "undeliverable"]
    /\ writers' = FinishesBody(q)
    /\ UNCHANGED <<readers, old, js, accepted, answer>>

\* ReqHeadGuard::drop
HeadReleased(q) == heads \ {q}

\* head_rx.await answers, with a head or because the sender was dropped.
\* The response takes the body reader with it, or drops it.
Resume(q) ==
    /\ pc[q] = "waiting"
    /\ slot[q] # "empty"
    /\ heads' = HeadReleased(q)
    /\ Over(q, CASE slot[q] = "js" -> "js"
                 [] slot[q] = "undeliverable" -> "undeliverable"
                 [] slot[q] = "closed" -> "internal")
    /\ Forget("head", q)
    /\ UNCHANGED <<readers, writers, slot, js, accepted>>

\* The dispatch future is dropped while it waits (request timeout, peer
\* gone, fetch cancelled): the receiver goes first, the guard follows.
DropFuture(q) ==
    /\ pc[q] = "waiting"
    /\ Goto(q, "dropping")
    /\ UNCHANGED <<tables, slot, js, accepted, answer>>

DropGuard(q) ==
    /\ pc[q] = "dropping"
    /\ heads' = HeadReleased(q)
    /\ Over(q, "cancelled")
    /\ Forget("head", q)
    /\ UNCHANGED <<readers, writers, slot, js, accepted>>

Dispatch(q) ==
    \/ Reject(q)
    \/ InsertReader(q)
    \/ InsertWriter(q)
    \/ InsertHead(q)
    \/ Deliver(q)
    \/ Undeliverable(q)
    \/ Resume(q)
    \/ DropFuture(q)
    \/ DropGuard(q)

-----------------------------------------------------------------------------
(* JavaScript *)

\* Fault: the sender is looked up and left in the registry.
SenderBorrowed(q) == heads

\* take_req_sender removes the sender it returns.
SenderTaken(q) == heads \ {q}

\* respond(): valid arguments, a sender in the registry.  Sending succeeds
\* only while the receiver is there.
Respond(q) ==
    /\ js[q] = "handling"
    /\ q \in heads
    /\ accepted[q] < 2
    /\ heads' = SenderTaken(q)
    /\ IF pc[q] = "waiting"
          THEN /\ slot' = [slot EXCEPT ![q] = "js"]
               /\ accepted' = [accepted EXCEPT ![q] = @ + 1]
          ELSE UNCHANGED <<slot, accepted>>
    /\ Forget("head", q)
    /\ UNCHANGED <<pc, readers, writers, js, answer>>

\* next_chunk at the end of the body, or cancel_reader.
EndRequestBody(q) ==
    /\ js[q] = "handling"
    /\ q \in readers
    /\ readers' = readers \ {q}
    /\ Forget("reader", q)
    /\ UNCHANGED <<pc, writers, heads, slot, js, accepted, answer>>

\* finish_body
FinishBody(q) ==
    /\ js[q] = "handling"
    /\ q \in writers
    /\ writers' = writers \ {q}
    /\ Forget("writer", q)
    /\ UNCHANGED <<pc, readers, heads, slot, js, accepted, answer>>

\* next_chunk and send_chunk touch their entries; nothing touches a sender.
Touch(q) ==
    /\ js[q] = "handling"
    /\ \/ q \in readers /\ Forget("reader", q)
       \/ q \in writers /\ Forget("writer", q)
    /\ UNCHANGED <<pc, readers, writers, heads, slot, js, accepted, answer>>

JavaScript(q) == Respond(q) \/ EndRequestBody(q) \/ FinishBody(q) \/ Touch(q)

-----------------------------------------------------------------------------
(* The sweep *)

\* The TTL passes.  It is longer than the synchronous part of dispatch.
Expire(q) ==
    /\ pc[q] \in {"waiting", "dropping", "over"}
    /\ \/ q \in readers /\ old' = old \cup {<<"reader", q>>}
       \/ q \in writers /\ old' = old \cup {<<"writer", q>>}
       \/ q \in heads /\ old' = old \cup {<<"head", q>>}
    /\ UNCHANGED <<pc, readers, writers, heads, slot, js, accepted, answer>>

Expired(reg) == {q \in Req : <<reg, q>> \in old}

SweepReaders ==
    /\ Expired("reader") # {}
    /\ readers' = readers \ Expired("reader")
    /\ old' = old \ ({"reader"} \X Req)
    /\ UNCHANGED <<pc, writers, heads, slot, js, accepted, answer>>

SweepWriters ==
    /\ Expired("writer") # {}
    /\ writers' = writers \ Expired("writer")
    /\ old' = old \ ({"writer"} \X Req)
    /\ UNCHANGED <<pc, readers, heads, slot, js, accepted, answer>>

\* Fault: the sweep passes over the response-head senders.
HeadsSpared == {}

\* sweep_registry(&self.request_heads, ttl)
HeadsSwept == Expired("head") \cap heads

\* A swept sender is dropped, which closes the request's oneshot channel.
SweepHeads ==
    /\ HeadsSwept # {}
    /\ heads' = heads \ HeadsSwept
    /\ slot' = [q \in Req |-> IF q \in HeadsSwept THEN "closed" ELSE slot[q]]
    /\ old' = old \ ({"head"} \X Req)
    /\ UNCHANGED <<pc, readers, writers, js, accepted, answer>>

DispatchNext ==
    \/ \E q \in Req : Dispatch(q) \/ JavaScript(q) \/ Expire(q)
    \/ SweepReaders
    \/ SweepWriters
    \/ SweepHeads

DispatchSpec == DispatchInit /\ [][DispatchNext]_dispatchVars

\* The runtime polls a dispatch that is ready; time passes for a sender that
\* is never touched, and the endpoint's sweep task runs for ever.  Nothing
\* makes JavaScript respond.
ExpireHead(q) == Expire(q) /\ <<"head", q>> \notin old /\ <<"head", q>> \in old'

DispatchFairness ==
    /\ WF_dispatchVars(SweepHeads)
    /\ \A q \in Req :
          /\ WF_dispatchVars(ExpireHead(q))
          /\ WF_dispatchVars(Resume(q) \/ DropGuard(q))

DispatchFairSpec == DispatchSpec /\ DispatchFairness

-----------------------------------------------------------------------------
(* Properties *)

\* The response is the one JavaScript gave: respond() answers Ok at most once
\* per request, the request then never gets the 500 "JS handler dropped
\* without responding", and a JavaScript answer was accepted by respond().
AnswerMatches ==
    \A q \in Req :
        /\ accepted[q] <= 1
        /\ answer[q] = "js" => accepted[q] = 1
        /\ answer[q] \in {"internal", "undeliverable"} => accepted[q] = 0

\* No entry is left to nobody.  A response-head sender does not outlive its
\* dispatch, whichever way that ended.  A request turned away because a
\* registry is full has no entry at all, and one that could not be delivered
\* has its response body finished, so that the 503 is not held up by a body
\* nobody will write; JavaScript never learns of either.
NothingLeftBehind ==
    /\ \A q \in heads : pc[q] \in {"head", "waiting", "dropping"}
    /\ \A q \in Req : answer[q] = "unavailable" =>
           q \notin readers \cup writers \cup heads /\ js[q] = "unaware"
    /\ \A q \in Req : slot[q] = "undeliverable" => q \notin writers /\ js[q] = "unaware"

\* JavaScript is called with three handles that are all registered.
DeliveredHandlesValid ==
    [][\A q \in Req : js[q] = "unaware" /\ js'[q] = "handling" =>
            q \in readers' \cap writers' \cap heads']_dispatchVars

\* Every dispatch that waits for its head ends, also when JavaScript never
\* responds: the sweep drops the sender and the request is answered.
EveryRequestAnswered == []<>(\A q \in Req : pc[q] # "waiting")

=============================================================================
