------------------------------ MODULE AddressLookup ------------------------------
(***************************************************************************)
(* The in-process address lookup an endpoint resolves peers with            *)
(* (crates/iroh-http-core/src/endpoint/source_scoped_lookup.rs).  Every     *)
(* browse session is a source; a source contributes one entry per service   *)
(* instance, and the effective addresses of a node are the union over the   *)
(* contributions of all sources.  Every operation runs under one mutex.     *)
(***************************************************************************)
EXTENDS PeerRecord

CONSTANTS Source, Instance, Node

VARIABLES contributions,   \* <<source, instance>> -> [node, addrs], partial
          effective,       \* node -> addresses resolve() answers; {} is "no entry"
          retired          \* sources whose lease is retired

lookupVars == <<contributions, effective, retired>>

LookupInit ==
    /\ contributions = <<>>
    /\ effective = [n \in Node |-> {}]
    /\ retired = {}

OfNode(C, n) == {k \in DOMAIN C : C[k].node = n}

OfSource(C, s, n) == {k \in OfNode(C, n) : k[1] = s}

AddrsOf(C, K) == UNION {C[k].addrs : k \in K}

Without(C, K) == [k \in DOMAIN C \ K |-> C[k]]

With(C, k, c) == [j \in DOMAIN C \cup {k} |-> IF j = k THEN c ELSE C[j]]

\* Fault: a resolved node keeps the addresses of the contribution that left it.
recompute_forgets(C, E, n) == [E EXCEPT ![n] = @ \cup AddrsOf(C, OfNode(C, n))]

recompute_endpoint(C, E, n) == [E EXCEPT ![n] = AddrsOf(C, OfNode(C, n))]

source_effective_addrs(C, s, n) == AddrsOf(C, OfSource(C, s, n))

removal_snapshot(C, s, n) ==
    [node |-> n, active |-> OfSource(C, s, n) # {}, addrs |-> source_effective_addrs(C, s, n)]

\* The state after an operation and the events its caller publishes.
Outcome(C, E, events) == [contributions |-> C, effective |-> E, events |-> events]

NoChange == Outcome(contributions, effective, <<>>)

remove_contribution(s, i) ==
    LET k == <<s, i>>
        C == Without(contributions, {k})
        n == contributions[k].node
    IN  IF k \notin DOMAIN contributions THEN NoChange
        ELSE Outcome(C, recompute_endpoint(C, effective, n), <<removal_snapshot(C, s, n)>>)

remove_with_snapshot(s, i) == IF s \in retired THEN NoChange ELSE remove_contribution(s, i)

\* A node id that does not parse retracts what the instance contributed before.
upsert(s, i, n, addrs) ==
    LET k == <<s, i>>
        C == With(contributions, k, [node |-> n, addrs |-> endpoint_data(addrs)])
        moved == k \in DOMAIN contributions /\ contributions[k].node # n
        old == contributions[k].node
        E == IF moved THEN recompute_endpoint(C, effective, old) ELSE effective
    IN  IF s \in retired THEN NoChange
        ELSE IF n \notin Node THEN remove_contribution(s, i)
        ELSE Outcome(C, recompute_endpoint(C, E, n),
               (IF moved THEN <<removal_snapshot(C, s, old)>> ELSE <<>>)
               \o <<[node |-> n, active |-> TRUE, addrs |-> source_effective_addrs(C, s, n)]>>)

\* apply_peer_record: a record read by a browse session of source s.
apply_peer_record(s, rec) ==
    LET event == peer_event_from_record(rec)
    IN  IF event.node = "" THEN NoChange
        ELSE IF event.active THEN upsert(s, rec.instance, event.node, event.addrs)
        ELSE remove_with_snapshot(s, rec.instance)

Applied(outcome) ==
    /\ contributions' = outcome.contributions
    /\ effective' = outcome.effective
    /\ UNCHANGED retired

\* SourceLease::retire, in the two steps other threads can see: the flag, then
\* the removal under the lock.
RetireFlag(s) ==
    /\ retired' = retired \cup {s}
    /\ UNCHANGED <<contributions, effective>>

RetireRemoval(s) ==
    LET mine == {k \in DOMAIN contributions : k[1] = s}
        C == Without(contributions, mine)
        affected == {contributions[k].node : k \in mine}
    IN  /\ contributions' = C
        /\ effective' = [n \in Node |-> IF n \in affected THEN AddrsOf(C, OfNode(C, n))
                                        ELSE effective[n]]
        /\ UNCHANGED retired

resolve(n) == effective[n]
=============================================================================
