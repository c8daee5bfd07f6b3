-------------------------- MODULE PeerBrowseProofs ---------------------------
(***************************************************************************)
(* Proofs about PeerBrowse and the AddressLookup below it, for any number  *)
(* of polling and closing threads, records and contributions. The          *)
(* invariant has one part for each kind of obligation that is passed       *)
(* between threads: the lookup equals the union of the contributions after *)
(* every single operation (LookupInv), a close that has begun still owes   *)
(* the calls that retract everything (Retracts), a wait has established    *)
(* what it reports (Drains), and the events in flight make up the          *)
(* difference between what the caller was told and what is there (Views).  *)
(***************************************************************************)
EXTENDS PeerBrowse, TLAPS

\* The lookup answers every node with the union of its contributions.
Exact(C, E) ==
    /\ E = [n \in Node |-> E[n]]
    /\ \A n \in Node : E[n] = AddrsOf(C, OfNode(C, n))

\* C is a map of contributions, each for a node.
Contributes(C) ==
    /\ C = [k \in DOMAIN C |-> C[k]]
    /\ \A k \in DOMAIN C : C[k].node \in Node

\* What n is contributed, by everybody and by s, does not differ between C and D.
SameFor(C, D, n) ==
    /\ OfNode(C, n) = OfNode(D, n)
    /\ \A k \in OfNode(C, n) : C[k].addrs = D[k].addrs

\* Contributions that agree for n give n the same addresses, in all and per
\* source.
LEMMA SameAddrs ==
    ASSUME NEW C, NEW D, NEW n, SameFor(C, D, n)
    PROVE  /\ AddrsOf(C, OfNode(C, n)) = AddrsOf(D, OfNode(D, n))
           /\ \A s : OfSource(C, s, n) = OfSource(D, s, n)
           /\ \A s : source_effective_addrs(C, s, n) = source_effective_addrs(D, s, n)
<1>1. \A s : OfSource(C, s, n) = OfSource(D, s, n)
  BY DEF SameFor, OfSource
<1>2. ASSUME NEW K, K \subseteq OfNode(C, n) PROVE AddrsOf(C, K) = AddrsOf(D, K)
  BY <1>2 DEF SameFor, AddrsOf
<1>3. AddrsOf(C, OfNode(C, n)) = AddrsOf(D, OfNode(D, n))
  BY <1>2 DEF SameFor
<1>4. \A s : AddrsOf(C, OfSource(C, s, n)) = AddrsOf(D, OfSource(C, s, n))
  BY <1>2 DEF OfSource
<1>5. QED
  BY <1>1, <1>3, <1>4 DEF source_effective_addrs

\* recompute_endpoint makes the lookup exact again when only node n was not.
LEMMA Recomputed ==
    ASSUME NEW C, NEW D, NEW E, NEW n \in Node, E = [m \in Node |-> E[m]],
           \A m \in Node : m # n => E[m] = AddrsOf(D, OfNode(D, m))
    PROVE  Exact(D, recompute_endpoint(D, E, n))
  BY DEF Exact, recompute_endpoint

\* Removing contributions changes only the nodes they were for.
LEMMA WithoutOne ==
    ASSUME NEW C, NEW K, NEW D, D = Without(C, K), Contributes(C)
    PROVE  /\ Contributes(D) /\ DOMAIN D = DOMAIN C \ K
           /\ \A n : (\A k \in K \cap DOMAIN C : C[k].node # n) => SameFor(C, D, n)
  BY DEF Without, Contributes, SameFor, OfNode

\* What source s tells of node n when C are the contributions.
SeenBy(C, s, n) == [active |-> OfSource(C, s, n) # {}, addrs |-> source_effective_addrs(C, s, n)]

\* Outside N, source s tells of D what it told of C.
SeenSame(C, D, s, N) == \A m \in Node \ N : SeenBy(D, s, m) = SeenBy(C, s, m)

\* The events tell exactly the nodes of which s contributes something else in D than
\* in C, each once and as it is in D.
TellsOf(s, C, D, events) ==
    \/ events = <<>> /\ SeenSame(C, D, s, {})
    \/ \E n \in Node : events = <<removal_snapshot(D, s, n)>> /\ SeenSame(C, D, s, {n})
    \/ \E n, o \in Node : /\ n # o /\ events = <<removal_snapshot(D, s, o), removal_snapshot(D, s, n)>>
                          /\ SeenSame(C, D, s, {n, o})

\* Only contributions of s differ.
OthersKept(s, C, D) ==
    \A k : k[1] # s => (k \in DOMAIN C <=> k \in DOMAIN D) /\ (k \in DOMAIN C => C[k] = D[k])

\* A source tells the same of a node whose contributions agree.
LEMMA SameSeen ==
    ASSUME NEW C, NEW D, NEW n, SameFor(C, D, n), NEW s
    PROVE  SeenBy(C, s, n) = SeenBy(D, s, n)
<1>1. OfSource(C, s, n) = OfSource(D, s, n) /\ source_effective_addrs(C, s, n) = source_effective_addrs(D, s, n)
  BY SameAddrs
<1>2. QED
  BY <1>1 DEF SeenBy

\* An operation of s that leaves the lookup exact and reports what it did.
Sound(s, out) ==
    /\ Contributes(out.contributions) /\ Exact(out.contributions, out.effective)
    /\ OthersKept(s, contributions, out.contributions)
    /\ TellsOf(s, contributions, out.contributions, out.events)

\* An outcome is sound when its parts are.
LEMMA SoundOutcome ==
    ASSUME NEW s, NEW C, NEW E, NEW events, Contributes(C), Exact(C, E),
           OthersKept(s, contributions, C), TellsOf(s, contributions, C, events)
    PROVE  Sound(s, Outcome(C, E, events))
<1>1. PICK out : out = Outcome(C, E, events)
  BY Zenon
<1>2. out.contributions = C /\ out.effective = E /\ out.events = events
  BY <1>1 DEF Outcome
<1>3. Sound(s, out)
  BY <1>2, Zenon DEF Sound
<1>4. QED
  BY <1>1, <1>3, Zenon

\* An operation that is refused, or has nothing to do, is sound.
LEMMA NoChangeSound ==
    ASSUME Contributes(contributions), Exact(contributions, effective), NEW s
    PROVE  Sound(s, NoChange)
<1>1. OthersKept(s, contributions, contributions)
  BY Zenon DEF OthersKept
<1>2. TellsOf(s, contributions, contributions, <<>>)
  BY Zenon DEF TellsOf, SeenSame
<1>3. QED
  BY <1>1, <1>2, SoundOutcome, Zenon DEF NoChange

\* remove_contribution keeps the lookup exact and reports the node it removed
\* from.
LEMMA RemovalSound ==
    ASSUME Contributes(contributions), Exact(contributions, effective), NEW s, NEW i
    PROVE  Sound(s, remove_contribution(s, i))
<1>1. PICK k : k = <<s, i>>
  BY Zenon
<1>2. CASE k \notin DOMAIN contributions
  <2>1. remove_contribution(s, i) = NoChange
    BY <1>1, <1>2, Zenon DEF remove_contribution
  <2>2. QED
    BY <2>1, NoChangeSound, Zenon
<1>3. CASE k \in DOMAIN contributions
  <2>1. PICK D, n : D = Without(contributions, {k}) /\ n = contributions[k].node
    BY Zenon
  <2>2. remove_contribution(s, i) = Outcome(D, recompute_endpoint(D, effective, n), <<removal_snapshot(D, s, n)>>)
    BY <1>1, <1>3, <2>1, Zenon DEF remove_contribution
  <2>3. n \in Node /\ Contributes(D) /\ \A m : m # n => SameFor(contributions, D, m)
    <3>1. n \in Node
      BY <1>3, <2>1 DEF Contributes
    <3>2. \A m : m # n => \A j \in {k} \cap DOMAIN contributions : contributions[j].node # m
      BY <2>1
    <3>3. QED
      BY <2>1, <3>1, <3>2, WithoutOne, Zenon
  <2>4. Exact(D, recompute_endpoint(D, effective, n))
    <3>1. \A m \in Node : m # n => effective[m] = AddrsOf(D, OfNode(D, m))
      BY <2>3, SameAddrs DEF Exact
    <3>2. effective = [m \in Node |-> effective[m]]
      BY DEF Exact
    <3>3. QED
      BY <2>3, <3>1, <3>2, Recomputed
  <2>5. OthersKept(s, contributions, D)
    BY <1>1, <2>1 DEF Without, OthersKept, Contributes
  <2>6. SeenSame(contributions, D, s, {n})
    BY <2>3, SameSeen DEF SeenSame
  <2>7. TellsOf(s, contributions, D, <<removal_snapshot(D, s, n)>>)
    BY <2>3, <2>6, Zenon DEF TellsOf
  <2>8. QED
    BY <2>2, <2>3, <2>4, <2>5, <2>7, SoundOutcome, Zenon
<1>4. QED
  BY <1>2, <1>3

\* The two one-event lists of an identity change, joined.
LEMMA TwoJoined ==
    ASSUME NEW a, NEW b
    PROVE  <<a>> \o <<b>> = <<a, b>>
<1>1. PICK x : x = <<a>> \o <<b>>
  BY Zenon
<1>0. <<a>> \in Seq({a, b}) /\ <<b>> \in Seq({a, b}) /\ Len(<<a>>) = 1 /\ Len(<<b>>) = 1
  OBVIOUS
<1>2. x \in Seq({a, b}) /\ Len(x) = 2 /\ x[1] = a /\ x[2] = b
  BY <1>1, <1>0
<1>3. PICK y : y = <<a, b>>
  BY Zenon
<1>4. y \in Seq({a, b}) /\ Len(y) = 2 /\ y[1] = a /\ y[2] = b
  BY <1>3
<1>5. x = y
  BY <1>2, <1>4
<1>6. QED
  BY <1>1, <1>3, <1>5, Zenon

\* upsert keeps the lookup exact and reports what it changed, also when the
\* instance moves from one node to another or its node id does not parse.
LEMMA UpsertSound ==
    ASSUME Contributes(contributions), Exact(contributions, effective), NEW s, NEW i, NEW n, NEW addrs
    PROVE  Sound(s, upsert(s, i, n, addrs))
<1>1. CASE s \in retired
  BY <1>1, NoChangeSound, Zenon DEF upsert
<1>2. CASE s \notin retired /\ n \notin Node
  BY <1>2, RemovalSound, Zenon DEF upsert
<1>3. CASE s \notin retired /\ n \in Node
  <2>1. PICK k, c, D, old :
            /\ k = <<s, i>> /\ c = [node |-> n, addrs |-> endpoint_data(addrs)]
            /\ D = With(contributions, k, c)
            /\ old = contributions[k].node
    BY Zenon
  <2>0. c.node = n
    BY <2>1
  <2>2. /\ Contributes(D) /\ DOMAIN D = DOMAIN contributions \cup {k} /\ D[k] = c
        /\ \A m : m # n /\ (k \in DOMAIN contributions => contributions[k].node # m) => SameFor(contributions, D, m)
    <3>1. n \in Node /\ D = With(contributions, k, c) /\ Contributes(contributions)
      BY <1>3, <2>1
    <3>2. QED
      BY ONLY <1>3, <2>0, <3>1 DEF With, Contributes, SameFor, OfNode
  <2>3. OthersKept(s, contributions, D)
    BY <2>1 DEF With, OthersKept, Contributes
  <2>4. [node |-> n, active |-> TRUE, addrs |-> source_effective_addrs(D, s, n)] = removal_snapshot(D, s, n)
    <3>1. k \in OfSource(D, s, n)
      BY <2>0, <2>1, <2>2 DEF OfSource, OfNode
    <3>2. OfSource(D, s, n) # {}
      BY <3>1
    <3>3. (OfSource(D, s, n) # {}) = TRUE
      BY <3>2
    <3>4. QED
      BY <3>3, Zenon DEF removal_snapshot
  <2>5. effective = [m \in Node |-> effective[m]]
    BY DEF Exact
  <2>6. CASE k \in DOMAIN contributions /\ old # n
    <3>1. PICK F : F = recompute_endpoint(D, effective, old)
      BY Zenon
    <3>2. old \in Node
      BY <2>1, <2>6 DEF Contributes
    <3>3. upsert(s, i, n, addrs) = Outcome(D, recompute_endpoint(D, F, n),
            <<removal_snapshot(D, s, old)>> \o <<removal_snapshot(D, s, n)>>)
      BY <1>3, <2>1, <2>4, <2>6, <3>1, Zenon DEF upsert
    <3>4. \A m \in Node : m # n /\ m # old => SameFor(contributions, D, m)
      BY <2>1, <2>2
    <3>5. F = [m \in Node |-> F[m]] /\ \A m \in Node : m # n => F[m] = AddrsOf(D, OfNode(D, m))
      BY <2>5, <3>1, <3>2, <3>4, SameAddrs DEF recompute_endpoint, Exact
    <3>6. Exact(D, recompute_endpoint(D, F, n))
      BY <1>3, <3>5, Recomputed
    <3>7. SeenSame(contributions, D, s, {n, old})
      BY <3>4, SameSeen DEF SeenSame
    <3>8. <<removal_snapshot(D, s, old)>> \o <<removal_snapshot(D, s, n)>>
            = <<removal_snapshot(D, s, old), removal_snapshot(D, s, n)>>
      BY TwoJoined, Zenon
    <3>9. TellsOf(s, contributions, D, <<removal_snapshot(D, s, old), removal_snapshot(D, s, n)>>)
      BY <1>3, <2>6, <3>2, <3>7, Zenon DEF TellsOf
    <3>10. QED
      BY <2>2, <2>3, <3>3, <3>6, <3>8, <3>9, SoundOutcome, Zenon
  <2>7. CASE ~(k \in DOMAIN contributions /\ old # n)
    <3>3. upsert(s, i, n, addrs) = Outcome(D, recompute_endpoint(D, effective, n),
            <<>> \o <<removal_snapshot(D, s, n)>>)
      BY <1>3, <2>1, <2>4, <2>7, Zenon DEF upsert
    <3>4. \A m \in Node : m # n => SameFor(contributions, D, m)
      BY <2>1, <2>2, <2>7
    <3>5. \A m \in Node : m # n => effective[m] = AddrsOf(D, OfNode(D, m))
      BY <3>4, SameAddrs DEF Exact
    <3>6. Exact(D, recompute_endpoint(D, effective, n))
      BY <1>3, <2>5, <3>5, Recomputed
    <3>7. SeenSame(contributions, D, s, {n})
      BY <3>4, SameSeen DEF SeenSame
    <3>8. <<>> \o <<removal_snapshot(D, s, n)>> = <<removal_snapshot(D, s, n)>>
      OBVIOUS
    <3>9. TellsOf(s, contributions, D, <<removal_snapshot(D, s, n)>>)
      BY <1>3, <3>7, Zenon DEF TellsOf
    <3>10. QED
      BY <2>2, <2>3, <3>3, <3>6, <3>8, <3>9, SoundOutcome, Zenon
  <2>8. QED
    BY <2>6, <2>7
<1>4. QED
  BY <1>1, <1>2, <1>3

\* A record leaves the lookup exact, whatever it says.
LEMMA RecordSound ==
    ASSUME Contributes(contributions), Exact(contributions, effective), NEW s, NEW r
    PROVE  Sound(s, apply_peer_record(s, r))
  BY NoChangeSound, UpsertSound, RemovalSound, Zenon DEF apply_peer_record, remove_with_snapshot

\* A retired source contributes nothing more.
LEMMA RetiredIgnored ==
    ASSUME NEW s \in retired
    PROVE  /\ \A r : apply_peer_record(s, r) = NoChange
           /\ \A i, n, addrs : upsert(s, i, n, addrs) = NoChange
  BY Zenon DEF apply_peer_record, remove_with_snapshot, upsert

\* The removal of a retired source leaves the lookup exact and nothing of that
\* source.
LEMMA RetirementSound ==
    ASSUME Contributes(contributions), Exact(contributions, effective), NEW s, RetireRemoval(s)
    PROVE  /\ Contributes(contributions') /\ Exact(contributions', effective')
           /\ OthersKept(s, contributions, contributions')
           /\ \A k \in DOMAIN contributions' : k[1] # s
<1>1. PICK K, D : K = {k \in DOMAIN contributions : k[1] = s} /\ D = Without(contributions, K)
  BY Zenon
<1>2. contributions' = D
  BY <1>1 DEF RetireRemoval
<1>3. /\ Contributes(D) /\ DOMAIN D = DOMAIN contributions \ K
      /\ \A n : (\A k \in K \cap DOMAIN contributions : contributions[k].node # n) => SameFor(contributions, D, n)
  BY <1>1, WithoutOne, Zenon
<1>4. OthersKept(s, contributions, D)
  BY <1>1 DEF Without, OthersKept, Contributes
<1>5. PICK A : A = {contributions[k].node : k \in K}
  BY Zenon
<1>6. effective' = [n \in Node |-> IF n \in A THEN AddrsOf(D, OfNode(D, n)) ELSE effective[n]]
  BY <1>1, <1>5 DEF RetireRemoval
<1>7. \A n \in Node : n \notin A => effective[n] = AddrsOf(D, OfNode(D, n))
  <2>1. SUFFICES ASSUME NEW n \in Node, n \notin A PROVE effective[n] = AddrsOf(D, OfNode(D, n))
    OBVIOUS
  <2>2. \A k \in K \cap DOMAIN contributions : contributions[k].node # n
    BY <1>1, <1>5, <2>1
  <2>3. SameFor(contributions, D, n)
    BY <1>3, <2>2
  <2>4. QED
    BY <2>3, SameAddrs DEF Exact
<1>8. Exact(D, effective')
  BY <1>6, <1>7 DEF Exact
<1>9. \A k \in DOMAIN D : k[1] # s
  BY <1>1, <1>3
<1>10. QED
  BY <1>2, <1>3, <1>4, <1>8, <1>9

\* The calls a close consists of.
Call == {"swap", "clear", "retire", "removal", "inner", "request", "callbacks", "abort", "ungate"}

\* x is in the list s.
In(x, s) == \E i \in DOMAIN s : s[i] = x

\* A pending removal comes after a pending retirement of the lease.
RetireFirst(s) == \A i \in DOMAIN s : s[i] = "removal" => \E j \in 1..(i - 1) : s[j] = "retire"

\* Some thread still has to make the call x.
Pend(x) == \E t \in Thread : In(x, todo[t])

\* The variables are the records and functions the code's structures are.
BrowseFields ==
    /\ todo = [t \in Thread |-> todo[t]] /\ \A t \in Thread : todo[t] \in Seq(Call)
    /\ phase = [t \in Poller \cup Closer |-> phase[t]]
    /\ peer = [closed |-> peer.closed, pending |-> peer.pending, gate |-> peer.gate,
               task |-> peer.task, slot |-> peer.slot]
    /\ engine = [terminal |-> engine.terminal, callback |-> engine.callback,
                 gate |-> engine.gate, op |-> engine.op]
    /\ native = [network |-> native.network, script |-> native.script, ended |-> native.ended,
                 closing |-> native.closing, cmds |-> native.cmds, actor |-> native.actor,
                 buffered |-> native.buffered, outcome |-> native.outcome]
    /\ peer.closed \in BOOLEAN /\ peer.slot \in BOOLEAN
    /\ engine.terminal \in BOOLEAN /\ engine.callback \in BOOLEAN /\ native.closing \in BOOLEAN

\* What a close that is under way still owes: a closed browse has a thread that
\* will retire the lease, remove what it contributed and close the engine
\* session, and an endpoint-close task that waits is aborted or about to be.
Retracts ==
    /\ \A x \in {"clear", "retire", "removal"} : Pend(x) => peer.closed
    /\ Me \in retired \/ \A t \in Thread : RetireFirst(todo[t])
    /\ peer.closed /\ Me \notin retired => Pend("retire")
    /\ peer.closed => Pend("removal") \/ (Me \in retired /\ \A k \in DOMAIN contributions : k[1] # Me)
    /\ peer.closed => engine.terminal \/ Pend("inner")
    /\ engine.terminal => native.closing \/ Pend("request")
    /\ opener # "refused" => todo[Opener] = <<>>
    /\ peer.task # "done" => todo[Task] = <<>>
    /\ opener \in {"start", "spawn"} => peer.task = "none"
    /\ peer.task = "waiting" => opener = "install" \/ peer.slot
    /\ peer.closed /\ peer.task = "waiting" => Pend("abort") \/ opener = "install"

\* What a wait_closed that has got somewhere has established, and that the
\* native side works on at most one read, the engine's operation.
Drains ==
    /\ \A c \in Closer :
         /\ phase[c] = "drain" => engine.terminal \/ In("inner", todo[c])
         /\ phase[c] \in {"operation", "native", "waited"} => engine.terminal
         /\ phase[c] \in {"native", "waited"} => engine.op = NoOp
         /\ phase[c] = "waited" /\ plan.kind = "mobile" => native.outcome # "none"
    /\ native.cmds \in Seq({"next", "close"})
    /\ plan.kind # "mobile" => native.actor = "recv" /\ native.cmds = <<>>
    /\ native.actor \in {"poll", "pause", "fail"} => engine.op.st = "sent" /\ ~In("next", native.cmds)
    /\ In("next", native.cmds) => engine.op.st = "sent"
    /\ \A i, j \in DOMAIN native.cmds : native.cmds[i] = "next" /\ native.cmds[j] = "next" => i = j
    /\ plan.kind = "mobile" /\ native.outcome # "none" => native.actor = "dead"

\* The event that tells how this browse sees node n now.
Snap(n) == removal_snapshot(contributions, Me, n)

\* Outside N, the caller was told how things are.
Seen(N) == view = [m \in Node |-> view[m]] /\ \A m \in Node \ N : view[m] = Actual(m)

\* The events of q, at most two and of different nodes, are all the caller has
\* not been told.
Outstanding(q) ==
    \/ q = <<>> /\ Seen({})
    \/ \E n \in Node : q = <<Snap(n)>> /\ Seen({n})
    \/ \E n, o \in Node : n # o /\ q = <<Snap(o), Snap(n)>> /\ Seen({n, o})

\* The places of a poll that holds the peer gate.
Gated == {"head", "inner", "wait", "apply", "publish", "ending"}

\* One poll is inside the gate; while the browse is open, the events that poll
\* carries or the pending ones, never both, are outstanding; and nothing is
\* pending once a poll has gone to the engine.
Views ==
    /\ \A p \in Poller \cup Closer : phase[p] \in Gated => peer.gate = p
    /\ (\E p \in Poller \cup Closer : phase[p] = "publish") <=> evs # <<>>
    /\ ~peer.closed =>
         /\ (Outstanding(peer.pending) /\ evs = <<>>) \/ (peer.pending = <<>> /\ Outstanding(evs))
         /\ (\E p \in Poller \cup Closer : phase[p] \in {"inner", "wait", "apply", "publish"}) => peer.pending = <<>>

\* What is pending after the first call of a list is done.
LEMMA AfterHead ==
    ASSUME NEW S, NEW s \in Seq(S), s # <<>>
    PROVE  /\ Tail(s) \in Seq(S) /\ Head(s) \in S
           /\ \A x : In(x, s) <=> x = Head(s) \/ In(x, Tail(s))
           /\ RetireFirst(s) => Head(s) # "removal" /\ (Head(s) # "retire" => RetireFirst(Tail(s)))
<1>1. PICK r : r = Tail(s)
  BY Zenon
<1>2. /\ r \in Seq(S) /\ Len(r) = Len(s) - 1 /\ Len(s) \in Nat /\ Len(s) > 0 /\ Len(r) \in Nat
      /\ \A i \in 1..Len(r) : r[i] = s[i + 1]
  BY <1>1
<1>3. Head(s) = s[1] /\ DOMAIN s = 1..Len(s) /\ DOMAIN r = 1..Len(r) /\ Head(s) \in S
  BY <1>2
<1>4. \A x : In(x, s) <=> x = Head(s) \/ In(x, r)
  <2>1. ASSUME NEW x, In(x, s) PROVE x = Head(s) \/ In(x, r)
    <3>1. PICK i \in 1..Len(s) : s[i] = x
      BY <1>3, <2>1 DEF In
    <3>2. CASE i = 1
      BY <1>3, <3>1, <3>2
    <3>3. CASE i # 1
      <4>1. i - 1 \in 1..Len(r) /\ (i - 1) + 1 = i
        BY <1>2, <3>1, <3>3
      <4>2. r[i - 1] = s[i]
        BY <1>2, <4>1
      <4>3. QED
        BY <1>3, <3>1, <4>1, <4>2 DEF In
    <3>4. QED
      BY <3>2, <3>3
  <2>2. ASSUME NEW x, x = Head(s) PROVE In(x, s)
    BY <1>2, <1>3, <2>2 DEF In
  <2>3. ASSUME NEW x, In(x, r) PROVE In(x, s)
    <3>1. PICK i \in 1..Len(r) : r[i] = x
      BY <1>3, <2>3 DEF In
    <3>2. i + 1 \in 1..Len(s) /\ s[i + 1] = x
      BY <1>2, <3>1
    <3>3. QED
      BY <1>3, <3>2 DEF In
  <2>4. QED
    BY <2>1, <2>2, <2>3
<1>5. ASSUME RetireFirst(s) PROVE Head(s) # "removal" /\ (Head(s) # "retire" => RetireFirst(r))
  <2>1. \A i \in 1..Len(s) : s[i] = "removal" => \E j \in 1..(i - 1) : s[j] = "retire"
    BY <1>3, <1>5 DEF RetireFirst
  <2>2. Head(s) # "removal"
    <3>1. 1 \in 1..Len(s) /\ 1..(1 - 1) = {}
      BY <1>2
    <3>2. QED
      BY <1>3, <2>1, <3>1
  <2>3. ASSUME Head(s) # "retire", NEW i \in 1..Len(r), r[i] = "removal" PROVE \E j \in 1..(i - 1) : r[j] = "retire"
    <3>1. i + 1 \in 1..Len(s) /\ s[i + 1] = "removal" /\ (i + 1) - 1 = i
      BY <1>2, <2>3
    <3>2. PICK j \in 1..i : s[j] = "retire"
      BY <2>1, <3>1
    <3>3. j # 1
      BY <1>3, <2>3, <3>2
    <3>4. j - 1 \in 1..(i - 1) /\ j - 1 \in 1..Len(r) /\ (j - 1) + 1 = j
      BY <1>2, <2>3, <3>2, <3>3
    <3>5. r[j - 1] = "retire"
      BY <1>2, <3>2, <3>4
    <3>6. QED
      BY <3>4, <3>5
  <2>4. QED
    BY <1>3, <2>2, <2>3 DEF RetireFirst
<1>6. QED
  BY <1>1, <1>2, <1>3, <1>4, <1>5

\* What is pending when the calls of f are put before those of r.
LEMMA PutBefore ==
    ASSUME NEW S, NEW f \in Seq(S), NEW r \in Seq(S)
    PROVE  /\ f \o r \in Seq(S)
           /\ \A x : In(x, f \o r) <=> In(x, f) \/ In(x, r)
           /\ RetireFirst(f) /\ RetireFirst(r) => RetireFirst(f \o r)
<1>1. PICK s : s = f \o r
  BY Zenon
<1>2. /\ s \in Seq(S) /\ Len(s) = Len(f) + Len(r) /\ Len(f) \in Nat /\ Len(r) \in Nat
      /\ \A i \in 1..Len(f) : s[i] = f[i]
      /\ \A i \in 1..Len(r) : s[Len(f) + i] = r[i]
  <2>1. s \in Seq(S)
    BY <1>1
  <2>2. Len(s) = Len(f) + Len(r) /\ Len(f) \in Nat /\ Len(r) \in Nat
    BY <1>1
  <2>3. \A i \in 1..Len(f) : s[i] = f[i]
    BY <1>1
  <2>4. \A i \in 1..Len(r) : s[Len(f) + i] = r[i]
    BY <1>1
  <2>5. QED
    BY <2>1, <2>2, <2>3, <2>4
<1>3. DOMAIN s = 1..Len(s) /\ DOMAIN f = 1..Len(f) /\ DOMAIN r = 1..Len(r)
  BY <1>2
<1>4. \A i \in 1..Len(s) : i \in 1..Len(f) \/ (i - Len(f) \in 1..Len(r) /\ Len(f) + (i - Len(f)) = i)
  BY <1>2
<1>5. \A i \in 1..Len(r) : Len(f) + i \in 1..Len(s)
  BY <1>2
<1>6. \A i \in 1..Len(f) : i \in 1..Len(s)
  BY <1>2
<1>7. \A x : In(x, s) <=> In(x, f) \/ In(x, r)
  <2>1. ASSUME NEW x, In(x, s) PROVE In(x, f) \/ In(x, r)
    <3>1. PICK i \in 1..Len(s) : s[i] = x
      BY <1>3, <2>1 DEF In
    <3>2. CASE i \in 1..Len(f)
      BY <1>2, <1>3, <3>1, <3>2, Zenon DEF In
    <3>3. CASE i - Len(f) \in 1..Len(r) /\ Len(f) + (i - Len(f)) = i
      <4>1. r[i - Len(f)] = x
        BY <1>2, <3>1, <3>3
      <4>2. QED
        BY <1>3, <3>3, <4>1 DEF In
    <3>4. QED
      BY <1>4, <3>2, <3>3
  <2>2. ASSUME NEW x, In(x, f) PROVE In(x, s)
    BY <1>2, <1>3, <1>6, <2>2 DEF In
  <2>3. ASSUME NEW x, In(x, r) PROVE In(x, s)
    <3>1. PICK i \in 1..Len(r) : r[i] = x
      BY <1>3, <2>3 DEF In
    <3>2. Len(f) + i \in 1..Len(s) /\ s[Len(f) + i] = x
      BY <1>2, <1>5, <3>1
    <3>3. QED
      BY <1>3, <3>2 DEF In
  <2>4. QED
    BY <2>1, <2>2, <2>3
<1>8. ASSUME RetireFirst(f), RetireFirst(r) PROVE RetireFirst(s)
  <2>1. SUFFICES ASSUME NEW i \in 1..Len(s), s[i] = "removal" PROVE \E j \in 1..(i - 1) : s[j] = "retire"
    BY <1>3 DEF RetireFirst
  <2>2. CASE i \in 1..Len(f)
    <3>1. PICK j \in 1..(i - 1) : f[j] = "retire"
      BY <1>2, <1>3, <1>8, <2>1, <2>2 DEF RetireFirst
    <3>2. j \in 1..Len(f)
      BY <1>2, <2>2, <3>1
    <3>3. QED
      BY <1>2, <3>1, <3>2
  <2>3. CASE i - Len(f) \in 1..Len(r) /\ Len(f) + (i - Len(f)) = i
    <3>0. PICK k \in 1..Len(r) : k = i - Len(f) /\ Len(f) + k = i
      BY <2>3, Zenon
    <3>1. r[k] = "removal"
      BY <1>2, <2>1, <3>0, Zenon
    <3>2. PICK j \in 1..(k - 1) : r[j] = "retire"
      BY <1>3, <1>8, <3>1 DEF RetireFirst
    <3>3. j \in 1..Len(r) /\ Len(f) + j \in 1..(i - 1)
      BY <1>2, <2>1, <3>0, <3>2
    <3>4. s[Len(f) + j] = "retire"
      BY <1>2, <3>2, <3>3
    <3>5. QED
      BY <3>3, <3>4
  <2>4. QED
    BY <1>4, <2>2, <2>3
<1>9. QED
  BY <1>1, <1>2, <1>7, <1>8

\* The call lists of this model.
LEMMA Lists ==
    /\ <<>> \in Seq(Call) /\ RetireFirst(<<>>) /\ \A x : ~In(x, <<>>)
    /\ Retraction \in Seq(Call) /\ RetireFirst(Retraction)
    /\ \A x : In(x, Retraction) <=> x \in {"clear", "retire", "removal", "inner", "abort"}
    /\ \A x \in {"swap", "inner"} :
         <<x>> \in Seq(Call) /\ RetireFirst(<<x>>) /\ \A y : In(y, <<x>>) <=> y = x
    /\ <<"request", "callbacks">> \in Seq(Call) /\ RetireFirst(<<"request", "callbacks">>)
    /\ \A x : In(x, <<"request", "callbacks">>) <=> x \in {"request", "callbacks"}
    /\ <<"swap", "inner">> \in Seq(Call) /\ RetireFirst(<<"swap", "inner">>)
    /\ \A x : In(x, <<"swap", "inner">>) <=> x \in {"swap", "inner"}
    /\ <<"inner", "ungate", "swap">> \in Seq(Call) /\ RetireFirst(<<"inner", "ungate", "swap">>)
    /\ \A x : In(x, <<"inner", "ungate", "swap">>) <=> x \in {"inner", "ungate", "swap"}
<1>1. <<>> \in Seq(Call) /\ RetireFirst(<<>>) /\ \A x : ~In(x, <<>>)
  BY DEF RetireFirst, In
<1>2. Retraction \in Seq(Call)
  BY DEF Retraction, Call
<1>3. RetireFirst(Retraction)
  <2>1. PICK s : s = Retraction
    BY Zenon
  <2>2. DOMAIN s = 1..5 /\ s[1] # "removal" /\ s[2] = "retire" /\ s[4] # "removal" /\ s[5] # "removal"
    BY <2>1 DEF Retraction
  <2>3. 2 \in 1..(3 - 1)
    OBVIOUS
  <2>4. \A i \in 1..5 : s[i] = "removal" => i = 3
    BY <2>2
  <2>5. QED
    BY <2>1, <2>2, <2>3, <2>4 DEF RetireFirst
<1>4. \A x : In(x, Retraction) <=> x \in {"clear", "retire", "removal", "inner", "abort"}
  BY DEF In, Retraction
<1>5. \A x \in {"swap", "inner"} :
         <<x>> \in Seq(Call) /\ RetireFirst(<<x>>) /\ \A y : In(y, <<x>>) <=> y = x
  BY DEF Call, In, RetireFirst
<1>6. <<"request", "callbacks">> \in Seq(Call) /\ RetireFirst(<<"request", "callbacks">>)
  BY DEF Call, RetireFirst
<1>7. \A x : In(x, <<"request", "callbacks">>) <=> x \in {"request", "callbacks"}
  BY DEF In
<1>8. <<"swap", "inner">> \in Seq(Call) /\ RetireFirst(<<"swap", "inner">>)
  BY DEF Call, RetireFirst
<1>9. \A x : In(x, <<"swap", "inner">>) <=> x \in {"swap", "inner"}
  BY DEF In
<1>10. <<"inner", "ungate", "swap">> \in Seq(Call) /\ RetireFirst(<<"inner", "ungate", "swap">>)
  BY DEF Call, RetireFirst
<1>11. \A x : In(x, <<"inner", "ungate", "swap">>) <=> x \in {"inner", "ungate", "swap"}
  BY DEF In
<1>12. QED
  BY <1>1, <1>2, <1>3, <1>4, <1>5, <1>6, <1>7, <1>8, <1>9, <1>10, <1>11

\* What changes in the lists of calls when t has made its first one, h, and it led
\* to the calls of f.
CallMade(t, h, f) ==
    /\ todo' = [u \in Thread |-> todo'[u]] /\ \A u \in Thread : todo'[u] \in Seq(Call)
    /\ Pend(h)
    /\ \A x : Pend(x) /\ x # h => Pend(x)'
    /\ \A x : In(x, f) => Pend(x)'
    /\ \A x : Pend(x)' => Pend(x) \/ In(x, f)
    /\ (\A u \in Thread : RetireFirst(todo[u])) =>
         /\ h # "removal"
         /\ h # "retire" => \A u \in Thread : RetireFirst(todo'[u])
    /\ \A u \in Thread : In("inner", todo[u]) /\ h # "inner" => In("inner", todo'[u])
    /\ \A u \in Thread : todo[u] = <<>> => todo'[u] = <<>>

\* A step that makes the first call of a thread, and puts the calls that one
\* leads to in its place, makes a call.
LEMMA MakesCall ==
    ASSUME BrowseFields, NEW t \in Thread, todo[t] # <<>>, NEW f \in Seq(Call), RetireFirst(f),
           NEW new, todo' = [todo EXCEPT ![t] = new],
           new = f \o Tail(todo[t]) \/ (f = <<>> /\ new = Tail(todo[t]))
    PROVE  CallMade(t, Head(todo[t]), f)
<1>1. PICK s, h, r : s = todo[t] /\ h = Head(s) /\ r = Tail(s)
  BY Zenon
<1>2. /\ s \in Seq(Call) /\ s # <<>> /\ r \in Seq(Call)
      /\ \A x : In(x, s) <=> x = h \/ In(x, r)
      /\ RetireFirst(s) => h # "removal" /\ (h # "retire" => RetireFirst(r))
  <2>1. s \in Seq(Call) /\ s # <<>>
    BY <1>1 DEF BrowseFields
  <2>2. QED
    BY <1>1, <2>1, AfterHead
<1>3. /\ new \in Seq(Call)
      /\ \A x : In(x, new) <=> In(x, f) \/ In(x, r)
      /\ RetireFirst(r) => RetireFirst(new)
  <2>1. CASE new = f \o r
    BY <1>2, <2>1, PutBefore
  <2>2. CASE f = <<>> /\ new = r
    BY <1>2, <2>2, Lists
  <2>3. QED
    BY <1>1, <2>1, <2>2
<1>4. todo' = [u \in Thread |-> IF u = t THEN new ELSE todo[u]]
  BY Zenon DEF BrowseFields
<1>5. todo' = [u \in Thread |-> todo'[u]] /\ \A u \in Thread : todo'[u] \in Seq(Call)
  BY <1>3, <1>4, Zenon DEF BrowseFields
<1>6. Pend(h) /\ \A x : Pend(x) /\ x # h => Pend(x)'
  BY <1>1, <1>2, <1>3, <1>4, Zenon DEF Pend
<1>7. (\A x : In(x, f) => Pend(x)') /\ \A x : Pend(x)' => Pend(x) \/ In(x, f)
  BY <1>1, <1>2, <1>3, <1>4 DEF Pend
<1>8. (\A u \in Thread : RetireFirst(todo[u])) =>
         h # "removal" /\ (h # "retire" => \A u \in Thread : RetireFirst(todo'[u]))
  BY <1>1, <1>2, <1>3, <1>4
<1>9. \A u \in Thread : In("inner", todo[u]) /\ h # "inner" => In("inner", todo'[u])
  BY <1>1, <1>2, <1>3, <1>4
<1>10. \A u \in Thread : todo[u] = <<>> => todo'[u] = <<>>
  BY <1>4
<1>11. QED
  BY <1>1, <1>5, <1>6, <1>7, <1>8, <1>9, <1>10, Zenon DEF CallMade

\* The same when t, which had no call to make, starts with those of f.
CallsBegun(t, f) ==
    /\ todo' = [u \in Thread |-> todo'[u]] /\ \A u \in Thread : todo'[u] \in Seq(Call)
    /\ \A x : Pend(x)' <=> Pend(x) \/ In(x, f)
    /\ (\A u \in Thread : RetireFirst(todo[u])) => \A u \in Thread : RetireFirst(todo'[u])
    /\ \A u \in Thread : In("inner", todo[u]) => In("inner", todo'[u])
    /\ todo'[t] = f /\ \A u \in Thread \ {t} : todo'[u] = todo[u]

\* A thread with nothing to do that is given calls begins them.
LEMMA BeginsCalls ==
    ASSUME BrowseFields, NEW t \in Thread, todo[t] = <<>>, NEW f \in Seq(Call), RetireFirst(f),
           todo' = [todo EXCEPT ![t] = f]
    PROVE  CallsBegun(t, f)
<1>1. todo' = [u \in Thread |-> IF u = t THEN f ELSE todo[u]]
  BY Zenon DEF BrowseFields
<1>2. \A x : ~In(x, <<>>)
  BY Lists
<1>3. todo' = [u \in Thread |-> todo'[u]] /\ \A u \in Thread : todo'[u] \in Seq(Call)
  BY <1>1, Zenon DEF BrowseFields
<1>4. \A x : Pend(x)' <=> Pend(x) \/ In(x, f)
  BY <1>1, <1>2 DEF Pend
<1>5. (\A u \in Thread : RetireFirst(todo[u])) => \A u \in Thread : RetireFirst(todo'[u])
  BY <1>1
<1>6. \A u \in Thread : In("inner", todo[u]) => In("inner", todo'[u])
  BY <1>1, <1>2
<1>7. todo'[t] = f /\ \A u \in Thread \ {t} : todo'[u] = todo[u]
  BY <1>1
<1>8. QED
  BY <1>3, <1>4, <1>5, <1>6, <1>7, Zenon DEF CallsBegun

\* The peer session after a step, field by field.
PeerIs(closed, pending, gate, task, slot) ==
    peer' = [closed |-> closed, pending |-> pending, gate |-> gate, task |-> task, slot |-> slot]

\* The engine session after a step, field by field.
EngineIs(terminal, callback, gate, op) ==
    engine' = [terminal |-> terminal, callback |-> callback, gate |-> gate, op |-> op]

\* The transport after a step, field by field.
NativeIs(network, script, ended, closing, cmds, actor, buffered, outcome) ==
    native' = [network |-> network, script |-> script, ended |-> ended, closing |-> closing,
               cmds |-> cmds, actor |-> actor, buffered |-> buffered, outcome |-> outcome]

\* What the close call h does, and the calls f it leads to.
Made(h, f) ==
    /\ UNCHANGED <<plan, opener, epClosed, phase, rec, evs, view>>
    /\ \/ /\ h = "swap" /\ f = (IF peer.closed THEN <<>> ELSE Retraction)
          /\ PeerIs(TRUE, peer.pending, peer.gate, peer.task, peer.slot)
          /\ UNCHANGED <<engine, native, lookupVars>>
       \/ /\ h = "clear" /\ f = <<>>
          /\ PeerIs(peer.closed, <<>>, peer.gate, peer.task, peer.slot)
          /\ UNCHANGED <<engine, native, lookupVars>>
       \/ h = "retire" /\ f = <<>> /\ RetireFlag(Me) /\ UNCHANGED <<peer, engine, native>>
       \/ h = "removal" /\ f = <<>> /\ RetireRemoval(Me) /\ UNCHANGED <<peer, engine, native>>
       \/ /\ h = "inner" /\ f = (IF engine.terminal THEN <<>> ELSE <<"request", "callbacks">>)
          /\ EngineIs(TRUE, engine.callback, engine.gate, engine.op)
          /\ UNCHANGED <<peer, native, lookupVars>>
       \/ /\ h = "request" /\ f = <<>>
          /\ \E cmds, outcome :
               /\ cmds = (IF plan.kind = "mobile" /\ native.actor # "dead" THEN Append(native.cmds, "close")
                          ELSE native.cmds)
               /\ outcome = (IF plan.kind = "mobile" /\ native.actor = "dead" /\ native.outcome = "none" THEN "ok"
                             ELSE native.outcome)
               /\ NativeIs(native.network, native.script, native.ended, TRUE, cmds, native.actor,
                           native.buffered, outcome)
          /\ UNCHANGED <<peer, engine, lookupVars>>
       \/ /\ h = "callbacks" /\ f = (IF engine.callback THEN <<"swap">> ELSE <<>>)
          /\ EngineIs(engine.terminal, FALSE, engine.gate, engine.op)
          /\ UNCHANGED <<peer, native, lookupVars>>
       \/ /\ h = "abort" /\ f = <<>>
          /\ \E task : /\ task = (IF peer.slot /\ peer.task = "waiting" THEN "aborted" ELSE peer.task)
                       /\ PeerIs(peer.closed, peer.pending, peer.gate, task, FALSE)
          /\ UNCHANGED <<engine, native, lookupVars>>
       \/ /\ h = "ungate" /\ f = <<>>
          /\ EngineIs(engine.terminal, engine.callback, NoThread, engine.op)
          /\ UNCHANGED <<peer, native, lookupVars>>

\* Every close step makes the first call of its thread and has that call's
\* effect.
LEMMA CloseEffect ==
    ASSUME BrowseFields, NEW t \in Thread, CloseStep(t)
    PROVE  \E h, f : CallMade(t, h, f) /\ Made(h, f)
<1>1. PICK h, r : h = Head(todo[t]) /\ r = Tail(todo[t])
  BY Zenon
<1>2. todo[t] # <<>> /\ UNCHANGED <<plan, opener, epClosed, phase, rec, evs, view>>
  BY DEF CloseStep, callerVars
<1>3. ASSUME NEW f \in Seq(Call), RetireFirst(f), NEW new, todo' = [todo EXCEPT ![t] = new],
             new = f \o r \/ (f = <<>> /\ new = r)
      PROVE  CallMade(t, h, f)
  BY <1>1, <1>2, <1>3, MakesCall, Zenon
<1>4. /\ <<>> \in Seq(Call) /\ RetireFirst(<<>>) /\ Retraction \in Seq(Call) /\ RetireFirst(Retraction)
      /\ <<"swap">> \in Seq(Call) /\ RetireFirst(<<"swap">>)
      /\ <<"request", "callbacks">> \in Seq(Call) /\ RetireFirst(<<"request", "callbacks">>)
  BY Lists
<1>5. CASE h = "swap" /\ Swap(t, r)
  <2>1. PICK f, new : /\ f = (IF peer.closed THEN <<>> ELSE Retraction)
                      /\ new = (IF peer.closed THEN r ELSE Retraction \o r)
    BY Zenon
  <2>2. todo' = [todo EXCEPT ![t] = new]
    BY <1>5, <2>1 DEF Swap, Do
  <2>3. f \in Seq(Call) /\ RetireFirst(f) /\ (new = f \o r \/ (f = <<>> /\ new = r))
    BY <1>4, <2>1, Zenon
  <2>4. PeerIs(TRUE, peer.pending, peer.gate, peer.task, peer.slot) /\ UNCHANGED <<engine, native, lookupVars>>
    BY <1>5, Zenon DEF Swap, PeerIs, BrowseFields
  <2>5. CallMade(t, h, f)
    BY <1>3, <2>2, <2>3, Zenon
  <2>6. QED
    BY <1>2, <1>5, <2>1, <2>4, <2>5, Zenon DEF Made
<1>6. CASE h = "inner" /\ Inner(t, r)
  <2>1. PICK f, new : /\ f = (IF engine.terminal THEN <<>> ELSE <<"request", "callbacks">>)
                      /\ new = (IF engine.terminal THEN r ELSE <<"request", "callbacks">> \o r)
    BY Zenon
  <2>2. todo' = [todo EXCEPT ![t] = new]
    BY <1>6, <2>1, Zenon DEF Inner, Do
  <2>3. f \in Seq(Call) /\ RetireFirst(f) /\ (new = f \o r \/ (f = <<>> /\ new = r))
    BY <1>4, <2>1, Zenon
  <2>4. EngineIs(TRUE, engine.callback, engine.gate, engine.op) /\ UNCHANGED <<peer, native, lookupVars>>
    BY <1>6, Zenon DEF Inner, EngineIs, BrowseFields
  <2>5. CallMade(t, h, f)
    BY <1>3, <2>2, <2>3
  <2>6. QED
    BY <1>2, <1>6, <2>1, <2>4, <2>5, Zenon DEF Made
<1>7. CASE h = "callbacks" /\ Callbacks(t, r)
  <2>1. PICK f, new : /\ f = (IF engine.callback THEN <<"swap">> ELSE <<>>)
                      /\ new = (IF engine.callback THEN <<"swap">> \o r ELSE r)
    BY Zenon
  <2>2. todo' = [todo EXCEPT ![t] = new]
    BY <1>7, <2>1, Zenon DEF Callbacks, Do
  <2>3. f \in Seq(Call) /\ RetireFirst(f) /\ (new = f \o r \/ (f = <<>> /\ new = r))
    BY <1>4, <2>1, Zenon
  <2>4. EngineIs(engine.terminal, FALSE, engine.gate, engine.op) /\ UNCHANGED <<peer, native, lookupVars>>
    BY <1>7, Zenon DEF Callbacks, EngineIs, BrowseFields
  <2>5. CallMade(t, h, f)
    BY <1>3, <2>2, <2>3
  <2>6. QED
    BY <1>2, <1>7, <2>1, <2>4, <2>5, Zenon DEF Made
<1>8. CASE \/ h = "clear" /\ Clear(t, r)
           \/ h = "retire" /\ RetireSource(t, r)
           \/ h = "removal" /\ Removal(t, r)
           \/ h = "request" /\ request_browse_close(t, r)
           \/ h = "abort" /\ AbortTask(t, r)
           \/ h = "ungate" /\ Ungate(t, r)
  <2>1. todo' = [todo EXCEPT ![t] = r]
    BY <1>8, Zenon DEF Clear, RetireSource, Removal, request_browse_close, AbortTask, Ungate, Do
  <2>2. CallMade(t, h, <<>>)
    BY <1>3, <1>4, <2>1, Zenon
  <2>3. CASE h = "clear" /\ Clear(t, r)
    <3>1. PeerIs(peer.closed, <<>>, peer.gate, peer.task, peer.slot) /\ UNCHANGED <<engine, native, lookupVars>>
      BY <2>3 DEF Clear, PeerIs, BrowseFields
    <3>2. QED
      BY <1>2, <2>2, <2>3, <3>1, Zenon DEF Made
  <2>4. CASE h = "retire" /\ RetireSource(t, r)
    BY <1>2, <2>2, <2>4, Zenon DEF Made, RetireSource
  <2>5. CASE h = "removal" /\ Removal(t, r)
    BY <1>2, <2>2, <2>5, Zenon DEF Made, Removal
  <2>6. CASE h = "request" /\ request_browse_close(t, r)
    <3>1. PICK cmds, outcome :
               /\ cmds = (IF plan.kind = "mobile" /\ native.actor # "dead" THEN Append(native.cmds, "close")
                          ELSE native.cmds)
               /\ outcome = (IF plan.kind = "mobile" /\ native.actor = "dead" /\ native.outcome = "none" THEN "ok"
                             ELSE native.outcome)
      BY Zenon
    <3>2. /\ NativeIs(native.network, native.script, native.ended, TRUE, cmds, native.actor,
                      native.buffered, outcome)
          /\ UNCHANGED <<peer, engine, lookupVars>>
      BY <2>6, <3>1, Zenon DEF request_browse_close, NativeIs, BrowseFields
    <3>3. QED
      BY <1>2, <2>2, <2>6, <3>1, <3>2, Zenon DEF Made
  <2>7. CASE h = "abort" /\ AbortTask(t, r)
    <3>1. PICK task : task = (IF peer.slot /\ peer.task = "waiting" THEN "aborted" ELSE peer.task)
      BY Zenon
    <3>2. PeerIs(peer.closed, peer.pending, peer.gate, task, FALSE) /\ UNCHANGED <<engine, native, lookupVars>>
      BY <2>7, <3>1, Zenon DEF AbortTask, PeerIs, BrowseFields
    <3>3. QED
      BY <1>2, <2>2, <2>7, <3>1, <3>2, Zenon DEF Made
  <2>8. CASE h = "ungate" /\ Ungate(t, r)
    <3>1. EngineIs(engine.terminal, engine.callback, NoThread, engine.op) /\ UNCHANGED <<peer, native, lookupVars>>
      BY <2>8 DEF Ungate, EngineIs, BrowseFields
    <3>2. QED
      BY <1>2, <2>2, <2>8, <3>1, Zenon DEF Made
  <2>9. QED
    BY <1>8, <2>3, <2>4, <2>5, <2>6, <2>7, <2>8, Zenon
<1>9. QED
  BY <1>1, <1>5, <1>6, <1>7, <1>8, Zenon DEF CloseStep

\* A close step keeps the shape of the state.
LEMMA CloseFields ==
    ASSUME BrowseFields, NEW t, NEW h, NEW f, CallMade(t, h, f), Made(h, f)
    PROVE  BrowseFields'
<1>1. todo' = [u \in Thread |-> todo'[u]] /\ \A u \in Thread : todo'[u] \in Seq(Call)
  BY Zenon DEF CallMade
<1>2. phase' = phase
  BY Zenon DEF Made
<1>3. CASE UNCHANGED <<engine, native>> /\ \E c, q, k, s : c \in BOOLEAN /\ s \in BOOLEAN /\ PeerIs(c, q, peer.gate, k, s)
  BY <1>1, <1>2, <1>3 DEF BrowseFields, PeerIs
<1>4. CASE UNCHANGED <<peer, native>> /\ \E e, c, g : e \in BOOLEAN /\ c \in BOOLEAN /\ EngineIs(e, c, g, engine.op)
  BY <1>1, <1>2, <1>4 DEF BrowseFields, EngineIs
<1>5. CASE /\ UNCHANGED <<peer, engine>>
           /\ \E cmds, outcome : NativeIs(native.network, native.script, native.ended, TRUE, cmds, native.actor,
                           native.buffered, outcome)
  BY <1>1, <1>2, <1>5 DEF BrowseFields, NativeIs
<1>6. CASE UNCHANGED <<peer, engine, native>>
  BY <1>1, <1>2, <1>6, Zenon DEF BrowseFields
<1>7. /\ peer.closed \in BOOLEAN /\ peer.slot \in BOOLEAN /\ TRUE \in BOOLEAN /\ FALSE \in BOOLEAN
      /\ engine.terminal \in BOOLEAN /\ engine.callback \in BOOLEAN
  BY DEF BrowseFields
<1>8. CASE h \in {"swap", "clear", "abort"}
  BY <1>3, <1>7, <1>8, Zenon DEF Made
<1>9. CASE h \in {"inner", "callbacks", "ungate"}
  BY <1>4, <1>7, <1>9, Zenon DEF Made
<1>10. CASE h = "request"
  BY <1>5, <1>10, Zenon DEF Made
<1>11. CASE h \in {"retire", "removal"}
  BY <1>6, <1>11, Zenon DEF Made
<1>12. QED
  BY <1>8, <1>9, <1>10, <1>11, Zenon DEF Made

\* The endpoint-close task and its slot are disturbed by no call but an abort, the
\* closed flag by none but the swap.
LEMMA PeerAfter ==
    ASSUME BrowseFields, NEW h, NEW f, Made(h, f), h # "swap"
    PROVE  /\ peer'.closed = peer.closed
           /\ h # "abort" => peer'.task = peer.task /\ peer'.slot = peer.slot
           /\ h # "inner" => engine'.terminal = engine.terminal
<1>1. CASE h \in {"clear", "abort"}
  <2>1. engine' = engine /\ \E q, k, s : PeerIs(peer.closed, q, peer.gate, k, s) /\ (h # "abort" => k = peer.task /\ s = peer.slot)
    BY <1>1, Zenon DEF Made
  <2>2. PICK q, k, s : PeerIs(peer.closed, q, peer.gate, k, s) /\ (h # "abort" => k = peer.task /\ s = peer.slot)
    BY <2>1, Zenon
  <2>3. peer'.closed = peer.closed /\ peer'.task = k /\ peer'.slot = s
    BY <2>2 DEF PeerIs
  <2>4. QED
    BY <2>1, <2>2, <2>3, Zenon
<1>2. CASE h \in {"inner", "callbacks", "ungate"}
  <2>1. peer' = peer /\ \E e, c, g : EngineIs(e, c, g, engine.op) /\ (h # "inner" => e = engine.terminal)
    BY <1>2, Zenon DEF Made
  <2>2. PICK e, c, g : EngineIs(e, c, g, engine.op) /\ (h # "inner" => e = engine.terminal)
    BY <2>1, Zenon
  <2>3. engine'.terminal = e
    BY <2>2 DEF EngineIs
  <2>4. QED
    BY <2>1, <2>2, <2>3, Zenon
<1>3. CASE h \in {"request", "retire", "removal"}
  BY <1>3, Zenon DEF Made
<1>4. QED
  BY <1>1, <1>2, <1>3, Zenon DEF Made

\* A close step keeps what a close owes: the swap takes on the debts, every
\* other call pays its own.
LEMMA CloseRetracts ==
    ASSUME BrowseFields, Retracts, NEW t, NEW h, NEW f, CallMade(t, h, f), Made(h, f)
    PROVE  Retracts'
<1>1. opener' = opener
  BY Zenon DEF Made
<1>2. /\ (opener # "refused" => todo[Opener] = <<>>)'
      /\ peer'.task = peer.task => (peer.task # "done" => todo[Task] = <<>>)'
  BY <1>1 DEF Retracts, CallMade, Thread
<1>3. CASE h = "swap"
  <2>1. /\ f = (IF peer.closed THEN <<>> ELSE Retraction)
        /\ PeerIs(TRUE, peer.pending, peer.gate, peer.task, peer.slot) /\ UNCHANGED <<engine, native, lookupVars>>
    BY <1>3, Zenon DEF Made
  <2>2. peer'.closed = TRUE /\ peer'.task = peer.task /\ peer'.slot = peer.slot
    BY <2>1 DEF PeerIs
  <2>3. UNCHANGED <<engine, native, contributions, retired>>
    BY <2>1 DEF lookupVars
  <2>4. \A x : Pend(x) /\ x # "swap" => Pend(x)'
    BY <1>3 DEF CallMade
  <2>5. (\A u \in Thread : RetireFirst(todo[u])) => \A u \in Thread : RetireFirst(todo'[u])
    BY <1>3 DEF CallMade
  <2>6. CASE peer.closed
    BY <1>1, <1>2, <2>2, <2>3, <2>4, <2>5, <2>6, Zenon DEF Retracts
  <2>7. CASE ~peer.closed
    <3>1. \A x \in {"retire", "removal", "inner", "abort"} : Pend(x)'
      BY <2>1, <2>7, Lists DEF CallMade
    <3>2. QED
      BY <1>1, <1>2, <2>2, <2>3, <2>4, <2>5, <3>1, Zenon DEF Retracts
  <2>8. QED
    BY <2>6, <2>7
<1>4. CASE h # "swap"
  <2>1. /\ peer'.closed = peer.closed
        /\ h # "abort" => peer'.task = peer.task /\ peer'.slot = peer.slot
    BY <1>4, PeerAfter
  <2>2. \A x \in {"clear", "retire", "removal"} : ~In(x, f)
    BY <1>4, Lists, Zenon DEF Made
  <2>3. \A x \in {"clear", "retire", "removal"} : Pend(x)' => peer'.closed
    BY <2>1, <2>2 DEF CallMade, Retracts
  <2>4. \A x : Pend(x) /\ x # h => Pend(x)'
    BY DEF CallMade
  <2>5. CASE h = "retire"
    <3>1. UNCHANGED <<peer, engine, native, contributions>> /\ Me \in retired'
      BY <2>5, Zenon DEF Made, RetireFlag
    <3>2. QED
      BY <1>1, <1>2, <2>1, <2>3, <2>4, <2>5, <3>1 DEF Retracts
  <2>6. h # "retire" => ((\A u \in Thread : RetireFirst(todo[u])) => \A u \in Thread : RetireFirst(todo'[u]))
    BY DEF CallMade
  <2>7. CASE h = "removal"
    <3>1. UNCHANGED <<peer, engine, native, retired>> /\ RetireRemoval(Me)
      BY <2>7, Zenon DEF Made, RetireRemoval
    <3>2. Me \in retired
      BY <2>7, Zenon DEF CallMade, Retracts
    <3>3. \A k \in DOMAIN contributions' : k[1] # Me
      <4>1. DOMAIN contributions' = DOMAIN contributions \ {k \in DOMAIN contributions : k[1] = Me}
        BY <3>1, Zenon DEF RetireRemoval, Without
      <4>2. QED
        BY <4>1
    <3>4. QED
      BY <1>1, <1>2, <2>1, <2>3, <2>4, <2>7, <3>1, <3>2, <3>3, Zenon DEF Retracts
  <2>8. CASE h = "inner"
    <3>1. /\ UNCHANGED <<peer, native, contributions, retired>> /\ engine'.terminal = TRUE
          /\ f = (IF engine.terminal THEN <<>> ELSE <<"request", "callbacks">>)
      BY <2>8 DEF Made, EngineIs, lookupVars
    <3>2. engine.terminal \/ Pend("request")'
      BY <3>1, Lists DEF CallMade
    <3>3. QED
      BY <1>1, <1>2, <2>1, <2>3, <2>4, <2>6, <2>8, <3>1, <3>2, Zenon DEF Retracts
  <2>9. CASE h = "request"
    <3>1. UNCHANGED <<peer, engine, contributions, retired>> /\ native'.closing = TRUE
      BY <2>9 DEF Made, NativeIs, lookupVars
    <3>2. QED
      BY <1>1, <1>2, <2>1, <2>3, <2>4, <2>6, <2>9, <3>1, Zenon DEF Retracts
  <2>10. CASE h = "abort"
    <3>1. /\ UNCHANGED <<engine, native, contributions, retired>> /\ peer'.slot = FALSE
          /\ peer'.task = (IF peer.slot /\ peer.task = "waiting" THEN "aborted" ELSE peer.task)
      BY <2>10 DEF Made, PeerIs, lookupVars
    <3>2. /\ (opener # "refused" => todo[Opener] = <<>>)'
          /\ (peer.task # "done" => todo[Task] = <<>>)'
      BY <1>1, <3>1 DEF Retracts, CallMade, Thread
    <3>3. peer'.task = "waiting" => opener' = "install"
      BY <1>1, <3>1, Zenon DEF Retracts, BrowseFields
    <3>4. (opener \in {"start", "spawn"} => peer.task = "none")'
      BY <1>1, <3>1, Zenon DEF Retracts
    <3>5. QED
      BY <1>1, <2>1, <2>3, <2>4, <2>6, <2>10, <3>1, <3>2, <3>3, <3>4, Zenon DEF Retracts
  <2>11. CASE h \in {"clear", "callbacks", "ungate"}
    <3>1. UNCHANGED <<native, contributions, retired>>
      BY <2>11, Zenon DEF Made, lookupVars
    <3>2. engine'.terminal = engine.terminal
      BY <2>11, PeerAfter
    <3>3. QED
      BY <1>1, <1>2, <2>1, <2>3, <2>4, <2>6, <2>11, <3>1, <3>2, Zenon DEF Retracts
  <2>12. QED
    BY <1>4, <2>5, <2>7, <2>8, <2>9, <2>10, <2>11, Zenon DEF Made
<1>5. QED
  BY <1>3, <1>4

\* A close step keeps what a wait_closed has established.
LEMMA CloseDrains ==
    ASSUME BrowseFields, Drains, NEW t, NEW h, NEW f, CallMade(t, h, f), Made(h, f)
    PROVE  Drains'
<1>1. phase' = phase /\ plan' = plan /\ Closer \subseteq Thread
  BY Zenon DEF Made, Thread
<1>2. \A c \in Closer : In("inner", todo[c]) /\ h # "inner" => In("inner", todo'[c])
  BY <1>1 DEF CallMade
<1>3. CASE h \in {"inner", "callbacks", "ungate"}
  <2>1. native' = native /\ \E e, c, g : EngineIs(e, c, g, engine.op) /\ e = (IF h = "inner" THEN TRUE ELSE engine.terminal)
    BY <1>3, Zenon DEF Made
  <2>2. PICK e, c, g : EngineIs(e, c, g, engine.op) /\ e = (IF h = "inner" THEN TRUE ELSE engine.terminal)
    BY <2>1, Zenon
  <2>3. engine'.op = engine.op /\ engine'.terminal = e
    BY <2>2 DEF EngineIs
  <2>4. (engine.terminal => engine'.terminal) /\ (h = "inner" => engine'.terminal)
    BY <2>2, <2>3
  <2>5. QED
    BY <1>1, <1>2, <2>1, <2>3, <2>4, Zenon DEF Drains
<1>4. CASE h = "request"
  <2>1. engine' = engine
    BY <1>4, Zenon DEF Made
  <2>2. PICK cmds, outcome :
               /\ cmds = (IF plan.kind = "mobile" /\ native.actor # "dead" THEN Append(native.cmds, "close")
                          ELSE native.cmds)
               /\ outcome = (IF plan.kind = "mobile" /\ native.actor = "dead" /\ native.outcome = "none" THEN "ok"
                             ELSE native.outcome)
               /\ NativeIs(native.network, native.script, native.ended, TRUE, cmds, native.actor,
                           native.buffered, outcome)
    BY <1>4, Zenon DEF Made
  <2>3. native'.cmds = cmds /\ native'.outcome = outcome /\ native'.actor = native.actor
    BY <2>2 DEF NativeIs
  <2>4. /\ cmds \in Seq({"next", "close"}) /\ (In("next", cmds) <=> In("next", native.cmds))
        /\ (\A i, j \in DOMAIN native.cmds : native.cmds[i] = "next" /\ native.cmds[j] = "next" => i = j)
             => \A i, j \in DOMAIN cmds : cmds[i] = "next" /\ cmds[j] = "next" => i = j
    <3>1. native.cmds \in Seq({"next", "close"})
      BY DEF Drains
    <3>2. CASE cmds = native.cmds
      BY <3>1, <3>2
    <3>3. CASE cmds = Append(native.cmds, "close")
      BY <3>1, <3>3 DEF In
    <3>4. QED
      BY <2>2, <3>2, <3>3, Zenon
  <2>5. /\ plan.kind # "mobile" => native.actor = "recv" /\ cmds = <<>>
        /\ plan.kind = "mobile" /\ outcome # "none" => native.actor = "dead"
        /\ native.outcome # "none" => outcome # "none"
    BY <2>2, Zenon DEF Drains
  <2>6. QED
    BY <1>1, <1>2, <1>4, <2>1, <2>3, <2>4, <2>5, Zenon DEF Drains
<1>5. CASE h \in {"swap", "clear", "retire", "removal", "abort"}
  <2>1. UNCHANGED <<engine, native>>
    BY <1>5, Zenon DEF Made
  <2>2. QED
    BY <1>1, <1>2, <1>5, <2>1, Zenon DEF Drains
<1>6. QED
  BY <1>3, <1>4, <1>5, Zenon DEF Made

\* The lookup is exact.
LookupInv == Contributes(contributions) /\ Exact(contributions, effective)

\* A close step keeps the lookup exact.
LEMMA CloseLookup ==
    ASSUME LookupInv, NEW h, NEW f, Made(h, f)
    PROVE  LookupInv'
<1>1. CASE h = "removal"
  <2>1. RetireRemoval(Me)
    BY <1>1, Zenon DEF Made
  <2>2. QED
    BY <2>1, RetirementSound DEF LookupInv
<1>2. CASE h # "removal"
  <2>1. contributions' = contributions /\ effective' = effective
    BY <1>2, Zenon DEF Made, lookupVars, RetireFlag
  <2>2. QED
    BY <2>1 DEF LookupInv, Contributes, Exact
<1>3. QED
  BY <1>1, <1>2

\* What this browse contributes is not disturbed.
SameMine == \A n \in Node :
    /\ OfSource(contributions', Me, n) = OfSource(contributions, Me, n)
    /\ source_effective_addrs(contributions', Me, n) = source_effective_addrs(contributions, Me, n)

\* A step of the other session does not change what this browse contributes.
LEMMA OthersSame ==
    ASSUME OthersKept(Other, contributions, contributions')
    PROVE  SameMine
<1>1. SUFFICES ASSUME NEW n \in Node
               PROVE  /\ OfSource(contributions', Me, n) = OfSource(contributions, Me, n)
                      /\ AddrsOf(contributions', OfSource(contributions', Me, n))
                           = AddrsOf(contributions, OfSource(contributions, Me, n))
  BY DEF SameMine, source_effective_addrs
<1>2. Me # Other
  BY DEF Me, Other
<1>3. \A k : k[1] = Me => (k \in DOMAIN contributions <=> k \in DOMAIN contributions')
                          /\ (k \in DOMAIN contributions => contributions[k] = contributions'[k])
  BY <1>2 DEF OthersKept
<1>4. OfSource(contributions', Me, n) = OfSource(contributions, Me, n)
  BY <1>3 DEF OfSource, OfNode
<1>5. \A k \in OfSource(contributions, Me, n) : contributions[k] = contributions'[k]
  BY <1>3 DEF OfSource, OfNode
<1>6. QED
  BY <1>4, <1>5 DEF AddrsOf

\* What is outstanding stays so while this browse contributes the same.
LEMMA OutstandingSame ==
    ASSUME view' = view, SameMine, NEW q, Outstanding(q)
    PROVE  Outstanding(q)'
<1>1. \A n \in Node : Snap(n)' = Snap(n)
  BY Zenon DEF SameMine, Snap, removal_snapshot
<1>2. \A n \in Node : Actual(n)' = Actual(n)
  BY Zenon DEF SameMine, Actual
<1>3. \A N : Seen(N) => Seen(N)'
  BY <1>2 DEF Seen
<1>4. QED
  BY <1>1, <1>3, Zenon DEF Outstanding

\* A close step keeps the caller's view while the browse is open.
LEMMA CloseViews ==
    ASSUME BrowseFields, Retracts, Views, NEW t, NEW h, NEW f, CallMade(t, h, f), Made(h, f)
    PROVE  Views'
<1>1. UNCHANGED <<phase, evs, view>>
  BY Zenon DEF Made
<1>2. peer'.gate = peer.gate
  <2>1. CASE peer' = peer
    BY <2>1
  <2>2. CASE \E c, q, k, s : PeerIs(c, q, peer.gate, k, s)
    BY <2>2 DEF PeerIs
  <2>3. QED
    BY <2>1, <2>2, Zenon DEF Made
<1>3. CASE peer'.closed
  BY <1>1, <1>2, <1>3 DEF Views
<1>4. CASE ~peer'.closed
  <2>1. h \notin {"swap", "clear", "retire", "removal"}
    <3>1. h # "swap"
      <4>1. h = "swap" => PeerIs(TRUE, peer.pending, peer.gate, peer.task, peer.slot)
        BY Zenon DEF Made
      <4>2. QED
        BY <1>4, <4>1 DEF PeerIs
    <3>2. peer'.closed = peer.closed
      BY <3>1, PeerAfter
    <3>3. Pend(h)
      BY Zenon DEF CallMade
    <3>4. QED
      BY <1>4, <3>1, <3>2, <3>3 DEF Retracts
  <2>2. contributions' = contributions
    BY <2>1, Zenon DEF Made, lookupVars
  <2>3. peer'.pending = peer.pending
    <3>1. CASE peer' = peer
      BY <3>1
    <3>2. CASE \E c, g, k, s : PeerIs(c, peer.pending, g, k, s)
      BY <3>2 DEF PeerIs
    <3>3. QED
      BY <2>1, <3>1, <3>2, Zenon DEF Made
  <2>4. ~peer.closed
    BY <1>4, <2>1, PeerAfter
  <2>5. SameMine
    BY <2>2 DEF SameMine
  <2>6. \A q : Outstanding(q) => Outstanding(q)'
    BY <1>1, <2>5, OutstandingSame
  <2>7. QED
    BY <1>1, <1>2, <2>3, <2>4, <2>6 DEF Views
<1>5. QED
  BY <1>3, <1>4

\* A step that makes no call and opens nothing keeps what a close owes.
LEMMA RetractsKept ==
    ASSUME Retracts, UNCHANGED <<todo, opener, contributions, retired>>, peer'.closed = peer.closed,
           peer'.task = peer.task, peer'.slot = peer.slot, engine'.terminal = engine.terminal,
           native'.closing = native.closing
    PROVE  Retracts'
  BY Zenon DEF Retracts, Pend

\* A step outside next_event keeps the caller's view.
LEMMA ViewsKept ==
    ASSUME Views, UNCHANGED <<phase, evs, view, contributions>>, peer'.closed = peer.closed,
           peer'.gate = peer.gate, peer'.pending = peer.pending
    PROVE  Views'
<1>1. SameMine
  BY DEF SameMine
<1>2. \A q : Outstanding(q) => Outstanding(q)'
  BY <1>1, OutstandingSame
<1>3. QED
  BY <1>2 DEF Views

\* A step that leaves the lookup alone keeps it exact.
LEMMA LookupKept ==
    ASSUME LookupInv, UNCHANGED <<contributions, effective>>
    PROVE  LookupInv'
  BY DEF LookupInv, Contributes, Exact

\* The native side answers or moves; op is the read in flight after it.
Answers(op, network, script, ended, cmds, actor, buffered, outcome) ==
    /\ EngineIs(engine.terminal, engine.callback, engine.gate, op)
    /\ NativeIs(network, script, ended, native.closing, cmds, actor, buffered, outcome)
    /\ NativeStep

\* No answer without a read in flight, and at most one read queued.
Orderly(op, cmds, actor, outcome) ==
    /\ op = engine.op \/ engine.op.st \in {"start", "recv", "sent"}
    /\ cmds \in Seq({"next", "close"})
    /\ plan.kind # "mobile" => actor = "recv" /\ cmds = <<>>
    /\ actor \in {"poll", "pause", "fail"} => op.st = "sent" /\ ~In("next", cmds)
    /\ In("next", cmds) => op.st = "sent"
    /\ \A i, j \in DOMAIN cmds : cmds[i] = "next" /\ cmds[j] = "next" => i = j
    /\ plan.kind = "mobile" /\ outcome # "none" => actor = "dead"
    /\ native.outcome # "none" => outcome # "none"

\* The inductive invariant of the peer browse.
BrowseInv == BrowseFields /\ LookupInv /\ Retracts /\ Drains /\ Views

\* An orderly answer of the native side keeps the invariant.
LEMMA AnswersKeep ==
    ASSUME BrowseInv, NEW op, NEW network, NEW script, NEW ended, NEW cmds, NEW actor, NEW buffered, NEW outcome,
           Answers(op, network, script, ended, cmds, actor, buffered, outcome),
           Orderly(op, cmds, actor, outcome)
    PROVE  BrowseInv'
<1>1. /\ UNCHANGED <<plan, opener, epClosed, peer, phase, rec, evs, view, todo, contributions, effective, retired>>
  BY DEF Answers, NativeStep, callerVars, lookupVars
<1>2. /\ engine'.terminal = engine.terminal /\ engine'.op = op
      /\ native'.closing = native.closing /\ native'.cmds = cmds /\ native'.actor = actor
      /\ native'.outcome = outcome
  BY DEF Answers, EngineIs, NativeIs
<1>3. BrowseFields'
  BY <1>1, Zenon DEF BrowseInv, BrowseFields, Answers, EngineIs, NativeIs
<1>4. LookupInv' /\ Retracts' /\ Views'
  BY <1>1, <1>2, LookupKept, RetractsKept, ViewsKept, Zenon DEF BrowseInv
<1>5. Drains'
  <2>1. \A c \in Closer : phase[c] \in {"native", "waited"} => op = NoOp
    BY DEF Orderly, BrowseInv, Drains, NoOp, Op
  <2>2. QED
    BY <1>1, <1>2, <2>1, Zenon DEF Orderly, BrowseInv, Drains
<1>6. QED
  BY <1>3, <1>4, <1>5 DEF BrowseInv

\* The desktop transport and the network keep the invariant.
LEMMA MdnsKeeps ==
    ASSUME BrowseInv, MdnsNext \/ MdnsRecv \/ MdnsDisconnected \/ DaemonStops \/ Announce
                      \/ \E how \in {"closed", "failed"} : NativeEnds(how)
    PROVE  BrowseInv'
<1>1. PICK op, network, script, ended :
           /\ Answers(op, network, script, ended, native.cmds, native.actor, native.buffered, native.outcome)
           /\ op = engine.op \/ (plan.kind = "mdns" /\ engine.op.st \in {"start", "recv"})
  <2>1. BrowseFields
    BY DEF BrowseInv
  <2>2. CASE MdnsNext
    <3>1. PICK op : op = (IF native.closing THEN Done("none") ELSE Op("recv", "none", NoRec))
      BY Zenon
    <3>2. Answers(op, native.network, native.script, native.ended, native.cmds, native.actor, native.buffered, native.outcome)
      BY <2>1, <2>2, <3>1 DEF MdnsNext, Answers, BrowseFields, EngineIs, NativeIs
    <3>3. QED
      BY <2>2, <3>2 DEF MdnsNext
  <2>3. CASE MdnsRecv
    <3>1. PICK op : engine' = [engine EXCEPT !.op = op]
      <4>1. engine = [engine EXCEPT !.op = engine.op]
        BY <2>1 DEF BrowseFields
      <4>2. QED
        BY <2>3, <4>1 DEF MdnsRecv, Reply
    <3>2. Answers(op, Tail(native.network), native.script, native.ended, native.cmds, native.actor, native.buffered, native.outcome)
      BY <2>1, <2>3, <3>1 DEF MdnsRecv, Answers, BrowseFields, EngineIs, NativeIs
    <3>3. QED
      BY <2>3, <3>2 DEF MdnsRecv
  <2>4. CASE MdnsDisconnected
    <3>1. Answers(Op("done", "none", NoRec), native.network, native.script, native.ended, native.cmds, native.actor, native.buffered, native.outcome)
      BY <2>1, <2>4 DEF MdnsDisconnected, Reply, Answers, BrowseFields, EngineIs, NativeIs
    <3>2. QED
      BY <2>4, <3>1 DEF MdnsDisconnected
  <2>5. CASE DaemonStops
    <3>1. Answers(engine.op, native.network, native.script, "closed", native.cmds, native.actor, native.buffered, native.outcome)
      BY <2>1, <2>5, Zenon DEF DaemonStops, Answers, BrowseFields, EngineIs, NativeIs
    <3>2. QED
      BY <3>1
  <2>6. CASE Announce
    <3>1. Answers(engine.op, Append(native.network, Head(native.script)), Tail(native.script), native.ended, native.cmds, native.actor, native.buffered, native.outcome)
      BY <2>1, <2>6, Zenon DEF Announce, Answers, BrowseFields, EngineIs, NativeIs
    <3>2. QED
      BY <3>1
  <2>7. CASE \E how \in {"closed", "failed"} : NativeEnds(how)
    <3>1. PICK how : NativeEnds(how)
      BY <2>7
    <3>2. Answers(engine.op, native.network, native.script, how, native.cmds, native.actor, native.buffered, native.outcome)
      BY <2>1, <3>1 DEF NativeEnds, Answers, BrowseFields, EngineIs, NativeIs
    <3>3. QED
      BY <3>2
  <2>8. QED
    BY <2>2, <2>3, <2>4, <2>5, <2>6, <2>7, Zenon
<1>2. Orderly(op, native.cmds, native.actor, native.outcome)
  <2>1. CASE op = engine.op
    BY <2>1, Zenon DEF Orderly, BrowseInv, Drains
  <2>2. CASE plan.kind = "mdns" /\ engine.op.st \in {"start", "recv"}
    BY <2>2, Lists, Zenon DEF Orderly, BrowseInv, Drains
  <2>3. QED
    BY <1>1, <2>1, <2>2
<1>3. QED
  BY <1>1, <1>2, AnswersKeep, Zenon

\* At most one read is queued.
OneRead(s) == \A i, j \in DOMAIN s : s[i] = "next" /\ s[j] = "next" => i = j

\* Taking a command from the actor's queue.
LEMMA AfterCommand ==
    ASSUME NEW s \in Seq({"next", "close"}), s # <<>>, OneRead(s)
    PROVE  /\ Tail(s) \in Seq({"next", "close"}) /\ OneRead(Tail(s))
           /\ In("next", Tail(s)) => In("next", s) /\ Head(s) # "next"
           /\ Head(s) = "next" => In("next", s)
<1>1. PICK r : r = Tail(s)
  BY Zenon
<1>2. /\ r \in Seq({"next", "close"}) /\ Len(r) = Len(s) - 1 /\ Len(s) \in Nat /\ Len(s) > 0 /\ Len(r) \in Nat
      /\ \A i \in 1..Len(r) : r[i] = s[i + 1]
  BY <1>1
<1>3. Head(s) = s[1] /\ DOMAIN s = 1..Len(s) /\ DOMAIN r = 1..Len(r)
  BY <1>2
<1>4. OneRead(r)
  <2>1. SUFFICES ASSUME NEW i \in 1..Len(r), NEW j \in 1..Len(r), r[i] = "next", r[j] = "next" PROVE i = j
    BY <1>3 DEF OneRead
  <2>2. i + 1 \in 1..Len(s) /\ j + 1 \in 1..Len(s) /\ s[i + 1] = "next" /\ s[j + 1] = "next"
    BY <1>2, <2>1
  <2>3. i + 1 = j + 1
    BY <1>3, <2>2 DEF OneRead
  <2>4. QED
    BY <2>3
<1>5. ASSUME In("next", r) PROVE In("next", s) /\ Head(s) # "next"
  <2>1. PICK i \in 1..Len(r) : r[i] = "next"
    BY <1>3, <1>5 DEF In
  <2>2. i + 1 \in 1..Len(s) /\ s[i + 1] = "next" /\ i + 1 # 1 /\ 1 \in 1..Len(s)
    BY <1>2, <2>1
  <2>3. QED
    BY <1>3, <2>2 DEF OneRead, In
<1>6. Head(s) = "next" => In("next", s)
  BY <1>2, <1>3 DEF In
<1>7. QED
  BY <1>1, <1>2, <1>4, <1>5, <1>6

\* The mobile transport and its actor keep the invariant.
LEMMA MobileKeeps ==
    ASSUME BrowseInv, MobileNext \/ BrowseActorCommand \/ ActorPoll \/ ActorPause
                      \/ \E result \in {"ok", "err"} : close_native_browse(result)
    PROVE  BrowseInv'
<1>1. BrowseFields /\ plan.kind = "mobile"
  BY DEF BrowseInv, MobileNext, BrowseActorCommand, ActorPoll, ActorPause, close_native_browse
<1>2. /\ native.cmds \in Seq({"next", "close"}) /\ OneRead(native.cmds)
      /\ native.actor \in {"poll", "pause", "fail"} => engine.op.st = "sent" /\ ~In("next", native.cmds)
      /\ In("next", native.cmds) => engine.op.st = "sent"
      /\ native.outcome # "none" => native.actor = "dead"
  BY <1>1, Zenon DEF BrowseInv, Drains, OneRead
<1>3. ASSUME NEW op, NEW network, NEW script, NEW ended, NEW cmds, NEW actor, NEW buffered, NEW outcome,
             Answers(op, network, script, ended, cmds, actor, buffered, outcome),
             op = engine.op \/ engine.op.st \in {"start", "sent"},
             cmds \in Seq({"next", "close"}), OneRead(cmds),
             actor \in {"poll", "pause", "fail"} => op.st = "sent" /\ ~In("next", cmds),
             In("next", cmds) => op.st = "sent",
             outcome # "none" => actor = "dead",
             native.outcome # "none" => outcome # "none"
      PROVE  BrowseInv'
  <2>1. Orderly(op, cmds, actor, outcome)
    BY <1>1, <1>3, Zenon DEF Orderly, OneRead
  <2>2. QED
    BY <1>3, <2>1, AnswersKeep, Zenon
<1>4. CASE MobileNext
  <2>1. engine.op.st = "start"
    BY <1>4 DEF MobileNext
  <2>2. ~In("next", native.cmds) /\ native.actor \notin {"poll", "pause", "fail"}
    BY <1>2, <2>1
  <2>3. CASE native.closing \/ native.actor = "dead"
    <3>1. Answers(Op("done", "none", NoRec), native.network, native.script, native.ended, native.cmds, native.actor, native.buffered, native.outcome)
      BY <1>1, <1>4, <2>3 DEF MobileNext, Reply, Answers, BrowseFields, EngineIs, NativeIs
    <3>2. QED
      BY <1>2, <1>3, <2>1, <2>2, <3>1, Zenon
  <2>4. CASE ~(native.closing \/ native.actor = "dead")
    <3>1. PICK op, cmds : op = Op("sent", "none", NoRec) /\ cmds = Append(native.cmds, "next")
      BY Zenon
    <3>2. Answers(op, native.network, native.script, native.ended, cmds, native.actor, native.buffered, native.outcome)
      BY <1>1, <1>4, <2>4, <3>1 DEF MobileNext, Answers, BrowseFields, EngineIs, NativeIs
    <3>3. op.st = "sent"
      BY <3>1 DEF Op
    <3>4. cmds \in Seq({"next", "close"}) /\ OneRead(cmds)
      BY <1>2, <2>2, <3>1 DEF OneRead, In
    <3>5. QED
      BY <1>2, <1>3, <2>1, <2>2, <3>2, <3>3, <3>4, Zenon
  <2>5. QED
    BY <2>3, <2>4
<1>5. CASE BrowseActorCommand
  <2>1. PICK cmds : cmds = Tail(native.cmds)
    BY Zenon
  <2>2. native.actor = "recv" /\ native.cmds # <<>>
    BY <1>5 DEF BrowseActorCommand
  <2>3. /\ cmds \in Seq({"next", "close"}) /\ OneRead(cmds)
        /\ In("next", cmds) => In("next", native.cmds) /\ Head(native.cmds) # "next"
        /\ Head(native.cmds) = "next" => In("next", native.cmds)
    BY <1>2, <2>1, <2>2, AfterCommand
  <2>4. CASE Head(native.cmds) = "next" /\ native.buffered # <<>>
    <3>1. Answers(Op("done", "record", Head(native.buffered)), native.network, native.script, native.ended, cmds, "recv", Tail(native.buffered), native.outcome)
      BY Zenon, <1>1, <1>5, <2>1, <2>2, <2>4
         DEF BrowseActorCommand, Reply, Answers, BrowseFields, EngineIs, NativeIs
    <3>2. QED
      BY <1>2, <1>3, <2>2, <2>3, <2>4, <3>1, Zenon
  <2>5. CASE ~(Head(native.cmds) = "next" /\ native.buffered # <<>>)
    <3>1. PICK actor : actor = (IF Head(native.cmds) = "next" THEN "poll" ELSE "stop")
      BY Zenon
    <3>2. Answers(engine.op, native.network, native.script, native.ended, cmds, actor, native.buffered, native.outcome)
      BY Zenon, <1>1, <1>5, <2>1, <2>5, <3>1
         DEF BrowseActorCommand, Answers, BrowseFields, EngineIs, NativeIs
    <3>3. QED
      BY <1>2, <1>3, <2>2, <2>3, <3>1, <3>2, Zenon
  <2>6. QED
    BY <2>4, <2>5
<1>6. CASE ActorPoll
  <2>1. native.actor = "poll"
    BY <1>6 DEF ActorPoll
  <2>2. CASE Reply("none", NoRec) /\ native' = [native EXCEPT !.outcome = "ok", !.actor = "dead"] /\ NativeStep
    <3>1. Answers(Op("done", "none", NoRec), native.network, native.script, native.ended, native.cmds, "dead", native.buffered, "ok")
      BY <1>1, <2>2, Zenon DEF Reply, Answers, BrowseFields, EngineIs, NativeIs
    <3>2. QED
      BY <1>2, <1>3, <2>1, <3>1, Zenon
  <2>3. CASE engine' = engine /\ native' = [[native EXCEPT !.network = <<>>] EXCEPT !.actor = "fail"] /\ NativeStep
    <3>1. Answers(engine.op, <<>>, native.script, native.ended, native.cmds, "fail", native.buffered, native.outcome)
      BY <1>1, <2>3, Zenon DEF Answers, BrowseFields, EngineIs, NativeIs
    <3>2. QED
      BY <1>2, <1>3, <2>1, <3>1, Zenon
  <2>4. CASE \E r, b : /\ Reply("record", r) /\ NativeStep
                       /\ native' = [[native EXCEPT !.network = <<>>] EXCEPT !.actor = "recv", !.buffered = b]
    <3>1. PICK r, b : /\ Reply("record", r) /\ NativeStep
                       /\ native' = [[native EXCEPT !.network = <<>>] EXCEPT !.actor = "recv", !.buffered = b]
      BY <2>4, Zenon
    <3>2. Answers(Op("done", "record", r), <<>>, native.script, native.ended, native.cmds, "recv", b, native.outcome)
      BY <1>1, <3>1, Zenon DEF Reply, Answers, BrowseFields, EngineIs, NativeIs
    <3>3. QED
      BY <1>2, <1>3, <2>1, <3>2, Zenon
  <2>5. CASE engine' = engine /\ native' = [native EXCEPT !.actor = "pause"] /\ NativeStep
    <3>1. Answers(engine.op, native.network, native.script, native.ended, native.cmds, "pause", native.buffered, native.outcome)
      BY <1>1, <2>5 DEF Answers, BrowseFields, EngineIs, NativeIs
    <3>2. QED
      BY <1>2, <1>3, <2>1, <3>1, Zenon
  <2>6. QED
    BY <1>6, <2>2, <2>3, <2>4, <2>5, Zenon DEF ActorPoll
<1>7. CASE ActorPause
  <2>1. native.actor = "pause"
    BY <1>7 DEF ActorPause
  <2>2. CASE native.cmds # <<>>
    <3>1. PICK cmds : cmds = Tail(native.cmds)
      BY Zenon
    <3>2. cmds \in Seq({"next", "close"}) /\ OneRead(cmds) /\ ~In("next", cmds)
      BY <1>2, <2>1, <2>2, <3>1, AfterCommand, Zenon
    <3>3. Answers(Op("done", "none", NoRec), native.network, native.script, native.ended, cmds, "stop", native.buffered, native.outcome)
      BY <1>1, <1>7, <2>2, <3>1, Zenon DEF ActorPause, Reply, Answers, BrowseFields, EngineIs, NativeIs
    <3>4. QED
      BY <1>2, <1>3, <2>1, <3>2, <3>3, Zenon
  <2>3. CASE native.cmds = <<>>
    <3>1. Answers(engine.op, native.network, native.script, native.ended, native.cmds, "poll", native.buffered, native.outcome)
      BY <1>1, <1>7, <2>3 DEF ActorPause, Answers, BrowseFields, EngineIs, NativeIs
    <3>2. QED
      BY <1>2, <1>3, <2>1, <3>1, Zenon
  <2>4. QED
    BY <2>2, <2>3
<1>8. CASE \E result \in {"ok", "err"} : close_native_browse(result)
  <2>1. PICK result \in {"ok", "err"} : close_native_browse(result)
    BY <1>8
  <2>2. PICK op, outcome : /\ op = (IF native.actor = "fail" THEN Op("done", "error", NoRec) ELSE engine.op)
                           /\ outcome = (IF native.outcome = "none" THEN result ELSE native.outcome)
    BY Zenon
  <2>3. Answers(op, native.network, native.script, native.ended, native.cmds, "dead", native.buffered, outcome)
    BY <1>1, <2>1, <2>2, Zenon DEF close_native_browse, Reply, Answers, BrowseFields, EngineIs, NativeIs
  <2>4. native.actor \in {"stop", "fail"} /\ (In("next", native.cmds) => op.st = "sent")
    BY <1>2, <2>1, <2>2 DEF close_native_browse
  <2>5. QED
    BY <1>2, <1>3, <2>1, <2>2, <2>3, <2>4, Zenon
<1>9. QED
  BY <1>4, <1>5, <1>6, <1>7, <1>8

\* A step that leaves callers and transport alone keeps what a wait has
\* established.
LEMMA DrainsKept ==
    ASSUME Drains, UNCHANGED <<phase, plan, native>>, engine'.terminal = engine.terminal,
           engine'.op = engine.op, \A c \in Closer : In("inner", todo[c]) => In("inner", todo'[c])
    PROVE  Drains'
  BY Zenon DEF Drains

\* A call that begins is none that retracts what the browse contributed.
LEMMA RetractsBegun ==
    ASSUME Retracts, NEW t, NEW f, CallsBegun(t, f),
           \A x \in {"clear", "retire", "removal"} : ~In(x, f),
           UNCHANGED <<contributions, retired, native>>,
           peer'.closed = peer.closed, engine'.terminal = engine.terminal,
           (opener # "refused" => todo[Opener] = <<>>)', (peer.task # "done" => todo[Task] = <<>>)',
           (opener \in {"start", "spawn"} => peer.task = "none")',
           (peer.task = "waiting" => opener = "install" \/ peer.slot)',
           peer'.task = "waiting" => peer.task = "waiting" /\ (opener = "install" => opener' = "install")
    PROVE  Retracts'
<1>1. /\ \A x : Pend(x) => Pend(x)'
      /\ \A x \in {"clear", "retire", "removal"} : Pend(x)' => Pend(x)
      /\ (\A u \in Thread : RetireFirst(todo[u])) => \A u \in Thread : RetireFirst(todo'[u])
  BY DEF CallsBegun
<1>2. QED
  BY <1>1, Zenon DEF Retracts

\* Opening a browse and the endpoint-close task keep the invariant.
LEMMA OpeningKeeps ==
    ASSUME BrowseInv, Open \/ SpawnTask \/ install_endpoint_task \/ BrowseRecheck \/ TaskRuns \/ BrowseEndpointCloses
    PROVE  BrowseInv'
<1>1. /\ Opener \in Thread /\ Task \in Thread /\ Opener # Task /\ Closer \subseteq Thread
      /\ \A c \in Closer : c # Opener /\ c # Task
  BY BrowseAssumption DEF Thread, Opener, Task
<1>2. /\ <<>> \in Seq(Call) /\ RetireFirst(<<>>) /\ <<"swap">> \in Seq(Call) /\ RetireFirst(<<"swap">>)
      /\ <<"inner">> \in Seq(Call) /\ RetireFirst(<<"inner">>)
      /\ \A x \in {"clear", "retire", "removal"} : ~In(x, <<>>) /\ ~In(x, <<"swap">>) /\ ~In(x, <<"inner">>)
  BY Lists
<1>3. BrowseFields /\ Retracts /\ Drains /\ Views /\ LookupInv
  BY DEF BrowseInv
<1>4. CASE Open
  <2>1. PICK f : f = (IF epClosed THEN <<"inner">> ELSE <<>>)
    BY Zenon
  <2>2. /\ opener = "start" /\ opener' = (IF epClosed THEN "refused" ELSE "spawn")
        /\ todo' = [todo EXCEPT ![Opener] = f]
        /\ EngineIs(engine.terminal, ~epClosed, engine.gate, engine.op)
        /\ UNCHANGED <<plan, peer, native, phase, rec, evs, view, contributions, effective, retired>>
    BY <1>3, <1>4, <2>1 DEF Open, Do, EngineIs, BrowseFields, callerVars, lookupVars
  <2>3. engine'.terminal = engine.terminal /\ engine'.op = engine.op
    BY <2>2 DEF EngineIs
  <2>4. todo[Opener] = <<>> /\ peer.task = "none"
    BY <1>3, <2>2, Zenon DEF Retracts
  <2>5. f \in Seq(Call) /\ RetireFirst(f) /\ \A x \in {"clear", "retire", "removal"} : ~In(x, f)
    BY <1>2, <2>1
  <2>6. CallsBegun(Opener, f)
    BY <1>1, <1>3, <2>2, <2>4, <2>5, BeginsCalls, Zenon
  <2>7. BrowseFields'
    BY <1>3, <2>2, <2>6, Zenon DEF BrowseFields, EngineIs, CallsBegun
  <2>8. todo'[Opener] = f /\ todo'[Task] = todo[Task] /\ \A c \in Closer : todo'[c] = todo[c]
    BY <1>1, <2>6 DEF CallsBegun
  <2>9. Retracts'
    <3>1. (opener # "refused" => todo[Opener] = <<>>)' /\ (peer.task # "done" => todo[Task] = <<>>)'
      BY <1>3, <2>1, <2>2, <2>8, Zenon DEF Retracts
    <3>2. (opener \in {"start", "spawn"} => peer.task = "none")' /\ peer'.task # "waiting"
      BY <2>2, <2>4
    <3>3. QED
      BY <1>3, <2>2, <2>3, <2>5, <2>6, <3>1, <3>2, RetractsBegun, Zenon
  <2>10. Drains' /\ Views' /\ LookupInv'
    BY <1>3, <2>2, <2>3, <2>8, DrainsKept, ViewsKept, LookupKept, Zenon
  <2>11. QED
    BY <2>7, <2>9, <2>10 DEF BrowseInv
<1>5. CASE BrowseRecheck
  <2>1. PICK f : f = (IF epClosed THEN <<"swap">> ELSE <<>>)
    BY Zenon
  <2>2. /\ opener = "recheck" /\ opener' = (IF epClosed THEN "refused" ELSE "open")
        /\ todo' = [todo EXCEPT ![Opener] = f]
        /\ UNCHANGED <<plan, peer, engine, native, phase, rec, evs, view, contributions, effective, retired>>
    BY <1>5, <2>1, Zenon DEF BrowseRecheck, Do, callerVars, lookupVars
  <2>4. todo[Opener] = <<>>
    BY <1>3, <2>2, Zenon DEF Retracts
  <2>5. f \in Seq(Call) /\ RetireFirst(f) /\ \A x \in {"clear", "retire", "removal"} : ~In(x, f)
    BY <1>2, <2>1
  <2>6. CallsBegun(Opener, f)
    BY <1>1, <1>3, <2>2, <2>4, <2>5, BeginsCalls, Zenon
  <2>7. BrowseFields'
    BY <1>3, <2>2, <2>6, Zenon DEF BrowseFields, CallsBegun
  <2>8. todo'[Opener] = f /\ todo'[Task] = todo[Task] /\ \A c \in Closer : todo'[c] = todo[c]
    BY <1>1, <2>6 DEF CallsBegun
  <2>9. Retracts'
    <3>1. (opener # "refused" => todo[Opener] = <<>>)' /\ (peer.task # "done" => todo[Task] = <<>>)'
      BY <1>3, <2>1, <2>2, <2>8, Zenon DEF Retracts
    <3>2. /\ (opener \in {"start", "spawn"} => peer.task = "none")'
          /\ (peer.task = "waiting" => opener = "install" \/ peer.slot)'
      BY <1>3, <2>2, Zenon DEF Retracts
    <3>3. QED
      BY <1>3, <2>2, <2>5, <2>6, <3>1, <3>2, RetractsBegun, Zenon
  <2>10. Drains' /\ Views' /\ LookupInv'
    BY <1>3, <2>2, <2>8, DrainsKept, ViewsKept, LookupKept, Zenon
  <2>11. QED
    BY <2>7, <2>9, <2>10 DEF BrowseInv
<1>6. CASE TaskRuns
  <2>2. /\ peer.task = "waiting" /\ todo' = [todo EXCEPT ![Task] = <<"swap">>]
        /\ PeerIs(peer.closed, peer.pending, peer.gate, "done", peer.slot)
        /\ UNCHANGED <<plan, opener, engine, native, phase, rec, evs, view, contributions, effective, retired>>
    BY <1>3, <1>6 DEF TaskRuns, Do, PeerIs, BrowseFields, callerVars, lookupVars
  <2>3. peer'.closed = peer.closed /\ peer'.task = "done" /\ peer'.gate = peer.gate /\ peer'.pending = peer.pending
    BY <1>3, <2>2, Zenon DEF PeerIs, BrowseFields
  <2>4. todo[Task] = <<>> /\ opener \notin {"start", "spawn"}
    BY <1>3, <2>2, Zenon DEF Retracts
  <2>6. CallsBegun(Task, <<"swap">>)
    BY <1>1, <1>2, <1>3, <2>2, <2>4, BeginsCalls, Zenon
  <2>7. BrowseFields'
    BY <1>3, <2>2, <2>6, Zenon DEF BrowseFields, PeerIs, CallsBegun
  <2>8. todo'[Opener] = todo[Opener] /\ \A c \in Closer : todo'[c] = todo[c]
    BY <1>1, <2>6 DEF CallsBegun
  <2>9. Retracts'
    <3>1. (opener # "refused" => todo[Opener] = <<>>)'
      BY <1>3, <2>2, <2>8, Zenon DEF Retracts
    <3>2. QED
      BY <1>2, <1>3, <2>2, <2>3, <2>4, <2>6, <3>1, RetractsBegun, Zenon
  <2>10. Drains' /\ Views' /\ LookupInv'
    BY <1>3, <2>2, <2>3, <2>8, DrainsKept, ViewsKept, LookupKept, Zenon
  <2>11. QED
    BY <2>7, <2>9, <2>10 DEF BrowseInv
<1>7. CASE SpawnTask \/ install_endpoint_task
  <2>1. PICK task, slot : /\ PeerIs(peer.closed, peer.pending, peer.gate, task, slot) /\ slot \in BOOLEAN
                          /\ \/ opener = "spawn" /\ opener' = "install" /\ task = "waiting"
                             \/ /\ opener = "install" /\ opener' = "recheck" /\ slot = ~peer.closed
                                /\ task = (IF peer.closed /\ peer.task = "waiting" THEN "aborted" ELSE peer.task)
    <3>1. CASE SpawnTask
      <4>1. PeerIs(peer.closed, peer.pending, peer.gate, "waiting", peer.slot) /\ peer.slot \in BOOLEAN
        BY <1>3, <3>1 DEF SpawnTask, PeerIs, BrowseFields
      <4>2. QED
        BY <3>1, <4>1 DEF SpawnTask
    <3>2. CASE install_endpoint_task
      <4>1. PICK task : task = (IF peer.closed /\ peer.task = "waiting" THEN "aborted" ELSE peer.task)
        BY Zenon
      <4>2. PeerIs(peer.closed, peer.pending, peer.gate, task, ~peer.closed) /\ (~peer.closed) \in BOOLEAN
        BY <1>3, <3>2, <4>1, Zenon DEF install_endpoint_task, PeerIs, BrowseFields
      <4>3. QED
        BY <3>2, <4>1, <4>2, Zenon DEF install_endpoint_task
    <3>3. QED
      BY <1>7, <3>1, <3>2, Zenon
  <2>2. UNCHANGED <<plan, engine, native, phase, rec, evs, view, todo, contributions, effective, retired>>
    BY <1>7 DEF SpawnTask, install_endpoint_task, callerVars, lookupVars
  <2>3. /\ peer'.closed = peer.closed /\ peer'.task = task /\ peer'.slot = slot
        /\ peer'.gate = peer.gate /\ peer'.pending = peer.pending
    BY <1>3, <2>1, Zenon DEF PeerIs, BrowseFields
  <2>4. BrowseFields'
    BY <1>3, <2>1, <2>2, Zenon DEF BrowseFields, PeerIs
  <2>5. Retracts'
    <3>1. \A x : Pend(x)' <=> Pend(x)
      BY <2>2 DEF Pend
    <3>2. QED
      BY <1>3, <2>1, <2>2, <2>3, <3>1, Zenon DEF Retracts
  <2>6. Drains' /\ Views' /\ LookupInv'
    BY <1>3, <2>2, <2>3, DrainsKept, ViewsKept, LookupKept, Zenon
  <2>7. QED
    BY <2>4, <2>5, <2>6 DEF BrowseInv
<1>8. CASE BrowseEndpointCloses
  <2>1. UNCHANGED <<plan, opener, peer, engine, native, phase, rec, evs, view, todo, contributions, effective, retired>>
    BY <1>8, Zenon DEF BrowseEndpointCloses, callerVars, lookupVars
  <2>2. BrowseFields'
    BY <1>3, <2>1, Zenon DEF BrowseFields
  <2>3. Retracts' /\ Drains' /\ Views' /\ LookupInv'
    BY <1>3, <2>1, RetractsKept, DrainsKept, ViewsKept, LookupKept
  <2>4. QED
    BY <2>2, <2>3 DEF BrowseInv
<1>9. QED
  BY <1>4, <1>5, <1>6, <1>7, <1>8

\* Another browse session changes the lookup, and nothing of what this one gave it.
LEMMA OtherKeeps ==
    ASSUME BrowseInv, OtherSession \/ OtherRetires
    PROVE  BrowseInv'
<1>1. UNCHANGED <<plan, opener, peer, engine, native, phase, rec, evs, view, todo>>
  BY Zenon DEF OtherSession, OtherRetires, callerVars
<1>2. Contributes(contributions) /\ Exact(contributions, effective) /\ Other # Me
  BY DEF BrowseInv, LookupInv, Other, Me
<1>3. LookupInv' /\ OthersKept(Other, contributions, contributions') /\ (Me \in retired <=> Me \in retired')
  <2>1. CASE Applied(upsert(Other, "other", OtherNode, {OtherAddr}))
    <3>1. PICK out : out = upsert(Other, "other", OtherNode, {OtherAddr})
      BY Zenon
    <3>2. Sound(Other, out)
      BY <1>2, <3>1, UpsertSound, Zenon
    <3>3. contributions' = out.contributions /\ effective' = out.effective /\ retired' = retired
      BY <2>1, <3>1 DEF Applied
    <3>4. QED
      BY <3>2, <3>3 DEF Sound, LookupInv
  <2>2. CASE RetireFlag(Other)
    <3>1. UNCHANGED <<contributions, effective>> /\ (Me \in retired <=> Me \in retired')
      BY <1>2, <2>2 DEF RetireFlag
    <3>2. OthersKept(Other, contributions, contributions')
      BY <3>1 DEF OthersKept
    <3>3. QED
      BY <3>1, <3>2, LookupKept DEF BrowseInv
  <2>3. CASE RetireRemoval(Other)
    <3>1. retired' = retired
      BY <2>3, Zenon DEF RetireRemoval
    <3>2. QED
      BY <1>2, <2>3, <3>1, RetirementSound, Zenon DEF LookupInv
  <2>4. QED
    BY <2>1, <2>2, <2>3, Zenon DEF OtherSession, OtherRetires
<1>4. (\A k \in DOMAIN contributions : k[1] # Me) => \A k \in DOMAIN contributions' : k[1] # Me
  BY <1>2, <1>3, Zenon DEF OthersKept
<1>5. BrowseFields'
  BY <1>1, Zenon DEF BrowseInv, BrowseFields
<1>6. Retracts'
  BY <1>1, <1>3, <1>4, Zenon DEF BrowseInv, Retracts, Pend
<1>7. Drains'
  BY <1>1, DrainsKept DEF BrowseInv
<1>8. Views'
  <2>1. \A q : Outstanding(q) => Outstanding(q)'
    BY <1>1, <1>3, OthersSame, OutstandingSame
  <2>2. QED
    BY <1>1, <2>1, Zenon DEF BrowseInv, Views
<1>9. QED
  BY <1>3, <1>5, <1>6, <1>7, <1>8 DEF BrowseInv

\* The threads that poll, close or wait.
Caller == Poller \cup Closer

\* A move changes the place of one caller.
LEMMA PhaseMoves ==
    ASSUME BrowseFields, NEW p \in Caller, NEW l, Moves(p, l)
    PROVE  /\ phase' = [q \in Poller \cup Closer |-> phase'[q]]
           /\ phase'[p] = l /\ \A q \in Caller : q # p => phase'[q] = phase[q]
  BY Zenon DEF BrowseFields, Moves, Caller

\* A caller that moves to a place outside wait_closed keeps what a wait has
\* established, also when it takes a read or, before the session is terminal,
\* starts one.
LEMMA DrainsMoved ==
    ASSUME BrowseFields, Drains, NEW p \in Caller, NEW l, Moves(p, l),
           l \notin {"drain", "operation", "native", "waited"}, UNCHANGED <<plan, native>>,
           engine'.terminal = engine.terminal,
           engine'.op = engine.op \/ (engine.op.st # "sent" /\ (engine'.op = NoOp \/ ~engine.terminal)),
           \A c \in Closer : In("inner", todo[c]) => In("inner", todo'[c])
    PROVE  Drains'
<1>1. \A c \in Closer : c # p => phase'[c] = phase[c]
  BY PhaseMoves DEF Caller
<1>2. phase'[p] = l
  BY PhaseMoves
<1>3. \A c \in Closer :
         /\ phase'[c] = "drain" => engine'.terminal \/ In("inner", todo'[c])
         /\ phase'[c] \in {"operation", "native", "waited"} => engine'.terminal
         /\ phase'[c] \in {"native", "waited"} => engine'.op = NoOp
         /\ phase'[c] = "waited" /\ plan.kind = "mobile" => native.outcome # "none"
  BY <1>1, <1>2, Zenon DEF Drains
<1>4. engine.op.st = "sent" => engine'.op = engine.op
  OBVIOUS
<1>5. QED
  BY <1>3, <1>4, Zenon DEF Drains

\* A caller that ends outside the gate, giving it back if it was its own, keeps
\* the view.
LEMMA ViewsOutside ==
    ASSUME BrowseFields, Views, NEW p \in Caller, NEW l, Moves(p, l), phase[p] # "publish", l \notin Gated,
           UNCHANGED <<evs, view, contributions>>, peer'.closed = peer.closed, peer'.pending = peer.pending,
           \/ peer'.gate = peer.gate /\ phase[p] \notin Gated
           \/ peer'.gate = (IF peer.gate = p THEN NoThread ELSE peer.gate)
    PROVE  Views'
<1>1. phase'[p] = l /\ \A q \in Caller : q # p => phase'[q] = phase[q]
  BY PhaseMoves
<1>2. \A q \in Caller : phase[q] \in Gated => peer.gate = q
  BY Zenon DEF Views, Caller
<1>3. \A q \in Caller : phase'[q] \in Gated => peer'.gate = q
  BY <1>1, <1>2, Zenon
<1>4. \A x \in Gated : (\E q \in Caller : phase'[q] = x) => \E q \in Caller : phase[q] = x
  BY <1>1, Zenon
<1>5. (\E q \in Caller : phase[q] = "publish") => \E q \in Caller : phase'[q] = "publish"
  BY <1>1, Zenon
<1>6. \A q : Outstanding(q) => Outstanding(q)'
  BY OutstandingSame, Zenon DEF SameMine
<1>7. "publish" \in Gated /\ \A x \in {"inner", "wait", "apply", "publish"} : x \in Gated
  BY DEF Gated
<1>8. (\E q \in Caller : phase'[q] = "publish") <=> evs' # <<>>
  BY <1>4, <1>5, <1>7, Zenon DEF Views, Caller
<1>9. (\E q \in Caller : phase'[q] \in {"inner", "wait", "apply", "publish"})
        => \E q \in Caller : phase[q] \in {"inner", "wait", "apply", "publish"}
  BY <1>4, <1>7
<1>10. QED
  BY <1>3, <1>6, <1>8, <1>9, Zenon DEF Views, Caller

\* A caller that moves inside the gate keeps the view.
LEMMA ViewsInside ==
    ASSUME BrowseFields, Views, NEW p \in Caller, NEW l, Moves(p, l), phase[p] \in Gated, phase[p] # "publish",
           l \in Gated, l # "publish", UNCHANGED <<evs, view, contributions>>, peer' = peer,
           l \in {"inner", "wait", "apply"} /\ ~peer.closed => peer.pending = <<>>
    PROVE  Views'
<1>1. phase'[p] = l /\ \A q \in Caller : q # p => phase'[q] = phase[q]
  BY PhaseMoves
<1>2. \A q \in Caller : phase[q] \in Gated => peer.gate = q
  BY Zenon DEF Views, Caller
<1>3. \A q \in Caller : phase'[q] \in Gated => peer'.gate = q
  BY <1>1, <1>2, Zenon
<1>4. (\E q \in Caller : phase[q] = "publish") <=> \E q \in Caller : phase'[q] = "publish"
  BY <1>1, Zenon
<1>5. \A q : Outstanding(q) => Outstanding(q)'
  BY OutstandingSame, Zenon DEF SameMine
<1>6. \A q \in Caller : phase'[q] \in {"inner", "wait", "apply", "publish"} /\ ~peer.closed => peer.pending = <<>>
  BY <1>1, Zenon DEF Views, Caller
<1>7. (\E q \in Caller : phase'[q] = "publish") <=> evs' # <<>>
  BY <1>4, Zenon DEF Views, Caller
<1>8. QED
  BY <1>3, <1>5, <1>6, <1>7, Zenon DEF Views, Caller

\* An event that is delivered is no longer outstanding.
LEMMA Delivered ==
    ASSUME NEW q, Outstanding(q), q # <<>>, Deliver(q), contributions' = contributions
    PROVE  Outstanding(Tail(q))' /\ <<>> \o Tail(q) = Tail(q)
<1>1. \A n \in Node : Snap(n)' = Snap(n) /\ Actual(n)' = Actual(n)
  BY Zenon DEF Snap, Actual
<1>2. \A n : Snap(n).node = n /\ [active |-> Snap(n).active, addrs |-> Snap(n).addrs] = Actual(n)
  BY Zenon DEF Snap, Actual, removal_snapshot
<1>3. ASSUME NEW n \in Node, NEW N, Seen(N), Head(q) = Snap(n) PROVE Seen(N \ {n})'
  <2>1. view = [m \in Node |-> view[m]] /\ \A m \in Node \ N : view[m] = Actual(m)
    BY <1>3 DEF Seen
  <2>2. view' = [view EXCEPT ![n] = Actual(n)]
    BY <1>2, <1>3, Zenon DEF Deliver
  <2>3. QED
    BY <1>1, <2>1, <2>2 DEF Seen
<1>4. CASE \E n \in Node : q = <<Snap(n)>> /\ Seen({n})
  <2>1. PICK n \in Node : q = <<Snap(n)>> /\ Seen({n})
    BY <1>4, Zenon
  <2>2. Head(q) = Snap(n) /\ Tail(q) = <<>> /\ <<>> \o <<>> = <<>>
    BY <2>1
  <2>3. Seen({n} \ {n})' /\ {n} \ {n} = {}
    BY <1>3, <2>1, <2>2
  <2>4. QED
    BY <2>2, <2>3, Zenon DEF Outstanding
<1>5. CASE \E n, o \in Node : n # o /\ q = <<Snap(o), Snap(n)>> /\ Seen({n, o})
  <2>1. PICK n \in Node, o \in Node : n # o /\ q = <<Snap(o), Snap(n)>> /\ Seen({n, o})
    BY <1>5, Zenon
  <2>2. PICK a, b : a = Snap(o) /\ b = Snap(n)
    BY Zenon
  <2>3. q = <<a, b>>
    BY <2>1, <2>2, Zenon
  <2>4. Head(q) = a /\ Tail(q) = <<b>> /\ <<>> \o <<b>> = <<b>>
    BY ONLY <2>3
  <2>5. Seen({n, o} \ {o})' /\ {n, o} \ {o} = {n}
    BY <1>3, <2>1, <2>2, <2>4, Zenon
  <2>6. Seen({n})'
    BY <2>5, Zenon
  <2>7. Tail(q) = <<Snap(n)'>>
    BY <1>1, <2>2, <2>4, Zenon
  <2>8. QED
    BY <2>4, <2>6, <2>7, Zenon DEF Outstanding
<1>6. QED
  BY <1>4, <1>5, Zenon DEF Outstanding

\* A step that moves p to l and changes at most the gates, the pending events and the read in flight.
MovesOnly(p, l, pending, gate, held, op) ==
    /\ Moves(p, l)
    /\ PeerIs(peer.closed, pending, gate, peer.task, peer.slot)
    /\ EngineIs(engine.terminal, engine.callback, held, op)
    /\ UNCHANGED <<plan, opener, native, contributions, effective, retired>>

\* What such a step does to each field.
LEMMA MovesFields ==
    ASSUME BrowseFields, NEW p \in Caller, NEW l, NEW pending, NEW gate, NEW held, NEW op,
           MovesOnly(p, l, pending, gate, held, op)
    PROVE  /\ peer'.closed = peer.closed /\ peer'.pending = pending /\ peer'.gate = gate
           /\ peer'.task = peer.task /\ peer'.slot = peer.slot
           /\ engine'.terminal = engine.terminal /\ engine'.op = op
           /\ (todo' = [t \in Thread |-> todo'[t]] /\ \A t \in Thread : todo'[t] \in Seq(Call)) => BrowseFields'
<1>1. phase' = [q \in Poller \cup Closer |-> phase'[q]]
  BY PhaseMoves, Zenon DEF MovesOnly
<1>2. /\ peer'.closed = peer.closed /\ peer'.pending = pending /\ peer'.gate = gate
      /\ peer'.task = peer.task /\ peer'.slot = peer.slot
      /\ engine'.terminal = engine.terminal /\ engine'.op = op
  BY Zenon DEF MovesOnly, PeerIs, EngineIs
<1>3. QED
  BY <1>1, <1>2, Zenon DEF BrowseFields, MovesOnly, PeerIs, EngineIs

\* Such a step keeps the invariant when it keeps the view and makes no call.
LEMMA MovesKeep ==
    ASSUME BrowseInv, NEW p \in Caller, NEW l, NEW pending, NEW gate, NEW held, NEW op,
           MovesOnly(p, l, pending, gate, held, op), todo' = todo,
           l \notin {"drain", "operation", "native", "waited"},
           op = engine.op \/ (engine.op.st # "sent" /\ (op = NoOp \/ ~engine.terminal)), Views'
    PROVE  BrowseInv'
<1>1. BrowseFields /\ Retracts /\ Drains /\ LookupInv
  BY Zenon DEF BrowseInv
<1>2. Moves(p, l) /\ UNCHANGED <<plan, opener, native, contributions, effective, retired>>
  BY Zenon DEF MovesOnly
<1>3. /\ peer'.closed = peer.closed /\ peer'.task = peer.task /\ peer'.slot = peer.slot
      /\ engine'.terminal = engine.terminal /\ engine'.op = op
      /\ (todo' = [t \in Thread |-> todo'[t]] /\ \A t \in Thread : todo'[t] \in Seq(Call)) => BrowseFields'
  BY <1>1, MovesFields, Zenon
<1>4. BrowseFields'
  BY <1>1, <1>3, Zenon DEF BrowseFields
<1>5. Drains'
  BY <1>1, <1>2, <1>3, DrainsMoved, Zenon
<1>6. Retracts' /\ LookupInv'
  BY <1>1, <1>2, <1>3, RetractsKept, LookupKept, Zenon
<1>7. QED
  BY <1>4, <1>5, <1>6, Zenon DEF BrowseInv

\* The calls a poller or a closer begins.
LEMMA BeginsKeep ==
    ASSUME BrowseInv, NEW p \in Caller, NEW l, NEW held, NEW op, NEW f,
           f \in {<<>>, <<"swap">>, <<"swap", "inner">>, <<"inner", "ungate", "swap">>},
           MovesOnly(p, l, peer.pending, peer.gate, held, op), todo[p] = <<>>, Do(p, f),
           l \notin {"operation", "native", "waited"},
           l = "drain" => f = <<"swap", "inner">> /\ op = engine.op,
           op = engine.op \/ (engine.op.st # "sent" /\ (op = NoOp \/ ~engine.terminal)), Views'
    PROVE  BrowseInv'
<1>1. BrowseFields /\ Retracts /\ Drains /\ LookupInv
  BY Zenon DEF BrowseInv
<1>2. Moves(p, l) /\ UNCHANGED <<plan, opener, native, contributions, effective, retired>>
  BY Zenon DEF MovesOnly
<1>3. /\ peer'.closed = peer.closed /\ peer'.task = peer.task /\ peer'.slot = peer.slot
      /\ engine'.terminal = engine.terminal /\ engine'.op = op
      /\ (todo' = [t \in Thread |-> todo'[t]] /\ \A t \in Thread : todo'[t] \in Seq(Call)) => BrowseFields'
  BY <1>1, MovesFields, Zenon
<1>4. /\ Caller \subseteq Thread /\ Opener \in Thread \ {p} /\ Task \in Thread \ {p} /\ Closer \subseteq Thread
  BY BrowseAssumption, Zenon DEF Thread, Caller
<1>5. /\ f \in Seq(Call) /\ RetireFirst(f) /\ \A x \in {"clear", "retire", "removal"} : ~In(x, f)
      /\ f = <<"swap", "inner">> => In("inner", f)
  BY Lists, Zenon
<1>6. CallsBegun(p, f)
  BY <1>1, <1>4, <1>5, BeginsCalls, Zenon DEF Do
<1>7. BrowseFields'
  BY <1>3, <1>6, Zenon DEF CallsBegun
<1>8. /\ todo'[Opener] = todo[Opener] /\ todo'[Task] = todo[Task] /\ todo'[p] = f
      /\ \A c \in Closer : In("inner", todo[c]) => In("inner", todo'[c])
  BY <1>4, <1>6, Zenon DEF CallsBegun
<1>9. Retracts'
  <2>1. (opener # "refused" => todo[Opener] = <<>>)' /\ (peer.task # "done" => todo[Task] = <<>>)'
    BY <1>1, <1>2, <1>3, <1>8, Zenon DEF Retracts
  <2>2. /\ (opener \in {"start", "spawn"} => peer.task = "none")'
        /\ (peer.task = "waiting" => opener = "install" \/ peer.slot)'
    BY <1>1, <1>2, <1>3, Zenon DEF Retracts
  <2>3. QED
    BY <1>1, <1>2, <1>3, <1>5, <1>6, <2>1, <2>2, RetractsBegun, Zenon
<1>10. Drains'
  <2>1. CASE l = "drain"
    <3>1. phase'[p] = l /\ \A c \in Closer : c # p => phase'[c] = phase[c]
      BY <1>1, <1>2, PhaseMoves, Zenon DEF Caller
    <3>2. In("inner", todo'[p])
      BY <1>5, <1>8, <2>1, Zenon
    <3>3. \A c \in Closer :
             /\ phase'[c] = "drain" => engine'.terminal \/ In("inner", todo'[c])
             /\ phase'[c] \in {"operation", "native", "waited"} => engine'.terminal
             /\ phase'[c] \in {"native", "waited"} => engine'.op = NoOp
             /\ phase'[c] = "waited" /\ plan.kind = "mobile" => native.outcome # "none"
      BY <1>1, <1>3, <1>8, <2>1, <3>1, <3>2, Zenon DEF Drains
    <3>4. engine'.op = engine.op /\ plan' = plan /\ native' = native
      BY <1>2, <1>3, <2>1, Zenon
    <3>5. QED
      BY <1>1, <3>3, <3>4, Zenon DEF Drains
  <2>2. CASE l # "drain"
    BY <1>1, <1>2, <1>3, <1>8, <2>2, DrainsMoved, Zenon
  <2>3. QED
    BY <2>1, <2>2, Zenon
<1>11. LookupInv'
  BY <1>1, <1>2, LookupKept, Zenon
<1>12. QED
  BY <1>7, <1>9, <1>10, <1>11, Zenon DEF BrowseInv

\* close, drop and wait_closed keep the invariant: a wait gets past the
\* operation only with none in flight, and past the transport only once that is
\* closed.
LEMMA CallersKeep ==
    ASSUME BrowseInv, NEW c \in Closer,
           close_browse(c) \/ wait_closed(c) \/ CloseReturns(c) \/ WaitTakesGate(c) \/ WaitDrains(c) \/ WaitReturns(c)
    PROVE  BrowseInv'
<1>1. BrowseFields /\ Retracts /\ Drains /\ LookupInv /\ Views /\ c \in Caller
  BY DEF BrowseInv, Caller
<1>2. PICK l, held, op :
        /\ MovesOnly(c, l, peer.pending, peer.gate, held, op) /\ UNCHANGED <<peer, evs, view>>
        /\ todo[c] = <<>> /\ phase[c] \notin Gated /\ l \notin Gated
        /\ \/ l = "closing" /\ op = engine.op /\ Do(c, <<"swap">>)
           \/ l = "drain" /\ op = engine.op /\ Do(c, <<"swap", "inner">>)
           \/ l = "closed" /\ op = engine.op /\ todo' = todo
           \/ l = "operation" /\ phase[c] = "drain" /\ op = engine.op /\ todo' = todo
           \/ l = "native" /\ phase[c] = "operation" /\ engine.op.st # "sent" /\ op = NoOp /\ todo' = todo
           \/ l = "waited" /\ phase[c] = "native" /\ op = engine.op /\ todo' = todo
                /\ (plan.kind = "mobile" => native.outcome # "none")
  <2>1. CASE close_browse(c)
    <3>1. MovesOnly(c, "closing", peer.pending, peer.gate, engine.gate, engine.op)
      BY <1>1, <2>1, Zenon DEF close_browse, MovesOnly, BrowseFields, PeerIs, EngineIs, lookupVars
    <3>2. QED
      BY <2>1, <3>1, Zenon DEF close_browse, At, Gated
  <2>2. CASE wait_closed(c)
    <3>1. MovesOnly(c, "drain", peer.pending, peer.gate, engine.gate, engine.op)
      BY <1>1, <2>2, Zenon DEF wait_closed, MovesOnly, BrowseFields, PeerIs, EngineIs, lookupVars
    <3>2. QED
      BY <2>2, <3>1, Zenon DEF wait_closed, At, Gated
  <2>3. CASE CloseReturns(c)
    <3>1. MovesOnly(c, "closed", peer.pending, peer.gate, engine.gate, engine.op)
      BY <1>1, <2>3, Zenon DEF CloseReturns, MovesOnly, BrowseFields, PeerIs, EngineIs, lookupVars
    <3>2. QED
      BY <2>3, <3>1, Zenon DEF CloseReturns, At, Gated
  <2>4. CASE WaitTakesGate(c)
    <3>1. MovesOnly(c, "operation", peer.pending, peer.gate, c, engine.op)
      BY <1>1, <2>4 DEF WaitTakesGate, MovesOnly, BrowseFields, PeerIs, EngineIs, lookupVars
    <3>2. QED
      BY <2>4, <3>1 DEF WaitTakesGate, At, Gated
  <2>5. CASE WaitDrains(c)
    <3>1. MovesOnly(c, "native", peer.pending, peer.gate, engine.gate, NoOp)
      BY <1>1, <2>5 DEF WaitDrains, MovesOnly, BrowseFields, PeerIs, EngineIs, lookupVars
    <3>2. engine.op.st # "sent"
      BY <2>5 DEF WaitDrains
    <3>3. QED
      BY <2>5, <3>1, <3>2 DEF WaitDrains, At, Gated
  <2>6. CASE WaitReturns(c)
    <3>1. MovesOnly(c, "waited", peer.pending, peer.gate, NoThread, engine.op)
      BY <1>1, <2>6 DEF WaitReturns, MovesOnly, BrowseFields, PeerIs, EngineIs, lookupVars
    <3>2. QED
      BY <2>6, <3>1 DEF WaitReturns, At, Gated
  <2>7. QED
    BY <2>1, <2>2, <2>3, <2>4, <2>5, <2>6, Zenon
<1>3. Moves(c, l) /\ UNCHANGED <<plan, opener, native, contributions, effective, retired>>
  BY <1>2, Zenon DEF MovesOnly
<1>4. /\ peer'.closed = peer.closed /\ peer'.task = peer.task /\ peer'.slot = peer.slot
      /\ engine'.terminal = engine.terminal /\ engine'.op = op
      /\ (todo' = [t \in Thread |-> todo'[t]] /\ \A t \in Thread : todo'[t] \in Seq(Call)) => BrowseFields'
  BY <1>1, <1>2, MovesFields
<1>5. Views'
  <2>1. phase[c] # "publish" /\ peer'.gate = peer.gate /\ peer'.pending = peer.pending
    BY <1>2, Zenon DEF Gated
  <2>2. QED
    BY <1>1, <1>2, <1>3, <1>4, <2>1, ViewsOutside, Zenon
<1>6. CASE l \in {"closing", "drain"}
  <2>1. CASE l = "closing"
    <3>1. Do(c, <<"swap">>) /\ op = engine.op
      BY <1>2, <2>1, Zenon
    <3>2. QED
      BY <1>1, <1>2, <1>5, <2>1, <3>1, BeginsKeep, Zenon
  <2>2. CASE l = "drain"
    <3>1. Do(c, <<"swap", "inner">>) /\ op = engine.op
      BY <1>2, <2>2, Zenon
    <3>2. QED
      BY <1>1, <1>2, <1>5, <2>2, <3>1, BeginsKeep, Zenon
  <2>3. QED
    BY <1>6, <2>1, <2>2
<1>7. CASE l = "closed"
  BY <1>1, <1>2, <1>5, <1>7, MovesKeep, Zenon
<1>8. CASE l \in {"operation", "native", "waited"}
  <2>1. todo' = todo
    BY <1>2, <1>8, Zenon
  <2>2. BrowseFields' /\ Retracts' /\ LookupInv'
    BY <1>1, <1>3, <1>4, <2>1, RetractsKept, LookupKept, Zenon DEF BrowseFields
  <2>3. phase'[c] = l /\ \A d \in Closer : d # c => phase'[d] = phase[d]
    BY <1>1, <1>3, PhaseMoves, Zenon DEF Caller
  <2>4. engine.terminal
    <3>1. CASE phase[c] = "drain"
      BY <1>1, <1>2, <3>1, Lists, Zenon DEF Drains
    <3>2. QED
      BY <1>1, <1>2, <1>8, <3>1, Zenon DEF Drains
  <2>5. /\ l \in {"native", "waited"} => op = NoOp
        /\ op = engine.op \/ (engine.op.st # "sent" /\ op = NoOp)
        /\ l = "waited" /\ plan.kind = "mobile" => native.outcome # "none"
    BY <1>1, <1>2, <1>8, Zenon DEF Drains
  <2>6. \A d \in Closer :
             /\ phase'[d] = "drain" => engine'.terminal \/ In("inner", todo'[d])
             /\ phase'[d] \in {"operation", "native", "waited"} => engine'.terminal
             /\ phase'[d] \in {"native", "waited"} => engine'.op = NoOp
             /\ phase'[d] = "waited" /\ plan.kind = "mobile" => native.outcome # "none"
    BY <1>1, <1>4, <1>8, <2>1, <2>3, <2>4, <2>5, Zenon DEF Drains
  <2>7. engine.op.st = "sent" => engine'.op = engine.op
    BY <1>4, <2>5
  <2>8. Drains'
    BY <1>1, <1>3, <2>6, <2>7, Zenon DEF Drains
  <2>9. QED
    BY <1>5, <2>2, <2>8 DEF BrowseInv
<1>9. QED
  BY <1>2, <1>6, <1>7, <1>8, Zenon

\* Nobody else is inside the gate that p holds.
LEMMA OnlyHolder ==
    ASSUME Views, NEW p \in Caller, phase[p] \in Gated
    PROVE  peer.gate = p /\ \A q \in Caller : q # p => phase[q] \notin Gated
  BY DEF Views, Caller

\* Entering, leaving and dropping a poll keep the invariant.
LEMMA GateKeeps ==
    ASSUME BrowseInv, NEW p \in Poller, PollBegin(p) \/ TakeGate(p) \/ PollEnds(p) \/ PollDropped(p)
    PROVE  BrowseInv'
<1>1. BrowseFields /\ Retracts /\ Drains /\ LookupInv /\ Views /\ p \in Caller
  BY DEF BrowseInv, Caller
<1>2. CASE PollBegin(p)
  <2>1. /\ MovesOnly(p, "gate", peer.pending, peer.gate, engine.gate, engine.op) /\ todo' = todo
        /\ UNCHANGED <<evs, view, contributions, peer>> /\ phase[p] = "idle" /\ Moves(p, "gate")
    BY <1>1, <1>2, Zenon DEF PollBegin, At, MovesOnly, BrowseFields, PeerIs, EngineIs, lookupVars
  <2>2. Views'
    <3>1. phase[p] \notin Gated /\ "gate" \notin Gated /\ phase[p] # "publish"
      BY <2>1 DEF Gated
    <3>2. QED
      BY <1>1, <2>1, <3>1, ViewsOutside, Zenon
  <2>3. QED
    BY <1>1, <2>1, <2>2, MovesKeep
<1>3. CASE TakeGate(p)
  <2>1. /\ MovesOnly(p, "head", peer.pending, p, engine.gate, engine.op) /\ todo' = todo
        /\ UNCHANGED <<evs, view, contributions>> /\ phase[p] = "gate" /\ Moves(p, "head")
        /\ peer.gate = NoThread
    BY <1>1, <1>3, Zenon DEF TakeGate, At, MovesOnly, BrowseFields, PeerIs, EngineIs, lookupVars
  <2>2. peer'.closed = peer.closed /\ peer'.pending = peer.pending /\ peer'.gate = p
    BY <1>1, <2>1, MovesFields
  <2>3. Views'
    <3>1. \A q \in Caller : phase[q] \notin Gated
      BY <1>1, <2>1, BrowseAssumption, Zenon DEF Views, Caller
    <3>2. phase'[p] = "head" /\ \A q \in Caller : q # p => phase'[q] = phase[q]
      BY <1>1, <2>1, PhaseMoves
    <3>3. \A q \in Caller : phase'[q] \in Gated => q = p
      BY <3>1, <3>2, Zenon
    <3>4. /\ \A q \in Caller : phase'[q] \notin {"inner", "wait", "apply", "publish"}
          /\ \A q \in Caller : phase[q] # "publish"
      BY <3>1, <3>2, Zenon DEF Gated
    <3>5. evs' = <<>>
      BY <1>1, <2>1, <3>4, Zenon DEF Views, Caller
    <3>6. \A q : Outstanding(q) => Outstanding(q)'
      BY <2>1, OutstandingSame, Zenon DEF SameMine
    <3>7. QED
      BY <1>1, <2>1, <2>2, <3>3, <3>4, <3>5, <3>6, Zenon DEF Views, Caller
  <2>4. QED
    BY <1>1, <2>1, <2>3, MovesKeep
<1>4. CASE PollEnds(p)
  <2>1. /\ MovesOnly(p, "over", peer.pending, NoThread, engine.gate, engine.op) /\ todo' = todo
        /\ UNCHANGED <<evs, view, contributions>> /\ phase[p] = "ending" /\ Moves(p, "over")
    BY <1>1, <1>4, Zenon DEF PollEnds, At, MovesOnly, BrowseFields, PeerIs, EngineIs, lookupVars
  <2>2. peer'.closed = peer.closed /\ peer'.pending = peer.pending /\ peer'.gate = NoThread
    BY <1>1, <2>1, MovesFields, Zenon
  <2>3. Views'
    <3>1. phase[p] \in Gated /\ "over" \notin Gated /\ phase[p] # "publish"
      BY <2>1 DEF Gated
    <3>2. peer.gate = p
      BY <1>1, <3>1, OnlyHolder, Zenon
    <3>3. QED
      BY <1>1, <2>1, <2>2, <3>1, <3>2, ViewsOutside, Zenon
  <2>4. QED
    BY <1>1, <2>1, <2>3, MovesKeep
<1>5. CASE PollDropped(p)
  <2>1. PICK g, h : g = (IF peer.gate = p THEN NoThread ELSE peer.gate)
                    /\ h = (IF engine.gate = p THEN NoThread ELSE engine.gate)
    BY Zenon
  <2>2. /\ MovesOnly(p, "idle", peer.pending, g, h, engine.op) /\ todo' = todo
        /\ UNCHANGED <<evs, view, contributions>> /\ phase[p] \in {"gate", "inner", "wait"} /\ Moves(p, "idle")
    BY <1>1, <1>5, <2>1, Zenon DEF PollDropped, MovesOnly, BrowseFields, PeerIs, EngineIs, lookupVars
  <2>3. peer'.closed = peer.closed /\ peer'.pending = peer.pending /\ peer'.gate = g
    BY <1>1, <2>2, MovesFields, Zenon
  <2>4. Views'
    <3>1. "idle" \notin Gated /\ phase[p] # "publish"
      BY <2>2 DEF Gated
    <3>2. QED
      BY <1>1, <2>1, <2>2, <2>3, <3>1, ViewsOutside, Zenon
  <2>5. QED
    BY <1>1, <2>2, <2>4, MovesKeep
<1>6. QED
  BY <1>2, <1>3, <1>4, <1>5

\* The engine's next(), from its gate to its answer, keeps the invariant.
LEMMA EngineKeeps ==
    ASSUME BrowseInv, NEW p \in Poller, EngineNext(p) \/ EngineReturns(p)
    PROVE  BrowseInv'
<1>1. BrowseFields /\ Retracts /\ Drains /\ LookupInv /\ Views /\ p \in Caller
  BY DEF BrowseInv, Caller
<1>2. PICK l, held, op, f :
        /\ MovesOnly(p, l, peer.pending, peer.gate, held, op) /\ UNCHANGED <<peer, evs, view>>
        /\ todo[p] = <<>> /\ phase[p] \in {"inner", "wait"} /\ l \in {"ending", "wait", "apply"}
        /\ f \in {<<>>, <<"swap">>, <<"inner", "ungate", "swap">>} /\ todo' = [todo EXCEPT ![p] = f]
        /\ op = engine.op \/ (engine.op.st # "sent" /\ (op = NoOp \/ ~engine.terminal))
  <2>1. CASE EngineNext(p) /\ engine.terminal
    <3>1. MovesOnly(p, "ending", peer.pending, peer.gate, engine.gate, engine.op)
      BY <1>1, <2>1 DEF EngineNext, MovesOnly, BrowseFields, PeerIs, EngineIs, lookupVars
    <3>2. QED
      BY <2>1, <3>1 DEF EngineNext, At, Do
  <2>2. CASE EngineNext(p) /\ ~engine.terminal
    <3>1. PICK op : op = (IF engine.op = NoOp THEN Op("start", "none", NoRec) ELSE engine.op)
      BY Zenon
    <3>2. MovesOnly(p, "wait", peer.pending, peer.gate, p, op)
      BY <1>1, <2>2, <3>1, Zenon DEF EngineNext, MovesOnly, BrowseFields, PeerIs, EngineIs, lookupVars
    <3>3. op = engine.op \/ engine.op.st # "sent"
      BY <3>1 DEF NoOp, Op
    <3>4. p \in Thread
      BY DEF Thread
    <3>5. todo[p] = <<>> /\ todo' = todo /\ phase[p] = "inner" /\ UNCHANGED <<peer, evs, view>>
      BY <2>2 DEF EngineNext, At
    <3>6. todo' = [todo EXCEPT ![p] = <<>>]
      BY <1>1, <3>4, <3>5, Zenon DEF BrowseFields
    <3>7. QED
      BY <2>2, <3>2, <3>3, <3>5, <3>6, Zenon
  <2>3. CASE EngineReturns(p)
    <3>1. PICK over, got : over = engine.terminal /\ got = (~engine.terminal /\ engine.op.tag = "record")
      BY Zenon
    <3>2. PICK l, h, f : /\ l = (IF got THEN "apply" ELSE "ending")
                         /\ h = (IF over \/ got THEN NoThread ELSE p)
                         /\ f = (IF got THEN <<>> ELSE IF over THEN <<"swap">> ELSE <<"inner", "ungate", "swap">>)
      BY Zenon
    <3>3. /\ engine' = [engine EXCEPT !.op = NoOp, !.gate = h] /\ Moves(p, l) /\ todo' = [todo EXCEPT ![p] = f]
          /\ phase[p] = "wait" /\ todo[p] = <<>> /\ engine.op.st = "done"
          /\ UNCHANGED <<plan, opener, peer, native, evs, view, contributions, effective, retired>>
      BY <2>3, <3>1, <3>2, Zenon DEF EngineReturns, At, Do, lookupVars
    <3>4. MovesOnly(p, l, peer.pending, peer.gate, h, NoOp)
      BY <1>1, <3>3, Zenon DEF MovesOnly, BrowseFields, PeerIs, EngineIs
    <3>5. l \in {"ending", "apply"} /\ f \in {<<>>, <<"swap">>, <<"inner", "ungate", "swap">>}
      BY <3>2
    <3>6. QED
      BY <3>3, <3>4, <3>5, Zenon
  <2>4. QED
    BY <2>1, <2>2, <2>3, Zenon
<1>3. Views'
  <2>1. ~peer.closed => peer.pending = <<>>
    BY <1>1, <1>2, Zenon DEF Views, Caller
  <2>2. phase[p] \in Gated /\ l \in Gated /\ phase[p] # "publish" /\ l # "publish"
    BY <1>2, Zenon DEF Gated
  <2>3. Moves(p, l) /\ contributions' = contributions
    BY <1>2, Zenon DEF MovesOnly
  <2>4. QED
    BY <1>1, <1>2, <2>1, <2>2, <2>3, ViewsInside, Zenon
<1>4. QED
  BY <1>1, <1>2, <1>3, BeginsKeep, Zenon DEF Do

\* The head of the poll loop keeps the invariant: a pending event is delivered
\* in order.
LEMMA LoopKeeps ==
    ASSUME BrowseInv, NEW p \in Poller, LoopHead(p)
    PROVE  BrowseInv'
<1>1. BrowseFields /\ Retracts /\ Drains /\ LookupInv /\ Views /\ p \in Caller
  BY DEF BrowseInv, Caller
<1>2. phase[p] = "head" /\ todo' = todo /\ UNCHANGED <<evs, contributions>>
  BY DEF LoopHead, At, lookupVars
<1>3. phase[p] \in Gated /\ phase[p] # "publish" /\ "over" \notin Gated /\ "idle" \notin Gated /\ "inner" \in Gated
  BY <1>2 DEF Gated
<1>4. peer.gate = p /\ \A q \in Caller : q # p => phase[q] \notin Gated
  BY <1>1, <1>3, OnlyHolder, Zenon
<1>5. CASE peer.closed
  <2>1. /\ MovesOnly(p, "over", peer.pending, NoThread, engine.gate, engine.op) /\ Moves(p, "over") /\ view' = view
    BY <1>1, <1>5 DEF LoopHead, MovesOnly, BrowseFields, PeerIs, EngineIs, lookupVars
  <2>2. peer'.closed = peer.closed /\ peer'.pending = peer.pending /\ peer'.gate = NoThread
    BY <1>1, <2>1, MovesFields, Zenon
  <2>3. Views'
    BY <1>1, <1>2, <1>3, <1>4, <2>1, <2>2, ViewsOutside, Zenon
  <2>4. QED
    BY <1>1, <1>2, <2>1, <2>3, MovesKeep
<1>6. CASE ~peer.closed /\ peer.pending # <<>>
  <2>1. /\ MovesOnly(p, "idle", Tail(peer.pending), NoThread, engine.gate, engine.op) /\ Moves(p, "idle")
        /\ Deliver(peer.pending)
    BY <1>1, <1>6, Zenon DEF LoopHead, MovesOnly, BrowseFields, PeerIs, EngineIs, lookupVars
  <2>2. peer'.closed = peer.closed /\ peer'.pending = Tail(peer.pending)
    BY <1>1, <2>1, MovesFields, Zenon
  <2>3. Outstanding(peer.pending) /\ evs = <<>>
    BY <1>1, <1>6, Zenon DEF Views
  <2>4. Views'
    <3>1. phase'[p] = "idle" /\ \A q \in Caller : q # p => phase'[q] = phase[q]
      BY <1>1, <2>1, PhaseMoves
    <3>2. \A q \in Caller : phase'[q] \notin Gated
      BY <1>3, <1>4, <3>1, Zenon
    <3>3. \A q \in Caller : phase'[q] \notin {"inner", "wait", "apply", "publish"}
      BY <3>2 DEF Gated
    <3>4. PICK t : t = Tail(peer.pending) /\ Outstanding(t)'
      <4>1. PICK q, t : q = peer.pending /\ t = Tail(q)
        BY Zenon
      <4>2. Outstanding(q) /\ Deliver(q) /\ q # <<>>
        BY <1>6, <2>1, <2>3, <4>1, Zenon
      <4>3. Outstanding(Tail(q))'
        BY <1>2, <4>2, Delivered, Zenon
      <4>4. QED
        BY <4>1, <4>3, Zenon
    <3>5. peer'.pending = t /\ evs' = <<>>
      BY <1>2, <2>2, <2>3, <3>4, Zenon
    <3>6. Outstanding(peer.pending)'
      BY <3>4, <3>5, Zenon
    <3>7. QED
      BY <3>2, <3>3, <3>5, <3>6, Zenon DEF Views, Caller
  <2>5. QED
    BY <1>1, <1>2, <2>1, <2>4, MovesKeep
<1>7. CASE ~peer.closed /\ peer.pending = <<>>
  <2>1. /\ MovesOnly(p, "inner", peer.pending, peer.gate, engine.gate, engine.op) /\ Moves(p, "inner")
        /\ view' = view /\ peer' = peer
    BY <1>1, <1>7 DEF LoopHead, MovesOnly, BrowseFields, PeerIs, EngineIs, lookupVars
  <2>2. Views'
    BY <1>1, <1>2, <1>3, <1>7, <2>1, ViewsInside, Zenon
  <2>3. QED
    BY <1>1, <1>2, <2>1, <2>2, MovesKeep
<1>8. QED
  BY <1>1, <1>5, <1>6, <1>7, Zenon DEF BrowseFields

\* Publishing the events of a record keeps the invariant: the first is
\* delivered, the rest become pending.
LEMMA PublishKeeps ==
    ASSUME BrowseInv, NEW p \in Poller, PublishEvents(p)
    PROVE  BrowseInv'
<1>1. BrowseFields /\ Retracts /\ Drains /\ LookupInv /\ Views /\ p \in Caller
  BY DEF BrowseInv, Caller
<1>2. phase[p] = "publish" /\ todo' = todo /\ contributions' = contributions /\ evs' = <<>>
  BY DEF PublishEvents, At, lookupVars
<1>3. phase[p] \in Gated /\ "over" \notin Gated /\ "idle" \notin Gated
  BY <1>2 DEF Gated
<1>4. peer.gate = p /\ \A q \in Caller : q # p => phase[q] \notin Gated
  BY <1>1, <1>3, OnlyHolder, Zenon
<1>5. PICK l, pending :
        /\ l = (IF peer.closed THEN "over" ELSE "idle")
        /\ pending = (IF peer.closed THEN peer.pending ELSE peer.pending \o Tail(evs))
  BY Zenon
<1>6. MovesOnly(p, l, pending, NoThread, engine.gate, engine.op) /\ Moves(p, l)
  BY <1>1, <1>5, Zenon DEF PublishEvents, MovesOnly, BrowseFields, PeerIs, EngineIs, lookupVars
<1>7. peer'.closed = peer.closed /\ peer'.pending = pending
  BY <1>1, <1>6, MovesFields, Zenon
<1>8. phase'[p] = l /\ \A q \in Caller : q # p => phase'[q] = phase[q]
  BY <1>1, <1>6, PhaseMoves, Zenon
<1>9. \A q \in Caller : phase'[q] \notin Gated
  BY <1>3, <1>4, <1>5, <1>8, Zenon
<1>10. \A q \in Caller : phase'[q] \notin {"inner", "wait", "apply", "publish"}
  BY <1>9 DEF Gated
<1>11. ~peer.closed => Outstanding(peer.pending)'
  <2>1. SUFFICES ASSUME ~peer.closed PROVE Outstanding(peer.pending)'
    OBVIOUS
  <2>2. peer.pending = <<>> /\ Outstanding(evs) /\ evs # <<>>
    BY <1>1, <1>2, <2>1, Zenon DEF Views, Caller
  <2>3. PICK q, t : q = evs /\ t = Tail(q)
    BY Zenon
  <2>4. Outstanding(q) /\ Deliver(q) /\ q # <<>>
    BY <2>1, <2>2, <2>3, Zenon DEF PublishEvents
  <2>5. Outstanding(Tail(q))' /\ <<>> \o Tail(q) = Tail(q)
    BY <1>2, <2>4, Delivered, Zenon
  <2>6. pending = t
    BY <1>5, <2>1, <2>2, <2>3, <2>5, Zenon
  <2>7. QED
    BY <1>7, <2>3, <2>5, <2>6, Zenon
<1>12. Views'
  BY <1>2, <1>7, <1>9, <1>10, <1>11, Zenon DEF Views, Caller
<1>13. QED
  BY <1>1, <1>2, <1>5, <1>6, <1>12, MovesKeep

\* Applying a record keeps the invariant: its events tell exactly what it
\* changed.
LEMMA ApplyKeeps ==
    ASSUME BrowseInv, NEW p \in Poller, ApplyRecord(p)
    PROVE  BrowseInv'
<1>1. BrowseFields /\ Retracts /\ Drains /\ LookupInv /\ Views /\ p \in Caller
  BY DEF BrowseInv, Caller
<1>2. PICK out : out = apply_peer_record(Me, rec)
  BY Zenon
<1>3. PICK l : l = (IF out.events = <<>> THEN "head" ELSE "publish")
  BY Zenon
<1>4. /\ contributions' = out.contributions /\ effective' = out.effective /\ retired' = retired
      /\ evs' = out.events /\ Moves(p, l) /\ phase[p] = "apply"
      /\ UNCHANGED <<plan, opener, peer, engine, native, view, todo>>
  BY <1>2, <1>3, Zenon DEF ApplyRecord, Applied, At
<1>5. Sound(Me, out)
  BY <1>1, <1>2, RecordSound, Zenon DEF LookupInv
<1>6. LookupInv'
  BY <1>4, <1>5, Zenon DEF Sound, LookupInv
<1>7. BrowseFields'
  <2>1. phase' = [q \in Poller \cup Closer |-> phase'[q]]
    BY <1>1, <1>4, PhaseMoves, Zenon
  <2>2. QED
    BY <1>1, <1>4, <2>1, Zenon DEF BrowseFields
<1>8. Drains'
  BY <1>1, <1>3, <1>4, DrainsMoved, Zenon
<1>9. Me \in retired => contributions' = contributions
  BY <1>2, <1>4, RetiredIgnored DEF NoChange, Outcome
<1>10. Retracts'
  BY <1>1, <1>4, <1>9, Zenon DEF Retracts, Pend
<1>11. Views'
  <2>1. peer.gate = p /\ \A q \in Caller : q # p => phase[q] \notin Gated
    BY <1>1, <1>4, OnlyHolder, Zenon DEF Gated
  <2>2. phase'[p] = l /\ \A q \in Caller : q # p => phase'[q] = phase[q]
    BY <1>1, <1>4, PhaseMoves, Zenon
  <2>3. \A q \in Caller : phase'[q] \in Gated => q = p
    BY <2>1, <2>2, Zenon
  <2>4. /\ \A q \in Caller : phase[q] # "publish"
        /\ (\E q \in Caller : phase'[q] = "publish") <=> evs' # <<>>
    <3>1. \A q \in Caller : phase[q] # "publish"
      BY <1>4, <2>1, Zenon DEF Gated
    <3>2. (\E q \in Caller : phase'[q] = "publish") <=> l = "publish"
      BY <1>1, <2>2, <3>1, Zenon
    <3>3. l = "publish" <=> evs' # <<>>
      BY <1>3, <1>4, Zenon
    <3>4. QED
      BY <3>1, <3>2, <3>3, Zenon
  <2>5. ~peer.closed => peer.pending = <<>> /\ Seen({})
    <3>1. evs = <<>>
      BY <1>1, <2>4, Zenon DEF Views, Caller
    <3>2. ~peer.closed => peer.pending = <<>> /\ Outstanding(<<>>)
      BY <1>1, <1>4, <3>1, Zenon DEF Views, Caller
    <3>3. Outstanding(<<>>) => Seen({})
      <4>1. \A n : <<Snap(n)>> # <<>>
        OBVIOUS
      <4>2. \A n, o : <<Snap(o), Snap(n)>> # <<>>
        OBVIOUS
      <4>3. QED
        BY <4>1, <4>2, Zenon DEF Outstanding
    <3>4. QED
      BY <3>2, <3>3
  <2>6. ~peer.closed => Outstanding(evs)'
    <3>1. SUFFICES ASSUME ~peer.closed PROVE Outstanding(evs)'
      OBVIOUS
    <3>2. view = [m \in Node |-> view[m]] /\ \A m \in Node : view[m] = Actual(m)
      BY <2>5, <3>1 DEF Seen
    <3>3. \A m : Actual(m) = SeenBy(contributions, Me, m) /\ Actual(m)' = SeenBy(contributions', Me, m)
      BY Zenon DEF Actual, SeenBy
    <3>4. \A N : SeenSame(contributions, contributions', Me, N) => Seen(N)'
      BY <1>4, <3>2, <3>3, Zenon DEF SeenSame, Seen
    <3>5. TellsOf(Me, contributions, contributions', evs')
      BY <1>4, <1>5, Zenon DEF Sound
    <3>6. \A m : Snap(m)' = removal_snapshot(contributions', Me, m)
      BY DEF Snap
    <3>7. CASE evs' = <<>> /\ SeenSame(contributions, contributions', Me, {})
      BY <3>4, <3>7 DEF Outstanding
    <3>8. CASE \E n \in Node : evs' = <<removal_snapshot(contributions', Me, n)>>
                               /\ SeenSame(contributions, contributions', Me, {n})
      BY <3>4, <3>6, <3>8, Zenon DEF Outstanding
    <3>9. CASE \E n, o \in Node : /\ n # o
                                  /\ evs' = <<removal_snapshot(contributions', Me, o), removal_snapshot(contributions', Me, n)>>
                                  /\ SeenSame(contributions, contributions', Me, {n, o})
      BY <3>4, <3>6, <3>9, Zenon DEF Outstanding
    <3>10. QED
      BY <3>5, <3>7, <3>8, <3>9, Zenon DEF TellsOf
  <2>7. QED
    BY <1>4, <2>1, <2>3, <2>4, <2>5, <2>6, Zenon DEF Views, Caller
<1>12. QED
  BY <1>6, <1>7, <1>8, <1>10, <1>11 DEF BrowseInv

\* The peer browse on its own, for any set of plans.
BrowseSpec(plans) == BrowseInit(plans) /\ [][BrowseNext]_browseVars

\* The invariant holds before the browse is opened.
LEMMA BrowseStarts ==
    ASSUME NEW plans, BrowseInit(plans)
    PROVE  BrowseInv
<1>1. /\ todo = [t \in Thread |-> <<>>] /\ phase = [t \in Poller \cup Closer |-> "idle"]
      /\ evs = <<>> /\ view = [n \in Node |-> Unknown] /\ opener = "start"
      /\ peer = [closed |-> FALSE, pending |-> <<>>, gate |-> NoThread, task |-> "none", slot |-> FALSE]
      /\ engine = [terminal |-> FALSE, callback |-> FALSE, gate |-> NoThread, op |-> NoOp]
      /\ native = [network |-> <<>>, script |-> plan.script, ended |-> "no", closing |-> FALSE,
                   cmds |-> <<>>, actor |-> "recv", buffered |-> <<>>, outcome |-> "none"]
  BY Zenon DEF BrowseInit
<1>2. contributions = <<>> /\ effective = [n \in Node |-> {}]
  BY Zenon DEF BrowseInit, LookupInit
<1>3. /\ <<>> \in Seq(Call) /\ RetireFirst(<<>>) /\ \A x : ~In(x, <<>>)
  BY Lists, Zenon
<1>4. BrowseFields
  BY <1>1, <1>3, Zenon DEF BrowseFields
<1>5. LookupInv
  BY <1>2 DEF LookupInv, Contributes, Exact, AddrsOf, OfNode
<1>6. Retracts
  <2>1. /\ ~peer.closed /\ ~engine.terminal /\ peer.task = "none"
    BY <1>1, Zenon
  <2>2. \A t \in Thread : todo[t] = <<>>
    BY <1>1, Zenon
  <2>3. Opener \in Thread /\ Task \in Thread
    BY DEF Thread
  <2>4. \A x : ~Pend(x)
    BY <1>3, <2>2 DEF Pend
  <2>5. \A t \in Thread : RetireFirst(todo[t])
    BY <1>3, <2>2
  <2>6. QED
    BY <2>1, <2>2, <2>3, <2>4, <2>5, Zenon DEF Retracts
<1>7. Drains
  <2>1. native.cmds = <<>> /\ native.actor = "recv" /\ native.outcome = "none"
    BY <1>1, Zenon
  <2>2. \A c \in Closer : phase[c] = "idle"
    BY <1>1, Zenon
  <2>3. <<>> \in Seq({"next", "close"})
    OBVIOUS
  <2>4. \A i \in DOMAIN native.cmds : FALSE
    BY <2>1
  <2>5. QED
    BY <1>3, <2>1, <2>2, <2>3, <2>4, Zenon DEF Drains
<1>8. Views
  <2>1. peer.pending = <<>>
    BY <1>1, Zenon
  <2>2. \A p \in Poller \cup Closer : phase[p] = "idle"
    BY <1>1, Zenon
  <2>3. Seen({})
    <3>1. \A n \in Node : Actual(n) = Unknown
      <4>1. \A n : OfSource(contributions, Me, n) = {}
        BY <1>2 DEF OfSource, OfNode
      <4>2. AddrsOf(contributions, {}) = {}
        BY DEF AddrsOf
      <4>3. QED
        BY <4>1, <4>2, Zenon DEF Actual, source_effective_addrs, Unknown
    <3>2. QED
      BY <1>1, <3>1, Zenon DEF Seen
  <2>4. Outstanding(peer.pending)
    BY <2>1, <2>3, Zenon DEF Outstanding
  <2>5. QED
    BY <1>1, <2>1, <2>2, <2>4, Zenon DEF Views, Gated
<1>9. QED
  BY <1>4, <1>5, <1>6, <1>7, <1>8 DEF BrowseInv

\* Every close step, of whatever thread, keeps the invariant.
LEMMA CloseKeeps ==
    ASSUME BrowseInv, NEW t \in Thread, CloseStep(t)
    PROVE  BrowseInv'
<1>1. BrowseFields /\ Retracts /\ Drains /\ LookupInv /\ Views
  BY DEF BrowseInv
<1>2. PICK h, f : CallMade(t, h, f) /\ Made(h, f)
  BY <1>1, CloseEffect
<1>3. BrowseFields' /\ Retracts' /\ Drains' /\ LookupInv' /\ Views'
  BY <1>1, <1>2, CloseFields, CloseRetracts, CloseDrains, CloseLookup, CloseViews, Zenon
<1>4. QED
  BY <1>3 DEF BrowseInv

\* Every step of the browse keeps the invariant.
LEMMA BrowseInductive ==
    BrowseInv /\ [BrowseNext]_browseVars => BrowseInv'
<1>1. SUFFICES ASSUME BrowseInv, [BrowseNext]_browseVars PROVE BrowseInv'
  OBVIOUS
<1>2. CASE UNCHANGED browseVars
  <2>1. UNCHANGED <<plan, opener, peer, engine, native, phase, evs, view, todo, contributions, effective, retired>>
    BY <1>2 DEF browseVars, callerVars, lookupVars
  <2>2. BrowseFields' /\ Drains'
    BY <1>1, <2>1, Zenon DEF BrowseInv, BrowseFields, Drains
  <2>3. Retracts' /\ LookupInv' /\ Views'
    BY <1>1, <2>1, RetractsKept, LookupKept, ViewsKept, Zenon DEF BrowseInv
  <2>4. QED
    BY <2>2, <2>3 DEF BrowseInv
<1>3. CASE \E t \in Thread : CloseStep(t)
  BY <1>1, <1>3, CloseKeeps
<1>4. CASE OpenStep \/ TaskStep \/ BrowseEndpointCloses
  BY <1>1, <1>3, <1>4, OpeningKeeps, Zenon DEF OpenStep, TaskStep, Thread
<1>5. CASE NativeNext \/ Announce \/ \E how \in {"closed", "failed"} : NativeEnds(how)
  BY <1>1, <1>5, MdnsKeeps, MobileKeeps, Zenon DEF NativeNext
<1>6. CASE \E p \in Poller : PollBegin(p) \/ PollStep(p) \/ PollDropped(p)
  <2>1. PICK p \in Poller : PollBegin(p) \/ PollStep(p) \/ PollDropped(p)
    BY <1>6
  <2>2. p \in Thread
    BY DEF Thread
  <2>3. QED
    BY <1>1, <1>3, <2>1, <2>2, GateKeeps, EngineKeeps, LoopKeeps, PublishKeeps, ApplyKeeps, Zenon
       DEF PollStep
<1>7. CASE \E c \in Closer : close_browse(c) \/ wait_closed(c) \/ CallerStep(c)
  <2>1. PICK c \in Closer : close_browse(c) \/ wait_closed(c) \/ CallerStep(c)
    BY <1>7
  <2>2. c \in Thread
    BY DEF Thread
  <2>3. QED
    BY <1>1, <1>3, <2>1, <2>2, CallersKeep, Zenon DEF CallerStep
<1>8. CASE OtherSession \/ OtherRetires
  BY <1>1, <1>8, OtherKeeps
<1>9. QED
  BY <1>1, <1>2, <1>4, <1>5, <1>6, <1>7, <1>8, Zenon DEF BrowseNext

\* The inductive invariant holds throughout, for any number of polling and
\* closing threads and any transport, network script and endpoint close.
THEOREM BrowseInvariant ==
    ASSUME NEW plans PROVE BrowseSpec(plans) => []BrowseInv
<1>1. BrowseInit(plans) => BrowseInv
  BY BrowseStarts
<1>2. QED
  BY <1>1, BrowseInductive, PTL DEF BrowseSpec

\* With no call left to make, a closed browse owes nothing.
LEMMA ExactFromInv == BrowseInv => LookupExact
<1>1. SUFFICES ASSUME BrowseInv PROVE LookupExact
  OBVIOUS
<1>2. \A n \in Node : resolve(n) = AddrsOf(contributions, OfNode(contributions, n))
  BY <1>1 DEF BrowseInv, LookupInv, Exact, resolve
<1>3. ASSUME peer.closed, \A t \in Thread : todo[t] = <<>>
      PROVE  /\ \A k \in DOMAIN contributions : k[1] # Me
             /\ engine.terminal /\ native.closing
             /\ opener \in {"open", "refused"} => peer.task # "waiting"
  <2>1. \A x : ~Pend(x)
    BY <1>3, Lists, Zenon DEF Pend
  <2>2. QED
    BY <1>1, <1>3, <2>1, Zenon DEF BrowseInv, Retracts
<1>4. QED
  BY <1>2, <1>3, Zenon DEF LookupExact

\* A wait_closed that returned went through the drain and the transport's
\* close.
LEMMA StoppedFromInv == BrowseInv => WaitedMeansStopped
  BY Zenon DEF BrowseInv, Drains, WaitedMeansStopped

\* The outstanding events complete the caller's view.
LEMMA ToldFromInv == BrowseInv => ViewMatchesLookup
<1>1. SUFFICES ASSUME BrowseInv, ~peer.closed, NEW n \in Node PROVE Told(n) = Actual(n)
  BY DEF ViewMatchesLookup
<1>2. PICK q : q = peer.pending \o evs
  BY Zenon
<1>3. \A a : <<>> \o <<a>> = <<a>> /\ <<a>> \o <<>> = <<a>>
  OBVIOUS
<1>4. \A a, b : <<>> \o <<a, b>> = <<a, b>> /\ <<a, b>> \o <<>> = <<a, b>>
  OBVIOUS
<1>5. <<>> \o <<>> = <<>>
  OBVIOUS
<1>6. \A s : Outstanding(s) => <<>> \o s = s /\ s \o <<>> = s
  BY <1>3, <1>4, <1>5, Zenon DEF Outstanding
<1>7. Outstanding(q)
  <2>1. CASE Outstanding(peer.pending) /\ evs = <<>>
    BY <1>2, <1>6, <2>1, Zenon
  <2>2. CASE peer.pending = <<>> /\ Outstanding(evs)
    BY <1>2, <1>6, <2>2, Zenon
  <2>3. QED
    BY <1>1, <2>1, <2>2, Zenon DEF BrowseInv, Views
<1>8. PICK about : about = {i \in DOMAIN q : q[i].node = n}
  BY Zenon
<1>9. /\ about = {} => Told(n) = view[n]
      /\ \A i : about = {i} => Told(n) = [active |-> q[i].active, addrs |-> q[i].addrs]
  <2>1. Told(n) = IF about = {} THEN view[n] ELSE [active |-> q[Max(about)].active, addrs |-> q[Max(about)].addrs]
    BY <1>2, <1>8, Zenon DEF Told
  <2>2. \A i : about = {i} => Max(about) = i
    <3>1. SUFFICES ASSUME NEW i, about = {i} PROVE Max(about) = i
      OBVIOUS
    <3>2. i \in DOMAIN q
      BY <1>8, <3>1
    <3>3. i \in Int
      BY <1>7, <3>2 DEF Outstanding
    <3>4. QED
      BY <3>1, <3>3 DEF Max
  <2>3. QED
    BY <2>1, <2>2, Zenon
<1>10. \A m : Snap(m).node = m /\ [active |-> Snap(m).active, addrs |-> Snap(m).addrs] = Actual(m)
  BY Zenon DEF Snap, Actual, removal_snapshot
<1>11. CASE q = <<>> /\ Seen({})
  BY <1>8, <1>9, <1>11 DEF Seen
<1>12. CASE \E m \in Node : q = <<Snap(m)>> /\ Seen({m})
  <2>1. PICK m \in Node : q = <<Snap(m)>> /\ Seen({m})
    BY <1>12, Zenon
  <2>2. PICK a : a = Snap(m)
    BY Zenon
  <2>3. q = <<a>> /\ a.node = m /\ [active |-> a.active, addrs |-> a.addrs] = Actual(m)
    BY <1>10, <2>1, <2>2, Zenon
  <2>4. CASE n = m
    <3>1. about = {1} /\ q[1] = a
      BY <1>8, <2>3, <2>4
    <3>2. QED
      BY <1>9, <2>3, <2>4, <3>1, Zenon
  <2>5. CASE n # m
    <3>1. about = {}
      BY <1>8, <2>3, <2>5
    <3>2. QED
      BY <1>9, <2>1, <2>5, <3>1, Zenon DEF Seen
  <2>6. QED
    BY <2>4, <2>5
<1>13. CASE \E m, o \in Node : m # o /\ q = <<Snap(o), Snap(m)>> /\ Seen({m, o})
  <2>1. PICK m \in Node, o \in Node : m # o /\ q = <<Snap(o), Snap(m)>> /\ Seen({m, o})
    BY <1>13, Zenon
  <2>2. PICK a, b : a = Snap(o) /\ b = Snap(m)
    BY Zenon
  <2>3. /\ q = <<a, b>> /\ a.node = o /\ [active |-> a.active, addrs |-> a.addrs] = Actual(o)
        /\ b.node = m /\ [active |-> b.active, addrs |-> b.addrs] = Actual(m)
    BY <1>10, <2>1, <2>2, Zenon
  <2>4. CASE n = o
    <3>1. about = {1} /\ q[1] = a
      BY <1>8, <2>1, <2>3, <2>4
    <3>2. QED
      BY <1>9, <2>3, <2>4, <3>1, Zenon
  <2>5. CASE n = m
    <3>1. about = {2} /\ q[2] = b
      BY <1>8, <2>1, <2>3, <2>5
    <3>2. QED
      BY <1>9, <2>3, <2>5, <3>1, Zenon
  <2>6. CASE n # m /\ n # o
    <3>1. about = {}
      BY <1>8, <2>3, <2>6
    <3>2. QED
      BY <1>9, <2>1, <2>6, <3>1, Zenon DEF Seen
  <2>7. QED
    BY <2>4, <2>5, <2>6
<1>14. QED
  BY <1>7, <1>11, <1>12, <1>13, Zenon DEF Outstanding

\* resolve() always answers the union of the live contributions, and once a
\* close has run to its end this browse contributes nothing, reads nothing more
\* and has no task left.
THEOREM LookupExactHolds ==
    ASSUME NEW plans PROVE BrowseSpec(plans) => []LookupExact
  BY BrowseInvariant, ExactFromInv, PTL

\* When wait_closed has returned, no native read is in flight, none can start,
\* and the mobile actor is gone.
THEOREM WaitedMeansStoppedHolds ==
    ASSUME NEW plans PROVE BrowseSpec(plans) => []WaitedMeansStopped
  BY BrowseInvariant, StoppedFromInv, PTL

\* While the browse is open, the events delivered and queued add up to what it
\* contributes: no event is lost, doubled or out of order, whichever polls are
\* dropped.
THEOREM ViewMatchesLookupHolds ==
    ASSUME NEW plans PROVE BrowseSpec(plans) => []ViewMatchesLookup
  BY BrowseInvariant, ToldFromInv, PTL
=============================================================================
