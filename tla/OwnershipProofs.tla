-------------------------- MODULE OwnershipProofs ----------------------------
(***************************************************************************)
(* Proofs about DiscoveryOwnership for any number of starts, webviews,     *)
(* endpoints and cleanup tasks. That a start never overlaps what was       *)
(* retired before it (NoOverlap) is not inductive: it rests on what every  *)
(* fence covers. The invariant says that whatever is retired, or leased to *)
(* an owner that is gone, is waited for by a fence of its label            *)
(* (RetiredCovered), that the fences of a label form a chain in which a    *)
(* finished one has nothing unfinished behind it (PrevIsLast,              *)
(* CleanupIsLast, OkChain), and that the fence a start waits for comes     *)
(* after all it must not overlap (BarrierCovers).                          *)
(***************************************************************************)
EXTENDS DiscoveryOwnership, TLAPS

\* How a fence of a cleanup task can stand.
Outcomes == {"pending", "ok", "err"}
\* The fences of a cleanup task: one per label it was installed for.
Fences == UNION {[L -> [prev : Nat, out : Outcomes]] : L \in SUBSET Label}
\* A cleanup task: the sessions and starts it waits for, and its fences.
CleanupTask == [sessions : SUBSET Start, starts : SUBSET Start, fences : Fences]
\* A generation entry; only one that was bumped can be active.
Entry == {e \in [generation : Nat, active : BOOLEAN] : e.active => e.generation > 0}

\* The types of the variables, without the bounds of the model.
OwnersTypes ==
    /\ kind \in [Start -> Kinds]
    /\ pc \in [Start -> {"idle"} \cup Leased \cup (Later \ {"leaked"})]
    /\ owner \in [Start -> Owner \cup {NoOwner}]
    /\ prior \in [Start -> Nat]
    /\ slab \in SUBSET Start
    /\ endpoints \in [Endpoint -> Entry]
    /\ webviews \in [Label -> Entry]
    /\ cleanups \in [Label -> Nat]
    /\ tasks \in Seq(CleanupTask)
    /\ lastWindow \in BOOLEAN
    /\ before \in [Start -> SUBSET Start]

\* Task t fences label l.
FenceOn(t, l) == t \in 1..Len(tasks) /\ l \in DOMAIN tasks[t].fences
\* Task t fences label l and its fence stands at out.
FenceIs(t, l, out) == FenceOn(t, l) /\ tasks[t].fences[l].out = out
\* What task t waits for.
Waits(t) == tasks[t].sessions \cup tasks[t].starts
\* Task t fences the label of x and waits for x.
CoveredBy(x, t) == FenceOn(t, owner[x].label) /\ x \in Waits(t)

\* A start captured its owner when it began: generations never exceed the
\* current ones.
CapturedOwner(x) ==
    LET o == owner[x] IN
    /\ o \in Owner
    /\ o.webview \in 1..webviews[o.label].generation
    /\ o.endpoint \in Endpoint => o.generation \in 1..endpoints[o.endpoint].generation

\* Every start that began has captured its owner.
Captured == \A x \in Start : pc[x] # "idle" => CapturedOwner(x)

\* The slab holds only tracked and retiring sessions.
SlabHolds == \A x \in Start : x \in slab => pc[x] \in {"tracked", "retiring"}

\* A task waits for retired sessions and for starts whose owner is stale.
TaskWaits ==
    \A t \in 1..Len(tasks) :
        /\ \A x \in tasks[t].sessions : pc[x] \in {"retiring", "over", "failed"}
        /\ \A x \in tasks[t].starts : /\ pc[x] \in Leased \cup {"over", "lost"}
                                      /\ pc[x] \in Leased => ~owner_is_current(owner[x])

\* Whatever is retired, failed or leased to a stale owner is covered by a task.
RetiredCovered ==
    \A x \in Start :
        pc[x] \in {"retiring", "failed"} \/ (pc[x] \in Leased /\ ~owner_is_current(owner[x])) =>
            \E t \in 1..Len(tasks) : CoveredBy(x, t)

\* The previous task of a fence is the last one before it on that label that is
\* not done.
PrevIsLast ==
    \A t \in 1..Len(tasks) : \A l \in DOMAIN tasks[t].fences :
        LET p == tasks[t].fences[l].prev IN
        /\ p < t /\ (p # 0 => FenceOn(p, l))
        /\ \A s \in 1..(t - 1) : s > p /\ FenceOn(s, l) => FenceIs(s, l, "ok")

\* cleanups names the last task of a label that is not done.
CleanupIsLast ==
    \A l \in Label :
        /\ cleanups[l] # 0 => FenceOn(cleanups[l], l)
        /\ \A s \in 1..Len(tasks) : s > cleanups[l] /\ FenceOn(s, l) => FenceIs(s, l, "ok")

\* A fence that is done has only finished work behind it, in its own task and
\* in those before.
OkChain ==
    \A t \in 1..Len(tasks) : \A l \in Label : FenceIs(t, l, "ok") =>
        /\ \A s \in 1..t : FenceOn(s, l) => FenceIs(s, l, "ok")
        /\ \A x \in Waits(t) : pc[x] = "over"

\* Everything that must be over before y is waited for by the fence y waits
\* for, by an earlier one, or is over.
BarrierCovers ==
    \A y \in Start : pc[y] # "idle" =>
        LET l == owner[y].label IN
        /\ prior[y] # 0 => FenceOn(prior[y], l)
        /\ \A x \in before[y] :
             \E t \in 1..Len(tasks) :
                 FenceOn(t, l) /\ x \in Waits(t) /\ (t <= prior[y] \/ FenceIs(t, l, "ok"))

\* The inductive invariant of the ownership fences.
OwnersInv ==
    /\ OwnersTypes /\ Captured /\ SlabHolds /\ TrackedAreCurrent
    /\ TaskWaits /\ RetiredCovered /\ PrevIsLast /\ CleanupIsLast /\ OkChain
    /\ BarrierCovers /\ NoOverlap

-----------------------------------------------------------------------------
\* Fences change only with the tasks.
LEMMA FencesKept ==
    ASSUME UNCHANGED tasks
    PROVE  /\ \A t, l : FenceOn(t, l)' <=> FenceOn(t, l)
           /\ \A t, l, out : FenceIs(t, l, out)' <=> FenceIs(t, l, out)
           /\ \A t : Waits(t)' = Waits(t)
  BY DEF FenceOn, FenceIs, Waits

\* What the type of the tasks says of one of them.
LEMMA TaskShape ==
    ASSUME OwnersTypes
    PROVE  /\ Len(tasks) \in Nat
           /\ \A t \in 1..Len(tasks) :
                /\ tasks[t] \in CleanupTask
                /\ tasks[t].sessions \subseteq Start /\ tasks[t].starts \subseteq Start
                /\ Waits(t) \subseteq Start
                /\ DOMAIN tasks[t].fences \subseteq Label
                /\ \A l \in DOMAIN tasks[t].fences : tasks[t].fences[l] \in [prev : Nat, out : Outcomes]
<1>1. Len(tasks) \in Nat /\ \A t \in 1..Len(tasks) : tasks[t] \in CleanupTask
  BY DEF OwnersTypes
<1>2. ASSUME NEW k \in CleanupTask
      PROVE  /\ k.sessions \subseteq Start /\ k.starts \subseteq Start
             /\ DOMAIN k.fences \subseteq Label
             /\ \A l \in DOMAIN k.fences : k.fences[l] \in [prev : Nat, out : Outcomes]
  <2>1. PICK L \in SUBSET Label : k.fences \in [L -> [prev : Nat, out : Outcomes]]
    BY DEF CleanupTask, Fences
  <2>2. QED
    BY <2>1 DEF CleanupTask
<1>3. QED
  BY <1>1, <1>2 DEF Waits

\* What a captured owner is made of.
LEMMA CapturedShape ==
    ASSUME OwnersInv, NEW x \in Start, pc[x] # "idle"
    PROVE  /\ owner[x].label \in Label /\ owner[x].webview \in Nat /\ owner[x].generation \in Nat
           /\ owner[x].webview >= 1 /\ owner[x].webview <= webviews[owner[x].label].generation
           /\ webviews[owner[x].label] \in Entry /\ webviews[owner[x].label].generation # 0
           /\ owner[x].endpoint \in Endpoint =>
                /\ owner[x].generation <= endpoints[owner[x].endpoint].generation
                /\ owner[x].generation >= 1
                /\ endpoints[owner[x].endpoint] \in Entry
<1>1. CapturedOwner(x) /\ OwnersTypes
  BY DEF OwnersInv, Captured
<1>2. PICK o \in Owner : o = owner[x]
  BY <1>1 DEF CapturedOwner
<1>3. o.label \in Label /\ o.webview \in Nat /\ o.generation \in Nat
  BY DEF Owner
<1>4. QED
  BY <1>1, <1>2, <1>3 DEF CapturedOwner, OwnersTypes, Entry

\* One start moves on, or one retiring session ends.
LEMMA MoveStep ==
    ASSUME OwnersInv, NEW x \in Start, NEW q,
           pc' = [pc EXCEPT ![x] = q],
           UNCHANGED <<startVars, endpoints, webviews, cleanups, tasks, lastWindow>>,
           slab' \in SUBSET Start, \A y \in Start : y # x => (y \in slab' <=> y \in slab),
           x \in slab' => q = "tracked",
           \/ pc[x] \in Leased /\ q \in Leased \cup {"over", "lost"}
           \/ pc[x] = "delivered" /\ q = "tracked" /\ x \in slab' /\ owner_is_current(owner[x])
           \/ pc[x] = "retiring" /\ q \in {"over", "failed"},
           pc[x] = "barrier" /\ q \notin {"over"} =>
               q # "barrier" /\ OutcomeOf(prior[x], owner[x].label) = "ok"
    PROVE  OwnersInv'
<1> USE DEF OwnersInv, startVars
<1>t. OwnersTypes'
  BY DEF OwnersTypes, Leased, Later
<1>k. pc \in [Start -> {"idle"} \cup Leased \cup Later]
  BY DEF OwnersTypes
<1>n. pc[x] # "idle" /\ pc[x] # "over"
  BY DEF Leased
<1>c. \A y \in Start : owner_is_current(owner[y])' <=> owner_is_current(owner[y])
  BY DEF owner_is_current, Is
<1>1. Captured' /\ SlabHolds'
  BY <1>n, <1>k DEF Captured, CapturedOwner, SlabHolds, OwnersTypes
<1>2. TrackedAreCurrent'
  BY <1>c, <1>k DEF TrackedAreCurrent, sessions, Leased
<1>3. TaskWaits'
  <2>1. ASSUME NEW t \in 1..Len(tasks), NEW y \in tasks[t].sessions
        PROVE  pc'[y] \in {"retiring", "over", "failed"}
    BY <2>1, TaskShape, <1>k, <1>n DEF TaskWaits, Leased
  <2>2. ASSUME NEW t \in 1..Len(tasks), NEW y \in tasks[t].starts
        PROVE  /\ pc'[y] \in Leased \cup {"over", "lost"}
               /\ pc'[y] \in Leased => ~owner_is_current(owner[y])
    BY <2>2, TaskShape, <1>k, <1>n DEF TaskWaits, Leased
  <2>3. QED
    BY <2>1, <2>2, <1>c, TaskShape DEF TaskWaits
<1>4. RetiredCovered'
  BY <1>c, <1>k, <1>n, FencesKept DEF RetiredCovered, Leased, CoveredBy
<1>5. PrevIsLast' /\ CleanupIsLast'
  BY FencesKept DEF PrevIsLast, CleanupIsLast
<1>6. OkChain'
  BY FencesKept, TaskShape, <1>k, <1>n DEF OkChain
<1>7. BarrierCovers'
  BY FencesKept, <1>k, <1>n DEF BarrierCovers, Leased, Later
<1>8. NoOverlap'
  <2>1. ASSUME NEW y \in Start, pc'[y] \notin {"idle", "barrier", "over"}, NEW z \in before[y]
        PROVE  pc[z] = "over"
    <3>1. CASE pc[y] # "barrier"
      BY <2>1, <3>1, <1>k, <1>n DEF NoOverlap
    <3>2. CASE pc[y] = "barrier"
      <4>1. y = x /\ OutcomeOf(prior[x], owner[x].label) = "ok"
        BY <2>1, <3>2, <1>k
      <4>2. PICK t \in 1..Len(tasks) :
               /\ FenceOn(t, owner[y].label) /\ z \in Waits(t)
               /\ t <= prior[y] \/ FenceIs(t, owner[y].label, "ok")
        BY <2>1, <3>2 DEF BarrierCovers
      <4>3. FenceIs(t, owner[y].label, "ok")
        <5>1. CASE t <= prior[y]
          <6>1. prior[y] \in 1..Len(tasks) /\ t \in 1..prior[y]
            <7>1. prior[y] \in Nat /\ t \in Nat /\ prior[y] # 0
              BY <5>1, TaskShape DEF OwnersTypes
            <7>2. QED
              BY <7>1, <5>1, <3>2 DEF BarrierCovers, FenceOn
          <6>2. FenceIs(prior[y], owner[y].label, "ok")
            <7>1. FenceOn(prior[y], owner[y].label) /\ prior[y] # 0
              BY <6>1, <3>2 DEF BarrierCovers
            <7>2. tasks[prior[y]].fences[owner[y].label].out = "ok"
              BY <7>1, <4>1, Zenon DEF OutcomeOf
            <7>3. QED
              BY <7>1, <7>2, Zenon DEF FenceIs
          <6>3. owner[y].label \in Label
            BY <3>2 DEF Captured, CapturedOwner, Owner
          <6>4. QED
            BY <6>1, <6>2, <6>3, <4>2 DEF OkChain
        <5>2. QED
          BY <5>1, <4>2
      <4>4. owner[y].label \in Label
        BY <3>2 DEF Captured, CapturedOwner, Owner
      <4>5. QED
        BY <4>2, <4>3, <4>4 DEF OkChain
    <3>3. QED
      BY <3>1, <3>2
  <2>2. \A y \in Start : \A z \in before[y] : z \in Start
    BY DEF OwnersTypes
  <2>3. QED
    BY <2>1, <2>2, <1>k, <1>n DEF NoOverlap
<1>9. QED
  BY <1>t, <1>1, <1>2, <1>3, <1>4, <1>5, <1>6, <1>7, <1>8

-----------------------------------------------------------------------------
\* Generations only grow, and a generation that was left does not come back.
Grows(f, g) ==
    \A k \in DOMAIN f : /\ g[k].generation >= f[k].generation
                        /\ Is(g[k], f[k].generation) => Is(f[k], f[k].generation)

\* An owner that is stale stays stale.
LEMMA StaleStays ==
    ASSUME OwnersTypes, OwnersTypes', Grows(endpoints, endpoints'), Grows(webviews, webviews'),
           NEW x \in Start, CapturedOwner(x), owner'[x] = owner[x]
    PROVE  /\ CapturedOwner(x)'
           /\ ~owner_is_current(owner[x]) => ~owner_is_current(owner[x])'
<1>1. PICK o \in Owner : o = owner[x]
  BY DEF CapturedOwner
<1>2. /\ o.label \in Label /\ o.webview \in Nat /\ o.generation \in Nat
      /\ o.webview >= 1 /\ o.webview <= webviews[o.label].generation
      /\ webviews[o.label].generation \in Nat /\ webviews'[o.label].generation \in Nat
      /\ webviews'[o.label].generation >= webviews[o.label].generation
  BY <1>1 DEF Owner, OwnersTypes, Grows, CapturedOwner, Entry
<1>3. o.endpoint \in Endpoint =>
      /\ o.generation >= 1 /\ o.generation <= endpoints[o.endpoint].generation
      /\ endpoints[o.endpoint].generation \in Nat /\ endpoints'[o.endpoint].generation \in Nat
      /\ endpoints'[o.endpoint].generation >= endpoints[o.endpoint].generation
  BY <1>1 DEF Owner, OwnersTypes, Grows, CapturedOwner, Entry
<1>4. CapturedOwner(x)'
  <2>1. o.webview \in 1..webviews'[o.label].generation
    BY <1>2
  <2>2. o.endpoint \in Endpoint => o.generation \in 1..endpoints'[o.endpoint].generation
    BY <1>2, <1>3
  <2>3. QED
    BY <1>1, <2>1, <2>2 DEF CapturedOwner
<1>z. \A e, g : Is(e, g) => e.generation = g
  BY DEF Is
<1>5. Is(webviews'[o.label], o.webview) => Is(webviews[o.label], o.webview)
  <2>1. webviews'[o.label].generation = o.webview => webviews[o.label].generation = o.webview
    BY <1>2
  <2>2. o.label \in DOMAIN webviews
    BY <1>2 DEF OwnersTypes
  <2>3. QED
    BY <2>1, <2>2, <1>z DEF Grows
<1>6. o.endpoint \in Endpoint /\ Is(endpoints'[o.endpoint], o.generation)
        => Is(endpoints[o.endpoint], o.generation)
  <2>1. o.endpoint \in Endpoint /\ endpoints'[o.endpoint].generation = o.generation
          => endpoints[o.endpoint].generation = o.generation
    BY <1>2, <1>3
  <2>2. DOMAIN endpoints = Endpoint
    BY DEF OwnersTypes
  <2>3. QED
    BY <2>1, <2>2, <1>z DEF Grows
<1>7. QED
  BY <1>1, <1>4, <1>5, <1>6 DEF owner_is_current

\* What a step that retires the sessions S and the starts T of the labels does.
Installs(labels, S, T) ==
    /\ S \subseteq sessions /\ T \subseteq starts
    /\ \A x \in S \cup T : owner[x].label \in labels
    /\ IF labels = {} THEN UNCHANGED <<tasks, cleanups>> ELSE install_owner_cleanups(labels, S, T)
    /\ pc' = [x \in Start |-> IF x \in S THEN "retiring" ELSE pc[x]]
    /\ slab' \subseteq slab /\ \A x \in slab : x \notin S => x \in slab'
    /\ UNCHANGED startVars /\ lastWindow' \in BOOLEAN
    /\ endpoints' \in [Endpoint -> Entry] /\ webviews' \in [Label -> Entry]
    /\ Grows(endpoints, endpoints') /\ Grows(webviews, webviews')
    /\ \A x \in Start : pc[x] \in Leased \cup {"tracked"} /\ x \notin S \cup T /\ owner_is_current(owner[x])
            => owner_is_current(owner[x])'
    /\ \A x \in T : ~owner_is_current(owner[x])'

\* Retiring sessions and starts installs a task that covers all of them.
LEMMA InstallStep ==
    ASSUME OwnersInv, NEW labels \in SUBSET Label, NEW S \in SUBSET Start, NEW T \in SUBSET Start,
           Installs(labels, S, T)
    PROVE  OwnersInv'
<1> USE DEF OwnersInv
<1>h1. S \subseteq sessions /\ T \subseteq starts /\ \A x \in S \cup T : owner[x].label \in labels
  BY DEF Installs
<1>h2. pc' = [x \in Start |-> IF x \in S THEN "retiring" ELSE pc[x]]
  BY DEF Installs
<1>h3. slab' \subseteq slab /\ \A x \in slab : x \notin S => x \in slab'
  BY DEF Installs
<1>h4. UNCHANGED <<kind, owner, prior, before>>
  BY DEF Installs, startVars
<1>h5. /\ endpoints' \in [Endpoint -> Entry] /\ webviews' \in [Label -> Entry] /\ lastWindow' \in BOOLEAN
       /\ Grows(endpoints, endpoints') /\ Grows(webviews, webviews')
  BY DEF Installs
<1>h6. /\ \A x \in Start : pc[x] \in Leased \cup {"tracked"} /\ x \notin S \cup T /\ owner_is_current(owner[x])
              => owner_is_current(owner[x])'
       /\ \A x \in T : ~owner_is_current(owner[x])'
  BY DEF Installs
<1>p. PICK n \in Nat : n = Len(tasks)
  BY TaskShape
<1> USE <1>p
<1>s. /\ Len(tasks') \in {n, n + 1} /\ tasks' \in Seq(CleanupTask)
      /\ \A t \in 1..n : tasks'[t] = tasks[t]
      /\ Len(tasks') = n => S \cup T = {} /\ UNCHANGED <<tasks, cleanups>>
      /\ Len(tasks') = n + 1 =>
           /\ tasks'[n + 1].sessions = S /\ tasks'[n + 1].starts = T
           /\ DOMAIN tasks'[n + 1].fences = labels
           /\ \A l \in labels : tasks'[n + 1].fences[l].prev = cleanups[l]
           /\ \A l \in labels : tasks'[n + 1].fences[l].out = "pending"
           /\ cleanups' = [l \in Label |-> IF l \in labels THEN n + 1 ELSE cleanups[l]]
  <2>1. CASE labels = {}
    <3>1. S \cup T = {}
      BY <2>1, <1>h1, <1>h2
    <3>2. UNCHANGED <<tasks, cleanups>>
      BY <2>1, Zenon DEF Installs
    <3>3. tasks \in Seq(CleanupTask)
      BY Zenon DEF OwnersTypes
    <3>4. QED
      BY <3>1, <3>2, <3>3
  <2>2. CASE labels # {}
    <3> DEFINE F == [l \in labels |-> [prev |-> cleanups[l], out |-> "pending"]]
               k == [sessions |-> S, starts |-> T, fences |-> F]
    <3>1. F \in [labels -> [prev : Nat, out : Outcomes]]
      BY DEF OwnersTypes, Outcomes
    <3>2. k \in CleanupTask
      BY <3>1 DEF CleanupTask, Fences
    <3>3. tasks' = Append(tasks, k) /\ cleanups' = [l \in Label |-> IF l \in labels THEN n + 1 ELSE cleanups[l]]
      BY <2>2 DEF install_owner_cleanups, Installs
    <3> HIDE DEF k
    <3>4. /\ Len(tasks') = n + 1 /\ tasks' \in Seq(CleanupTask)
          /\ \A t \in 1..n : tasks'[t] = tasks[t]
          /\ tasks'[n + 1] = k
      BY <3>2, <3>3 DEF OwnersTypes
    <3>5. QED
      BY <3>3, <3>4 DEF k
  <2>3. QED
    BY <2>1, <2>2
<1>k. pc \in [Start -> {"idle"} \cup Leased \cup Later]
  BY DEF OwnersTypes
<1>t. OwnersTypes'
  <2>1. cleanups' \in [Label -> Nat]
    <3>1. cleanups \in [Label -> Nat] /\ n + 1 \in Nat
      BY DEF OwnersTypes
    <3>2. cleanups' = cleanups \/ cleanups' = [l \in Label |-> IF l \in labels THEN n + 1 ELSE cleanups[l]]
      BY <1>s
    <3>3. QED
      BY <3>1, <3>2
  <2>2. pc' \in [Start -> {"idle"} \cup Leased \cup (Later \ {"leaked"})]
    BY <1>h2 DEF OwnersTypes, Later
  <2>3. QED
    BY <1>s, <2>1, <2>2, <1>h3, <1>h4, <1>h5, Zenon DEF OwnersTypes
<1>w. \A t \in 1..n : /\ \A l : FenceOn(t, l)' <=> FenceOn(t, l)
                      /\ \A l, out : FenceIs(t, l, out)' <=> FenceIs(t, l, out)
                      /\ Waits(t)' = Waits(t)
  BY <1>s, <1>p DEF FenceOn, FenceIs, Waits
<1>m. ASSUME Len(tasks') = n + 1
      PROVE  /\ \A l : FenceOn(n + 1, l)' <=> l \in labels
             /\ \A l : ~FenceIs(n + 1, l, "ok")'
             /\ Waits(n + 1)' = S \cup T
  <2>1. n + 1 \in 1..Len(tasks')
    BY <1>m
  <2>2. tasks'[n + 1].sessions = S /\ tasks'[n + 1].starts = T
    BY <1>m, <1>s
  <2>3. DOMAIN tasks'[n + 1].fences = labels
    BY <1>m, <1>s
  <2>4. \A l \in labels : tasks'[n + 1].fences[l].out = "pending"
    BY <1>m, <1>s
  <2>5. QED
    BY <2>1, <2>2, <2>3, <2>4 DEF FenceOn, FenceIs, Waits
<1>i. (Len(tasks') = n \/ Len(tasks') = n + 1) /\ \A t \in 1..Len(tasks') : t \in 1..n \/ (t = n + 1 /\ Len(tasks') = n + 1)
  BY <1>s, <1>p
<1>c. /\ \A x \in Start : pc[x] # "idle" => CapturedOwner(x)'
      /\ \A x \in Start : pc[x] # "idle" /\ ~owner_is_current(owner[x]) => ~owner_is_current(owner[x])'
  BY <1>t, StaleStays, <1>h4, <1>h5, Zenon DEF Captured
<1>1. Captured' /\ SlabHolds'
  BY <1>c, <1>k, <1>h1, <1>h2, <1>h3 DEF Captured, SlabHolds, sessions
<1>2. TrackedAreCurrent'
  BY <1>k, <1>c, <1>h1, <1>h2, <1>h3, <1>h4, <1>h6, Zenon
     DEF TrackedAreCurrent, sessions, starts, Leased
<1>3. TaskWaits'
  <2>1. ASSUME NEW t \in 1..n, NEW y \in tasks[t].sessions
        PROVE  pc'[y] \in {"retiring", "over", "failed"}
    BY <1>p, TaskShape, <1>k, <1>h2 DEF TaskWaits
  <2>2. ASSUME NEW t \in 1..n, NEW y \in tasks[t].starts
        PROVE  /\ pc'[y] \in Leased \cup {"over", "lost"}
               /\ pc'[y] \in Leased => ~owner_is_current(owner[y])'
    BY <1>p, <1>c, TaskShape, <1>k, <1>h1, <1>h2, Zenon DEF TaskWaits, Leased, sessions
  <2>3. ASSUME Len(tasks') = n + 1
        PROVE  /\ \A y \in S : pc'[y] = "retiring"
               /\ \A y \in T : pc'[y] \in Leased /\ ~owner_is_current(owner[y])'
    BY <1>k, <1>h1, <1>h2, <1>h6 DEF sessions, starts, Leased
  <2>4. ASSUME NEW t \in 1..Len(tasks')
        PROVE  /\ \A y \in tasks'[t].sessions : pc'[y] \in {"retiring", "over", "failed"}
               /\ \A y \in tasks'[t].starts : /\ pc'[y] \in Leased \cup {"over", "lost"}
                                              /\ pc'[y] \in Leased => ~owner_is_current(owner[y])'
    <3>1. CASE t \in 1..n
      <4>1. tasks'[t] = tasks[t]
        BY <3>1, <1>s
      <4>2. QED
        BY <4>1, <3>1, <2>1, <2>2
    <3>2. CASE t = n + 1 /\ Len(tasks') = n + 1
      <4>1. tasks'[t].sessions = S /\ tasks'[t].starts = T
        BY <3>2, <1>s
      <4>2. QED
        BY <4>1, <3>2, <2>3
    <3>3. QED
      BY <3>1, <3>2, <1>i
  <2>5. QED
    BY <2>4 DEF TaskWaits
<1>4. RetiredCovered'
  <2>1. ASSUME NEW x \in Start, x \in S \cup T PROVE \E t \in 1..Len(tasks') : CoveredBy(x, t)'
    <3>1. Len(tasks') = n + 1
      BY <1>p, <2>1, <1>s, <1>i
    <3>2. CoveredBy(x, n + 1)' /\ n + 1 \in 1..Len(tasks')
      BY <3>1, <2>1, <1>m, <1>p, <1>h1, <1>h2, <1>h4 DEF CoveredBy
    <3>3. QED
      BY <3>2
  <2>2. ASSUME NEW x \in Start, x \notin S \cup T,
               pc'[x] \in {"retiring", "failed"} \/ (pc'[x] \in Leased /\ ~owner_is_current(owner[x])')
        PROVE \E t \in 1..Len(tasks') : CoveredBy(x, t)'
    <3>1. pc'[x] = pc[x] /\ (pc[x] \in {"retiring", "failed"} \/ (pc[x] \in Leased /\ ~owner_is_current(owner[x])))
      BY <2>2, <1>k, <1>h2, <1>h6
    <3>2. PICK t \in 1..Len(tasks) : CoveredBy(x, t)
      BY <3>1 DEF RetiredCovered
    <3>3. CoveredBy(x, t)' /\ t \in 1..Len(tasks')
      BY <3>2, <1>w, <1>p, <1>i, <1>h4 DEF CoveredBy
    <3>4. QED
      BY <3>3
  <2>3. QED
    BY <2>1, <2>2 DEF RetiredCovered
<1>5. PrevIsLast'
  <2>1. ASSUME NEW t \in 1..Len(tasks'), NEW l \in DOMAIN tasks'[t].fences,
               NEW p, p = tasks'[t].fences[l].prev
        PROVE  /\ p < t /\ (p # 0 => FenceOn(p, l)')
               /\ \A s \in 1..(t - 1) : s > p /\ FenceOn(s, l)' => FenceIs(s, l, "ok")'
    <3>1. /\ p \in Nat /\ p < t /\ (p # 0 => FenceOn(p, l))
          /\ \A s \in 1..(t - 1) : s \in 1..n
          /\ \A s \in 1..(t - 1) : s > p /\ FenceOn(s, l) => FenceIs(s, l, "ok")
      <4>1. CASE t \in 1..n
        <5>1. l \in DOMAIN tasks[t].fences /\ p = tasks[t].fences[l].prev
          BY <2>1, <4>1, <1>s, Zenon
        <5>2. QED
          BY <5>1, <4>1, TaskShape, SMTT(30) DEF PrevIsLast
      <4>2. CASE t = n + 1 /\ Len(tasks') = n + 1
        <5>1. l \in labels /\ p = cleanups[l]
          BY <2>1, <4>2, <1>s, Zenon
        <5>2. /\ p \in Nat /\ (p # 0 => FenceOn(p, l))
              /\ \A s \in 1..n : s > p /\ FenceOn(s, l) => FenceIs(s, l, "ok")
          BY <5>1 DEF CleanupIsLast, OwnersTypes
        <5>3. p < n + 1
          BY <5>2 DEF FenceOn
        <5>4. QED
          BY <5>2, <5>3, <4>2
      <4>3. QED
        BY <4>1, <4>2, <1>i
    <3>2. p # 0 => p \in 1..n
      BY <3>1 DEF FenceOn
    <3>3. QED
      BY <3>1, <3>2, <1>w
  <2>2. QED
    BY <2>1, Zenon DEF PrevIsLast
<1>6. CleanupIsLast'
  <2>1. ASSUME NEW l \in Label, NEW c, c = cleanups'[l]
        PROVE  /\ c # 0 => FenceOn(c, l)'
               /\ \A s \in 1..Len(tasks') : s > c /\ FenceOn(s, l)' => FenceIs(s, l, "ok")'
    <3>1. CASE Len(tasks') = n + 1 /\ l \in labels
      <4>1. c = n + 1
        BY <2>1, <3>1, <1>s
      <4>2. \A s \in 1..Len(tasks') : ~(s > c)
        BY <4>1, <3>1
      <4>3. FenceOn(c, l)'
        BY <4>1, <3>1, <1>m
      <4>4. QED
        BY <4>2, <4>3
    <3>2. CASE ~(Len(tasks') = n + 1 /\ l \in labels)
      <4>1. c = cleanups[l]
        BY <2>1, <3>2, <1>s, <1>i
      <4>2. \A s \in 1..Len(tasks') : FenceOn(s, l)' => s \in 1..n
        BY <3>2, <1>m, <1>i
      <4>3. /\ c # 0 => FenceOn(c, l) /\ c \in 1..n
            /\ \A s \in 1..n : s > c /\ FenceOn(s, l) => FenceIs(s, l, "ok")
        BY <4>1, Zenon DEF CleanupIsLast, FenceOn
      <4>4. QED
        BY <4>2, <4>3, <1>w
    <3>3. QED
      BY <3>1, <3>2
  <2>2. QED
    BY <2>1, Zenon DEF CleanupIsLast
<1>7. OkChain'
  <2>1. ASSUME NEW t \in 1..Len(tasks'), NEW l \in Label, FenceIs(t, l, "ok")'
        PROVE  /\ \A s \in 1..t : FenceOn(s, l)' => FenceIs(s, l, "ok")'
               /\ \A x \in Waits(t)' : pc'[x] = "over"
    <3>1. t \in 1..n
      BY <2>1, <1>i, <1>m
    <3>2. FenceIs(t, l, "ok") /\ \A s \in 1..t : s \in 1..n
      BY <3>1, <2>1, <1>w, <1>p
    <3>3. /\ \A s \in 1..t : FenceOn(s, l) => FenceIs(s, l, "ok")
          /\ \A x \in Waits(t) : x \in Start /\ pc[x] = "over"
      BY <1>p, <3>1, <3>2, TaskShape, Zenon DEF OkChain
    <3>4. QED
      BY <3>1, <3>2, <3>3, <1>w, <1>h1, <1>h2, Zenon DEF sessions
  <2>2. QED
    BY <2>1 DEF OkChain
<1>8. BarrierCovers'
  <2>1. ASSUME NEW y \in Start, pc[y] # "idle"
        PROVE  /\ prior[y] # 0 => FenceOn(prior[y], owner[y].label)'
               /\ \A x \in before[y] : \E t \in 1..Len(tasks') :
                    /\ FenceOn(t, owner[y].label)' /\ x \in Waits(t)'
                    /\ t <= prior[y] \/ FenceIs(t, owner[y].label, "ok")'
    <3>1. prior[y] # 0 => FenceOn(prior[y], owner[y].label)'
      <4>1. prior[y] # 0 => FenceOn(prior[y], owner[y].label) /\ prior[y] \in 1..n
        BY <1>p, <2>1, Zenon DEF BarrierCovers, FenceOn
      <4>2. QED
        BY <4>1, <1>w, <1>h4, Zenon
    <3>2. ASSUME NEW x \in before[y]
          PROVE  \E t \in 1..Len(tasks') :
                    /\ FenceOn(t, owner[y].label)' /\ x \in Waits(t)'
                    /\ t <= prior[y] \/ FenceIs(t, owner[y].label, "ok")'
      <4>1. PICK t \in 1..n : /\ FenceOn(t, owner[y].label) /\ x \in Waits(t)
                              /\ t <= prior[y] \/ FenceIs(t, owner[y].label, "ok")
        BY <1>p, <2>1, Zenon DEF BarrierCovers
      <4>2. t \in 1..Len(tasks')
        BY <1>i, <1>p
      <4>3. QED
        BY <4>1, <4>2, <1>w, <1>h4
    <3>3. QED
      BY <3>1, <3>2, Zenon
  <2>2. \A y \in Start : pc'[y] # "idle" => pc[y] # "idle"
    BY <1>k, <1>h1, <1>h2 DEF sessions
  <2>3. QED
    BY <2>1, <2>2, <1>h4, Zenon DEF BarrierCovers
<1>9. NoOverlap'
  <2>1. \A y \in Start : \A x \in before[y] : x \in Start
    BY DEF OwnersTypes
  <2>2. QED
    BY <1>k, <2>1, <1>h1, <1>h2, <1>h4, Zenon DEF NoOverlap, sessions
<1>10. QED
  BY <1>t, <1>1, <1>2, <1>3, <1>4, <1>5, <1>6, <1>7, <1>8, <1>9

\* The entry of a label as a start finds it: one never seen is created.
LEMMA SeenShape ==
    ASSUME OwnersTypes, NEW l \in Label
    PROVE  /\ webviews[l] \in Entry /\ Seen(l) \in Entry
           /\ Seen(l).generation \in Nat /\ Seen(l).generation >= 1
           /\ webviews[l].generation # 0 => Seen(l) = webviews[l]
           /\ webviews[l].generation = 0 => Seen(l).generation = 1
<1>1. webviews[l] \in Entry
  BY DEF OwnersTypes
<1>2. webviews[l].generation \in Nat
  BY <1>1 DEF Entry
<1>3. PICK e : e = [generation |-> 1, active |-> TRUE]
  BY Zenon
<1>4. e \in Entry /\ e.generation = 1
  BY <1>3 DEF Entry
<1>5. Seen(l) = IF webviews[l].generation = 0 THEN e ELSE webviews[l]
  BY <1>3, Zenon DEF Seen
<1>6. CASE webviews[l].generation = 0
  BY <1>1, <1>4, <1>5, <1>6
<1>7. CASE webviews[l].generation # 0
  BY <1>1, <1>2, <1>5, <1>7
<1>8. QED
  BY <1>6, <1>7, Zenon

\* What a step that begins the start x for the owner o does.
Begins(x, o) ==
    /\ pc[x] = "idle" /\ insert_start(x, o)
    /\ Seen(o.label).active /\ o.webview = Seen(o.label).generation
    /\ o.endpoint \in Endpoint => o.generation > 0 /\ Is(endpoints[o.endpoint], o.generation)
    /\ webviews' = [webviews EXCEPT ![o.label] = Seen(o.label)]
    /\ UNCHANGED <<slab, endpoints, cleanups, tasks, lastWindow>>

\* A start begins: it captures its owner and the fence before it.
LEMMA BeginStep ==
    ASSUME OwnersInv, NEW x \in Start, NEW o \in Owner, Begins(x, o)
    PROVE  OwnersInv'
<1> USE DEF OwnersInv
<1>h1. pc[x] = "idle"
  BY Zenon DEF Begins
<1>h2. UNCHANGED <<slab, endpoints, cleanups, tasks, lastWindow>>
  BY DEF Begins
<1>h3. webviews' = [webviews EXCEPT ![o.label] = Seen(o.label)]
  BY DEF Begins
<1>h4. /\ Seen(o.label).active /\ o.webview = Seen(o.label).generation
       /\ o.endpoint \in Endpoint => o.generation > 0 /\ Is(endpoints[o.endpoint], o.generation)
  BY Zenon DEF Begins
<1>p. PICK l \in Label : l = o.label
  BY DEF Owner
<1>s. /\ Seen(l) \in Entry /\ Seen(l).generation \in Nat /\ Seen(l).generation >= 1
      /\ webviews[l].generation # 0 => Seen(l) = webviews[l]
      /\ webviews[l].generation = 0 => Seen(l).generation = 1
  BY SeenShape
<1>k. pc \in [Start -> {"idle"} \cup Leased \cup (Later \ {"leaked"})]
  BY DEF OwnersTypes
<1>t. OwnersTypes'
  <2>1. Retired(l) \subseteq Start
    BY Zenon DEF Retired, OwnedBy
  <2>2. webviews' \in [Label -> Entry]
    BY <1>p, <1>s, <1>h3 DEF OwnersTypes
  <2>3. pc' \in [Start -> {"idle"} \cup Leased \cup (Later \ {"leaked"})]
    BY <1>k, Zenon DEF Leased, Begins, insert_start
  <2>4. owner' \in [Start -> Owner \cup {NoOwner}] /\ prior' \in [Start -> Nat]
    BY <1>p, Zenon DEF OwnersTypes, Begins, insert_start
  <2>5. before' \in [Start -> SUBSET Start]
    BY <1>p, <2>1, Zenon DEF OwnersTypes, Begins, insert_start
  <2>6. QED
    BY <2>2, <2>3, <2>4, <2>5, Zenon DEF OwnersTypes, Begins, insert_start
<1>z. \A e, g : Is(e, g) => e.generation = g
  BY DEF Is
<1>g. Grows(webviews, webviews') /\ Grows(endpoints, endpoints')
  <2>1. ASSUME NEW k \in Label
        PROVE  /\ webviews'[k].generation >= webviews[k].generation
               /\ Is(webviews'[k], webviews[k].generation) => Is(webviews[k], webviews[k].generation)
    <3>1. webviews[k].generation \in Nat
      BY DEF OwnersTypes, Entry
    <3>2. webviews'[k] = IF k = l THEN Seen(l) ELSE webviews[k]
      BY <1>p, <1>h3 DEF OwnersTypes
    <3>3. QED
      BY <3>1, <3>2, <1>s, <1>z
  <2>2. ASSUME NEW k \in Endpoint
        PROVE  endpoints'[k].generation >= endpoints[k].generation
    BY <1>h2 DEF OwnersTypes, Entry
  <2>3. DOMAIN webviews = Label /\ DOMAIN endpoints = Endpoint
    BY DEF OwnersTypes
  <2>4. QED
    BY <2>1, <2>2, <2>3, <1>h2 DEF Grows
<1>o. \A y \in Start : y # x => owner'[y] = owner[y] /\ prior'[y] = prior[y] /\ before'[y] = before[y] /\ pc'[y] = pc[y]
  BY Zenon DEF OwnersTypes, Begins, insert_start
<1>x. owner'[x] = o /\ prior'[x] = cleanups[l] /\ before'[x] = Retired(l) /\ pc'[x] = "barrier"
  BY <1>p, Zenon DEF OwnersTypes, Begins, insert_start
<1>c. ASSUME NEW y \in Start, y # x, pc[y] # "idle"
      PROVE  /\ CapturedOwner(y)'
             /\ owner_is_current(owner[y])' <=> owner_is_current(owner[y])
  <2>1. CapturedOwner(y)
    BY <1>c DEF Captured
  <2>2. /\ CapturedOwner(y)'
        /\ ~owner_is_current(owner[y]) => ~owner_is_current(owner[y])'
    BY <2>1, <1>t, <1>g, <1>o, <1>c, StaleStays
  <2>3. PICK w \in Label : w = owner[y].label
    BY <2>1 DEF CapturedOwner, Owner
  <2>4. webviews[w].generation # 0
    BY <1>c, <2>3, CapturedShape, Zenon
  <2>5. webviews'[w] = webviews[w]
    BY <2>4, <1>s, <1>p, <1>h3, Zenon DEF OwnersTypes
  <2>6. owner_is_current(owner[y]) => owner_is_current(owner[y])'
    BY <2>3, <2>5, <1>c, <1>o, <1>h2, Zenon DEF owner_is_current
  <2>7. QED
    BY <2>2, <2>6
<1>d. CapturedOwner(x)' /\ owner_is_current(owner[x])'
  <2>1. webviews'[l] = Seen(l)
    BY <1>p, <1>h3 DEF OwnersTypes
  <2>2. o.webview \in 1..webviews'[l].generation
    BY <2>1, <1>p, <1>s, <1>h4
  <2>3. o.endpoint \in Endpoint => o.generation \in 1..endpoints[o.endpoint].generation
    <3>1. o.generation \in Nat
      BY DEF Owner
    <3>2. QED
      BY <3>1, <1>z, <1>h4
  <2>4. Is(Seen(l), o.webview)
    BY <1>p, Zenon DEF Is, Begins, insert_start
  <2>5. QED
    BY <2>1, <2>2, <2>3, <2>4, <1>x, <1>p, Zenon
       DEF CapturedOwner, owner_is_current, Begins, insert_start
<1>1. Captured' /\ SlabHolds'
  <2>1. Captured'
    BY <1>c, <1>d, <1>o, Zenon DEF Captured
  <2>2. SlabHolds'
    BY <1>o, <1>x, <1>h1, <1>h2, Zenon DEF SlabHolds
  <2>3. QED
    BY <2>1, <2>2
<1>2. TrackedAreCurrent'
  BY <1>c, <1>o, <1>x, <1>h2, Zenon DEF TrackedAreCurrent, sessions
<1>3. TaskWaits'
  <2>1. ASSUME NEW t \in 1..Len(tasks), NEW y \in tasks[t].sessions
        PROVE  pc'[y] \in {"retiring", "over", "failed"}
    BY <2>1, TaskShape, <1>o, <1>h1, Zenon DEF TaskWaits
  <2>2. ASSUME NEW t \in 1..Len(tasks), NEW y \in tasks[t].starts
        PROVE  /\ pc'[y] \in Leased \cup {"over", "lost"}
               /\ pc'[y] \in Leased => ~owner_is_current(owner[y])'
    BY <2>2, TaskShape, <1>o, <1>c, <1>h1, Zenon DEF TaskWaits, Leased
  <2>3. QED
    BY <2>1, <2>2, <1>h2, Zenon DEF TaskWaits
<1>4. RetiredCovered'
  <2>1. ASSUME NEW y \in Start,
               pc'[y] \in {"retiring", "failed"} \/ (pc'[y] \in Leased /\ ~owner_is_current(owner[y])')
        PROVE  \E t \in 1..Len(tasks) : CoveredBy(y, t)'
    <3>1. y # x
      BY <2>1, <1>x, <1>d, Zenon
    <3>2. PICK t \in 1..Len(tasks) : CoveredBy(y, t)
      BY <3>1, <2>1, <1>o, <1>c, Zenon DEF RetiredCovered, Leased
    <3>3. QED
      BY <3>1, <3>2, <1>o, FencesKept, <1>h2, Zenon DEF CoveredBy
  <2>2. QED
    BY <2>1, <1>h2, Zenon DEF RetiredCovered
<1>5. PrevIsLast' /\ CleanupIsLast'
  BY FencesKept, <1>h2, Zenon DEF PrevIsLast, CleanupIsLast
<1>6. OkChain'
  <2>1. \A t \in 1..Len(tasks) : \A y \in Waits(t) : y \in Start
    BY TaskShape, Zenon
  <2>2. QED
    BY <2>1, FencesKept, <1>o, <1>h1, <1>h2, Zenon DEF OkChain
<1>7. BarrierCovers'
  <2>1. ASSUME NEW y \in Start, pc'[y] # "idle", NEW m, m = owner'[y].label, NEW p, p = prior'[y]
        PROVE  /\ p # 0 => FenceOn(p, m)
               /\ \A z \in before'[y] :
                    \E t \in 1..Len(tasks) :
                        FenceOn(t, m) /\ z \in Waits(t) /\ (t <= p \/ FenceIs(t, m, "ok"))
    <3>1. CASE y # x
      BY <3>1, <2>1, <1>o, Zenon DEF BarrierCovers
    <3>2. CASE y = x
      <4>1. m = l /\ p = cleanups[l] /\ p \in Nat
        BY <3>2, <2>1, <1>x, <1>p, Zenon DEF OwnersTypes
      <4>2. ASSUME NEW z \in Retired(l)
            PROVE \E t \in 1..Len(tasks) : FenceOn(t, l) /\ z \in Waits(t) /\ (t <= p \/ FenceIs(t, l, "ok"))
        <5>1. z \in Start /\ owner[z].label = l
          BY DEF Retired, OwnedBy
        <5>2. PICK t \in 1..Len(tasks) : CoveredBy(z, t)
          BY <5>1, <1>k DEF RetiredCovered, Retired, starts, Leased, Later
        <5>3. FenceOn(t, l) /\ z \in Waits(t)
          BY <5>1, <5>2 DEF CoveredBy
        <5>4. t \in Nat
          BY TaskShape
        <5>5. t <= p \/ FenceIs(t, l, "ok")
          BY <4>1, <5>3, <5>4 DEF CleanupIsLast
        <5>6. QED
          BY <5>3, <5>5
      <4>3. p # 0 => FenceOn(p, l)
        BY <4>1 DEF CleanupIsLast
      <4>4. QED
        BY <4>1, <4>2, <4>3, <3>2, <1>x, Zenon
    <3>3. QED
      BY <3>1, <3>2, Zenon
  <2>2. /\ \A t, k : FenceOn(t, k)' <=> FenceOn(t, k)
        /\ \A t, k, out : FenceIs(t, k, out)' <=> FenceIs(t, k, out)
        /\ \A t : Waits(t)' = Waits(t)
        /\ tasks' = tasks
    BY FencesKept, <1>h2, Zenon
  <2>3. ASSUME NEW y \in Start, pc'[y] # "idle"
        PROVE  /\ prior'[y] # 0 => FenceOn(prior[y], owner[y].label)'
               /\ \A z \in before'[y] :
                    \E t \in 1..Len(tasks) :
                        /\ FenceOn(t, owner[y].label)' /\ z \in Waits(t)'
                        /\ t <= prior'[y] \/ FenceIs(t, owner[y].label, "ok")'
    <3>1. PICK m, p : m = owner'[y].label /\ p = prior'[y]
      BY Zenon
    <3>2. /\ p # 0 => FenceOn(p, m)
          /\ \A z \in before'[y] :
               \E t \in 1..Len(tasks) :
                   FenceOn(t, m) /\ z \in Waits(t) /\ (t <= p \/ FenceIs(t, m, "ok"))
      BY <2>1, <2>3, <3>1, Zenon
    <3>3. QED
      BY <3>1, <3>2, <2>2, Zenon
  <2>4. QED
    BY <2>2, <2>3, Zenon DEF BarrierCovers
<1>8. NoOverlap'
  <2>1. \A y \in Start : \A z \in before[y] : z \in Start
    BY DEF OwnersTypes
  <2>2. QED
    BY <2>1, <1>o, <1>x, <1>h1, Zenon DEF NoOverlap
<1>9. QED
  BY <1>t, <1>1, <1>2, <1>3, <1>4, <1>5, <1>6, <1>7, <1>8

\* One element of a sequence is replaced.
LEMMA SequenceReplaced ==
    ASSUME NEW S, NEW old \in Seq(S), NEW i \in 1..Len(old), NEW e \in S,
           NEW new, new = [old EXCEPT ![i] = e]
    PROVE  /\ new \in Seq(S) /\ Len(new) = Len(old) /\ new[i] = e
           /\ \A j \in 1..Len(old) : j # i => new[j] = old[j]
  OBVIOUS

\* A fence is finished: with ok only when the one before it is and what it
\* waits for is over.
LEMMA FenceStep ==
    ASSUME OwnersInv, NEW t \in 1..Len(tasks), NEW l \in Label, FinishFence(t, l)
    PROVE  OwnersInv'
<1> USE DEF OwnersInv
<1>u. UNCHANGED <<pc, kind, owner, prior, before, slab, endpoints, webviews, lastWindow>>
  BY DEF FinishFence, startVars
<1>p. PICK v \in Outcomes : v = IF Succeeded(t) THEN "ok" ELSE "err"
  BY DEF Outcomes
<1>n. Len(tasks) \in Nat /\ t \in Nat
  BY TaskShape
<1>s. /\ Len(tasks') = Len(tasks)
      /\ \A s \in 1..Len(tasks) : s # t => tasks'[s] = tasks[s]
      /\ tasks'[t].sessions = tasks[t].sessions /\ tasks'[t].starts = tasks[t].starts
      /\ DOMAIN tasks'[t].fences = DOMAIN tasks[t].fences
      /\ \A k \in DOMAIN tasks[t].fences : tasks'[t].fences[k].prev = tasks[t].fences[k].prev
      /\ \A k \in DOMAIN tasks[t].fences : k # l => tasks'[t].fences[k].out = tasks[t].fences[k].out
      /\ tasks'[t].fences[l].out = v
      /\ tasks' \in Seq(CleanupTask)
  <2>1. PICK k \in CleanupTask : k = tasks[t]
    BY TaskShape, Zenon
  <2>2. PICK L \in SUBSET Label : k.fences \in [L -> [prev : Nat, out : Outcomes]]
    BY Zenon DEF CleanupTask, Fences
  <2>3. l \in L
    BY <2>1, <2>2 DEF FinishFence
  <2> DEFINE f == [k.fences EXCEPT ![l].out = v]
             k2 == [k EXCEPT !.fences = f]
  <2>4. tasks' = [tasks EXCEPT ![t] = k2]
    BY <2>1, <1>p DEF FinishFence
  <2>5. /\ f \in [L -> [prev : Nat, out : Outcomes]]
        /\ \A j \in L : f[j].prev = k.fences[j].prev
        /\ \A j \in L : j # l => f[j].out = k.fences[j].out
        /\ f[l].out = v
    BY <2>2, <2>3
  <2> HIDE DEF f
  <2>6. /\ k2 \in CleanupTask /\ k2.sessions = k.sessions /\ k2.starts = k.starts /\ k2.fences = f
    BY <2>5, Zenon DEF CleanupTask, Fences
  <2> HIDE DEF k2
  <2>p. PICK r \in CleanupTask : r = k2
    BY <2>6
  <2>7. /\ tasks' \in Seq(CleanupTask) /\ Len(tasks') = Len(tasks) /\ tasks'[t] = k2
        /\ \A s \in 1..Len(tasks) : s # t => tasks'[s] = tasks[s]
    <3> HIDE DEF FinishFence, OwnersInv
    <3>1. tasks \in Seq(CleanupTask) /\ tasks' = [tasks EXCEPT ![t] = r]
      BY <2>4, <2>p DEF OwnersTypes, OwnersInv
    <3>2. PICK old \in Seq(CleanupTask) : old = tasks
      BY <3>1, Zenon
    <3>n. PICK new : new = tasks'
      BY Zenon
    <3>3. new = [old EXCEPT ![t] = r] /\ t \in 1..Len(old)
      BY <3>1, <3>2, <3>n
    <3>4. /\ new \in Seq(CleanupTask) /\ Len(new) = Len(old) /\ new[t] = r
          /\ \A j \in 1..Len(old) : j # t => new[j] = old[j]
      BY <3>3, SequenceReplaced
    <3>5. QED
      BY <3>2, <3>n, <3>4, <2>p
  <2>8. QED
    BY <2>1, <2>2, <2>3, <2>5, <2>6, <2>7, Zenon
<1>w. /\ \A s \in Nat : \A k : FenceOn(s, k)' <=> FenceOn(s, k)
      /\ \A s \in 1..Len(tasks) : Waits(s)' = Waits(s)
  BY <1>s, <1>n, Zenon DEF FenceOn, Waits
<1>o. \A s \in 1..Len(tasks), k \in Label :
          FenceIs(s, k, "ok")' <=> FenceIs(s, k, "ok") \/ (s = t /\ k = l /\ v = "ok")
  BY <1>s, <1>w, <1>n DEF FenceIs, FenceOn, FinishFence
<1>i. FenceOn(t, l)
  BY DEF FenceOn, FinishFence
<1>v. ASSUME v = "ok"
      PROVE  /\ \A s \in 1..(t - 1) : FenceOn(s, l) => FenceIs(s, l, "ok")
             /\ \A x \in Waits(t) : pc[x] = "over"
  <2>1. Succeeded(t) /\ Collected(t)
    BY <1>v, <1>p DEF FinishFence
  <2>2. PICK p \in Nat : p = tasks[t].fences[l].prev
    BY TaskShape DEF FinishFence
  <2>3. /\ p < t /\ (p # 0 => FenceOn(p, l))
        /\ \A s \in 1..(t - 1) : s > p /\ FenceOn(s, l) => FenceIs(s, l, "ok")
    BY <2>2 DEF PrevIsLast, FinishFence
  <2>4. OutcomeOf(p, l) \in Previous(t)
    BY <2>2 DEF Previous, FinishFence
  <2>5. p # 0 => tasks[p].fences[l].out \in Outcomes /\ OutcomeOf(p, l) = tasks[p].fences[l].out
    BY <2>3, TaskShape, Zenon DEF FenceOn, OutcomeOf
  <2>6. p # 0 => FenceIs(p, l, "ok") /\ p \in 1..Len(tasks)
    BY <2>1, <2>3, <2>4, <2>5, Zenon DEF Succeeded, Collected, FenceIs, FenceOn, Outcomes
  <2>7. p # 0 => \A s \in 1..p : FenceOn(s, l) => FenceIs(s, l, "ok")
    BY <2>6 DEF OkChain
  <2>8. \A s \in 1..(t - 1) : FenceOn(s, l) => FenceIs(s, l, "ok")
    <3>1. ASSUME NEW s \in 1..(t - 1), FenceOn(s, l) PROVE FenceIs(s, l, "ok")
      <4>1. CASE s > p
        BY <4>1, <3>1, <2>3
      <4>2. CASE ~(s > p)
        BY <4>2, <3>1, <2>7, <1>n
      <4>3. QED
        BY <4>1, <4>2
    <3>2. QED
      BY <3>1
  <2>9. \A x \in tasks[t].sessions : pc[x] = "over"
    BY <2>1, Zenon DEF TaskWaits, Succeeded, Collected
  <2>10. \A x \in tasks[t].starts : pc[x] = "over"
    BY <2>1, Zenon DEF TaskWaits, Succeeded, Collected
  <2>11. QED
    BY <2>8, <2>9, <2>10, Zenon DEF Waits
<1>t. OwnersTypes'
  BY <1>s, <1>u DEF OwnersTypes, FinishFence
<1>c. \A y \in Start : /\ owner_is_current(owner[y])' <=> owner_is_current(owner[y])
                       /\ CapturedOwner(y)' <=> CapturedOwner(y)
  BY <1>u, Zenon DEF owner_is_current, Is, CapturedOwner
<1>1. Captured' /\ SlabHolds' /\ TrackedAreCurrent' /\ NoOverlap'
  BY <1>c, <1>u, Zenon DEF Captured, SlabHolds, TrackedAreCurrent, NoOverlap, sessions
<1>2. TaskWaits'
  <2>1. \A s \in 1..Len(tasks) : tasks'[s].sessions = tasks[s].sessions /\ tasks'[s].starts = tasks[s].starts
    BY <1>s, Zenon
  <2>2. \A s \in 1..Len(tasks) : \A y \in tasks[s].starts : y \in Start
    BY TaskShape, Zenon
  <2>3. QED
    BY <1>s, <2>1, <2>2, <1>c, <1>u, Zenon DEF TaskWaits
<1>3. RetiredCovered'
  BY <1>c, <1>w, <1>s, <1>n, <1>u DEF RetiredCovered, CoveredBy, FinishFence
<1>4. PrevIsLast'
  <2>1. ASSUME NEW s \in 1..Len(tasks), NEW k \in DOMAIN tasks'[s].fences, NEW p, p = tasks'[s].fences[k].prev
        PROVE  /\ p < s /\ (p # 0 => FenceOn(p, k)')
               /\ \A r \in 1..(s - 1) : r > p /\ FenceOn(r, k)' => FenceIs(r, k, "ok")'
    <3>1. k \in DOMAIN tasks[s].fences /\ p = tasks[s].fences[k].prev
      BY <2>1, <1>s, Zenon
    <3>2. p \in Nat /\ k \in Label
      BY <3>1, TaskShape, Zenon
    <3>3. /\ p < s /\ (p # 0 => FenceOn(p, k))
          /\ \A r \in 1..(s - 1) : r > p /\ FenceOn(r, k) => FenceIs(r, k, "ok")
      BY <3>1, Zenon DEF PrevIsLast
    <3>4. \A r \in 1..(s - 1) : r \in 1..Len(tasks) /\ r \in Nat
      BY <1>n
    <3>5. QED
      BY <3>2, <3>3, <3>4, <1>w, <1>o, Zenon
  <2>2. QED
    BY <2>1, <1>s, Zenon DEF PrevIsLast
<1>5. CleanupIsLast'
  <2>1. ASSUME NEW k \in Label, NEW c, c = cleanups'[k]
        PROVE  /\ c # 0 => FenceOn(c, k)'
               /\ \A s \in 1..Len(tasks) : s > c /\ FenceOn(s, k)' => FenceIs(s, k, "ok")'
    <3>1. /\ cleanups[k] \in Nat /\ (cleanups[k] # 0 => FenceOn(cleanups[k], k))
          /\ \A s \in 1..Len(tasks) : s > cleanups[k] /\ FenceOn(s, k) => FenceIs(s, k, "ok")
      BY Zenon DEF CleanupIsLast, OwnersTypes
    <3>2. CASE c = cleanups[k]
      <4>1. c \in Nat /\ (c # 0 => FenceOn(c, k)')
        BY <3>1, <3>2, <1>w
      <4>2. QED
        BY <4>1, <3>1, <3>2, <1>w, <1>o, <1>n
    <3>3. CASE c # cleanups[k]
      <4>1. k = l /\ c = 0 /\ cleanups[l] = t /\ v = "ok"
        BY <3>3, <2>1, <1>p DEF OwnersTypes, FinishFence
      <4>2. ASSUME NEW s \in 1..Len(tasks), FenceOn(s, l) PROVE FenceIs(s, l, "ok")'
        <5>1. CASE s > t
          BY <5>1, <4>1, <4>2, <3>1, <1>o
        <5>2. CASE s = t
          BY <5>2, <4>1, <1>o
        <5>3. CASE s < t
          BY <5>3, <4>1, <4>2, <1>v, <1>o, <1>n
        <5>4. QED
          BY <5>1, <5>2, <5>3, <1>n
      <4>3. QED
        BY <4>1, <4>2, <1>w, <1>n
    <3>4. QED
      BY <3>2, <3>3
  <2>2. QED
    BY <2>1, <1>s, Zenon DEF CleanupIsLast
<1>6. OkChain'
  <2>1. ASSUME NEW s \in 1..Len(tasks), NEW k \in Label, FenceIs(s, k, "ok")'
        PROVE  /\ \A r \in 1..s : FenceOn(r, k)' => FenceIs(r, k, "ok")'
               /\ \A x \in Waits(s) : pc[x] = "over"
    <3>0. \A r \in 1..s : r \in 1..Len(tasks) /\ r \in Nat
      BY <1>n
    <3>1. CASE FenceIs(s, k, "ok")
      <4>1. /\ \A r \in 1..s : FenceOn(r, k) => FenceIs(r, k, "ok")
            /\ \A x \in Waits(s) : pc[x] = "over"
        BY <3>1 DEF OkChain
      <4>2. QED
        BY <4>1, <3>0, <1>w, <1>o
    <3>2. CASE s = t /\ k = l /\ v = "ok"
      <4>1. ASSUME NEW r \in 1..t, FenceOn(r, l) PROVE FenceIs(r, l, "ok")'
        <5>1. CASE r = t
          BY <5>1, <3>2, <1>o
        <5>2. CASE r # t
          BY <5>2, <3>2, <4>1, <1>v, <1>o, <1>n
        <5>3. QED
          BY <5>1, <5>2
      <4>2. QED
        BY <4>1, <3>0, <3>2, <1>v, <1>w
    <3>3. QED
      BY <3>1, <3>2, <2>1, <1>o
  <2>2. Len(tasks') = Len(tasks) /\ pc' = pc /\ \A s \in 1..Len(tasks) : Waits(s)' = Waits(s)
    BY <1>s, <1>w, <1>u, Zenon
  <2>3. QED
    BY <2>1, <2>2, Zenon DEF OkChain
<1>7. BarrierCovers'
  <2>1. ASSUME NEW y \in Start, pc[y] # "idle", NEW m, m = owner[y].label, NEW p, p = prior[y]
        PROVE  /\ p # 0 => FenceOn(p, m)'
               /\ \A z \in before[y] :
                    \E s \in 1..Len(tasks) :
                        FenceOn(s, m)' /\ z \in Waits(s)' /\ (s <= p \/ FenceIs(s, m, "ok")')
    <3>1. p \in Nat /\ m \in Label
      BY <2>1, Zenon DEF Captured, CapturedOwner, Owner, OwnersTypes
    <3>2. /\ p # 0 => FenceOn(p, m)
          /\ \A z \in before[y] :
               \E s \in 1..Len(tasks) :
                   FenceOn(s, m) /\ z \in Waits(s) /\ (s <= p \/ FenceIs(s, m, "ok"))
      BY <2>1, Zenon DEF BarrierCovers
    <3>3. \A s \in 1..Len(tasks) : s \in Nat
      OBVIOUS
    <3>4. QED
      BY <3>1, <3>2, <3>3, <1>w, <1>o, Zenon
  <2>2. QED
    BY <2>1, <1>s, <1>u, Zenon DEF BarrierCovers
<1>8. QED
  BY <1>t, <1>1, <1>2, <1>3, <1>4, <1>5, <1>6, <1>7

-----------------------------------------------------------------------------
\* Entries that stay or go to the next generation grow.
LEMMA Advanced ==
    ASSUME NEW D, NEW f \in [D -> Entry], NEW g \in [D -> Entry],
           \A k \in D : g[k] = f[k] \/ g[k].generation = f[k].generation + 1
    PROVE  Grows(f, g)
<1>1. \A e, w : Is(e, w) => e.generation = w
  BY DEF Is
<1>2. ASSUME NEW k \in D
      PROVE  /\ g[k].generation >= f[k].generation
             /\ Is(g[k], f[k].generation) => Is(f[k], f[k].generation)
  <2>1. f[k].generation \in Nat
    BY DEF Entry
  <2>2. QED
    BY <1>1, <2>1
<1>3. QED
  BY <1>2 DEF Grows

\* What next_generation makes of an entry: the old generation is no longer
\* current.
LEMMA NextGeneration ==
    ASSUME NEW e \in Entry, NEW b \in BOOLEAN
    PROVE  /\ next_generation(e, b) \in Entry
           /\ next_generation(e, b).generation = e.generation + 1
           /\ \A w : ~Is(next_generation(e, FALSE), w)
           /\ \A w \in Nat : w <= e.generation => ~Is(next_generation(e, b), w)
<1>1. e.generation \in Nat
  BY DEF Entry
<1>2. next_generation(e, b) \in Entry /\ next_generation(e, b).generation = e.generation + 1
  BY <1>1 DEF next_generation, Entry
<1>3. \A w : ~Is(next_generation(e, FALSE), w)
  BY DEF next_generation, Is
<1>4. \A w \in Nat : Is(next_generation(e, b), w) => e.generation + 1 = w
  BY <1>2 DEF Is
<1>5. \A w \in Nat : w <= e.generation => ~Is(next_generation(e, b), w)
  BY <1>4, <1>1
<1>6. QED
  BY <1>2, <1>3, <1>5, Zenon

\* Retiring what W owns, when exactly the owners in W become stale.
LEMMA RetireStep ==
    ASSUME OwnersInv, NEW labels \in SUBSET Label, NEW W \in SUBSET Start,
           Retire(labels, W),
           \A x \in W \cap (sessions \cup starts) : owner[x].label \in labels,
           lastWindow' \in BOOLEAN,
           endpoints' \in [Endpoint -> Entry], webviews' \in [Label -> Entry],
           Grows(endpoints, endpoints'), Grows(webviews, webviews'),
           \A x \in Start : pc[x] # "idle" /\ x \notin W /\ owner_is_current(owner[x])
                => owner_is_current(owner[x])',
           \A x \in W : pc[x] # "idle" => ~owner_is_current(owner[x])'
    PROVE  OwnersInv'
<1> USE DEF OwnersInv
<1>p. PICK S \in SUBSET Start, T \in SUBSET Start : S = W \cap sessions /\ T = W \cap starts
  BY Zenon
<1>1. /\ S \subseteq sessions /\ T \subseteq starts
      /\ \A x \in S \cup T : owner[x].label \in labels
  BY <1>p, Zenon
<1>2. pc' = [x \in Start |-> IF x \in S THEN "retiring" ELSE pc[x]]
  <2>1. S \subseteq slab
    BY <1>p, Zenon DEF TrackedAreCurrent
  <2>2. pc' = [x \in Start |-> IF x \notin S THEN pc[x] ELSE IF x \in slab THEN "retiring" ELSE "leaked"]
    BY <1>p, Zenon DEF Retire, prepare_retirement
  <2>3. QED
    BY <2>1, <2>2, Zenon
<1>3. slab' \subseteq slab /\ \A x \in slab : x \notin S => x \in slab'
  BY <1>p, Zenon DEF Retire, prepare_retirement
<1>4. IF labels = {} THEN UNCHANGED <<tasks, cleanups>> ELSE install_owner_cleanups(labels, S, T)
  BY <1>p, Zenon DEF Retire
<1>5. UNCHANGED startVars
  BY Zenon DEF Retire
<1>6. \A x \in Start : pc[x] \in Leased \cup {"tracked"} /\ x \notin S \cup T /\ owner_is_current(owner[x])
          => owner_is_current(owner[x])'
  BY <1>p, Zenon DEF sessions, starts, Leased
<1>7. \A x \in T : ~owner_is_current(owner[x])'
  BY <1>p, Zenon DEF starts, Leased
<1>8. Installs(labels, S, T)
  BY <1>1, <1>2, <1>3, <1>4, <1>5, <1>6, <1>7, Zenon DEF Installs
<1>9. QED
  <2> HIDE DEF OwnersInv
  <2>1. QED
    BY <1>8, InstallStep, Zenon

\* matching_owner_labels names the label of everything it matches.
LEMMA OwnerLabels ==
    ASSUME OwnersInv, NEW W
    PROVE  /\ matching_owner_labels(W) \in SUBSET Label
           /\ \A x \in W \cap (sessions \cup starts) : owner[x].label \in matching_owner_labels(W)
<1>1. \A x \in sessions \cup starts : owner[x].label \in Label
  BY Zenon DEF OwnersInv, Captured, CapturedOwner, Owner, sessions, starts, Leased
<1>2. QED
  BY <1>1 DEF matching_owner_labels

\* Closing an endpoint keeps the invariant.
LEMMA RetireEndpoint ==
    ASSUME OwnersInv, NEW e \in Endpoint, retire_endpoint_discovery_sessions(e)
    PROVE  OwnersInv'
<1> USE DEF OwnersInv, retire_endpoint_discovery_sessions, retire_endpoint
<1>1. PICK n \in Entry : n = next_generation(endpoints[e], FALSE)
  BY NextGeneration, Zenon DEF OwnersTypes
<1>2. n.generation = endpoints[e].generation + 1 /\ \A w : ~Is(n, w)
  BY <1>1, NextGeneration, Zenon DEF OwnersTypes
<1>3. endpoints' = [endpoints EXCEPT ![e] = n]
  BY <1>1
<1>4. endpoints' \in [Endpoint -> Entry] /\ Grows(endpoints, endpoints')
  <2>1. endpoints' \in [Endpoint -> Entry]
    BY <1>3, Zenon DEF OwnersTypes
  <2>2. \A k \in Endpoint : endpoints'[k] = endpoints[k] \/ endpoints'[k].generation = endpoints[k].generation + 1
    BY <1>2, <1>3, Zenon DEF OwnersTypes
  <2>3. endpoints \in [Endpoint -> Entry]
    BY DEF OwnersTypes
  <2>4. QED
    BY <2>1, <2>2, <2>3, Advanced, Zenon
<1>5. webviews' \in [Label -> Entry] /\ Grows(webviews, webviews') /\ lastWindow' \in BOOLEAN
  BY Advanced, Zenon DEF OwnersTypes
<1>6. OfEndpoint(e) \in SUBSET Start
  BY DEF OfEndpoint
<1>7. UNCHANGED owner
  BY DEF Retire, startVars
<1>8. \A x \in Start : pc[x] # "idle" /\ x \notin OfEndpoint(e) /\ owner_is_current(owner[x])
          => owner_is_current(owner[x])'
  BY <1>3, <1>7, Zenon DEF OfEndpoint, owner_is_current, OwnersTypes
<1>9. \A x \in OfEndpoint(e) : pc[x] # "idle" => ~owner_is_current(owner[x])'
  <2>1. endpoints'[e] = n
    BY <1>3, Zenon DEF OwnersTypes
  <2>2. QED
    BY <2>1, <1>2, <1>7, Zenon DEF OfEndpoint, owner_is_current
<1>10. QED
  BY <1>4, <1>5, <1>6, <1>8, <1>9, OwnerLabels, RetireStep, Zenon

\* Retiring a webview's generation keeps the invariant.
LEMMA RetireWebview ==
    ASSUME OwnersInv, NEW l \in Label, NEW b \in BOOLEAN,
           webviews' = [webviews EXCEPT ![l] = next_generation(@, b)],
           Retire({l}, OwnedBy(l)), UNCHANGED endpoints, lastWindow' \in BOOLEAN
    PROVE  OwnersInv'
<1> USE DEF OwnersInv
<1>1. PICK n \in Entry : n = next_generation(webviews[l], b)
  BY NextGeneration, Zenon DEF OwnersTypes
<1>2. /\ n.generation = webviews[l].generation + 1
      /\ \A w \in Nat : w <= webviews[l].generation => ~Is(n, w)
  BY <1>1, NextGeneration, Zenon DEF OwnersTypes
<1>3. webviews' = [webviews EXCEPT ![l] = n]
  BY <1>1
<1>4. webviews' \in [Label -> Entry] /\ Grows(webviews, webviews')
  <2>1. webviews' \in [Label -> Entry]
    BY <1>3, Zenon DEF OwnersTypes
  <2>2. \A k \in Label : webviews'[k] = webviews[k] \/ webviews'[k].generation = webviews[k].generation + 1
    BY <1>2, <1>3, Zenon DEF OwnersTypes
  <2>3. webviews \in [Label -> Entry]
    BY DEF OwnersTypes
  <2>4. QED
    BY <2>1, <2>2, <2>3, Advanced, Zenon
<1>5. endpoints' \in [Endpoint -> Entry] /\ Grows(endpoints, endpoints')
  BY Advanced, Zenon DEF OwnersTypes
<1>6. /\ OwnedBy(l) \in SUBSET Start /\ {l} \in SUBSET Label
      /\ \A x \in OwnedBy(l) \cap (sessions \cup starts) : owner[x].label \in {l}
  BY Zenon DEF OwnedBy
<1>7. UNCHANGED owner
  BY DEF Retire, startVars
<1>8. \A x \in Start : pc[x] # "idle" /\ x \notin OwnedBy(l) /\ owner_is_current(owner[x])
          => owner_is_current(owner[x])'
  BY <1>3, <1>7, CapturedShape, Zenon DEF OwnedBy, owner_is_current, OwnersTypes
<1>9. \A x \in OwnedBy(l) : pc[x] # "idle" => ~owner_is_current(owner[x])'
  BY <1>2, <1>3, <1>7, CapturedShape, ZenonT(30) DEF OwnedBy, owner_is_current, OwnersTypes
<1>10. QED
  BY <1>4, <1>5, <1>6, <1>8, <1>9, RetireStep, Zenon

\* After the bump of every generation in use no captured one is current.
LEMMA BumpedShape ==
    ASSUME NEW D, NEW f \in [D -> Entry]
    PROVE  /\ Bumped(f) \in [D -> Entry] /\ Grows(f, Bumped(f))
           /\ \A k \in D : f[k].generation # 0 => \A w : ~Is(Bumped(f)[k], w)
<1>1. Bumped(f) = [k \in D |-> IF f[k].generation = 0 THEN f[k] ELSE next_generation(f[k], FALSE)]
  BY DEF Bumped
<1>2. \A k \in D : next_generation(f[k], FALSE) \in Entry
  BY NextGeneration, Zenon
<1>3. Bumped(f) \in [D -> Entry]
  BY <1>1, <1>2, Zenon
<1>4. \A k \in D : Bumped(f)[k] = f[k] \/ Bumped(f)[k].generation = f[k].generation + 1
  BY <1>1, NextGeneration, Zenon
<1>5. \A k \in D : f[k].generation # 0 => \A w : ~Is(Bumped(f)[k], w)
  BY <1>1, NextGeneration, ZenonT(30)
<1>6. QED
  BY <1>3, <1>4, <1>5, Advanced, Zenon

\* Retiring everything keeps the invariant.
LEMMA RetireAll ==
    ASSUME OwnersInv, retire_all_discovery_sessions
    PROVE  OwnersInv'
<1> USE DEF OwnersInv, retire_all_discovery_sessions, retire_all
<1>1. /\ endpoints' \in [Endpoint -> Entry] /\ Grows(endpoints, endpoints')
      /\ webviews' \in [Label -> Entry] /\ Grows(webviews, webviews')
      /\ \A k \in Label : webviews[k].generation # 0 => \A w : ~Is(webviews'[k], w)
  BY BumpedShape, Zenon DEF OwnersTypes
<1>2. UNCHANGED owner
  BY DEF Retire, startVars
<1>3. \A x \in Start : pc[x] # "idle" => webviews[owner[x].label].generation # 0 /\ owner[x].label \in Label
  <2>1. ASSUME NEW x \in Start, pc[x] # "idle"
        PROVE  webviews[owner[x].label].generation # 0 /\ owner[x].label \in Label
    BY <2>1, CapturedShape, Zenon
  <2>2. QED
    BY <2>1, Zenon
<1>4. \A x \in Start : pc[x] # "idle" => ~owner_is_current(owner[x])'
  BY <1>1, <1>2, <1>3, Zenon DEF owner_is_current
<1>5. QED
  BY <1>1, <1>4, OwnerLabels, RetireStep, Zenon

\* Closing one session, or its ending by itself, keeps the invariant.
LEMMA OwnedCloses ==
    ASSUME OwnersInv, NEW x \in Start, SessionClose(x) \/ SessionEnds(x)
    PROVE  OwnersInv'
<1> USE DEF OwnersInv, begin_session_cleanup
<1>1. /\ x \in sessions /\ x \in slab /\ pc[x] = "tracked"
      /\ install_owner_cleanups({owner[x].label}, {x}, {})
      /\ UNCHANGED <<startVars, endpoints, webviews, lastWindow>>
  BY Zenon DEF SessionClose, SessionEnds, TrackedAreCurrent, sessions
<1>2. owner[x].label \in Label
  BY <1>1, CapturedShape, Zenon
<1>3. pc' = [y \in Start |-> IF y \in {x} THEN "retiring" ELSE pc[y]]
  BY <1>1, Zenon DEF SessionClose, SessionEnds, prepare_retirement, OwnersTypes
<1>4. slab' \subseteq slab /\ \A y \in slab : y \notin {x} => y \in slab'
  BY DEF SessionClose, SessionEnds, prepare_retirement
<1>5. endpoints' \in [Endpoint -> Entry] /\ webviews' \in [Label -> Entry] /\ lastWindow' \in BOOLEAN
  BY <1>1, Zenon DEF OwnersTypes
<1>6. Grows(endpoints, endpoints') /\ Grows(webviews, webviews')
  <2>1. endpoints \in [Endpoint -> Entry] /\ webviews \in [Label -> Entry]
    BY DEF OwnersTypes
  <2>2. QED
    BY <1>1, <1>5, <2>1, Advanced, Zenon
<1>7. \A y \in Start : owner_is_current(owner[y]) => owner_is_current(owner[y])'
  BY <1>1, Zenon DEF owner_is_current, startVars
<1>8. PICK labels \in SUBSET Label, S \in SUBSET Start, T \in SUBSET Start :
          labels = {owner[x].label} /\ S = {x} /\ T = {}
  BY <1>2, Zenon
<1>9. /\ S \subseteq sessions /\ T \subseteq starts /\ \A y \in S \cup T : owner[y].label \in labels
      /\ IF labels = {} THEN UNCHANGED <<tasks, cleanups>> ELSE install_owner_cleanups(labels, S, T)
  BY <1>1, <1>8, Zenon
<1>10. Installs(labels, S, T)
  BY <1>1, <1>3, <1>4, <1>5, <1>6, <1>7, <1>8, <1>9, Zenon DEF Installs
<1>11. QED
  <2> HIDE DEF OwnersInv
  <2>1. QED
    BY <1>10, InstallStep

\* New generation entries that leave no owner stale keep the invariant.
LEMMA EntriesStep ==
    ASSUME OwnersInv, UNCHANGED <<pc, startVars, slab, cleanups, tasks, lastWindow>>,
           endpoints' \in [Endpoint -> Entry], webviews' \in [Label -> Entry],
           Grows(endpoints, endpoints'), Grows(webviews, webviews'),
           \A x \in Start : pc[x] # "idle" /\ owner_is_current(owner[x]) => owner_is_current(owner[x])'
    PROVE  OwnersInv'
<1>t. OwnersTypes
  BY Zenon DEF OwnersInv
<1>1. PICK labels \in SUBSET Label, S \in SUBSET Start, T \in SUBSET Start :
          labels = {} /\ S = {} /\ T = {}
  BY Zenon
<1>2. pc' = [y \in Start |-> IF y \in S THEN "retiring" ELSE pc[y]]
  BY <1>1, <1>t, Zenon DEF OwnersTypes
<1>3. \A x \in Start : pc[x] \in Leased \cup {"tracked"} /\ x \notin S \cup T /\ owner_is_current(owner[x])
          => owner_is_current(owner[x])'
  BY Zenon DEF Leased
<1>4. lastWindow' \in BOOLEAN
  BY <1>t, Zenon DEF OwnersTypes
<1>5. Installs(labels, S, T)
  BY <1>1, <1>2, <1>3, <1>4, Zenon DEF Installs
<1>6. QED
  BY <1>5, InstallStep, Zenon

\* Activating an endpoint keeps the invariant.
LEMMA ActivateEndpoint ==
    ASSUME OwnersInv, NEW e \in Endpoint, activate_endpoint(e)
    PROVE  OwnersInv'
<1>t. endpoints \in [Endpoint -> Entry] /\ webviews \in [Label -> Entry]
  BY Zenon DEF OwnersInv, OwnersTypes
<1>u. UNCHANGED <<pc, startVars, slab, cleanups, tasks, lastWindow>> /\ webviews' = webviews
  BY Zenon DEF activate_endpoint
<1>1. PICK n \in Entry : n = next_generation(endpoints[e], TRUE)
  BY <1>t, NextGeneration
<1>2. n.generation = endpoints[e].generation + 1
  BY <1>1, <1>t, NextGeneration
<1>3. endpoints' = [endpoints EXCEPT ![e] = n]
  BY <1>1 DEF activate_endpoint
<1>4. endpoints'[e] = n /\ \A k \in Endpoint : k # e => endpoints'[k] = endpoints[k]
  BY <1>3, <1>t
<1>5. endpoints' \in [Endpoint -> Entry] /\ webviews' \in [Label -> Entry]
  BY <1>3, <1>t, <1>u
<1>6. \A k \in Endpoint : endpoints'[k] = endpoints[k] \/ endpoints'[k].generation = endpoints[k].generation + 1
  BY <1>2, <1>4, Zenon
<1>7. Grows(endpoints, endpoints') /\ Grows(webviews, webviews')
  <2>1. Grows(endpoints, endpoints')
    BY <1>t, <1>5, <1>6, Advanced
  <2>2. Grows(webviews, webviews')
    BY <1>t, <1>5, <1>u, Advanced
  <2>3. QED
    BY <2>1, <2>2, Zenon
<1>8. \A x \in Start : owner_is_current(owner[x]) => owner_is_current(owner[x])'
  <2>1. \A w : ~Is(endpoints[e], w)
    BY Zenon DEF activate_endpoint, Is
  <2>2. QED
    BY <2>1, <1>4, <1>u, Zenon DEF owner_is_current, startVars
<1>9. QED
  BY <1>5, <1>7, <1>8, <1>u, EntriesStep, Zenon

\* Beginning a start, of a webview or of a peer on an endpoint, keeps the
\* invariant.
LEMMA BeginLease ==
    ASSUME OwnersInv, NEW x \in Start, NEW l \in Label,
           \/ begin_webview_start(x, l)
           \/ \E e \in Endpoint : begin_peer_start(x, l, e)
    PROVE  OwnersInv'
<1>t. OwnersTypes
  BY DEF OwnersInv
<1>0. /\ webviews[l] \in Entry /\ Seen(l) \in Entry /\ Seen(l).generation \in Nat
      /\ webviews[l].generation # 0 => Seen(l) = webviews[l]
      /\ webviews[l].generation = 0 => Seen(l).generation = 1
  BY SeenShape, Zenon DEF OwnersInv
<1>1. CASE begin_webview_start(x, l)
  <2>1. PICK o \in Owner : o = [label |-> l, webview |-> Seen(l).generation, endpoint |-> NoEndpoint, generation |-> 0]
    BY <1>0, Zenon DEF Owner
  <2>2. Begins(x, o)
    BY <1>1, <2>1, OwnershipAssumption, Zenon DEF begin_webview_start, Begins
  <2>3. QED
    BY <2>2, BeginStep
<1>2. CASE \E e \in Endpoint : begin_peer_start(x, l, e)
  <2>1. PICK e \in Endpoint : begin_peer_start(x, l, e)
    BY <1>2
  <2>2. endpoints[e] \in Entry /\ endpoints[e].generation \in Nat
    BY <1>t, Zenon DEF OwnersTypes, Entry
  <2>3. CASE endpoints[e].active /\ Seen(l).active
    <3>1. PICK o \in Owner : o = [label |-> l, webview |-> Seen(l).generation, endpoint |-> e, generation |-> endpoints[e].generation]
      BY <1>0, <2>2, Zenon DEF Owner
    <3>2. o.label = l /\ o.webview = Seen(l).generation /\ o.endpoint = e /\ o.generation = endpoints[e].generation
      BY <3>1, Zenon
    <3>3. insert_start(x, o)
      BY <2>1, <2>3, <3>1, Zenon DEF begin_peer_start
    <3>4. /\ pc[x] = "idle" /\ webviews' = [webviews EXCEPT ![l] = Seen(l)]
          /\ UNCHANGED <<slab, endpoints, cleanups, tasks, lastWindow>>
          /\ endpoints[e].generation > 0
      BY <2>1, Zenon DEF begin_peer_start
    <3>5. Is(endpoints[e], endpoints[e].generation)
      BY <2>3 DEF Is
    <3>6. Begins(x, o)
      BY <2>3, <3>2, <3>3, <3>4, <3>5, Zenon DEF Begins
    <3>7. QED
      BY <3>6, BeginStep
  <2>4. CASE ~(endpoints[e].active /\ Seen(l).active)
    <3>1. /\ UNCHANGED <<pc, startVars, slab, endpoints, cleanups, tasks, lastWindow>>
          /\ webviews' = [webviews EXCEPT ![l] = Seen(l)]
      BY <2>1, <2>4, Zenon DEF begin_peer_start
    <3>2. endpoints \in [Endpoint -> Entry] /\ webviews \in [Label -> Entry]
      BY <1>t, Zenon DEF OwnersTypes
    <3>3. endpoints' \in [Endpoint -> Entry] /\ webviews' \in [Label -> Entry]
      BY <3>1, <3>2, <1>0, Zenon
    <3>4. \A k \in Label : webviews'[k] = webviews[k] \/ webviews'[k].generation = webviews[k].generation + 1
      BY <3>1, <3>2, <1>0
    <3>5. Grows(endpoints, endpoints') /\ Grows(webviews, webviews')
      BY <3>1, <3>2, <3>3, <3>4, Advanced, Zenon
    <3>6. ASSUME NEW y \in Start, pc[y] # "idle", owner_is_current(owner[y])
          PROVE  owner_is_current(owner[y])'
      <4>1. webviews[owner[y].label].generation # 0 /\ owner[y].label \in Label
        BY <3>6, CapturedShape, Zenon
      <4>2. webviews'[owner[y].label] = webviews[owner[y].label]
        BY <4>1, <3>1, <3>2, <1>0, Zenon
      <4>3. QED
        BY <4>2, <3>1, <3>6, Zenon DEF owner_is_current, startVars
    <3>7. QED
      BY <3>1, <3>3, <3>5, <3>6, EntriesStep, Zenon
  <2>5. QED
    BY <2>3, <2>4
<1>3. QED
  BY <1>1, <1>2

\* The steps of one start keep the invariant.
LEMMA StartStep ==
    ASSUME OwnersInv, NEW x \in Start, StartSteps(x)
    PROVE  OwnersInv'
<1>0. x \in slab => pc[x] \in {"tracked", "retiring"}
  BY DEF OwnersInv, SlabHolds
<1>s. slab \in SUBSET Start
  BY DEF OwnersInv, OwnersTypes
<1>1. CASE PassBarrier(x)
  BY <1>0, <1>s, <1>1, MoveStep, Zenon DEF PassBarrier, StartGoto, Leased
<1>2. CASE Refuse(x)
  BY <1>0, <1>s, <1>2, MoveStep, Zenon DEF Refuse, StartGoto, Leased
<1>3. CASE mobile_interface_ips(x)
  BY <1>0, <1>s, <1>3, MoveStep, Zenon DEF mobile_interface_ips, StartGoto, Leased
<1>4. CASE detached_mobile_native_start(x)
  BY <1>0, <1>s, <1>4, MoveStep, Zenon DEF detached_mobile_native_start, StartGoto, Leased
<1>5. CASE Abort(x)
  BY <1>0, <1>s, <1>5, MoveStep, Zenon DEF Abort, StartGoto, Leased
<1>6. ASSUME NEW accepted \in BOOLEAN, Publish(x, accepted) PROVE OwnersInv'
  <2>1. CASE accepted /\ owner_is_current(owner[x])
    BY <1>0, <1>s, <1>6, <2>1, MoveStep, Zenon DEF Publish, StartGoto
  <2>2. CASE ~(accepted /\ owner_is_current(owner[x]))
    BY <1>0, <1>s, <1>6, <2>2, MoveStep, Zenon DEF Publish, StartGoto, Leased
  <2>3. QED
    BY <2>1, <2>2
<1>7. CASE reconcile_cleanup(x)
  BY <1>0, <1>s, <1>7, MoveStep, Zenon DEF reconcile_cleanup, StartGoto, Leased
<1>8. QED
  BY <1>1, <1>2, <1>3, <1>4, <1>5, <1>6, <1>7 DEF StartSteps

\* The commands of one start keep the invariant.
LEMMA CommandStep ==
    ASSUME OwnersInv, NEW x \in Start, Commands(x)
    PROVE  OwnersInv'
<1>1. CASE browse_peers(x) \/ advertise_peer(x)
  BY <1>1, BeginLease, StartStep DEF browse_peers, advertise_peer, PeerStart
<1>2. CASE advertise(x) \/ browse(x)
  BY <1>2, BeginLease, StartStep DEF advertise, browse, WebviewStart
<1>3. CASE browse_peers_close(x) \/ advertise_peer_close(x) \/ advertise_close(x) \/ browse_close(x)
  BY <1>3, OwnedCloses DEF browse_peers_close, advertise_peer_close, advertise_close, browse_close
<1>4. CASE browse_peers_next(x) \/ browse_next(x) \/ RefreshEnds(x)
  BY <1>4, OwnedCloses DEF browse_peers_next, browse_next, RefreshEnds
<1>5. CASE NativeClosed(x)
  <2>1. slab \in SUBSET Start
    BY DEF OwnersInv, OwnersTypes
  <2>2. QED
    BY <1>5, <2>1, MoveStep, Zenon DEF NativeClosed, StartGoto
<1>6. QED
  BY <1>1, <1>2, <1>3, <1>4, <1>5 DEF Commands

\* The invariant holds initially.
LEMMA OwnersInitially == OwnersInit => OwnersInv
<1> SUFFICES ASSUME OwnersInit PROVE OwnersInv
  OBVIOUS
<1> USE DEF OwnersInit
<1>1. OwnersTypes
  <2>1. [generation |-> 0, active |-> FALSE] \in Entry
    BY Zenon DEF Entry
  <2>2. tasks \in Seq(CleanupTask) /\ kind \in [Start -> Kinds]
    BY OwnershipAssumption
  <2>3. QED
    BY <2>1, <2>2, Zenon DEF OwnersTypes
<1>2. Len(tasks) = 0 /\ \A t : t \notin 1..Len(tasks)
  OBVIOUS
<1>3. \A t, l : ~FenceOn(t, l)
  BY <1>2, Zenon DEF FenceOn
<1>4. Captured /\ SlabHolds /\ TrackedAreCurrent /\ TaskWaits /\ RetiredCovered /\ NoOverlap
  BY <1>2, Zenon
     DEF Captured, SlabHolds, TrackedAreCurrent, TaskWaits, RetiredCovered, NoOverlap, sessions,
         Leased
<1>5. PrevIsLast /\ CleanupIsLast /\ OkChain /\ BarrierCovers
  BY <1>2, <1>3, Zenon DEF PrevIsLast, CleanupIsLast, OkChain, BarrierCovers
<1>6. QED
  BY <1>1, <1>4, <1>5, Zenon DEF OwnersInv

\* Every step keeps the invariant.
LEMMA OwnersInductive == OwnersInv /\ [OwnersNext]_ownersVars => OwnersInv'
<1> SUFFICES ASSUME OwnersInv, [OwnersNext]_ownersVars PROVE OwnersInv'
  OBVIOUS
<1>1. CASE UNCHANGED ownersVars
  <2>1. UNCHANGED <<pc, startVars, slab, cleanups, tasks, lastWindow, endpoints, webviews>>
    BY <1>1 DEF ownersVars, startVars
  <2>2. endpoints \in [Endpoint -> Entry] /\ webviews \in [Label -> Entry]
    BY DEF OwnersInv, OwnersTypes
  <2>3. \A x \in Start : owner_is_current(owner[x]) => owner_is_current(owner[x])'
    BY <2>1, Zenon DEF owner_is_current, startVars
  <2>4. Grows(endpoints, endpoints') /\ Grows(webviews, webviews')
    BY <2>1, <2>2, Advanced
  <2>5. QED
    BY <2>1, <2>2, <2>3, <2>4, EntriesStep, Zenon
<1>2. ASSUME NEW x \in Start, Commands(x) PROVE OwnersInv'
  BY <1>2, CommandStep
<1>3. ASSUME NEW e \in Endpoint, activate_endpoint(e) \/ retire_endpoint_discovery_sessions(e)
      PROVE  OwnersInv'
  BY <1>3, ActivateEndpoint, RetireEndpoint
<1>4. ASSUME NEW l \in Label, advance_webview_discovery_context(l) PROVE OwnersInv'
  <2>1. lastWindow' \in BOOLEAN
    BY <1>4 DEF advance_webview_discovery_context, OwnersInv, OwnersTypes
  <2>2. QED
    BY <1>4, <2>1, RetireWebview, Zenon DEF advance_webview_discovery_context, advance_webview
<1>5. ASSUME NEW l \in Label, retire_webview_discovery_sessions(l) PROVE OwnersInv'
  BY <1>5, RetireWebview, Zenon DEF retire_webview_discovery_sessions, retire_webview
<1>6. CASE retire_all_discovery_sessions
  BY <1>6, RetireAll
<1>7. ASSUME NEW t \in 1..Len(tasks), NEW l \in Label, FinishFence(t, l) PROVE OwnersInv'
  BY <1>7, FenceStep
<1>8. QED
  BY <1>1, <1>2, <1>3, <1>4, <1>5, <1>6, <1>7, Zenon DEF OwnersNext

\* The inductive invariant holds throughout, for any number of starts,
\* webviews, endpoints and cleanup tasks.
THEOREM OwnersInvariant == OwnersSpec => []OwnersInv
  BY OwnersInitially, OwnersInductive, PTL DEF OwnersSpec

\* A start that is past its barrier never overlaps a session or start that was
\* retired on the same label before it began.
THEOREM NoOverlapHolds == OwnersSpec => []NoOverlap
<1>1. OwnersInv => NoOverlap
  BY DEF OwnersInv
<1>2. QED
  BY <1>1, OwnersInvariant, PTL

\* A tracked session always belongs to the current generation of its webview
\* and endpoint.
THEOREM TrackedAreCurrentHolds == OwnersSpec => []TrackedAreCurrent
<1>1. OwnersInv => TrackedAreCurrent
  BY DEF OwnersInv
<1>2. QED
  BY <1>1, OwnersInvariant, PTL

\* No start ends with a native session nobody owns.
NothingLeaks == \A x \in Start : pc[x] # "leaked"

\* A native session that is delivered late, to an owner that is gone, is closed
\* and never left running.
THEOREM NothingLeaksHolds == OwnersSpec => []NothingLeaks
<1>1. OwnersInv => NothingLeaks
  BY Zenon DEF OwnersInv, OwnersTypes, NothingLeaks, Leased, Later
<1>2. QED
  BY <1>1, OwnersInvariant, PTL

\* The bounds of the model: its cap on tasks, and that a start which did not
\* begin waits for nothing.
OwnersBounds ==
    /\ Len(tasks) <= MaxTask
    /\ \A x \in Start : pc[x] = "idle" => prior[x] = 0

\* A step that installs at most one task within the cap keeps the bounds.
LEMMA BoundsKept ==
    ASSUME OwnersBounds, OwnersTypes, UNCHANGED prior,
           \A x \in Start : pc'[x] = "idle" => pc[x] = "idle",
           \/ UNCHANGED tasks
           \/ \E labels, S, T : install_owner_cleanups(labels, S, T)
    PROVE  OwnersBounds'
<1>1. Len(tasks) \in Nat /\ MaxTask \in Nat
  BY OwnershipAssumption DEF OwnersTypes
<1>2. ASSUME NEW labels, NEW S, NEW T, install_owner_cleanups(labels, S, T) PROVE Len(tasks') <= MaxTask
  <2>1. PICK k : tasks' = Append(tasks, k) /\ Len(tasks) < MaxTask
    BY <1>2, Zenon DEF install_owner_cleanups
  <2>2. tasks \in Seq(CleanupTask)
    BY Zenon DEF OwnersTypes
  <2>3. Len(tasks') = Len(tasks) + 1
    BY <2>1, <2>2
  <2>4. QED
    BY <1>1, <2>1, <2>3
<1>3. QED
  BY <1>2, Zenon DEF OwnersBounds

\* Every step keeps the bounds.
LEMMA BoundsInductive == OwnersInv /\ OwnersBounds /\ [OwnersNext]_ownersVars => OwnersBounds'
<1> SUFFICES ASSUME OwnersInv, OwnersBounds, [OwnersNext]_ownersVars PROVE OwnersBounds'
  OBVIOUS
<1>t. OwnersTypes
  BY DEF OwnersInv
<1>k. pc \in [Start -> {"idle"} \cup Leased \cup (Later \ {"leaked"})]
  BY <1>t DEF OwnersTypes
<1>1. CASE UNCHANGED ownersVars
  BY <1>1, <1>t, BoundsKept, Zenon DEF ownersVars
<1>2. ASSUME NEW x \in Start, StartSteps(x) \/ NativeClosed(x) PROVE OwnersBounds'
  <2>1. UNCHANGED tasks /\ UNCHANGED prior
    BY <1>2, Zenon
       DEF StartSteps, PassBarrier, Refuse, mobile_interface_ips, detached_mobile_native_start,
                Abort, Publish, reconcile_cleanup, NativeClosed, StartGoto, startVars
  <2>2. \E q : q # "idle" /\ pc' = [pc EXCEPT ![x] = q]
    BY <1>2, Zenon
       DEF StartSteps, PassBarrier, Refuse, mobile_interface_ips, detached_mobile_native_start,
                Abort, Publish, reconcile_cleanup, NativeClosed, StartGoto
  <2>3. \A y \in Start : pc'[y] = "idle" => pc[y] = "idle"
    BY <2>2, <1>k
  <2>4. QED
    BY <2>1, <2>3, <1>t, BoundsKept, Zenon
<1>3. ASSUME NEW x \in Start, NEW o, insert_start(x, o), UNCHANGED tasks PROVE OwnersBounds'
  BY <1>3, <1>t, <1>k, Zenon DEF insert_start, OwnersBounds, OwnersTypes
<1>4. ASSUME NEW x \in Start, NEW l \in Label,
             begin_webview_start(x, l) \/ \E e \in Endpoint : begin_peer_start(x, l, e)
      PROVE  OwnersBounds'
  <2>1. CASE begin_webview_start(x, l)
    BY <2>1, <1>3, Zenon DEF begin_webview_start
  <2>2. ASSUME NEW e \in Endpoint, begin_peer_start(x, l, e) PROVE OwnersBounds'
    <3>1. UNCHANGED tasks /\ (UNCHANGED <<pc, startVars>> \/ \E o : insert_start(x, o))
      BY <2>2, Zenon DEF begin_peer_start
    <3>2. QED
      BY <3>1, <1>3, <1>t, BoundsKept, Zenon DEF startVars
  <2>3. QED
    BY <1>4, <2>1, <2>2
<1>5. ASSUME NEW x \in Start, SessionClose(x) \/ SessionEnds(x) PROVE OwnersBounds'
  <2>1. UNCHANGED prior /\ install_owner_cleanups({owner[x].label}, {x}, {})
    BY <1>5, Zenon DEF SessionClose, SessionEnds, begin_session_cleanup, startVars
  <2>2. \A y \in Start : pc'[y] = "idle" => pc[y] = "idle"
    BY <1>5, <1>k DEF SessionClose, SessionEnds, prepare_retirement
  <2>3. QED
    BY <2>1, <2>2, <1>t, BoundsKept, Zenon
<1>6. ASSUME NEW labels, NEW W, Retire(labels, W) PROVE OwnersBounds'
  <2>1. UNCHANGED prior /\ (UNCHANGED tasks \/ install_owner_cleanups(labels, W \cap sessions, W \cap starts))
    BY <1>6 DEF Retire, startVars
  <2>2. \A y \in Start : pc'[y] = "idle" => pc[y] = "idle"
    BY <1>6, <1>k DEF Retire, prepare_retirement
  <2>3. QED
    BY <2>1, <2>2, <1>t, BoundsKept, Zenon
<1>7. ASSUME NEW x \in Start, Commands(x) PROVE OwnersBounds'
  <2>1. \/ StartSteps(x) \/ NativeClosed(x) \/ SessionClose(x) \/ SessionEnds(x)
        \/ \E l \in Label : begin_webview_start(x, l) \/ \E e \in Endpoint : begin_peer_start(x, l, e)
    BY <1>7, Zenon
       DEF Commands, browse_peers, advertise_peer, advertise, browse, PeerStart, WebviewStart,
                browse_peers_close, advertise_peer_close, advertise_close, browse_close,
                browse_peers_next, browse_next, RefreshEnds
  <2>2. QED
    BY <2>1, <1>2, <1>4, <1>5
<1>8. ASSUME NEW e \in Endpoint, activate_endpoint(e) PROVE OwnersBounds'
  BY <1>8, <1>t, BoundsKept, Zenon DEF activate_endpoint, startVars
<1>9. ASSUME NEW t \in 1..Len(tasks), NEW l \in Label, FinishFence(t, l) PROVE OwnersBounds'
  <2>1. Len(tasks') = Len(tasks) /\ UNCHANGED <<pc, prior>>
    BY <1>9, <1>t, SMTT(30) DEF FinishFence, startVars, OwnersTypes
  <2>2. QED
    BY <2>1, Zenon DEF OwnersBounds
<1>10. QED
  BY Zenon, <1>1, <1>6, <1>7, <1>8, <1>9
     DEF OwnersNext, retire_endpoint_discovery_sessions, retire_endpoint,
         advance_webview_discovery_context, advance_webview, retire_webview_discovery_sessions,
         retire_webview, retire_all_discovery_sessions, retire_all

\* The variables keep their types.
THEOREM OwnersTypeCorrect == OwnersSpec => []OwnersTypeOK
<1>1. OwnersInit => OwnersBounds
  BY OwnershipAssumption DEF OwnersInit, OwnersBounds
<1>2. OwnersInv /\ OwnersBounds => OwnersTypeOK
  <2> SUFFICES ASSUME OwnersInv, OwnersBounds PROVE OwnersTypeOK
    OBVIOUS
  <2>1. Len(tasks) \in Nat /\ MaxTask \in Nat /\ Len(tasks) <= MaxTask /\ OwnersTypes
    BY OwnershipAssumption, TaskShape, Zenon DEF OwnersInv, OwnersBounds
  <2>2. \A t, l : FenceOn(t, l) => t \in 1..Len(tasks)
    BY DEF FenceOn
  <2>3. prior \in [Start -> 0..MaxTask]
    <3>1. ASSUME NEW x \in Start PROVE prior[x] \in 0..MaxTask
      <4>1. prior[x] \in Nat
        BY <2>1, Zenon DEF OwnersTypes
      <4>2. prior[x] # 0 => prior[x] \in 1..Len(tasks)
        BY <2>2, Zenon DEF OwnersInv, BarrierCovers, OwnersBounds
      <4>3. QED
        BY <4>1, <4>2, <2>1
    <3>2. QED
      BY <3>1, <2>1, Zenon DEF OwnersTypes
  <2>4. cleanups \in [Label -> 0..Len(tasks)]
    <3>1. ASSUME NEW l \in Label PROVE cleanups[l] \in 0..Len(tasks)
      <4>1. cleanups[l] \in Nat
        BY <2>1 DEF OwnersTypes
      <4>2. cleanups[l] # 0 => cleanups[l] \in 1..Len(tasks)
        BY <2>2 DEF OwnersInv, CleanupIsLast
      <4>3. QED
        BY <4>1, <4>2, <2>1
    <3>2. QED
      BY <3>1, <2>1 DEF OwnersTypes
  <2>5. ASSUME NEW t \in 1..Len(tasks)
        PROVE  /\ tasks[t].sessions \in SUBSET Start /\ tasks[t].starts \in SUBSET Start
               /\ DOMAIN tasks[t].fences \in SUBSET Label
               /\ \A l \in DOMAIN tasks[t].fences : tasks[t].fences[l] \in Fence(t)
    <3>1. ASSUME NEW l \in DOMAIN tasks[t].fences PROVE tasks[t].fences[l] \in Fence(t)
      <4>1. tasks[t].fences[l] \in [prev : Nat, out : Outcomes]
        BY <2>1, TaskShape, Zenon
      <4>2. tasks[t].fences[l].prev < t
        BY Zenon DEF OwnersInv, PrevIsLast
      <4>3. QED
        BY <4>1, <4>2 DEF Fence, Outcomes
    <3>2. QED
      BY <3>1, <2>1, TaskShape, Zenon
  <2>6. \A e \in Entry : e \in [generation : Nat, active : BOOLEAN] /\ (e.active => e.generation > 0)
    BY DEF Entry
  <2>7. /\ endpoints \in [Endpoint -> [generation : Nat, active : BOOLEAN]]
        /\ webviews \in [Label -> [generation : Nat, active : BOOLEAN]]
        /\ \A e \in Endpoint : endpoints[e].active => endpoints[e].generation > 0
        /\ \A l \in Label : webviews[l].active => webviews[l].generation > 0
    BY <2>1, <2>6, Zenon DEF OwnersTypes
  <2>8. /\ kind \in [Start -> Kinds] /\ pc \in [Start -> {"idle"} \cup Leased \cup Later]
        /\ slab \in SUBSET Start /\ lastWindow \in BOOLEAN /\ before \in [Start -> SUBSET Start]
    BY <2>1, Zenon DEF OwnersTypes
  <2>9. \A x \in Start : pc[x] # "idle" => owner[x] \in Owner
    BY Zenon DEF OwnersInv, Captured, CapturedOwner
  <2>10. QED
    BY <2>1, <2>3, <2>4, <2>5, <2>7, <2>8, <2>9, Zenon DEF OwnersTypeOK
<1>3. QED
  BY <1>1, <1>2, OwnersInvariant, BoundsInductive, PTL DEF OwnersSpec
=============================================================================
