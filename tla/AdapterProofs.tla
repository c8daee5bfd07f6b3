--------------------------- MODULE AdapterProofs -----------------------------
(***************************************************************************)
(* Proofs about the adapters' own machinery, for any number of requests,   *)
(* serve cycles, subscriptions, sessions and calls: the path watcher       *)
(* (PathWatch), the Deno serve loop (DenoServe), the session commands      *)
(* (Sessions) and the Deno result buffers (DenoBuffers). Each part has its *)
(* own inductive invariant; where a command's checks matter, the theorems  *)
(* hold whatever they answer.                                              *)
(***************************************************************************)
EXTENDS PathWatch, DenoServe, Sessions, DenoBuffers, Integers, TLAPS

-----------------------------------------------------------------------------
(* The path watcher.                                                       *)

\* The path watcher on its own.
PathSpec == EndpointInit /\ PathInit /\ [][PathNext]_<<endpointVars, pathVars>>

\* The fields of an iterator.
IterFields(i) == [call |-> i.call, holds |-> i.holds, woken |-> i.woken, un |-> i.un, got |-> i.got]

\* An endpoint whose close has come to its subscriptions is closed.
Closed == closing \in {"clear", "remove", "over"} => epClosed

\* The variables are the functions and records the code's tables are.
Shapes ==
    /\ entry \in Ids \cup {0}
    /\ senders = [w \in Ids |-> senders[w]] /\ \A w \in Ids : senders[w] = [s \in Sub |-> senders[w][s]]
    /\ watcher = [w \in Ids |-> watcher[w]]
    /\ table = [s \in Sub |-> table[s]]
    /\ iter = [s \in Sub |-> IterFields(iter[s])]

\* Only the watcher in the table is alive.
OneWatcher == \A w \in Ids : w # entry => watcher[w] = Gone /\ senders[w] = NoSenders

\* A subscription is served: its sender is with the watcher, and what it waits
\* on is that channel.
Served(s) ==
    /\ table[s] # 0 => entry # 0 /\ senders[entry][s] = table[s]
    /\ iter[s].call \in {"waiting", "parked"} =>
         iter[s].holds = table[s] /\ table[s] # 0 /\ ~iter[s].woken

\* An iterator outside a call holds no receiver.
Idle == \A s \in Sub : iter[s].call \notin {"waiting", "parked"} => iter[s].holds = 0

\* The inductive invariant of the path watcher.
PathInv ==
    /\ Closed /\ Shapes /\ OneWatcher /\ Idle /\ NeverEndsEarly
    /\ \A s \in Sub : iter[s].un = "no" /\ ~epClosed => Served(s)

\* What the steps of one subscription come to: its iterator becomes the record with
\* these fields, the others and the endpoint stay.
LEMMA SubMoves ==
    ASSUME PathInv, NEW s \in Sub, UNCHANGED <<endpointVars, entry, watcher, senders>>,
           NEW i, i = IterFields(i), iter' = [iter EXCEPT ![s] = i],
           table' = [table EXCEPT ![s] = table'[s]],
           i.got # "early",
           i.call \notin {"waiting", "parked"} => i.holds = 0,
           i.un = "no" /\ ~epClosed =>
             /\ table'[s] # 0 => entry # 0 /\ senders[entry][s] = table'[s]
             /\ i.call \in {"waiting", "parked"} => i.holds = table'[s] /\ table'[s] # 0 /\ ~i.woken
    PROVE  PathInv'
<1>1. iter'[s] = i /\ \A r \in Sub : r # s => iter'[r] = iter[r] /\ table'[r] = table[r]
  BY DEF PathInv, Shapes
<1>2. Closed' /\ OneWatcher'
  BY DEF PathInv, Closed, OneWatcher, endpointVars, NoSenders
<1>3. iter' = [r \in Sub |-> IterFields(iter'[r])]
  <2>1. \A r \in Sub : iter[r] = IterFields(iter[r])
    BY DEF PathInv, Shapes
  <2>2. iter' = [r \in Sub |-> iter'[r]]
    BY DEF PathInv, Shapes
  <2>3. \A r \in Sub : iter'[r] = IterFields(iter'[r])
    BY <1>1, <2>1
  <2>4. QED
    BY <2>2, <2>3
<1>4. Shapes'
  BY <1>3 DEF PathInv, Shapes
<1>5. Idle' /\ NeverEndsEarly'
  BY <1>1 DEF PathInv, Idle, NeverEndsEarly
<1>6. ASSUME NEW r \in Sub, iter'[r].un = "no", ~epClosed' PROVE Served(r)'
  BY <1>1, <1>6 DEF PathInv, Served, endpointVars
<1>7. QED
  BY <1>2, <1>4, <1>5, <1>6 DEF PathInv

\* There is a channel that neither end of any other uses.
LEMMA NewChannelFree ==
    ASSUME PathInv, NEW s \in Sub, table[s] = 0, iter[s].holds = 0
    PROVE  NewChannel(s) \in Ids /\ NewChannel(s) # 0
<1>1. \E c \in Ids : \A w \in Ids : senders[w][s] # c
  <2>1. PICK c \in Ids : entry \in Ids => c # senders[entry][s]
    BY PathAssumption
  <2>2. \A w \in Ids : w # entry => senders[w][s] = 0
    BY DEF PathInv, OneWatcher, NoSenders
  <2>3. QED
    BY <2>1, <2>2, PathAssumption, Zenon
<1>2. \E c \in Ids : ~SenderAlive(s, c) /\ ~ReceiverAlive(s, c)
  BY <1>1, PathAssumption DEF SenderAlive, ReceiverAlive
<1>3. QED
  BY <1>2, PathAssumption DEF NewChannel

\* A waiting call of a live subscription has its sender alive.
LEMMA SenderServes ==
    ASSUME PathInv, NEW s \in Sub, iter[s].un = "no", ~epClosed, iter[s].call \in {"waiting", "parked"}
    PROVE  SenderAlive(s, iter[s].holds) /\ ~iter[s].woken
  BY Zenon DEF PathInv, Served, SenderAlive, Shapes

\* The invariant holds initially.
LEMMA PathInitially == EndpointInit /\ PathInit => PathInv
  BY DEF EndpointInit, PathInit, PathInv, Closed, Shapes, OneWatcher, Idle, NeverEndsEarly,
         Served, IterFields, NoSenders

\* A subscription makes its channel: by joining the watcher or by starting one.
LEMMA Subscribes ==
    ASSUME PathInv, NEW s \in Sub, CallEnters(s), Runs("nextPath", <<>>), table[s] = 0
    PROVE  PathInv'
<1> USE DEF PathInv
<1>1. CallAt(s, "issued") /\ iter[s].holds = 0
  BY DEF CallEnters, CallAt, Idle
<1>2. PICK c : c = NewChannel(s)
  OBVIOUS
<1>3. c \in Ids /\ c # 0
  BY <1>1, <1>2, NewChannelFree
<1>4. /\ subscribe_path_changes(s) /\ table' = [table EXCEPT ![s] = c]
      /\ iter' = [iter EXCEPT ![s].call = "waiting", ![s].holds = table'[s], ![s].woken = FALSE]
      /\ UNCHANGED endpointVars
  BY <1>2 DEF CallEnters
<1>5. table'[s] = c /\ \A r \in Sub : r # s => table'[r] = table[r]
  BY <1>4 DEF Shapes
<1>6. /\ iter'[s] = [call |-> "waiting", holds |-> c, woken |-> FALSE, un |-> iter[s].un, got |-> iter[s].got]
      /\ \A r \in Sub : r # s => iter'[r] = iter[r]
      /\ iter' = [r \in Sub |-> iter'[r]]
  <2>1. iter'[s] = [[[iter[s] EXCEPT !.call = "waiting"] EXCEPT !.holds = c] EXCEPT !.woken = FALSE]
    BY <1>4, <1>5 DEF Shapes
  <2>2. iter[s] = IterFields(iter[s])
    BY DEF Shapes
  <2>6. iter'[s] = [call |-> "waiting", holds |-> c, woken |-> FALSE, un |-> iter[s].un, got |-> iter[s].got]
    <3>1. PICK k : k = [iter[s] EXCEPT !.call = "waiting"]
      BY Zenon
    <3>2. k = [call |-> "waiting", holds |-> iter[s].holds, woken |-> iter[s].woken,
               un |-> iter[s].un, got |-> iter[s].got]
      BY <2>2, <3>1 DEF IterFields
    <3>3. PICK m : m = [k EXCEPT !.holds = c]
      BY Zenon
    <3>4. m = [call |-> "waiting", holds |-> c, woken |-> iter[s].woken,
               un |-> iter[s].un, got |-> iter[s].got]
      BY <3>2, <3>3
    <3>5. iter'[s] = [m EXCEPT !.woken = FALSE]
      BY <2>1, <3>1, <3>3, Zenon
    <3>6. QED
      BY <3>4, <3>5, Zenon
  <2>7. \A r \in Sub : r # s => iter'[r] = iter[r]
    BY <1>4 DEF Shapes
  <2>8. iter' = [r \in Sub |-> iter'[r]]
    BY <1>4, Zenon DEF Shapes
  <2>9. QED
    BY <2>6, <2>7, <2>8
<1>7. iter' = [r \in Sub |-> IterFields(iter'[r])]
  <2>1. \A r \in Sub : iter[r] = IterFields(iter[r])
    BY DEF Shapes
  <2>2. iter'[s] = IterFields(iter'[s])
    BY <1>6 DEF IterFields
  <2>3. \A r \in Sub : iter'[r] = IterFields(iter'[r])
    BY <1>6, <2>1, <2>2, Zenon
  <2>4. QED
    BY <1>6, <2>3
<1>8. Closed' /\ Idle' /\ NeverEndsEarly'
  <2>1. Closed'
    BY <1>4 DEF Closed, endpointVars
  <2>2. iter'[s].got = iter[s].got /\ iter'[s].call = "waiting"
    BY <1>6
  <2>3. QED
    BY <1>6, <2>1, <2>2 DEF Idle, NeverEndsEarly
<1>9. /\ entry' \in Ids
      /\ senders' = [w \in Ids |-> senders'[w]]
      /\ \A w \in Ids : senders'[w] = [r \in Sub |-> senders'[w][r]]
      /\ watcher' = [w \in Ids |-> watcher'[w]]
      /\ senders'[entry'][s] = c
      /\ \A r \in Sub : r # s /\ entry # 0 => entry' = entry /\ senders'[entry'][r] = senders[entry][r]
      /\ OneWatcher'
  <2>1. CASE entry # 0
    <3>1. senders' = [senders EXCEPT ![entry][s] = c] /\ UNCHANGED <<entry, watcher>> /\ entry \in Ids
      BY <1>2, <1>4, <2>1 DEF subscribe_path_changes, Shapes
    <3>2. QED
      BY <3>1, Zenon DEF Shapes, OneWatcher, NoSenders
  <2>2. CASE entry = 0
    <3>1. PICK w : w = CHOOSE v \in Ids : watcher[v] = Gone
      OBVIOUS
    <3>2. w \in Ids
      <4>1. \E v \in Ids : watcher[v] = Gone
        BY <2>2, PathAssumption DEF OneWatcher
      <4>2. QED
        BY <3>1, <4>1
    <3>3. /\ senders' = [senders EXCEPT ![w] = [NoSenders EXCEPT ![s] = c]]
          /\ watcher' = [watcher EXCEPT ![w].at = "check"] /\ entry' = w
      BY <1>2, <1>4, <2>2, <3>1 DEF subscribe_path_changes
    <3>4. [NoSenders EXCEPT ![s] = c] = [r \in Sub |-> IF r = s THEN c ELSE 0]
      BY DEF NoSenders
    <3>5. OneWatcher'
      BY <2>2, <3>2, <3>3, PathAssumption DEF OneWatcher, Shapes, NoSenders
    <3>6. QED
      BY <2>2, <3>2, <3>3, <3>4, <3>5, Zenon DEF Shapes
  <2>3. QED
    BY <2>1, <2>2
<1>10. Shapes'
  BY <1>4, <1>7, <1>9, Zenon DEF Shapes
<1>11. ASSUME NEW r \in Sub, iter'[r].un = "no", ~epClosed' PROVE Served(r)'
  <2>1. CASE r = s
    BY <1>3, <1>5, <1>6, <1>9, <2>1, PathAssumption DEF Served
  <2>2. CASE r # s
    <3>1. Served(r) /\ iter'[r] = iter[r] /\ table'[r] = table[r]
      BY <1>4, <1>5, <1>6, <1>11, <2>2, Zenon DEF endpointVars
    <3>2. QED
      BY <3>1, <1>9, <2>2, PathAssumption DEF Served
  <2>3. QED
    BY <2>1, <2>2
<1>12. QED
  BY <1>8, <1>9, <1>10, <1>11

\* The iterator's steps leave the core alone.
LEMMA IteratorMoves ==
    ASSUME PathInv, NEW s \in Sub, IteratorNext(s) \/ IteratorStops(s) \/ CallParks(s)
    PROVE  PathInv'
<1> USE DEF PathInv, Shapes
<1>0. UNCHANGED <<endpointVars, entry, watcher, senders>> /\ table' = [table EXCEPT ![s] = table'[s]] /\ table' = table
  BY DEF IteratorNext, IteratorStops, CallParks
<1>1. iter[s] = IterFields(iter[s])
  OBVIOUS
<1>2. CASE IteratorNext(s)
  <2>1. PICK i : i = [iter[s] EXCEPT !.call = "issued"]
    BY Zenon
  <2>2. i = [call |-> "issued", holds |-> iter[s].holds, woken |-> iter[s].woken, un |-> iter[s].un, got |-> iter[s].got]
    BY <1>1, <2>1 DEF IterFields
  <2>3. iter' = [iter EXCEPT ![s] = i]
    BY <1>2, <2>1 DEF IteratorNext
  <2>4. i = IterFields(i) /\ i.call = "issued" /\ i.got = iter[s].got /\ i.holds = iter[s].holds /\ i.un = iter[s].un
    BY <2>2 DEF IterFields
  <2>5. iter[s].holds = 0 /\ iter[s].got # "early"
    BY <1>2 DEF IteratorNext, CallAt, Idle, NeverEndsEarly
  <2>6. iter[s].un = "no" /\ ~epClosed => (table[s] # 0 => entry # 0 /\ senders[entry][s] = table[s])
    BY Zenon DEF Served
  <2>7. QED
    BY <1>0, <2>3, <2>4, <2>5, <2>6, SubMoves, Zenon
<1>3. CASE IteratorStops(s)
  <2>0. PICK u : u \in {"done", "called"} /\ iter' = [iter EXCEPT ![s].un = u]
    BY <1>3, Zenon DEF IteratorStops
  <2>1. PICK i : i = [iter[s] EXCEPT !.un = u]
    BY Zenon
  <2>2. i = [call |-> iter[s].call, holds |-> iter[s].holds, woken |-> iter[s].woken, un |-> u, got |-> iter[s].got]
    BY <1>1, <2>1 DEF IterFields
  <2>3. iter' = [iter EXCEPT ![s] = i]
    BY <2>0, <2>1
  <2>4. i = IterFields(i) /\ i.call = iter[s].call /\ i.got = iter[s].got /\ i.holds = iter[s].holds /\ i.un = u
    BY <2>2 DEF IterFields
  <2>5. iter[s].got # "early" /\ (iter[s].call \notin {"waiting", "parked"} => iter[s].holds = 0)
    BY DEF Idle, NeverEndsEarly
  <2>6. i.un # "no" /\ i.got # "early" /\ (i.call \notin {"waiting", "parked"} => i.holds = 0)
    BY <2>0, <2>4, <2>5
  <2> HIDE DEF PathInv, Shapes
  <2>7. QED
    BY <1>0, <2>3, <2>4, <2>6, SubMoves, Zenon
<1>4. CASE CallParks(s)
  <2>1. PICK i : i = [iter[s] EXCEPT !.call = "parked"]
    BY Zenon
  <2>2. i = [call |-> "parked", holds |-> iter[s].holds, woken |-> iter[s].woken, un |-> iter[s].un, got |-> iter[s].got]
    BY <1>1, <2>1 DEF IterFields
  <2>3. iter' = [iter EXCEPT ![s] = i]
    BY <1>4, <2>1 DEF CallParks
  <2>4. /\ i = IterFields(i) /\ i.call = "parked" /\ i.got = iter[s].got
        /\ i.holds = iter[s].holds /\ i.un = iter[s].un /\ i.woken = iter[s].woken
    BY <2>2 DEF IterFields
  <2>5. iter[s].call = "waiting" /\ iter[s].got # "early"
    BY <1>4 DEF CallParks, CallAt, NeverEndsEarly
  <2>6. iter[s].un = "no" /\ ~epClosed =>
           /\ table[s] # 0 => entry # 0 /\ senders[entry][s] = table[s]
           /\ iter[s].holds = table[s] /\ table[s] # 0 /\ ~iter[s].woken
    BY <2>5 DEF Served
  <2>7. i.un = "no" /\ ~epClosed =>
           /\ table'[s] # 0 => entry # 0 /\ senders[entry][s] = table'[s]
           /\ i.call \in {"waiting", "parked"} => i.holds = table'[s] /\ table'[s] # 0 /\ ~i.woken
    BY <1>0, <2>4, <2>6
  <2> HIDE DEF PathInv, Shapes
  <2>8. QED
    BY <1>0, <2>3, <2>4, <2>5, <2>7, SubMoves, Zenon
<1>5. QED
  BY <1>2, <1>3, <1>4

\* A nextPath call that enters keeps the invariant.
LEMMA CallEntered ==
    ASSUME PathInv, NEW s \in Sub, CallEnters(s)
    PROVE  PathInv'
<1> USE DEF PathInv, Shapes
<1>1. iter[s] = IterFields(iter[s])
  OBVIOUS
<1>2. iter[s].holds = 0 /\ iter[s].got # "early"
  BY DEF CallEnters, CallAt, Idle, NeverEndsEarly
<1>c. iter[s].un = "no" /\ ~epClosed => (table[s] # 0 => entry # 0 /\ senders[entry][s] = table[s])
  BY Zenon DEF Served
<1>3. CASE ~Runs("nextPath", <<>>)
  <2>0. /\ iter' = [iter EXCEPT ![s].call = "idle", ![s].got = "error"]
        /\ UNCHANGED <<table, senders, entry, watcher, endpointVars>>
    BY <1>3 DEF CallEnters
  <2>1. PICK j : j = [iter[s] EXCEPT !.call = "idle"]
    BY Zenon
  <2>2. j = [call |-> "idle", holds |-> iter[s].holds, woken |-> iter[s].woken, un |-> iter[s].un, got |-> iter[s].got]
    BY <1>1, <2>1 DEF IterFields
  <2>3. PICK i : i = [j EXCEPT !.got = "error"]
    BY Zenon
  <2>4. i = [call |-> "idle", holds |-> iter[s].holds, woken |-> iter[s].woken, un |-> iter[s].un, got |-> "error"]
    BY <2>2, <2>3
  <2>5. iter' = [iter EXCEPT ![s] = i]
    BY <2>0, <2>1, <2>3, Zenon
  <2>6. i = IterFields(i) /\ i.call = "idle" /\ i.got = "error" /\ i.holds = iter[s].holds /\ i.un = iter[s].un
    BY <2>4 DEF IterFields
  <2>7. table' = [table EXCEPT ![s] = table'[s]]
    BY <2>0
  <2>8. QED
    BY <1>2, <1>c, <2>0, <2>5, <2>6, <2>7, SubMoves, Zenon
<1>4. CASE Runs("nextPath", <<>>) /\ table[s] = 0
  BY <1>4, Subscribes
<1>5. CASE Runs("nextPath", <<>>) /\ table[s] # 0
  <2>0. /\ iter' = [iter EXCEPT ![s].call = "waiting", ![s].holds = table[s], ![s].woken = FALSE]
        /\ UNCHANGED <<table, senders, entry, watcher, endpointVars>>
    BY <1>5, Zenon DEF CallEnters
  <2>1. PICK i, no : no = FALSE /\ i = [[[iter[s] EXCEPT !.call = "waiting"] EXCEPT !.holds = table[s]] EXCEPT !.woken = no]
    BY Zenon
  <2>2. i = [call |-> "waiting", holds |-> table[s], woken |-> no, un |-> iter[s].un, got |-> iter[s].got]
    <3>1. PICK k : k = [iter[s] EXCEPT !.call = "waiting"]
      BY Zenon
    <3>2. k = [call |-> "waiting", holds |-> iter[s].holds, woken |-> iter[s].woken,
               un |-> iter[s].un, got |-> iter[s].got]
      BY <1>1, <3>1 DEF IterFields
    <3>3. PICK m : m = [k EXCEPT !.holds = table[s]]
      BY Zenon
    <3>4. m = [call |-> "waiting", holds |-> table[s], woken |-> iter[s].woken,
               un |-> iter[s].un, got |-> iter[s].got]
      BY <3>2, <3>3
    <3>5. i = [m EXCEPT !.woken = no]
      BY <2>1, <3>1, <3>3
    <3>6. QED
      BY <3>4, <3>5
  <2>3. iter' = [iter EXCEPT ![s] = i]
    BY <2>0, <2>1, Zenon
  <2>4. /\ i = IterFields(i) /\ i.call = "waiting" /\ i.got = iter[s].got
        /\ i.holds = table[s] /\ i.un = iter[s].un /\ i.woken = no
    BY <2>2 DEF IterFields
  <2>5. ~i.woken
    BY <2>1, <2>4
  <2>6. table' = [table EXCEPT ![s] = table'[s]] /\ table'[s] = table[s]
    BY <2>0
  <2>7. i.un = "no" /\ ~epClosed =>
           /\ table'[s] # 0 => entry # 0 /\ senders[entry][s] = table'[s]
           /\ i.call \in {"waiting", "parked"} => i.holds = table'[s] /\ table'[s] # 0 /\ ~i.woken
    BY <1>5, <1>c, <2>4, <2>5, <2>6
  <2>8. i.got # "early" /\ (i.call \notin {"waiting", "parked"} => i.holds = 0)
    BY <1>2, <2>4
  <2> HIDE DEF PathInv, Shapes
  <2>9. QED
    BY <2>0, <2>3, <2>4, <2>6, <2>7, <2>8, SubMoves, Zenon
<1>6. QED
  BY <1>3, <1>4, <1>5

\* A call that returns keeps the invariant.
LEMMA CallReturned ==
    ASSUME PathInv, NEW s \in Sub, CallReturns(s)
    PROVE  PathInv'
<1> USE DEF PathInv, Shapes
<1>1. iter[s] = IterFields(iter[s])
  OBVIOUS
<1>2. UNCHANGED <<senders, entry, watcher, endpointVars>>
  BY DEF CallReturns
<1>3. iter[s].call \in {"waiting", "parked"}
  BY DEF CallReturns, CallAt
<1>r. PICK n, no : /\ no = FALSE
                  /\ n = [[[iter[s] EXCEPT !.call = "idle"] EXCEPT !.holds = 0] EXCEPT !.woken = no]
  BY Zenon
<1>n. n = [call |-> "idle", holds |-> 0, woken |-> no, un |-> iter[s].un, got |-> iter[s].got]
  <2>1. PICK k : k = [iter[s] EXCEPT !.call = "idle"]
    BY Zenon
  <2>2. k = [call |-> "idle", holds |-> iter[s].holds, woken |-> iter[s].woken,
               un |-> iter[s].un, got |-> iter[s].got]
    BY <1>1, <2>1 DEF IterFields
  <2>3. PICK m : m = [k EXCEPT !.holds = 0]
    BY Zenon
  <2>4. m = [call |-> "idle", holds |-> 0, woken |-> iter[s].woken,
               un |-> iter[s].un, got |-> iter[s].got]
    BY <2>2, <2>3
  <2>5. n = [m EXCEPT !.woken = no]
    BY <1>r, <2>1, <2>3, Zenon
  <2>6. QED
    BY <2>4, <2>5
<1>4. CASE /\ iter' = [iter EXCEPT ![s].call = "idle", ![s].holds = 0, ![s].woken = FALSE, ![s].got = "path"]
           /\ UNCHANGED table
  <2>1. PICK i : i = [n EXCEPT !.got = "path"]
    BY Zenon
  <2>2. i = [call |-> "idle", holds |-> 0, woken |-> no, un |-> iter[s].un, got |-> "path"]
    BY <1>n, <2>1
  <2>3. iter' = [iter EXCEPT ![s] = i]
    BY <1>4, <1>r, <2>1, Zenon
  <2>4. i = IterFields(i) /\ i.call = "idle" /\ i.got = "path" /\ i.holds = 0 /\ i.un = iter[s].un
    BY <2>2 DEF IterFields
  <2>5. iter[s].un = "no" /\ ~epClosed => (table[s] # 0 => entry # 0 /\ senders[entry][s] = table[s])
    BY Zenon DEF Served
  <2>6. table' = [table EXCEPT ![s] = table'[s]] /\ table'[s] = table[s]
    BY <1>4
  <2>7. QED
    BY <1>2, <2>3, <2>4, <2>5, <2>6, SubMoves, Zenon
<1>5. CASE /\ iter[s].woken \/ ~SenderAlive(s, iter[s].holds)
           /\ iter' = [iter EXCEPT ![s].call = "idle", ![s].holds = 0, ![s].woken = FALSE,
                        ![s].got = IF epClosed \/ iter[s].un # "no" THEN "null" ELSE "early",
                        ![s].un = IF @ = "no" THEN "called" ELSE @]
           /\ table' = [table EXCEPT ![s] = IF @ = iter[s].holds THEN 0 ELSE @]
  <2>0. epClosed \/ iter[s].un # "no"
    BY <1>3, <1>5, SenderServes
  <2>1. PICK i : i = [n EXCEPT !.got = "null"]
    BY Zenon
  <2>2. i = [call |-> "idle", holds |-> 0, woken |-> no, un |-> iter[s].un, got |-> "null"]
    BY <1>n, <2>1
  <2>3. PICK u, j : u = (IF i.un = "no" THEN "called" ELSE i.un) /\ j = [i EXCEPT !.un = u]
    BY Zenon
  <2>4. j = [call |-> "idle", holds |-> 0, woken |-> no, un |-> u, got |-> "null"]
    BY <2>2, <2>3
  <2>a. PICK v : v = (IF iter[s].un = "no" THEN "called" ELSE iter[s].un)
    OBVIOUS
  <2>b. i.un = iter[s].un /\ u = v
    BY <2>2, <2>3, <2>a
  <2>c. iter' = [iter EXCEPT ![s].call = "idle", ![s].holds = 0, ![s].woken = no, ![s].got = "null", ![s].un = v]
    BY <1>5, <1>r, <2>0, <2>a, Zenon
  <2>5. iter' = [iter EXCEPT ![s] = j]
    BY <1>r, <2>1, <2>3, <2>b, <2>c, Zenon
  <2>d. u # "no"
    BY <2>3
  <2>6. j = IterFields(j) /\ j.call = "idle" /\ j.got = "null" /\ j.holds = 0 /\ j.un = u /\ u # "no"
    BY <2>4, <2>d DEF IterFields
  <2>7. table' = [table EXCEPT ![s] = table'[s]]
    BY <1>5
  <2>8. QED
    BY <1>2, <2>5, <2>6, <2>7, SubMoves, Zenon
<1>6. QED
  BY <1>4, <1>5 DEF CallReturns

\* notify_waiters writes nothing but the wake-up.
LEMMA NotifiedShape ==
    ASSUME NEW s \in Sub, iter[s] = IterFields(iter[s])
    PROVE  \E w : Notified(s) = [call |-> iter[s].call, holds |-> iter[s].holds, woken |-> w,
                                 un |-> iter[s].un, got |-> iter[s].got]
<1>1. PICK w : w = (iter[s].woken \/ (iter[s].call = "parked" /\ iter[s].holds = table[s]))
  OBVIOUS
<1>2. Notified(s) = [iter[s] EXCEPT !.woken = w]
  BY <1>1 DEF Notified
<1>3. [iter[s] EXCEPT !.woken = w] = [call |-> iter[s].call, holds |-> iter[s].holds, woken |-> w,
                                 un |-> iter[s].un, got |-> iter[s].got]
  BY DEF IterFields
<1>4. QED
  BY <1>2, <1>3

\* Unsubscribing keeps the invariant.
LEMMA Unsubscribed ==
    ASSUME PathInv, NEW s \in Sub, UnsubscribeTable(s)
    PROVE  PathInv'
<1>1. iter[s] = IterFields(iter[s])
  BY DEF PathInv, Shapes
<1>2. UNCHANGED <<endpointVars, entry, watcher, senders>>
  BY DEF UnsubscribeTable
<1>3. table' = [table EXCEPT ![s] = table'[s]]
  BY DEF UnsubscribeTable, PathInv, Shapes
<1>4. iter[s].got # "early" /\ (iter[s].call \notin {"waiting", "parked"} => iter[s].holds = 0)
  BY DEF PathInv, Idle, NeverEndsEarly
<1>5. PICK j, u : /\ u \in {"done", "core"} /\ (j = iter[s] \/ j = Notified(s))
                  /\ iter' = [iter EXCEPT ![s] = [j EXCEPT !.un = u]]
  <2>1. CASE iter' = [iter EXCEPT ![s].un = "done"]
    BY <2>1, Zenon
  <2>2. CASE iter' = [iter EXCEPT ![s].un = "core"]
    BY <2>2, Zenon
  <2>3. CASE iter' = [iter EXCEPT ![s] = [Notified(s) EXCEPT !.un = "core"]]
    BY <2>3, Zenon
  <2>4. QED
    BY <2>1, <2>2, <2>3, Zenon DEF UnsubscribeTable
<1>6. PICK w : j = [call |-> iter[s].call, holds |-> iter[s].holds, woken |-> w, un |-> iter[s].un, got |-> iter[s].got]
  <2>1. CASE j = iter[s]
    BY <1>1, <2>1, Zenon DEF IterFields
  <2>2. CASE j = Notified(s)
    BY <1>1, <2>2, NotifiedShape
  <2>3. QED
    BY <1>5, <2>1, <2>2
<1>7. PICK i : i = [j EXCEPT !.un = u]
  BY Zenon
<1>8. i = [call |-> iter[s].call, holds |-> iter[s].holds, woken |-> w, un |-> u, got |-> iter[s].got]
  BY <1>6, <1>7
<1>9. iter' = [iter EXCEPT ![s] = i]
  BY <1>5, <1>7
<1>10. i = IterFields(i) /\ i.call = iter[s].call /\ i.got = iter[s].got /\ i.holds = iter[s].holds /\ i.un = u
  BY <1>8 DEF IterFields
<1>11. i.un # "no" /\ i.got # "early" /\ (i.call \notin {"waiting", "parked"} => i.holds = 0)
  BY <1>4, <1>5, <1>10
<1>12. QED
  BY <1>2, <1>3, <1>9, <1>10, <1>11, SubMoves, Zenon

\* Only the sender of the subscription that ended is dropped.
LEMMA SenderDropped ==
    ASSUME PathInv, NEW s \in Sub, UnsubscribeCore(s)
    PROVE  PathInv'
<1> USE DEF PathInv
<1>1. /\ iter' = [iter EXCEPT ![s].un = "done"] /\ UNCHANGED <<table, entry, watcher, endpointVars>>
      /\ drop_sender(s) /\ iter[s].un = "core"
  BY DEF UnsubscribeCore
<1>2. /\ senders' = [w \in Ids |-> senders'[w]]
      /\ \A w \in Ids : senders'[w] = [r \in Sub |-> senders'[w][r]]
      /\ \A w \in Ids : w # entry => senders'[w] = senders[w]
      /\ \A r \in Sub : r # s /\ entry # 0 => senders'[entry][r] = senders[entry][r]
  BY <1>1, Zenon DEF drop_sender, Shapes
<1>3. PICK i : i = [iter[s] EXCEPT !.un = "done"]
  BY Zenon
<1>4. i = [call |-> iter[s].call, holds |-> iter[s].holds, woken |-> iter[s].woken, un |-> "done", got |-> iter[s].got]
  BY <1>3 DEF Shapes, IterFields
<1>5. iter'[s] = i /\ \A r \in Sub : r # s => iter'[r] = iter[r]
  BY <1>1, <1>3 DEF Shapes
<1>6. iter' = [r \in Sub |-> IterFields(iter'[r])]
  <2>1. \A r \in Sub : iter[r] = IterFields(iter[r])
    BY DEF Shapes
  <2>2. i = IterFields(i)
    BY <1>4 DEF IterFields
  <2>3. iter' = [r \in Sub |-> iter'[r]]
    BY <1>1, Zenon DEF Shapes
  <2>4. \A r \in Sub : iter'[r] = IterFields(iter'[r])
    BY <1>5, <2>1, <2>2
  <2>5. QED
    BY <2>3, <2>4
<1>7. Shapes' /\ OneWatcher' /\ Closed'
  BY <1>1, <1>2, <1>6 DEF Shapes, OneWatcher, Closed, endpointVars, NoSenders
<1>8. Idle' /\ NeverEndsEarly'
  BY <1>4, <1>5 DEF Idle, NeverEndsEarly
<1>9. ASSUME NEW r \in Sub, iter'[r].un = "no", ~epClosed' PROVE Served(r)'
  <2>1. r # s
    BY <1>4, <1>5, <1>9
  <2>2. Served(r)
    BY <1>1, <1>5, <1>9, <2>1 DEF endpointVars
  <2>3. QED
    BY <1>1, <1>2, <1>5, <2>1, <2>2 DEF Served
<1>10. QED
  BY <1>7, <1>8, <1>9

\* A watcher leaves only a closed endpoint, or when nobody holds a receiver of its
\* senders: it never ends a subscription that goes on.
LEMMA WatcherMoves ==
    ASSUME PathInv, NEW w \in Ids, WatcherStep(w)
    PROVE  PathInv'
<1> USE DEF PathInv
<1>0. WatcherChecks(w) \/ WatcherPolls(w) \/ WatcherSleeps(w)
  BY Zenon DEF WatcherStep
<1> HIDE DEF PathInv
<1>a. WatcherChecks(w) => UNCHANGED <<table, iter, endpointVars>> /\ watcher[w].at = "check"
  BY DEF WatcherChecks, WatcherAt
<1>b. WatcherPolls(w) => UNCHANGED <<table, iter, endpointVars>> /\ watcher[w].at = "poll"
  BY DEF WatcherPolls, WatcherAt
<1>c. WatcherSleeps(w) => UNCHANGED <<table, iter, endpointVars>> /\ watcher[w].at = "sleep"
  BY DEF WatcherSleeps, WatcherAt
<1>1. UNCHANGED <<table, iter, endpointVars>>
  BY <1>0, <1>a, <1>b, <1>c
<1>d. watcher[w] # Gone
  BY <1>0, <1>a, <1>b, <1>c DEF Gone
<1> USE DEF PathInv
<1>2. Closed' /\ Idle' /\ NeverEndsEarly'
  BY <1>1 DEF Closed, Idle, NeverEndsEarly, endpointVars
<1>3. w = entry
  BY <1>d DEF OneWatcher
<1>4. ASSUME Leaves(w), \A s \in Sub : iter[s].un = "no" /\ ~epClosed => table[s] = 0
      PROVE  PathInv'
  <2>1. /\ watcher' = [watcher EXCEPT ![w] = Gone] /\ entry' = 0
        /\ senders' = [senders EXCEPT ![w] = NoSenders]
    BY <1>3, <1>4 DEF Leaves
  <2>2. Shapes'
    BY <1>1, <2>1, Zenon DEF Shapes, NoSenders
  <2>3. OneWatcher'
    BY <1>3, <2>1 DEF OneWatcher, Shapes, NoSenders
  <2>4. ASSUME NEW r \in Sub, iter'[r].un = "no", ~epClosed' PROVE Served(r)'
    BY <1>1, <1>4, <2>4 DEF Served, endpointVars
  <2>5. QED
    BY <1>2, <2>2, <2>3, <2>4
<1>5. ASSUME UNCHANGED entry, watcher' = [watcher EXCEPT ![w] = watcher'[w]],
             senders' = [senders EXCEPT ![w] = senders'[w]],
             senders'[w] = [r \in Sub |-> senders'[w][r]],
             \A s \in Sub : iter[s].un = "no" /\ ~epClosed /\ table[s] # 0 => senders'[w][s] = table[s]
      PROVE  PathInv'
  <2>1. Shapes'
    BY <1>1, <1>5 DEF Shapes
  <2>2. OneWatcher'
    BY <1>3, <1>5 DEF OneWatcher, Shapes, NoSenders
  <2>3. ASSUME NEW r \in Sub, iter'[r].un = "no", ~epClosed' PROVE Served(r)'
    BY <1>1, <1>3, <1>5, <2>3, PathAssumption DEF Served, endpointVars
  <2>4. QED
    BY <1>2, <2>1, <2>2, <2>3
<1>6. \A s \in Sub : iter[s].un = "no" /\ ~epClosed /\ table[s] # 0 => senders[w][s] = table[s]
  BY <1>3 DEF Served
<1>7. CASE WatcherChecks(w)
  <2>1. PICK live : live = [s \in Sub |-> IF senders[w][s] # 0 /\ ReceiverAlive(s, senders[w][s])
                                          THEN senders[w][s] ELSE 0]
    BY Zenon
  <2>2. \A s \in Sub : iter[s].un = "no" /\ ~epClosed /\ table[s] # 0 => live[s] = table[s]
    BY <1>6, <2>1 DEF ReceiverAlive
  <2>3. CASE epClosed \/ entry # w \/ live = NoSenders
    <3>1. Leaves(w)
      BY <1>7, <2>1, <2>3 DEF WatcherChecks
    <3>2. \A s \in Sub : iter[s].un = "no" /\ ~epClosed => table[s] = 0
      BY <1>3, <2>2, <2>3 DEF NoSenders
    <3>3. QED
      BY <1>4, <3>1, <3>2
  <2>4. CASE ~(epClosed \/ entry # w \/ live = NoSenders)
    <3>1. /\ senders' = [senders EXCEPT ![w] = live] /\ UNCHANGED entry
          /\ watcher' = [watcher EXCEPT ![w].at = "poll"]
      BY <1>7, <2>1, <2>4 DEF WatcherChecks
    <3>2. senders'[w] = live
      BY <3>1 DEF Shapes
    <3>3. watcher' = [watcher EXCEPT ![w] = watcher'[w]]
      BY <3>1 DEF Shapes
    <3>4. senders' = [senders EXCEPT ![w] = senders'[w]] /\ senders'[w] = [r \in Sub |-> senders'[w][r]]
      BY <2>1, <3>1, <3>2, Zenon
    <3>5. \A s \in Sub : iter[s].un = "no" /\ ~epClosed /\ table[s] # 0 => senders'[w][s] = table[s]
      BY <2>2, <3>2
    <3>6. QED
      BY <1>5, <3>1, <3>3, <3>4, <3>5
  <2>5. QED
    BY <2>3, <2>4
<1>8. CASE WatcherPolls(w)
  <2>1. UNCHANGED <<entry, senders>>
    BY <1>8 DEF WatcherPolls
  <2>2. watcher' = [watcher EXCEPT ![w] = watcher'[w]]
    BY <1>8 DEF WatcherPolls, Shapes
  <2>3. senders' = [senders EXCEPT ![w] = senders'[w]] /\ senders'[w] = [r \in Sub |-> senders'[w][r]]
    BY <2>1 DEF Shapes
  <2>4. QED
    BY <1>5, <1>6, <2>1, <2>2, <2>3
<1>9. CASE WatcherSleeps(w)
  <2>1. CASE epClosed
    BY <1>4, <1>9, <2>1 DEF WatcherSleeps
  <2>2. CASE ~epClosed
    <3>1. UNCHANGED <<entry, senders>>
      BY <1>9, <2>2 DEF WatcherSleeps
    <3>2. watcher' = [watcher EXCEPT ![w] = watcher'[w]]
      BY <1>9, <2>2 DEF WatcherSleeps, Shapes
    <3>3. senders' = [senders EXCEPT ![w] = senders'[w]] /\ senders'[w] = [r \in Sub |-> senders'[w][r]]
      BY <3>1 DEF Shapes
    <3>4. QED
      BY <1>5, <1>6, <3>1, <3>2, <3>3
  <2>3. QED
    BY <2>1, <2>2
<1>10. QED
  BY <1>0, <1>7, <1>8, <1>9

\* The watcher's end and the endpoint's close keep the invariant.
LEMMA PathEnds ==
    ASSUME PathInv, PathCloses
    PROVE  PathInv'
<1> USE DEF PathInv
<1>1. CASE (close_starts \/ close_core \/ close_removes) /\ UNCHANGED pathVars
  <2>1. UNCHANGED <<entry, senders, watcher, table, iter>> /\ (epClosed => epClosed') /\ Closed'
    BY <1>1 DEF pathVars, close_starts, close_core, close_removes, Closed
  <2>2. Shapes' /\ OneWatcher' /\ Idle' /\ NeverEndsEarly'
    BY <2>1 DEF Shapes, OneWatcher, Idle, NeverEndsEarly, NoSenders
  <2>3. QED
    BY <2>1, <2>2 DEF Served
<1>2. CASE clear_path_change_rxs
  <2>1. epClosed' /\ Closed' /\ UNCHANGED <<entry, senders, watcher>>
    BY <1>2 DEF clear_path_change_rxs, close_clears, Closed
  <2>2. iter' = [s \in Sub |-> Notified(s)] /\ table' = [s \in Sub |-> 0]
    BY <1>2 DEF clear_path_change_rxs
  <2>3. \A s \in Sub : /\ iter'[s] = IterFields(iter'[s]) /\ iter'[s].got = iter[s].got
                       /\ iter'[s].call = iter[s].call /\ iter'[s].holds = iter[s].holds
    <3> TAKE s \in Sub
    <3>1. iter[s] = IterFields(iter[s])
      BY DEF Shapes
    <3>2. PICK w : iter'[s] = [call |-> iter[s].call, holds |-> iter[s].holds, woken |-> w,
                               un |-> iter[s].un, got |-> iter[s].got]
      BY <2>2, <3>1, NotifiedShape
    <3>3. QED
      BY <3>2 DEF IterFields
  <2>4. iter' = [s \in Sub |-> iter'[s]]
    BY <2>2
  <2>5. Shapes'
    BY <2>1, <2>2, <2>3, <2>4 DEF Shapes
  <2>6. OneWatcher' /\ Idle' /\ NeverEndsEarly'
    BY <2>1, <2>3 DEF OneWatcher, Idle, NeverEndsEarly, NoSenders
  <2>7. QED
    BY <2>1, <2>5, <2>6
<1>3. QED
  BY <1>1, <1>2 DEF PathCloses

\* Every step keeps the invariant.
LEMMA PathInductive == PathInv /\ [PathNext]_<<endpointVars, pathVars>> => PathInv'
<1> SUFFICES ASSUME PathInv, [PathNext]_<<endpointVars, pathVars>> PROVE PathInv'
  OBVIOUS
<1>1. ASSUME UNCHANGED <<endpointVars, entry, senders, watcher, table, iter>> PROVE PathInv'
  BY <1>1, Zenon
     DEF endpointVars, PathInv, Closed, Shapes, OneWatcher, Idle, NeverEndsEarly, NoSenders,
         Served
<1>2. CASE UNCHANGED <<endpointVars, pathVars>>
  BY <1>1, <1>2 DEF pathVars
<1>3. CASE PathChanges
  BY <1>1, <1>3 DEF PathChanges
<1>4. CASE PathCloses
  BY <1>4, PathEnds
<1>5. ASSUME NEW w \in Ids, WatcherStep(w) PROVE PathInv'
  BY <1>5, WatcherMoves
<1>6. ASSUME NEW s \in Sub, SubStep(s) \/ IteratorNext(s) \/ IteratorStops(s) PROVE PathInv'
  BY <1>6, CallEntered, CallReturned, IteratorMoves, Unsubscribed, SenderDropped DEF SubStep
<1>7. QED
  BY <1>2, <1>3, <1>4, <1>5, <1>6 DEF PathNext

\* A path iterator never reports its end while it is subscribed and the
\* endpoint is open.
THEOREM NeverEndsEarlyHolds == PathSpec => []NeverEndsEarly
<1>1. PathInv => NeverEndsEarly
  BY DEF PathInv
<1>2. QED
  BY <1>1, PathInitially, PathInductive, PTL DEF PathSpec

-----------------------------------------------------------------------------
(* The Deno serve loop.                                                    *)

\* The Deno serve loop on its own.
DenoSpec == DenoInit /\ [][DenoNext]_denoVars

\* A serve queue of the native side.
Queue == [q : Seq(DReq), shutdown : BOOLEAN, waker : BOOLEAN]
\* Where a serve loop can be.
LoopPlaces == {"install", "installed", "poll", "recv", "wait", "settle", "over"}
\* A serve loop of the JavaScript side.
Loop == [at : LoopPlaces, signal : BOOLEAN, buf : Nat, retry : BOOLEAN]
\* A request on its way into a queue.
Delivery == [at : {"new", "found", "checked", "wake", "over"}, k : Nat]

\* The types of the variables.
DenoTypes ==
    /\ queues \in Seq(Queue) /\ loop \in Seq(Loop) /\ dreq \in [DReq -> Delivery]
    /\ stop \in {"idle", "called", "drain", "waiting"} /\ epOpen \in BOOLEAN

\* Only the last serve cycle is alive, and only its queue can be registered.
OneCycle ==
    /\ Len(loop) = Len(queues) /\ registered \in {0, Len(queues)}
    /\ \A k \in 1..Len(loop) : k # Len(loop) => loop[k].at = "over"
    /\ \A r \in DReq : dreq[r].at \in {"found", "checked", "wake"} => dreq[r].k \in 1..Len(queues)

\* A loop that polls has its waker installed.
WakerInstalled ==
    \A k \in 1..Len(loop) : loop[k].at \in {"recv", "wait", "poll", "installed"} => queues[k].waker

\* A loop that will sleep without a signal is the registered one, and was not
\* shut down.
NoLostStop ==
    \A k \in 1..Len(loop) :
        loop[k].at \in {"recv", "wait"} /\ ~loop[k].signal => registered = k /\ ~queues[k].shutdown

\* A delivery to queue k is about to call the waker.
WakeUnderWay(k) == \E r \in DReq : dreq[r].at = "wake" /\ dreq[r].k = k

\* A loop that sleeps without a signal has an empty queue, or a wake is under
\* way.
NoLostRequest ==
    \A k \in 1..Len(loop) :
        loop[k].at = "wait" /\ ~loop[k].signal => queues[k].q = <<>> \/ WakeUnderWay(k)

\* The inductive invariant of the Deno serve loop.
DenoInv == DenoTypes /\ OneCycle /\ WakerInstalled /\ NoLostStop /\ NoLostRequest

\* Where a stop can be.
StopPlaces == {"idle", "called", "drain", "waiting"}
-----------------------------------------------------------------------------
\* What the types say of one cycle.
LEMMA QueueShape ==
    ASSUME DenoTypes
    PROVE  /\ Len(queues) \in Nat /\ Len(loop) \in Nat /\ DOMAIN loop = 1..Len(loop)
           /\ \A k \in 1..Len(queues) : queues[k] \in Queue
           /\ \A k \in 1..Len(loop) : loop[k] \in Loop
  BY DEF DenoTypes

\* One cycle changes: the invariant holds if that cycle keeps its part.
LEMMA CycleStep ==
    ASSUME DenoInv, NEW k \in 1..Len(loop), NEW e \in Loop, NEW u \in Queue,
           loop' = [loop EXCEPT ![k] = e], queues' = [queues EXCEPT ![k] = u],
           dreq' \in [DReq -> Delivery],
           \A r \in DReq : dreq'[r].at \in {"found", "checked", "wake"} => dreq'[r].k \in 1..Len(queues),
           \A j \in 1..Len(loop) : j # k /\ WakeUnderWay(j) => WakeUnderWay(j)',
           registered' \in {0, Len(queues)}, k # Len(loop) => registered' = registered,
           stop' \in StopPlaces, epOpen' \in BOOLEAN,
           k # Len(loop) => e.at = "over",
           e.at \in {"recv", "wait", "poll", "installed"} => u.waker,
           e.at \in {"recv", "wait"} /\ ~e.signal => registered' = k /\ ~u.shutdown,
           e.at = "wait" /\ ~e.signal => u.q = <<>> \/ WakeUnderWay(k)'
    PROVE  DenoInv'
<1> USE DEF DenoInv
<1>0. Len(loop) = Len(queues)
  BY DEF OneCycle
<1>1. /\ Len(loop') = Len(loop) /\ loop' \in Seq(Loop) /\ loop'[k] = e
      /\ \A j \in 1..Len(loop) : j # k => loop'[j] = loop[j]
  BY DEF DenoTypes
<1>2. /\ Len(queues') = Len(queues) /\ queues' \in Seq(Queue) /\ queues'[k] = u
      /\ \A j \in 1..Len(loop) : j # k => queues'[j] = queues[j]
  BY <1>0 DEF DenoTypes
<1>3. DenoTypes'
  BY <1>1, <1>2 DEF DenoTypes, StopPlaces
<1>4. OneCycle'
  BY <1>1, <1>2 DEF OneCycle
<1>5. WakerInstalled'
  BY <1>1, <1>2, Zenon DEF WakerInstalled
<1>6. NoLostStop'
  <2>1. ASSUME NEW j \in 1..Len(loop), loop'[j].at \in {"recv", "wait"}, ~loop'[j].signal
        PROVE  registered' = j /\ ~queues'[j].shutdown
    <3>1. CASE j = k
      BY <2>1, <3>1, <1>1, <1>2, Zenon
    <3>2. CASE j # k
      <4>1. j = Len(loop) /\ registered' = registered
        BY <2>1, <3>2, <1>1 DEF OneCycle
      <4>2. QED
        BY <2>1, <3>2, <4>1, <1>1, <1>2, Zenon DEF NoLostStop
    <3>3. QED
      BY <3>1, <3>2
  <2>2. QED
    BY <2>1, <1>1, Zenon DEF NoLostStop
<1>7. NoLostRequest'
  <2>1. ASSUME NEW j \in 1..Len(loop), loop'[j].at = "wait", ~loop'[j].signal
        PROVE  queues'[j].q = <<>> \/ WakeUnderWay(j)'
    <3>1. CASE j = k
      BY <2>1, <3>1, <1>1, <1>2, Zenon
    <3>2. CASE j # k
      BY <2>1, <3>2, <1>1, <1>2 DEF NoLostRequest
    <3>3. QED
      BY <3>1, <3>2
  <2>2. QED
    BY <2>1, <1>1, Zenon DEF NoLostRequest
<1>8. QED
  BY <1>3, <1>4, <1>5, <1>6, <1>7

\* A step of a delivery that leaves queues and loops alone keeps the invariant.
LEMMA QueuesKept ==
    ASSUME DenoInv, UNCHANGED <<queues, loop, registered>>,
           dreq' \in [DReq -> Delivery],
           \A r \in DReq : dreq'[r].at \in {"found", "checked", "wake"} => dreq'[r].k \in 1..Len(queues),
           \A j \in 1..Len(loop) : WakeUnderWay(j) => WakeUnderWay(j)',
           stop' \in StopPlaces, epOpen' \in BOOLEAN
    PROVE  DenoInv'
<1> USE DEF DenoInv
<1>1. DenoTypes' /\ OneCycle'
  BY DEF DenoTypes, OneCycle, StopPlaces
<1>2. WakerInstalled' /\ NoLostStop'
  BY DEF WakerInstalled, NoLostStop
<1>3. NoLostRequest'
  BY DEF NoLostRequest
<1>4. QED
  BY <1>1, <1>2, <1>3

\* One delivery moves: no other wake is lost.
LEMMA DeliveryMoves ==
    ASSUME DenoInv, NEW r \in DReq, NEW l \in {"found", "checked", "wake", "over"}, NEW n \in Nat,
           dreq' = [dreq EXCEPT ![r] = [at |-> l, k |-> n]],
           l # "over" => n \in 1..Len(queues)
    PROVE  /\ dreq' \in [DReq -> Delivery]
           /\ \A x \in DReq : dreq'[x].at \in {"found", "checked", "wake"} => dreq'[x].k \in 1..Len(queues)
           /\ \A j : (dreq[r].at = "wake" => j # dreq[r].k) /\ WakeUnderWay(j) => WakeUnderWay(j)'
           /\ l = "wake" => WakeUnderWay(n)'
<1>1. dreq \in [DReq -> Delivery]
  BY DEF DenoInv, DenoTypes
<1>2. dreq' \in [DReq -> Delivery]
  BY <1>1 DEF Delivery
<1>3. \A x \in DReq : dreq'[x] = IF x = r THEN [at |-> l, k |-> n] ELSE dreq[x]
  BY <1>1
<1>4. \A x \in DReq : dreq'[x].at \in {"found", "checked", "wake"} => dreq'[x].k \in 1..Len(queues)
  BY <1>3 DEF DenoInv, OneCycle
<1>5. ASSUME NEW j, dreq[r].at = "wake" => j # dreq[r].k, WakeUnderWay(j) PROVE WakeUnderWay(j)'
  BY <1>5, <1>3 DEF WakeUnderWay
<1>6. l = "wake" => WakeUnderWay(n)'
  BY <1>3 DEF WakeUnderWay
<1>7. QED
  BY <1>2, <1>4, <1>5, <1>6

\* What the invariant says of one delivery.
LEMMA DeliveryShape ==
    ASSUME DenoInv, NEW r \in DReq
    PROVE  /\ dreq[r].k \in Nat
           /\ dreq[r].at \in {"found", "checked", "wake"} => dreq[r].k \in 1..Len(queues) /\ dreq[r].k \in 1..Len(loop)
           /\ \A l : DeliveryTo(r, l) => dreq' = [dreq EXCEPT ![r] = [at |-> l, k |-> dreq[r].k]]
<1>1. dreq[r] \in Delivery /\ dreq \in [DReq -> Delivery]
  BY DEF DenoInv, DenoTypes
<1>2. \A l : [dreq[r] EXCEPT !.at = l] = [at |-> l, k |-> dreq[r].k]
  BY <1>1 DEF Delivery
<1>3. QED
  BY <1>1, <1>2 DEF DenoInv, OneCycle, Delivery, DeliveryTo

\* The delivery of a request, from finding the queue to waking its loop, keeps
\* the invariant.
LEMMA DenoDelivers ==
    ASSUME DenoInv, NEW r \in DReq, DeliverStep(r)
    PROVE  DenoInv'
<1> USE DEF DeliveryAt
<1>q. stop \in StopPlaces /\ epOpen \in BOOLEAN /\ DenoTypes /\ Len(loop) = Len(queues)
  BY DEF DenoInv, DenoTypes, StopPlaces, OneCycle
<1>r. registered \in Nat /\ registered # 0 => registered \in 1..Len(queues)
  <2>1. registered \in {0, Len(queues)}
    BY DEF DenoInv, OneCycle
  <2>2. Len(queues) \in Nat
    BY <1>q, QueueShape
  <2>3. QED
    BY <2>1, <2>2
<1>m. ASSUME NEW l \in {"found", "checked", "wake", "over"}, NEW n \in Nat,
             dreq' = [dreq EXCEPT ![r] = [at |-> l, k |-> n]],
             l # "over" => n \in 1..Len(queues), dreq[r].at # "wake",
             UNCHANGED <<queues, registered, loop, stop, epOpen>>
      PROVE  DenoInv'
  BY <1>m, <1>q, DeliveryMoves, QueuesKept, Zenon
<1>n. ASSUME NEW l \in {"checked", "over"}, DeliveryTo(r, l), dreq[r].at \in {"new", "found", "checked"},
             l # "over" => dreq[r].at = "found",
             UNCHANGED <<queues, registered, loop, stop, epOpen>>
      PROVE  DenoInv'
  <2>1. PICK n \in Nat : n = dreq[r].k
    BY DeliveryShape
  <2>2. dreq' = [dreq EXCEPT ![r] = [at |-> l, k |-> n]] /\ (l # "over" => n \in 1..Len(queues))
    BY <1>n, <2>1, DeliveryShape
  <2>3. QED
    BY <1>n, <2>2, <1>m, Zenon
<1>1. CASE DeliverLookup(r)
  <2>1. CASE registered = 0
    BY <1>1, <2>1, <1>n DEF DeliverLookup, Answer503
  <2>2. CASE registered # 0
    BY <1>1, <2>2, <1>m, <1>r, <1>q, QueueShape, Zenon DEF DeliverLookup, DenoInv, OneCycle
  <2>3. QED
    BY <2>1, <2>2
<1>2. CASE DeliverCheck(r)
  BY <1>2, <1>n DEF DeliverCheck, Answer503
<1>3. CASE DeliverSend(r)
  <2>1. PICK k \in 1..Len(loop) : k = dreq[r].k
    BY <1>3, DeliveryShape DEF DeliverSend
  <2>2. CASE Len(queues[k].q) >= Capacity
    BY <1>3, <2>1, <2>2, <1>n DEF DeliverSend, Answer503
  <2>3. CASE ~(Len(queues[k].q) >= Capacity)
    <3>1. /\ dreq' = [dreq EXCEPT ![r] = [at |-> "wake", k |-> k]]
          /\ queues' = [queues EXCEPT ![k].q = Append(@, r)]
          /\ UNCHANGED <<registered, loop, stop, epOpen>>
      BY <1>3, <2>1, <2>3, DeliveryShape DEF DeliverSend
    <3>2. queues[k] \in Queue /\ loop[k] \in Loop /\ k \in 1..Len(queues) /\ k \in Nat
      BY <1>q, QueueShape
    <3>3. PICK u \in Queue : u = [queues[k] EXCEPT !.q = Append(@, r)]
      <4>1. Append(queues[k].q, r) \in Seq(DReq)
        BY <3>2 DEF Queue
      <4>2. QED
        BY <3>2, <4>1, Zenon DEF Queue
    <3>4. (u.waker <=> queues[k].waker) /\ (u.shutdown <=> queues[k].shutdown)
      BY <3>2, <3>3 DEF Queue
    <3>5. queues' = [queues EXCEPT ![k] = u] /\ loop' = [loop EXCEPT ![k] = loop[k]]
      BY <3>1, <3>3, <1>q DEF DenoTypes
    <3>6. /\ dreq' \in [DReq -> Delivery]
          /\ \A x \in DReq : dreq'[x].at \in {"found", "checked", "wake"} => dreq'[x].k \in 1..Len(queues)
          /\ \A j : WakeUnderWay(j) => WakeUnderWay(j)'
          /\ WakeUnderWay(k)'
      BY <3>1, <3>2, <1>3, DeliveryMoves, Zenon DEF DeliverSend
    <3>7. /\ k # Len(loop) => loop[k].at = "over"
          /\ loop[k].at \in {"recv", "wait", "poll", "installed"} => u.waker
          /\ loop[k].at \in {"recv", "wait"} /\ ~loop[k].signal => registered = k /\ ~u.shutdown
          /\ registered \in {0, Len(queues)}
      BY <3>4 DEF DenoInv, OneCycle, WakerInstalled, NoLostStop
    <3>8. stop' \in StopPlaces /\ epOpen' \in BOOLEAN /\ registered' = registered
      BY <3>1, <1>q
    <3>9. QED
      BY <3>2, <3>5, <3>6, <3>7, <3>8, CycleStep, Zenon
  <2>4. QED
    BY <2>2, <2>3
<1>4. CASE DeliverWake(r)
  <2>1. PICK k \in 1..Len(loop) : k = dreq[r].k
    BY <1>4, DeliveryShape DEF DeliverWake
  <2>2. /\ dreq' = [dreq EXCEPT ![r] = [at |-> "over", k |-> k]]
        /\ loop' = [loop EXCEPT ![k].signal = @ \/ queues[k].waker]
        /\ UNCHANGED <<queues, registered, stop, epOpen>>
    BY <1>4, <2>1, DeliveryShape DEF DeliverWake, wake_request_loop
  <2>3. queues[k] \in Queue /\ loop[k] \in Loop /\ k \in Nat
    BY <1>q, QueueShape
  <2>4. PICK e \in Loop : e = [loop[k] EXCEPT !.signal = @ \/ queues[k].waker]
    BY <2>3, Zenon DEF Loop, Queue
  <2>5. e.at = loop[k].at /\ (e.signal <=> loop[k].signal \/ queues[k].waker)
    BY <2>3, <2>4 DEF Loop
  <2>6. queues' = [queues EXCEPT ![k] = queues[k]] /\ loop' = [loop EXCEPT ![k] = e]
    BY <2>2, <2>4, <1>q DEF DenoTypes
  <2>7. /\ dreq' \in [DReq -> Delivery]
        /\ \A x \in DReq : dreq'[x].at \in {"found", "checked", "wake"} => dreq'[x].k \in 1..Len(queues)
        /\ \A j : j # k /\ WakeUnderWay(j) => WakeUnderWay(j)'
    BY <2>1, <2>2, <2>3, DeliveryMoves, Zenon
  <2>8. /\ k # Len(loop) => e.at = "over"
        /\ e.at \in {"recv", "wait", "poll", "installed"} => queues[k].waker /\ e.signal
        /\ registered \in {0, Len(queues)}
    BY <2>5 DEF DenoInv, OneCycle, WakerInstalled
  <2>9. stop' \in StopPlaces /\ epOpen' \in BOOLEAN /\ registered' = registered
    BY <2>2, <1>q
  <2>10. QED
    BY <2>3, <2>6, <2>7, <2>8, <2>9, CycleStep, Zenon
<1>5. QED
  BY <1>1, <1>2, <1>3, <1>4 DEF DeliverStep

\* One loop moves and its queue with it.
LEMMA LoopMoves ==
    ASSUME DenoInv, NEW k \in 1..Len(loop), loop[k].at # "over",
           NEW e \in Loop, NEW u \in Queue,
           loop' = [loop EXCEPT ![k] = e], queues' = [queues EXCEPT ![k] = u],
           UNCHANGED <<registered, dreq, stop, epOpen>>,
           e.at \in {"recv", "wait", "poll", "installed"} => u.waker,
           e.at \in {"recv", "wait"} /\ ~e.signal => registered = k /\ ~u.shutdown,
           e.at = "wait" /\ ~e.signal => u.q = <<>>
    PROVE  DenoInv'
<1>1. k = Len(loop) /\ registered' \in {0, Len(queues)}
  BY DEF DenoInv, OneCycle
<1>2. /\ dreq' \in [DReq -> Delivery] /\ stop' \in StopPlaces /\ epOpen' \in BOOLEAN
      /\ \A r \in DReq : dreq'[r].at \in {"found", "checked", "wake"} => dreq'[r].k \in 1..Len(queues)
  BY DEF DenoInv, DenoTypes, OneCycle, StopPlaces
<1>3. \A j : WakeUnderWay(j) => WakeUnderWay(j)'
  BY DEF WakeUnderWay
<1>4. QED
  BY <1>1, <1>2, <1>3, CycleStep, Zenon

\* The serve loop keeps the invariant: it sleeps only after it found its queue
\* empty under the lock.
LEMMA DenoLoops ==
    ASSUME DenoInv, NEW k \in 1..MaxCycles, LoopStep(k)
    PROVE  DenoInv'
<1>t. DenoTypes
  BY DEF DenoInv
<1>d. DOMAIN loop = 1..Len(loop)
  BY <1>t, QueueShape
<1>1. k \in 1..Len(loop) /\ loop[k].at # "over"
  BY <1>d, Zenon
     DEF LoopStep, InstallWaker, CheckWaiting, try_next_request, TryRecv, LoopWakes, LoopSettles,
         LoopAt
<1>2. loop[k] \in Loop /\ queues[k] \in Queue /\ k = Len(loop) /\ k = Len(queues)
  BY <1>1, <1>t, QueueShape, Zenon DEF DenoInv, OneCycle
<1>3. registered = 0 \/ registered = k
  BY <1>2 DEF DenoInv, OneCycle
<1>w. /\ loop[k].at \in {"recv", "wait", "poll", "installed"} => queues[k].waker
      /\ loop[k].at \in {"recv", "wait"} /\ ~loop[k].signal => registered = k /\ ~queues[k].shutdown
  BY <1>1 DEF DenoInv, WakerInstalled, NoLostStop
<1>k. /\ UNCHANGED queues => queues' = [queues EXCEPT ![k] = queues[k]]
      /\ loop = [loop EXCEPT ![k] = loop[k]]
  BY <1>1, <1>2, <1>t DEF DenoTypes
<1>m. ASSUME NEW l \in LoopPlaces, loop' = [loop EXCEPT ![k].at = l],
             UNCHANGED <<queues, registered, dreq, stop, epOpen>>,
             l \in {"recv", "wait", "poll", "installed"} => queues[k].waker,
             l = "recv" => registered = k /\ ~queues[k].shutdown, l # "wait"
      PROVE  DenoInv'
  <2>1. PICK e \in Loop : e = [loop[k] EXCEPT !.at = l]
    BY <1>2, Zenon DEF Loop
  <2>2. e.at = l /\ loop' = [loop EXCEPT ![k] = e]
    BY <2>1, <1>m, <1>2 DEF Loop
  <2>3. queues' = [queues EXCEPT ![k] = queues[k]]
    BY <1>m, <1>k
  <2>4. QED
    BY <1>m, <1>1, <1>2, <2>2, <2>3, LoopMoves, Zenon
<1>4. CASE InstallWaker(k)
  <2>1. CASE registered = 0
    BY <1>4, <2>1, <1>m DEF InstallWaker, LoopTo, LoopPlaces
  <2>2. CASE registered = k
    <3>1. PICK e \in Loop : e = [loop[k] EXCEPT !.at = "installed"]
      BY <1>2, Zenon DEF Loop, LoopPlaces
    <3>2. PICK u \in Queue : u = [queues[k] EXCEPT !.waker = TRUE]
      BY <1>2, Zenon DEF Queue
    <3>3. e.at = "installed" /\ u.waker
      BY <3>1, <3>2, <1>2 DEF Loop, Queue
    <3>4. /\ loop' = [loop EXCEPT ![k] = e] /\ queues' = [queues EXCEPT ![k] = u]
          /\ UNCHANGED <<registered, dreq, stop, epOpen>>
      BY <1>4, <2>2, <1>1, <1>2, <3>1, <3>2, QueueShape, <1>t DEF InstallWaker, LoopTo
    <3>5. QED
      BY <1>1, <3>3, <3>4, LoopMoves, Zenon
  <2>3. QED
    BY <2>1, <2>2, <1>3
<1>5. CASE CheckWaiting(k)
  <2>1. PICK b \in BOOLEAN : b = (loop[k].signal \/ queues[k].shutdown \/ queues[k].q # <<>>)
    BY Zenon
  <2>2. PICK e \in Loop : e = [loop[k] EXCEPT !.at = "poll", !.signal = b]
    BY <1>2, Zenon DEF Loop, LoopPlaces
  <2>3. e.at = "poll"
    BY <1>2, <2>2 DEF Loop
  <2>4. loop' = [loop EXCEPT ![k] = e]
    BY <1>5, <2>1, <2>2, <1>t, <1>1, Zenon DEF CheckWaiting, DenoTypes
  <2>5. loop[k].at = "installed" /\ UNCHANGED <<queues, registered, dreq, stop, epOpen>>
    BY <1>5 DEF CheckWaiting, LoopAt
  <2>6. QED
    BY <1>1, <1>2, <1>w, <1>k, <2>3, <2>4, <2>5, LoopMoves, Zenon
<1>6. CASE try_next_request(k)
  <2>1. /\ loop[k].at = "poll" /\ UNCHANGED <<queues, registered, dreq, stop, epOpen>>
        /\ loop' = [loop EXCEPT ![k].at = IF registered = 0 \/ queues[registered].shutdown THEN "settle" ELSE "recv"]
    BY <1>6 DEF try_next_request, LoopAt, LoopTo
  <2>2. CASE registered = 0 \/ queues[registered].shutdown
    BY <2>1, <2>2, <1>m, Zenon DEF LoopPlaces
  <2>3. CASE ~(registered = 0 \/ queues[registered].shutdown)
    BY <2>1, <2>3, <1>m, <1>3, <1>w DEF LoopPlaces
  <2>4. QED
    BY <2>2, <2>3
<1>7. CASE TryRecv(k)
  <2>0. loop[k].at = "recv" /\ queues[k].waker /\ UNCHANGED <<registered, dreq, stop, epOpen>>
    BY <1>7, <1>w DEF TryRecv, LoopAt
  <2>1. CASE queues[k].q = <<>>
    <3>1. PICK e \in Loop : e = [loop[k] EXCEPT !.at = "wait", !.retry = FALSE]
      BY <1>2, Zenon DEF Loop, LoopPlaces
    <3>2. e.at = "wait" /\ (e.signal <=> loop[k].signal)
      BY <3>1, <1>2 DEF Loop
    <3>3. loop' = [loop EXCEPT ![k] = e] /\ UNCHANGED queues
      BY <1>7, <2>1, <3>1, <1>t, <1>1, Zenon DEF TryRecv, DenoTypes
    <3>4. QED
      BY <1>1, <1>2, <1>w, <1>k, <2>0, <2>1, <3>2, <3>3, LoopMoves, Zenon
  <2>2. CASE queues[k].q # <<>>
    <3>1. PICK r \in DReq : r = Head(queues[k].q)
      BY <2>2, <1>2 DEF Queue
    <3>2. Size[r] \in Nat /\ loop[k].buf \in Nat /\ Tail(queues[k].q) \in Seq(DReq)
      BY <2>2, <1>2, DenoAssumption DEF Queue, Loop
    <3> DEFINE fits == Size[r] <= loop[k].buf
    <3>4. PICK u \in Queue : u = [queues[k] EXCEPT !.q = Tail(@)]
      BY <3>2, <1>2, Zenon DEF Queue
    <3>5. u.waker
      BY <3>4, <2>0, <1>2 DEF Queue
    <3>6. PICK l \in {"poll", "settle"} : l = IF fits \/ ~loop[k].retry THEN "poll" ELSE "settle"
      OBVIOUS
    <3>7. PICK n \in Nat : n = IF fits \/ loop[k].retry THEN loop[k].buf ELSE Size[r]
      BY <3>2
    <3>8. PICK b \in BOOLEAN : b = ~fits
      BY Zenon
    <3>9. PICK e \in Loop : e = [loop[k] EXCEPT !.at = l, !.buf = n, !.retry = b]
      BY <1>2, Zenon DEF Loop, LoopPlaces
    <3>10. e.at \in {"poll", "settle"}
      BY <3>9, <1>2 DEF Loop
    <3>11. queues' = [queues EXCEPT ![k] = u]
      BY <1>7, <2>2, <3>4, Zenon DEF TryRecv
    <3>12. loop' = [loop EXCEPT ![k] = e]
      BY <1>7, <2>2, <3>1, <3>6, <3>7, <3>8, <3>9, <1>t, <1>1, Zenon DEF TryRecv, DenoTypes
    <3>13. QED
      BY <1>1, <2>0, <3>5, <3>10, <3>11, <3>12, LoopMoves, Zenon
  <2>3. QED
    BY <2>1, <2>2
<1>8. CASE LoopWakes(k)
  <2>1. PICK e \in Loop : e = [loop[k] EXCEPT !.at = "poll", !.signal = FALSE]
    BY <1>2, Zenon DEF Loop, LoopPlaces
  <2>2. e.at = "poll"
    BY <1>2, <2>1 DEF Loop
  <2>3. loop' = [loop EXCEPT ![k] = e]
    BY <1>8, <2>1, <1>t, <1>1, Zenon DEF LoopWakes, DenoTypes
  <2>4. loop[k].at = "wait" /\ UNCHANGED <<queues, registered, dreq, stop, epOpen>>
    BY <1>8 DEF LoopWakes, LoopAt
  <2>5. QED
    BY <1>1, <1>2, <1>w, <1>k, <2>2, <2>3, <2>4, LoopMoves, Zenon
<1>9. CASE LoopSettles(k)
  BY <1>9, <1>m DEF LoopSettles, LoopTo, LoopPlaces
<1>10. QED
  BY <1>4, <1>5, <1>6, <1>7, <1>8, <1>9 DEF LoopStep

\* A new serve cycle keeps the invariant.
LEMMA ServeStarts ==
    ASSUME DenoInv, serve_start
    PROVE  DenoInv'
<1> USE DEF DenoInv, serve_start
<1>t. DenoTypes
  OBVIOUS
<1>p. PICK n \in Nat : n = Len(queues)
  BY <1>t, QueueShape
<1>0. n = Len(loop) /\ \A k \in 1..n : loop[k].at = "over"
  <2>1. n = Len(loop) /\ \A k \in 1..n : k # n => loop[k].at = "over"
    BY <1>p DEF OneCycle
  <2>2. n # 0 => loop[n].at = "over"
    BY <2>1, <1>t DEF Running, DenoTypes
  <2>3. QED
    BY <2>1, <2>2
<1>1. PICK u \in Queue : u = [q |-> <<>>, shutdown |-> FALSE, waker |-> FALSE]
  <2>1. <<>> \in Seq(DReq)
    OBVIOUS
  <2>2. QED
    BY <2>1, Zenon DEF Queue
<1>2. PICK e \in Loop : e = [at |-> "install", signal |-> FALSE, buf |-> PollBuf, retry |-> FALSE]
  BY Zenon DEF Loop, LoopPlaces, PollBuf
<1>3. e.at = "install"
  BY <1>2
<1>4. /\ Len(queues') = n + 1 /\ queues' \in Seq(Queue)
      /\ \A k \in 1..n : queues'[k] = queues[k]
  BY <1>1, <1>p, <1>t DEF DenoTypes
<1>5. /\ Len(loop') = n + 1 /\ loop' \in Seq(Loop) /\ loop'[n + 1] = e
      /\ \A k \in 1..n : loop'[k] = loop[k]
  BY <1>2, <1>0, <1>t DEF DenoTypes
<1>6. DenoTypes'
  BY <1>4, <1>5 DEF DenoTypes
<1>7. \A k \in 1..Len(loop') : loop'[k].at \in {"over", "install"} /\ (k # Len(loop') => loop'[k].at = "over")
  BY <1>0, <1>3, <1>5
<1>8. OneCycle'
  <2>1. registered' = Len(queues')
    OBVIOUS
  <2>2. \A r \in DReq : dreq'[r].at \in {"found", "checked", "wake"} => dreq'[r].k \in 1..Len(queues')
    BY <1>4, <1>p DEF OneCycle
  <2>3. QED
    BY <2>1, <2>2, <1>4, <1>5, <1>7 DEF OneCycle
<1>9. WakerInstalled' /\ NoLostStop' /\ NoLostRequest'
  BY <1>7 DEF WakerInstalled, NoLostStop, NoLostRequest
<1>10. QED
  BY <1>6, <1>8, <1>9

\* Stopping a serve and closing the endpoint keep the invariant.
LEMMA DenoStops ==
    ASSUME DenoInv, stopServe \/ StopStep \/ close_endpoint \/ close_all
    PROVE  DenoInv'
<1>t. DenoTypes
  BY DEF DenoInv
<1>n. Len(queues) \in Nat /\ Len(loop) = Len(queues)
  BY <1>t, QueueShape, Zenon DEF DenoInv, OneCycle
<1>r. registered \in {0, Len(queues)}
  BY DEF DenoInv, OneCycle
<1>a. /\ dreq' = dreq
      /\ stop' \in StopPlaces /\ epOpen' \in BOOLEAN
      /\ registered' \in {registered, 0}
  BY <1>t, Zenon
     DEF DenoTypes, StopPlaces, stopServe, StopStep, signal_shutdown, DrainQueue, StopReturns,
              close_endpoint, close_all, remove
<1>b. /\ dreq' \in [DReq -> Delivery]
      /\ \A r \in DReq : dreq'[r].at \in {"found", "checked", "wake"} => dreq'[r].k \in 1..Len(queues)
  BY <1>a DEF DenoInv, DenoTypes, OneCycle
<1>w. \A j : WakeUnderWay(j) => WakeUnderWay(j)'
  BY <1>a DEF WakeUnderWay
<1>1. CASE UNCHANGED <<queues, loop, registered>>
  BY <1>1, <1>a, <1>b, <1>w, QueuesKept
<1>2. ASSUME NEW k \in 1..Len(loop), k = Len(loop), NEW e \in Loop, NEW u \in Queue,
             e.at = loop[k].at, u.waker <=> queues[k].waker,
             loop' = [loop EXCEPT ![k] = e], queues' = [queues EXCEPT ![k] = u],
             e.at \in {"recv", "wait"} /\ ~e.signal =>
                 ~loop[k].signal /\ registered' = registered /\ ~u.shutdown /\ u.q \in {queues[k].q, <<>>}
      PROVE  DenoInv'
  <2>1. /\ e.at \in {"recv", "wait", "poll", "installed"} => u.waker
        /\ e.at \in {"recv", "wait"} /\ ~e.signal => registered' = k /\ ~u.shutdown
    BY <1>2 DEF DenoInv, WakerInstalled, NoLostStop
  <2>2. e.at = "wait" /\ ~e.signal => u.q = <<>> \/ WakeUnderWay(k)'
    BY <1>2, <1>w, Zenon DEF DenoInv, NoLostRequest
  <2>3. registered' \in {0, Len(queues)}
    BY <1>r, <1>a
  <2>4. QED
    BY <1>2, <1>a, <1>b, <1>w, <2>1, <2>2, <2>3, CycleStep, Zenon
<1>3. CASE stopServe
  <2>1. PICK k \in 1..Len(loop) : k = Len(loop)
    BY <1>3, <1>n, <1>t DEF stopServe, Running, DenoTypes
  <2>2. loop[k] \in Loop /\ queues[k] \in Queue
    BY <1>t, <1>n, QueueShape
  <2>3. PICK e \in Loop : e = [loop[k] EXCEPT !.signal = TRUE]
    BY <2>2, Zenon DEF Loop
  <2>4. e.at = loop[k].at /\ e.signal
    BY <2>2, <2>3 DEF Loop
  <2>5. loop' = [loop EXCEPT ![k] = e] /\ queues' = [queues EXCEPT ![k] = queues[k]]
    BY <1>3, <2>1, <2>3, <1>t, <1>n DEF stopServe, DenoTypes
  <2>6. QED
    BY <2>1, <2>2, <2>4, <2>5, <1>2, Zenon
<1>4. ASSUME registered # 0, queues' = [queues EXCEPT ![registered].shutdown = TRUE],
             wake_request_loop(registered)
      PROVE  DenoInv'
  <2>1. PICK k \in 1..Len(loop) : k = Len(loop) /\ k = registered
    BY <1>4, <1>n, <1>r
  <2>2. loop[k] \in Loop /\ queues[k] \in Queue
    BY <1>t, <1>n, QueueShape
  <2>3. PICK e \in Loop : e = [loop[k] EXCEPT !.signal = @ \/ queues[k].waker]
    BY <2>2, Zenon DEF Loop, Queue
  <2>4. e.at = loop[k].at /\ (e.signal <=> loop[k].signal \/ queues[k].waker)
    BY <2>2, <2>3 DEF Loop
  <2>5. PICK u \in Queue : u = [queues[k] EXCEPT !.shutdown = TRUE]
    BY <2>2, Zenon DEF Queue
  <2>6. u.waker <=> queues[k].waker
    BY <2>2, <2>5 DEF Queue
  <2>7. loop' = [loop EXCEPT ![k] = e] /\ queues' = [queues EXCEPT ![k] = u]
    BY <1>4, <2>1, <2>3, <2>5, <1>t, <1>n DEF wake_request_loop, DenoTypes
  <2>8. loop[k].at \in {"recv", "wait"} => queues[k].waker
    BY DEF DenoInv, WakerInstalled
  <2>9. QED
    BY <2>1, <2>2, <2>4, <2>6, <2>7, <2>8, <1>2, Zenon
<1>5. CASE signal_shutdown \/ close_endpoint \/ close_all
  <2>1. CASE registered = 0
    BY <1>5, <2>1, <1>1 DEF signal_shutdown, close_endpoint, close_all, remove
  <2>2. CASE registered # 0
    BY <1>5, <2>2, <1>4 DEF signal_shutdown, close_endpoint, close_all, remove
  <2>3. QED
    BY <2>1, <2>2
<1>6. CASE DrainQueue
  <2>1. CASE registered = 0
    BY <1>6, <2>1, <1>1 DEF DrainQueue
  <2>2. CASE registered # 0
    <3>1. PICK k \in 1..Len(loop) : k = Len(loop) /\ k = registered
      BY <2>2, <1>n, <1>r
    <3>2. loop[k] \in Loop /\ queues[k] \in Queue
      BY <1>t, <1>n, QueueShape
    <3>3. PICK u \in Queue : u = [queues[k] EXCEPT !.q = <<>>]
      <4>1. <<>> \in Seq(DReq)
        OBVIOUS
      <4>2. QED
        BY <4>1, <3>2, Zenon DEF Queue
    <3>4. (u.waker <=> queues[k].waker) /\ (u.shutdown <=> queues[k].shutdown) /\ u.q = <<>>
      BY <3>2, <3>3 DEF Queue
    <3>5. loop' = [loop EXCEPT ![k] = loop[k]] /\ queues' = [queues EXCEPT ![k] = u] /\ registered' = registered
      BY <1>6, <2>2, <3>1, <3>3, <1>t, <1>n DEF DrainQueue, DenoTypes
    <3>6. loop[k].at \in {"recv", "wait"} /\ ~loop[k].signal => ~u.shutdown
      BY <3>4 DEF DenoInv, NoLostStop
    <3>7. QED
      BY <3>1, <3>2, <3>4, <3>5, <3>6, <1>2, Zenon
  <2>3. QED
    BY <2>1, <2>2
<1>7. CASE StopReturns
  BY <1>7, <1>1 DEF StopReturns
<1>8. QED
  BY <1>3, <1>5, <1>6, <1>7 DEF StopStep

\* The invariant holds initially.
LEMMA DenoInitially == DenoInit => DenoInv
<1> SUFFICES ASSUME DenoInit PROVE DenoInv
  OBVIOUS
<1> USE DEF DenoInit
<1>1. DenoTypes
  BY DEF DenoTypes, Delivery
<1>2. Len(loop) = 0 /\ Len(queues) = 0
  OBVIOUS
<1>3. QED
  BY <1>1, <1>2 DEF DenoInv, OneCycle, WakerInstalled, NoLostStop, NoLostRequest

\* Every step keeps the invariant.
LEMMA DenoInductive == DenoInv /\ [DenoNext]_denoVars => DenoInv'
<1> SUFFICES ASSUME DenoInv, [DenoNext]_denoVars PROVE DenoInv'
  OBVIOUS
<1>1. CASE UNCHANGED denoVars
  <2>1. UNCHANGED <<queues, loop, registered, dreq, stop, epOpen>>
    BY <1>1 DEF denoVars
  <2>2. \A j : WakeUnderWay(j) => WakeUnderWay(j)'
    BY <2>1 DEF WakeUnderWay
  <2>3. /\ dreq' \in [DReq -> Delivery] /\ stop' \in StopPlaces /\ epOpen' \in BOOLEAN
        /\ \A r \in DReq : dreq'[r].at \in {"found", "checked", "wake"} => dreq'[r].k \in 1..Len(queues)
    BY <2>1 DEF DenoInv, DenoTypes, OneCycle, StopPlaces
  <2>4. QED
    BY <2>1, <2>2, <2>3, QueuesKept
<1>2. ASSUME NEW r \in DReq, DeliverStep(r) PROVE DenoInv'
  BY <1>2, DenoDelivers
<1>3. ASSUME NEW k \in 1..MaxCycles, LoopStep(k) PROVE DenoInv'
  BY <1>3, DenoLoops
<1>4. CASE serve_start
  BY <1>4, ServeStarts
<1>5. CASE stopServe \/ StopStep \/ close_endpoint \/ close_all
  BY <1>5, DenoStops
<1>6. QED
  BY <1>1, <1>2, <1>3, <1>4, <1>5 DEF DenoNext

\* No wake-up is lost: a loop that sleeps without a signal has nothing to do,
\* or is about to be woken.
THEOREM NoLostWakeHolds == DenoSpec => []NoLostWake
<1>1. DenoInv => NoLostWake
  <2> SUFFICES ASSUME DenoInv PROVE NoLostWake
    OBVIOUS
  <2>1. DOMAIN loop = 1..Len(loop)
    BY QueueShape DEF DenoInv
  <2>2. QED
    BY <2>1 DEF DenoInv, NoLostWake, NoLostStop, NoLostRequest, WakeUnderWay, DeliveryAt
<1>2. QED
  BY <1>1, DenoInitially, DenoInductive, PTL DEF DenoSpec

-----------------------------------------------------------------------------
(* The Deno result buffers.                                                *)

\* The Deno result buffers on their own.
BufferSpec == BufferInit /\ [][BufferNext]_bufferVars

\* The fields of a call.
BCallFields(c) == [kind |-> c.kind, size |-> c.size, buf |-> c.buf, at |-> c.at]

\* Which places a call of each kind can be at.
KindFits(kind, at) ==
    /\ at \in {"running", "ready"} => kind \in {"callback", "polled"}
    /\ at = "failing" => kind = "error"
    /\ at = "told" => kind \in {"call", "error", "callback", "polled"}

\* The inductive invariant of the result buffers.
BufferInv ==
    /\ bcall = [b \in BCall |-> BCallFields(bcall[b])]
    /\ overflow \in Seq(BCall)
    /\ \A b \in BCall : KindFits(bcall[b].kind, bcall[b].at)
    /\ ToldIsKept

\* Where a call of this kind keeps what JavaScript was told the size of.
KeptFor(kind, b) ==
    /\ kind = "call" => b \in InSeq(overflow) \cup evicted
    /\ kind = "error" => b \in errors
    /\ kind \notin {"call", "error"} => b \in results

\* What a call was told the size of is kept.
KeptCall(b) == bcall[b].at = "told" => KeptFor(bcall[b].kind, b)

\* One call moves; nothing that another one was told of is given up.
LEMMA BufferMoves ==
    ASSUME BufferInv, NEW b \in BCall, NEW e, bcall' = [bcall EXCEPT ![b] = e],
           e = BCallFields(e), KindFits(e.kind, e.at),
           overflow' \in Seq(BCall), Len(overflow') <= MaxOverflow + 1,
           \A c \in BCall : c # b =>
             /\ c \in InSeq(overflow) \cup evicted => c \in InSeq(overflow') \cup evicted'
             /\ c \in errors => c \in errors'
             /\ c \in results => c \in results',
           e.at = "told" => KeptFor(e.kind, b)'
    PROVE  BufferInv'
<1>1. bcall'[b] = e /\ \A c \in BCall : c # b => bcall'[c] = bcall[c]
  BY DEF BufferInv
<1>2. bcall' = [c \in BCall |-> BCallFields(bcall'[c])]
  <2>1. \A c \in BCall : bcall[c] = BCallFields(bcall[c])
    BY DEF BufferInv
  <2>2. bcall' = [c \in BCall |-> bcall'[c]]
    BY DEF BufferInv
  <2>3. \A c \in BCall : bcall'[c] = BCallFields(bcall'[c])
    BY <1>1, <2>1
  <2>4. QED
    BY <2>2, <2>3
<1>3. \A c \in BCall : KindFits(bcall'[c].kind, bcall'[c].at)
  BY <1>1 DEF BufferInv
<1>4. ASSUME NEW c \in BCall PROVE KeptCall(c)'
  <2>1. CASE c = b
    BY <1>1, <2>1 DEF KeptCall, KeptFor
  <2>2. CASE c # b
    <3>1. KeptCall(c)
      BY DEF BufferInv, ToldIsKept, KeptCall, KeptFor, BAt
    <3>2. QED
      BY <1>1, <2>2, <3>1 DEF KeptCall, KeptFor
  <2>3. QED
    BY <2>1, <2>2
<1>5. ToldIsKept'
  BY <1>4 DEF ToldIsKept, KeptCall, KeptFor, BAt
<1>6. QED
  BY <1>2, <1>3, <1>5 DEF BufferInv

\* A call that moves keeps its kind; one that is told also brings a larger buffer.
LEMMA BMovesTo ==
    ASSUME BufferInv, NEW b \in BCall, NEW l, BTo(b, l) \/ (Told(b) /\ l = "told")
    PROVE  \E e : /\ bcall' = [bcall EXCEPT ![b] = e] /\ e = BCallFields(e)
                  /\ e.kind = bcall[b].kind /\ e.at = l
<1>0. bcall[b] = [kind |-> bcall[b].kind, size |-> bcall[b].size, buf |-> bcall[b].buf, at |-> bcall[b].at]
  BY DEF BufferInv, BCallFields
<1>a. PICK k, z, u, a : k = bcall[b].kind /\ z = bcall[b].size /\ u = bcall[b].buf /\ a = bcall[b].at
  BY Zenon
<1>1. bcall[b] = [kind |-> k, size |-> z, buf |-> u, at |-> a]
  BY <1>0, <1>a, Zenon
<1>2. CASE BTo(b, l)
  <2>1. PICK e : e = [bcall[b] EXCEPT !.at = l]
    BY Zenon
  <2>2. e = [kind |-> k, size |-> z, buf |-> u, at |-> l]
    BY <1>1, <2>1
  <2>3. bcall' = [bcall EXCEPT ![b] = e]
    BY <1>2, <2>1, Zenon DEF BTo
  <2>4. e = BCallFields(e) /\ e.kind = bcall[b].kind /\ e.at = l
    BY <1>1, <2>2 DEF BCallFields
  <2>5. QED
    BY <2>3, <2>4, Zenon
<1>3. CASE Told(b) /\ l = "told"
  <2>0. PICK d : d = [bcall[b] EXCEPT !.at = "told"]
    BY Zenon
  <2>1. PICK e : e = [d EXCEPT !.buf = bcall[b].size]
    BY Zenon
  <2>2. d = [kind |-> k, size |-> z, buf |-> u, at |-> "told"]
    BY <1>1, <2>0
  <2>3. e = [kind |-> k, size |-> z, buf |-> bcall[b].size, at |-> "told"]
    BY <2>1, <2>2
  <2>4. bcall' = [bcall EXCEPT ![b] = e]
    BY <1>3, <2>0, <2>1, Zenon DEF Told
  <2>5. e = BCallFields(e) /\ e.kind = bcall[b].kind /\ e.at = l
    BY <1>1, <1>3, <2>3 DEF BCallFields
  <2>6. QED
    BY <2>4, <2>5
<1>4. QED
  BY <1>2, <1>3

\* A step that leaves the cache alone.
LEMMA PlainMove ==
    ASSUME BufferInv, NEW b \in BCall, NEW l, BTo(b, l) \/ (Told(b) /\ l = "told"),
           NEW k, k = bcall[b].kind, KindFits(k, l), UNCHANGED <<overflow, evicted>>,
           errors \subseteq errors' \cup {b}, results \subseteq results' \cup {b},
           l = "told" => KeptFor(k, b)'
    PROVE  BufferInv'
<1>1. PICK e : /\ bcall' = [bcall EXCEPT ![b] = e] /\ e = BCallFields(e)
               /\ e.kind = bcall[b].kind /\ e.at = l
  BY BMovesTo
<1>2. overflow' \in Seq(BCall) /\ Len(overflow') <= MaxOverflow + 1
  BY DEF BufferInv, ToldIsKept
<1>3. /\ KindFits(e.kind, e.at)
      /\ e.at = "told" => KeptFor(e.kind, b)'
  BY <1>1
<1>4. \A c \in BCall : c # b =>
             /\ c \in InSeq(overflow) \cup evicted => c \in InSeq(overflow') \cup evicted'
             /\ c \in errors => c \in errors'
             /\ c \in results => c \in results'
  OBVIOUS
<1>5. QED
  BY <1>1, <1>2, <1>3, <1>4, BufferMoves, Zenon

\* Eviction leaves at most MaxOverflow of the entries.
LEMMA EvictKeeps ==
    ASSUME overflow \in Seq(BCall), NEW n \in 0..Len(overflow)
    PROVE  evict_overflow(n) \in Seq(BCall) /\ Len(evict_overflow(n)) <= MaxOverflow
<1>0. MaxOverflow \in Nat /\ Len(overflow) \in Nat
  BY BufferAssumption
<1>1. PICK live : live = SubSeq(overflow, n + 1, Len(overflow))
  BY Zenon
<1>2. \A i \in (n + 1)..Len(overflow) : overflow[i] \in BCall
  BY <1>0
<1>3. live \in Seq(BCall) /\ Len(live) \in Nat
  BY <1>0, <1>1, <1>2
<1>4. CASE Len(live) > MaxOverflow
  <2>1. \A i \in (Len(live) - MaxOverflow + 1)..Len(live) : live[i] \in BCall
    BY <1>0, <1>3, <1>4
  <2>2. PICK m : m = Len(live) - MaxOverflow + 1
    BY Zenon
  <2>3. m \in Int /\ Len(live) - m + 1 = MaxOverflow
    BY <1>0, <1>3, <2>2
  <2>4. /\ SubSeq(live, m, Len(live)) \in Seq(BCall)
        /\ Len(SubSeq(live, m, Len(live))) = IF m <= Len(live) THEN Len(live) - m + 1 ELSE 0
    BY <1>3, <2>1, <2>2, <2>3
  <2>5. Len(SubSeq(live, m, Len(live))) <= MaxOverflow
    BY <1>0, <2>3, <2>4
  <2>6. evict_overflow(n) = SubSeq(live, m, Len(live))
    BY <1>1, <1>4, <2>2, Zenon DEF evict_overflow
  <2>7. QED
    BY <2>4, <2>5, <2>6
<1>5. CASE ~(Len(live) > MaxOverflow)
  <2>1. evict_overflow(n) = live
    BY <1>1, <1>5 DEF evict_overflow
  <2>2. QED
    BY <1>0, <1>3, <1>5, <2>1
<1>6. QED
  BY <1>4, <1>5

\* What an append adds.
LEMMA AppendedIn ==
    ASSUME NEW S, NEW q \in Seq(S), NEW e \in S
    PROVE  InSeq(q) \cup {e} \subseteq InSeq(Append(q, e))
<1>1. PICK r : r = Append(q, e)
  BY Zenon
<1>2. /\ Len(r) = Len(q) + 1 /\ r \in Seq(S) /\ r[Len(q) + 1] = e
      /\ \A i \in 1..Len(q) : r[i] = q[i]
  BY <1>1
<1>3. DOMAIN r = 1..(Len(q) + 1) /\ DOMAIN q = 1..Len(q) /\ Len(q) \in Nat
  BY <1>2
<1>4. r = Append(q, e)
  BY <1>1
<1> HIDE <1>1
<1>5. InSeq(q) \cup {e} \subseteq InSeq(r)
  BY <1>2, <1>3 DEF InSeq
<1>6. QED
  BY <1>4, <1>5

\* x is what precedes position i of q, and y what follows it up to n.
Precedes(x, q, i) == Len(x) = i - 1 /\ \A k \in 1..(i - 1) : x[k] = q[k]
\* y is what follows position i of q, up to n.
Follows(y, q, i, n) == Len(y) = n - i /\ \A k \in 1..(n - i) : y[k] = q[i + k]

\* r has every element of q but the one at position i.
AllBut(r, q, i, n) == Len(r) = n - 1 /\ \A k \in 1..n : k # i => \E m \in 1..(n - 1) : r[m] = q[k]

\* The two parts of a sequence around position i.
LEMMA PartsAround ==
    ASSUME NEW S, NEW q \in Seq(S), NEW n \in Nat, n = Len(q), NEW i \in 1..n
    PROVE  /\ SubSeq(q, 1, i - 1) \in Seq(S) /\ Precedes(SubSeq(q, 1, i - 1), q, i)
           /\ SubSeq(q, i + 1, n) \in Seq(S) /\ Follows(SubSeq(q, i + 1, n), q, i, n)
<1>1. \A k \in 1..n : q[k] \in S
  OBVIOUS
<1>2. PICK a, b : a = i - 1 /\ b = i + 1
  BY Zenon
<1>3. a \in Int /\ b \in Int /\ a \in 0..(n - 1) /\ b \in 2..(n + 1)
  BY <1>2
<1>4. (\A k \in 1..a : q[k] \in S) /\ (\A k \in b..n : q[k] \in S)
  BY <1>1, <1>3
<1>5. /\ SubSeq(q, 1, a) \in Seq(S) /\ Len(SubSeq(q, 1, a)) = IF 1 <= a THEN a - 1 + 1 ELSE 0
      /\ \A k \in 1..(a - 1 + 1) : SubSeq(q, 1, a)[k] = q[1 + k - 1]
  BY ONLY n \in Nat, <1>3, <1>4
<1>6. /\ SubSeq(q, b, n) \in Seq(S) /\ Len(SubSeq(q, b, n)) = IF b <= n THEN n - b + 1 ELSE 0
      /\ \A k \in 1..(n - b + 1) : SubSeq(q, b, n)[k] = q[b + k - 1]
  BY ONLY n \in Nat, <1>3, <1>4
<1>7. QED
  BY <1>2, <1>3, <1>5, <1>6 DEF Precedes, Follows

\* Joining them gives everything but that position.
LEMMA PartsJoined ==
    ASSUME NEW S, NEW q, NEW n \in Nat, NEW i \in 1..n,
           NEW x \in Seq(S), Precedes(x, q, i), NEW y \in Seq(S), Follows(y, q, i, n)
    PROVE  x \o y \in Seq(S) /\ AllBut(x \o y, q, i, n)
<1> USE DEF Precedes, Follows
<1>1. PICK r : r = x \o y
  BY Zenon
<1>2. /\ r \in Seq(S) /\ Len(r) = Len(x) + Len(y)
      /\ \A k \in 1..(Len(x) + Len(y)) : r[k] = IF k <= Len(x) THEN x[k] ELSE y[k - Len(x)]
  <2>1. r \in Seq(S) /\ Len(r) = Len(x) + Len(y)
    BY ONLY <1>1, x \in Seq(S), y \in Seq(S)
  <2>2. ASSUME NEW k \in 1..(Len(x) + Len(y)) PROVE r[k] = IF k <= Len(x) THEN x[k] ELSE y[k - Len(x)]
    BY ONLY <1>1, <2>2, x \in Seq(S), y \in Seq(S)
  <2>3. QED
    BY <2>1, <2>2, Zenon
<1>3. Len(r) = n - 1 /\ \A k \in 1..(n - 1) : r[k] = IF k <= i - 1 THEN x[k] ELSE y[k - (i - 1)]
  BY <1>2
<1>4. ASSUME NEW k \in 1..n, k # i PROVE \E m \in 1..(n - 1) : r[m] = q[k]
  <2>1. CASE k < i
    <3>1. k \in 1..(n - 1) /\ k <= i - 1 /\ k \in 1..(i - 1)
      BY ONLY <2>1, n \in Nat, i \in 1..n, k \in 1..n
    <3>2. QED
      BY <1>3, <3>1
  <2>2. CASE k > i
    <3>1. PICK m : m = k - 1
      BY Zenon
    <3>2. /\ m \in 1..(n - 1) /\ ~(m <= i - 1)
          /\ m - (i - 1) \in 1..(n - i) /\ i + (m - (i - 1)) = k
      BY ONLY <2>2, <3>1, n \in Nat, i \in 1..n, k \in 1..n
    <3>3. r[m] = y[m - (i - 1)]
      BY <1>3, <3>2
    <3>4. QED
      BY <3>2, <3>3
  <2>3. QED
    BY <1>4, <2>1, <2>2
<1>5. AllBut(r, q, i, n)
  BY <1>3, <1>4 DEF AllBut
<1>6. QED
  BY <1>1, <1>2, <1>5, Zenon

\* What is left when one position is taken out.
LEMMA RemovedIn ==
    ASSUME NEW S, NEW q \in Seq(S), NEW i \in DOMAIN q,
           NEW r, r = SubSeq(q, 1, i - 1) \o SubSeq(q, i + 1, Len(q))
    PROVE  /\ r \in Seq(S) /\ Len(r) <= Len(q)
           /\ \A c \in InSeq(q) : c # q[i] => c \in InSeq(r)
<1>1. PICK n \in Nat : n = Len(q)
  OBVIOUS
<1>2. DOMAIN q = 1..n /\ i \in 1..n
  BY <1>1
<1>3. PICK x, y : x = SubSeq(q, 1, i - 1) /\ y = SubSeq(q, i + 1, n)
  BY Zenon
<1>4. x \in Seq(S) /\ Precedes(x, q, i) /\ y \in Seq(S) /\ Follows(y, q, i, n)
  BY <1>1, <1>2, <1>3, PartsAround, Zenon
<1>5. x \o y \in Seq(S) /\ AllBut(x \o y, q, i, n)
  BY <1>2, <1>4, PartsJoined, Zenon
<1>6. r \in Seq(S) /\ AllBut(r, q, i, n)
  BY <1>1, <1>3, <1>5, Zenon
<1>7. DOMAIN r = 1..(n - 1)
  BY ONLY <1>6 DEF AllBut
<1>8. \A c \in InSeq(q) : c # q[i] => c \in InSeq(r)
  BY ONLY <1>2, <1>6, <1>7, Zenon DEF InSeq, AllBut
<1>9. Len(r) <= Len(q)
  BY ONLY <1>1, <1>6 DEF AllBut
<1>10. QED
  BY <1>6, <1>8, <1>9, Zenon

\* A result put into the overflow cache keeps the invariant: what is pushed out
\* counts as evicted.
LEMMA CallCached ==
    ASSUME BufferInv, NEW b \in BCall, iroh_http_call(b)
    PROVE  BufferInv'
<1>0. /\ BAt(b, "idle") /\ bcall[b].kind = "call" /\ overflow \in Seq(BCall)
      /\ UNCHANGED <<tasks, results, errors>>
  BY DEF iroh_http_call, BufferInv
<1>1. CASE BTo(b, "got") /\ UNCHANGED <<overflow, evicted>>
  <2>1. KindFits("call", "got")
    BY DEF KindFits
  <2>2. QED
    BY <1>0, <1>1, <2>1, PlainMove
<1>2. ASSUME NEW n \in 0..Len(overflow), NEW kept, kept = evict_overflow(n), Told(b),
             overflow' = Append(kept, b), evicted' = evicted \cup (InSeq(overflow) \ InSeq(kept))
      PROVE  BufferInv'
  <2>1. kept \in Seq(BCall) /\ Len(kept) <= MaxOverflow
    BY <1>0, <1>2, EvictKeeps, Zenon
  <2>2. /\ overflow' \in Seq(BCall) /\ Len(overflow') = Len(kept) + 1
        /\ InSeq(kept) \cup {b} \subseteq InSeq(overflow')
    <3>1. Append(kept, b) \in Seq(BCall) /\ Len(Append(kept, b)) = Len(kept) + 1
      BY ONLY <2>1, b \in BCall
    <3>2. InSeq(kept) \cup {b} \subseteq InSeq(Append(kept, b))
      BY ONLY <2>1, b \in BCall, AppendedIn, Zenon
    <3>3. QED
      BY ONLY <1>2, <3>1, <3>2, Zenon
  <2>3. Len(overflow') <= MaxOverflow + 1
    BY ONLY <2>1, <2>2, BufferAssumption
  <2>4. InSeq(overflow) \cup evicted \subseteq InSeq(overflow') \cup evicted'
    BY ONLY <1>2, <2>2
  <2>5. PICK e : /\ bcall' = [bcall EXCEPT ![b] = e] /\ e = BCallFields(e)
                 /\ e.kind = bcall[b].kind /\ e.at = "told"
    BY <1>2, BMovesTo
  <2>6. e.kind = "call" /\ KindFits(e.kind, e.at)
    BY <1>0, <2>5 DEF KindFits
  <2>7. KeptFor(e.kind, b)'
    BY ONLY <2>2, <2>6 DEF KeptFor
  <2>8. \A c \in BCall : c # b =>
             /\ c \in InSeq(overflow) \cup evicted => c \in InSeq(overflow') \cup evicted'
             /\ c \in errors => c \in errors'
             /\ c \in results => c \in results'
    BY ONLY <1>0, <2>4
  <2>9. QED
    BY <2>2, <2>3, <2>5, <2>6, <2>7, <2>8, BufferMoves, Zenon
<1>3. QED
  BY <1>1, <1>2, Zenon DEF iroh_http_call

\* A call that is answered keeps the invariant.
LEMMA CallAnswered ==
    ASSUME BufferInv, NEW b \in BCall, Cached(b)
    PROVE  BufferInv'
<1>0. /\ overflow \in Seq(BCall) /\ Len(overflow) <= MaxOverflow + 1
      /\ UNCHANGED <<evicted, tasks, results, errors>>
  BY DEF Cached, BufferInv, ToldIsKept
<1>1. ASSUME BTo(b, "failed"), UNCHANGED overflow PROVE BufferInv'
  <2>1. KindFits(bcall[b].kind, "failed")
    BY DEF KindFits
  <2>2. QED
    BY <1>0, <1>1, <2>1, PlainMove
<1>2. ASSUME NEW i \in DOMAIN overflow, overflow[i] = b, BTo(b, "got"),
             overflow' = SubSeq(overflow, 1, i - 1) \o SubSeq(overflow, i + 1, Len(overflow))
      PROVE  BufferInv'
  <2>1. PICK q, r : q = overflow /\ r = overflow'
    BY Zenon
  <2>2. /\ r \in Seq(BCall) /\ Len(r) <= Len(q)
        /\ \A c \in InSeq(q) : c # q[i] => c \in InSeq(r)
    BY ONLY <1>0, <1>2, <2>1, RemovedIn, Zenon
  <2>3. /\ overflow' \in Seq(BCall) /\ Len(overflow') <= MaxOverflow + 1
        /\ \A c \in InSeq(overflow) : c # b => c \in InSeq(overflow')
    <3>1. \A c \in InSeq(overflow) : c # b => c \in InSeq(overflow')
      BY ONLY <1>2, <2>1, <2>2, Zenon
    <3>2. Len(q) \in Nat /\ Len(r) \in Nat
      BY ONLY <1>0, <2>1, <2>2
    <3>3. Len(r) <= MaxOverflow + 1
      BY ONLY <1>0, <2>1, <2>2, <3>2, BufferAssumption
    <3>4. QED
      BY ONLY <2>1, <2>2, <3>1, <3>3, Zenon
  <2>4. PICK e : /\ bcall' = [bcall EXCEPT ![b] = e] /\ e = BCallFields(e)
                 /\ e.kind = bcall[b].kind /\ e.at = "got"
    BY <1>2, BMovesTo, Zenon
  <2>5. KindFits(e.kind, e.at) /\ e.at # "told"
    BY <2>4 DEF KindFits
  <2>6. \A c \in BCall : c # b =>
             /\ c \in InSeq(overflow) \cup evicted => c \in InSeq(overflow') \cup evicted'
             /\ c \in errors => c \in errors'
             /\ c \in results => c \in results'
    BY ONLY <1>0, <2>3
  <2>7. QED
    BY <2>3, <2>4, <2>5, <2>6, BufferMoves, Zenon
<1>3. QED
  BY <1>1, <1>2, Zenon DEF Cached

\* An asynchronous fetch keeps the invariant.
LEMMA FetchMoves ==
    ASSUME BufferInv, NEW b \in BCall, start_fetch(b) \/ FetchFinishes(b) \/ poll_fetch(b)
    PROVE  BufferInv'
<1>1. PICK k : k = bcall[b].kind
  BY Zenon
<1>2. KindFits(k, bcall[b].at)
  BY <1>1 DEF BufferInv
<1>3. CASE start_fetch(b)
  <2>1. KindFits(k, "running") /\ BTo(b, "running") /\ UNCHANGED <<overflow, evicted, errors, results>>
    BY <1>1, <1>3 DEF KindFits, start_fetch
  <2>2. QED
    BY <1>1, <2>1, PlainMove
<1>4. CASE FetchFinishes(b)
  <2>1. /\ KindFits(k, "ready") /\ BTo(b, "ready") /\ UNCHANGED <<overflow, evicted, errors>>
        /\ results \subseteq results'
    BY <1>1, <1>2, <1>4 DEF KindFits, FetchFinishes, BAt
  <2>2. QED
    BY <1>1, <2>1, PlainMove
<1>5. CASE poll_fetch(b)
  <2>1. k \in {"callback", "polled"} /\ UNCHANGED <<overflow, evicted, errors>>
    BY <1>1, <1>2, <1>5 DEF KindFits, poll_fetch, BAt
  <2>2. KindFits(k, "failed") /\ KindFits(k, "got") /\ KindFits(k, "told")
    BY <2>1 DEF KindFits
  <2>3. CASE BTo(b, "failed") /\ UNCHANGED results
    BY <1>1, <2>1, <2>2, <2>3, PlainMove
  <2>4. CASE BTo(b, "got") /\ results' = results \ {b}
    BY <1>1, <2>1, <2>2, <2>4, PlainMove
  <2>5. CASE Told(b) /\ results' = results \cup {b}
    <3>1. KeptFor(k, b)'
      BY <2>1, <2>5 DEF KeptFor
    <3>2. QED
      BY <1>1, <2>1, <2>2, <2>5, <3>1, PlainMove
  <2>6. QED
    BY <1>5, <2>3, <2>4, <2>5, Zenon DEF poll_fetch
<1>6. QED
  BY <1>3, <1>4, <1>5

\* A call that fails keeps the invariant.
LEMMA ErrorMoves ==
    ASSUME BufferInv, NEW b \in BCall, record_stream_error(b) \/ take_last_stream_error(b)
    PROVE  BufferInv'
<1>1. PICK k : k = bcall[b].kind
  BY Zenon
<1>2. KindFits(k, bcall[b].at)
  BY <1>1 DEF BufferInv
<1>3. k = "error" /\ UNCHANGED <<overflow, evicted, results>>
  BY <1>1, <1>2, Zenon DEF record_stream_error, take_last_stream_error, KindFits, BAt
<1>4. KindFits(k, "failing") /\ KindFits(k, "failed") /\ KindFits(k, "got") /\ KindFits(k, "told")
  BY <1>3 DEF KindFits
<1>5. CASE record_stream_error(b)
  <2>1. BTo(b, "failing") /\ errors' = errors \cup {b}
    BY <1>5 DEF record_stream_error
  <2>2. QED
    BY <1>1, <1>3, <1>4, <2>1, PlainMove, Zenon
<1>6. CASE take_last_stream_error(b)
  <2>1. CASE BTo(b, "failed") /\ UNCHANGED errors
    BY <1>1, <1>3, <1>4, <2>1, PlainMove, Zenon
  <2>2. CASE BTo(b, "got") /\ errors' = errors \ {b}
    BY <1>1, <1>3, <1>4, <2>2, PlainMove, Zenon
  <2>3. CASE b \in errors /\ Told(b) /\ UNCHANGED errors
    <3>1. KeptFor(k, b)'
      BY <1>3, <2>3 DEF KeptFor
    <3>2. QED
      BY <1>1, <1>3, <1>4, <2>3, <3>1, PlainMove, Zenon
  <2>4. QED
    BY <1>6, <2>1, <2>2, <2>3, Zenon DEF take_last_stream_error
<1>7. QED
  BY <1>5, <1>6

\* The invariant holds initially.
LEMMA BufferInitially == BufferInit => BufferInv
<1> SUFFICES ASSUME BufferInit PROVE BufferInv
  OBVIOUS
<1>1. PICK p \in BufPlans : bcall = [b \in BCall |-> [kind |-> p.calls[b][1], size |-> p.calls[b][2],
                                     buf |-> Hint, at |-> "idle"]]
  BY DEF BufferInit
<1>2. overflow = <<>>
  BY DEF BufferInit
<1>3. bcall = [b \in BCall |-> BCallFields(bcall[b])] /\ \A b \in BCall : bcall[b].at = "idle"
  BY <1>1 DEF BCallFields
<1>4. Len(overflow) <= MaxOverflow + 1 /\ overflow \in Seq(BCall)
  BY <1>2, BufferAssumption
<1>5. QED
  BY <1>3, <1>4 DEF BufferInv, KindFits, ToldIsKept, BAt

\* Every step keeps the invariant.
LEMMA BufferInductive == BufferInv /\ [BufferNext]_bufferVars => BufferInv'
<1> SUFFICES ASSUME BufferInv, [BufferNext]_bufferVars PROVE BufferInv'
  OBVIOUS
<1>1. ASSUME UNCHANGED <<bcall, overflow, evicted, results, errors>> PROVE BufferInv'
  BY <1>1 DEF BufferInv, ToldIsKept, BAt, InSeq
<1>2. CASE UNCHANGED bufferVars
  BY <1>1, <1>2 DEF bufferVars
<1>3. CASE try_next_chunk \/ next_chunk
  BY <1>1, <1>3 DEF try_next_chunk, next_chunk
<1>4. ASSUME NEW b \in BCall, BufferStep(b) PROVE BufferInv'
  BY <1>4, CallCached, CallAnswered, FetchMoves, ErrorMoves, Zenon DEF BufferStep
<1>5. QED
  BY <1>2, <1>3, <1>4 DEF BufferNext

\* What JavaScript was told the size of is kept until it is fetched, or was
\* evicted by the cap on the overflow cache.
THEOREM ToldIsKeptHolds == BufferSpec => []ToldIsKept
<1>1. BufferInv => ToldIsKept
  BY DEF BufferInv
<1>2. QED
  BY <1>1, BufferInitially, BufferInductive, PTL DEF BufferSpec

-----------------------------------------------------------------------------
(* Sessions.                                                               *)

\* Sessions over FFI on their own.
SessionSpec == EndpointInit /\ SessionInit /\ [][SessionNext]_<<endpointVars, sessionVars>>

\* Who holds the halves of a bidirectional stream: the call that is over with a
\* stream, or one that has inserted its reader and is about to insert its
\* writer.
StreamInv ==
    /\ DOMAIN scall = SCall /\ scall = [k \in SCall |-> scall[k]]
    /\ \A k \in SCall : scall[k] = [op |-> scall[k].op, of |-> scall[k].of, at |-> scall[k].at, got |-> scall[k].got]
    /\ \A k \in SCall : scall[k].got = "stream" => scall[k].at = "over"
    /\ sreaders \subseteq SCall /\ swriters \subseteq SCall
    /\ \A k \in sreaders : scall[k].got = "stream" \/ scall[k].at = "writer"
    /\ \A k \in swriters : scall[k].got = "stream"

\* One session call moves; the halves of the others stay.
LEMMA CallMoves ==
    ASSUME StreamInv, NEW k \in SCall, scall[k].at # "over", NEW l, NEW g,
           \/ SCallTo(k, l) /\ g = scall[k].got
           \/ Returns(k, g) /\ l = "over",
           sreaders' \subseteq SCall, swriters' \subseteq SCall,
           \A j \in sreaders' : j # k => j \in sreaders,
           \A j \in swriters' : j # k => j \in swriters,
           k \in sreaders' => g = "stream" \/ l = "writer",
           k \in swriters' => g = "stream"
    PROVE  StreamInv'
<1>1. /\ DOMAIN scall' = SCall /\ scall' = [j \in SCall |-> scall'[j]]
      /\ \A j \in SCall : j # k => scall'[j] = scall[j]
  BY DEF SCallTo, Returns, StreamInv
<1>2. scall'[k] = [op |-> scall[k].op, of |-> scall[k].of, at |-> l, got |-> g]
  <2>1. CASE SCallTo(k, l) /\ g = scall[k].got
    BY <2>1 DEF SCallTo, StreamInv
  <2>2. CASE Returns(k, g) /\ l = "over"
    <3>1. PICK a, b, c, d : scall[k] = [op |-> a, of |-> b, at |-> c, got |-> d]
      BY DEF StreamInv
    <3>2. scall'[k] = [[scall[k] EXCEPT !.at = "over"] EXCEPT !.got = g]
      BY <2>2 DEF Returns, StreamInv
    <3>e. PICK r : r = [scall[k] EXCEPT !.at = "over"]
      BY Zenon
    <3>f. r = [op |-> a, of |-> b, at |-> "over", got |-> d]
      BY <3>1, <3>e
    <3>g. scall'[k] = [r EXCEPT !.got = g]
      BY <3>2, <3>e
    <3>3. scall'[k] = [op |-> a, of |-> b, at |-> "over", got |-> g]
      BY <3>f, <3>g
    <3>4. QED
      BY <2>2, <3>1, <3>2, <3>3
  <2>3. QED
    BY <2>1, <2>2
<1>3. SCallTo(k, l) => scall[k].got # "stream"
  BY DEF StreamInv
<1>4. QED
  BY <1>1, <1>2, <1>3 DEF StreamInv

\* The invariant holds initially.
LEMMA StreamInitially == SessionInit => StreamInv
  BY DEF SessionInit, StreamInv

\* Every step keeps it.
LEMMA StreamInductive == StreamInv /\ [SessionNext]_<<endpointVars, sessionVars>> => StreamInv'
<1> SUFFICES ASSUME StreamInv, [SessionNext]_<<endpointVars, sessionVars>> PROVE StreamInv'
  OBVIOUS
<1>s. sreaders \subseteq SCall /\ swriters \subseteq SCall
  BY DEF StreamInv
<1>0. ASSUME UNCHANGED <<scall, sreaders, swriters>> PROVE StreamInv'
  BY <1>0 DEF StreamInv
<1>1. CASE UNCHANGED <<endpointVars, sessionVars>>
  BY <1>0, <1>1 DEF sessionVars
<1>k. ASSUME NEW k \in SCall, NEW l, scall[k].at \notin {"over", "writer"}, UNCHANGED <<sreaders, swriters>>,
             SCallTo(k, l) \/ Returns(k, l)
      PROVE  StreamInv'
  <2>1. k \notin sreaders /\ k \notin swriters
    BY <1>k DEF StreamInv
  <2>2. CASE SCallTo(k, l)
    BY <1>k, <1>s, <2>1, <2>2, CallMoves
  <2>3. CASE Returns(k, l)
    BY <1>k, <1>s, <2>1, <2>3, CallMoves
  <2>4. QED
    BY <1>k, <2>2, <2>3
<1>2. ASSUME NEW k \in SCall, Issue(k) \/ DialReturns(k) \/ DialEnds(k) \/ insert_session(k) PROVE StreamInv'
  BY <1>2, <1>k DEF Issue, DialReturns, DialEnds, insert_session, SCallAt
<1>3. ASSUME NEW k \in SCall, Enter(k) PROVE StreamInv'
  <2>1. \E l : SCallTo(k, l) \/ Returns(k, l)
    BY <1>3 DEF Enter
  <2>2. scall[k].at = "issued" /\ UNCHANGED <<sreaders, swriters>>
    BY <1>3 DEF Enter, SCallAt
  <2>3. QED
    BY <2>1, <2>2, <1>k
<1>4. ASSUME NEW k \in SCall, StreamComes(k) PROVE StreamInv'
  <2>1. \E l : SCallTo(k, l) \/ Returns(k, l)
    BY <1>4 DEF StreamComes
  <2>2. scall[k].at = "wait" /\ UNCHANGED <<sreaders, swriters>>
    BY <1>4 DEF StreamComes, SCallAt
  <2>3. QED
    BY <2>1, <2>2, <1>k
<1>5. ASSUME NEW k \in SCall, SeesEnd(k) PROVE StreamInv'
  <2>1. \E l : Returns(k, l)
    BY <1>5 DEF SeesEnd
  <2>2. scall[k].at = "wait" /\ UNCHANGED <<sreaders, swriters>>
    BY <1>5 DEF SeesEnd, SCallAt
  <2>3. QED
    BY <2>1, <2>2, <1>k
<1>6. ASSUME NEW k \in SCall, WrapReader(k) PROVE StreamInv'
  <2>1. scall[k].at = "reader" /\ k \notin sreaders /\ k \notin swriters /\ UNCHANGED swriters
    BY <1>6 DEF WrapReader, SCallAt, StreamInv
  <2>2. CASE UNCHANGED sreaders /\ Returns(k, "error")
    BY <1>k, <2>1, <2>2
  <2>3. CASE sreaders' = sreaders \cup {k} /\ Returns(k, "stream")
    BY <1>s, <2>1, <2>3, CallMoves
  <2>4. CASE sreaders' = sreaders \cup {k} /\ SCallTo(k, "writer")
    BY <1>s, <2>1, <2>4, CallMoves
  <2>5. QED
    BY <1>6, <2>2, <2>3, <2>4 DEF WrapReader
<1>7. ASSUME NEW k \in SCall, WrapWriter(k) PROVE StreamInv'
  <2>1. scall[k].at = "writer" /\ k \notin swriters
    BY <1>7 DEF WrapWriter, SCallAt, StreamInv
  <2>2. CASE Returns(k, "error") /\ sreaders' = sreaders \ {k} /\ UNCHANGED swriters
    BY <1>s, <2>1, <2>2, CallMoves
  <2>3. CASE swriters' = swriters \cup {k} /\ Returns(k, "stream") /\ UNCHANGED sreaders
    BY <1>s, <2>1, <2>3, CallMoves
  <2>4. QED
    BY <1>7, <2>2, <2>3 DEF WrapWriter
<1>8. ASSUME NEW k \in SCall, StreamReleased(k) PROVE StreamInv'
  BY <1>8 DEF StreamReleased, StreamInv
<1>9. ASSUME NEW x \in Sess, PeerEnds(x) \/ SweepSession(x) PROVE StreamInv'
  BY <1>9, <1>0 DEF PeerEnds, SweepSession
<1>10. CASE SessionCloses
  BY <1>10, <1>0 DEF SessionCloses, sessionVars
<1>11. QED
  BY <1>1, <1>2, <1>3, <1>4, <1>5, <1>6, <1>7, <1>8, <1>9, <1>10 DEF SessionNext, SCallStep

\* No half of a stream stays registered for a call that failed.
THEOREM NoHalfStreamHolds == SessionSpec => []NoHalfStream
<1>1. StreamInv => NoHalfStream
  BY DEF StreamInv, NoHalfStream, SCallAt
<1>2. QED
  BY <1>1, StreamInitially, StreamInductive, PTL DEF SessionSpec
=============================================================================
