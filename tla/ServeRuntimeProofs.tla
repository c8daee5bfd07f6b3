------------------------- MODULE ServeRuntimeProofs -------------------------
(* Proofs about ServeRuntime, for any number of connections, peers and      *)
(* streams and any limits.                                                  *)
EXTENDS ServeRuntime, FiniteSetTheorems, TLAPS

(* States of shutdown after the drain was decided, after it was published,  *)
(* and after the close flag was raised.                                     *)
PastFlag == {"notify", "connRegister", "connCheck", "connWait", "returned"}
PastStore == {"flag"} \cup PastFlag
Decided == {"store"} \cup PastStore

(* What the shutdown protocol keeps true.  Once admission is stopped the    *)
(* delivery counter can only fall, so a zero that was observed stays.       *)
DrainInv ==
    /\ sd # "idle" => stopped
    /\ sdDrained => stopped /\ deliveries = 0
    /\ drained => stopped /\ deliveries = 0
    /\ sd \in Decided => sdDrained \/ expired
    /\ sd \in PastStore => (drained <=> sdDrained)
    /\ closeFlag => force # "no" \/ sd \in PastFlag
    /\ acceptor \in {"accepting", "handshake"} => sd = "idle"

CountInv == GuardAccounting /\ AdmissionWithinCaps

IInv ==
    /\ TypeOK
    /\ CountInv
    /\ DrainInv
    /\ TasksEndBeforeHandler
    /\ AbortOnlyAfterDeadline

-----------------------------------------------------------------------------
(* Which steps touch what *)

(* Only these steps change a stream or a guard counter.                     *)
LEMMA StreamFrame ==
    ASSUME [Next]_vars
    PROVE  \/ UNCHANGED <<stream, requests, deliveries>>
           \/ \E c \in Conn : JoinNext(c) \/ AcceptStream(c) \/ TryAdmit(c) \/ JoinAll(c)
           \/ \E s \in Stream : OpenStream(s) \/ FinishRequest(s) \/ FinishDelivery(s)
                                \/ CancelTask(s)
<1> USE DEF vars, connVars, slotVars, streamVars, flagVars, stopVars, loopVars
<1>1. ASSUME NEW c \in Conn, AcceptConnection(c) \/ IdleTimeout(c) \/ PeerCloses(c)
      PROVE  UNCHANGED <<stream, requests, deliveries>>
  BY <1>1 DEF AcceptConnection, IdleTimeout, PeerCloses
<1>2. ASSUME NEW c \in Conn, HandlerStep(c), ~JoinNext(c), ~AcceptStream(c), ~TryAdmit(c), ~JoinAll(c)
      PROVE  UNCHANGED <<stream, requests, deliveries>>
  <2>1. CASE Acquire(c) \/ RefuseConnection(c) \/ FireConnected(c)
    BY <2>1 DEF Acquire, RefuseConnection, FireConnected
  <2>2. CASE RegisterClose(c) \/ CheckClosed(c) \/ CheckStopped(c) \/ WakeUp(c)
    BY <2>2 DEF RegisterClose, CheckClosed, CheckStopped, WakeUp
  <2>3. CASE AcceptFails(c) \/ EndLoop(c) \/ Release(c) \/ FireDisconnected(c)
    BY <2>3 DEF AcceptFails, EndLoop, Release, FireDisconnected
  <2>4. QED
    BY Zenon, <1>2, <2>1, <2>2, <2>3 DEF HandlerStep
<1>3. CASE TakeIncoming \/ EndpointClosed \/ HandleShutdown \/ ForceFlag \/ ForceStep \/ AcceptorStep
  BY <1>3, Zenon DEF TakeIncoming, EndpointClosed, HandleShutdown, ForceFlag, ForceStep, ForceStop,
      ForceNotify, AcceptorStep, DiscardIncoming, StopAccepting, SendDone, BreakLoop
<1>4. CASE ShutdownStep \/ Expire
  BY <1>4, Zenon DEF ShutdownStep, WaitRegister, DrainCheck, ConnCheck, WaitEnds, StoreDrained,
      RaiseCloseFlag, NotifyConnections, Expire
<1>5. CASE UNCHANGED vars
  BY <1>5
<1>6. QED
  BY Zenon, <1>1, <1>2, <1>3, <1>4, <1>5 DEF Next, HandlerStep

(* Only these steps move a handler or change an admission counter.          *)
LEMMA TaskFrame ==
    ASSUME [Next]_vars
    PROVE  \/ UNCHANGED <<task, counts, total>>
           \/ \E c \in Conn : AcceptConnection(c) \/ HandlerStep(c) \/ IdleTimeout(c)
<1> USE DEF vars, connVars, slotVars, streamVars, flagVars, stopVars, loopVars
<1>1. CASE \E s \in Stream : OpenStream(s) \/ FinishRequest(s) \/ FinishDelivery(s) \/ CancelTask(s)
  BY <1>1 DEF OpenStream, FinishRequest, FinishDelivery, CancelTask
<1>2. CASE TakeIncoming \/ EndpointClosed \/ HandleShutdown \/ ForceFlag \/ ForceStep \/ AcceptorStep
  BY <1>2 DEF TakeIncoming, EndpointClosed, HandleShutdown, ForceFlag, ForceStep, ForceStop,
      ForceNotify, AcceptorStep, DiscardIncoming, StopAccepting, SendDone, BreakLoop
<1>3. CASE ShutdownStep \/ Expire \/ \E c \in Conn : PeerCloses(c)
  BY <1>3 DEF ShutdownStep, WaitRegister, DrainCheck, ConnCheck, WaitEnds, StoreDrained,
      RaiseCloseFlag, NotifyConnections, Expire, PeerCloses
<1>4. CASE UNCHANGED vars
  BY <1>4
<1>5. QED
  BY <1>1, <1>2, <1>3, <1>4 DEF Next

-----------------------------------------------------------------------------
(* Facts about the counted sets *)

LEMMA HoldersFinite ==
    /\ IsFiniteSet(Holders)
    /\ \A p \in Peer : IsFiniteSet(HoldersOf(p))
  BY ConnAssumption, FS_Subset DEF Holders, HoldersOf

LEMMA StreamsFinite == \A S \in SUBSET Stream : IsFiniteSet(S) /\ Cardinality(S) \in Nat
  BY StreamAssumption, FS_Subset, FS_CardinalityType

Deliveries == {s \in Stream : stream[s] \in Delivering}
Requests == {s \in Stream : stream[s] = "processing"}

(* One element enters, leaves, or neither: how a cardinality follows.       *)
LEMMA CardinalityAdd ==
    ASSUME NEW S, IsFiniteSet(S), NEW x, x \notin S
    PROVE  Cardinality(S \cup {x}) = Cardinality(S) + 1 /\ Cardinality(S) \in Nat
  BY FS_AddElement, FS_CardinalityType

LEMMA CardinalityRemove ==
    ASSUME NEW S, IsFiniteSet(S), NEW x \in S
    PROVE  /\ Cardinality(S \ {x}) = Cardinality(S) - 1
           /\ Cardinality(S) \in Nat /\ Cardinality(S) > 0
<1>1. Cardinality(S \ {x}) = Cardinality(S) - 1
  BY FS_RemoveElement
<1>2. Cardinality(S) \in Nat /\ Cardinality(S) # 0
  BY FS_CardinalityType, FS_EmptySet
<1>3. QED
  BY <1>1, <1>2

-----------------------------------------------------------------------------
(* The guard counters *)

LEMMA GuardStep ==
    ASSUME TypeOK, GuardAccounting, [Next]_vars
    PROVE  GuardAccounting' /\ requests' \in Nat /\ deliveries' \in Nat
<1>t. stream \in [Stream -> StreamStates]
  BY DEF TypeOK
<1> DEFINE D == Deliveries
           R == Requests
<1>1. /\ deliveries = Cardinality(D) /\ IsFiniteSet(D) /\ deliveries \in Nat
      /\ requests = Cardinality(R) /\ IsFiniteSet(R) /\ requests \in Nat
  BY StreamsFinite DEF GuardAccounting, Deliveries, Requests
<1>2. /\ GuardAccounting' <=> (deliveries' = Cardinality(D') /\ requests' = Cardinality(R'))
  BY DEF GuardAccounting, Deliveries, Requests
<1>a. /\ D \in SUBSET Stream /\ R \in SUBSET Stream
      /\ D' \in SUBSET Stream /\ R' \in SUBSET Stream
  BY DEF Deliveries, Requests
<1> HIDE DEF D, R
<1>3. CASE UNCHANGED <<stream, requests, deliveries>>
  <2>1. D' = D /\ R' = R
    BY <1>3 DEF D, R, Deliveries, Requests
  <2>2. QED
    BY <2>1, <1>1, <1>2, <1>3
<1>4. ASSUME NEW c \in Conn, JoinNext(c) \/ AcceptStream(c) \/ JoinAll(c)
      PROVE  D' = D /\ R' = R /\ UNCHANGED <<requests, deliveries>>
  BY <1>4, <1>t
     DEF D, R, Deliveries, Requests, JoinNext, AcceptStream, JoinAll, Over, Queued, TasksOf,
     Delivering, TaskOver, StreamStates
<1>5. ASSUME NEW s \in Stream, OpenStream(s)
      PROVE  D' = D /\ R' = R /\ UNCHANGED <<requests, deliveries>>
  BY <1>5, <1>t DEF D, R, Deliveries, Requests, OpenStream, Delivering
<1>6. ASSUME NEW c \in Conn, TryAdmit(c)
      PROVE  deliveries' = Cardinality(D') /\ requests' = Cardinality(R')
  <2>1. PICK s \in Stream : /\ stream[s] = "accepted"
                            /\ stream' = [stream EXCEPT ![s] = IF AdmitsStreams THEN "processing" ELSE "refused"]
    BY Zenon, <1>6 DEF TryAdmit
  <2>2. CASE AdmitsStreams
    <3>1. /\ D' = D \cup {s} /\ s \notin D
          /\ R' = R \cup {s} /\ s \notin R
      BY <2>1, <2>2, <1>t DEF D, R, Deliveries, Requests, Delivering
    <3>2. requests' = requests + 1 /\ deliveries' = deliveries + 1
      BY <1>6, <2>2 DEF TryAdmit
    <3>3. QED
      BY <3>1, <3>2, <1>1, CardinalityAdd
  <2>3. CASE ~AdmitsStreams
    <3>1. D' = D /\ R' = R
      BY <2>1, <2>3, <1>t DEF D, R, Deliveries, Requests, Delivering
    <3>2. requests' = requests /\ deliveries' = deliveries
      BY <1>6, <2>3 DEF TryAdmit
    <3>3. QED
      BY <3>1, <3>2, <1>1
  <2>4. QED
    BY <2>2, <2>3
<1>7. ASSUME NEW s \in Stream, FinishRequest(s)
      PROVE  deliveries' = Cardinality(D') /\ requests' = Cardinality(R')
  <2>1. D' = D /\ R' = R \ {s} /\ s \in R
    BY <1>7, <1>t DEF D, R, Deliveries, Requests, Delivering, FinishRequest
  <2>2. requests' = requests - 1 /\ deliveries' = deliveries
    BY <1>7 DEF FinishRequest
  <2>3. QED
    BY <2>1, <2>2, <1>1, CardinalityRemove
<1>8. ASSUME NEW s \in Stream, FinishDelivery(s)
      PROVE  deliveries' = Cardinality(D') /\ requests' = Cardinality(R')
  <2>1. D' = D \ {s} /\ s \in D /\ R' = R
    BY <1>8, <1>t DEF D, R, Deliveries, Requests, Delivering, FinishDelivery
  <2>2. requests' = requests /\ deliveries' = deliveries - 1
    BY <1>8 DEF FinishDelivery, DropDelivery
  <2>3. QED
    BY <2>1, <2>2, <1>1, CardinalityRemove
<1>9. ASSUME NEW s \in Stream, CancelTask(s)
      PROVE  deliveries' = Cardinality(D') /\ requests' = Cardinality(R')
  <2>1. D' = D \ {s} /\ s \in D /\ deliveries' = deliveries - 1
    BY <1>9, <1>t DEF D, R, Deliveries, Requests, Delivering, CancelTask, DropDelivery
  <2>2. CASE OwnsRequest(s)
    <3>1. R' = R \ {s} /\ s \in R /\ requests' = requests - 1
      BY <1>9, <2>2, <1>t DEF R, Requests, Delivering, CancelTask, OwnsRequest
    <3>2. QED
      BY <2>1, <3>1, <1>1, CardinalityRemove
  <2>3. CASE ~OwnsRequest(s)
    <3>1. R' = R /\ requests' = requests
      BY <1>9, <2>3, <1>t DEF R, Requests, Delivering, CancelTask, OwnsRequest
    <3>2. QED
      BY <2>1, <3>1, <1>1, CardinalityRemove
  <2>4. QED
    BY <2>2, <2>3
<1>10. GuardAccounting'
  BY <1>1, <1>2, <1>3, <1>4, <1>5, <1>6, <1>7, <1>8, <1>9, StreamFrame
<1>11. QED
  BY <1>10, <1>2, <1>a, StreamsFinite
-----------------------------------------------------------------------------
(* The admission counters *)

(* A handler step other than Acquire and Release stays on the same side of  *)
(* the slot: it holds one before and after, or neither.                     *)
LEMMA SlotFrame ==
    ASSUME TypeOK, NEW c \in Conn,
           AcceptConnection(c) \/ IdleTimeout(c) \/ HandlerStep(c),
           ~Acquire(c), ~Release(c)
    PROVE  /\ UNCHANGED <<counts, total>>
           /\ \A d \in Conn : task'[d] \in Holding <=> task[d] \in Holding
<1>t. task \in [Conn -> TaskStates]
  BY DEF TypeOK
<1> USE <1>t DEF slotVars, Goto, Leave, Holding, InLoop
<1>1. CASE AcceptConnection(c) \/ IdleTimeout(c)
  BY <1>1, Zenon DEF AcceptConnection, IdleTimeout, Polls
<1>2. CASE RefuseConnection(c) \/ FireConnected(c) \/ FireDisconnected(c)
  BY <1>2 DEF RefuseConnection, FireConnected, FireDisconnected
<1>3. CASE RegisterClose(c) \/ CheckClosed(c) \/ CheckStopped(c) \/ WakeUp(c)
  BY <1>3 DEF RegisterClose, CheckClosed, CheckStopped, WakeUp
<1>4. CASE JoinNext(c) \/ AcceptStream(c) \/ AcceptFails(c) \/ TryAdmit(c)
  BY <1>4, Zenon DEF JoinNext, AcceptStream, AcceptFails, TryAdmit, Polls
<1>5. CASE EndLoop(c) \/ JoinAll(c)
  BY <1>5 DEF EndLoop, JoinAll
<1>6. QED
  BY <1>1, <1>2, <1>3, <1>4, <1>5 DEF HandlerStep

LEMMA AdmissionStep ==
    ASSUME TypeOK, AdmissionWithinCaps, [Next]_vars
    PROVE  /\ AdmissionWithinCaps'
           /\ total' \in Nat /\ counts' \in [Peer -> Nat]
<1>t. /\ task \in [Conn -> TaskStates]
      /\ counts \in [Peer -> Nat] /\ total \in Nat
  BY DEF TypeOK
<1> DEFINE HO == [p \in Peer |-> HoldersOf(p)]
<1>1. /\ IsFiniteSet(Holders) /\ total = Cardinality(Holders)
      /\ \A p \in Peer : IsFiniteSet(HoldersOf(p)) /\ counts[p] = Cardinality(HoldersOf(p))
  BY HoldersFinite DEF AdmissionWithinCaps
<1>2. CASE UNCHANGED <<task, counts, total>>
  BY <1>2, <1>t DEF AdmissionWithinCaps, Holders, HoldersOf
<1>3. ASSUME NEW c \in Conn, AcceptConnection(c) \/ IdleTimeout(c) \/ HandlerStep(c),
             ~Acquire(c), ~Release(c)
      PROVE  /\ AdmissionWithinCaps'
             /\ total' \in Nat /\ counts' \in [Peer -> Nat]
  <2>1. /\ UNCHANGED <<counts, total>>
        /\ \A d \in Conn : task'[d] \in Holding <=> task[d] \in Holding
    BY <1>3, SlotFrame
  <2>2. Holders' = Holders /\ \A p \in Peer : HoldersOf(p)' = HoldersOf(p)
    BY <2>1 DEF Holders, HoldersOf
  <2>3. QED
    BY <2>1, <2>2, <1>t DEF AdmissionWithinCaps
<1>4. ASSUME NEW c \in Conn, Acquire(c)
      PROVE  /\ AdmissionWithinCaps'
             /\ total' \in Nat /\ counts' \in [Peer -> Nat]
  <2> DEFINE p == PeerOf[c]
  <2>1. /\ p \in Peer /\ total < MaxTotal /\ counts[p] < MaxPerPeer
        /\ counts' = [counts EXCEPT ![p] = @ + 1] /\ total' = total + 1
    BY <1>4, ConnAssumption DEF Acquire, HasRoom
  <2>2. /\ Holders' = Holders \cup {c} /\ c \notin Holders
        /\ HoldersOf(p)' = HoldersOf(p) \cup {c} /\ c \notin HoldersOf(p)
        /\ \A q \in Peer \ {p} : HoldersOf(q)' = HoldersOf(q)
    BY <1>4, <1>t DEF Acquire, Goto, Holders, HoldersOf, Holding, InLoop
  <2>3. total' = Cardinality(Holders')
    BY <2>1, <2>2, <1>1, CardinalityAdd
  <2>4. counts'[p] = Cardinality(HoldersOf(p)')
    BY <2>1, <2>2, <1>1, CardinalityAdd, <1>t
  <2>5. \A q \in Peer \ {p} : counts'[q] = Cardinality(HoldersOf(q)')
    BY <2>1, <2>2, <1>1, <1>t
  <2>6. total' <= MaxTotal /\ \A q \in Peer : counts'[q] <= MaxPerPeer
    BY <2>1, LimitAssumption, <1>t DEF AdmissionWithinCaps
  <2> HIDE DEF p
  <2>7. AdmissionWithinCaps'
    BY <2>3, <2>4, <2>5, <2>6 DEF AdmissionWithinCaps
  <2>8. QED
    BY <2>7, <2>1, <1>t
<1>5. ASSUME NEW c \in Conn, Release(c)
      PROVE  /\ AdmissionWithinCaps'
             /\ total' \in Nat /\ counts' \in [Peer -> Nat]
  <2> DEFINE p == PeerOf[c]
  <2>1. /\ p \in Peer /\ total' = total - 1
        /\ counts' = [counts EXCEPT ![p] = IF @ > 0 THEN @ - 1 ELSE 0]
    BY <1>5, ConnAssumption DEF Release
  <2>2. /\ Holders' = Holders \ {c} /\ c \in Holders
        /\ HoldersOf(p)' = HoldersOf(p) \ {c} /\ c \in HoldersOf(p)
        /\ \A q \in Peer \ {p} : HoldersOf(q)' = HoldersOf(q)
    BY <1>5, <1>t DEF Release, Goto, Holders, HoldersOf, Holding, InLoop
  <2>3. total' = Cardinality(Holders') /\ total > 0
    BY <2>1, <2>2, <1>1, CardinalityRemove
  <2>4. counts'[p] = Cardinality(HoldersOf(p)') /\ counts[p] > 0
    <3>1. counts[p] > 0 /\ Cardinality(HoldersOf(p) \ {c}) = counts[p] - 1
      BY <2>1, <2>2, <1>1, CardinalityRemove
    <3>2. counts'[p] = counts[p] - 1
      BY <2>1, <3>1, <1>t
    <3>3. QED
      BY <2>2, <3>1, <3>2
  <2>5. \A q \in Peer \ {p} : counts'[q] = Cardinality(HoldersOf(q)')
    BY <2>1, <2>2, <1>1, <1>t
  <2>6. total' <= MaxTotal /\ \A q \in Peer : counts'[q] <= MaxPerPeer
    BY <2>1, <2>3, <2>4, LimitAssumption, <1>t DEF AdmissionWithinCaps
  <2> HIDE DEF p
  <2>7. AdmissionWithinCaps'
    BY <2>3, <2>4, <2>5, <2>6 DEF AdmissionWithinCaps
  <2>8. QED
    BY <2>7, <2>1, <2>3, <1>t
<1>6. QED
  BY <1>2, <1>3, <1>4, <1>5, TaskFrame

-----------------------------------------------------------------------------
(* Types *)

LEMMA TypeStep ==
    ASSUME TypeOK, CountInv, [Next]_vars
    PROVE  TypeOK'
<1>1. requests' \in Nat /\ deliveries' \in Nat
  BY GuardStep DEF CountInv
<1>2. total' \in Nat /\ counts' \in [Peer -> Nat]
  BY AdmissionStep DEF CountInv
<1> USE <1>1, <1>2, ConnAssumption, StreamAssumption
    DEF TypeOK, vars, connVars, slotVars, streamVars, flagVars, stopVars, loopVars, Goto, Leave,
        TaskStates, Holding, InLoop, Finished, StreamStates, Delivering, TaskOver
<1>3. ASSUME NEW c \in Conn, AcceptConnection(c) PROVE TypeOK'
  BY <1>3 DEF AcceptConnection
<1>4. ASSUME NEW c \in Conn, IdleTimeout(c) PROVE TypeOK'
  BY <1>4 DEF IdleTimeout, Polls
<1>5. ASSUME NEW c \in Conn, PeerCloses(c) PROVE TypeOK'
  BY <1>5 DEF PeerCloses
<1>6. ASSUME NEW c \in Conn, Acquire(c) PROVE TypeOK'
  BY <1>6 DEF Acquire
<1>7. ASSUME NEW c \in Conn, RefuseConnection(c) PROVE TypeOK'
  BY <1>7 DEF RefuseConnection
<1>8. ASSUME NEW c \in Conn, FireConnected(c) PROVE TypeOK'
  BY <1>8 DEF FireConnected
<1>9. ASSUME NEW c \in Conn, RegisterClose(c) PROVE TypeOK'
  BY <1>9 DEF RegisterClose
<1>10. ASSUME NEW c \in Conn, CheckClosed(c) PROVE TypeOK'
  <2>1. CASE closeFlag
    <3>1. /\ task' = [task EXCEPT ![c] = "ending"]
          /\ wake' = [wake EXCEPT ![c] = "none"]
          /\ live' = [live EXCEPT ![c] = FALSE]
      BY <1>10, <2>1 DEF CheckClosed
    <3>2. task' \in [Conn -> TaskStates] /\ wake' \in [Conn -> {"none", "registered", "notified"}]
          /\ live' \in [Conn -> BOOLEAN]
      BY <3>1
    <3>3. UNCHANGED <<slotVars, streamVars, stopVars, loopVars>>
      BY <1>10 DEF CheckClosed
    <3>4. QED
      BY <3>2, <3>3
  <2>2. CASE ~closeFlag
    BY <1>10, <2>2 DEF CheckClosed
  <2>3. QED
    BY <2>1, <2>2, Zenon
<1>11. ASSUME NEW c \in Conn, CheckStopped(c) PROVE TypeOK'
  BY <1>11 DEF CheckStopped
<1>12. ASSUME NEW c \in Conn, WakeUp(c) PROVE TypeOK'
  BY <1>12 DEF WakeUp
<1>13. ASSUME NEW c \in Conn, JoinNext(c) PROVE TypeOK'
  BY <1>13 DEF JoinNext, Over, TasksOf
<1>14. ASSUME NEW c \in Conn, AcceptStream(c) PROVE TypeOK'
  BY <1>14 DEF AcceptStream, Queued
<1>15. ASSUME NEW c \in Conn, AcceptFails(c) PROVE TypeOK'
  BY <1>15 DEF AcceptFails
<1>16. ASSUME NEW c \in Conn, TryAdmit(c) PROVE TypeOK'
  BY <1>16 DEF TryAdmit
<1>17. ASSUME NEW c \in Conn, EndLoop(c) PROVE TypeOK'
  BY <1>17 DEF EndLoop, Running, TasksOf
<1>18. ASSUME NEW c \in Conn, JoinAll(c) PROVE TypeOK'
  BY <1>18 DEF JoinAll
<1>19. ASSUME NEW c \in Conn, Release(c) PROVE TypeOK'
  BY <1>19 DEF Release, Notified
<1>20. ASSUME NEW c \in Conn, FireDisconnected(c) PROVE TypeOK'
  BY <1>20 DEF FireDisconnected
<1>21. ASSUME NEW s \in Stream, OpenStream(s) PROVE TypeOK'
  BY <1>21 DEF OpenStream
<1>22. ASSUME NEW s \in Stream, FinishRequest(s) PROVE TypeOK'
  BY <1>22 DEF FinishRequest
<1>23. ASSUME NEW s \in Stream, FinishDelivery(s) PROVE TypeOK'
  BY <1>23 DEF FinishDelivery, DropDelivery, Notified
<1>24. ASSUME NEW s \in Stream, CancelTask(s) PROVE TypeOK'
  BY <1>24 DEF CancelTask, DropDelivery, Notified
<1>25. CASE TakeIncoming
  BY <1>25 DEF TakeIncoming
<1>26. CASE EndpointClosed
  BY <1>26 DEF EndpointClosed, BreakLoop
<1>27. CASE HandleShutdown
  BY <1>27 DEF HandleShutdown
<1>28. CASE ForceFlag
  BY <1>28 DEF ForceFlag
<1>29. CASE ForceStop
  BY <1>29 DEF ForceStop
<1>30. CASE ForceNotify
  BY <1>30 DEF ForceNotify, Notified
<1>31. CASE DiscardIncoming
  BY <1>31 DEF DiscardIncoming
<1>32. CASE StopAccepting
  BY Zenon, <1>32 DEF StopAccepting, BreakLoop
<1>33. CASE SendDone
  BY <1>33 DEF SendDone
<1>34. CASE WaitRegister
  BY <1>34 DEF WaitRegister
<1>35. CASE DrainCheck
  BY <1>35 DEF DrainCheck
<1>36. CASE ConnCheck
  BY <1>36 DEF ConnCheck, HandlersGone
<1>37. CASE WaitEnds
  BY <1>37 DEF WaitEnds
<1>38. CASE StoreDrained
  BY <1>38 DEF StoreDrained
<1>39. CASE RaiseCloseFlag
  BY <1>39 DEF RaiseCloseFlag
<1>40. CASE NotifyConnections
  BY <1>40 DEF NotifyConnections, Notified
<1>41. CASE Expire
  BY <1>41 DEF Expire
<1>42. CASE UNCHANGED vars
  BY <1>42
<1>43. QED
  BY Zenon, <1>3, <1>4, <1>5, <1>6, <1>7, <1>8, <1>9, <1>10, <1>11, <1>12, <1>13, <1>14,
     <1>15, <1>16, <1>17, <1>18, <1>19, <1>20, <1>21, <1>22, <1>23, <1>24, <1>25,
     <1>26, <1>27, <1>28, <1>29, <1>30, <1>31, <1>32, <1>33, <1>34, <1>35, <1>36,
     <1>37, <1>38, <1>39, <1>40, <1>41, <1>42
     DEF Next, HandlerStep, ForceStep, AcceptorStep, ShutdownStep

-----------------------------------------------------------------------------
(* The shutdown protocol *)

(* A step outside the shutdown protocol: it changes no flag, nothing of the *)
(* shutdown future or the handle, and never returns to accepting.           *)
StopQuiet ==
    /\ UNCHANGED <<stopped, drained, closeFlag, sd, sdDrained, expired, force>>
    /\ acceptor' \in {"accepting", "handshake"} => acceptor \in {"accepting", "handshake"}

LEMMA StopFrame ==
    ASSUME [Next]_vars
    PROVE  \/ StopQuiet
           \/ ForceFlag \/ ForceStep \/ StopAccepting \/ EndpointClosed \/ ShutdownStep \/ Expire
<1> USE DEF StopQuiet, vars, connVars, slotVars, streamVars, flagVars, stopVars, loopVars
<1>1. CASE \E c \in Conn : AcceptConnection(c) \/ IdleTimeout(c) \/ PeerCloses(c)
  BY <1>1 DEF AcceptConnection, IdleTimeout, PeerCloses
<1>2. ASSUME NEW c \in Conn, HandlerStep(c)
      PROVE  StopQuiet
  <2>1. CASE \/ Acquire(c) \/ RefuseConnection(c) \/ FireConnected(c) \/ Release(c)
             \/ FireDisconnected(c) \/ EndLoop(c) \/ JoinAll(c)
    BY <2>1, Zenon DEF Acquire, RefuseConnection, FireConnected, Release, FireDisconnected, EndLoop, JoinAll
  <2>2. CASE RegisterClose(c) \/ CheckClosed(c) \/ CheckStopped(c) \/ WakeUp(c)
    BY <2>2, Zenon DEF RegisterClose, CheckClosed, CheckStopped, WakeUp
  <2>3. CASE JoinNext(c) \/ AcceptStream(c) \/ AcceptFails(c) \/ TryAdmit(c)
    BY Zenon, <2>3 DEF JoinNext, AcceptStream, AcceptFails, TryAdmit
  <2>4. QED
    BY <1>2, <2>1, <2>2, <2>3, Zenon DEF HandlerStep
<1>3. CASE \E s \in Stream : OpenStream(s) \/ FinishRequest(s) \/ FinishDelivery(s) \/ CancelTask(s)
  BY Zenon, <1>3 DEF OpenStream, FinishRequest, FinishDelivery, CancelTask
<1>4. CASE TakeIncoming \/ HandleShutdown \/ AcceptorStep
  BY <1>4, Zenon DEF TakeIncoming, HandleShutdown, AcceptorStep, DiscardIncoming, SendDone
<1>5. CASE UNCHANGED vars
  BY <1>5
<1>6. QED
  BY <1>1, <1>2, <1>3, <1>4, <1>5, Zenon DEF Next

(* Once admission is stopped, a delivery counter that is zero stays zero:   *)
(* no stream is admitted, and a guard is only dropped by a task that has it.*)
LEMMA ZeroStays ==
    ASSUME TypeOK, GuardAccounting, [Next]_vars, stopped, deliveries = 0
    PROVE  stopped' /\ deliveries' = 0
<1>1. \A s \in Stream : stream[s] \notin Delivering
  <2>1. Cardinality({s \in Stream : stream[s] \in Delivering}) = 0
    BY DEF GuardAccounting
  <2>2. QED
    BY <2>1, StreamsFinite, FS_EmptySet
<1>2. deliveries' = 0
  <2>1. CASE \E c \in Conn : JoinNext(c) \/ AcceptStream(c) \/ TryAdmit(c) \/ JoinAll(c)
    BY <2>1, Zenon DEF JoinNext, AcceptStream, TryAdmit, JoinAll, AdmitsStreams
  <2>2. CASE \E s \in Stream : OpenStream(s) \/ FinishRequest(s) \/ FinishDelivery(s) \/ CancelTask(s)
    BY <2>2, <1>1, Zenon DEF OpenStream, FinishRequest, FinishDelivery, CancelTask, Delivering
  <2>3. QED
    BY <2>1, <2>2, StreamFrame
<1>3. stopped'
  BY Zenon, StopFrame DEF ForceFlag, ForceStep, ForceStop, ForceNotify, StopAccepting, EndpointClosed,
     BreakLoop, ShutdownStep, WaitRegister, DrainCheck, ConnCheck, WaitEnds, StoreDrained,
     RaiseCloseFlag, NotifyConnections, Expire, flagVars, stopVars, StopQuiet
<1>4. QED
  BY <1>2, <1>3

LEMMA DrainStep ==
    ASSUME TypeOK, GuardAccounting, DrainInv, [Next]_vars
    PROVE  DrainInv'
<1>1. stopped => stopped'
  BY Zenon, StopFrame DEF ForceFlag, ForceStep, ForceStop, ForceNotify, StopAccepting, EndpointClosed,
     BreakLoop, ShutdownStep, WaitRegister, DrainCheck, ConnCheck, WaitEnds, StoreDrained,
     RaiseCloseFlag, NotifyConnections, Expire, flagVars, stopVars, StopQuiet
<1>2. stopped /\ deliveries = 0 => deliveries' = 0
  BY ZeroStays
<1> USE <1>1, <1>2 DEF DrainInv, TypeOK, flagVars, stopVars, loopVars, streamVars, Decided, PastStore, PastFlag
<1>3. CASE StopQuiet
  BY <1>3 DEF StopQuiet
<1>4. CASE ForceFlag
  BY <1>4 DEF ForceFlag
<1>5. CASE ForceStep
  BY <1>5 DEF ForceStep, ForceStop, ForceNotify
<1>6. CASE StopAccepting \/ EndpointClosed
  BY <1>6 DEF StopAccepting, EndpointClosed, BreakLoop
<1>7. CASE WaitRegister
  BY <1>7, Zenon DEF WaitRegister
<1>8. CASE DrainCheck
  BY Zenon, <1>8 DEF DrainCheck
<1>9. CASE ConnCheck
  BY <1>9, Zenon DEF ConnCheck
<1>10. CASE WaitEnds
  BY <1>10, Zenon DEF WaitEnds
<1>11. CASE StoreDrained
  BY <1>11 DEF StoreDrained
<1>12. CASE RaiseCloseFlag
  BY <1>12 DEF RaiseCloseFlag
<1>13. CASE NotifyConnections
  BY <1>13 DEF NotifyConnections
<1>14. CASE Expire
  BY <1>14, Zenon DEF Expire
<1>15. QED
  BY Zenon, <1>3, <1>4, <1>5, <1>6, <1>7, <1>8, <1>9, <1>10, <1>11, <1>12, <1>13, <1>14, StopFrame
     DEF ShutdownStep

-----------------------------------------------------------------------------
(* Request tasks and their connection *)

(* A handler other than one in JoinAll keeps a place from which its request *)
(* tasks are still joined, and moves no other handler.                      *)
LEMMA OwnerFrame ==
    ASSUME TypeOK, NEW c \in Conn,
           AcceptConnection(c) \/ IdleTimeout(c) \/ HandlerStep(c), ~JoinAll(c)
    PROVE  \A d \in Conn : task[d] \in InLoop \cup {"ending", "joining"}
                             => task'[d] \in InLoop \cup {"ending", "joining"}
<1>t. task \in [Conn -> TaskStates]
  BY DEF TypeOK
<1> USE <1>t DEF Goto, Leave, InLoop
<1>1. CASE AcceptConnection(c) \/ IdleTimeout(c)
  BY <1>1, Zenon DEF AcceptConnection, IdleTimeout, Polls
<1>2. CASE Acquire(c) \/ RefuseConnection(c) \/ FireConnected(c) \/ FireDisconnected(c)
  BY <1>2, Zenon DEF Acquire, RefuseConnection, FireConnected, FireDisconnected
<1>3. CASE RegisterClose(c) \/ CheckClosed(c) \/ CheckStopped(c) \/ WakeUp(c)
  BY <1>3 DEF RegisterClose, CheckClosed, CheckStopped, WakeUp
<1>4. CASE JoinNext(c) \/ AcceptStream(c) \/ AcceptFails(c) \/ TryAdmit(c)
  BY Zenon, <1>4 DEF JoinNext, AcceptStream, AcceptFails, TryAdmit, Polls
<1>5. CASE EndLoop(c) \/ Release(c)
  BY <1>5 DEF EndLoop, Release
<1>6. QED
  BY <1>1, <1>2, <1>3, <1>4, <1>5, Zenon DEF HandlerStep

LEMMA OwnerStep ==
    ASSUME TypeOK, TasksEndBeforeHandler, [Next]_vars
    PROVE  TasksEndBeforeHandler'
<1>t. task \in [Conn -> TaskStates] /\ stream \in [Stream -> StreamStates]
  BY DEF TypeOK
<1> SUFFICES ASSUME NEW s \in Stream, stream'[s] \in Delivering
             PROVE  task'[ConnOf[s]] \in InLoop \cup {"ending", "joining"}
  BY DEF TasksEndBeforeHandler
<1> DEFINE d == ConnOf[s]
<1>0. d \in Conn
  BY StreamAssumption
<1>1. \/ stream[s] \in Delivering
      \/ TryAdmit(d) /\ task'[d] = "top"
  <2>1. CASE UNCHANGED <<stream, requests, deliveries>>
    BY <2>1
  <2>2. ASSUME NEW c \in Conn, JoinNext(c) \/ AcceptStream(c) \/ JoinAll(c)
        PROVE  stream[s] \in Delivering
    BY <2>2, <1>t, Zenon DEF JoinNext, AcceptStream, JoinAll, Delivering
  <2>3. ASSUME NEW c \in Conn, TryAdmit(c)
        PROVE  stream[s] \in Delivering \/ (TryAdmit(d) /\ task'[d] = "top")
    <3>1. PICK t \in Stream :
             /\ ConnOf[t] = c
             /\ stream' = [stream EXCEPT ![t] = IF AdmitsStreams THEN "processing" ELSE "refused"]
      BY Zenon, <2>3 DEF TryAdmit
    <3>2. CASE t = s
      <4>1. d = c
        BY <3>1, <3>2
      <4>2. task' = [task EXCEPT ![d] = "top"]
        BY <2>3, <4>1 DEF TryAdmit, Leave, Goto
      <4>3. QED
        BY <2>3, <4>1, <4>2, <1>0, <1>t
    <3>3. CASE t # s
      BY <3>1, <3>3, <1>t
    <3>4. QED
      BY <3>2, <3>3, Zenon
  <2>4. ASSUME NEW t \in Stream, OpenStream(t) \/ FinishRequest(t) \/ FinishDelivery(t) \/ CancelTask(t)
        PROVE  stream[s] \in Delivering
    BY <2>4, <1>t, Zenon DEF OpenStream, FinishRequest, FinishDelivery, CancelTask, Delivering
  <2>5. QED
    BY Zenon, <2>1, <2>2, <2>3, <2>4, StreamFrame
<1>2. CASE TryAdmit(d) /\ task'[d] = "top"
  BY <1>2, Zenon DEF InLoop
<1>3. CASE stream[s] \in Delivering
  <2>1. task[d] \in InLoop \cup {"ending", "joining"}
    BY <1>3, Zenon DEF TasksEndBeforeHandler
  <2>2. CASE UNCHANGED <<task, counts, total>>
    BY <2>1, <2>2
  <2>3. ASSUME NEW c \in Conn, AcceptConnection(c) \/ HandlerStep(c) \/ IdleTimeout(c), ~JoinAll(c)
        PROVE  task'[d] \in InLoop \cup {"ending", "joining"}
    BY <2>1, <2>3, <1>0, OwnerFrame, Zenon
  <2>4. ASSUME NEW c \in Conn, JoinAll(c)
        PROVE  task'[d] \in InLoop \cup {"ending", "joining"}
    <3>1. d # c
      BY <2>4, <1>3, Zenon DEF JoinAll, AllOver, Running, TasksOf
    <3>2. QED
      BY <2>1, <2>4, <3>1, <1>0, <1>t DEF JoinAll, Goto
  <2>5. QED
    BY Zenon, <2>2, <2>3, <2>4, TaskFrame
<1>4. QED
  BY <1>1, <1>2, <1>3, Zenon

(* A task is aborted only by EndLoop, which needs the close flag up and     *)
(* drained down; that happens only by force or after the deadline.          *)
LEMMA AbortStep ==
    ASSUME TypeOK, DrainInv, AbortOnlyAfterDeadline, [Next]_vars
    PROVE  AbortOnlyAfterDeadline'
<1>1. (expired => expired') /\ (force # "no" => force' # "no")
  <2>1. CASE StopQuiet \/ StopAccepting \/ EndpointClosed
    BY <2>1 DEF StopQuiet, StopAccepting, EndpointClosed, BreakLoop
  <2>2. CASE ForceFlag \/ ForceStep
    BY <2>2 DEF ForceFlag, ForceStep, ForceStop, ForceNotify, stopVars
  <2>3. CASE ShutdownStep
    BY <2>3 DEF ShutdownStep, WaitRegister, DrainCheck, ConnCheck, WaitEnds, StoreDrained,
       RaiseCloseFlag, NotifyConnections, loopVars
  <2>4. CASE Expire
    BY <2>4 DEF Expire, loopVars
  <2>5. QED
    BY <2>1, <2>2, <2>3, <2>4, StopFrame
<1>2. aborted' = aborted \/ (closeFlag /\ ~drained)
  <2> USE DEF vars, connVars, slotVars, streamVars, flagVars, stopVars, loopVars
  <2>1. CASE \E c \in Conn : AcceptConnection(c) \/ IdleTimeout(c) \/ PeerCloses(c)
    BY <2>1, Zenon DEF AcceptConnection, IdleTimeout, PeerCloses
  <2>2. ASSUME NEW c \in Conn, HandlerStep(c)
        PROVE  aborted' = aborted \/ (closeFlag /\ ~drained)
    <3>1. CASE EndLoop(c)
      BY <3>1 DEF EndLoop, AbortsTasks
    <3>2. CASE \/ Acquire(c) \/ RefuseConnection(c) \/ FireConnected(c) \/ Release(c)
               \/ FireDisconnected(c) \/ JoinAll(c)
      BY Zenon, <3>2 DEF Acquire, RefuseConnection, FireConnected, Release, FireDisconnected, JoinAll
    <3>3. CASE RegisterClose(c) \/ CheckClosed(c) \/ CheckStopped(c) \/ WakeUp(c)
      BY <3>3, Zenon DEF RegisterClose, CheckClosed, CheckStopped, WakeUp
    <3>4. CASE JoinNext(c) \/ AcceptStream(c) \/ AcceptFails(c) \/ TryAdmit(c)
      BY Zenon, <3>4 DEF JoinNext, AcceptStream, AcceptFails, TryAdmit
    <3>5. QED
      BY <2>2, <3>1, <3>2, <3>3, <3>4 DEF HandlerStep
  <2>3. CASE \E s \in Stream : OpenStream(s) \/ FinishRequest(s) \/ FinishDelivery(s) \/ CancelTask(s)
    BY Zenon, <2>3 DEF OpenStream, FinishRequest, FinishDelivery, CancelTask
  <2>4. CASE TakeIncoming \/ EndpointClosed \/ HandleShutdown \/ ForceFlag \/ ForceStep \/ AcceptorStep
    BY <2>4, Zenon DEF TakeIncoming, EndpointClosed, HandleShutdown, ForceFlag, ForceStep, ForceStop,
        ForceNotify, AcceptorStep, DiscardIncoming, StopAccepting, SendDone, BreakLoop
  <2>5. CASE ShutdownStep \/ Expire
    BY Zenon, <2>5 DEF ShutdownStep, WaitRegister, DrainCheck, ConnCheck, WaitEnds, StoreDrained,
        RaiseCloseFlag, NotifyConnections, Expire
  <2>6. CASE UNCHANGED vars
    BY <2>6
  <2>7. QED
    BY <2>1, <2>2, <2>3, <2>4, <2>5, <2>6 DEF Next
<1>3. closeFlag /\ ~drained => expired \/ force # "no"
  BY DEF DrainInv, Decided, PastStore
<1>4. QED
  BY <1>1, <1>2, <1>3 DEF AbortOnlyAfterDeadline

-----------------------------------------------------------------------------
(* The inductive invariant and what follows from it *)

LEMMA Initially == Init => IInv
<1> SUFFICES ASSUME Init PROVE IInv
  OBVIOUS
<1>1. TypeOK
  BY ConnAssumption, StreamAssumption, Zenon DEF Init, TypeOK, TaskStates, StreamStates
<1>2. CountInv
  <2>1. {s \in Stream : stream[s] \in Delivering} = {} /\ {s \in Stream : stream[s] = "processing"} = {}
    BY DEF Init, Delivering
  <2>2. Holders = {} /\ \A p \in Peer : HoldersOf(p) = {}
    BY DEF Init, Holders, HoldersOf, Holding, InLoop
  <2>3. Cardinality({}) = 0
    BY FS_EmptySet
  <2>4. GuardAccounting
    BY <2>1, <2>3, Zenon DEF Init, GuardAccounting
  <2>5. AdmissionWithinCaps
    BY <2>2, <2>3, LimitAssumption DEF Init, AdmissionWithinCaps
  <2>6. QED
    BY <2>4, <2>5 DEF CountInv
<1>3. DrainInv /\ TasksEndBeforeHandler /\ AbortOnlyAfterDeadline
  BY DEF Init, DrainInv, TasksEndBeforeHandler, AbortOnlyAfterDeadline, Delivering, Decided,
         PastStore, PastFlag
<1>4. QED
  BY <1>1, <1>2, <1>3 DEF IInv

LEMMA Inductive == IInv /\ [Next]_vars => IInv'
<1> SUFFICES ASSUME IInv, [Next]_vars PROVE IInv'
  OBVIOUS
<1>1. TypeOK /\ GuardAccounting /\ AdmissionWithinCaps /\ CountInv /\ DrainInv
      /\ TasksEndBeforeHandler /\ AbortOnlyAfterDeadline
  BY DEF IInv, CountInv
<1>2. TypeOK' /\ GuardAccounting' /\ AdmissionWithinCaps'
  BY <1>1, TypeStep, GuardStep, AdmissionStep
<1>3. DrainInv' /\ TasksEndBeforeHandler' /\ AbortOnlyAfterDeadline'
  BY <1>1, DrainStep, OwnerStep, AbortStep
<1>4. QED
  BY <1>2, <1>3 DEF IInv, CountInv

LEMMA Invariance == Spec => []IInv
  BY Initially, Inductive, PTL DEF Spec

(* Every variable keeps its type.                                           *)
THEOREM TypeCorrect == Spec => []TypeOK
<1>1. IInv => TypeOK
  BY DEF IInv
<1>2. QED
  BY <1>1, Invariance, PTL

(* ConnectionAdmission never admits past either limit, and its counters are *)
(* exactly the handlers between acquire and the tracker's drop.             *)
THEOREM AdmissionSafe == Spec => []AdmissionWithinCaps
<1>1. IInv => AdmissionWithinCaps
  BY DEF IInv, CountInv
<1>2. QED
  BY <1>1, Invariance, PTL

(* RequestTracker and DeliveryTracker are each dropped exactly once.        *)
THEOREM GuardsBalanced == Spec => []GuardAccounting
<1>1. IInv => GuardAccounting
  BY DEF IInv, CountInv
<1>2. QED
  BY <1>1, Invariance, PTL

(* After shutdown published drained, no request task runs.                  *)
THEOREM DrainSafe == Spec => []DrainedMeansDelivered
<1>1. ASSUME IInv PROVE DrainedMeansDelivered
  <2>1. SUFFICES ASSUME drained PROVE \A s \in Stream : stream[s] \notin Delivering
    BY DEF DrainedMeansDelivered
  <2>2. Cardinality({s \in Stream : stream[s] \in Delivering}) = 0
    BY <1>1, <2>1 DEF IInv, CountInv, DrainInv, GuardAccounting
  <2>3. QED
    BY <2>2, StreamsFinite, FS_EmptySet
<1>2. QED
  BY <1>1, Invariance, PTL

(* No request task outlives its connection's handler.                       *)
THEOREM TasksContained == Spec => []TasksEndBeforeHandler
<1>1. IInv => TasksEndBeforeHandler
  BY DEF IInv
<1>2. QED
  BY <1>1, Invariance, PTL

(* A request task is aborted only after the deadline or by force.           *)
THEOREM AbortJustified == Spec => []AbortOnlyAfterDeadline
<1>1. IInv => AbortOnlyAfterDeadline
  BY DEF IInv
<1>2. QED
  BY <1>1, Invariance, PTL

(* shutdown returns true only when nothing is in flight and no handler has  *)
(* a slot.                                                                  *)
THEOREM ShutdownTruthful == Spec => ShutdownTrueMeansQuiet
<1> DEFINE Quiet == sd # "returned" /\ sd' = "returned" /\ sdResult' =>
                       Holders' = {} /\ \A s \in Stream : stream'[s] \notin Delivering
<1>1. IInv /\ [Next]_vars => [Quiet]_vars
  <2> SUFFICES ASSUME IInv, [Next]_vars, sd # "returned", sd' = "returned", sdResult'
               PROVE  Holders' = {} /\ \A s \in Stream : stream'[s] \notin Delivering
    OBVIOUS
  <2>1. ConnCheck
    BY Zenon, StopFrame DEF ForceFlag, ForceStep, ForceStop, ForceNotify, StopAccepting, EndpointClosed,
       BreakLoop, ShutdownStep, WaitRegister, DrainCheck, WaitEnds, StoreDrained,
       RaiseCloseFlag, NotifyConnections, Expire, flagVars, stopVars, StopQuiet
  <2>2. total = 0 /\ sdDrained /\ UNCHANGED <<stream, task>>
    BY <2>1, Zenon DEF ConnCheck, HandlersGone, connVars, streamVars
  <2>3. Holders = {}
    BY <2>2, HoldersFinite, FS_EmptySet, Zenon DEF IInv, CountInv, AdmissionWithinCaps
  <2>4. Cardinality({s \in Stream : stream[s] \in Delivering}) = 0
    BY <2>2 DEF IInv, CountInv, DrainInv, GuardAccounting
  <2>5. \A s \in Stream : stream[s] \notin Delivering
    BY <2>4, StreamsFinite, FS_EmptySet
  <2>6. QED
    BY <2>2, <2>3, <2>5 DEF Holders
<1>2. QED
  BY <1>1, Invariance, PTL DEF Spec, ShutdownTrueMeansQuiet
-----------------------------------------------------------------------------
(* The connection events (http/server/lifecycle.rs, ConnectionTracker): the *)
(* connect and disconnect callbacks of every peer balance with the number   *)
(* of connections it holds.  Of the invariant above it takes the types and  *)
(* the admission counts.                                                    *)

(* The callbacks of a peer that a tracker has decided on and not yet run.   *)
Announcing(p) == {c \in HoldersOf(p) : task[c] = "announce"}
Retracting(p) == {c \in Conn : PeerOf[c] = p /\ task[c] = "retract"}

LEMMA PendingFinite ==
    \A p \in Peer : /\ IsFiniteSet(Announcing(p)) /\ Cardinality(Announcing(p)) \in Nat
                    /\ IsFiniteSet(Retracting(p)) /\ Cardinality(Retracting(p)) \in Nat
  BY ConnAssumption, FS_Subset, FS_CardinalityType, Zenon DEF Announcing, Retracting, Holders, HoldersOf

(* Only the four steps of a tracker change a count, an event or the set of  *)
(* pending callbacks.                                                       *)
LEMMA EventFrame ==
    ASSUME TypeOK, [Next]_vars,
           \A c \in Conn : ~Acquire(c) /\ ~FireConnected(c) /\ ~Release(c) /\ ~FireDisconnected(c)
    PROVE  /\ UNCHANGED <<counts, told>>
           /\ \A c \in Conn : /\ task'[c] = "announce" <=> task[c] = "announce"
                              /\ task'[c] = "retract" <=> task[c] = "retract"
<1>t. task \in [Conn -> TaskStates]
  BY DEF TypeOK
<1> USE <1>t DEF vars, connVars, slotVars, streamVars, flagVars, stopVars, loopVars, Goto, Leave
<1>1. ASSUME NEW c \in Conn, AcceptConnection(c) \/ IdleTimeout(c) \/ PeerCloses(c)
      PROVE  /\ UNCHANGED <<counts, told>>
             /\ \A d \in Conn : /\ task'[d] = "announce" <=> task[d] = "announce"
                                /\ task'[d] = "retract" <=> task[d] = "retract"
  BY <1>1, Zenon DEF AcceptConnection, IdleTimeout, PeerCloses, Polls
<1>2. ASSUME NEW c \in Conn, HandlerStep(c)
      PROVE  /\ UNCHANGED <<counts, told>>
             /\ \A d \in Conn : /\ task'[d] = "announce" <=> task[d] = "announce"
                                /\ task'[d] = "retract" <=> task[d] = "retract"
  <2>1. CASE RefuseConnection(c) \/ EndLoop(c) \/ JoinAll(c)
    BY <2>1, Zenon DEF RefuseConnection, EndLoop, JoinAll
  <2>2. CASE RegisterClose(c) \/ CheckClosed(c)
    BY <2>2, Zenon DEF RegisterClose, CheckClosed
  <2>3. CASE CheckStopped(c) \/ WakeUp(c)
    BY <2>3, Zenon DEF CheckStopped, WakeUp
  <2>4. CASE JoinNext(c) \/ AcceptStream(c)
    BY <2>4, Zenon DEF JoinNext, AcceptStream, Polls
  <2>5. CASE AcceptFails(c) \/ TryAdmit(c)
    BY <2>5, Zenon DEF AcceptFails, TryAdmit, Polls
  <2>6. QED
    BY <1>2, <2>1, <2>2, <2>3, <2>4, <2>5, Zenon DEF HandlerStep
<1>3. CASE \E s \in Stream : OpenStream(s) \/ FinishRequest(s) \/ FinishDelivery(s) \/ CancelTask(s)
  BY <1>3, Zenon DEF OpenStream, FinishRequest, FinishDelivery, CancelTask
<1>4. CASE TakeIncoming \/ EndpointClosed \/ HandleShutdown \/ ForceFlag \/ ForceStep \/ AcceptorStep
  BY Zenon, <1>4 DEF TakeIncoming, EndpointClosed, HandleShutdown, ForceFlag, ForceStep, ForceStop,
      ForceNotify, AcceptorStep, DiscardIncoming, StopAccepting, SendDone, BreakLoop
<1>5. CASE ShutdownStep \/ Expire
  BY Zenon, <1>5 DEF ShutdownStep, WaitRegister, DrainCheck, ConnCheck, WaitEnds, StoreDrained,
      RaiseCloseFlag, NotifyConnections, Expire
<1>6. CASE UNCHANGED vars
  BY <1>6, Zenon
<1>7. QED
  BY <1>1, <1>2, <1>3, <1>4, <1>5, <1>6, Zenon DEF Next

LEMMA EventStep ==
    ASSUME IInv, EventBalance, [Next]_vars
    PROVE  EventBalance'
<1> SUFFICES ASSUME NEW q \in Peer
             PROVE  told'[q].connected + Cardinality(Announcing(q)')
                      - told'[q].disconnected - Cardinality(Retracting(q)')
                    = IF counts'[q] > 0 THEN 1 ELSE 0
  BY Zenon DEF EventBalance, Announcing, Retracting
<1> DEFINE a == Cardinality(Announcing(q))
           r == Cardinality(Retracting(q))
<1>0. TypeOK /\ AdmissionWithinCaps
  BY DEF IInv, CountInv
<1>t. /\ task \in [Conn -> TaskStates] /\ counts \in [Peer -> Nat]
      /\ told \in [Peer -> [connected : Nat, disconnected : Nat]]
  BY <1>0 DEF TypeOK
<1>1. /\ a \in Nat /\ r \in Nat /\ IsFiniteSet(Announcing(q)) /\ IsFiniteSet(Retracting(q))
      /\ told[q].connected \in Nat /\ told[q].disconnected \in Nat /\ counts[q] \in Nat
      /\ told[q].connected + a - told[q].disconnected - r = IF counts[q] > 0 THEN 1 ELSE 0
  BY Zenon, <1>t, PendingFinite DEF EventBalance, Announcing, Retracting
<1>2. CASE \A c \in Conn : ~Acquire(c) /\ ~FireConnected(c) /\ ~Release(c) /\ ~FireDisconnected(c)
  <2>1. /\ UNCHANGED <<counts, told>>
        /\ \A c \in Conn : /\ task'[c] = "announce" <=> task[c] = "announce"
                           /\ task'[c] = "retract" <=> task[c] = "retract"
    BY Zenon, <1>0, <1>2, EventFrame
  <2>2. Announcing(q)' = Announcing(q) /\ Retracting(q)' = Retracting(q)
    BY <2>1, Zenon DEF Announcing, Retracting, Holders, HoldersOf, Holding
  <2>3. QED
    BY <2>1, <2>2, <1>1, Zenon
<1>3. ASSUME NEW c \in Conn, Acquire(c)
      PROVE  told'[q].connected + Cardinality(Announcing(q)')
               - told'[q].disconnected - Cardinality(Retracting(q)')
             = IF counts'[q] > 0 THEN 1 ELSE 0
  <2>1. /\ told' = told /\ counts' = [counts EXCEPT ![PeerOf[c]] = @ + 1] /\ task[c] = "spawned"
        /\ task' = [task EXCEPT ![c] = IF counts[PeerOf[c]] = 0 THEN "announce" ELSE "top"]
    BY <1>3 DEF Acquire, Goto
  <2>2. Retracting(q)' = Retracting(q)
    BY <2>1, <1>t DEF Retracting
  <2>3. CASE PeerOf[c] = q /\ counts[q] = 0
    <3>1. Announcing(q)' = Announcing(q) \cup {c} /\ c \notin Announcing(q)
      BY <2>1, <2>3, <1>t DEF Announcing, Holders, HoldersOf, Holding
    <3>2. Cardinality(Announcing(q)') = a + 1
      BY Zenon, <3>1, <1>1, CardinalityAdd
    <3>3. counts'[q] = 1
      BY <2>1, <2>3, <1>t
    <3>4. QED
      BY <2>1, <2>2, <2>3, <3>2, <3>3, <1>1
  <2>4. CASE PeerOf[c] # q \/ counts[q] # 0
    <3>1. Announcing(q)' = Announcing(q)
      BY <2>1, <2>4, <1>t DEF Announcing, Holders, HoldersOf, Holding
    <3>2. counts'[q] > 0 <=> counts[q] > 0
      BY <2>1, <2>4, <1>t
    <3>3. QED
      BY <2>1, <2>2, <3>1, <3>2, <1>1, Zenon
  <2>5. QED
    BY <2>3, <2>4, Zenon
<1>4. ASSUME NEW c \in Conn, FireConnected(c)
      PROVE  told'[q].connected + Cardinality(Announcing(q)')
               - told'[q].disconnected - Cardinality(Retracting(q)')
             = IF counts'[q] > 0 THEN 1 ELSE 0
  <2>1. /\ counts' = counts /\ task[c] = "announce" /\ task' = [task EXCEPT ![c] = "top"]
        /\ told' = [told EXCEPT ![PeerOf[c]] = [connected |-> @.connected + 1,
                   disconnected |-> @.disconnected]]
    BY <1>4 DEF FireConnected, Goto
  <2>2. Retracting(q)' = Retracting(q)
    BY <2>1, <1>t DEF Retracting
  <2>3. CASE PeerOf[c] = q
    <3>1. Announcing(q)' = Announcing(q) \ {c} /\ c \in Announcing(q)
      BY <2>1, <2>3, <1>t DEF Announcing, Holders, HoldersOf, Holding, InLoop
    <3>2. Cardinality(Announcing(q)') = a - 1
      BY Zenon, <3>1, <1>1, CardinalityRemove
    <3>3. told'[q].connected = told[q].connected + 1 /\ told'[q].disconnected = told[q].disconnected
      BY <2>1, <2>3, <1>t
    <3>4. QED
      BY <2>1, <2>2, <3>2, <3>3, <1>1
  <2>4. CASE PeerOf[c] # q
    <3>1. Announcing(q)' = Announcing(q) /\ told'[q] = told[q]
      BY <2>1, <2>4, <1>t DEF Announcing, Holders, HoldersOf, Holding
    <3>2. QED
      BY <2>1, <2>2, <3>1, <1>1, Zenon
  <2>5. QED
    BY <2>3, <2>4, Zenon
<1>5. ASSUME NEW c \in Conn, Release(c)
      PROVE  told'[q].connected + Cardinality(Announcing(q)')
               - told'[q].disconnected - Cardinality(Retracting(q)')
             = IF counts'[q] > 0 THEN 1 ELSE 0
  <2>1. /\ told' = told /\ counts' = [counts EXCEPT ![PeerOf[c]] = IF @ > 0 THEN @ - 1 ELSE 0]
        /\ task[c] = "release"
        /\ task' = [task EXCEPT ![c] = IF IsLast(PeerOf[c]) THEN "retract" ELSE "done"]
    BY Zenon, <1>5 DEF Release, Goto
  <2>2. Announcing(q)' = Announcing(q)
    BY <2>1, <1>t DEF Announcing, Holders, HoldersOf, Holding
  <2>3. PeerOf[c] = q => counts[q] > 0
    <3>1. SUFFICES ASSUME PeerOf[c] = q PROVE counts[q] > 0
      OBVIOUS
    <3>2. c \in HoldersOf(q)
      BY <3>1, <2>1 DEF Holders, HoldersOf, Holding
    <3>3. QED
      BY Zenon, <3>2, <1>0, HoldersFinite, CardinalityRemove DEF AdmissionWithinCaps
  <2>4. CASE PeerOf[c] = q /\ counts[q] = 1
    <3>1. Retracting(q)' = Retracting(q) \cup {c} /\ c \notin Retracting(q)
      BY <2>1, <2>4, <1>t DEF Retracting, IsLast
    <3>2. Cardinality(Retracting(q)') = r + 1
      BY Zenon, <3>1, <1>1, CardinalityAdd
    <3>3. counts'[q] = 0
      BY <2>1, <2>4, <1>t
    <3>4. told'[q] = told[q] /\ Cardinality(Announcing(q)') = a
      BY <2>1, <2>2
    <3>5. QED
      BY <2>4, <3>2, <3>3, <3>4, <1>1
  <2>5. CASE PeerOf[c] # q \/ counts[q] # 1
    <3>1. Retracting(q)' = Retracting(q)
      BY <2>1, <2>5, <1>t DEF Retracting, IsLast
    <3>2. counts'[q] > 0 <=> counts[q] > 0
      BY <2>1, <2>3, <2>5, <1>t
    <3>3. QED
      BY Zenon, <2>1, <2>2, <3>1, <3>2, <1>1
  <2>6. QED
    BY <2>4, <2>5, Zenon
<1>6. ASSUME NEW c \in Conn, FireDisconnected(c)
      PROVE  told'[q].connected + Cardinality(Announcing(q)')
               - told'[q].disconnected - Cardinality(Retracting(q)')
             = IF counts'[q] > 0 THEN 1 ELSE 0
  <2>1. /\ counts' = counts /\ task[c] = "retract" /\ task' = [task EXCEPT ![c] = "done"]
        /\ told' = [told EXCEPT ![PeerOf[c]] = [connected |-> @.connected,
                   disconnected |-> @.disconnected + 1]]
    BY <1>6 DEF FireDisconnected, Goto
  <2>2. Announcing(q)' = Announcing(q)
    BY <2>1, <1>t DEF Announcing, Holders, HoldersOf, Holding, InLoop
  <2>3. CASE PeerOf[c] = q
    <3>1. Retracting(q)' = Retracting(q) \ {c} /\ c \in Retracting(q)
      BY <2>1, <2>3, <1>t DEF Retracting
    <3>2. Cardinality(Retracting(q)') = r - 1
      BY Zenon, <3>1, <1>1, CardinalityRemove
    <3>3. told'[q].connected = told[q].connected /\ told'[q].disconnected = told[q].disconnected + 1
      BY <2>1, <2>3, <1>t
    <3>4. QED
      BY <2>1, <2>2, <3>2, <3>3, <1>1
  <2>4. CASE PeerOf[c] # q
    <3>1. Retracting(q)' = Retracting(q) /\ told'[q] = told[q]
      BY <2>1, <2>4, <1>t DEF Retracting
    <3>2. QED
      BY <2>1, <2>2, <3>1, <1>1, Zenon
  <2>5. QED
    BY <2>3, <2>4
<1>7. QED
  BY <1>2, <1>3, <1>4, <1>5, <1>6, Zenon

(* The connect and disconnect events of every peer balance.                 *)
THEOREM EventsBalanced == Spec => []EventBalance
<1>1. Init => EventBalance
  <2> SUFFICES ASSUME Init, NEW p \in Peer
               PROVE  told[p].connected + Cardinality(Announcing(p))
                        - told[p].disconnected - Cardinality(Retracting(p))
                      = IF counts[p] > 0 THEN 1 ELSE 0
    BY Zenon DEF EventBalance, Announcing, Retracting
  <2>1. Announcing(p) = {} /\ Retracting(p) = {}
    BY DEF Init, Announcing, Retracting, Holders, HoldersOf
  <2>2. QED
    BY <2>1, FS_EmptySet DEF Init
<1>2. IInv /\ EventBalance /\ [Next]_vars => EventBalance'
  BY EventStep
<1>3. QED
  BY <1>1, <1>2, Invariance, PTL DEF Spec
=============================================================================
