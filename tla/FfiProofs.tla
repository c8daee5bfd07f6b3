----------------------------- MODULE FfiProofs -------------------------------
(***************************************************************************)
(* Proofs about the FFI layer: the dispatch of requests to JavaScript      *)
(* (RequestDispatch) and the handle registries (HandleRegistry), each for  *)
(* every value of its constants. A request's invariant says which entries  *)
(* it may have at each point of its dispatch and how sender, oneshot       *)
(* channel and accepted answers go together. A registry's ties the two     *)
(* sides of a key together: an occupied slot belongs to the live resource  *)
(* that was given this slot and version, and the handle of a resource that *)
(* is gone has a version its slot has passed.                              *)
(***************************************************************************)
EXTENDS RequestDispatch, HandleRegistry, FiniteSetTheorems, TLAPS

-----------------------------------------------------------------------------
(* Dispatching a request.                                                  *)

\* The variables of the dispatch keep their types.
Types ==
    /\ pc \in [Req -> PCs]
    /\ readers \subseteq Req
    /\ writers \subseteq Req
    /\ heads \subseteq Req
    /\ slot \in [Req -> {"empty", "js", "undeliverable", "closed"}]
    /\ js \in [Req -> {"unaware", "handling"}]
    /\ accepted \in [Req -> 0..2]
    /\ answer \in [Req -> Answers]

\* No registry holds more than max_handles entries.
Bounded ==
    /\ Cardinality(readers) <= MaxTable
    /\ Cardinality(writers) <= MaxTable
    /\ Cardinality(heads) <= MaxTable

\* Where a request stands decides which entries it can have.
PlaceInv ==
    \A q \in Req :
        /\ pc[q] = "new" => q \notin readers
        /\ pc[q] \in {"new", "reader"} => q \notin writers
        /\ pc[q] \in {"new", "reader", "writer"} => q \notin heads /\ js[q] = "unaware"
        /\ pc[q] = "over" => q \notin heads
        /\ pc[q] \in {"reader", "writer", "head"} => q \in readers
        /\ pc[q] \in {"writer", "head"} => q \in writers
        /\ pc[q] = "head" => q \in heads /\ js[q] = "unaware"
        /\ answer[q] # "none" => pc[q] = "over"
        /\ answer[q] = "unavailable" => q \notin readers \cup writers /\ js[q] = "unaware"
        /\ slot[q] = "undeliverable" => q \notin writers /\ js[q] = "unaware" /\ pc[q] # "head"

\* A registered sender has sent nothing; a filled channel has lost its sender
\* and was filled once.
HeadInv ==
    \A q \in Req :
        /\ q \in heads => slot[q] = "empty"
        /\ pc[q] \in {"new", "reader", "writer", "head"} => slot[q] = "empty"
        /\ slot[q] = "js" => accepted[q] = 1
        /\ slot[q] # "js" => accepted[q] = 0
        /\ answer[q] = "js" => slot[q] = "js"
        /\ answer[q] = "internal" => slot[q] = "closed"
        /\ answer[q] = "undeliverable" => slot[q] = "undeliverable"

\* The entries past the TTL are entries of the three registries.
AgesTyped == old \subseteq {"reader", "writer", "head"} \X Req

\* Only the entries of a request that waits or is over grow old.
AgedInv ==
    \A q \in Req : \A reg \in {"reader", "writer", "head"} :
        q \in Expired(reg) => pc[q] \in {"waiting", "dropping", "over"}

\* The inductive invariant of the dispatch.
DispatchInv == Types /\ AgesTyped /\ AgedInv /\ Bounded /\ PlaceInv /\ HeadInv

-----------------------------------------------------------------------------
(* Cardinalities *)

\* insert_checked keeps a registry within its capacity.
LEMMA InsertBounded ==
    ASSUME NEW S \in SUBSET Req, NEW q \in Req, Cardinality(S) < MaxTable
    PROVE Cardinality(S \cup {q}) <= MaxTable
<1>1. IsFiniteSet(S)
  BY DispatchAssumption, FS_Subset
<1>2. Cardinality(S) \in Nat /\ Cardinality(S \cup {q}) \in {Cardinality(S), Cardinality(S) + 1}
  BY <1>1, FS_AddElement, FS_CardinalityType, Zenon
<1> QED
  BY <1>2, DispatchAssumption

\* Removing entries keeps a registry within its capacity.
LEMMA RemoveBounded ==
    ASSUME NEW S \in SUBSET Req, NEW R \in SUBSET S, Cardinality(S) <= MaxTable
    PROVE Cardinality(R) <= MaxTable
<1>1. IsFiniteSet(S)
  BY DispatchAssumption, FS_Subset
<1>2. Cardinality(R) <= Cardinality(S) /\ Cardinality(R) \in Nat /\ Cardinality(S) \in Nat
  BY <1>1, FS_Subset, FS_CardinalityType
<1> QED
  BY <1>2, DispatchAssumption

-----------------------------------------------------------------------------
(* One lemma per part of the invariant *)

\* A step keeps the types.
LEMMA TypesStep ==
    ASSUME Types, HeadInv, PlaceInv, [DispatchNext]_dispatchVars
    PROVE Types'
<1>1. ASSUME NEW q \in Req, Reject(q) PROVE Types'
  BY <1>1 DEF Reject, Over, Goto, Types, PCs, Answers, HeadInv, PlaceInv, dispatchVars, tables
<1>2. ASSUME NEW q \in Req, InsertReader(q) PROVE Types'
  BY <1>2 DEF InsertReader, Over, Goto, Room, Types, PCs, Answers, HeadInv, PlaceInv,
       dispatchVars, tables
<1>3. ASSUME NEW q \in Req, InsertWriter(q) PROVE Types'
  BY <1>3 DEF InsertWriter, Over, Goto, Room, Rollback, Types, PCs, Answers, HeadInv,
     PlaceInv, dispatchVars, tables
<1>4. ASSUME NEW q \in Req, InsertHead(q) PROVE Types'
  BY <1>4 DEF InsertHead, Over, Goto, Room, Rollback, Commit, Types, PCs, Answers, HeadInv,
     PlaceInv, dispatchVars, tables
<1>5. ASSUME NEW q \in Req, Deliver(q) PROVE Types'
  BY <1>5 DEF Deliver, Goto, Types, PCs, Answers, HeadInv, PlaceInv, dispatchVars, tables
<1>6. ASSUME NEW q \in Req, Undeliverable(q) PROVE Types'
  BY <1>6 DEF Undeliverable, Goto, FinishesBody, Types, PCs, Answers, HeadInv, PlaceInv,
     dispatchVars, tables
<1>7. ASSUME NEW q \in Req, Resume(q) PROVE Types'
  BY <1>7 DEF Resume, Over, Goto, HeadReleased, Forget, Types, PCs, Answers, HeadInv,
     PlaceInv, dispatchVars, tables
<1>8. ASSUME NEW q \in Req, DropFuture(q) PROVE Types'
  BY <1>8 DEF DropFuture, Goto, Types, PCs, Answers, HeadInv, PlaceInv, dispatchVars, tables
<1>9. ASSUME NEW q \in Req, DropGuard(q) PROVE Types'
  BY <1>9 DEF DropGuard, Over, Goto, HeadReleased, Forget, Types, PCs, Answers, HeadInv,
     PlaceInv, dispatchVars, tables
<1>10. ASSUME NEW q \in Req, Respond(q) PROVE Types'
  BY <1>10 DEF Respond, SenderTaken, Forget, Types, PCs, Answers, HeadInv, PlaceInv,
       dispatchVars, tables
<1>11. ASSUME NEW q \in Req, EndRequestBody(q) PROVE Types'
  BY <1>11 DEF EndRequestBody, Forget, Types, PCs, Answers, HeadInv, PlaceInv, dispatchVars,
      tables
<1>12. ASSUME NEW q \in Req, FinishBody(q) PROVE Types'
  BY <1>12 DEF FinishBody, Forget, Types, PCs, Answers, HeadInv, PlaceInv, dispatchVars, tables
<1>13. ASSUME NEW q \in Req, Touch(q) PROVE Types'
  BY <1>13 DEF Touch, Forget, Types, PCs, Answers, HeadInv, PlaceInv, dispatchVars, tables
<1>14. ASSUME NEW q \in Req, Expire(q) PROVE Types'
  BY <1>14 DEF Expire, Types, PCs, Answers, HeadInv, PlaceInv, dispatchVars, tables
<1>15. CASE SweepReaders
  BY <1>15 DEF SweepReaders, Types, PCs, Answers, HeadInv, PlaceInv, dispatchVars, tables
<1>16. CASE SweepWriters
  BY <1>16 DEF SweepWriters, Types, PCs, Answers, HeadInv, PlaceInv, dispatchVars, tables
<1>17. CASE SweepHeads
  BY <1>17 DEF SweepHeads, HeadsSwept, Types, PCs, Answers, HeadInv, PlaceInv, dispatchVars,
      tables
<1>18. CASE UNCHANGED dispatchVars
  BY <1>18 DEF Types, PCs, Answers, HeadInv, PlaceInv, dispatchVars, tables
<1> QED
  BY <1>1, <1>2, <1>3, <1>4, <1>5, <1>6, <1>7, <1>8, <1>9, <1>10, <1>11, <1>12, <1>13,
     <1>14, <1>15, <1>16, <1>17, <1>18 DEF DispatchNext, Dispatch, JavaScript

\* A step marks no entry but a registry's.
LEMMA AgesStep ==
    ASSUME Types, AgesTyped, [DispatchNext]_dispatchVars
    PROVE AgesTyped'
<1>1. ASSUME NEW q \in Req, Reject(q) PROVE AgesTyped'
  BY <1>1 DEF Reject, Over, Goto, Types, AgesTyped, dispatchVars, tables
<1>2. ASSUME NEW q \in Req, InsertReader(q) PROVE AgesTyped'
  BY <1>2 DEF InsertReader, Over, Goto, Room, Types, AgesTyped, dispatchVars, tables
<1>3. ASSUME NEW q \in Req, InsertWriter(q) PROVE AgesTyped'
  BY <1>3 DEF InsertWriter, Over, Goto, Room, Rollback, Types, AgesTyped, dispatchVars, tables
<1>4. ASSUME NEW q \in Req, InsertHead(q) PROVE AgesTyped'
  BY <1>4
     DEF InsertHead, Over, Goto, Room, Rollback, Commit, Types, AgesTyped, dispatchVars, tables
<1>5. ASSUME NEW q \in Req, Deliver(q) PROVE AgesTyped'
  BY <1>5 DEF Deliver, Goto, Types, AgesTyped, dispatchVars, tables
<1>6. ASSUME NEW q \in Req, Undeliverable(q) PROVE AgesTyped'
  BY <1>6 DEF Undeliverable, Goto, FinishesBody, Types, AgesTyped, dispatchVars, tables
<1>7. ASSUME NEW q \in Req, Resume(q) PROVE AgesTyped'
  BY <1>7 DEF Resume, Over, Goto, HeadReleased, Forget, Types, AgesTyped, dispatchVars, tables
<1>8. ASSUME NEW q \in Req, DropFuture(q) PROVE AgesTyped'
  BY <1>8 DEF DropFuture, Goto, Types, AgesTyped, dispatchVars, tables
<1>9. ASSUME NEW q \in Req, DropGuard(q) PROVE AgesTyped'
  BY <1>9 DEF DropGuard, Over, Goto, HeadReleased, Forget, Types, AgesTyped, dispatchVars, tables
<1>10. ASSUME NEW q \in Req, Respond(q) PROVE AgesTyped'
  BY <1>10 DEF Respond, SenderTaken, Forget, Types, AgesTyped, dispatchVars, tables
<1>11. ASSUME NEW q \in Req, EndRequestBody(q) PROVE AgesTyped'
  BY <1>11 DEF EndRequestBody, Forget, Types, AgesTyped, dispatchVars, tables
<1>12. ASSUME NEW q \in Req, FinishBody(q) PROVE AgesTyped'
  BY <1>12 DEF FinishBody, Forget, Types, AgesTyped, dispatchVars, tables
<1>13. ASSUME NEW q \in Req, Touch(q) PROVE AgesTyped'
  BY <1>13 DEF Touch, Forget, Types, AgesTyped, dispatchVars, tables
<1>14. ASSUME NEW q \in Req, Expire(q) PROVE AgesTyped'
  BY <1>14 DEF Expire, Types, AgesTyped, dispatchVars, tables
<1>15. CASE SweepReaders
  BY <1>15 DEF SweepReaders, Types, AgesTyped, dispatchVars, tables
<1>16. CASE SweepWriters
  BY <1>16 DEF SweepWriters, Types, AgesTyped, dispatchVars, tables
<1>17. CASE SweepHeads
  BY <1>17 DEF SweepHeads, HeadsSwept, Types, AgesTyped, dispatchVars, tables
<1>18. CASE UNCHANGED dispatchVars
  BY <1>18 DEF Types, AgesTyped, dispatchVars, tables
<1> QED
  BY <1>1, <1>2, <1>3, <1>4, <1>5, <1>6, <1>7, <1>8, <1>9, <1>10, <1>11, <1>12, <1>13,
     <1>14, <1>15, <1>16, <1>17, <1>18 DEF DispatchNext, Dispatch, JavaScript

\* A step ages no entry of a request still being set up.
LEMMA AgedStep ==
    ASSUME Types, AgedInv, [DispatchNext]_dispatchVars
    PROVE AgedInv'
<1>1. ASSUME NEW q \in Req, Reject(q) PROVE AgedInv'
  BY <1>1, Zenon
     DEF Reject, Over, Goto, Types, PCs, Answers, AgedInv, Expired, dispatchVars, tables
<1>2. ASSUME NEW q \in Req, InsertReader(q) PROVE AgedInv'
  BY <1>2, Zenon DEF InsertReader, Over, Goto, Room, Types, PCs, Answers, AgedInv, Expired,
       dispatchVars, tables
<1>3. ASSUME NEW q \in Req, InsertWriter(q) PROVE AgedInv'
  BY <1>3, Zenon DEF InsertWriter, Over, Goto, Room, Rollback, Types, PCs, Answers, AgedInv,
     Expired, dispatchVars, tables
<1>4. ASSUME NEW q \in Req, InsertHead(q) PROVE AgedInv'
  BY <1>4, Zenon DEF InsertHead, Over, Goto, Room, Rollback, Commit, Types, PCs, Answers, AgedInv,
     Expired, dispatchVars, tables
<1>5. ASSUME NEW q \in Req, Deliver(q) PROVE AgedInv'
  BY <1>5, Zenon DEF Deliver, Goto, Types, PCs, Answers, AgedInv, Expired, dispatchVars, tables
<1>6. ASSUME NEW q \in Req, Undeliverable(q) PROVE AgedInv'
  BY <1>6, Zenon DEF Undeliverable, Goto, FinishesBody, Types, PCs, Answers, AgedInv, Expired,
     dispatchVars, tables
<1>7. ASSUME NEW q \in Req, Resume(q) PROVE AgedInv'
  BY <1>7, Zenon DEF Resume, Over, Goto, HeadReleased, Forget, Types, PCs, Answers, AgedInv,
     Expired, dispatchVars, tables
<1>8. ASSUME NEW q \in Req, DropFuture(q) PROVE AgedInv'
  BY <1>8, Zenon DEF DropFuture, Goto, Types, PCs, Answers, AgedInv, Expired, dispatchVars, tables
<1>9. ASSUME NEW q \in Req, DropGuard(q) PROVE AgedInv'
  BY <1>9, Zenon DEF DropGuard, Over, Goto, HeadReleased, Forget, Types, PCs, Answers, AgedInv,
     Expired, dispatchVars, tables
<1>10. ASSUME NEW q \in Req, Respond(q) PROVE AgedInv'
  BY <1>10, Zenon DEF Respond, SenderTaken, Forget, Types, PCs, Answers, AgedInv, Expired,
      dispatchVars, tables
<1>11. ASSUME NEW q \in Req, EndRequestBody(q) PROVE AgedInv'
  BY <1>11, Zenon DEF EndRequestBody, Forget, Types, PCs, Answers, AgedInv, Expired, dispatchVars,
      tables
<1>12. ASSUME NEW q \in Req, FinishBody(q) PROVE AgedInv'
  BY <1>12, Zenon
     DEF FinishBody, Forget, Types, PCs, Answers, AgedInv, Expired, dispatchVars, tables
<1>13. ASSUME NEW q \in Req, Touch(q) PROVE AgedInv'
  BY <1>13, Zenon DEF Touch, Forget, Types, PCs, Answers, AgedInv, Expired, dispatchVars, tables
<1>14. ASSUME NEW q \in Req, Expire(q) PROVE AgedInv'
  <2> SUFFICES ASSUME NEW p \in Req, NEW reg \in {"reader", "writer", "head"}, <<reg,
      p>> \in old'
               PROVE pc[p] \in {"waiting", "dropping", "over"}
    BY <1>14, Zenon DEF Expire, AgedInv, Expired
  <2>1. CASE <<reg, p>> \in old
    BY <2>1, Zenon DEF AgedInv, Expired
  <2>2. CASE p = q
    BY <1>14, <2>2 DEF Expire
  <2>3. PICK r : old' = old \cup {<<r, q>>}
    BY <1>14, Zenon DEF Expire
  <2>4. <<reg, p>> \in old \/ p = q
    BY <2>3
  <2> QED
    BY <2>1, <2>2, <2>4
<1>15. CASE SweepReaders
  BY <1>15, Zenon DEF SweepReaders, Types, PCs, Answers, AgedInv, Expired, dispatchVars, tables
<1>16. CASE SweepWriters
  BY <1>16, Zenon DEF SweepWriters, Types, PCs, Answers, AgedInv, Expired, dispatchVars, tables
<1>17. CASE SweepHeads
  BY <1>17, Zenon DEF SweepHeads, HeadsSwept, Types, PCs, Answers, AgedInv, Expired, dispatchVars,
      tables
<1>18. CASE UNCHANGED dispatchVars
  BY <1>18, Zenon DEF Types, PCs, Answers, AgedInv, Expired, dispatchVars, tables
<1> QED
  BY <1>1, <1>2, <1>3, <1>4, <1>5, <1>6, <1>7, <1>8, <1>9, <1>10, <1>11, <1>12, <1>13,
     <1>14, <1>15, <1>16, <1>17, <1>18 DEF DispatchNext, Dispatch, JavaScript

\* A step keeps every registry within its capacity.
LEMMA BoundedStep ==
    ASSUME Types, Bounded, [DispatchNext]_dispatchVars
    PROVE Bounded'
<1> DEFINE Grows(S,
    T) == T \subseteq S \/ (Cardinality(S) < MaxTable /\ \E q \in Req : T = S \cup {q})
<1>1. /\ Grows(readers, readers')
      /\ Grows(writers, writers')
      /\ Grows(heads, heads')
  <2>1. ASSUME NEW q \in Req, Reject(q)
       PROVE Grows(readers, readers') /\ Grows(writers, writers') /\ Grows(heads, heads')
    BY <2>1 DEF Reject, Over, Goto, dispatchVars, tables
  <2>2. ASSUME NEW q \in Req, InsertReader(q)
       PROVE Grows(readers, readers') /\ Grows(writers, writers') /\ Grows(heads, heads')
    BY <2>2 DEF InsertReader, Over, Goto, Room, dispatchVars, tables
  <2>3. ASSUME NEW q \in Req, InsertWriter(q)
       PROVE Grows(readers, readers') /\ Grows(writers, writers') /\ Grows(heads, heads')
    BY <2>3 DEF InsertWriter, Over, Goto, Room, Rollback, dispatchVars, tables
  <2>4. ASSUME NEW q \in Req, InsertHead(q)
       PROVE Grows(readers, readers') /\ Grows(writers, writers') /\ Grows(heads, heads')
    BY <2>4 DEF InsertHead, Over, Goto, Room, Rollback, Commit, dispatchVars, tables
  <2>5. ASSUME NEW q \in Req, Deliver(q)
       PROVE Grows(readers, readers') /\ Grows(writers, writers') /\ Grows(heads, heads')
    BY <2>5 DEF Deliver, Goto, dispatchVars, tables
  <2>6. ASSUME NEW q \in Req, Undeliverable(q)
       PROVE Grows(readers, readers') /\ Grows(writers, writers') /\ Grows(heads, heads')
    BY <2>6 DEF Undeliverable, Goto, FinishesBody, dispatchVars, tables
  <2>7. ASSUME NEW q \in Req, Resume(q)
       PROVE Grows(readers, readers') /\ Grows(writers, writers') /\ Grows(heads, heads')
    BY <2>7 DEF Resume, Over, Goto, HeadReleased, Forget, dispatchVars, tables
  <2>8. ASSUME NEW q \in Req, DropFuture(q)
       PROVE Grows(readers, readers') /\ Grows(writers, writers') /\ Grows(heads, heads')
    BY <2>8 DEF DropFuture, Goto, dispatchVars, tables
  <2>9. ASSUME NEW q \in Req, DropGuard(q)
       PROVE Grows(readers, readers') /\ Grows(writers, writers') /\ Grows(heads, heads')
    BY <2>9 DEF DropGuard, Over, Goto, HeadReleased, Forget, dispatchVars, tables
  <2>10. ASSUME NEW q \in Req, Respond(q)
       PROVE Grows(readers, readers') /\ Grows(writers, writers') /\ Grows(heads, heads')
    BY <2>10 DEF Respond, SenderTaken, Forget, dispatchVars, tables
  <2>11. ASSUME NEW q \in Req, EndRequestBody(q)
       PROVE Grows(readers, readers') /\ Grows(writers, writers') /\ Grows(heads, heads')
    BY <2>11 DEF EndRequestBody, Forget, dispatchVars, tables
  <2>12. ASSUME NEW q \in Req, FinishBody(q)
       PROVE Grows(readers, readers') /\ Grows(writers, writers') /\ Grows(heads, heads')
    BY <2>12 DEF FinishBody, Forget, dispatchVars, tables
  <2>13. ASSUME NEW q \in Req, Touch(q)
       PROVE Grows(readers, readers') /\ Grows(writers, writers') /\ Grows(heads, heads')
    BY <2>13 DEF Touch, Forget, dispatchVars, tables
  <2>14. ASSUME NEW q \in Req, Expire(q)
       PROVE Grows(readers, readers') /\ Grows(writers, writers') /\ Grows(heads, heads')
    BY <2>14 DEF Expire, dispatchVars, tables
  <2>15. CASE SweepReaders
    BY <2>15 DEF SweepReaders, dispatchVars, tables
  <2>16. CASE SweepWriters
    BY <2>16 DEF SweepWriters, dispatchVars, tables
  <2>17. CASE SweepHeads
    BY <2>17 DEF SweepHeads, HeadsSwept, dispatchVars, tables
  <2>18. CASE UNCHANGED dispatchVars
    BY <2>18 DEF dispatchVars, tables
  <2> QED
    BY Zenon, <2>1, <2>2, <2>3, <2>4, <2>5, <2>6, <2>7, <2>8, <2>9, <2>10, <2>11, <2>12, <2>13,
       <2>14, <2>15, <2>16, <2>17, <2>18 DEF DispatchNext, Dispatch, JavaScript
<1>2. ASSUME NEW S \in SUBSET Req, NEW R, Grows(S, R), Cardinality(S) <= MaxTable
      PROVE Cardinality(R) <= MaxTable
  BY <1>2, InsertBounded, RemoveBounded
<1> QED
  BY <1>1, <1>2 DEF Types, Bounded

\* A step keeps entries and dispatch together.
LEMMA PlaceStep ==
    ASSUME Types, AgedInv, PlaceInv, HeadInv, [DispatchNext]_dispatchVars
    PROVE PlaceInv'
<1>1. ASSUME NEW q \in Req, Reject(q) PROVE PlaceInv'
  BY <1>1 DEF Reject, Over, Goto, Types, PCs, Answers, AgedInv, PlaceInv, HeadInv,
      dispatchVars, tables
<1>2. ASSUME NEW q \in Req, InsertReader(q) PROVE PlaceInv'
  BY <1>2 DEF InsertReader, Over, Goto, Room, Types, PCs, Answers, AgedInv, PlaceInv,
     HeadInv, dispatchVars, tables
<1>3. ASSUME NEW q \in Req, InsertWriter(q) PROVE PlaceInv'
  BY <1>3 DEF InsertWriter, Over, Goto, Room, Rollback, Types, PCs, Answers, AgedInv,
     PlaceInv, HeadInv, dispatchVars, tables
<1>4. ASSUME NEW q \in Req, InsertHead(q) PROVE PlaceInv'
  BY <1>4 DEF InsertHead, Over, Goto, Room, Rollback, Commit, Types, PCs, Answers, AgedInv,
     PlaceInv, HeadInv, dispatchVars, tables
<1>5. ASSUME NEW q \in Req, Deliver(q) PROVE PlaceInv'
  BY <1>5 DEF Deliver, Goto, Types, PCs, Answers, AgedInv, PlaceInv, HeadInv, dispatchVars,
      tables
<1>6. ASSUME NEW q \in Req, Undeliverable(q) PROVE PlaceInv'
  BY <1>6 DEF Undeliverable, Goto, FinishesBody, Types, PCs, Answers, AgedInv, PlaceInv,
     HeadInv, dispatchVars, tables
<1>7. ASSUME NEW q \in Req, Resume(q) PROVE PlaceInv'
  BY <1>7 DEF Resume, Over, Goto, HeadReleased, Forget, Types, PCs, Answers, AgedInv,
     PlaceInv, HeadInv, dispatchVars, tables
<1>8. ASSUME NEW q \in Req, DropFuture(q) PROVE PlaceInv'
  BY <1>8 DEF DropFuture, Goto, Types, PCs, Answers, AgedInv, PlaceInv, HeadInv,
      dispatchVars, tables
<1>9. ASSUME NEW q \in Req, DropGuard(q) PROVE PlaceInv'
  BY <1>9 DEF DropGuard, Over, Goto, HeadReleased, Forget, Types, PCs, Answers, AgedInv,
     PlaceInv, HeadInv, dispatchVars, tables
<1>10. ASSUME NEW q \in Req, Respond(q) PROVE PlaceInv'
  BY <1>10 DEF Respond, SenderTaken, Forget, Types, PCs, Answers, AgedInv, PlaceInv,
     HeadInv, dispatchVars, tables
<1>11. ASSUME NEW q \in Req, EndRequestBody(q) PROVE PlaceInv'
  BY <1>11 DEF EndRequestBody, Forget, Types, PCs, Answers, AgedInv, PlaceInv, HeadInv,
     dispatchVars, tables
<1>12. ASSUME NEW q \in Req, FinishBody(q) PROVE PlaceInv'
  BY <1>12 DEF FinishBody, Forget, Types, PCs, Answers, AgedInv, PlaceInv, HeadInv,
      dispatchVars, tables
<1>13. ASSUME NEW q \in Req, Touch(q) PROVE PlaceInv'
  BY <1>13 DEF Touch, Forget, Types, PCs, Answers, AgedInv, PlaceInv, HeadInv, dispatchVars,
      tables
<1>14. ASSUME NEW q \in Req, Expire(q) PROVE PlaceInv'
  BY <1>14 DEF Expire, Types, PCs, Answers, AgedInv, PlaceInv, HeadInv, dispatchVars, tables
<1>15. CASE SweepReaders
  BY <1>15 DEF SweepReaders, Types, PCs, Answers, AgedInv, PlaceInv, HeadInv, dispatchVars,
      tables
<1>16. CASE SweepWriters
  BY <1>16 DEF SweepWriters, Types, PCs, Answers, AgedInv, PlaceInv, HeadInv, dispatchVars,
      tables
<1>17. CASE SweepHeads
  BY <1>17 DEF SweepHeads, HeadsSwept, Types, PCs, Answers, AgedInv, PlaceInv, HeadInv,
     dispatchVars, tables
<1>18. CASE UNCHANGED dispatchVars
  BY <1>18 DEF Types, PCs, Answers, AgedInv, PlaceInv, HeadInv, dispatchVars, tables
<1> QED
  BY <1>1, <1>2, <1>3, <1>4, <1>5, <1>6, <1>7, <1>8, <1>9, <1>10, <1>11, <1>12, <1>13,
     <1>14, <1>15, <1>16, <1>17, <1>18 DEF DispatchNext, Dispatch, JavaScript

\* A step keeps sender, channel and answers together.
LEMMA HeadStep ==
    ASSUME Types, AgedInv, PlaceInv, HeadInv, [DispatchNext]_dispatchVars
    PROVE HeadInv'
<1>1. ASSUME NEW q \in Req, Reject(q) PROVE HeadInv'
  BY <1>1 DEF Reject, Over, Goto, Types, PCs, Answers, AgedInv, PlaceInv, HeadInv,
      dispatchVars, tables
<1>2. ASSUME NEW q \in Req, InsertReader(q) PROVE HeadInv'
  BY <1>2 DEF InsertReader, Over, Goto, Room, Types, PCs, Answers, AgedInv, PlaceInv,
     HeadInv, dispatchVars, tables
<1>3. ASSUME NEW q \in Req, InsertWriter(q) PROVE HeadInv'
  BY <1>3 DEF InsertWriter, Over, Goto, Room, Rollback, Types, PCs, Answers, AgedInv,
     PlaceInv, HeadInv, dispatchVars, tables
<1>4. ASSUME NEW q \in Req, InsertHead(q) PROVE HeadInv'
  BY <1>4 DEF InsertHead, Over, Goto, Room, Rollback, Commit, Types, PCs, Answers, AgedInv,
     PlaceInv, HeadInv, dispatchVars, tables
<1>5. ASSUME NEW q \in Req, Deliver(q) PROVE HeadInv'
  BY <1>5 DEF Deliver, Goto, Types, PCs, Answers, AgedInv, PlaceInv, HeadInv, dispatchVars,
      tables
<1>6. ASSUME NEW q \in Req, Undeliverable(q) PROVE HeadInv'
  BY <1>6 DEF Undeliverable, Goto, FinishesBody, Types, PCs, Answers, AgedInv, PlaceInv,
     HeadInv, dispatchVars, tables
<1>7. ASSUME NEW q \in Req, Resume(q) PROVE HeadInv'
  BY <1>7 DEF Resume, Over, Goto, HeadReleased, Forget, Types, PCs, Answers, AgedInv,
     PlaceInv, HeadInv, dispatchVars, tables
<1>8. ASSUME NEW q \in Req, DropFuture(q) PROVE HeadInv'
  BY <1>8 DEF DropFuture, Goto, Types, PCs, Answers, AgedInv, PlaceInv, HeadInv,
      dispatchVars, tables
<1>9. ASSUME NEW q \in Req, DropGuard(q) PROVE HeadInv'
  BY <1>9 DEF DropGuard, Over, Goto, HeadReleased, Forget, Types, PCs, Answers, AgedInv,
     PlaceInv, HeadInv, dispatchVars, tables
<1>10. ASSUME NEW q \in Req, Respond(q) PROVE HeadInv'
  BY <1>10 DEF Respond, SenderTaken, Forget, Types, PCs, Answers, AgedInv, PlaceInv,
     HeadInv, dispatchVars, tables
<1>11. ASSUME NEW q \in Req, EndRequestBody(q) PROVE HeadInv'
  BY <1>11 DEF EndRequestBody, Forget, Types, PCs, Answers, AgedInv, PlaceInv, HeadInv,
     dispatchVars, tables
<1>12. ASSUME NEW q \in Req, FinishBody(q) PROVE HeadInv'
  BY <1>12 DEF FinishBody, Forget, Types, PCs, Answers, AgedInv, PlaceInv, HeadInv,
      dispatchVars, tables
<1>13. ASSUME NEW q \in Req, Touch(q) PROVE HeadInv'
  BY <1>13 DEF Touch, Forget, Types, PCs, Answers, AgedInv, PlaceInv, HeadInv, dispatchVars,
      tables
<1>14. ASSUME NEW q \in Req, Expire(q) PROVE HeadInv'
  BY <1>14 DEF Expire, Types, PCs, Answers, AgedInv, PlaceInv, HeadInv, dispatchVars, tables
<1>15. CASE SweepReaders
  BY <1>15 DEF SweepReaders, Types, PCs, Answers, AgedInv, PlaceInv, HeadInv, dispatchVars,
      tables
<1>16. CASE SweepWriters
  BY <1>16 DEF SweepWriters, Types, PCs, Answers, AgedInv, PlaceInv, HeadInv, dispatchVars,
      tables
<1>17. CASE SweepHeads
  BY <1>17 DEF SweepHeads, HeadsSwept, Types, PCs, Answers, AgedInv, PlaceInv, HeadInv,
     dispatchVars, tables
<1>18. CASE UNCHANGED dispatchVars
  BY <1>18 DEF Types, PCs, Answers, AgedInv, PlaceInv, HeadInv, dispatchVars, tables
<1> QED
  BY <1>1, <1>2, <1>3, <1>4, <1>5, <1>6, <1>7, <1>8, <1>9, <1>10, <1>11, <1>12, <1>13,
     <1>14, <1>15, <1>16, <1>17, <1>18 DEF DispatchNext, Dispatch, JavaScript

\* The invariant holds in every reachable state.
THEOREM DispatchInvariance == DispatchSpec => []DispatchInv
<1>1. DispatchInit => DispatchInv
  <2> SUFFICES ASSUME DispatchInit PROVE DispatchInv
    OBVIOUS
  <2>1. Types /\ AgesTyped /\ AgedInv /\ PlaceInv /\ HeadInv
    BY DEF DispatchInit, Types, AgesTyped, AgedInv, Expired, PCs, Answers, PlaceInv, HeadInv
  <2>2. Bounded
    BY FS_EmptySet, DispatchAssumption DEF DispatchInit, Bounded
  <2> QED
    BY <2>1, <2>2 DEF DispatchInv
<1>2. DispatchInv /\ [DispatchNext]_dispatchVars => DispatchInv'
  BY TypesStep, AgesStep, AgedStep, BoundedStep, PlaceStep, HeadStep DEF DispatchInv
<1> QED
  BY <1>1, <1>2, PTL DEF DispatchSpec

-----------------------------------------------------------------------------
(* The theorems *)

\* Types, and no registry over max_handles.
THEOREM DispatchTypeCorrect == DispatchSpec => []DispatchTypeOK
<1>1. DispatchInv => DispatchTypeOK
  BY DEF DispatchInv, Types, AgesTyped, Bounded, DispatchTypeOK
<1> QED
  BY DispatchInvariance, <1>1, PTL

\* respond() is accepted at most once, and the response is what it gave.
THEOREM AnswerIsJavaScripts == DispatchSpec => []AnswerMatches
<1>1. DispatchInv => AnswerMatches
  BY DEF DispatchInv, HeadInv, AnswerMatches, Types
<1> QED
  BY DispatchInvariance, <1>1, PTL

\* ReqHeadGuard, InsertGuard and deliver_request leave no entry to nobody.
THEOREM EntriesReleased == DispatchSpec => []NothingLeftBehind
<1>1. DispatchInv => NothingLeftBehind
  BY DEF DispatchInv, PlaceInv, NothingLeftBehind, Types, PCs
<1> QED
  BY DispatchInvariance, <1>1, PTL

\* The call of on_request hands over three registered handles.
LEMMA DeliveryStep ==
    ASSUME Types, PlaceInv, [DispatchNext]_dispatchVars
    PROVE \A q \in Req : js[q] = "unaware" /\ js'[q] = "handling" => q \in readers' \cap writers' \cap heads'
<1> DEFINE Goal == \A q \in Req : js[q] = "unaware" /\ js'[q] = "handling" =>
                       q \in readers' \cap writers' \cap heads'
<1>1. ASSUME NEW q \in Req, Reject(q) PROVE Goal
  BY <1>1 DEF Reject, Over, Goto, Types, PlaceInv, dispatchVars, tables
<1>2. ASSUME NEW q \in Req, InsertReader(q) PROVE Goal
  BY <1>2 DEF InsertReader, Over, Goto, Room, Types, PlaceInv, dispatchVars, tables
<1>3. ASSUME NEW q \in Req, InsertWriter(q) PROVE Goal
  BY <1>3 DEF InsertWriter, Over, Goto, Room, Rollback, Types, PlaceInv, dispatchVars, tables
<1>4. ASSUME NEW q \in Req, InsertHead(q) PROVE Goal
  BY <1>4 DEF InsertHead, Over, Goto, Room, Rollback, Commit, Types, PlaceInv, dispatchVars,
      tables
<1>5. ASSUME NEW q \in Req, Deliver(q) PROVE Goal
  BY <1>5 DEF Deliver, Goto, Types, PlaceInv, dispatchVars, tables
<1>6. ASSUME NEW q \in Req, Undeliverable(q) PROVE Goal
  BY <1>6 DEF Undeliverable, Goto, FinishesBody, Types, PlaceInv, dispatchVars, tables
<1>7. ASSUME NEW q \in Req, Resume(q) PROVE Goal
  BY <1>7 DEF Resume, Over, Goto, HeadReleased, Forget, Types, PlaceInv, dispatchVars, tables
<1>8. ASSUME NEW q \in Req, DropFuture(q) PROVE Goal
  BY <1>8 DEF DropFuture, Goto, Types, PlaceInv, dispatchVars, tables
<1>9. ASSUME NEW q \in Req, DropGuard(q) PROVE Goal
  BY <1>9 DEF DropGuard, Over, Goto, HeadReleased, Forget, Types, PlaceInv, dispatchVars, tables
<1>10. ASSUME NEW q \in Req, Respond(q) PROVE Goal
  BY <1>10 DEF Respond, SenderTaken, Forget, Types, PlaceInv, dispatchVars, tables
<1>11. ASSUME NEW q \in Req, EndRequestBody(q) PROVE Goal
  BY <1>11 DEF EndRequestBody, Forget, Types, PlaceInv, dispatchVars, tables
<1>12. ASSUME NEW q \in Req, FinishBody(q) PROVE Goal
  BY <1>12 DEF FinishBody, Forget, Types, PlaceInv, dispatchVars, tables
<1>13. ASSUME NEW q \in Req, Touch(q) PROVE Goal
  BY <1>13 DEF Touch, Forget, Types, PlaceInv, dispatchVars, tables
<1>14. ASSUME NEW q \in Req, Expire(q) PROVE Goal
  BY <1>14 DEF Expire, Types, PlaceInv, dispatchVars, tables
<1>15. CASE SweepReaders
  BY <1>15 DEF SweepReaders, Types, PlaceInv, dispatchVars, tables
<1>16. CASE SweepWriters
  BY <1>16 DEF SweepWriters, Types, PlaceInv, dispatchVars, tables
<1>17. CASE SweepHeads
  BY <1>17 DEF SweepHeads, HeadsSwept, Types, PlaceInv, dispatchVars, tables
<1>18. CASE UNCHANGED dispatchVars
  BY <1>18 DEF Types, PlaceInv, dispatchVars, tables
<1> QED
  BY Zenon, <1>1, <1>2, <1>3, <1>4, <1>5, <1>6, <1>7, <1>8, <1>9, <1>10, <1>11, <1>12, <1>13,
     <1>14, <1>15, <1>16, <1>17, <1>18 DEF DispatchNext, Dispatch, JavaScript

\* JavaScript never learns of a handle that is not there.
THEOREM DeliveredWhole == DispatchSpec => DeliveredHandlesValid
<1>1. DispatchInv /\ [DispatchNext]_dispatchVars => [\A q \in Req : js[q] = "unaware" /\ js'[q] = "handling" =>
                                  q \in readers' \cap writers' \cap heads']_dispatchVars
  BY DeliveryStep DEF DispatchInv
<1> QED
  BY DispatchInvariance, <1>1, PTL DEF DispatchSpec, DeliveredHandlesValid

-----------------------------------------------------------------------------
(* The handle registries.                                                  *)

\* What an occupied slot holds.
EntryInv ==
    \A i \in occupied :
        /\ content[i] \in Issued
        /\ handle[content[i]].slot = i
        /\ handle[content[i]].version = version[i]
        /\ epochOf[content[i]] = epoch
        /\ status[content[i]] = "live"

\* Where a live resource is.
LiveInv ==
    \A r \in Issued : status[r] = "live" =>
        handle[r].slot \in occupied /\ content[handle[r].slot] = r

\* A slot has passed the version of every entry that left it.
HandleInv ==
    \A r \in Issued : epochOf[r] = epoch /\ status[r] # "live" =>
        handle[r].version < version[handle[r].slot]

\* Two versions per insertion at most, so none wraps around.
VersionInv ==
    \A i \in Slots :
        /\ version[i] <= 2 * inserted
        /\ i \in occupied => version[i] < 2 * inserted
        /\ i > size => version[i] = 0

\* Only resources that were issued have a status.
StatusInv == \A r \in Resources : status[r] = "none" <=> r \notin Issued

\* No resource is of an epoch to come.
EpochInv == \A r \in Issued : epochOf[r] <= epoch

\* The inductive invariant of a handle registry.
RegistryInv ==
    /\ RegistryTypeOK /\ EntryInv /\ LiveInv /\ HandleInv /\ VersionInv
    /\ StatusInv /\ EpochInv

-----------------------------------------------------------------------------
(* Facts about the operators *)

\* A version below the bound does not wrap.
LEMMA VersionAdvances ==
    ASSUME NEW v \in Nat, v < 2 * MaxInserts
    PROVE NextVersion(v) = v + 1 /\ v + 1 \in 0..(VersionModulus - 1)
BY RegistryAssumption DEF NextVersion

\* insert takes a slot within the capacity that holds nothing.
LEMMA VacantIsFree ==
    ASSUME RegistryTypeOK, RegistryRoom, NEW i \in Vacant
    PROVE i \in Slots /\ i \notin occupied /\ i <= size + 1
<1>1. CASE (1..size) \ occupied # {}
  BY <1>1, RegistryAssumption DEF Vacant, RegistryTypeOK, Slots
<1>2. CASE (1..size) \ occupied = {}
  <2>1. occupied = 1..size /\ i = size + 1
    BY <1>2, Zenon DEF Vacant, RegistryTypeOK
  <2>2. Cardinality(1..size) = size
    BY FS_Interval DEF RegistryTypeOK
  <2>3. size < MaxHandles
    BY <2>1, <2>2 DEF RegistryRoom
  <2> QED
    BY <2>1, <2>3, RegistryAssumption DEF RegistryTypeOK, Slots
<1> QED
  BY <1>1, <1>2

\* A handle that is found belongs to a live entry.
LEMMA FoundIsLive ==
    ASSUME RegistryInv, NEW r \in Issued, Find(handle[r]) # Nothing
    PROVE /\ handle[r].slot \in occupied
          /\ Find(handle[r]) = content[handle[r].slot]
          /\ content[handle[r].slot] \in Issued
          /\ content[handle[r].slot] \in Resources
<1>1. handle[r].slot \in occupied /\ Find(handle[r]) = content[handle[r].slot]
  BY DEF Find
<1>2. content[handle[r].slot] \in Issued /\ inserted \in 0..MaxInserts
  BY <1>1, Zenon DEF RegistryInv, EntryInv, RegistryTypeOK
<1> QED
  BY <1>1, <1>2, RegistryAssumption DEF Issued, Resources

-----------------------------------------------------------------------------
(* One lemma per kind of step *)

\* insert_checked keeps the invariant: the new key is later than every key
\* its slot had.
LEMMA InsertKeeps == ASSUME RegistryInv, Insert PROVE RegistryInv'
<1> DEFINE r == inserted + 1
<1>1. PICK i \in Vacant :
        /\ size' = IF i > size THEN i ELSE size
        /\ version' = [version EXCEPT ![i] = InsertVersion(i)]
        /\ occupied' = occupied \cup {i}
        /\ content' = [content EXCEPT ![i] = r]
        /\ inserted' = r
        /\ handle' = [handle EXCEPT ![r] = [slot |-> i, version |-> InsertVersion(i)]]
        /\ epochOf' = [epochOf EXCEPT ![r] = epoch]
        /\ status' = [status EXCEPT ![r] = "live"]
        /\ age' = [age EXCEPT ![r] = 0]
        /\ unused' = [unused EXCEPT ![r] = 0]
  BY Zenon DEF Insert
<1>2. inserted < MaxInserts /\ RegistryRoom /\ epoch' = epoch
  BY DEF Insert
<1>3. i \in Slots /\ i \notin occupied /\ i <= size + 1
  BY <1>2, VacantIsFree DEF RegistryInv
<1>4. /\ version[i] \in Nat /\ version[i] <= 2 * inserted /\ inserted \in Nat
      /\ 2 * inserted < 2 * MaxInserts
  BY <1>2, <1>3, RegistryAssumption DEF RegistryInv, RegistryTypeOK, VersionInv
<1>5. InsertVersion(i) = version[i] + 1 /\ version[i] + 1 \in 0..(VersionModulus - 1)
  <2>1. NextVersion(version[i]) = version[i] + 1 /\ version[i] + 1 \in 0..(VersionModulus - 1)
    BY <1>4, VersionAdvances, RegistryAssumption
  <2>2. i > size => version[i] = 0
    BY <1>3 DEF RegistryInv, VersionInv
  <2> QED
    BY <2>1, <2>2 DEF InsertVersion
<1>6. r \in Resources /\ r \notin Issued /\ Issued' = Issued \cup {r} /\ Issued \subseteq Resources
  BY <1>1, <1>2, <1>4, RegistryAssumption DEF Resources, Issued, RegistryInv, RegistryTypeOK
<1> HIDE DEF r
<1>7. RegistryTypeOK'
  <2>1. [slot |-> i, version |-> version[i] + 1] \in Handles
    BY <1>3, <1>5 DEF Handles
  <2>2. size' \in 0..MaxHandles /\ occupied' \subseteq 1..size'
    BY <1>1, <1>3, RegistryAssumption DEF RegistryInv, RegistryTypeOK, Slots
  <2>3. handle' \in [Resources -> Handles]
    BY <1>1, <1>5, <1>6, <2>1 DEF RegistryInv, RegistryTypeOK
  <2>4. 0 \in Ages
    BY RegistryAssumption DEF Ages
  <2> QED
    BY <1>1, <1>2, <1>3, <1>4, <1>5, <1>6, <2>2, <2>3, <2>4, RegistryAssumption
       DEF RegistryInv, RegistryTypeOK, Resources
<1>8. handle'[r].slot = i /\ handle'[r].version = version[i] + 1
  BY <1>1, <1>5, <1>6 DEF RegistryInv, RegistryTypeOK
<1>9. \A q \in Issued : handle'[q] = handle[q] /\ status'[q] = status[q] /\ epochOf'[q] = epochOf[q]
  BY <1>1, <1>6 DEF RegistryInv, RegistryTypeOK
<1>10. /\ version'[i] = version[i] + 1 /\ content'[i] = r
       /\ \A j \in Slots : j # i => version'[j] = version[j] /\ content'[j] = content[j]
  BY <1>1, <1>3, <1>5 DEF RegistryInv, RegistryTypeOK
<1>11. status'[r] = "live" /\ epochOf'[r] = epoch
  BY <1>1, <1>6 DEF RegistryInv, RegistryTypeOK
<1>12. occupied \subseteq Slots
  BY RegistryAssumption DEF RegistryInv, RegistryTypeOK, Slots
<1>13. EntryInv'
  <2> SUFFICES ASSUME NEW j \in occupied'
               PROVE /\ content'[j] \in Issued' /\ handle'[content'[j]].slot = j
                     /\ handle'[content'[j]].version = version'[j]
                     /\ epochOf'[content'[j]] = epoch' /\ status'[content'[j]] = "live"
    BY DEF EntryInv
  <2>1. CASE j = i
    BY <2>1, <1>2, <1>6, <1>8, <1>10, <1>11
  <2>2. CASE j \in occupied /\ j # i
    BY <2>2, <1>2, <1>6, <1>9, <1>10, <1>12 DEF RegistryInv, EntryInv
  <2> QED
    BY <2>1, <2>2, <1>1
<1>14. LiveInv'
  <2> SUFFICES ASSUME NEW q \in Issued', status'[q] = "live"
               PROVE handle'[q].slot \in occupied' /\ content'[handle'[q].slot] = q
    BY DEF LiveInv
  <2>1. CASE q = r
    BY <2>1, <1>1, <1>8, <1>10
  <2>2. CASE q \in Issued
    BY <2>2, <1>1, <1>3, <1>9, <1>10, <1>12 DEF RegistryInv, LiveInv
  <2> QED
    BY <2>1, <2>2, <1>6
<1>15. HandleInv'
  <2> SUFFICES ASSUME NEW q \in Issued', epochOf'[q] = epoch', status'[q] # "live"
               PROVE handle'[q].version < version'[handle'[q].slot]
    BY DEF HandleInv
  <2>1. q \in Issued
    BY <1>6, <1>11
  <2>2. handle[q].version < version[handle[q].slot] /\ handle[q] \in Handles
    BY <2>1, <1>2, <1>6, <1>9 DEF RegistryInv, HandleInv, RegistryTypeOK
  <2>3. handle[q].version \in Int /\ handle[q].slot \in Slots
    BY <2>2 DEF Handles
  <2> QED
    BY <2>1, <2>2, <2>3, <1>4, <1>9, <1>10
<1>16. VersionInv'
  <2> SUFFICES ASSUME NEW j \in Slots
               PROVE /\ version'[j] <= 2 * inserted' /\ (j \in occupied' => version'[j] < 2 * inserted')
                     /\ j > size' => version'[j] = 0
    BY DEF VersionInv
  <2>1. inserted' = inserted + 1
    BY <1>1 DEF r
  <2>2. version[j] \in Int /\ version[j] <= 2 * inserted
    BY DEF RegistryInv, RegistryTypeOK, VersionInv
  <2>3. j > size' => version'[j] = 0
    BY <1>1, <1>3, <1>10 DEF RegistryInv, RegistryTypeOK, VersionInv, Slots
  <2> QED
    BY <2>1, <2>2, <2>3, <1>4, <1>10
<1>17. StatusInv'
  BY <1>1, <1>6, <1>11 DEF RegistryInv, StatusInv, RegistryTypeOK
<1>18. EpochInv'
  BY <1>2, <1>6, <1>9, <1>11 DEF RegistryInv, EpochInv, RegistryTypeOK
<1> QED
  BY <1>7, <1>13, <1>14, <1>15, <1>16, <1>17, <1>18 DEF RegistryInv

\* Vacating slots keeps the invariant: their versions move on.
LEMMA VacateKeeps ==
    ASSUME RegistryInv, NEW S \in SUBSET occupied,
           version' = VersionsAfterRemoving(S),
           occupied' = occupied \ S,
           status' \in [Resources -> {"none", "live", "removed", "swept"}],
           \A q \in Resources :
              IF \E i \in S : content[i] = q
                 THEN status'[q] \in {"removed", "swept"} ELSE status'[q] = status[q],
           UNCHANGED <<size, content, issue, epoch, clock>>
    PROVE RegistryInv'
<1>1. UNCHANGED <<size, content, inserted, handle, epochOf, epoch, age,
    unused>> /\ Issued' = Issued
  BY DEF issue, clock, Issued
<1>2. S \subseteq Slots /\ occupied \subseteq Slots
  BY RegistryAssumption DEF RegistryInv, RegistryTypeOK, Slots
<1>3. \A i \in S : NextVersion(version[i]) = version[i] + 1 /\ version[i] + 1 \in 0..(VersionModulus - 1)
  <2> SUFFICES ASSUME NEW i \in S
               PROVE NextVersion(version[i]) = version[i] + 1 /\ version[i] + 1 \in 0..(VersionModulus - 1)
    OBVIOUS
  <2>1. version[i] \in Nat /\ version[i] < 2 * inserted /\ inserted \in 0..MaxInserts
    BY <1>2 DEF RegistryInv, RegistryTypeOK, VersionInv
  <2>2. version[i] < 2 * MaxInserts
    BY <2>1, RegistryAssumption
  <2> QED
    BY <2>1, <2>2, VersionAdvances
<1>4. \A i \in Slots : version'[i] = IF i \in S THEN version[i] + 1 ELSE version[i]
  BY <1>3 DEF VersionsAfterRemoving
<1>5. RegistryTypeOK'
  <2> DEFINE W == 0..(VersionModulus - 1)
  <2>1. version \in [Slots -> W] /\ \A i \in S : NextVersion(version[i]) \in W
    BY <1>3 DEF RegistryInv, RegistryTypeOK
  <2> HIDE DEF W
  <2>2. version' \in [Slots -> W]
    BY <2>1 DEF VersionsAfterRemoving
  <2> QED
    BY <2>2, <1>1 DEF RegistryInv, RegistryTypeOK, W
<1>6. \A i \in occupied \ S : status'[content[i]] = "live"
  <2> SUFFICES ASSUME NEW i \in occupied \ S PROVE status'[content[i]] = "live"
    OBVIOUS
  <2>1. \A j \in S : content[j] # content[i]
    BY DEF RegistryInv, EntryInv
  <2>2. content[i] \in Issued /\ status[content[i]] = "live" /\ inserted \in 0..MaxInserts
    BY DEF RegistryInv, EntryInv, RegistryTypeOK
  <2>3. content[i] \in Resources
    BY <2>2, RegistryAssumption DEF Issued, Resources
  <2> QED
    BY <2>1, <2>2, <2>3
<1>7. EntryInv'
  BY <1>1, <1>2, <1>4, <1>6 DEF RegistryInv, EntryInv
<1>8. Issued \subseteq Resources
  BY RegistryAssumption DEF RegistryInv, RegistryTypeOK, Issued, Resources
<1>9. LiveInv'
  <2> SUFFICES ASSUME NEW q \in Issued, status'[q] = "live"
               PROVE handle[q].slot \in occupied \ S /\ content[handle[q].slot] = q
    BY <1>1 DEF LiveInv
  <2>1. ~(\E i \in S : content[i] = q) /\ status[q] = "live"
    BY <1>8
  <2> QED
    BY <2>1 DEF RegistryInv, LiveInv
<1>10. HandleInv'
  <2> SUFFICES ASSUME NEW q \in Issued, epochOf[q] = epoch, status'[q] # "live"
               PROVE handle[q].version < version'[handle[q].slot]
    BY <1>1 DEF HandleInv
  <2>1. handle[q] \in Handles /\ handle[q].slot \in Slots /\ handle[q].version \in Int
    BY <1>8 DEF RegistryInv, RegistryTypeOK, Handles
  <2>2. version[handle[q].slot] \in Int
    BY <2>1 DEF RegistryInv, RegistryTypeOK
  <2>3. CASE \E i \in S : content[i] = q
    <3>1. PICK i \in S : content[i] = q
      BY <2>3
    <3>2. handle[q].slot = i /\ handle[q].version = version[i]
      BY <3>1 DEF RegistryInv, EntryInv
    <3> QED
      BY <3>2, <1>4, <2>1, <2>2
  <2>4. CASE ~(\E i \in S : content[i] = q)
    <3>1. handle[q].version < version[handle[q].slot]
      BY <2>4, <1>8 DEF RegistryInv, HandleInv
    <3> QED
      BY <3>1, <1>4, <2>1, <2>2
  <2> QED
    BY <2>3, <2>4
<1>11. VersionInv'
  <2> SUFFICES ASSUME NEW j \in Slots
               PROVE /\ version'[j] <= 2 * inserted /\ (j \in occupied \ S => version'[j] < 2 * inserted)
                     /\ j > size => version'[j] = 0
    BY <1>1 DEF VersionInv
  <2>1. version[j] \in Int /\ inserted \in Int /\ version[j] <= 2 * inserted /\ (j \in occupied => version[j] < 2 * inserted)
    BY DEF RegistryInv, RegistryTypeOK, VersionInv
  <2>2. j > size => version[j] = 0 /\ j \notin S
    BY DEF RegistryInv, RegistryTypeOK, VersionInv, Slots
  <2> QED
    BY <2>1, <2>2, <1>4
<1>12. StatusInv'
  <2> SUFFICES ASSUME NEW q \in Resources PROVE status'[q] = "none" <=> q \notin Issued
    BY <1>1 DEF StatusInv
  <2>1. CASE \E i \in S : content[i] = q
    BY <2>1 DEF RegistryInv, EntryInv
  <2>2. CASE ~(\E i \in S : content[i] = q)
    BY <2>2 DEF RegistryInv, StatusInv
  <2> QED
    BY <2>1, <2>2
<1>13. EpochInv'
  BY <1>1 DEF RegistryInv, EpochInv
<1> QED
  BY <1>5, <1>7, <1>9, <1>10, <1>11, <1>12, <1>13 DEF RegistryInv

\* Removal by handle keeps the invariant.
LEMMA RemoveKeeps == ASSUME RegistryInv, NEW r \in Resources, Remove(r) PROVE RegistryInv'
<1> DEFINE i == handle[r].slot
           q == Find(handle[r])
<1>1. r \in Issued /\ q # Nothing
  BY DEF Remove, Known
<1>2. i \in occupied /\ q = content[i] /\ content[i] \in Resources
  BY <1>1, FoundIsLive
<1>3. /\ version' = VersionsAfterRemoving({i})
      /\ occupied' = occupied \ {i}
      /\ status' = [status EXCEPT ![q] = "removed"]
      /\ UNCHANGED <<size, content, issue, epoch, clock>>
  BY DEF Remove
<1>4. status' \in [Resources -> {"none", "live", "removed", "swept"}]
  BY <1>2, <1>3 DEF RegistryInv, RegistryTypeOK
<1>5. \A p \in Resources : IF \E j \in {i} : content[j] = p
         THEN status'[p] \in {"removed", "swept"} ELSE status'[p] = status[p]
  BY <1>2, <1>3 DEF RegistryInv, RegistryTypeOK
<1> HIDE DEF i, q
<1> QED
  BY <1>2, <1>3, <1>4, <1>5, VacateKeeps

\* The sweep keeps the invariant.  After a compaction no handle of the old
\* map is of the current epoch.
LEMMA SweepKeeps == ASSUME RegistryInv, Sweep PROVE RegistryInv'
<1> DEFINE S == ExpiredSlots
           swept == {content[i] : i \in S}
<1>1. S \in SUBSET occupied
  BY DEF ExpiredSlots
<1>2. /\ status' = [r \in Resources |-> IF r \in swept THEN "swept" ELSE status[r]]
      /\ UNCHANGED <<content, issue, clock>>
  BY DEF Sweep
<1>3. status' \in [Resources -> {"none", "live", "removed", "swept"}]
  BY <1>2 DEF RegistryInv, RegistryTypeOK
<1>4. CASE ~Compacts(occupied \ S)
  <2>1. version' = VersionsAfterRemoving(S) /\ occupied' = occupied \ S /\ UNCHANGED <<size,
      epoch>>
    BY <1>4 DEF Sweep
  <2>2. \A q \in Resources : IF \E i \in S : content[i] = q
           THEN status'[q] \in {"removed", "swept"} ELSE status'[q] = status[q]
    BY <1>2
  <2> HIDE DEF S
  <2> QED
    BY <1>1, <1>2, <1>3, <2>1, <2>2, VacateKeeps
<1>5. CASE Compacts(occupied \ S)
  <2>1. occupied \ S = {}
    BY <1>5 DEF Compacts
  <2>2. size' = 0 /\ version' = [i \in Slots |-> 0] /\ occupied' = {} /\ epoch' = epoch + 1
    BY <1>5 DEF Sweep
  <2>3. UNCHANGED <<inserted, handle, epochOf, content, age, unused>> /\ Issued' = Issued
    BY <1>2 DEF issue, clock, Issued
  <2>4. Issued \subseteq Resources
    BY RegistryAssumption DEF RegistryInv, RegistryTypeOK, Issued, Resources
  <2>5. \A r \in Issued : status'[r] # "live"
    <3> SUFFICES ASSUME NEW r \in Issued, status'[r] = "live" PROVE FALSE
      OBVIOUS
    <3>1. status[r] = "live" /\ r \notin swept
      BY <1>2, <2>4
    <3> QED
      BY <3>1, <2>1 DEF RegistryInv, LiveInv
  <2>6. RegistryTypeOK'
    BY <1>3, <2>2, <2>3, RegistryAssumption DEF RegistryInv, RegistryTypeOK
  <2>7. EntryInv' /\ LiveInv' /\ VersionInv'
    BY <2>2, <2>3, <2>5 DEF EntryInv, LiveInv, VersionInv, RegistryInv, RegistryTypeOK
  <2>8. \A r \in Issued : epochOf[r] # epoch + 1 /\ epochOf[r] <= epoch + 1
    BY <2>4 DEF RegistryInv, EpochInv, RegistryTypeOK
  <2>9. HandleInv'
    BY <2>2, <2>3, <2>8 DEF HandleInv
  <2>10. StatusInv'
    BY <1>1, <1>2, <2>3 DEF RegistryInv, StatusInv, EntryInv
  <2>11. EpochInv'
    BY <2>2, <2>3, <2>8 DEF EpochInv
  <2> QED
    BY <2>6, <2>7, <2>9, <2>10, <2>11 DEF RegistryInv
<1> QED
  BY <1>4, <1>5

\* Lookups and the clock change no key.
LEMMA ClockKeeps ==
    ASSUME RegistryInv, UNCHANGED <<slots, issue, epoch, status>>,
           age' \in [Resources -> Ages], unused' \in [Resources -> Ages]
    PROVE RegistryInv'
<1>1. UNCHANGED <<size, version, occupied, content, inserted, handle, epochOf, epoch, status>>
      /\ Issued' = Issued
  BY DEF slots, issue, Issued
<1>2. RegistryTypeOK'
  BY <1>1 DEF RegistryInv, RegistryTypeOK
<1> QED
  BY <1>1, <1>2 DEF RegistryInv, EntryInv, LiveInv, HandleInv, VersionInv, StatusInv, EpochInv

\* The invariant holds in every reachable state.
THEOREM RegistryInvariance == RegistrySpec => []RegistryInv
<1>1. RegistryInit => RegistryInv
  <2> SUFFICES ASSUME RegistryInit PROVE RegistryInv
    OBVIOUS
  <2>1. Issued = {} /\ 1 \in Slots /\ 0 \in 0..(VersionModulus - 1) /\ 0 \in Ages
    BY RegistryAssumption DEF RegistryInit, Issued, Slots, Ages
  <2>2. [slot |-> 1, version |-> 0] \in Handles
    BY <2>1 DEF Handles
  <2>3. handle \in [Resources -> Handles]
    BY <2>2 DEF RegistryInit
  <2>4. /\ size \in 0..MaxHandles /\ occupied \subseteq 1..size
        /\ content \in [Slots -> 0..MaxInserts] /\ inserted \in 0..MaxInserts
    BY RegistryAssumption DEF RegistryInit, Nothing
  <2>5. /\ epoch \in Nat /\ epochOf \in [Resources -> Nat]
        /\ status \in [Resources -> {"none", "live", "removed", "swept"}]
        /\ age \in [Resources -> Ages] /\ unused \in [Resources -> Ages]
    BY <2>1 DEF RegistryInit
  <2>6. version \in [Slots -> 0..(VersionModulus - 1)]
    BY <2>1 DEF RegistryInit
  <2>7. RegistryTypeOK
    BY <2>3, <2>4, <2>5, <2>6 DEF RegistryTypeOK
  <2> QED
    BY <2>1, <2>7 DEF RegistryInit, RegistryInv, EntryInv, LiveInv, HandleInv, VersionInv,
        StatusInv, EpochInv
<1>2. RegistryInv /\ [RegistryNext]_registryVars => RegistryInv'
  <2> SUFFICES ASSUME RegistryInv, [RegistryNext]_registryVars PROVE RegistryInv'
    OBVIOUS
  <2>1. CASE Insert
    BY <2>1, InsertKeeps
  <2>2. ASSUME NEW r \in Resources, Use(r) PROVE RegistryInv'
    <3>1. Find(handle[r]) \in Resources
      BY <2>2, FoundIsLive DEF Use, Known
    <3>2. 0 \in Ages
      BY RegistryAssumption DEF Ages
    <3>3. age' \in [Resources -> Ages] /\ unused' \in [Resources -> Ages]
      BY <2>2, <3>1, <3>2 DEF Use, Touched, RegistryInv, RegistryTypeOK
    <3>4. UNCHANGED <<slots, issue, epoch, status>>
      BY <2>2 DEF Use
    <3> QED
      BY <3>3, <3>4, ClockKeeps
  <2>3. ASSUME NEW r \in Resources, Remove(r) PROVE RegistryInv'
    BY <2>3, RemoveKeeps
  <2>4. CASE Tick
    <3>1. \A t \in Ages : Older(t) \in Ages
      BY RegistryAssumption DEF Ages, Older
    <3>2. age' \in [Resources -> Ages] /\ unused' \in [Resources -> Ages]
      BY <2>4, <3>1 DEF Tick, RegistryInv, RegistryTypeOK
    <3>3. UNCHANGED <<slots, issue, epoch, status>>
      BY <2>4 DEF Tick
    <3> QED
      BY <3>2, <3>3, ClockKeeps
  <2>5. CASE Sweep
    BY <2>5, SweepKeeps
  <2>6. CASE UNCHANGED registryVars
    BY <2>6, ClockKeeps DEF registryVars, clock, RegistryInv, RegistryTypeOK
  <2> QED
    BY <2>1, <2>2, <2>3, <2>4, <2>5, <2>6 DEF RegistryNext
<1> QED
  BY <1>1, <1>2, PTL DEF RegistrySpec

-----------------------------------------------------------------------------
(* The theorems *)

\* Types hold; no version wraps and no registry exceeds max_handles.
THEOREM RegistryTypeCorrect == RegistrySpec => []RegistryTypeOK
<1>1. RegistryInv => RegistryTypeOK
  BY DEF RegistryInv
<1> QED
  BY RegistryInvariance, <1>1, PTL

\* No insertion, removal, sweep or compaction hides a live resource from its
\* holder.
THEOREM LiveIsReachable == RegistrySpec => []LiveReachable
<1>1. RegistryInv => LiveReachable
  BY DEF RegistryInv, LiveReachable, LiveInv, EntryInv, Find
<1> QED
  BY RegistryInvariance, <1>1, PTL

\* Between two compactions a stale handle is refused: slot and version are
\* never given out twice.
THEOREM KeysAreFresh == RegistrySpec => []OwnResourceOrNone
<1>1. RegistryInv => OwnResourceOrNone
  <2> SUFFICES ASSUME RegistryInv, NEW r \in Issued,
      epochOf[r] = epoch PROVE Find(handle[r]) \in {r, Nothing}
    BY DEF OwnResourceOrNone
  <2>1. CASE status[r] = "live"
    BY <2>1 DEF RegistryInv, LiveInv, Find
  <2>2. CASE status[r] # "live"
    <3>1. handle[r].version < version[handle[r].slot]
      BY <2>2 DEF RegistryInv, HandleInv
    <3>2. r \in Resources
      BY RegistryAssumption DEF RegistryInv, RegistryTypeOK, Issued, Resources
    <3>3. handle[r].version \in Int /\ version[handle[r].slot] \in Int
      BY <3>2 DEF RegistryInv, RegistryTypeOK, Handles
    <3> QED
      BY <3>1, <3>3 DEF Find
  <2> QED
    BY <2>1, <2>2
<1> QED
  BY RegistryInvariance, <1>1, PTL

\* Where every lookup touches its entry, the sweep takes no entry that was
\* looked up within the TTL.
THEOREM SweepSparesUsed == Touches /\ RegistrySpec => SweptOnlyWhenUnused
<1> SUFFICES ASSUME Touches PROVE RegistrySpec => SweptOnlyWhenUnused
  OBVIOUS
<1> DEFINE Same == age = unused
<1>1. RegistryInit => Same
  BY DEF RegistryInit
<1>2. RegistryInv /\ Same /\ [RegistryNext]_registryVars => Same'
  <2> SUFFICES ASSUME RegistryInv, age = unused, [RegistryNext]_registryVars PROVE age' = unused'
    OBVIOUS
  <2>1. CASE Insert
    BY <2>1 DEF Insert
  <2>2. ASSUME NEW r \in Resources, Use(r) \/ Remove(r) PROVE age' = unused'
    BY <2>2 DEF Use, Remove, Touched, clock
  <2>3. CASE Tick
    BY <2>3 DEF Tick
  <2>4. CASE Sweep
    BY <2>4 DEF Sweep, clock
  <2>5. CASE UNCHANGED registryVars
    BY <2>5 DEF registryVars, clock
  <2> QED
    BY <2>1, <2>2, <2>3, <2>4, <2>5 DEF RegistryNext
<1>3. RegistryInv /\ Same /\ [RegistryNext]_registryVars =>
        [\A r \in Resources : status[r] = "live" /\ status'[r] = "swept" => unused[r] > Ttl]_registryVars
  <2> SUFFICES ASSUME RegistryInv, age = unused, [RegistryNext]_registryVars, NEW r \in Resources,
                      status[r] = "live", status'[r] = "swept"
               PROVE unused[r] > Ttl
    OBVIOUS
  <2>1. CASE Sweep
    BY <2>1 DEF Sweep, ExpiredSlots
  <2>2. CASE Insert
    BY <2>2 DEF Insert, RegistryInv, RegistryTypeOK
  <2>3. ASSUME NEW q \in Resources, Use(q) \/ Remove(q) PROVE FALSE
    BY <2>3, Zenon DEF Use, Remove, RegistryInv, RegistryTypeOK
  <2>4. CASE Tick \/ UNCHANGED registryVars
    BY <2>4 DEF Tick, registryVars
  <2> QED
    BY <2>1, <2>2, <2>3, <2>4 DEF RegistryNext
<1> HIDE DEF Same
<1> QED
  BY <1>1, <1>2, <1>3, RegistryInvariance, PTL DEF RegistrySpec, SweptOnlyWhenUnused
=============================================================================
