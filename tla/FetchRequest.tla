---------------------------- MODULE FetchRequest ----------------------------
(***************************************************************************)
(* fetch_request and attempt_send (crates/iroh-http-core/src/http/client.rs)*)
(* on top of the connection pool: one attempt, one transparent retry, the  *)
(* timeout of the whole sequence, and cancellation from outside.           *)
(***************************************************************************)
EXTENDS ConnectionPool

CONSTANTS Idempotent,  \* callers whose method is idempotent
          Empty,       \* callers whose body is at its end with exact size 0
          Timed        \* callers with a timeout

ASSUME CallerAssumption ==
    /\ Idempotent \subseteq Caller /\ Empty \subseteq Caller /\ Timed \subseteq Caller

VARIABLES
    stage,        \* where fetch_request is
    attempt,      \* the attempt in progress
    lastSeq,      \* last_dial_seq
    firstReused,  \* was attempt 1 on a reused connection?
    outcome,      \* what the caller got
    sends,        \* history: attempts whose request may have reached the peer
    failedOn      \* history: connections on which an attempt failed

fetchVars == <<stage, attempt, lastSeq, firstReused, outcome, sends, failedOn>>
requestVars == <<poolVars, fetchVars>>

Stages == {"new", "get", "send", "evict", "expired", "done"}
Outcomes == {"none", "response", "connectionFailed", "bodyFailed", "timeout", "cancelled"}

RequestTypeOK ==
    /\ PoolTypeOK
    /\ stage \in [Caller -> Stages]
    /\ attempt \in [Caller -> 0..2]
    /\ lastSeq \in [Caller -> Seq \cup {None}]
    /\ firstReused \in [Caller -> BOOLEAN]
    /\ outcome \in [Caller -> Outcomes]
    /\ sends \in [Caller -> 0..2]
    /\ failedOn \in [Caller -> SUBSET Seq]

RequestInit ==
    /\ PoolInit
    /\ stage = [f \in Caller |-> "new"]
    /\ attempt = [f \in Caller |-> 0]
    /\ lastSeq = [f \in Caller |-> None]
    /\ firstReused = [f \in Caller |-> FALSE]
    /\ outcome = [f \in Caller |-> "none"]
    /\ sends = [f \in Caller |-> 0]
    /\ failedOn = [f \in Caller |-> {}]

Finish(f, o) ==
    /\ stage' = [stage EXCEPT ![f] = "done"]
    /\ outcome' = [outcome EXCEPT ![f] = o]

\* Fault: a body that was already streamed is sent again.
RetryIdempotent(f) == f \in Idempotent

\* Only a request that can be rebuilt and repeated is sent again.
RetrySafe(f) == f \in Empty /\ f \in Idempotent

-----------------------------------------------------------------------------
(* attempt_send *)

\* An attempt begins with get_or_connect.
Attempt(f, n) ==
    /\ stage' = [stage EXCEPT ![f] = "get"]
    /\ attempt' = [attempt EXCEPT ![f] = n]
    /\ getter' = [getter EXCEPT ![f] = "lookup"]

Start(f) ==
    /\ stage[f] = "new"
    /\ Attempt(f, 1)
    /\ UNCHANGED <<cache, conn, dials, flight, seen, reused, since, lastSeq, firstReused,
                   outcome, sends, failedOn>>

\* The connection this attempt uses is recorded before anything is sent.
Obtain(f) ==
    /\ stage[f] = "get" /\ Step(f, "hit", "idle")
    /\ stage' = [stage EXCEPT ![f] = "send"]
    /\ lastSeq' = [lastSeq EXCEPT ![f] = seen[f]]
    /\ firstReused' = [firstReused EXCEPT ![f] = IF attempt[f] = 1 THEN reused[f] ELSE @]
    /\ UNCHANGED <<cache, conn, dials, flight, seen, reused, since, attempt, outcome, sends,
                   failedOn>>

\* No connection: the identity is cleared and nothing counts as reused.
ObtainNothing(f) ==
    /\ stage[f] = "get" /\ Step(f, "error", "idle")
    /\ stage' = [stage EXCEPT ![f] = "evict"]
    /\ lastSeq' = [lastSeq EXCEPT ![f] = None]
    /\ firstReused' = [firstReused EXCEPT ![f] = IF attempt[f] = 1 THEN FALSE ELSE @]
    /\ UNCHANGED <<cache, conn, dials, flight, seen, reused, since, attempt, outcome, sends,
                   failedOn>>

PeerResponds(f) ==
    /\ stage[f] = "send" /\ Alive(lastSeq[f])
    /\ sends' = [sends EXCEPT ![f] = @ + 1]
    /\ Finish(f, "response")
    /\ UNCHANGED <<poolVars, attempt, lastSeq, firstReused, failedOn>>

\* Only connection-level failures evict and retry.
Retryable(e) == e = "connectionFailed"

\* open_bi, the handshake or send_request fails; the request may have reached
\* the peer all the same.  A streaming body may fail by itself.
SendFails(f, e, reached) ==
    /\ stage[f] = "send"
    /\ e = "bodyFailed" => f \notin Empty
    /\ sends' = [sends EXCEPT ![f] = IF reached THEN @ + 1 ELSE @]
    /\ failedOn' = [failedOn EXCEPT ![f] = IF e = "connectionFailed" THEN @ \cup {lastSeq[f]} ELSE @]
    /\ IF Retryable(e) THEN stage' = [stage EXCEPT ![f] = "evict"] /\ UNCHANGED outcome
                       ELSE Finish(f, e)
    /\ UNCHANGED <<poolVars, attempt, lastSeq, firstReused>>

-----------------------------------------------------------------------------
(* fetch_request *)

Evicts(s) == Matches(s)

RetriesNow(f) == attempt[f] = 1 /\ firstReused[f] /\ RetrySafe(f)

\* evict_and_close, scoped to the connection that failed, and then the retry.
EvictAndClose(f) ==
    /\ stage[f] = "evict"
    /\ cache' = IF Evicts(lastSeq[f]) THEN None ELSE cache
    /\ conn' = IF Evicts(lastSeq[f]) /\ conn[cache] = "live"
               THEN [conn EXCEPT ![cache] = "ours"] ELSE conn
    /\ IF RetriesNow(f) THEN Attempt(f, 2) /\ UNCHANGED outcome
                        ELSE Finish(f, "connectionFailed") /\ UNCHANGED <<attempt, getter>>
    /\ UNCHANGED <<dials, flight, seen, reused, since, lastSeq, firstReused, sends, failedOn>>

\* The timeout of the whole sequence drops whatever it was doing.
Timeout(f) ==
    /\ f \in Timed /\ stage[f] \in {"get", "send", "evict"}
    /\ stage' = [stage EXCEPT ![f] = "expired"]
    /\ Dropped(f)
    /\ UNCHANGED <<cache, conn, dials, seen, reused, since, attempt, lastSeq, firstReused,
                   outcome, sends, failedOn>>

\* Fault: a timeout closes the connection it shares with other requests.
ClosesOnTimeout(s) == IF Matches(s) /\ conn[s] = "live" THEN [conn EXCEPT ![s] = "ours"] ELSE conn

SparedOnTimeout(s) == conn

\* evict_only: the entry goes, the connection stays open.
EvictOnly(f) ==
    /\ stage[f] = "expired"
    /\ cache' = Removed(lastSeq[f])
    /\ conn' = SparedOnTimeout(lastSeq[f])
    /\ Finish(f, "timeout")
    /\ UNCHANGED <<dials, flight, getter, seen, reused, since, attempt, lastSeq, firstReused,
                   sends, failedOn>>

\* The caller drops the future.
Cancel(f) ==
    /\ stage[f] \in {"get", "send", "evict", "expired"}
    /\ Finish(f, "cancelled")
    /\ Dropped(f)
    /\ UNCHANGED <<cache, conn, dials, seen, reused, since, attempt, lastSeq, firstReused,
                   sends, failedOn>>

-----------------------------------------------------------------------------
(* The specification *)

\* What a fetch does by itself once it is polled; a dial always resolves.
CallerRuns(f) ==
    \/ GetOrConnect(f) /\ UNCHANGED fetchVars
    \/ Obtain(f) \/ ObtainNothing(f) \/ EvictAndClose(f) \/ EvictOnly(f)

RequestNext ==
    \/ \E f \in Caller :
         \/ Start(f) \/ CallerRuns(f) \/ PeerResponds(f) \/ Timeout(f) \/ Cancel(f)
         \/ \E e \in {"connectionFailed", "bodyFailed"}, reached \in BOOLEAN : SendFails(f, e, reached)
    \/ (\E s \in Seq : ConnectionDies(s)) /\ UNCHANGED fetchVars
    \/ CacheEvicts /\ UNCHANGED fetchVars

RequestSpec == RequestInit /\ [][RequestNext]_requestVars

\* The runtime polls every future, and a dial ends in success or failure.
RequestFairness == \A f \in Caller : WF_requestVars(CallerRuns(f))

RequestFairSpec == RequestSpec /\ RequestFairness

-----------------------------------------------------------------------------
(* Properties *)

\* The client closes a connection only if one of its own requests failed on
\* that very connection: never a healthy replacement, never the connection of
\* a request that timed out, was cancelled or failed in its own body.
BlameIsExact ==
    \A s \in Seq : conn[s] = "ours" => \E f \in Caller : s \in failedOn[f]

\* A request that is not idempotent, or whose body cannot be rebuilt, reaches
\* the peer at most once; any other at most twice.
AtMostOnceUnlessSafe ==
    \A f \in Caller : sends[f] <= IF f \in Idempotent /\ f \in Empty THEN 2 ELSE 1

\* The retry never runs on the connection the first attempt failed on.
RetryAvoidsFailed ==
    \A f \in Caller : stage[f] = "send" => lastSeq[f] \notin failedOn[f]

\* get_or_connect answers "not reused" only for a connection that was dialed
\* after this call looked into the cache, so not retrying on it is right.
FreshMeansDialedDuringCall ==
    \A f \in Caller : getter[f] = "hit" /\ ~reused[f] => seen[f] > since[f]

\* Every get_or_connect answers: stale entries do not make it loop for ever,
\* and a caller that waits on another's dial is not left behind when that
\* caller times out or is cancelled.
GetAnswers == []<>(\A f \in Caller : stage[f] # "get")

=============================================================================
