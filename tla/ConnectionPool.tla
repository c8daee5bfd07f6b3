--------------------------- MODULE ConnectionPool ---------------------------
(***************************************************************************)
(* The client's pool of QUIC connections                                   *)
(* (crates/iroh-http-core/src/http/transport/pool.rs), for one key         *)
(* (node id, ALPN): keys share nothing but the capacity, and a capacity    *)
(* eviction may strike at any time here.                                   *)
(*                                                                         *)
(* A connection is identified by its dial_seq.  Each caller is in at most  *)
(* one get_or_connect, whose progress is `getter`.                         *)
(***************************************************************************)
EXTENDS Integers, FiniteSets

CONSTANTS Caller,    \* concurrent callers of get_or_connect
          MaxDials   \* bound: how many dials succeed in one behaviour

ASSUME DialAssumption == MaxDials \in Nat

None == 0                  \* no cached connection, no captured identity
Seq == 1..MaxDials         \* dial_seq numbers

VARIABLES
    cache,    \* the cached connection's dial_seq, or None
    conn,     \* state of every connection
    dials,    \* DIAL_SEQ: dials that succeeded so far
    flight,   \* callers inside moka's single-flight initialiser: at most one dials
    getter,   \* program counter of each caller's get_or_connect
    seen,     \* the `pooled` a caller looks at, then the connection it is given
    reused,   \* the bool get_or_connect returns
    since     \* history: dials when the caller last looked into the cache

poolVars == <<cache, conn, dials, flight, getter, seen, reused, since>>

\* "ours" is a connection closed by evict_and_close, "closed" by anyone else.
ConnStates == {"undialed", "live", "closed", "ours"}

\* A caller that has read an entry into `seen`.
Looking == {"inspect", "stale", "fresh", "gone", "inspectOther"}

GetterStates == {"idle", "lookup", "join", "dialing", "waiting", "replace", "hit", "error"}
                    \cup Looking

PoolTypeOK ==
    /\ cache \in Seq \cup {None}
    /\ conn \in [Seq -> ConnStates]
    /\ dials \in 0..MaxDials
    /\ flight \in SUBSET Caller
    /\ getter \in [Caller -> GetterStates]
    /\ seen \in [Caller -> Seq \cup {None}]
    /\ reused \in [Caller -> BOOLEAN]
    /\ since \in [Caller -> 0..MaxDials]

PoolInit ==
    /\ cache = None
    /\ conn = [s \in Seq |-> "undialed"]
    /\ dials = 0
    /\ flight = {}
    /\ getter = [f \in Caller |-> "idle"]
    /\ seen = [f \in Caller |-> None]
    /\ reused = [f \in Caller |-> FALSE]
    /\ since = [f \in Caller |-> 0]

Step(f, from, to) == getter[f] = from /\ getter' = [getter EXCEPT ![f] = to]

\* close_reason().is_none()
Alive(s) == s # None /\ conn[s] = "live"

Matches(s) == s # None /\ cache = s

\* compare_and_remove: one atomic and_compute_with on the entry.
Removed(s) == IF Matches(s) THEN None ELSE cache

-----------------------------------------------------------------------------
(* get_or_connect, phase 1 *)

Lookup(f) ==
    /\ Step(f, "lookup", IF cache = None THEN "join" ELSE "inspect")
    /\ seen' = [seen EXCEPT ![f] = cache]
    /\ since' = [since EXCEPT ![f] = dials]
    /\ UNCHANGED <<cache, conn, dials, flight, reused>>

HitIsReused == TRUE

Inspect(f) ==
    /\ Step(f, "inspect", IF Alive(seen[f]) THEN "hit" ELSE "stale")
    /\ reused' = [reused EXCEPT ![f] = HitIsReused]
    /\ UNCHANGED <<cache, conn, dials, flight, seen, since>>

\* Fault: a stale entry is looked up again and not removed.
KeepsStale(s) == cache

StaleRemoved(s) == Removed(s)

\* A stale entry is removed by identity; if it was replaced meanwhile, look again.
RemoveStale(f) ==
    /\ Step(f, "stale", IF StaleRemoved(seen[f]) # cache THEN "join" ELSE "lookup")
    /\ cache' = StaleRemoved(seen[f])
    /\ UNCHANGED <<conn, dials, flight, seen, reused, since>>

-----------------------------------------------------------------------------
(* get_or_connect, phase 2: try_get_with *)

\* try_get_with answers from the cache, or joins the dial in progress, or
\* becomes the one that dials.
Join(f) ==
    /\ Step(f, "join", CASE cache # None -> "fresh"
                         [] cache = None /\ flight # {} -> "waiting"
                         [] OTHER -> "dialing")
    /\ seen' = [seen EXCEPT ![f] = cache]
    /\ flight' = IF cache = None /\ flight = {} THEN {f} ELSE flight
    /\ UNCHANGED <<cache, conn, dials, reused, since>>

Batch(f) == {f} \cup {g \in Caller : getter[g] = "waiting"}

\* The dial succeeds: cached, and handed to everyone who waits.
DialOk(f) ==
    /\ getter[f] = "dialing"
    /\ dials < MaxDials
    /\ dials' = dials + 1
    /\ conn' = [conn EXCEPT ![dials + 1] = "live"]
    /\ cache' = dials + 1
    /\ flight' = {}
    /\ getter' = [g \in Caller |-> IF g \in Batch(f) THEN "fresh" ELSE getter[g]]
    /\ seen' = [g \in Caller |-> IF g \in Batch(f) THEN dials + 1 ELSE seen[g]]
    /\ UNCHANGED <<reused, since>>

\* The dial fails: the error goes to everyone who waits, nothing is cached.
DialFails(f) ==
    /\ getter[f] = "dialing"
    /\ flight' = {}
    /\ getter' = [g \in Caller |-> IF g \in Batch(f) THEN "error" ELSE getter[g]]
    /\ UNCHANGED <<cache, conn, dials, seen, reused, since>>

\* The check for a connection that was closed immediately.
CheckFresh(f) ==
    /\ Step(f, "fresh", IF Alive(seen[f]) THEN "hit" ELSE "gone")
    /\ reused' = [reused EXCEPT ![f] = FALSE]
    /\ UNCHANGED <<cache, conn, dials, flight, seen, since>>

RemoveGone(f) ==
    /\ Step(f, "gone", IF Matches(seen[f]) THEN "error" ELSE "replace")
    /\ cache' = Removed(seen[f])
    /\ UNCHANGED <<conn, dials, flight, seen, reused, since>>

\* Someone else removed it already: take their replacement if it is alive.
LookReplacement(f) ==
    /\ Step(f, "replace", IF cache = None THEN "error" ELSE "inspectOther")
    /\ seen' = [seen EXCEPT ![f] = cache]
    /\ UNCHANGED <<cache, conn, dials, flight, reused, since>>

InspectReplacement(f) ==
    /\ Step(f, "inspectOther", IF Alive(seen[f]) THEN "hit" ELSE "error")
    /\ reused' = [reused EXCEPT ![f] = Alive(seen[f])]
    /\ UNCHANGED <<cache, conn, dials, flight, seen, since>>

GetOrConnect(f) ==
    \/ Lookup(f) \/ Inspect(f) \/ RemoveStale(f) \/ Join(f) \/ DialOk(f) \/ DialFails(f)
    \/ CheckFresh(f) \/ RemoveGone(f) \/ LookReplacement(f) \/ InspectReplacement(f)

-----------------------------------------------------------------------------
(* What else happens to the pool *)

\* The caller's future is dropped.  If it was the one that dials, its dial is
\* dropped with it and the callers that wait on it compete again.
Dropped(f) ==
    /\ getter' = [g \in Caller |-> IF g = f THEN "idle"
                                   ELSE IF getter[f] = "dialing" /\ getter[g] = "waiting" THEN "join"
                                   ELSE getter[g]]
    /\ flight' = flight \ {f}

\* The peer closes the connection or it times out.
ConnectionDies(s) ==
    /\ conn[s] = "live"
    /\ conn' = [conn EXCEPT ![s] = "closed"]
    /\ UNCHANGED <<cache, dials, flight, getter, seen, reused, since>>

\* Capacity or idle eviction: the entry goes, the connection stays open.
CacheEvicts ==
    /\ cache # None
    /\ cache' = None
    /\ UNCHANGED <<conn, dials, flight, getter, seen, reused, since>>

=============================================================================
