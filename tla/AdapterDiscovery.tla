---------------------------- MODULE AdapterDiscovery ----------------------------
(***************************************************************************)
(* The discovery tables of the Node and Deno adapters.  A session is started  *)
(* without the table's lock and published under it, while close_endpoint      *)
(* retires the endpoint under the same lock and closes what it drained after  *)
(* releasing it.  Generic sessions belong to no endpoint.  Handles come from  *)
(* one counter and never name a second session, so a session is its handle.   *)
(***************************************************************************)
EXTENDS AdapterEndpoint

CONSTANTS DRes,    \* the sessions JavaScript asks for
          KindOf   \* which command starts each

VARIABLES active,     \* the endpoint is in active_endpoints
          dtable,     \* the published sessions
          dstart,     \* how far the starting command is
          dlife,      \* the native session: "none", "runs", "closed" or "failed"
          dnext,      \* the pending next call of each browse
          dclose,     \* the close call of each session
          drained     \* detached from the table by the retirement, not yet closed

discoveryVars == <<active, dtable, dstart, dlife, dnext, dclose, drained>>

EndpointOwned(r) == KindOf[r] \in {"peerBrowse", "peerAdvertise"}
IsBrowse(r) == KindOf[r] \in {"peerBrowse", "browse"}

DiscoveryInit ==
    /\ active = TRUE /\ dtable = {} /\ drained = {}
    /\ dstart = [r \in DRes |-> "idle"] /\ dlife = [r \in DRes |-> "none"]
    /\ dnext = [r \in DRes |-> "idle"] /\ dclose = [r \in DRes |-> "idle"]

\* get_endpoint, for the commands that take an endpoint.
StartChecks(r) ==
    /\ dstart[r] = "idle"
    /\ dstart' = [dstart EXCEPT ![r] = IF EndpointOwned(r) /\ ~listed
                                       THEN "refused" ELSE "starting"]
    /\ UNCHANGED <<endpointVars, active, dtable, dlife, dnext, dclose, drained>>

\* The discovery crate starts the session, or answers REFUSED.
SessionStarts(r) ==
    /\ dstart[r] = "starting"
    /\ \/ /\ dstart' = [dstart EXCEPT ![r] = "started"]
          /\ dlife' = [dlife EXCEPT ![r] = "runs"]
       \/ dstart' = [dstart EXCEPT ![r] = "refused"] /\ UNCHANGED dlife
    /\ UNCHANGED <<endpointVars, active, dtable, dnext, dclose, drained>>

\* Fault: the session is published whether or not the endpoint is still active.
PublishAny(r) ==
    /\ dstart[r] = "started"
    /\ dstart' = [dstart EXCEPT ![r] = "open"] /\ dtable' = dtable \cup {r}
    /\ UNCHANGED <<endpointVars, active, dlife, dnext, dclose, drained>>

\* Under the lock: a session whose endpoint was retired meanwhile is closed again.
Publish(r) ==
    /\ dstart[r] = "started"
    /\ IF EndpointOwned(r) /\ ~active
       THEN /\ dlife' = [dlife EXCEPT ![r] = "closed"]
            /\ dstart' = [dstart EXCEPT ![r] = "refused"] /\ UNCHANGED dtable
       ELSE /\ dtable' = dtable \cup {r}
            /\ dstart' = [dstart EXCEPT ![r] = "open"] /\ UNCHANGED dlife
    /\ UNCHANGED <<endpointVars, active, dnext, dclose, drained>>

\* A browse ends by itself when its daemon goes away.
SessionFails(r) ==
    /\ IsBrowse(r) /\ dlife[r] = "runs" /\ dlife' = [dlife EXCEPT ![r] = "failed"]
    /\ UNCHANGED <<endpointVars, active, dtable, dstart, dnext, dclose, drained>>

\* next clones the Arc under the lock; a handle that is not there is an error.
NextEnters(r) ==
    /\ IsBrowse(r) /\ dstart[r] = "open" /\ dnext[r] = "idle"
    /\ dnext' = [dnext EXCEPT ![r] = IF r \in dtable THEN "waiting" ELSE "error"]
    /\ UNCHANGED <<endpointVars, active, dtable, dstart, dlife, dclose, drained>>

\* An event, as long as the session runs; null once it does not.
NextReturns(r) ==
    /\ dnext[r] = "waiting"
    /\ dnext' = [dnext EXCEPT ![r] = IF dlife[r] = "runs" THEN "idle" ELSE "null"]
    /\ UNCHANGED <<endpointVars, active, dtable, dstart, dlife, dclose, drained>>

\* After null the entry goes, if it still is this session.
NextRemoves(r) ==
    /\ dnext[r] = "null" /\ dnext' = [dnext EXCEPT ![r] = "over"]
    /\ dtable' = dtable \ {r}
    /\ UNCHANGED <<endpointVars, active, dstart, dlife, dclose, drained>>

\* Closing an advertisement takes it out of the table and drops it there.
advertise_close(r) ==
    /\ ~IsBrowse(r) /\ dstart[r] = "open" /\ dclose[r] = "idle"
    /\ dclose' = [dclose EXCEPT ![r] = "over"] /\ dtable' = dtable \ {r}
    /\ dlife' = [dlife EXCEPT ![r] = IF r \in dtable THEN "closed" ELSE @]
    /\ UNCHANGED <<endpointVars, active, dstart, dnext, drained>>

\* Closing a browse clones the Arc, closes the session unlocked, then removes it.
CloseTakes(r) ==
    /\ IsBrowse(r) /\ dstart[r] = "open" /\ dclose[r] = "idle"
    /\ dclose' = [dclose EXCEPT ![r] = IF r \in dtable THEN "taken" ELSE "over"]
    /\ UNCHANGED <<endpointVars, active, dtable, dstart, dlife, dnext, drained>>

CloseSession(r) ==
    /\ dclose[r] = "taken" /\ dclose' = [dclose EXCEPT ![r] = "removing"]
    /\ dlife' = [dlife EXCEPT ![r] = IF @ = "runs" THEN "closed" ELSE @]
    /\ UNCHANGED <<endpointVars, active, dtable, dstart, dnext, drained>>

CloseRemoves(r) ==
    /\ dclose[r] = "removing" /\ dclose' = [dclose EXCEPT ![r] = "over"]
    /\ dtable' = dtable \ {r}
    /\ UNCHANGED <<endpointVars, active, dstart, dlife, dnext, drained>>

drain_endpoint_owned == {r \in dtable : EndpointOwned(r)}

\* close_endpoint: get_endpoint, then retire_endpoint_discovery's locked part.
retire_endpoint_discovery ==
    /\ close_starts /\ active' = FALSE
    /\ drained' = drain_endpoint_owned /\ dtable' = dtable \ drain_endpoint_owned
    /\ UNCHANGED <<dstart, dlife, dnext, dclose>>

\* Unlocked again: close each drained browse, then drop the advertisements.
RetireCloses(r) ==
    /\ r \in drained /\ drained' = drained \ {r}
    /\ IsBrowse(r) \/ \A q \in drained : ~IsBrowse(q)
    /\ dlife' = [dlife EXCEPT ![r] = IF @ = "runs" THEN "closed" ELSE @]
    /\ UNCHANGED <<endpointVars, active, dtable, dstart, dnext, dclose>>

\* The rest of close_endpoint follows the retirement.
EndpointCloses ==
    /\ drained = {} /\ (close_core \/ close_clears \/ close_removes)
    /\ UNCHANGED discoveryVars

DiscoverySteps(r) ==
    \/ SessionStarts(r) \/ Publish(r) \/ NextReturns(r) \/ NextRemoves(r)
    \/ CloseSession(r) \/ CloseRemoves(r) \/ RetireCloses(r)

DiscoveryNext ==
    \/ \E r \in DRes : \/ StartChecks(r) \/ SessionFails(r) \/ NextEnters(r)
                       \/ CloseTakes(r) \/ advertise_close(r) \/ DiscoverySteps(r)
    \/ retire_endpoint_discovery \/ EndpointCloses

\* Tokio polls what is ready: commands that have begun go on.  JavaScript owes
\* nothing, and neither does the daemon.
DiscoveryFairness ==
    /\ \A r \in DRes : WF_<<endpointVars, discoveryVars>>(DiscoverySteps(r))
    /\ WF_<<endpointVars, discoveryVars>>(EndpointCloses)

\* No session of an endpoint outlives it, not even one whose start was waiting
\* for the daemon when close_endpoint retired the endpoint; a next call on a
\* session that ended returns null, and its handle leaves the table.
DiscoverySettles ==
    []<>(\A r \in DRes :
            /\ epClosed /\ EndpointOwned(r) => dlife[r] # "runs" /\ r \notin dtable
            /\ dnext[r] = "waiting" => dlife[r] = "runs"
            /\ dnext[r] = "over" \/ dclose[r] = "over" => r \notin dtable)
=============================================================================
