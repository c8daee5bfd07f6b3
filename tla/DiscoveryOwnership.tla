-------------------------- MODULE DiscoveryOwnership --------------------------
(***************************************************************************)
(* Who owns a native DNS-SD resource of the mobile Tauri plugin            *)
(* (discovery_ownership.rs and the discovery commands of commands.rs).     *)
(*                                                                         *)
(* A page starts browses and advertisements.  A start takes a lease that   *)
(* captures the generation of its WebView and endpoint, waits for the      *)
(* cleanup fence of its label, runs the native start in a detached task    *)
(* and publishes the session if the generations are still current.  A page *)
(* load, a destroyed window, a closed endpoint or a close command retires  *)
(* sessions and in-flight starts behind a new fence, which is finished     *)
(* when the native side has released all of them and the fence before it.  *)
(*                                                                         *)
(* The ownership state is one mutex, so an action is the code between two  *)
(* awaits; the call that follows the lock (removal from the handle map and *)
(* the request to close) is part of it.  Publishing a fence's outcome and  *)
(* taking it out of webview_cleanups are one step: a fence that is ok and  *)
(* still listed holds nobody up.                                           *)
(***************************************************************************)
EXTENDS Naturals, Sequences

CONSTANTS Start,      \* start calls, each of one browse or advertisement
          Label,      \* WebView labels
          Endpoint,   \* endpoint handles
          NoEndpoint, \* the endpoint of a generic DNS-SD resource
          Plans,      \* the commands that the start calls may be
          MaxTask,    \* bound on the number of cleanup tasks
          MaxGen      \* bound on the generations of an endpoint


VARIABLES
    kind,        \* kind[x]: the command that start call x is
    pc,          \* pc[x]: where the start call, then its session, is
    owner,       \* owner[x]: the generations that the lease captured
    prior,       \* prior[x]: the cleanup task the lease waits for, 0 for none
    slab,        \* the sessions in the handle maps of the plugin
    endpoints,   \* endpoints[e]: generation and whether it is active
    webviews,    \* webviews[l]: the same; generation 0 is an absent entry
    cleanups,    \* webview_cleanups: the last fence of a label, 0 for none
    tasks,       \* the cleanup tasks, each with a fence for some labels
    lastWindow,  \* the last window was destroyed and retire_all is to follow
    before       \* history: the resources of x's label retired when x began

startVars == <<kind, owner, prior, before>>
ownersVars == <<kind, pc, owner, prior, slab, endpoints, webviews, cleanups, tasks, lastWindow, before>>

PeerKinds == {"BrowsePeers", "AdvertisePeer"}
Kinds == PeerKinds \cup {"GenericAdvertise", "GenericBrowse"}

ASSUME OwnershipAssumption ==
    /\ NoEndpoint \notin Endpoint
    /\ Plans \subseteq [Start -> Kinds]
    /\ MaxTask \in Nat

Owner == [label : Label, webview : Nat, endpoint : Endpoint \cup {NoEndpoint}, generation : Nat]

(* A lease is active in these states: the call waits at the barrier or for  *)
(* the interface inventory, the native start is in flight, with or without  *)
(* a command waiting for it, the native id is delivered, or the native      *)
(* resource is being cleaned up.                                            *)
Leased == {"barrier", "inventory", "starting", "orphaned", "delivered", "closing"}

(* Published, being closed, closed, native close failed, cleanup of an      *)
(* unpublished start failed, untracked with no session left to close.       *)
Later == {"tracked", "retiring", "over", "failed", "lost", "leaked"}

(* A fence waits for an older one of its label.                             *)
Fence(t) == [prev : 0..(t - 1), out : {"pending", "ok", "err"}]

(* The state has its type, and an entry that is active has been generated.  *)
OwnersTypeOK ==
    /\ kind \in [Start -> Kinds]
    /\ pc \in [Start -> {"idle"} \cup Leased \cup Later]
    /\ \A x \in Start : pc[x] # "idle" => owner[x] \in Owner
    /\ prior \in [Start -> 0..MaxTask]
    /\ slab \in SUBSET Start
    /\ endpoints \in [Endpoint -> [generation : Nat, active : BOOLEAN]]
    /\ webviews \in [Label -> [generation : Nat, active : BOOLEAN]]
    /\ \A e \in Endpoint : endpoints[e].active => endpoints[e].generation > 0
    /\ \A l \in Label : webviews[l].active => webviews[l].generation > 0
    /\ cleanups \in [Label -> 0..Len(tasks)]
    /\ Len(tasks) <= MaxTask
    /\ \A t \in 1..Len(tasks) :
         /\ tasks[t].sessions \in SUBSET Start /\ tasks[t].starts \in SUBSET Start
         /\ DOMAIN tasks[t].fences \in SUBSET Label
         /\ \A l \in DOMAIN tasks[t].fences : tasks[t].fences[l] \in Fence(t)
    /\ lastWindow \in BOOLEAN
    /\ before \in [Start -> SUBSET Start]

NoOwner == [label |-> "none", webview |-> 0, endpoint |-> NoEndpoint, generation |-> 0]

OwnersInit ==
    /\ kind \in Plans
    /\ pc = [x \in Start |-> "idle"]
    /\ owner = [x \in Start |-> NoOwner]
    /\ prior = [x \in Start |-> 0]
    /\ slab = {}
    /\ endpoints = [e \in Endpoint |-> [generation |-> 0, active |-> FALSE]]
    /\ webviews = [l \in Label |-> [generation |-> 0, active |-> FALSE]]
    /\ cleanups = [l \in Label |-> 0]
    /\ tasks = <<>>
    /\ lastWindow = FALSE
    /\ before = [x \in Start |-> {}]

-----------------------------------------------------------------------------
(* Owners *)

Is(entry, generation) == entry.active /\ entry.generation = generation

owner_is_current(o) ==
    /\ Is(webviews[o.label], o.webview)
    /\ o.endpoint \in Endpoint => Is(endpoints[o.endpoint], o.generation)

next_generation(entry, active) == [generation |-> entry.generation + 1, active |-> active]

(* The leases and the tracked sessions, and those of a set of owners.       *)
starts == {x \in Start : pc[x] \in Leased}
sessions == {x \in Start : pc[x] = "tracked"}
OwnedBy(l) == {x \in Start : owner[x].label = l}
OfEndpoint(e) == {x \in Start : owner[x].endpoint = e}

(* The resources of a label whose owner is gone or that were closed, and    *)
(* that the platform may still hold.                                        *)
Retired(l) ==
    {x \in OwnedBy(l) : \/ pc[x] \in {"retiring", "failed", "leaked"}
                        \/ x \in starts /\ ~owner_is_current(owner[x])}

-----------------------------------------------------------------------------
(* Start leases *)

insert_start(x, o) ==
    /\ pc' = [pc EXCEPT ![x] = "barrier"]
    /\ owner' = [owner EXCEPT ![x] = o]
    /\ prior' = [prior EXCEPT ![x] = cleanups[o.label]]
    /\ before' = [before EXCEPT ![x] = Retired(o.label)]
    /\ UNCHANGED kind

(* The entry of a label never seen is created active.                       *)
Seen(l) == IF webviews[l].generation = 0 THEN [generation |-> 1, active |-> TRUE] ELSE webviews[l]

begin_peer_start(x, l, e) ==
    /\ pc[x] = "idle"
    /\ endpoints[e].generation > 0
    /\ webviews' = [webviews EXCEPT ![l] = Seen(l)]
    /\ IF endpoints[e].active /\ Seen(l).active
         THEN insert_start(x, [label |-> l, webview |-> Seen(l).generation,
                               endpoint |-> e, generation |-> endpoints[e].generation])
         ELSE UNCHANGED <<pc, startVars>>
    /\ UNCHANGED <<slab, endpoints, cleanups, tasks, lastWindow>>

begin_webview_start(x, l) ==
    /\ pc[x] = "idle"
    /\ webviews' = [webviews EXCEPT ![l] = Seen(l)]
    /\ Seen(l).active
    /\ insert_start(x, [label |-> l, webview |-> Seen(l).generation,
                        endpoint |-> NoEndpoint, generation |-> 0])
    /\ UNCHANGED <<slab, endpoints, cleanups, tasks, lastWindow>>

-----------------------------------------------------------------------------
(* The steps of a start command *)

StartGoto(x, place) ==
    /\ pc' = [pc EXCEPT ![x] = place]
    /\ UNCHANGED <<startVars, endpoints, webviews, cleanups, tasks, lastWindow>>

OutcomeOf(t, l) == IF t = 0 THEN "ok" ELSE tasks[t].fences[l].out

(* wait_for_cleanup returned Ok and the owner is still current.             *)
PassBarrier(x) ==
    /\ pc[x] = "barrier"
    /\ OutcomeOf(prior[x], owner[x].label) = "ok"
    /\ owner_is_current(owner[x])
    /\ StartGoto(x, IF kind[x] = "AdvertisePeer" THEN "inventory" ELSE "starting")
    /\ UNCHANGED slab

(* The lease is dropped before a native start: the fence failed or timed    *)
(* out, the owner was retired, the endpoint is gone, the configuration is   *)
(* not valid, or the command was aborted while it waited.                   *)
Refuse(x) ==
    /\ pc[x] \in {"barrier", "inventory"}
    /\ StartGoto(x, "over")
    /\ UNCHANGED slab

(* The interface addresses are known and the native start is spawned.       *)
mobile_interface_ips(x) ==
    /\ pc[x] = "inventory"
    /\ StartGoto(x, "starting")
    /\ UNCHANGED slab

(* The platform answers the detached start.  If no command waits any more   *)
(* the delivery guard is dropped and cleans up.                             *)
detached_mobile_native_start(x) ==
    /\ pc[x] \in {"starting", "orphaned"}
    /\ \/ StartGoto(x, IF pc[x] = "starting" THEN "delivered" ELSE "closing")
       \/ StartGoto(x, "over")
    /\ UNCHANGED slab

(* The command is aborted before it claims the native id.                   *)
Abort(x) ==
    /\ pc[x] \in {"starting", "delivered"}
    /\ StartGoto(x, IF pc[x] = "starting" THEN "orphaned" ELSE "closing")
    /\ UNCHANGED slab

\* Fault: track does not compare the generations.
PublishUnchecked(x, accepted) ==
    /\ pc[x] = "delivered"
    /\ IF accepted
         THEN StartGoto(x, "tracked") /\ slab' = slab \cup {x}
         ELSE StartGoto(x, "closing") /\ UNCHANGED slab

(* track publishes the session; a stale owner, a full handle map or an      *)
(* engine that cannot be built sends the native resource to cleanup.        *)
Publish(x, accepted) ==
    /\ pc[x] = "delivered"
    /\ IF accepted /\ owner_is_current(owner[x])
         THEN StartGoto(x, "tracked") /\ slab' = slab \cup {x}
         ELSE StartGoto(x, "closing") /\ UNCHANGED slab

(* The detached cleanup of a start ends and finish_cleanup ends its lease.  *)
reconcile_cleanup(x) ==
    /\ pc[x] = "closing"
    /\ \E outcome \in {"over", "lost"} : StartGoto(x, outcome)
    /\ UNCHANGED slab

StartSteps(x) ==
    \/ PassBarrier(x) \/ Refuse(x) \/ mobile_interface_ips(x)
    \/ detached_mobile_native_start(x) \/ Abort(x)
    \/ \E accepted \in BOOLEAN : Publish(x, accepted)
    \/ reconcile_cleanup(x)

PeerStart(x) == (\E l \in Label, e \in Endpoint : begin_peer_start(x, l, e)) \/ StartSteps(x)
WebviewStart(x) == (\E l \in Label : begin_webview_start(x, l)) \/ StartSteps(x)

browse_peers(x) == kind[x] = "BrowsePeers" /\ PeerStart(x)
advertise_peer(x) == kind[x] = "AdvertisePeer" /\ PeerStart(x)
advertise(x) == kind[x] = "GenericAdvertise" /\ WebviewStart(x)
browse(x) == kind[x] = "GenericBrowse" /\ WebviewStart(x)

-----------------------------------------------------------------------------
(* Retirement *)

(* A cleanup task for some sessions and starts, with a fence on each label. *)
install_owner_cleanups(labels, S, T) ==
    /\ Len(tasks) < MaxTask
    /\ tasks' = Append(tasks,
         [sessions |-> S, starts |-> T,
          fences |-> [l \in labels |-> [prev |-> cleanups[l], out |-> "pending"]]])
    /\ cleanups' = [l \in Label |-> IF l \in labels THEN Len(tasks) + 1 ELSE cleanups[l]]

(* Sessions leave the handle map and are asked to close.  One that is not   *)
(* in the map counts as closed.                                             *)
prepare_retirement(S) ==
    /\ pc' = [x \in Start |-> IF x \notin S THEN pc[x]
                              ELSE IF x \in slab THEN "retiring" ELSE "leaked"]
    /\ slab' = slab \ S

matching_owner_labels(S) == {owner[x].label : x \in S \cap (sessions \cup starts)}

(* take_retirement: the sessions and leases of the owners in S.             *)
Retire(labels, S) ==
    /\ prepare_retirement(S \cap sessions)
    /\ IF labels = {}
         THEN UNCHANGED <<tasks, cleanups>>
         ELSE install_owner_cleanups(labels, S \cap sessions, S \cap starts)
    /\ UNCHANGED startVars

(* A handle is activated once; the retirement of a replaced endpoint may    *)
(* overtake the activation.                                                 *)
activate_endpoint(e) ==
    /\ ~endpoints[e].active /\ endpoints[e].generation <= 1
    /\ endpoints' = [endpoints EXCEPT ![e] = next_generation(@, TRUE)]
    /\ UNCHANGED <<pc, startVars, slab, webviews, cleanups, tasks, lastWindow>>

retire_endpoint(e) ==
    /\ endpoints' = [endpoints EXCEPT ![e] = next_generation(@, FALSE)]
    /\ Retire(matching_owner_labels(OfEndpoint(e)), OfEndpoint(e))

advance_webview(l) ==
    /\ webviews' = [webviews EXCEPT ![l] = next_generation(@, TRUE)]
    /\ Retire({l}, OwnedBy(l))

retire_webview(l) ==
    /\ webviews' = [webviews EXCEPT ![l] = next_generation(@, FALSE)]
    /\ Retire({l}, OwnedBy(l))

Bumped(entries) ==
    [k \in DOMAIN entries |->
        IF entries[k].generation = 0 THEN entries[k] ELSE next_generation(entries[k], FALSE)]

retire_all ==
    /\ endpoints' = Bumped(endpoints)
    /\ webviews' = Bumped(webviews)
    /\ Retire(matching_owner_labels(Start), Start)

(* An endpoint is closed or replaced.                                       *)
retire_endpoint_discovery_sessions(e) ==
    /\ endpoints[e].generation < MaxGen
    /\ retire_endpoint(e)
    /\ UNCHANGED <<webviews, lastWindow>>

(* A page load starts.                                                      *)
advance_webview_discovery_context(l) ==
    /\ advance_webview(l)
    /\ UNCHANGED <<endpoints, lastWindow>>

(* A window is destroyed; if it was the last one, all owners follow.        *)
retire_webview_discovery_sessions(l) ==
    /\ ~lastWindow
    /\ retire_webview(l)
    /\ lastWindow' \in BOOLEAN
    /\ UNCHANGED endpoints

retire_all_discovery_sessions ==
    /\ lastWindow
    /\ retire_all
    /\ lastWindow' = FALSE

-----------------------------------------------------------------------------
(* Closing one session *)

(* The tracked entry is removed and a fence is published under one lock.    *)
begin_session_cleanup(x) ==
    /\ x \in sessions
    /\ install_owner_cleanups({owner[x].label}, {x}, {})
    /\ UNCHANGED <<startVars, endpoints, webviews, lastWindow>>

SessionClose(x) ==
    /\ begin_session_cleanup(x)
    /\ prepare_retirement({x})

browse_peers_close(x) == kind[x] = "BrowsePeers" /\ SessionClose(x)
advertise_peer_close(x) == kind[x] = "AdvertisePeer" /\ SessionClose(x)
advertise_close(x) == kind[x] = "GenericAdvertise" /\ SessionClose(x)
browse_close(x) == kind[x] = "GenericBrowse" /\ SessionClose(x)

(* The session ended by itself: it stays in the handle map, for a           *)
(* concurrent close to find, until the native side is closed.               *)
SessionEnds(x) ==
    /\ begin_session_cleanup(x)
    /\ pc' = [pc EXCEPT ![x] = "retiring"]
    /\ UNCHANGED slab

browse_peers_next(x) == kind[x] = "BrowsePeers" /\ x \in slab /\ SessionEnds(x)
browse_next(x) == kind[x] = "GenericBrowse" /\ x \in slab /\ SessionEnds(x)

(* The refresh task of an advertisement meets an error.                     *)
RefreshEnds(x) == kind[x] = "AdvertisePeer" /\ SessionEnds(x)

(* wait_closed returns.                                                     *)
NativeClosed(x) ==
    /\ pc[x] = "retiring"
    /\ \E outcome \in {"over", "failed"} : StartGoto(x, outcome)
    /\ slab' = slab \ {x}

-----------------------------------------------------------------------------
(* Cleanup fences *)

\* Fault: a fence does not wait for the fence it replaces.
PreviousForgotten(t) == {"ok"}

(* The outcomes of the fences that a task replaced.                         *)
Previous(t) == {OutcomeOf(tasks[t].fences[k].prev, k) : k \in DOMAIN tasks[t].fences}

\* Fault: a native close that failed ends the task before its fence is finished.
CollectedOnSuccess(t) ==
    /\ "pending" \notin Previous(t)
    /\ \A x \in tasks[t].sessions : pc[x] \notin {"retiring", "failed"}
    /\ \A x \in tasks[t].starts : pc[x] \notin Leased

(* Everything the task waits for has happened.                              *)
Collected(t) ==
    /\ "pending" \notin Previous(t)
    /\ \A x \in tasks[t].sessions : pc[x] # "retiring"
    /\ \A x \in tasks[t].starts : pc[x] \notin Leased

(* None of it failed.                                                       *)
Succeeded(t) ==
    /\ "err" \notin Previous(t)
    /\ \A x \in tasks[t].sessions : pc[x] # "failed"
    /\ \A x \in tasks[t].starts : pc[x] # "lost"

(* The task has heard from the older fences, the native closes and the      *)
(* starts it captured.  A fence that failed stays listed.                   *)
FinishFence(t, l) ==
    /\ l \in DOMAIN tasks[t].fences
    /\ tasks[t].fences[l].out = "pending"
    /\ Collected(t)
    /\ tasks' = [tasks EXCEPT ![t].fences[l].out = IF Succeeded(t) THEN "ok" ELSE "err"]
    /\ cleanups' = IF Succeeded(t) /\ cleanups[l] = t THEN [cleanups EXCEPT ![l] = 0] ELSE cleanups
    /\ UNCHANGED <<pc, startVars, slab, endpoints, webviews, lastWindow>>

-----------------------------------------------------------------------------
Commands(x) ==
    \/ browse_peers(x) \/ advertise_peer(x) \/ advertise(x) \/ browse(x)
    \/ browse_peers_close(x) \/ advertise_peer_close(x) \/ advertise_close(x) \/ browse_close(x)
    \/ browse_peers_next(x) \/ browse_next(x) \/ RefreshEnds(x)
    \/ NativeClosed(x)

OwnersNext ==
    \/ \E x \in Start : Commands(x)
    \/ \E e \in Endpoint : activate_endpoint(e) \/ retire_endpoint_discovery_sessions(e)
    \/ \E l \in Label : \/ advance_webview_discovery_context(l)
                        \/ retire_webview_discovery_sessions(l)
    \/ retire_all_discovery_sessions
    \/ \E t \in 1..Len(tasks) : \E l \in Label : FinishFence(t, l)

(* The barrier has a timer, spawned tasks are polled, and the platform      *)
(* answers every start and every close.                                     *)
OwnersFairness ==
    /\ \A x \in Start : /\ WF_ownersVars(StartSteps(x))
                        /\ WF_ownersVars(NativeClosed(x))
    /\ \A t \in 1..MaxTask, l \in Label : WF_ownersVars(t <= Len(tasks) /\ FinishFence(t, l))

OwnersSpec == OwnersInit /\ [][OwnersNext]_ownersVars

-----------------------------------------------------------------------------
(* A start passes its barrier only after the platform released everything   *)
(* its label had retired when the start began: "A new context reusing that  *)
(* label waits on this fence before asking the platform to register the     *)
(* same service again."                                                     *)
NoOverlap ==
    \A y \in Start : pc[y] \notin {"idle", "barrier", "over"}
        => \A x \in before[y] : pc[x] = "over"

(* A published session belongs to a live WebView generation and a live      *)
(* endpoint generation: no late start survives the retirement of its owner. *)
TrackedAreCurrent ==
    \A x \in sessions : x \in slab /\ owner_is_current(owner[x])

(* Every cleanup fence is finished, with success or with failure: again and *)
(* again no fence is pending, and the next page does not have to run into   *)
(* the timeout.                                                             *)
FencesFinish ==
    []<>(\A t \in 1..Len(tasks) : \A l \in DOMAIN tasks[t].fences :
           tasks[t].fences[l].out # "pending")
=============================================================================
