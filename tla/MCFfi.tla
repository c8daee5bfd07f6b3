--------------------------------- MODULE MCFfi ---------------------------------
(***************************************************************************)
(* The components behind the FFI boundary on small instances.  A scenario    *)
(* picks the component that runs; the others stay in a state where none of   *)
(* their fair actions is enabled.                                           *)
(***************************************************************************)
EXTENDS AdapterCommands, RequestDispatch, HandleRegistry, Sessions, FfiFetch, ServeLifecycle

CONSTANTS q1, q2

VARIABLE scenario

dispatchAlone == <<registryVars, sessionVars, ffiFetchVars, lifecycleVars>>
registryAlone == <<dispatchVars, sessionVars, ffiFetchVars, lifecycleVars>>
sessionsAlone == <<dispatchVars, registryVars, ffiFetchVars, lifecycleVars>>
fetchAlone == <<dispatchVars, registryVars, sessionVars, lifecycleVars>>
lifecycleAlone == <<dispatchVars, registryVars, sessionVars, ffiFetchVars>>

ffiVars == <<scenario, call, endpointVars, dispatchVars, dispatchAlone>>

---------------------------------------------------------------------------
(* Sessions: which are open, what may happen to them, what is called.        *)

Off == <<"off", "a">>

Calls(open, events, k1, k2, k3, k4) ==
    [open |-> open, events |-> events,
     calls |-> ("k1" :> k1 @@ "k2" :> k2 @@ "k3" :> k3 @@ "k4" :> k4)]

NoSessions == Calls({}, {}, Off, Off, Off, Off)

MCSessPlans == {
    NoSessions,
    \* closing one session of two, and the endpoint
    Calls({}, {"close"}, <<"connect", "a">>, <<"connect", "b">>, <<"closeSession", "a">>, <<"closed", "b">>),
    \* no room for a third
    Calls({"b", "c"}, {"close", "sweep"}, <<"accept", "a">>, <<"nextBidi", "b">>, Off, Off),
    \* a peer that leaves
    Calls({"b"}, {"peer"}, <<"accept", "a">>, <<"nextUni", "b">>, <<"recvDatagram", "a">>, <<"closed", "b">>),
    \* streams that compete for the tables
    Calls({"a"}, {}, <<"createBidi", "a">>, <<"nextBidi", "a">>, <<"nextUni", "a">>, <<"createUni", "a">>),
    Calls({"a"}, {"peer", "close"}, <<"createBidi", "a">>, <<"nextBidi", "a">>, <<"recvDatagram", "a">>, Off),
    \* a session swept while calls wait on it
    Calls({"a"}, {"sweep", "peer", "close"},
          <<"closed", "a">>, <<"closed", "a">>, <<"sendDatagram", "a">>, <<"closeSession", "a">>)}

---------------------------------------------------------------------------
(* Fetches: with a body, with a signal, valid, with a timeout.              *)

P(body, signal, valid, time) == [body |-> body, signal |-> signal, valid |-> valid, time |-> time]

NoFetches == [f \in {"f1", "f2"} |-> NoFetch]

MCFetchPlans ==
    {("f1" :> p @@ "f2" :> NoFetch) :
        p \in {P(TRUE, TRUE, TRUE, FALSE), P(FALSE, TRUE, TRUE, TRUE),
               P(TRUE, FALSE, FALSE, FALSE), P(FALSE, FALSE, TRUE, FALSE), NoFetch}}
    \cup {"f1" :> P(TRUE, FALSE, FALSE, FALSE) @@ "f2" :> P(FALSE, TRUE, TRUE, FALSE)}

---------------------------------------------------------------------------

FfiInit ==
    /\ scenario \in {"dispatch", "registry", "sessions", "fetch", "lifecycle"}
    /\ call = NoCall /\ EndpointInit /\ adapter = "node"
    /\ DispatchInit /\ RegistryInit /\ SessionInit /\ FetchInit /\ LifecycleInit
    /\ scenario = "sessions" <=> \E k \in SCall : scall[k].op # "off"
    /\ scenario = "fetch" <=> fplan # NoFetches
    /\ scenario # "lifecycle" => closer.kind = "force"

FfiNext ==
    /\ \/ scenario = "sessions" /\ SessionNext /\ UNCHANGED sessionsAlone
       \/ scenario = "fetch" /\ FetchNext /\ UNCHANGED fetchAlone
       \/ /\ UNCHANGED endpointVars
          /\ \/ scenario = "dispatch" /\ DispatchNext /\ UNCHANGED dispatchAlone
             \/ scenario = "registry" /\ RegistryNext /\ UNCHANGED registryAlone
             \/ scenario = "lifecycle" /\ LifecycleNext /\ UNCHANGED lifecycleAlone
    /\ UNCHANGED <<scenario, call>>

FfiSpec ==
    /\ FfiInit /\ [][FfiNext]_ffiVars
    /\ DispatchFairness /\ RegistryFairness /\ SessionFairness
    /\ FetchFairness /\ LifecycleFairness
=============================================================================
