------------------------------ MODULE MCAdapters ------------------------------
(***************************************************************************)
(* The components of the adapters on small instances.  A scenario picks the  *)
(* component that runs, and for some of them what it is asked to do; the     *)
(* others stay in a state where none of their fair actions is enabled.       *)
(***************************************************************************)
EXTENDS AdapterCommands, DenoServe, DenoBuffers, PathWatch, AdapterDiscovery, EndpointTable

VARIABLE scenario

denoAlone == <<bufferVars, endpointVars, pathVars, discoveryVars, tableVars>>
buffersAlone == <<denoVars, endpointVars, pathVars, discoveryVars, tableVars>>
pathAlone == <<denoVars, bufferVars, discoveryVars, tableVars>>
discoveryAlone == <<denoVars, bufferVars, pathVars, tableVars>>
tableAlone == <<denoVars, bufferVars, endpointVars, pathVars, discoveryVars>>

adapterVars == <<scenario, call, denoVars, denoAlone>>

---------------------------------------------------------------------------
(* Requests of the Deno queue: one that fits the first buffer, one that does *)
(* not.  Three endpoints, two with the same key.  The discovery sessions.    *)

MCSize == "a" :> 1 @@ "b" :> 3

MCKeyOf == "e1" :> "k" @@ "e2" :> "k" @@ "e3" :> "l"

MCKindOf == "pb" :> "peerBrowse" @@ "pa" :> "peerAdvertise" @@ "gb" :> "browse" @@ "ga" :> "advertise"

\* The sessions a scenario starts.
Started(sc) ==
    CASE sc = "peers"   -> {"pb", "pa"}
      [] sc = "browses" -> {"pb", "gb"}
      [] sc = "adverts" -> {"pa", "ga"}

---------------------------------------------------------------------------
(* Calls with results of one or two units, a first buffer of one, chunks     *)
(* that fit and chunks that do not.                                         *)

BP(b1, b2, b3, sizes) == [calls |-> ("b1" :> b1 @@ "b2" :> b2 @@ "b3" :> b3), chunks |-> sizes]

NoBuffers == BP(<<"off", 1>>, <<"off", 1>>, <<"off", 1>>, <<>>)

MCBufPlans == {
    NoBuffers,
    BP(<<"call", 2>>, <<"call", 2>>, <<"call", 2>>, <<>>),
    BP(<<"callback", 2>>, <<"polled", 2>>, <<"error", 2>>, <<>>),
    BP(<<"callback", 1>>, <<"polled", 1>>, <<"error", 1>>, <<>>),
    BP(<<"call", 1>>, <<"off", 2>>, <<"off", 2>>, <<1, 2, 2, 1>>),
    BP(<<"call", 1>>, <<"off", 2>>, <<"off", 2>>, <<2, 3, 4, 2, 1>>)}

---------------------------------------------------------------------------
(* Path subscriptions: iterators that stop while the endpoint stays open, or *)
(* an endpoint that closes while one of them is read and the other kept.     *)

PathPlan ==
    /\ scenario = "stops" => closing' = "idle"
    /\ scenario = "closes" => iter'["s2"].un = iter["s2"].un \/ iter'["s2"].got \in {"null", "early"}
    /\ scenario = "closes" /\ closing' = "core" => iter["s1"].call # "idle" \/ iter["s2"].call # "idle"

---------------------------------------------------------------------------

AdaptersInit ==
    /\ scenario \in {"commands", "deno", "buffers", "stops", "closes", "peers", "browses", "adverts", "table"}
    /\ IF scenario = "commands" THEN CallInit ELSE call = NoCall
    /\ EndpointInit /\ adapter = "node"
    /\ DenoInit /\ BufferInit /\ PathInit /\ DiscoveryInit /\ TableInit
    /\ scenario = "buffers" <=> \E b \in BCall : bcall[b].kind # "off"

AdaptersNext ==
    /\ \/ scenario = "deno" /\ DenoNext /\ UNCHANGED denoAlone
       \/ scenario = "buffers" /\ BufferNext /\ UNCHANGED buffersAlone
       \/ scenario \in {"stops", "closes"} /\ PathNext /\ UNCHANGED pathAlone /\ PathPlan
       \/ /\ scenario \in {"peers", "browses", "adverts"}
          /\ DiscoveryNext /\ UNCHANGED discoveryAlone
          /\ \A r \in DRes \ Started(scenario) : dstart'[r] = "idle"
       \/ scenario = "table" /\ TableNext /\ UNCHANGED tableAlone
    /\ UNCHANGED <<scenario, call>>

AdaptersSpec ==
    /\ AdaptersInit /\ [][AdaptersNext]_adapterVars
    /\ DenoFairness /\ PathFairness /\ DiscoveryFairness /\ TableFairness
=============================================================================
