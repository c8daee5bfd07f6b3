-------------------------------- MODULE MCHttp --------------------------------
(***************************************************************************)
(* The serving and the fetching side on small instances: one connection with *)
(* two streams of a serve cycle, or two concurrent fetches of one peer.  A   *)
(* scenario picks the side; the other rests in its initial state, where none *)
(* of its fair actions is enabled.                                          *)
(***************************************************************************)
EXTENDS ServeRuntime, FetchRequest

CONSTANTS c1, p1, s1, s2, f1, f2

MCPeerOf == [c \in {c1} |-> p1]
MCConnOf == [s \in {s1, s2} |-> c1]

VARIABLE scenario

HttpInit == scenario \in {"serve", "fetch"} /\ Init /\ RequestInit

HttpNext ==
    /\ \/ scenario = "serve" /\ Next /\ UNCHANGED requestVars
       \/ scenario = "fetch" /\ RequestNext /\ UNCHANGED vars
    /\ UNCHANGED scenario

HttpSpec ==
    /\ HttpInit /\ [][HttpNext]_<<scenario, vars, requestVars>>
    /\ Fairness /\ RequestFairness
=============================================================================
