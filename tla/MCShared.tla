------------------------------- MODULE MCShared -------------------------------
(***************************************************************************)
(* Larger instances for safety alone: connections that compete for the slots *)
(* of a serve cycle, and discovery starts that compete for the labels of two *)
(* WebViews.  A scenario picks one of the two.                              *)
(***************************************************************************)
EXTENDS ServeRuntime, MCDiscoveryOwnership

CONSTANTS c1, c2, c3, p1, p2

\* Two connections of peer p1 and one of p2, which exchange no requests.
MCPeerOf == [c \in {c1, c2, c3} |-> IF c = c3 THEN p2 ELSE p1]
MCConnOf == [s \in {} |-> c1]

VARIABLE scenario

SharedInit ==
    /\ scenario \in {"admission", "owners"} /\ Init /\ OwnersInit
    /\ scenario = "admission" => kind = Pairs("BrowsePeers", "AdvertisePeer")

SharedNext ==
    /\ \/ scenario = "admission" /\ Next /\ UNCHANGED ownersVars
       \/ scenario = "owners" /\ OwnersNext /\ UNCHANGED vars
    /\ UNCHANGED scenario

SharedSpec == SharedInit /\ [][SharedNext]_<<scenario, vars, ownersVars>>
=============================================================================
