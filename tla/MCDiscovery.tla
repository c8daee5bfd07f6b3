------------------------------ MODULE MCDiscovery ------------------------------
(***************************************************************************)
(* The three discovery machines in one model: the ownership fences of the   *)
(* mobile plugin, one peer browse, one peer advertisement.  They share no   *)
(* state here; a behaviour runs one of them, chosen by the initial plan and *)
(* setup, and the others are off.                                           *)
(***************************************************************************)
EXTENDS Advertisement, PeerBrowse, MCDiscoveryOwnership

Ip(f, h) == [fam |-> f, host |-> h]
V4(h) == [fam |-> 4, host |-> h, scope |-> 0]
AddrAt(f, h, p) == [fam |-> f, host |-> h, scope |-> 0, port |-> p]

MCOther == AddrAt(4, "z", 7)

---------------------------------------------------------------------------
(* Advertisements.                                                         *)

Iface(f, h) == [ip |-> Ip(f, h), up |-> TRUE, p2p |-> FALSE]
Down == [Iface(4, "d") EXCEPT !.up = FALSE]
Ep(ips, relay) == [ips |-> ips, relay |-> relay]

DesktopSetup ==
    [mode |-> "desktop", bound |-> <<AddrAt(4, "any", 5), AddrAt(6, "any", 6)>>,
     nodes |-> <<Ep(<<AddrAt(4, "x", 1)>>, NoAddr),
                 Ep(<<AddrAt(4, "x", 5), AddrAt(4, "nat", 9)>>, Relay("r"))>>,
     inventories |-> <<<<Iface(4, "x"), Iface(6, "x"), Down>>, <<Iface(6, "x"), Iface(6, "link")>>>>]

MobileSetup ==
    [mode |-> "mobile", bound |-> <<AddrAt(4, "any", 5)>>,
     nodes |-> <<Ep(<<AddrAt(4, "x", 1)>>, NoAddr), Ep(<<AddrAt(4, "nat", 9)>>, NoAddr)>>,
     inventories |-> <<<<Iface(4, "x")>>>>]

NoSetup == [MobileSetup EXCEPT !.mode = "off"]

MCSetups == {DesktopSetup, MobileSetup, NoSetup}

\* Only a mobile advertisement.
MCMobile == {MobileSetup}

---------------------------------------------------------------------------
(* Browses.                                                                *)

Up(i, pk, direct) == [active |-> TRUE, bad |-> FALSE, instance |-> i, port |-> 9, pk |-> pk,
                      relay |-> NoAddr, direct |-> direct, ips |-> {V4("x")}]
Gone(i) == [Up(i, "", {}) EXCEPT !.active = FALSE]

R1 == Up("i1", "n1", {})
R2 == Up("i1", "n2", {AddrAt(4, "x", 8)})
R3 == Up("i2", "n1", {AddrAt(4, "y", 8)})
Junk == Up("i1", "junk", {})
Bad == [Up("i2", "n2", {}) EXCEPT !.bad = TRUE]

Plan(k, threads, script, events) ==
    [kind |-> k, threads |-> threads, script |-> script, events |-> events]

NoBrowse == Plan("off", {}, <<>>, {})

Reading ==
    {Plan("mdns", {"p1", "p2"}, <<R1, R3, R2>>, {"other session"}),
     Plan("mdns", {"p1", "p2"}, <<R3, R1, Junk>>, {}),
     Plan("mobile", {"p1"}, <<R1, R2, Gone("i1")>>, {"other session"})}
Closing ==
    {Plan("mobile", {"p1", "c1"}, <<R1>>, {}),
     Plan("mdns", {"p1", "c1"}, <<R1>>, {"endpoint closes"})}
Ending ==
    {Plan("mdns", {"p1", "p2", "c1"}, <<R1>>, {"closed"}),
     Plan("mobile", {"p1"}, <<R1>>, {"closed", "failed"}),
     Plan("mobile", {"p1", "c1"}, <<R1, Bad>>, {"failed"}),
     Plan("mobile", {"c1", "c2"}, <<>>, {})}

---------------------------------------------------------------------------

NoOwners == plan.kind # "off" \/ setup.mode # "off"

MCInit ==
    /\ OwnersInit /\ AdInit
    /\ BrowseInit({NoBrowse} \cup IF setup.mode # "off" THEN {} ELSE Reading \cup Closing \cup Ending)
    /\ NoOwners => kind = Pairs("BrowsePeers", "AdvertisePeer")

MCNext ==
    \/ ~NoOwners /\ OwnersNext /\ UNCHANGED <<browseVars, adVars>>
    \/ BrowseNext /\ UNCHANGED <<ownersVars, adVars>>
    \/ AdNext /\ UNCHANGED <<ownersVars, browseVars>>

MCSpec ==
    /\ MCInit /\ [][MCNext]_<<ownersVars, browseVars, adVars>>
    /\ OwnersFairness /\ BrowseFairness /\ AdFairness
=============================================================================
