------------------------- MODULE MCDiscoveryOwnership -------------------------
EXTENDS DiscoveryOwnership

CONSTANTS s1, s2

Pairs(a, b) == [x \in Start |-> IF x = s1 THEN a ELSE b]

MCPlans == {Pairs("BrowsePeers", "AdvertisePeer"), Pairs("GenericAdvertise", "GenericBrowse")}
=============================================================================
