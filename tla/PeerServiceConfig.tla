---------------------------- MODULE PeerServiceConfig ----------------------------
(***************************************************************************)
(* How an iroh-http peer is written into a DNS-SD service record:           *)
(* peer_service_config_from_reconciled_snapshot and what it calls in        *)
(* crates/iroh-http-discovery/src/lib.rs.  The length of an address text is *)
(* TextLen.                                                                 *)
(***************************************************************************)
EXTENDS PeerRecord, SequencesExt

CONSTANTS TxtBudget    \* bytes left for the value of one TXT entry

TextLen(a) == IF a.fam = 4 THEN 2 ELSE 3

\* As many complete values as fit, in order, with one separator between two.
fit_txt_values(values) ==
    LET add(acc, v) ==
          LET n == acc.len + (IF acc.out = <<>> THEN 0 ELSE 1) + TextLen(v)
          IN  IF n > TxtBudget THEN acc ELSE [len |-> n, out |-> Append(acc.out, v)]
    IN  FoldLeft(add, [len |-> 0, out |-> <<>>], values).out

Unique(s) == FoldLeft(LAMBDA acc, x : IF Contains(acc, x) THEN acc ELSE Append(acc, x), <<>>, s)

Matches(b, ip) == b.fam = ip.fam /\ (b.host = "any" \/ b.host = ip.host)

compatible_bound(bound, ip) ==
    SelectInSeq(bound, LAMBDA b : ~is_placeholder_port(b.port) /\ Matches(b, ip))

\* Every dialable direct candidate: the endpoint's own, then the interfaces'.
peer_direct_addresses(ip_addrs, bound, interface_ips) ==
    LET port(ip) == bound[compatible_bound(bound, ip)].port
        own == SelectSeq(ip_addrs, LAMBDA a :
                 /\ is_routable_ip(a)
                 /\ is_placeholder_port(a.port) => compatible_bound(bound, a) # 0)
        ifs == SelectSeq(interface_ips, LAMBDA ip :
                 is_routable_ip(ip) /\ compatible_bound(bound, ip) # 0)
    IN  Unique([i \in DOMAIN own |->
                  IF is_placeholder_port(own[i].port)
                  THEN Sock(own[i], 0, port(own[i])) ELSE own[i]]
               \o [i \in DOMAIN ifs |-> Sock(ifs[i], 0, port(ifs[i]))])

\* i.p2p: a point-to-point interface, or one of Apple's awdl and llw links.
mdns_interface_is_usable(i) == i.up /\ ~i.p2p

operational_interface_ips(ifaces) ==
    LET up == SelectSeq(ifaces, LAMBDA i : mdns_interface_is_usable(i))
    IN  [k \in DOMAIN up |-> up[k].ip]

interface_is_eligible(direct, ip, b) ==
    /\ is_routable_ip(ip)
    /\ Matches(b, ip)
    /\ ~\E c \in ToSet(direct) : IpOf(c) = ip /\ c.port # b.port

NoConfig == [port |-> 0, addrs |-> {}, relay |-> NoAddr, direct |-> <<>>]

\* Fault: a candidate the session once saw locally stays after its interface left.
stale_candidates(node_addr, interface_ips, known) == node_addr.ips

\* Without provenance, a candidate once seen on an interface goes with it.
live_candidates(node_addr, interface_ips, known) ==
    SelectSeq(node_addr.ips, LAMBDA a :
        IpOf(a) \in known => IpOf(a) \in ToSet(interface_ips))

\* One SRV port, the interfaces it is valid for, and every candidate in TXT.
peer_service_config_from_reconciled_snapshot(bound, node_addr, interface_ips, known) ==
    LET live == live_candidates(node_addr, interface_ips, known)
        direct == peer_direct_addresses(live, bound, interface_ips)
        real(b) == ~is_placeholder_port(b.port)
        on_interface == SelectInSeq(bound, LAMBDA b :
            real(b) /\ \E ip \in ToSet(interface_ips) : interface_is_eligible(direct, ip, b))
        on_candidate == SelectInSeq(bound, LAMBDA b :
            real(b) /\ \E c \in ToSet(direct) : c.port = b.port /\ Matches(b, c))
        first_real == SelectInSeq(bound, LAMBDA b : real(b))
        chosen == IF on_interface # 0 THEN on_interface
                  ELSE IF on_candidate # 0 THEN on_candidate ELSE first_real
        port == bound[chosen].port
        group == {b \in ToSet(bound) : b.port = port}
        addrs == {ip \in ToSet(interface_ips) :
                    \E b \in group : interface_is_eligible(direct, ip, b)}
        fallback == {IpOf(c) : c \in {c \in ToSet(direct) :
                       c.port = port /\ \E b \in group : Matches(b, c)}}
    IN  IF chosen = 0 THEN NoConfig
        ELSE [port |-> port, addrs |-> IF addrs = {} THEN fallback ELSE addrs,
              relay |-> node_addr.relay, direct |-> fit_txt_values(direct)]

\* What a browser on the same link reads from an advertised config.
AsResolved(instance, config) ==
    [active |-> TRUE, instance |-> instance, pk |-> instance, relay |-> config.relay,
     port |-> config.port, direct |-> ToSet(config.direct),
     ips |-> {[fam |-> ip.fam, host |-> ip.host, scope |-> 0] : ip \in config.addrs}]
=============================================================================
