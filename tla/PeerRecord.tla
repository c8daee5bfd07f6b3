------------------------------- MODULE PeerRecord -------------------------------
(***************************************************************************)
(* How an iroh-http peer is read from a DNS-SD service record:              *)
(* crates/iroh-http-discovery/src/lib.rs and the record conversions of      *)
(* dns_sd.rs, engine/types.rs and the mobile bridge.  PeerServiceConfig     *)
(* writes the records.                                                      *)
(*                                                                         *)
(* An IP is [fam, host]: host is "any", "loop", "link" (169.254/16 or       *)
(* fe80::/10) or a routable host.  A socket address adds a scope and a      *)
(* port.  A relay URL is an address of family 0.  Texts are abstracted to   *)
(* what they parse to.                                                      *)
(***************************************************************************)
EXTENDS Integers, Sequences

NoAddr == [fam |-> -1, host |-> "", scope |-> 0, port |-> 0]

Sock(ip, scope, port) == [fam |-> ip.fam, host |-> ip.host, scope |-> scope, port |-> port]

IpOf(a) == [fam |-> a.fam, host |-> a.host]

Relay(url) == [fam |-> 0, host |-> url, scope |-> 0, port |-> 443]

LinkLocal(a) == a.host = "link"

is_placeholder_port(p) == p = 0 \/ p = 1

is_routable_ip(ip) == ip.host \notin {"loop", "any", "link"}

---------------------------------------------------------------------------
(* Reading a record.                                                       *)

\* Only a link-local IPv6 address keeps the scope it was discovered with.
socket_addr_from_scoped(ip, port) ==
    Sock(ip, IF ip.fam = 6 /\ LinkLocal(ip) THEN ip.scope ELSE 0, port)

\* A native record is [active, bad, instance, port, ips, pk, relay, direct].
\* The desktop daemon's record without an instance label is skipped.
record_from_resolved(rs) ==
    [active |-> TRUE, instance |-> rs.instance, pk |-> rs.pk, relay |-> rs.relay,
     direct |-> rs.direct, addrs |-> {socket_addr_from_scoped(ip, rs.port) : ip \in rs.ips}]

\* RawEvent::Remove carries the instance and nothing else.
Tombstone(instance) ==
    [active |-> FALSE, instance |-> instance, pk |-> "", relay |-> NoAddr,
     direct |-> {}, addrs |-> {}]

raw_event(rs) == IF rs.active THEN record_from_resolved(rs) ELSE Tombstone(rs.instance)

same_scoped_host(l, r) ==
    /\ IpOf(l) = IpOf(r)
    /\ l.fam = 6 /\ LinkLocal(l) => l.scope = r.scope

TxtAddrs(rec) ==
    {a \in rec.direct : a.port > 1 /\ ~(a.fam = 6 /\ LinkLocal(a) /\ a.scope = 0)}

\* The caller skips a record whose event has no node id.
peer_event_from_record(rec) ==
    LET srv == {a \in rec.addrs :
                  /\ a.port > 1
                  /\ ~\E t \in TxtAddrs(rec) : same_scoped_host(t, a) /\ t.port # a.port}
    IN  [node |-> IF rec.pk # "" THEN rec.pk ELSE rec.instance,
         active |-> rec.active,
         addrs |-> IF ~rec.active THEN {}
                   ELSE srv \cup TxtAddrs(rec)
                        \cup (IF rec.relay = NoAddr THEN {} ELSE {rec.relay})]

\* What the address lookup keeps of an event's addresses.
endpoint_data(addrs) == {a \in addrs : a.fam = 0 \/ (a.fam \in {4, 6} /\ a.port > 1)}
=============================================================================
