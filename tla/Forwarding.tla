----------------------------- MODULE Forwarding -----------------------------
(***************************************************************************)
(* The controller towards its switches: the rules of a switch that         *)
(* connects, the rules of the defence commands, and the packets that no    *)
(* rule forwards.  Hosts are "h1" and "h2" on S1 and the server "srv" on   *)
(* S4.  The protocols a user may use towards the server (HTTP, DNS, ICMP)  *)
(* are treated alike and are one, "service".                               *)
(***************************************************************************)
EXTENDS Switch

\* The rules and routes below are those of the four switches of the diamond.
ASSUME SwitchesAssumption == Switches = 1..4

Users == {"h1", "h2"}
Hosts == Users \union {"srv"}
arp_table == [h1 |-> <<1, 1>>, h2 |-> <<1, 2>>, srv |-> <<4, 1>>]
trunk_ports == <<{3, 4}, {1, 2}, {1, 2}, {2, 3}>>
link == {{<<1, 3>>, <<2, 1>>}, {<<1, 4>>, <<3, 1>>}, {<<2, 2>>, <<4, 2>>},
         {<<3, 2>>, <<4, 3>>}}

\* Mutant: S3 sends traffic for the server back to S1.
Mut_routing_table ==
  << [h1 |-> 1, h2 |-> 2, srv |-> 3], [h1 |-> 1, h2 |-> 1, srv |-> 2],
     [h1 |-> 1, h2 |-> 1, srv |-> 1], [h1 |-> 2, h2 |-> 2, srv |-> 1] >>

routing_table ==
  << [h1 |-> 1, h2 |-> 2, srv |-> 3], [h1 |-> 1, h2 |-> 1, srv |-> 2],
     [h1 |-> 1, h2 |-> 1, srv |-> 2], [h1 |-> 2, h2 |-> 2, srv |-> 1] >>

In(port) == <<"in_port", port>>
Dst(ip) == <<"ipv4_dst", ip>>
Src(ip) == <<"ipv4_src", ip>>
IP == <<"eth_type", "ip">>
ARP == <<"eth_type", "arp">>
L4(kind) == <<"l4", kind>>

R == INSTANCE RerouteEngine WITH Ports <- {arp_table[h] : h \in Hosts}

VARIABLES quarantined_hosts, arp_fail_targets

forwarding_vars == <<switch_vars, quarantined_hosts, arp_fail_targets>>

(***************************************************************************)
(* switch_features_handler and _install_policy_table                       *)
(***************************************************************************)
Pass(priority, match) == Rule("policy", priority, match, "next", 0)
Deny(priority, match) == Rule("policy", priority, match, "drop", 0)

UserZone(port) == Pass(200, {In(port), IP, Dst("srv"), L4("service")})
QuarantineZone(port) == Pass(300, {In(port), IP, Dst("mgmt"), L4("manage")})

PolicyTable(s) ==
  LET here == {h \in Hosts : arp_table[h][1] = s}
  IN UNION {
       {Pass(65535, {In(port)}) : port \in trunk_ports[s]},
       {Pass(500, {ARP}), Pass(400, {IP, Src("probe")}), Pass(400, {IP, Dst("probe")}),
        Deny(350, {IP, L4("noise")})},
       {IF h = "srv" THEN Pass(100, {In(arp_table[h][2]), IP, L4("reply")})
        ELSE UserZone(arp_table[h][2]) : h \in here},
       {Deny(0, {In(arp_table[h][2])}) : h \in here}}

Installed(s) ==
  PolicyTable(s) \union {Rule("police", 0, {}, "next", 0),
                         Rule("forward", 0, {}, "controller", 0)}

ForwardingInit ==
  /\ table = [s \in Switches |-> Installed(s)]
  /\ channel = [s \in Switches |-> <<>>]
  /\ up = Switches
  /\ quarantined_hosts = {}
  /\ arp_fail_targets = {}

(***************************************************************************)
(* The defence commands                                                    *)
(***************************************************************************)
\* Mutant: below the rules of the routes.
MutDrop(port) == Rule("forward", 5, {In(port)}, "drop", 0)

Drop(port) == Rule("forward", 100, {In(port)}, "drop", 0)

isolate_port(h) ==
  LET at == arp_table[h]
  IN /\ at[1] \in up
     /\ channel' = Sent(To(at[1], <<add_flow(Drop(at[2]))>>))
     /\ UNCHANGED <<table, up, quarantined_hosts, arp_fail_targets>>

restore_port(h) ==
  LET at == arp_table[h]
  IN /\ at[1] \in up
     /\ channel' = Sent(To(at[1], <<delete_flow("forward", {In(at[2])})>>))
     /\ UNCHANGED <<table, up, quarantined_hosts, arp_fail_targets>>

\* police_matches: what is limited differs by threat, how it is limited does
\* not; the model limits the user's service traffic.
Limit(port) == Rule("police", 100, {In(port), IP, L4("service")}, "meter", port)

rate_limit_port(h) ==
  LET at == arp_table[h]
  IN /\ at[1] \in up
     /\ channel' = Sent(To(at[1], <<delete_meter(at[2]), delete_flow("police", {In(at[2])}),
                                    add_flow(Limit(at[2]))>>))
     /\ UNCHANGED <<table, up, quarantined_hosts, arp_fail_targets>>

unrate_limit_port(h) ==
  LET at == arp_table[h]
  IN /\ at[1] \in up
     /\ channel' = Sent(To(at[1], <<delete_flow("police", {In(at[2])}), delete_meter(at[2])>>))
     /\ UNCHANGED <<table, up, quarantined_hosts, arp_fail_targets>>

\* Mutant: the quarantine opens before the user zone is closed.
Mut_quarantine_host(h) ==
  LET at == arp_table[h]
  IN /\ channel' = Sent(To(at[1], <<add_flow(QuarantineZone(at[2])),
                                    delete_flow("policy", UserZone(at[2]).match)>>))
     /\ quarantined_hosts' = quarantined_hosts \union {h}
     /\ UNCHANGED <<table, up, arp_fail_targets>>

quarantine_host(h) ==
  LET at == arp_table[h]
  IN /\ channel' = Sent(To(at[1], <<delete_flow("policy", UserZone(at[2]).match),
                                    add_flow(QuarantineZone(at[2]))>>))
     /\ quarantined_hosts' = quarantined_hosts \union {h}
     /\ UNCHANGED <<table, up, arp_fail_targets>>

release_host(h) ==
  LET at == arp_table[h]
  IN /\ channel' = Sent(To(at[1], <<delete_flow("policy", QuarantineZone(at[2]).match),
                                    add_flow(UserZone(at[2]))>>))
     /\ quarantined_hosts' = quarantined_hosts \ {h}
     /\ UNCHANGED <<table, up, arp_fail_targets>>

\* get_path_flow_specs: the port of s towards the next switch of the path.
Path == R!compute_reroute_path(1)
SpecPort(s) ==
  LET next == Path[1 + (CHOOSE i \in DOMAIN Path : Path[i] = s)]
  IN CHOOSE port \in trunk_ports[s] :
       \E l \in link : <<s, port>> \in l /\ \E far \in l : far[1] = next
Bypass(s) == Rule("forward", 20, {IP, Dst("srv")}, "output", SpecPort(s))

reroute_traffic ==
  /\ channel' = Sent([s \in Switches |->
                        IF s \in R!SpecDpids[1] THEN <<add_flow(Bypass(s))>> ELSE <<>>])
  /\ UNCHANGED <<table, up, quarantined_hosts, arp_fail_targets>>

restore_reroute_traffic ==
  /\ channel' = Sent([s \in Switches |->
                        IF s \in R!SpecDpids[1]
                        THEN <<delete_flow("forward", Bypass(s).match)>> ELSE <<>>])
  /\ UNCHANGED <<table, up, quarantined_hosts, arp_fail_targets>>

(***************************************************************************)
(* packet_in_handler: the answer to a packet that switch s reports         *)
(***************************************************************************)
\* A host's rule to its destination, forgotten when no packet uses it.
Learned(ip, port) == Rule("forward", 10, {IP, Dst(ip)}, "output", port)

Nothing == <<>>

\* Mutant: the rule is set up and the packet forgotten.
Mut_handle_ipv4(s, port, ip) ==
  LET out == routing_table[s][ip]
  IN IF ip \notin DOMAIN routing_table[s] \/ out = port THEN Nothing
     ELSE <<add_flow(Learned(ip, out))>>

handle_ipv4(s, port, ip) ==
  LET out == routing_table[s][ip]
  IN IF ip \notin DOMAIN routing_table[s] \/ out = port THEN Nothing
     ELSE <<add_flow(Learned(ip, out)), packet_out(out)>>

\* The route of the probe's answers is the one to h1.
_handle_probe_reply(s, port) ==
  LET out == routing_table[s]["h1"]
  IN IF s = 1 \/ out = port THEN Nothing
     ELSE <<add_flow(Learned("probe", out)), packet_out(out)>>

handle_arp(port, ip) ==
  IF ip \in Hosts \union {"probe"} THEN <<packet_out(port)>> ELSE Nothing

packet_in_handler(s, port, packet) ==
  LET ip == CHOOSE ip \in Hosts \union {"probe", "mgmt", "nobody"} : Dst(ip) \in packet
  IN CASE ARP \in packet -> handle_arp(port, ip)
       [] ARP \notin packet /\ ip = "probe" -> _handle_probe_reply(s, port)
       [] OTHER -> handle_ipv4(s, port, ip)
=============================================================================
