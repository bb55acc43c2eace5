---------------------------- MODULE MCSensing -------------------------------
(***************************************************************************)
(* One port.  A unit of rate is some ten packets per second; the profiles  *)
(* are the traffic of the repository's generators: usual traffic somewhat  *)
(* above what was learned beforehand, UDP that grows from there, a flood of *)
(* UDP and SYN together, and a scan that is refused.  More connections     *)
(* ended than began while the gap was learned.                             *)
(***************************************************************************)
EXTENDS Sensing

Quiet == [syn |-> 1, fin |-> 1, rst |-> 0, udp |-> 2, icmp |-> 0, rst_in |-> 0,
          unreach_in |-> 0, arp_fail |-> 0, zone_deny |-> 0, gap |-> 0, fail |-> 0]
Ramp == [Quiet EXCEPT !.udp = 3]
Flood == [Quiet EXCEPT !.udp = 4, !.syn = 7]
Scan == [Quiet EXCEPT !.rst_in = 1]

MCPorts == {<<1, 2>>}
MCCounts == {Quiet, Ramp, Flood, Scan}
MCBase == [p \in MCPorts |-> [ind \in WATCHED_INDICATORS |->
             CASE ind = "gap" -> -1
               [] ind \in {"icmp", "fail"} -> 0
               [] OTHER -> 1]]
MCFloors == [ind \in WATCHED_INDICATORS |-> IF ind = "syn" THEN 3 ELSE 1]
MCAttackFloors == [ind \in {"udp", "icmp", "gap"} |-> 3]
=============================================================================
