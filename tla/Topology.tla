------------------------------ MODULE Topology ------------------------------
(***************************************************************************)
(* What every module of the defence refers to: the four switches of the    *)
(* diamond S1-S2-S4 / S1-S3-S4, and the switch ports that an alert or a    *)
(* command can name, as pairs <<dpid, port_no>> (the code's "dpid:port").  *)
(***************************************************************************)
EXTENDS Naturals

CONSTANT Ports

Dpids == 1..4

ASSUME PortsAssumption == Ports \subseteq Dpids \X Nat

Dpid(p) == p[1]
=============================================================================
