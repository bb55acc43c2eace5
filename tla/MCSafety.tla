------------------------------ MODULE MCSafety ------------------------------
(***************************************************************************)
(* Three ports that could each be a target.                                *)
(***************************************************************************)
EXTENDS SafetySystem

MCPorts == {<<1, 2>>, <<1, 5>>, <<2, 5>>}
=============================================================================
