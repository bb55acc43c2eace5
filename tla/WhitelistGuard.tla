--------------------------- MODULE WhitelistGuard ---------------------------
(***************************************************************************)
(* harness/safety/whitelist_guard.py: which switch ports the defence may   *)
(* never cut off.                                                          *)
(***************************************************************************)
EXTENDS Topology

CONSTANTS
  trunk_ports,              \* ports of links between switches
  protected_access_ports    \* ports of hosts that must never be isolated

\* Mutant: refused only when both tables name the port.
Mut_can_isolate(p) == ~(p \in protected_access_ports /\ p \in trunk_ports)

\* can_isolate: neither a protected access port nor a trunk port.
\* validate_isolation_target raises ValueError on exactly the other ports.
can_isolate(p) == p \notin protected_access_ports /\ p \notin trunk_ports

Isolatable == {p \in Ports : can_isolate(p)}
=============================================================================
