---------------------------- MODULE DefenceLease ----------------------------
(***************************************************************************)
(* Controller implements PortLease: a port is cut while it has a drop rule *)
(* or its host is contained, limited while it only has a meter, and its    *)
(* lease runs from the last alert the controller acted on.                 *)
(***************************************************************************)
EXTENDS DefenceProperties

ModeOf(p) ==
  IF p \in drops \/ (p \in contain /\ p \notin allow) THEN "cut"
  ELSE IF p \in police THEN "limited" ELSE "open"

modes == [p \in Ports |-> ModeOf(p)]

\* The port of the operator's command that is about to be handled.
Commanded ==
  IF pc = "dispatch" /\ cur.kind \in Actions THEN {cur.port} ELSE {}

Lease == INSTANCE PortLease WITH
           guarded <- trunk_ports \union protected_access_ports,
           CutLease <- cooldown_sec,
           LimitLease <- WARNING_HOLD_SEC,
           mode <- modes,
           quiet <- alert_age,
           command <- Commanded

\* With every switch connected, alerts, expiries, rollbacks and operator
\* commands only ever move a port the way its lease allows: no early release,
\* no downgrade from cut to limited, no effect on a guarded port.
LeasesKept == Lease!Spec
=============================================================================
