---------------------------- MODULE MCDashboard -----------------------------
(***************************************************************************)
(* Instances of Dashboard for TLC: which messages Redis delivers.          *)
(***************************************************************************)
EXTENDS DashboardProperties

Alert(p) == [type |-> "sdn:anomaly:alert", port |-> p]
Sync(p)  == [type |-> "sdn:topology:sync", phase |-> p]
Command(a) == [type |-> "sdn:control:command", action |-> a]

attacker == "S1:2"
port5    == "S1:5"
MCDashPorts == {attacker, port5}

\* One incident: alert, isolation, back to NORMAL.
OneIncident  == {Alert(attacker), Command("ISOLATE"), Sync("NORMAL")}
=============================================================================
