---------------------------- MODULE MCController ----------------------------
(***************************************************************************)
(* Instances of Controller for TLC: ports of the repository's topology,    *)
(* and the alerts and commands each run lets through.  port5 is a port     *)
(* that neither table of the whitelist guard names.                        *)
(***************************************************************************)
EXTENDS DefenceLease

legit    == <<1, 1>>       \* H_legit, protected
attacker == <<1, 2>>       \* H_attacker
trunk    == <<1, 3>>       \* S1 - S2
port5    == <<1, 5>>

MCPorts     == {legit, attacker, trunk}
MCTwoPorts  == {attacker, trunk, port5}
MCTrunk     == {trunk}
MCProtected == {legit}
MCHosts     == {legit, attacker}
MCOneHost   == {attacker}

Alerts(ports) ==
  [kind : AlertStages, port : ports, spread : {FALSE}, manual : {FALSE}]
Spread(ports) ==
  [kind : {"DANGER"}, port : ports, spread : {TRUE}, manual : {FALSE}]
Manual(actions, ports) ==
  [kind : actions, port : ports, spread : {FALSE}, manual : {TRUE}]

\* Nobody but the detector speaks.
AutonomyMessages == Alerts({attacker, port5, trunk})

OperatorMessages ==
  Alerts({attacker, legit, trunk}) \union Spread({attacker, legit, trunk})
    \union Manual({"ISOLATE", "RESTORE"}, {attacker, legit, trunk})
    \union Manual({"QUARANTINE", "RELEASE", "REROUTE"}, {attacker})

FaultMessages ==
  Alerts({attacker}) \union Spread({attacker, legit})
    \union Manual({"ISOLATE", "RESTORE"}, {attacker})

\* The operator restores another port than the one that was isolated.
OtherPortMessages == Alerts({attacker}) \union Manual({"RESTORE"}, {legit})

AttackMessages == Alerts({attacker})
=============================================================================
