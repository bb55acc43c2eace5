--------------------------- MODULE DefenceHistory ---------------------------
(***************************************************************************)
(* Controller with a history variable the code does not keep: when each    *)
(* port was last reported by an alert, whether or not it was acted on.     *)
(***************************************************************************)
EXTENDS DefenceProperties

VARIABLES
  heard_age         \* since the last DANGER or WARNING alert on the port

HInit ==
  /\ Init
  /\ heard_age = [p \in Ports |-> cooldown_sec]

Hears ==
  heard_age' = IF pc = "dispatch" /\ cur.kind \in AlertStages
               THEN [heard_age EXCEPT ![cur.port] = 0] ELSE heard_age

HNext ==
  \/ /\ Tick
     /\ heard_age' = [p \in Ports |-> IF heard_age[p] < cooldown_sec
                                      THEN heard_age[p] + 1 ELSE cooldown_sec]
  \/ Listener /\ Hears
  \/ /\ ControllerRestarts \/ \E d \in Dpids : SwitchConnects(d) \/ SwitchDisconnects(d)
     /\ UNCHANGED heard_age

HSpec == HInit /\ [][HNext]_<<vars, heard_age>>

\* docs/specs/defense_scenarios.md, T4 and V5: a port that is attacked again
\* during the cooldown is not released; here, no rollback of a port that was
\* reported within the cooldown.
NoReleaseUnderAttack ==
  [][\A p \in drops \ drops' : pc = "rollback" => heard_age[p] >= cooldown_sec]_vars
=============================================================================
