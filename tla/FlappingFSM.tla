---------------------------- MODULE FlappingFSM -----------------------------
(***************************************************************************)
(* harness/safety/flapping_fsm.py: how long a mitigation lasts.  One timer *)
(* (last_threat_time) serves every target.  Ages are in ticks and saturate *)
(* at cooldown_sec, the largest value evaluate_heartbeat compares with.    *)
(* ATTACK_DETECTED is a member of DefenseState that no method assigns.     *)
(***************************************************************************)
EXTENDS Topology

CONSTANT
  cooldown_sec      \* quiet time before the rollback (10.0 s)

ASSUME CooldownAssumption == cooldown_sec \in Nat \ {0}

VARIABLES
  fsm_state,          \* NORMAL, MITIGATED or COOLDOWN_VERIFY
  threat_age,         \* now - last_threat_time
  mitigated_targets,  \* keys of the dict of mitigated targets
  target_age          \* now - mitigated_targets[key]["timestamp"]

fsm_vars == <<fsm_state, threat_age, mitigated_targets, target_age>>

Older(age) == IF age < cooldown_sec THEN age + 1 ELSE cooldown_sec

FSMInit ==
  /\ fsm_state = "NORMAL"
  /\ threat_age = cooldown_sec
  /\ mitigated_targets = {}
  /\ target_age = [k \in Ports |-> cooldown_sec]

\* Mutant: the timer of an incident is not restarted.
Mut_trigger_anomaly(k) ==
  /\ threat_age' = IF fsm_state = "NORMAL" THEN 0 ELSE threat_age
  /\ mitigated_targets' = mitigated_targets \union {k}
  /\ target_age' = [target_age EXCEPT ![k] = 0]
  /\ fsm_state' = "MITIGATED"

\* An accepted alert on k: (re)start the timer, register k, enter MITIGATED.
trigger_anomaly(k) ==
  /\ threat_age' = 0
  /\ mitigated_targets' = mitigated_targets \union {k}
  /\ target_age' = [target_age EXCEPT ![k] = 0]
  /\ fsm_state' = "MITIGATED"

\* Mutant: the dict is copied for the callback and not emptied.
MutClearTargets ==
  /\ fsm_state' = "NORMAL"
  /\ UNCHANGED <<mitigated_targets, target_age>>

\* The dict is emptied and the state goes back to NORMAL.
ClearTargets ==
  /\ fsm_state' = "NORMAL"
  /\ mitigated_targets' = {}
  /\ target_age' = [k \in Ports |-> cooldown_sec]

(***************************************************************************)
(* evaluate_heartbeat(), by what it does.                                  *)
(***************************************************************************)
\* Mutant: COOLDOWN_VERIFY is never left by itself.
MutRollbackStuck ==
  /\ fsm_state = "MITIGATED"
  /\ threat_age >= cooldown_sec
  /\ ClearTargets
  /\ UNCHANGED threat_age

HeartbeatRollback ==        \* quiet for the full cooldown: back to NORMAL
  /\ fsm_state \in {"MITIGATED", "COOLDOWN_VERIFY"}
  /\ threat_age >= cooldown_sec
  /\ ClearTargets
  /\ UNCHANGED threat_age

\* Mutant: the targets are let go on the way into COOLDOWN_VERIFY.
MutHeartbeatCooldown ==
  /\ fsm_state = "MITIGATED"
  /\ threat_age < cooldown_sec
  /\ 2 * threat_age >= cooldown_sec
  /\ fsm_state' = "COOLDOWN_VERIFY"
  /\ mitigated_targets' = {}
  /\ UNCHANGED <<threat_age, target_age>>

HeartbeatCooldown ==        \* quiet for half of it
  /\ fsm_state = "MITIGATED"
  /\ threat_age < cooldown_sec
  /\ 2 * threat_age >= cooldown_sec
  /\ fsm_state' = "COOLDOWN_VERIFY"
  /\ UNCHANGED <<threat_age, mitigated_targets, target_age>>

HeartbeatIdle ==
  /\ \/ fsm_state = "NORMAL"
     \/ fsm_state = "MITIGATED" /\ 2 * threat_age < cooldown_sec
     \/ fsm_state = "COOLDOWN_VERIFY" /\ threat_age < cooldown_sec
  /\ UNCHANGED fsm_vars

evaluate_heartbeat == HeartbeatRollback \/ HeartbeatCooldown \/ HeartbeatIdle

force_restore ==
  /\ ClearTargets
  /\ threat_age' = cooldown_sec

\* One tick of time.time().
FSMTick ==
  /\ threat_age' = Older(threat_age)
  /\ target_age' = [k \in Ports |-> Older(target_age[k])]
  /\ UNCHANGED <<fsm_state, mitigated_targets>>

\* The states the methods assign, and ages that never pass the cooldown.
FSMTypeOK ==
  /\ fsm_state \in {"NORMAL", "MITIGATED", "COOLDOWN_VERIFY"}
  /\ threat_age \in 0..cooldown_sec
  /\ mitigated_targets \subseteq Ports
  /\ target_age \in [Ports -> 0..cooldown_sec]
=============================================================================
