------------------------- MODULE FlappingFSMSystem --------------------------
(***************************************************************************)
(* The self-healing FSM on its own: alerts on any target, heartbeats and   *)
(* forced restores in any order, as time passes.                           *)
(***************************************************************************)
EXTENDS FlappingFSM

Alert == \E k \in Ports : trigger_anomaly(k)

FSMNext ==
  \/ Alert
  \/ HeartbeatRollback
  \/ HeartbeatCooldown
  \/ HeartbeatIdle
  \/ force_restore
  \/ FSMTick

FSMSpec == FSMInit /\ [][FSMNext]_fsm_vars

\* The listener evaluates the heartbeat in every iteration; time passes.
FSMFairSpec == FSMSpec /\ WF_fsm_vars(evaluate_heartbeat) /\ WF_fsm_vars(FSMTick)

\* The FSM is NORMAL exactly when the dict of targets is empty.
NormalIffNoTarget == fsm_state = "NORMAL" <=> mitigated_targets = {}

\* The single timer is the age of the newest target, so that no target is
\* younger than the timer that decides about all of them.
TimerIsNewestTarget ==
  fsm_state # "NORMAL" =>
    /\ \A k \in mitigated_targets : threat_age <= target_age[k]
    /\ \E k \in mitigated_targets : threat_age = target_age[k]

\* No flapping: a target is let go only when the full cooldown has passed since
\* the last alert on that very target, whatever the shared timer says.  The
\* exception is the operator's restore of an incident whose timer is running
\* (a heartbeat leaves the timer alone, so that no rollback is one).
NoFlapping ==
  [][\/ threat_age < cooldown_sec /\ force_restore
     \/ \A k \in mitigated_targets \ mitigated_targets' :
          target_age[k] >= cooldown_sec]_fsm_vars

\* COOLDOWN_VERIFY is entered and left as the scenario draws it: from
\* MITIGATED after half the cooldown, back to MITIGATED on an alert, to NORMAL
\* after the rest; it never starts or forgets a target.
CooldownKeepsTargets ==
  [][/\ fsm_state' = "COOLDOWN_VERIFY" =>
          fsm_state # "NORMAL" /\ mitigated_targets' = mitigated_targets
     /\ fsm_state = "COOLDOWN_VERIFY" /\ fsm_state' = "MITIGATED" =>
          mitigated_targets \subseteq mitigated_targets' /\ threat_age' = 0]_fsm_vars

\* When alerts cease, the FSM returns to NORMAL by itself and stays there.
SelfHeals == <>[][~Alert]_fsm_vars => <>[](fsm_state = "NORMAL")

\* The inductive invariant behind all of the above.
FSMInv == FSMTypeOK /\ NormalIffNoTarget /\ TimerIsNewestTarget
=============================================================================
