-------------------------- MODULE FlappingFSMProofs -------------------------
(***************************************************************************)
(* FlappingFSMSystem for every set of ports and every cooldown.            *)
(*                                                                         *)
(* FSMInv is inductive.  NormalIffNoTarget is a part of it because an      *)
(* alert needs a state other than NORMAL to follow from a target, and      *)
(* TimerIsNewestTarget because the rollback looks at the single timer      *)
(* only: that no target is let go early is what the relation between the   *)
(* timer and the age of each target gives.                                 *)
(***************************************************************************)
EXTENDS FlappingFSMSystem, TLAPS

\* Older keeps an age in its range, never lowers it, and is monotone.
LEMMA OlderFacts ==
  ASSUME NEW a \in 0..cooldown_sec, NEW b \in 0..cooldown_sec
  PROVE  /\ Older(a) \in 0..cooldown_sec
         /\ a <= b => Older(a) <= Older(b)
         /\ a >= cooldown_sec => Older(a) >= cooldown_sec
  BY CooldownAssumption DEF Older, CooldownAssumption

\* Every step of the FSM preserves the inductive invariant.
LEMMA FSMInductive == FSMInv /\ [FSMNext]_fsm_vars => FSMInv'
<1> SUFFICES ASSUME FSMInv, [FSMNext]_fsm_vars PROVE FSMInv'
  OBVIOUS
<1> USE CooldownAssumption DEF FSMInv, FSMTypeOK, NormalIffNoTarget,
                               TimerIsNewestTarget, CooldownAssumption
<1>1. CASE Alert
  <2>1. PICK k \in Ports : trigger_anomaly(k)
    BY <1>1 DEF Alert
  <2>2. FSMTypeOK'
    BY <2>1 DEF trigger_anomaly
  <2>3. target_age'[k] = 0 /\ k \in mitigated_targets'
    BY <2>1 DEF trigger_anomaly
  <2>4. \A j \in mitigated_targets' : threat_age' <= target_age'[j]
    BY <2>1, <2>2 DEF trigger_anomaly
  <2> QED
    BY <2>1, <2>2, <2>3, <2>4 DEF trigger_anomaly
<1>2. CASE HeartbeatRollback \/ force_restore
  BY <1>2 DEF HeartbeatRollback, force_restore, ClearTargets
<1>3. CASE HeartbeatCooldown
  BY <1>3 DEF HeartbeatCooldown
<1>4. CASE HeartbeatIdle \/ UNCHANGED fsm_vars
  BY <1>4 DEF HeartbeatIdle, fsm_vars
<1>5. CASE FSMTick
  <2>1. FSMTypeOK'
    BY <1>5, OlderFacts DEF FSMTick
  <2>2. \A k \in mitigated_targets :
          threat_age <= target_age[k] => threat_age' <= target_age'[k]
    BY <1>5, OlderFacts DEF FSMTick
  <2>3. \A k \in mitigated_targets :
          threat_age = target_age[k] => threat_age' = target_age'[k]
    BY <1>5 DEF FSMTick
  <2> QED
    BY <1>5, <2>1, <2>2, <2>3 DEF FSMTick
<1> QED
  BY <1>1, <1>2, <1>3, <1>4, <1>5 DEF FSMNext

\* The inductive invariant holds in every reachable state.
THEOREM FSMInvariant == FSMSpec => []FSMInv
<1>1. FSMInit => FSMInv
  BY CooldownAssumption DEF FSMInit, FSMInv, FSMTypeOK, NormalIffNoTarget,
                            TimerIsNewestTarget, CooldownAssumption
<1> QED
  BY <1>1, FSMInductive, PTL DEF FSMSpec

\* flapping_fsm.py keeps its fields in their ranges.
THEOREM FSMTypeCorrect == FSMSpec => []FSMTypeOK
<1>1. FSMInv => FSMTypeOK
  BY DEF FSMInv
<1> QED
  BY <1>1, FSMInvariant, PTL

\* The FSM is NORMAL exactly when nothing is mitigated.
THEOREM NormalIsEmpty == FSMSpec => []NormalIffNoTarget
<1>1. FSMInv => NormalIffNoTarget
  BY DEF FSMInv
<1> QED
  BY <1>1, FSMInvariant, PTL

\* One timer is enough: it is the age of the newest target.
THEOREM TimerCorrect == FSMSpec => []TimerIsNewestTarget
<1>1. FSMInv => TimerIsNewestTarget
  BY DEF FSMInv
<1> QED
  BY <1>1, FSMInvariant, PTL

\* A target is let go only when the full cooldown has passed since the last
\* alert on that very target, unless force_restore() stops a running timer.
THEOREM NeverFlaps == FSMSpec => NoFlapping
<1> DEFINE Kept ==
      \/ threat_age < cooldown_sec /\ force_restore
      \/ \A k \in mitigated_targets \ mitigated_targets' :
           target_age[k] >= cooldown_sec
<1>1. FSMInv /\ [FSMNext]_fsm_vars => [Kept]_fsm_vars
  <2> SUFFICES ASSUME FSMInv, FSMNext PROVE Kept
    OBVIOUS
  <2> USE CooldownAssumption DEF FSMInv, FSMTypeOK, CooldownAssumption
  <2>0. ASSUME threat_age >= cooldown_sec, NEW k \in mitigated_targets
        PROVE  target_age[k] >= cooldown_sec
    <3>1. threat_age <= target_age[k]
      BY <2>0 DEF NormalIffNoTarget, TimerIsNewestTarget
    <3> QED
      BY <2>0, <3>1
  <2>1. CASE HeartbeatRollback
    BY <2>1, <2>0 DEF HeartbeatRollback
  <2>2. CASE Alert
    BY <2>2 DEF Alert, trigger_anomaly
  <2>3. CASE HeartbeatCooldown \/ HeartbeatIdle \/ FSMTick
    BY <2>3 DEF HeartbeatCooldown, HeartbeatIdle, FSMTick, fsm_vars
  <2>4. CASE force_restore
    BY <2>4, <2>0
  <2> QED
    BY <2>1, <2>2, <2>3, <2>4 DEF FSMNext
<1> QED
  BY <1>1, FSMInvariant, PTL DEF FSMSpec, NoFlapping

\* COOLDOWN_VERIFY neither starts nor forgets a target, and an alert during it
\* restarts the timer.
THEOREM CooldownIsTransparent == FSMSpec => CooldownKeepsTargets
<1> DEFINE Kept ==
      /\ fsm_state' = "COOLDOWN_VERIFY" =>
           fsm_state # "NORMAL" /\ mitigated_targets' = mitigated_targets
      /\ fsm_state = "COOLDOWN_VERIFY" /\ fsm_state' = "MITIGATED" =>
           mitigated_targets \subseteq mitigated_targets' /\ threat_age' = 0
<1>1. FSMInv /\ [FSMNext]_fsm_vars => [Kept]_fsm_vars
  <2> SUFFICES ASSUME FSMInv, FSMNext PROVE [Kept]_fsm_vars
    OBVIOUS
  <2>1. CASE HeartbeatRollback \/ force_restore
    BY <2>1 DEF HeartbeatRollback, force_restore, ClearTargets
  <2>2. CASE Alert
    BY <2>2 DEF Alert, trigger_anomaly
  <2>3. CASE HeartbeatCooldown \/ HeartbeatIdle
    BY <2>3 DEF HeartbeatCooldown, HeartbeatIdle
  <2>4. CASE FSMTick
    <3>1. fsm_state = "NORMAL" => fsm_state' # "COOLDOWN_VERIFY"
      BY <2>4 DEF FSMTick
    <3>2. ~(fsm_state = "COOLDOWN_VERIFY" /\ fsm_state' = "MITIGATED")
      BY <2>4 DEF FSMTick
    <3> QED
      BY <2>4, <3>1, <3>2 DEF FSMTick
  <2> QED
    BY <2>1, <2>2, <2>3, <2>4 DEF FSMNext
<1> QED
  BY <1>1, FSMInvariant, PTL DEF FSMSpec, CooldownKeepsTargets
=============================================================================
