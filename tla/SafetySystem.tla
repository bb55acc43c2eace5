---------------------------- MODULE SafetySystem ----------------------------
(***************************************************************************)
(* The two timed safety components side by side, as the controller holds   *)
(* them: each is called whenever, and one clock (time.time()) ages both.   *)
(***************************************************************************)
EXTENDS CircuitBreakerSystem, FlappingFSMSystem

safety_vars == <<vars, fsm_vars>>

SafetyInit == Init /\ FSMInit

BreakerCalled == Call /\ UNCHANGED fsm_vars

FSMCalled == (Alert \/ evaluate_heartbeat \/ force_restore) /\ UNCHANGED vars

TimePasses == Tick /\ FSMTick

SafetyNext == BreakerCalled \/ FSMCalled \/ TimePasses

\* The listener evaluates the heartbeat in every iteration; time passes.
SafetySpec ==
  /\ SafetyInit
  /\ [][SafetyNext]_safety_vars
  /\ WF_safety_vars(evaluate_heartbeat /\ UNCHANGED vars)
  /\ WF_safety_vars(TimePasses)
=============================================================================
