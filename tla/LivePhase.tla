----------------------------- MODULE LivePhase ------------------------------
(***************************************************************************)
(* The phases of the defence as the dashboard names them (class Phase of   *)
(* api/mock_generator.py), shared by the bridge and the browser.           *)
(***************************************************************************)
Phases ==
  {"CALIBRATING", "NORMAL", "ATTACK_DETECTED", "MITIGATED", "COOLDOWN_VERIFY"}
NoPhase == "null"
=============================================================================
