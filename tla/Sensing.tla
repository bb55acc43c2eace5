------------------------------ MODULE Sensing -------------------------------
(***************************************************************************)
(* From the switches and the server to the alert: the probe, the port      *)
(* statistics, the agent on the server, and the worker that judges.  They  *)
(* share no state, and what goes from one to another is taken there as any *)
(* message the other could send; so a behaviour is that of one of them,    *)
(* and the others stay where they begin.                                   *)
(***************************************************************************)
EXTENDS ProbeTracker, FeatureExtractor, ServerConnAgent, Detection

VARIABLE source       \* the one that runs in this behaviour

vars == <<source, probe_vars, port_vars, conn_vars, detection_vars>>

Init ==
  /\ source \in {"probe", "ports", "conns", "worker"}
  /\ ProbeInit
  /\ PortInit
  /\ ConnInit
  /\ DetectionInit

Next ==
  /\ UNCHANGED source
  /\ \/ /\ source = "probe" /\ ProbeNext
        /\ UNCHANGED <<port_vars, conn_vars, detection_vars>>
     \/ /\ source = "ports" /\ PortNext
        /\ UNCHANGED <<probe_vars, conn_vars, detection_vars>>
     \/ /\ source = "conns" /\ ConnNext
        /\ UNCHANGED <<probe_vars, port_vars, detection_vars>>
     \/ /\ source = "worker" /\ DetectionNext
        /\ UNCHANGED <<probe_vars, port_vars, conn_vars>>

Spec == Init /\ [][Next]_vars

-----------------------------------------------------------------------------
\* Every ping is in exactly one report, and there as answered exactly if its
\* own answer came in time: late, double and reordered answers and the reuse of
\* numbers put none into the wrong report and none under a wrong name.
HealthIsExact == report.said = report.true

\* The older mode alerts on a flood only if, behind both of the last two
\* differences it has counted, the port really received packets enough: a
\* counter that starts again or reads absurdly never makes a flood.
FloodsAreReal == alert = "SYN_FLOOD" => real.floods >= detect_consecutive

\* A connection that keeps the server waiting is counted at the latest one
\* poll after it is due, unless a listing failed while it was open, and nothing
\* younger is counted unless its address and port were in use before: ports
\* are reused between polls unnoticed.
WaitingIsCounted ==
  polled' # polled /\ polled' =>
    \A k \in Keys :
      /\ Waiting(k) /\ conns[k].age > slow_age /\ k \notin missed' => k \in counted'.slow
      /\ k \in counted'.slow => conns[k].age >= slow_age \/ k \in reused
      /\ k \in counted'.pending => conns[k].age >= pending_age \/ k \in reused
WaitingCounted == [][WaitingIsCounted]_vars
=============================================================================
