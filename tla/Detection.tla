----------------------------- MODULE Detection ------------------------------
(***************************************************************************)
(* The worker among its sources, with the history that the properties need *)
(* and the code does not keep.                                             *)
(***************************************************************************)
EXTENDS InferenceWorker

VARIABLES
  matched,            \* matched[p]: the threats its last report was evidence of
  flooded,            \* flooded[p]: reports in a row of a flood no baseline explains
  alerted             \* alerted[p]: ticks since the last alert on p

detection_vars == <<engine_vars, matched, flooded, alerted>>

DetectionInit ==
  /\ EngineInit
  /\ matched = [p \in Ports |-> {}]
  /\ flooded = [p \in Ports |-> 0]
  /\ alerted = [p \in Ports |-> learn_resume_sec]

\* A UDP rate beyond both lines wherever the baseline may lawfully be.
IsFlood(p, c) ==
  LET highest == [ind \in WATCHED_INDICATORS |-> cap_multiplier * base_mean[p][ind]]
  IN c.udp >= attack_line(highest, "udp") /\ c.udp > line(highest, "udp")

Report(p, c) ==
  /\ process_counts(p, c)
  /\ matched' = [matched EXCEPT ![p] =
                   Candidates(Evidence(p, indicator_rates(c), st[p].prev))]
  /\ flooded' = [flooded EXCEPT ![p] =
                   IF IsFlood(p, c) /\ st'[p].relearn = NoRelearn
                   THEN Aged(@, confirm_intervals) ELSE 0]
  /\ alerted' = [alerted EXCEPT ![p] = IF Alerting(p)' THEN 0 ELSE @]

Other ==
  /\ \/ \E p \in Ports : NotComparable(p)
     \/ process_health
     \/ process_server_conns
     \/ process_command
  /\ UNCHANGED <<matched, flooded, alerted>>

Tick ==
  /\ WorkerTick
  /\ alerted' = [p \in Ports |-> Aged(alerted[p], learn_resume_sec)]
  /\ UNCHANGED <<matched, flooded>>

Restart ==
  /\ WorkerRestarts
  /\ matched' = [p \in Ports |-> {}]
  /\ flooded' = [p \in Ports |-> 0]
  /\ UNCHANGED alerted

DetectionNext ==
  (\E p \in Ports, c \in Counts : Report(p, c)) \/ Other \/ Tick \/ Restart

-----------------------------------------------------------------------------
\* No traffic, however slowly it grows, drags a baseline out of what was
\* learned beforehand and cap_multiplier times that, and an operator's
\* approval lifts the limit for the volumes only and only until the first
\* report after its end: attack signals are never relearned.  (Of a gap that
\* was learned negative, cap_multiplier times is the lower end.)
Limits(p, ind) ==
  LET cap == cap_multiplier * base_mean[p][ind]
  IN Min({base_mean[p][ind], cap})..Max({base_mean[p][ind], cap})

BaselinesBounded ==
  \A p \in Ports : \A ind \in WATCHED_INDICATORS :
    (ind \in Volumes => st[p].relearn = NoRelearn) => st[p].mean[ind] \in Limits(p, ind)

\* What is learned without an approval is learned from a port that nothing was
\* alerted on for the whole resume time (less the tolerance of half a report):
\* only then does a baseline move, but back to what was learned beforehand.
LearnsFromQuietPorts ==
  [][\A p \in Ports :
       (/\ st[p].relearn = NoRelearn
        /\ \E ind \in WATCHED_INDICATORS :
             st'[p].mean[ind] \notin {st[p].mean[ind], base_mean[p][ind]})
       => 2 * alerted[p] + MaxGap >= 2 * learn_resume_sec]_detection_vars

\* A new alert names a threat that the last two comparable reports of the port
\* were both evidence of; a stage left over from an attack that has stopped,
\* or evidence of two different threats, alerts nobody.
AlertsAreConfirmed ==
  [][\A p \in Ports :
       Alerting(p)' /\ last_decisions'[p] # last_decisions[p] =>
         last_decisions'[p].threat \in matched[p] \intersect matched'[p]]_detection_vars

\* Without an approval, a flood beyond every lawful baseline is alerted from
\* its second comparable report on and with every further one, whatever came
\* before it and whatever else happens on the port: the alerts that keep the
\* FSM's cooldown from running out do not pause under attack.
FloodsAreAlerted ==
  \A p \in Ports : flooded[p] >= confirm_intervals => Alerting(p)
=============================================================================
