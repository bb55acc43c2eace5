-------------------------- MODULE InferenceWorker ---------------------------
(***************************************************************************)
(* The AI worker in its default (criteria) mode: one message of Redis at a *)
(* time goes to the engine, and what the engine decides goes out as an     *)
(* alert.  The reports of one message are taken port by port; the engine   *)
(* reads nothing across ports.                                             *)
(***************************************************************************)
EXTENDS CriteriaEngine

CONSTANTS
  Counts,             \* what a port may do per tick: records of counts
  SlowCounts,         \* slow requests the server may report of a host
  Durations,          \* duration_sec of a RELEARN command
  MaxGap              \* bound: a report comes at least this often

Reports ==            \* what a report may be: counts, and room for the rates
  [{"syn", "fin", "rst", "udp", "icmp", "rst_in", "unreach_in", "arp_fail", "zone_deny",
    "gap", "fail"} -> Nat]

ASSUME WorkerAssumption ==
  Counts \subseteq Reports /\ SlowCounts \subseteq Nat /\ Durations \subseteq Nat
  /\ MaxGap \in Nat

\* Mutant: the stage alone decides; it outlasts the attack until WATCH clears.
MutAlerting(p) == last_decisions[p].stage \in {"WARNING", "DANGER"}

\* The last decision on p went out as an alert.
Alerting(p) ==
  /\ last_decisions[p].stage \in {"WARNING", "DANGER"}
  /\ last_decisions[p].threat # NoThreat

process_counts(p, c) == st[p].prev > 0 /\ Evaluate(p, c, st[p].prev)

process_health == \E degraded \in BOOLEAN : update_health(degraded)

process_server_conns == \E n \in [Ports -> SlowCounts] : update_server_conns(n)

\* process_command: RELEARN of one port, or of all of them (port 0).
process_command ==
  \E ports \in {{p} : p \in Ports} \union {Ports}, d \in Durations :
    approve_relearn(ports, d)

\* The process dies; what it has learned since it started is gone.
WorkerRestarts ==
  /\ st' = [p \in Ports |-> FreshPort(p)]
  /\ health' = NoHealth
  /\ slow' = NoSlow
  /\ last_decisions' = [p \in Ports |-> NoDecision]

WorkerTick == (\A p \in Ports : st[p].prev < MaxGap) /\ EngineTick
=============================================================================
