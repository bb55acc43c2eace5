-------------------------- MODULE ControllerProofs --------------------------
(***************************************************************************)
(* Safety of Controller for all ports, hosts, messages, periods, faults    *)
(* and restarts.                                                           *)
(*                                                                         *)
(* DefenceInv is inductive.  StagesExclusive carries the fact that a port  *)
(* the FSM knows of is never limited; GuardHolds is preserved because a    *)
(* port reaches the flow tables only through can_isolate, or from a set    *)
(* that can_isolate has already filtered (an alert in flight, the FSM's    *)
(* targets, a rollback in progress); QuietBeforeRollback says that   *)
(* outside a rollback none is pending, which OrphansHaveCause needs.       *)
(***************************************************************************)
EXTENDS DefenceProperties, TLAPS

DefenceInv ==
  TypeOK /\ GuardHolds /\ StagesExclusive /\ QuietBeforeRollback

-----------------------------------------------------------------------------
(***************************************************************************)
(* The components' types, and what a message in hand says.                 *)
(***************************************************************************)
\* A message from Messages names a port.
LEMMA MessageFacts ==
  ASSUME NEW m \in Messages
  PROVE  /\ m.port \in Ports
         /\ m.kind \in AlertStages \union Actions
  BY ControllerAssumption DEF ControllerAssumption, Message

\* A port lies on one of the four switches.
LEMMA DpidFacts ==
  ASSUME NEW p \in Ports
  PROVE  Dpid(p) \in Dpids
  BY PortsAssumption DEF PortsAssumption, Dpid

\* With all switches connected every FlowMod arrives.
LEMMA AllReached ==
  ASSUME datapaths = Dpids, NEW S \in SUBSET Ports
  PROVE  Reached(S) = S
  BY DpidFacts DEF Reached, connected

\* Whatever a step does with the circuit breaker, its fields keep their types.
LEMMA BreakerTyped ==
  ASSUME CBTypeOK,
         record_refused \/ record_tripping \/ record_granted \/ CBTick
           \/ UNCHANGED cb_vars
  PROVE  CBTypeOK'
<1> USE BreakerAssumption DEF BreakerAssumption, CBTypeOK, Pruned
<1>1. CASE record_refused \/ UNCHANGED cb_vars
  BY <1>1 DEF record_refused, cb_vars
<1>2. CASE record_tripping
  BY <1>2 DEF record_tripping, AppendNow, trip
<1>3. CASE record_granted
  BY <1>3 DEF record_granted, AppendNow
<1>4. CASE CBTick
  BY <1>4 DEF CBTick
<1> QED
  BY <1>1, <1>2, <1>3, <1>4

\* The same for the FSM.
LEMMA FSMTyped ==
  ASSUME FSMTypeOK,
         \/ \E k \in Ports : trigger_anomaly(k)
         \/ HeartbeatRollback \/ HeartbeatCooldown \/ HeartbeatIdle
         \/ force_restore \/ FSMTick \/ UNCHANGED fsm_vars
  PROVE  FSMTypeOK'
<1> USE CooldownAssumption DEF CooldownAssumption, FSMTypeOK
<1>1. CASE \E k \in Ports : trigger_anomaly(k)
  BY <1>1 DEF trigger_anomaly
<1>2. CASE HeartbeatRollback \/ force_restore
  BY <1>2 DEF HeartbeatRollback, force_restore, ClearTargets
<1>3. CASE HeartbeatCooldown \/ HeartbeatIdle \/ UNCHANGED fsm_vars
  BY <1>3 DEF HeartbeatCooldown, HeartbeatIdle, fsm_vars
<1>4. CASE FSMTick
  BY <1>4 DEF FSMTick, Older
<1> QED
  BY <1>1, <1>2, <1>3, <1>4

-----------------------------------------------------------------------------
(***************************************************************************)
(* Type correctness.                                                       *)
(***************************************************************************)
\* Polling, the rollback and the expiry of rate limits preserve the types.
LEMMA HousekeepingTyped ==
  ASSUME TypeOK,
         Poll \/ (\E p \in Ports : RollbackTarget(p)) \/ RollbackDone
           \/ ExpireRateLimits
  PROVE  TypeOK'
<1> USE DEF TypeOK, Take, switch_vars, conn_vars, limit_vars, loop_vars
<1>1. CASE Poll
  <2>1. PICK m \in Messages \union {NoMessage} :
          PollIdle(m) \/ PollCooldown(m) \/ PollRollback(m)
    BY <1>1 DEF Poll
  <2>2. FSMTypeOK'
    BY <2>1, FSMTyped DEF PollIdle, PollCooldown, PollRollback
  <2>3. CBTypeOK'
    BY <2>1, BreakerTyped DEF PollIdle, PollCooldown, PollRollback
  <2>4. mitigated_targets \subseteq Ports
    BY DEF FSMTypeOK
  <2> QED
    BY <2>1, <2>2, <2>3, <2>4 DEF _publish_topology_sync, PollIdle, PollCooldown, PollRollback
<1>2. ASSUME NEW p \in Ports, RollbackTarget(p) PROVE TypeOK'
  <2>1. FSMTypeOK' /\ CBTypeOK'
    BY <1>2, FSMTyped, BreakerTyped DEF RollbackTarget
  <2>2. Dpid(p) \in Dpids
    BY DpidFacts
  <2> QED
    BY <1>2, <2>1, <2>2
       DEF RollbackTarget, restore_port, restore_reroute_traffic, Reached
<1>3. CASE RollbackDone
  <2>1. FSMTypeOK' /\ CBTypeOK'
    BY <1>3, FSMTyped, BreakerTyped DEF RollbackDone
  <2> QED
    BY <1>3, <2>1 DEF _publish_topology_sync, RollbackDone, Goto
<1>4. CASE ExpireRateLimits
  <2>1. FSMTypeOK' /\ CBTypeOK'
    BY <1>4, FSMTyped, BreakerTyped DEF ExpireRateLimits
  <2> QED
    BY <1>4, <2>1, ControllerAssumption
       DEF _publish_topology_sync, ExpireRateLimits, TakeUpMessage, unrate_limit_port, Reached, Goto, Done,
           ControllerAssumption
<1> QED
  BY <1>1, <1>2, <1>3, <1>4

\* Answering an alert preserves the types.
LEMMA AlertTyped ==
  ASSUME TypeOK, Alert
  PROVE  TypeOK'
<1> USE CooldownAssumption
    DEF TypeOK, switch_vars, conn_vars, limit_vars, Done, Goto, Handling,
        CooldownAssumption
<1>0. cur \in Messages /\ cur.port \in Ports
  BY MessageFacts
     DEF Alert, AlertHeld, AlertRejected, AlertOnGuardedPort, Ingested, Escalated,
         WarningHeartbeat, WarningLimit, WarningExtend, DangerHeartbeat,
         DangerQuarantine, DangerIsolate, DangerReroute, DangerTrigger
<1>1. CASE AlertHeld
  <2>1. FSMTypeOK' /\ CBTypeOK'
    BY <1>1, FSMTyped, BreakerTyped DEF AlertHeld
  <2> QED
    BY <1>1, <2>1 DEF AlertHeld
<1>2. CASE AlertRejected
  <2>1. FSMTypeOK' /\ CBTypeOK'
    BY <1>2, FSMTyped, BreakerTyped DEF AlertRejected
  <2> QED
    BY <1>2, <2>1 DEF AlertRejected
<1>3. CASE AlertOnGuardedPort
  <2>1. FSMTypeOK' /\ CBTypeOK'
    BY <1>3, FSMTyped, BreakerTyped DEF AlertOnGuardedPort, Ingested
  <2> QED
    BY <1>3, <2>1 DEF AlertOnGuardedPort, Ingested
<1>4. CASE WarningHeartbeat
  <2>1. FSMTypeOK' /\ CBTypeOK'
    BY <1>0, <1>4, FSMTyped, BreakerTyped DEF WarningHeartbeat, Ingested
  <2> QED
    BY <1>0, <1>4, <2>1 DEF WarningHeartbeat, Ingested, ActedOn
<1>5. CASE WarningLimit
  <2>1. FSMTypeOK' /\ CBTypeOK'
    BY <1>5, FSMTyped, BreakerTyped DEF WarningLimit, Ingested
  <2> QED
    BY <1>0, <1>5, <2>1 DEF _publish_topology_sync, WarningLimit, Ingested, ActedOn, Reached
<1>6. CASE WarningExtend
  <2>1. FSMTypeOK' /\ CBTypeOK'
    BY <1>6, FSMTyped, BreakerTyped DEF WarningExtend, Ingested
  <2> QED
    BY <1>0, <1>6, <2>1 DEF WarningExtend, Ingested, ActedOn
<1>7. CASE DangerHeartbeat
  <2>1. FSMTypeOK' /\ CBTypeOK'
    BY <1>0, <1>7, FSMTyped, BreakerTyped DEF DangerHeartbeat, Escalated, Ingested
  <2> QED
    BY <1>0, <1>7, <2>1
       DEF _publish_topology_sync, DangerHeartbeat, Escalated, Ingested, ActedOn, DropRateLimit,
           unrate_limit_port, Reached
<1>8. CASE DangerQuarantine
  <2>1. FSMTypeOK' /\ CBTypeOK'
    BY <1>8, FSMTyped, BreakerTyped DEF DangerQuarantine, Escalated, Ingested
  <2> QED
    BY <1>0, <1>8, <2>1
       DEF DangerQuarantine, Escalated, Ingested, ActedOn, DropRateLimit,
           unrate_limit_port, Reached, quarantine_host
<1>9. CASE DangerIsolate
  <2>1. FSMTypeOK' /\ CBTypeOK'
    BY <1>9, FSMTyped, BreakerTyped DEF DangerIsolate, Escalated, Ingested
  <2> QED
    BY <1>0, <1>9, <2>1
       DEF DangerIsolate, Escalated, Ingested, ActedOn, DropRateLimit,
           unrate_limit_port, Reached, isolate_port
<1>10. CASE DangerReroute
  <2>1. FSMTypeOK' /\ CBTypeOK'
    BY <1>10, FSMTyped, BreakerTyped DEF DangerReroute
  <2> QED
    BY <1>0, <1>10, <2>1 DEF DangerReroute, reroute_traffic
<1>11. CASE DangerTrigger
  <2>1. FSMTypeOK' /\ CBTypeOK'
    BY <1>0, <1>11, FSMTyped, BreakerTyped DEF DangerTrigger
  <2> QED
    BY <1>0, <1>11, <2>1 DEF _publish_topology_sync, DangerTrigger
<1> QED
  BY <1>1, <1>2, <1>3, <1>4, <1>5, <1>6, <1>7, <1>8, <1>9, <1>10, <1>11 DEF Alert

\* Executing an operator's command preserves the types.
LEMMA CommandTyped ==
  ASSUME TypeOK, Command
  PROVE  TypeOK'
<1> USE DEF TypeOK, switch_vars, conn_vars, limit_vars, Done, Goto, Handling
<1>0. cur \in Messages /\ cur.port \in Ports
  BY MessageFacts
     DEF Command, CommandIsolate, CommandRestore, CommandReroute,
         CommandQuarantine, CommandRelease
<1>a. hosts \subseteq Ports /\ MANUAL_RESTORE_HOLD_SEC \in Nat
  BY ControllerAssumption DEF ControllerAssumption
<1>1. CASE CommandIsolate
  <2>1. FSMTypeOK' /\ CBTypeOK'
    BY <1>1, FSMTyped, BreakerTyped DEF CommandIsolate
  <2> QED
    BY <1>0, <1>1, <2>1 DEF _publish_topology_sync, CommandIsolate, SetHold, isolate_port, Reached
<1>2. CASE CommandRestore
  <2>1. FSMTypeOK' /\ CBTypeOK'
    BY <1>2, FSMTyped, BreakerTyped DEF CommandRestore
  <2> QED
    BY <1>0, <1>a, <1>2, <2>1
       DEF _publish_topology_sync, CommandRestore, SetHold, DropRateLimit,
           unrate_limit_port, Reached,
           restore_port, restore_reroute_traffic
<1>3. CASE CommandReroute
  <2>1. FSMTypeOK' /\ CBTypeOK'
    BY <1>3, FSMTyped, BreakerTyped DEF CommandReroute
  <2> QED
    BY <1>0, <1>3, <2>1 DEF _publish_topology_sync, CommandReroute, reroute_traffic
<1>4. CASE CommandQuarantine
  <2>1. FSMTypeOK' /\ CBTypeOK'
    BY <1>4, FSMTyped, BreakerTyped DEF CommandQuarantine
  <2> QED
    BY <1>0, <1>a, <1>4, <2>1
       DEF _publish_topology_sync, CommandQuarantine, quarantine_host, Reached
<1>5. CASE CommandRelease
  <2>1. FSMTypeOK' /\ CBTypeOK'
    BY <1>5, FSMTyped, BreakerTyped DEF CommandRelease
  <2> QED
    BY <1>0, <1>a, <1>5, <2>1 DEF _publish_topology_sync, CommandRelease, release_host, Reached
<1> QED
  BY <1>1, <1>2, <1>3, <1>4, <1>5 DEF Command

\* Connections, restarts and the clock preserve the types.
LEMMA EnvironmentTyped ==
  ASSUME TypeOK,
         (\E d \in Dpids : SwitchConnects(d) \/ SwitchDisconnects(d))
           \/ ControllerRestarts \/ Tick \/ UNCHANGED vars
  PROVE  TypeOK'
<1> USE DEF TypeOK, switch_vars, conn_vars, limit_vars, loop_vars, defence_vars
<1>a. hosts \subseteq Ports
  BY ControllerAssumption DEF ControllerAssumption
<1>1. ASSUME NEW d \in Dpids, SwitchConnects(d) \/ SwitchDisconnects(d)
      PROVE  TypeOK'
  <2>1. FSMTypeOK' /\ CBTypeOK'
    BY <1>1, FSMTyped, BreakerTyped DEF SwitchConnects, SwitchDisconnects
  <2>2. conns' \in [Dpids -> Nat]
    BY <1>1 DEF SwitchConnects, SwitchDisconnects
  <2> QED
    BY <1>1, <1>a, <2>1, <2>2 DEF SwitchConnects, SwitchDisconnects
<1>2. CASE ControllerRestarts
  <2>1. FSMTypeOK' /\ CBTypeOK'
    BY <1>2, BreakerAssumption, CooldownAssumption
       DEF ControllerRestarts, FSMTypeOK, CBTypeOK, Pruned, BreakerAssumption,
           CooldownAssumption
  <2> QED
    BY <1>2, <1>a, <2>1 DEF ControllerRestarts
<1>3. CASE Tick
  <2>1. FSMTypeOK' /\ CBTypeOK'
    BY <1>3, FSMTyped, BreakerTyped DEF Tick
  <2>2. alert_age' \in [Ports -> 0..cooldown_sec]
    BY <1>3, CooldownAssumption DEF Tick, Older, CooldownAssumption
  <2>3. rate_age' \in [Ports -> Nat] /\ manual_holds' \in [Ports -> Nat]
    BY <1>3 DEF Tick
  <2> QED
    BY <1>3, <2>1, <2>2, <2>3 DEF Tick
<1>4. CASE UNCHANGED vars
  <2>1. FSMTypeOK' /\ CBTypeOK'
    BY <1>4, FSMTyped, BreakerTyped DEF vars
  <2> QED
    BY <1>4, <2>1 DEF vars
<1> QED
  BY <1>1, <1>2, <1>3, <1>4

\* Every step preserves the types.
LEMMA TypeInductive == TypeOK /\ [Next]_vars => TypeOK'
  BY HousekeepingTyped, AlertTyped, CommandTyped, EnvironmentTyped
     DEF Next, Listener

\* The initial state is typed.
LEMMA TypeInit == Init => TypeOK
<1> SUFFICES ASSUME Init PROVE TypeOK
  OBVIOUS
<1>1. FSMTypeOK /\ CBTypeOK
  BY BreakerAssumption, CooldownAssumption
     DEF Init, FSMInit, CBInit, FSMTypeOK, CBTypeOK, Pruned, BreakerAssumption,
         CooldownAssumption
<1> QED
  BY <1>1, ControllerAssumption, CooldownAssumption
     DEF Init, TypeOK, ControllerAssumption, CooldownAssumption

\* The controller's fields and the flow tables keep their types, whatever
\* messages, disconnections and restarts happen.
THEOREM ControllerTypeCorrect == Spec => []TypeOK
  BY TypeInit, TypeInductive, PTL DEF Spec

-----------------------------------------------------------------------------
(***************************************************************************)
(* Guarded ports, and the exclusion of limited and mitigated.              *)
(***************************************************************************)
guarded == trunk_ports \union protected_access_ports

\* can_isolate is true of a port that is not guarded, and of no other.
LEMMA GuardFacts ==
  ASSUME NEW p
  PROVE  can_isolate(p) <=> p \notin guarded
  BY DEF can_isolate, guarded

\* Alerts change the defence's sets only by a port that passed can_isolate,
\* and never leave a port limited that they mitigate.
LEMMA AlertKeepsSets ==
  ASSUME TypeOK, GuardHolds, StagesExclusive, Alert
  PROVE  GuardHolds' /\ StagesExclusive'
<1> USE GuardFacts
    DEF GuardHolds, StagesExclusive, Answering, InFlight, guarded, switch_vars,
        limit_vars, fsm_vars, Done, Goto, Handling
<1>1. CASE AlertHeld \/ AlertRejected
  BY <1>1 DEF AlertHeld, AlertRejected
<1>2. CASE AlertOnGuardedPort
  BY <1>2 DEF AlertOnGuardedPort, Ingested
<1>3. CASE WarningHeartbeat
  BY <1>3 DEF WarningHeartbeat, Ingested, trigger_anomaly, AlreadyMitigated
<1>4. CASE WarningLimit
  BY <1>4 DEF WarningLimit, Ingested, AlreadyMitigated, Reached
<1>5. CASE WarningExtend
  BY <1>5 DEF WarningExtend, Ingested
<1>6. CASE DangerHeartbeat
  BY <1>6 DEF DangerHeartbeat, Escalated, Ingested, trigger_anomaly,
              AlreadyMitigated, DropRateLimit, unrate_limit_port, Reached
<1>7. CASE DangerQuarantine
  BY <1>7 DEF DangerQuarantine, Escalated, Ingested, DropRateLimit,
              unrate_limit_port, Reached
<1>8. CASE DangerIsolate
  BY <1>8 DEF DangerIsolate, Escalated, Ingested, DropRateLimit,
              unrate_limit_port, Reached, isolate_port
<1>9. CASE DangerReroute
  BY <1>9 DEF DangerReroute
<1>10. CASE DangerTrigger
  BY <1>10 DEF DangerTrigger, trigger_anomaly
<1> QED
  BY <1>1, <1>2, <1>3, <1>4, <1>5, <1>6, <1>7, <1>8, <1>9, <1>10 DEF Alert

\* So do an operator's commands.
LEMMA CommandKeepsSets ==
  ASSUME TypeOK, GuardHolds, StagesExclusive, Command
  PROVE  GuardHolds' /\ StagesExclusive'
<1> USE GuardFacts
    DEF GuardHolds, StagesExclusive, Answering, InFlight, guarded, switch_vars,
        limit_vars, fsm_vars, Done, Handling
<1>1. CASE CommandIsolate
  BY <1>1 DEF CommandIsolate, isolate_port, Reached
<1>2. CASE CommandRestore
  BY <1>2 DEF CommandRestore, DropRateLimit, unrate_limit_port, restore_port,
              Reached, force_restore, ClearTargets
<1>3. CASE CommandReroute \/ CommandQuarantine \/ CommandRelease
  BY <1>3 DEF CommandReroute, CommandQuarantine, CommandRelease
<1> QED
  BY <1>1, <1>2, <1>3 DEF Command

\* Housekeeping only takes ports out, or moves the FSM's targets to the
\* rollback; the environment touches none of the sets.
LEMMA OtherStepsKeepSets ==
  ASSUME TypeOK, GuardHolds, StagesExclusive,
         Poll \/ (\E p \in Ports : RollbackTarget(p)) \/ RollbackDone
           \/ ExpireRateLimits
           \/ (\E d \in Dpids : SwitchConnects(d) \/ SwitchDisconnects(d))
           \/ ControllerRestarts \/ Tick \/ UNCHANGED vars
  PROVE  GuardHolds' /\ StagesExclusive'
<1> USE DEF GuardHolds, StagesExclusive, Answering, InFlight, switch_vars,
            limit_vars, loop_vars, fsm_vars, defence_vars
<1>1. ASSUME NEW m, PollIdle(m) \/ PollCooldown(m)
      PROVE  GuardHolds' /\ StagesExclusive'
  BY <1>1 DEF PollIdle, PollCooldown, Take, HeartbeatIdle, HeartbeatCooldown
<1>2. ASSUME NEW m, PollRollback(m)
      PROVE  GuardHolds' /\ StagesExclusive'
  BY <1>2 DEF PollRollback, Take, HeartbeatRollback, ClearTargets
<1>3. ASSUME NEW p \in Ports, RollbackTarget(p)
      PROVE  GuardHolds' /\ StagesExclusive'
  BY <1>3 DEF RollbackTarget, restore_port, Reached
<1>4. CASE RollbackDone
  BY <1>4 DEF RollbackDone, Goto
<1>5. CASE ExpireRateLimits
  BY <1>5 DEF ExpireRateLimits, TakeUpMessage, unrate_limit_port, Reached, Goto, Done
<1>6. ASSUME NEW d \in Dpids, SwitchConnects(d) \/ SwitchDisconnects(d)
      PROVE  GuardHolds' /\ StagesExclusive'
  BY <1>6 DEF SwitchConnects, SwitchDisconnects
<1>7. CASE ControllerRestarts
  BY <1>7 DEF ControllerRestarts
<1>8. CASE Tick
  BY <1>8 DEF Tick, FSMTick
<1>9. CASE UNCHANGED vars
  BY <1>9 DEF vars
<1> QED
  BY <1>1, <1>2, <1>3, <1>4, <1>5, <1>6, <1>7, <1>8, <1>9 DEF Poll

-----------------------------------------------------------------------------
(***************************************************************************)
(* No early rollback.                                                      *)
(***************************************************************************)
\* The FSM's timer stays behind the age of the last alert on every target, and
\* a rollback stays a set of quiet ports.
LEMMA QuietInductive ==
  ASSUME TypeOK, StagesExclusive, QuietBeforeRollback, [Next]_vars
  PROVE  QuietBeforeRollback'
<1> USE CooldownAssumption
    DEF QuietBeforeRollback, CooldownAssumption, switch_vars, limit_vars,
        loop_vars, fsm_vars, defence_vars
<1>0. /\ alert_age \in [Ports -> 0..cooldown_sec]
      /\ threat_age \in 0..cooldown_sec
      /\ mitigated_targets \subseteq Ports
      /\ rollback \subseteq Ports
  BY DEF TypeOK, FSMTypeOK
<1>1. ASSUME NEW m, PollIdle(m) \/ PollCooldown(m)
      PROVE  QuietBeforeRollback'
  BY <1>1 DEF PollIdle, PollCooldown, Take, HeartbeatIdle, HeartbeatCooldown
<1>2. ASSUME NEW m, PollRollback(m)
      PROVE  QuietBeforeRollback'
  BY <1>0, <1>2 DEF PollRollback, Take, HeartbeatRollback, ClearTargets
<1>3. ASSUME NEW p \in Ports, RollbackTarget(p)
      PROVE  QuietBeforeRollback'
  BY <1>3 DEF RollbackTarget
<1>4. CASE RollbackDone \/ ExpireRateLimits
  BY <1>4 DEF RollbackDone, ExpireRateLimits, TakeUpMessage, Goto, Done
<1>5. CASE Alert
  <2> USE DEF Done, Goto, Handling
  <2>0. ASSUME pc \in {"dispatch", "trigger"} PROVE cur.port \in Ports
    BY <2>0, MessageFacts DEF TypeOK
  <2>1. CASE AlertHeld \/ AlertRejected \/ AlertOnGuardedPort
    BY <1>5, <2>1 DEF AlertHeld, AlertRejected, AlertOnGuardedPort, Ingested
  <2>2. CASE WarningHeartbeat
    BY <1>0, <2>0, <2>2 DEF WarningHeartbeat, Ingested, trigger_anomaly, ActedOn
  <2>3. CASE WarningLimit \/ WarningExtend
    BY <1>0, <2>3
       DEF WarningLimit, WarningExtend, Ingested, ActedOn, AlreadyMitigated,
           StagesExclusive
  <2>4. CASE DangerHeartbeat
    BY <1>0, <2>0, <2>4
       DEF DangerHeartbeat, Escalated, Ingested, trigger_anomaly, ActedOn
  <2>5. CASE DangerQuarantine \/ DangerIsolate
    BY <1>0, <2>5
       DEF DangerQuarantine, DangerIsolate, Escalated, Ingested, ActedOn,
           AlreadyMitigated, StagesExclusive
  <2>6. CASE DangerReroute
    BY <2>6 DEF DangerReroute
  <2>7. CASE DangerTrigger
    BY <1>0, <2>0, <2>7 DEF DangerTrigger, trigger_anomaly
  <2> QED
    BY <1>5, <2>1, <2>2, <2>3, <2>4, <2>5, <2>6, <2>7 DEF Alert
<1>6. CASE Command
  BY <1>6 DEF Command, CommandIsolate, CommandRestore, CommandReroute,
              CommandQuarantine, CommandRelease, Handling, Done, force_restore,
              ClearTargets
<1>7. ASSUME NEW d \in Dpids, SwitchConnects(d) \/ SwitchDisconnects(d)
      PROVE  QuietBeforeRollback'
  BY <1>7 DEF SwitchConnects, SwitchDisconnects
<1>8. CASE ControllerRestarts
  BY <1>8 DEF ControllerRestarts
<1>9. CASE Tick
  <2>1. pc = "poll" /\ rollback = {}
    BY <1>9 DEF Tick
  <2> QED
    BY <1>0, <1>9, <2>1 DEF Tick, FSMTick, Older
<1>10. CASE UNCHANGED vars
  BY <1>10 DEF vars
<1> QED
  BY <1>1, <1>2, <1>3, <1>4, <1>5, <1>6, <1>7, <1>8, <1>9, <1>10
     DEF Next, Listener, Poll

\* Every step preserves the inductive invariant.
LEMMA DefenceInductive == DefenceInv /\ [Next]_vars => DefenceInv'
  BY TypeInductive, AlertKeepsSets, CommandKeepsSets, OtherStepsKeepSets,
     QuietInductive
     DEF DefenceInv, Next, Listener

\* The inductive invariant holds in every reachable state.
THEOREM DefenceInvariant == Spec => []DefenceInv
<1>1. Init => DefenceInv
  BY TypeInit
     DEF Init, FSMInit, DefenceInv, GuardHolds, StagesExclusive,
         QuietBeforeRollback, Answering, InFlight
<1> QED
  BY <1>1, DefenceInductive, PTL DEF Spec

\* No trunk and no protected port is ever dropped, limited, tracked or taken up
\* in a rollback, with any messages, disconnections and restarts.
THEOREM GuardCorrect == Spec => []GuardHolds
<1>1. DefenceInv => GuardHolds
  BY DEF DefenceInv
<1> QED
  BY <1>1, DefenceInvariant, PTL

\* WARNING and DANGER never hold the same port, and the FSM is NORMAL exactly
\* when it has no target.
THEOREM StagesCorrect == Spec => []StagesExclusive
<1>1. DefenceInv => StagesExclusive
  BY DEF DefenceInv
<1> QED
  BY <1>1, DefenceInvariant, PTL

\* The targets of a rollback have been quiet for the whole cooldown.
THEOREM RollbackIsDue == Spec => []QuietBeforeRollback
<1>1. DefenceInv => QuietBeforeRollback
  BY DEF DefenceInv
<1> QED
  BY <1>1, DefenceInvariant, PTL

\* An alert installs a drop with its owner and a meter with its key, and takes
\* a key away only together with the meter, if the switch can be reached.
LEMMA AlertsLeaveNoOrphan ==
  ASSUME Alert
  PROVE  /\ OrphanDrops' \subseteq OrphanDrops
         /\ \A p \in OrphanMeters' \ OrphanMeters : ~connected(p)
<1> USE DEF OrphanDrops, OrphanMeters, Owned, Answering, InFlight, switch_vars,
            limit_vars, fsm_vars, Done, Goto, Handling, Reached
<1>1. CASE AlertHeld \/ AlertRejected \/ AlertOnGuardedPort
  BY <1>1 DEF AlertHeld, AlertRejected, AlertOnGuardedPort, Ingested
<1>2. CASE WarningHeartbeat \/ WarningLimit \/ WarningExtend
  BY <1>2 DEF WarningHeartbeat, WarningLimit, WarningExtend, Ingested,
              trigger_anomaly
<1>3. CASE DangerHeartbeat
  BY <1>3 DEF DangerHeartbeat, Escalated, Ingested, trigger_anomaly,
              DropRateLimit, unrate_limit_port
<1>4. CASE DangerQuarantine \/ DangerIsolate
  BY <1>4 DEF DangerQuarantine, DangerIsolate, Escalated, Ingested,
              DropRateLimit, unrate_limit_port, isolate_port
<1>5. CASE DangerReroute \/ DangerTrigger
  BY <1>5 DEF DangerReroute, DangerTrigger, trigger_anomaly
<1> QED
  BY <1>1, <1>2, <1>3, <1>4, <1>5 DEF Alert

\* An operator's RESTORE and ISOLATE are the only commands that can leave a drop
\* without an owner.
LEMMA CommandOrphans ==
  ASSUME Command
  PROVE  /\ ~Handling({"RESTORE", "ISOLATE"}) => OrphanDrops' \subseteq OrphanDrops
         /\ \A p \in OrphanMeters' \ OrphanMeters : ~connected(p)
<1> USE DEF OrphanDrops, OrphanMeters, Owned, Answering, InFlight, limit_vars,
            fsm_vars, Done, Handling, Reached
<1>1. CASE CommandIsolate
  BY <1>1 DEF CommandIsolate
<1>2. CASE CommandRestore
  BY <1>2 DEF CommandRestore, DropRateLimit, unrate_limit_port
<1>3. CASE CommandReroute \/ CommandQuarantine \/ CommandRelease
  BY <1>3 DEF CommandReroute, CommandQuarantine, CommandRelease
<1> QED
  BY <1>1, <1>2, <1>3 DEF Command

\* Housekeeping hands the FSM's targets to the rollback, which removes what it
\* can reach; the environment touches neither a rule nor an owner.
LEMMA HousekeepingOrphans ==
  ASSUME QuietBeforeRollback,
         Poll \/ (\E q \in Ports : RollbackTarget(q)) \/ RollbackDone
           \/ ExpireRateLimits
           \/ (\E d \in Dpids : SwitchConnects(d) \/ SwitchDisconnects(d)) \/ Tick
  PROVE  /\ \A p \in OrphanDrops' \ OrphanDrops : ~connected(p)
         /\ \A p \in OrphanMeters' \ OrphanMeters : ~connected(p)
<1> USE DEF OrphanDrops, OrphanMeters, Owned, Answering, InFlight, switch_vars,
            limit_vars, loop_vars, fsm_vars, defence_vars, Reached
<1> DEFINE Kept == /\ \A p \in OrphanDrops' \ OrphanDrops : ~connected(p)
                   /\ \A p \in OrphanMeters' \ OrphanMeters : ~connected(p)
<1>1. ASSUME NEW m, PollIdle(m) \/ PollCooldown(m) PROVE Kept
  BY <1>1 DEF PollIdle, PollCooldown, Take, HeartbeatIdle, HeartbeatCooldown
<1>2. ASSUME NEW m, PollRollback(m) PROVE Kept
  BY <1>2 DEF PollRollback, Take, HeartbeatRollback, QuietBeforeRollback
<1>3. ASSUME NEW q \in Ports, RollbackTarget(q) PROVE Kept
  BY <1>3 DEF RollbackTarget, restore_port
<1>4. CASE RollbackDone
  BY <1>4 DEF RollbackDone, Goto
<1>5. CASE ExpireRateLimits
  BY <1>5 DEF ExpireRateLimits, TakeUpMessage, unrate_limit_port, Goto, Done
<1>6. ASSUME NEW d \in Dpids, SwitchConnects(d) \/ SwitchDisconnects(d) PROVE Kept
  BY <1>6 DEF SwitchConnects, SwitchDisconnects
<1>7. CASE Tick
  BY <1>7 DEF Tick, FSMTick
<1> QED
  BY <1>1, <1>2, <1>3, <1>4, <1>5, <1>6, <1>7 DEF Poll

\* A drop rule loses its owner, or a meter its key, only by a restart, with the
\* switch away, or (drops) by an operator's command.
THEOREM NoOrphanWithoutCause == Spec => OrphansHaveCause
<1> DEFINE Caused ==
      \/ ControllerRestarts
      \/ /\ \A p \in OrphanDrops' \ OrphanDrops :
              ~connected(p) \/ Handling({"RESTORE", "ISOLATE"})
         /\ \A p \in OrphanMeters' \ OrphanMeters : ~connected(p)
<1>1. DefenceInv /\ [Next]_vars => [Caused]_vars
  <2> SUFFICES ASSUME DefenceInv, Next PROVE Caused
    OBVIOUS
  <2>1. QuietBeforeRollback
    BY DEF DefenceInv
  <2> QED
    BY <2>1, AlertsLeaveNoOrphan, CommandOrphans, HousekeepingOrphans
       DEF Next, Listener
<1> QED
  BY <1>1, DefenceInvariant, PTL DEF Spec, OrphansHaveCause

\* During a manual hold no alert drops, limits or quarantines the port: the
\* only steps that do so for an alert look at the hold first, and the steps
\* after an await touch no other port's rules.
THEOREM HoldIsRespected == Spec => HoldRespected
<1> DEFINE Respected ==
      \A p \in Ports :
        \/ manual_holds[p] = 0
        \/ cur = NoMessage \/ cur.kind \notin AlertStages
        \/ /\ p \notin drops' \ drops
           /\ p \notin police' \ police
           /\ p \notin quarantined_hosts' \ quarantined_hosts
<1>1. [Next]_vars => [Respected]_vars
  <2> SUFFICES ASSUME Next,
                      NEW p \in Ports, manual_holds[p] # 0,
                      cur # NoMessage, cur.kind \in AlertStages
               PROVE  /\ p \notin drops' \ drops
                      /\ p \notin police' \ police
                      /\ p \notin quarantined_hosts' \ quarantined_hosts
    OBVIOUS
  <2> USE DEF switch_vars, Reached
  <2>1. CASE Alert
    BY <2>1
       DEF Alert, AlertHeld, AlertRejected, AlertOnGuardedPort, Ingested,
           Escalated, DropRateLimit, unrate_limit_port, WarningHeartbeat,
           WarningLimit, WarningExtend, DangerHeartbeat, DangerQuarantine,
           DangerIsolate, DangerReroute, DangerTrigger, isolate_port,
           quarantine_host
  <2>2. CASE Command
    BY <2>2 DEF Command, CommandIsolate, CommandRestore, CommandReroute,
                CommandQuarantine, CommandRelease, Handling, AlertStages
  <2>3. CASE Poll \/ RollbackDone \/ ExpireRateLimits
               \/ \E q \in Ports : RollbackTarget(q)
    BY <2>3 DEF Poll, PollIdle, PollCooldown, PollRollback, Take, RollbackDone,
                ExpireRateLimits, unrate_limit_port, RollbackTarget, restore_port
  <2>4. CASE ControllerRestarts \/ Tick
               \/ \E d \in Dpids : SwitchConnects(d) \/ SwitchDisconnects(d)
    BY <2>4 DEF ControllerRestarts, Tick, SwitchConnects, SwitchDisconnects,
                defence_vars
  <2> QED
    BY <2>1, <2>2, <2>3, <2>4 DEF Next, Listener
<1> QED
  BY <1>1, PTL DEF Spec, HoldRespected

-----------------------------------------------------------------------------
(***************************************************************************)
(* The FSM as a component of the controller.                               *)
(***************************************************************************)
FSM == INSTANCE FlappingFSMSystem

\* However the listener mixes alerts, commands and housekeeping, it uses the FSM
\* as FlappingFSMSystem does, so that what is proved there of the FSM on its own
\* holds of the one in the controller.  A restart begins a new FSM.
THEOREM FSMInPlace ==
  ASSUME ~Restarts
  PROVE  Spec => FSM!FSMSpec
<1> USE DEF FSM!FSMNext, FSM!Alert, FSM!fsm_vars, fsm_vars
<1>1. Init => FSM!FSMInit
  BY DEF Init, FSMInit, FSM!FSMInit
<1>2. TypeOK /\ [Next]_vars => [FSM!FSMNext]_FSM!fsm_vars
  <2> SUFFICES ASSUME TypeOK, [Next]_vars PROVE [FSM!FSMNext]_FSM!fsm_vars
    OBVIOUS
  <2>1. CASE Poll
    BY <2>1
       DEF Poll, PollIdle, PollCooldown, PollRollback, HeartbeatIdle,
           HeartbeatCooldown, HeartbeatRollback, ClearTargets,
           FSM!HeartbeatIdle, FSM!HeartbeatCooldown, FSM!HeartbeatRollback,
           FSM!ClearTargets
  <2>2. CASE WarningHeartbeat \/ DangerHeartbeat \/ DangerTrigger
    <3>1. trigger_anomaly(cur.port)
      BY <2>2 DEF WarningHeartbeat, DangerHeartbeat, DangerTrigger
    <3>2. cur.port \in Ports
      BY <2>2, MessageFacts
         DEF WarningHeartbeat, DangerHeartbeat, DangerTrigger, Escalated, Ingested,
             Handling, TypeOK
    <3> QED
      BY <3>1, <3>2 DEF trigger_anomaly, FSM!trigger_anomaly
  <2>3. CASE CommandRestore
    BY <2>3 DEF CommandRestore, force_restore, ClearTargets, FSM!force_restore,
                FSM!ClearTargets
  <2>4. CASE Tick
    BY <2>4 DEF Tick, FSMTick, Older, FSM!FSMTick, FSM!Older
  <2>5. CASE \/ AlertHeld \/ AlertRejected \/ AlertOnGuardedPort \/ WarningLimit
             \/ WarningExtend \/ DangerQuarantine \/ DangerIsolate \/ DangerReroute
             \/ CommandIsolate \/ CommandReroute \/ CommandQuarantine \/ CommandRelease
             \/ (\E p \in Ports : RollbackTarget(p)) \/ RollbackDone
             \/ ExpireRateLimits \/ UNCHANGED vars
             \/ \E d \in Dpids : SwitchConnects(d) \/ SwitchDisconnects(d)
    BY <2>5 DEF AlertHeld, AlertRejected, AlertOnGuardedPort, WarningLimit,
         WarningExtend, DangerQuarantine, DangerIsolate, DangerReroute,
         CommandIsolate, CommandReroute, CommandQuarantine, CommandRelease,
         RollbackTarget, RollbackDone, ExpireRateLimits, SwitchConnects,
         SwitchDisconnects, defence_vars, vars
  <2>6. ~ControllerRestarts
    BY DEF ControllerRestarts
  <2> QED
    BY <2>1, <2>2, <2>3, <2>4, <2>5, <2>6 DEF Next, Listener, Alert, Command
<1> QED
  BY <1>1, <1>2, ControllerTypeCorrect, PTL DEF Spec, FSM!FSMSpec
=============================================================================
