-------------------------- MODULE OwnershipProofs ---------------------------
(***************************************************************************)
(* The autonomous defence keeps its books: while every switch stays        *)
(* connected, the process is not restarted and nobody but the detector     *)
(* speaks, every rule it installs has an owner that will take it out, and  *)
(* what it believes, what the flow tables hold and what the dashboard was  *)
(* told agree.  For all ports, hosts, alerts and periods.                  *)
(*                                                                         *)
(* The hypotheses of Autonomous are needed: a switch that is away gets no  *)
(* rule (run not_installed), a restart forgets the rules there are, and an *)
(* operator's RESTORE forgets those of other ports (run orphaned_drops).   *)
(*                                                                         *)
(* On top of DefenceInv, the properties of DefenceProperties are not       *)
(* inductive one by one.  A rollback takes drop rules and announcements    *)
(* back one target at a time, after the FSM has forgotten them; an alert   *)
(* installs and announces before the FSM is told.  So the announcements    *)
(* are those of the targets, the rollback and the alert in hand together,  *)
(* and the target of the alert in hand is cut off before the FSM knows.    *)
(***************************************************************************)
EXTENDS ControllerProofs

Autonomous ==
  /\ FlakyDpids = {}
  /\ ~Restarts
  /\ \A m \in Messages : m.kind \in AlertStages
  /\ hard_whitelist \subseteq protected_access_ports

\* Every FlowMod arrives, so the meters are those of rate_limits at any time.
EveryRuleArrives == datapaths = Dpids /\ police = rate_limits

\* A port is cut off from the moment its alert is answered.
AnsweredIsCutOff == Answering \subseteq drops \union quarantined_hosts

\* The announcements that are not taken back are those of the ports in hand.
AnnouncedIsDefended ==
  announced = mitigated_targets \union rollback \union Answering

\* The dashboard is not told NORMAL while the FSM is not.
NormalMeansNormal == phase = "NORMAL" => fsm_state = "NORMAL"

\* The FSM takes no target on while the old ones are taken back.
RollbackComesAlone == pc = "rollback" => mitigated_targets = {}

OwnershipInv ==
  /\ EveryRuleArrives
  /\ DropsOwned
  /\ MitigationInstalled
  /\ AnsweredIsCutOff
  /\ AnnouncedIsDefended
  /\ NormalMeansNormal
  /\ RollbackComesAlone

-----------------------------------------------------------------------------
(***************************************************************************)
(* What can happen.                                                        *)
(***************************************************************************)
\* With nobody but the detector speaking on undisturbed connections, a step is
\* one of the listener's own, or time passes.
LEMMA AutonomousSteps ==
  ASSUME Autonomous, DefenceInv, [Next]_vars
  PROVE  \/ Poll \/ (\E p \in Ports : RollbackTarget(p)) \/ RollbackDone
         \/ ExpireRateLimits \/ Alert \/ Tick \/ UNCHANGED vars
<1>1. /\ ~ControllerRestarts
      /\ ~\E d \in Dpids : SwitchConnects(d) \/ SwitchDisconnects(d)
  BY DEF Autonomous, ControllerRestarts, SwitchConnects, SwitchDisconnects
<1>2. ~Command
  <2>1. pc = "dispatch" => cur.kind \in AlertStages
    BY DEF DefenceInv, TypeOK, Autonomous
  <2> QED
    BY <2>1 DEF Command, CommandIsolate, CommandRestore, CommandReroute,
         CommandQuarantine, CommandRelease, Handling, AlertStages
<1> QED
  BY <1>1, <1>2 DEF Next, Listener

\* No alert is handled during a rollback, and the one in hand names a port.
LEMMA AlertInHand ==
  ASSUME DefenceInv, Alert
  PROVE  /\ pc \in {"dispatch", "reroute", "trigger"}
         /\ rollback = {}
         /\ cur.port \in Ports
<1>1. pc \in {"dispatch", "reroute", "trigger"}
  BY DEF Alert, AlertHeld, AlertRejected, AlertOnGuardedPort, Ingested,
         Escalated, WarningHeartbeat, WarningLimit, WarningExtend,
         DangerHeartbeat, DangerQuarantine, DangerIsolate, DangerReroute,
         DangerTrigger, Handling
<1> QED
  BY <1>1, MessageFacts DEF DefenceInv, TypeOK, QuietBeforeRollback

\* A mitigation ends with the FSM in NORMAL: without targets, and with no alert
\* in hand while targets are taken back.
LEMMA NormalFacts ==
  ASSUME DefenceInv
  PROVE  /\ fsm_state = "NORMAL" <=> mitigated_targets = {}
         /\ rate_limits \intersect (mitigated_targets \union Answering) = {}
         /\ pc # "rollback" => rollback = {}
         /\ mitigated_targets \subseteq Ports /\ rate_limits \subseteq Ports
         /\ rollback \subseteq Ports
  BY DEF DefenceInv, StagesExclusive, QuietBeforeRollback, TypeOK, FSMTypeOK

-----------------------------------------------------------------------------
(***************************************************************************)
(* The inductive steps.                                                    *)
(***************************************************************************)
\* Polling moves the targets to the rollback at most, and the rollback takes
\* back of one target at a time its drop rule and its announcement.
LEMMA HousekeepingOwns ==
  ASSUME DefenceInv, OwnershipInv,
         \/ Poll \/ (\E p \in Ports : RollbackTarget(p)) \/ RollbackDone
         \/ ExpireRateLimits \/ Tick \/ UNCHANGED vars
  PROVE  OwnershipInv'
<1> USE NormalFacts
    DEF OwnershipInv, EveryRuleArrives, DropsOwned, OrphanDrops, Owned, MitigationInstalled,
        AnsweredIsCutOff, AnnouncedIsDefended, NormalMeansNormal,
        RollbackComesAlone, Answering,
        InFlight, switch_vars, conn_vars, limit_vars, loop_vars, fsm_vars,
        _publish_topology_sync
<1>1. ASSUME NEW m, PollIdle(m) \/ PollCooldown(m)
      PROVE  OwnershipInv'
  BY <1>1 DEF PollIdle, PollCooldown, Take, HeartbeatIdle, HeartbeatCooldown
<1>2. ASSUME NEW m, PollRollback(m)
      PROVE  OwnershipInv'
  BY <1>2 DEF PollRollback, Take, HeartbeatRollback, ClearTargets
<1>3. ASSUME NEW p \in Ports, RollbackTarget(p)
      PROVE  OwnershipInv'
  <2>1. Reached({p}) = {p}
    BY AllReached
  <2> QED
    BY <1>3, <2>1 DEF RollbackTarget, restore_port
<1>4. CASE RollbackDone
  BY <1>4 DEF RollbackDone, Goto
<1>5. CASE ExpireRateLimits
  <2> DEFINE expired == {p \in rate_limits : rate_age[p] >= WARNING_HOLD_SEC}
  <2>1. Reached(expired) = expired
    BY AllReached
  <2>2. police' = rate_limits' /\ UNCHANGED datapaths
    BY <1>5, <2>1 DEF ExpireRateLimits, unrate_limit_port
  <2> QED
    BY <1>5, <2>2 DEF ExpireRateLimits, TakeUpMessage, AllLifted, Goto, Done
<1>6. CASE Tick
  BY <1>6 DEF Tick, FSMTick
<1>7. CASE UNCHANGED vars
  BY <1>7 DEF vars
<1> QED
  BY <1>1, <1>2, <1>3, <1>4, <1>5, <1>6, <1>7 DEF Poll

\* A WARNING that is acted on touches neither drop rules nor announcements.
LEMMA WarningOwns ==
  ASSUME DefenceInv, OwnershipInv,
         \/ AlertHeld \/ AlertRejected \/ AlertOnGuardedPort
         \/ WarningHeartbeat \/ WarningLimit \/ WarningExtend
  PROVE  OwnershipInv'
<1> USE NormalFacts
    DEF OwnershipInv, EveryRuleArrives, DropsOwned, OrphanDrops, Owned, MitigationInstalled,
        AnsweredIsCutOff, AnnouncedIsDefended, NormalMeansNormal,
        RollbackComesAlone, Answering,
        InFlight, switch_vars, conn_vars, limit_vars, fsm_vars, Done, Handling,
        _publish_topology_sync
<1>0. rollback = {} /\ cur.port \in Ports
  BY AlertInHand DEF Alert
<1>1. CASE AlertHeld \/ AlertRejected \/ AlertOnGuardedPort
  BY <1>1 DEF AlertHeld, AlertRejected, AlertOnGuardedPort, Ingested
<1>2. CASE WarningHeartbeat
  BY <1>2 DEF WarningHeartbeat, Ingested, AlreadyMitigated, trigger_anomaly
<1>3. CASE WarningLimit
  <2>1. Reached({cur.port}) = {cur.port}
    BY <1>0, AllReached
  <2> QED
    BY <1>3, <2>1 DEF WarningLimit, Ingested
<1>4. CASE WarningExtend
  BY <1>4 DEF WarningExtend, Ingested
<1> QED
  BY <1>1, <1>2, <1>3, <1>4

\* A DANGER cuts its port off and announces it at once, and hands it to the FSM
\* when the bypass is in place.
LEMMA DangerOwns ==
  ASSUME Autonomous, DefenceInv, OwnershipInv,
         \/ DangerHeartbeat \/ DangerQuarantine \/ DangerIsolate
         \/ DangerReroute \/ DangerTrigger
  PROVE  OwnershipInv'
<1> USE NormalFacts
    DEF OwnershipInv, EveryRuleArrives, DropsOwned, OrphanDrops, Owned, MitigationInstalled,
        AnsweredIsCutOff, AnnouncedIsDefended, NormalMeansNormal,
        RollbackComesAlone, Answering,
        InFlight, switch_vars, conn_vars, limit_vars, fsm_vars, Done, Goto,
        Handling, _publish_topology_sync
<1>0. rollback = {} /\ cur.port \in Ports
  BY AlertInHand DEF Alert
<1>a. Reached({cur.port}) = {cur.port}
  BY <1>0, AllReached
<1>b. ASSUME Escalated
      PROVE  /\ police' = rate_limits' /\ UNCHANGED datapaths
             /\ pc = "dispatch" /\ can_isolate(cur.port)
  <2>1. Reached({cur.port} \intersect rate_limits) = {cur.port} \intersect rate_limits
    BY AllReached
  <2> QED
    BY <1>b, <2>1 DEF Escalated, Ingested, DropRateLimit, unrate_limit_port
<1>1. CASE DangerHeartbeat
  BY <1>0, <1>b, <1>1 DEF DangerHeartbeat, AlreadyMitigated, trigger_anomaly
<1>2. CASE DangerQuarantine
  <2>1. cur.port \in hosts \ hard_whitelist
    BY <1>b, <1>2 DEF DangerQuarantine, Autonomous, can_isolate
  <2>2. /\ quarantined_hosts' = quarantined_hosts \union {cur.port}
        /\ announced' = announced \union {cur.port}
        /\ pc' = "trigger"
        /\ UNCHANGED <<cur, drops, rollback, phase, fsm_state, mitigated_targets>>
    BY <1>2, <2>1 DEF DangerQuarantine, quarantine_host
  <2> QED
    BY <1>0, <1>b, <1>2, <2>2 DEF DangerQuarantine
<1>3. CASE DangerIsolate
  BY <1>0, <1>a, <1>b, <1>3 DEF DangerIsolate, isolate_port
<1>4. CASE DangerReroute
  BY <1>4 DEF DangerReroute
<1>5. CASE DangerTrigger
  BY <1>0, <1>5 DEF DangerTrigger, trigger_anomaly
<1> QED
  BY <1>1, <1>2, <1>3, <1>4, <1>5

\* Every step of the autonomous defence preserves the invariant.
LEMMA OwnershipInductive ==
  ASSUME Autonomous, DefenceInv, OwnershipInv, [Next]_vars
  PROVE  OwnershipInv'
<1>1. CASE Alert
  BY <1>1, WarningOwns, DangerOwns DEF Alert
<1> QED
  BY <1>1, AutonomousSteps, HousekeepingOwns

\* It holds in every reachable state of the autonomous defence.
LEMMA OwnershipInvariant ==
  ASSUME Autonomous
  PROVE  Spec => []OwnershipInv
<1>1. Init => OwnershipInv
  BY DEF Init, FSMInit, OwnershipInv, EveryRuleArrives, DropsOwned, OrphanDrops, Owned,
         MitigationInstalled, AnsweredIsCutOff, AnnouncedIsDefended,
         NormalMeansNormal, RollbackComesAlone, Answering, InFlight
<1>2. DefenceInv /\ OwnershipInv /\ [Next]_vars => OwnershipInv'
  BY OwnershipInductive
<1> QED
  BY <1>1, <1>2, DefenceInvariant, PTL DEF Spec

-----------------------------------------------------------------------------
(***************************************************************************)
(* The properties.                                                         *)
(***************************************************************************)
\* Every drop rule belongs to the FSM, to a rollback in progress or to the
\* alert being answered: none is ever forgotten.
THEOREM DropsAreOwned ==
  ASSUME Autonomous
  PROVE  Spec => []DropsOwned
<1>1. OwnershipInv => DropsOwned
  BY DEF OwnershipInv
<1> QED
  BY <1>1, OwnershipInvariant, PTL

\* What the FSM calls mitigated is cut off, by a drop rule or by a quarantine.
THEOREM MitigationIsReal ==
  ASSUME Autonomous
  PROVE  Spec => []MitigationInstalled
<1>1. OwnershipInv => MitigationInstalled
  BY DEF OwnershipInv
<1> QED
  BY <1>1, OwnershipInvariant, PTL

\* The meters in the switches are those the controller accounts for.
THEOREM LimitsAreReal ==
  ASSUME Autonomous
  PROVE  Spec => []LimitsInstalled
<1>1. OwnershipInv => LimitsInstalled
  BY DEF OwnershipInv, EveryRuleArrives, LimitsInstalled
<1> QED
  BY <1>1, OwnershipInvariant, PTL

\* Between two messages the dashboard lists as isolated exactly what the FSM
\* holds.
THEOREM AnnouncementsAreTrue ==
  ASSUME Autonomous
  PROVE  Spec => []AnnouncedIsTracked
<1>1. DefenceInv /\ OwnershipInv => AnnouncedIsTracked
  BY DEF OwnershipInv, AnnouncedIsDefended, AnnouncedIsTracked, DefenceInv,
         QuietBeforeRollback, Answering, InFlight
<1> QED
  BY <1>1, DefenceInvariant, OwnershipInvariant, PTL

\* A dashboard that shows NORMAL shows a network in which nothing is cut off.
THEOREM NormalIsTrue ==
  ASSUME Autonomous
  PROVE  Spec => []NormalPhaseIsTrue
<1>1. DefenceInv /\ OwnershipInv => NormalPhaseIsTrue
  BY DEF OwnershipInv, NormalMeansNormal, DropsOwned, OrphanDrops, Owned, NormalPhaseIsTrue,
         DefenceInv, StagesExclusive, QuietBeforeRollback, Answering, InFlight
<1> QED
  BY <1>1, DefenceInvariant, OwnershipInvariant, PTL

\* An incident is announced once: no second ISOLATE or QUARANTINE before its
\* RESTORE.
THEOREM AnnouncedOnce ==
  ASSUME Autonomous
  PROVE  Spec => IsolateAnnouncedOnce
<1> DEFINE Once == (pc = "dispatch" /\ pc' \in {"reroute", "trigger"})
                     => cur.port \notin announced
<1>1. DefenceInv /\ OwnershipInv /\ [Next]_vars => [Once]_vars
  <2> SUFFICES ASSUME DefenceInv, OwnershipInv, Next, pc = "dispatch",
                      pc' \in {"reroute", "trigger"}
               PROVE  cur.port \notin announced
    OBVIOUS
  <2>1. ~AlreadyMitigated
    BY DEF Next, Listener, Poll, PollIdle, PollCooldown, PollRollback, Take,
           RollbackTarget, RollbackDone, ExpireRateLimits, TakeUpMessage, Goto, Done, Alert,
           AlertHeld, AlertRejected, AlertOnGuardedPort, WarningHeartbeat,
           WarningLimit, WarningExtend, DangerHeartbeat, DangerQuarantine,
           DangerIsolate, DangerReroute, DangerTrigger, Command,
           CommandIsolate, CommandRestore, CommandReroute, CommandQuarantine,
           CommandRelease, SwitchConnects, SwitchDisconnects,
           ControllerRestarts, Tick, defence_vars, loop_vars
  <2>2. announced = mitigated_targets
    BY DEF DefenceInv, QuietBeforeRollback, OwnershipInv, AnnouncedIsDefended,
           Answering, InFlight
  <2> QED
    BY <2>1, <2>2 DEF AlreadyMitigated, DefenceInv, StagesExclusive
<1> QED
  BY <1>1, DefenceInvariant, OwnershipInvariant, PTL DEF Spec, IsolateAnnouncedOnce
=============================================================================
