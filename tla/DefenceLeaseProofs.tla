------------------------- MODULE DefenceLeaseProofs -------------------------
(***************************************************************************)
(* Controller implements PortLease while every switch stays connected and  *)
(* the process is not restarted, for all ports, hosts, messages and        *)
(* periods.  Two more facts about the constants are used, and both hold in *)
(* the code: the warning hold is no longer than the cooldown (10 s each),  *)
(* and the hosts that quarantine_host refuses sit on protected ports.      *)
(*                                                                         *)
(* On top of DefenceInv the mapping needs LeaseInv: the meters are those   *)
(* of rate_limits, a rate limit's age never runs ahead of its port's last  *)
(* alert, and a port that is being rolled back is not limited - or the     *)
(* rollback would turn a cut port into a limited one.                      *)
(***************************************************************************)
EXTENDS DefenceLease, ControllerProofs

Undisturbed ==
  /\ FlakyDpids = {}
  /\ ~Restarts
  /\ WARNING_HOLD_SEC <= cooldown_sec
  /\ hard_whitelist \subseteq protected_access_ports

LeaseInv ==
  /\ datapaths = Dpids
  /\ police = rate_limits
  /\ rate_limits \intersect rollback = {}
  /\ \A p \in rate_limits : rate_age[p] <= alert_age[p] /\ rate_age[p] <= WARNING_HOLD_SEC

\* LeaseInv is inductive relative to DefenceInv.
LEMMA LeaseInductive ==
  ASSUME Undisturbed, DefenceInv, LeaseInv, [Next]_vars
  PROVE  LeaseInv'
<1> USE DEF Undisturbed, LeaseInv, switch_vars, conn_vars, limit_vars, loop_vars,
            defence_vars
<1>0. /\ rate_age \in [Ports -> Nat] /\ alert_age \in [Ports -> 0..cooldown_sec]
      /\ rate_limits \subseteq Ports /\ police \subseteq Ports
      /\ rate_limits \intersect mitigated_targets = {}
      /\ WARNING_HOLD_SEC \in Nat /\ cooldown_sec \in Nat
  BY ControllerAssumption, CooldownAssumption
     DEF DefenceInv, TypeOK, StagesExclusive, ControllerAssumption, CooldownAssumption
<1>1. CASE Poll
  BY <1>0, <1>1 DEF Poll, PollIdle, PollCooldown, PollRollback, Take
<1>2. CASE RollbackDone \/ \E p \in Ports : RollbackTarget(p)
  BY <1>2 DEF RollbackDone, RollbackTarget, Goto
<1>3. CASE ExpireRateLimits
  <2> DEFINE expired == {p \in rate_limits : rate_age[p] >= WARNING_HOLD_SEC}
  <2>1. Reached(expired) = expired
    BY <1>0, AllReached
  <2> QED
    BY <1>0, <1>3, <2>1
       DEF ExpireRateLimits, TakeUpMessage, unrate_limit_port, Goto, Done
<1>4. CASE Alert
  <2> USE DEF Done, Goto, Handling
  <2>0. ASSUME pc = "dispatch" PROVE cur.port \in Ports
    BY <2>0, MessageFacts DEF DefenceInv, TypeOK
  <2>1. pc # "rollback" /\ rollback = {}
    BY <1>4 DEF DefenceInv, QuietBeforeRollback, Alert, AlertHeld, AlertRejected,
         AlertOnGuardedPort, Ingested, Escalated, WarningHeartbeat, WarningLimit,
         WarningExtend, DangerHeartbeat, DangerQuarantine, DangerIsolate,
         DangerReroute, DangerTrigger
  <2>2. CASE AlertHeld \/ AlertRejected \/ AlertOnGuardedPort \/ DangerReroute
               \/ DangerTrigger
    BY <2>1, <2>2 DEF AlertHeld, AlertRejected, AlertOnGuardedPort, Ingested,
                DangerReroute, DangerTrigger
  <2>3. CASE WarningHeartbeat
    BY <1>0, <2>0, <2>1, <2>3
       DEF WarningHeartbeat, Ingested, ActedOn, AlreadyMitigated
  <2>4. CASE WarningLimit
    <3>1. cur.port \in Ports /\ Reached({cur.port}) = {cur.port}
      BY <2>0, <2>4, AllReached DEF WarningLimit, Ingested
    <3> QED
      BY <1>0, <2>1, <2>4, <3>1 DEF WarningLimit, Ingested, ActedOn, _publish_topology_sync
  <2>5. CASE WarningExtend
    BY <1>0, <2>0, <2>1, <2>5 DEF WarningExtend, Ingested, ActedOn
  <2>6. CASE DangerHeartbeat \/ DangerQuarantine \/ DangerIsolate
    <3>1. Escalated /\ cur.port \in Ports /\ rollback' = rollback
      BY <2>0, <2>6 DEF DangerHeartbeat, DangerQuarantine, DangerIsolate,
                        Escalated, Ingested
    <3>2. Reached({cur.port} \intersect rate_limits) = {cur.port} \intersect rate_limits
      BY <1>0, AllReached
    <3> QED
      BY <1>0, <2>1, <3>1, <3>2
         DEF Escalated, Ingested, ActedOn, DropRateLimit, unrate_limit_port
  <2> QED
    BY <1>4, <2>2, <2>3, <2>4, <2>5, <2>6 DEF Alert
<1>5. CASE Command
  <2> USE DEF Done, Handling
  <2>1. CASE CommandRestore
    <3>1. Reached({cur.port} \intersect rate_limits) = {cur.port} \intersect rate_limits
      BY <1>0, AllReached
    <3> QED
      BY <1>0, <2>1, <3>1 DEF CommandRestore, DropRateLimit, unrate_limit_port
  <2>2. CASE CommandIsolate \/ CommandReroute \/ CommandQuarantine \/ CommandRelease
    BY <2>2 DEF CommandIsolate, CommandReroute, CommandQuarantine, CommandRelease
  <2> QED
    BY <1>5, <2>1, <2>2 DEF Command
<1>6. CASE Tick
  BY <1>0, <1>6 DEF Tick, Older
<1>7. CASE UNCHANGED vars
  BY <1>7 DEF vars
<1>8. ~ControllerRestarts /\ ~\E d \in Dpids : SwitchConnects(d) \/ SwitchDisconnects(d)
  BY DEF ControllerRestarts, SwitchConnects, SwitchDisconnects
<1> QED
  BY <1>1, <1>2, <1>3, <1>4, <1>5, <1>6, <1>7, <1>8 DEF Next, Listener

-----------------------------------------------------------------------------
(***************************************************************************)
(* Every step is a step of PortLease or leaves the mapped state alone.     *)
(***************************************************************************)
SamePort(q) ==
  /\ q \in drops' <=> q \in drops
  /\ q \in police' <=> q \in police
  /\ q \in contain' <=> q \in contain
  /\ q \in allow' <=> q \in allow

\* A step that changes the rules of one port changes the mode of that port.
LEMMA OnePort ==
  ASSUME NEW p \in Ports, \A q \in Ports \ {p} : SamePort(q)
  PROVE  modes' = [modes EXCEPT ![p] = ModeOf(p)']
<1>1. \A q \in Ports \ {p} : ModeOf(q)' = ModeOf(q)
  BY DEF SamePort, ModeOf
<1>2. modes' = [q \in Ports |-> ModeOf(q)']
  BY DEF modes
<1> QED
  BY <1>1, <1>2 DEF modes

\* A step that changes no rule changes no mode.
LEMMA NoPort ==
  ASSUME \A q \in Ports : SamePort(q)
  PROVE  UNCHANGED modes
<1>1. \A q \in Ports : ModeOf(q)' = ModeOf(q)
  BY DEF SamePort, ModeOf
<1> QED
  BY <1>1 DEF modes

\* There are three modes.
LEMMA Modes ==
  ASSUME NEW p \in Ports
  PROVE  /\ modes[p] = ModeOf(p)
         /\ ModeOf(p) \in {"open", "limited", "cut"}
         /\ ModeOf(p)' \in {"open", "limited", "cut"}
  BY DEF modes, ModeOf

\* An alert in hand is not a command, and its handler takes none up.
LEMMA AlertIsNoCommand ==
  ASSUME Alert
  PROVE  Commanded = {} /\ Commanded' = {}
<1>1. /\ pc \in {"reroute", "trigger"} \/ cur.kind \in AlertStages
      /\ pc' \in {"poll", "reroute", "trigger"}
  BY DEF Alert, AlertHeld, AlertRejected, AlertOnGuardedPort, Ingested,
         Escalated, WarningHeartbeat, WarningLimit, WarningExtend,
         DangerHeartbeat, DangerQuarantine, DangerIsolate, DangerReroute,
         DangerTrigger, Handling, Done, Goto, AlertStages
<1>2. AlertStages \intersect Actions = {}
  BY DEF AlertStages, Actions
<1> QED
  BY <1>1, <1>2 DEF Commanded

\* A command in hand names its port, and its handler deals with it.
LEMMA CommandIsTaken ==
  ASSUME Command, NEW p \in Ports, p = cur.port
  PROVE  Commanded = {p} /\ Commanded' = {}
<1>1. pc = "dispatch" /\ cur.kind \in Actions /\ pc' = "poll"
  BY DEF Command, CommandIsolate, CommandRestore, CommandReroute,
         CommandQuarantine, CommandRelease, Handling, Done, Actions
<1> QED
  BY <1>1 DEF Commanded

\* A command can only come into hand when the rate limits have been looked at.
LEMMA CommandArrives ==
  ASSUME DefenceInv,
         ExpireRateLimits \/ \E p \in Ports : RollbackTarget(p)
  PROVE  Commanded = {} /\ Commanded' \in {{}} \union {{p} : p \in Ports}
<1>1. CASE ExpireRateLimits
  <2>1. pc = "expire" /\ (pc' = "poll" \/ (cur # NoMessage /\ cur' = cur))
    BY <1>1 DEF ExpireRateLimits, TakeUpMessage, Done, Goto
  <2>2. cur # NoMessage => cur.port \in Ports
    BY MessageFacts DEF DefenceInv, TypeOK
  <2> QED
    BY <2>1, <2>2 DEF Commanded
<1>2. CASE \E p \in Ports : RollbackTarget(p)
  <2>1. pc = "rollback" /\ pc' = "rollback"
    BY <1>2 DEF RollbackTarget
  <2> QED
    BY <2>1 DEF Commanded
<1> QED
  BY <1>1, <1>2

\* An alert that is acted on is AlertOn of its port.
LEMMA AlertMapped ==
  ASSUME Undisturbed, DefenceInv, LeaseInv, Alert, NEW p \in Ports, p = cur.port
  PROVE  Lease!AlertOn(p) \/ UNCHANGED Lease!lease_vars
<1> USE DEF switch_vars, limit_vars, Done, Goto, Handling
<1>0. /\ police = rate_limits /\ rate_limits \subseteq Ports
      /\ rate_limits \intersect mitigated_targets = {}
      /\ hard_whitelist \subseteq protected_access_ports
  BY DEF DefenceInv, TypeOK, StagesExclusive, LeaseInv, Undisturbed
<1>1. Commanded = {} /\ Commanded' = {}
  BY AlertIsNoCommand
<1>2. CASE AlertHeld \/ AlertRejected \/ AlertOnGuardedPort \/ DangerReroute
             \/ DangerTrigger
  <2>1. \A q \in Ports : SamePort(q)
    BY <1>2 DEF AlertHeld, AlertRejected, AlertOnGuardedPort, Ingested,
                DangerReroute, DangerTrigger, SamePort
  <2>2. UNCHANGED alert_age
    BY <1>2 DEF AlertHeld, AlertRejected, AlertOnGuardedPort, Ingested,
                DangerReroute, DangerTrigger
  <2> QED
    BY <1>1, <2>1, <2>2, NoPort DEF Lease!lease_vars
<1>3. CASE WarningHeartbeat \/ WarningExtend
  <2>1. /\ \A q \in Ports : SamePort(q)
        /\ can_isolate(p)
        /\ alert_age' = [alert_age EXCEPT ![p] = 0]
    BY <1>3 DEF WarningHeartbeat, WarningExtend, Ingested, ActedOn, SamePort
  <2> QED
    BY <1>1, <2>1, NoPort, GuardFacts DEF Lease!AlertOn, guarded
<1>4. CASE WarningLimit
  <2>1. Reached({p}) = {p}
    BY AllReached DEF LeaseInv
  <2>2. /\ \A q \in Ports \ {p} : SamePort(q)
        /\ can_isolate(p)
        /\ alert_age' = [alert_age EXCEPT ![p] = 0]
        /\ p \notin police
        /\ police' = police \union {p}
        /\ UNCHANGED <<drops, contain, allow>>
    BY <1>0, <1>4, <2>1 DEF WarningLimit, Ingested, ActedOn, SamePort
  <2>3. \/ modes[p] = "open" /\ ModeOf(p)' = "limited"
        \/ ModeOf(p)' = "cut"
    BY <2>1, <2>2, Modes DEF ModeOf
  <2>4. modes' = [modes EXCEPT ![p] = ModeOf(p)']
    BY <2>1, <2>2, OnePort
  <2> QED
    BY <1>1, <2>2, <2>3, <2>4, GuardFacts DEF Lease!AlertOn, guarded
<1>5. ASSUME Escalated
      PROVE  /\ can_isolate(p)
             /\ alert_age' = [alert_age EXCEPT ![p] = 0]
             /\ police' = police \ {p}
  <2>1. Reached({p} \intersect rate_limits) = {p} \intersect rate_limits
    BY <1>0, AllReached DEF LeaseInv
  <2> QED
    BY <1>0, <1>5, <2>1
       DEF Escalated, ActedOn, DropRateLimit, unrate_limit_port
<1>6. CASE DangerHeartbeat
  <2>1. p \notin police
    BY <1>0, <1>6 DEF DangerHeartbeat, AlreadyMitigated
  <2>2. \A q \in Ports : SamePort(q)
    BY <1>5, <1>6, <2>1 DEF DangerHeartbeat, SamePort
  <2> QED
    BY <1>1, <1>5, <1>6, <2>2, NoPort, GuardFacts
       DEF DangerHeartbeat, Lease!AlertOn, guarded
<1>7. CASE DangerIsolate \/ DangerQuarantine
  <2>1. Escalated
    BY <1>7 DEF DangerIsolate, DangerQuarantine
  <2>2. /\ \A q \in Ports \ {p} : SamePort(q)
        /\ ModeOf(p)' = "cut"
    <3>1. CASE DangerIsolate
      <4>1. Reached({p}) = {p}
        BY <1>5, <2>1, AllReached DEF LeaseInv
      <4>2. drops' = drops \union {p} /\ UNCHANGED <<contain, allow>>
        BY <3>1, <4>1 DEF DangerIsolate, isolate_port
      <4> QED
        BY <1>5, <2>1, <4>2 DEF SamePort, ModeOf
    <3>2. CASE DangerQuarantine
      <4>1. {p} \intersect (hosts \ hard_whitelist) = {p}
        BY <1>0, <1>5, <2>1, <3>2, GuardFacts DEF DangerQuarantine, guarded
      <4>2. Reached({p}) = {p}
        BY <1>5, <2>1, AllReached DEF LeaseInv
      <4>3. /\ contain' = contain \union {p}
            /\ allow' = allow \ {p}
            /\ UNCHANGED drops
        BY <3>2, <4>1, <4>2 DEF DangerQuarantine, quarantine_host
      <4> QED
        BY <1>5, <2>1, <4>3 DEF SamePort, ModeOf
    <3> QED
      BY <1>7, <3>1, <3>2
  <2>3. modes' = [modes EXCEPT ![p] = "cut"]
    BY <1>5, <2>1, <2>2, OnePort
  <2> QED
    BY <1>1, <1>5, <2>1, <2>3, GuardFacts DEF Lease!AlertOn, guarded
<1> QED
  BY <1>2, <1>3, <1>4, <1>6, <1>7 DEF Alert

\* A command is Operator of its port.
LEMMA CommandMapped ==
  ASSUME Undisturbed, DefenceInv, LeaseInv, Command, NEW p \in Ports, p = cur.port
  PROVE  Lease!Operator(p)
<1> USE DEF Done, Handling
<1>2. \A q \in Ports \ {p} : SamePort(q)
  BY DEF Command, CommandIsolate, CommandRestore, CommandReroute,
         CommandQuarantine, CommandRelease, isolate_port, restore_port,
         quarantine_host, release_host, DropRateLimit, unrate_limit_port,
         Reached, SamePort
<1>3. modes' = [modes EXCEPT ![p] = ModeOf(p)']
  BY <1>2, OnePort
<1>4. UNCHANGED alert_age
  BY DEF Command, CommandIsolate, CommandRestore, CommandReroute,
         CommandQuarantine, CommandRelease
<1> QED
  BY <1>3, <1>4, Modes, CommandIsTaken DEF Lease!Operator

\* A rollback or an expiry opens only ports whose lease has lapsed.
LEMMA HousekeepingMapped ==
  ASSUME Undisturbed, DefenceInv, LeaseInv,
         ExpireRateLimits \/ \E p \in Ports : RollbackTarget(p)
  PROVE  Lease!Expire
<1> USE DEF limit_vars
<1>0. /\ police = rate_limits /\ rate_limits \subseteq Ports
      /\ rate_limits \intersect rollback = {}
      /\ rate_age \in [Ports -> Nat] /\ alert_age \in [Ports -> 0..cooldown_sec]
      /\ \A p \in rate_limits : rate_age[p] <= alert_age[p]
      /\ \A p \in rollback : alert_age[p] >= cooldown_sec
      /\ WARNING_HOLD_SEC \in Nat /\ cooldown_sec \in Nat
  BY ControllerAssumption, CooldownAssumption
     DEF DefenceInv, TypeOK, LeaseInv, QuietBeforeRollback, ControllerAssumption,
         CooldownAssumption
<1>1. CASE ExpireRateLimits
  <2> DEFINE expired == {p \in rate_limits : rate_age[p] >= WARNING_HOLD_SEC}
             S == {p \in expired : ModeOf(p) = "limited"}
  <2>1. Reached(expired) = expired
    <3>1. expired \in SUBSET Ports
      BY <1>0
    <3> HIDE DEF expired
    <3> QED
      BY <3>1, AllReached DEF LeaseInv
  <2>2. /\ police' = police \ expired
        /\ UNCHANGED <<drops, contain, allow, alert_age>>
    BY <1>1, <2>1 DEF ExpireRateLimits, unrate_limit_port
  <2>3. modes' = [q \in Ports |-> IF q \in S THEN "open" ELSE modes[q]]
    <3>1. ASSUME NEW q \in Ports
          PROVE  ModeOf(q)' = IF q \in S THEN "open" ELSE ModeOf(q)
      BY <1>0, <2>2 DEF ModeOf
    <3> QED
      BY <3>1 DEF modes
  <2>4. S \in SUBSET {q \in Ports : Lease!Lapsed(q)}
    BY <1>0, Modes DEF Lease!Lapsed
  <2> HIDE DEF S
  <2> QED
    BY <2>2, <2>3, <2>4, CommandArrives DEF Lease!Expire
<1>2. ASSUME NEW p \in Ports, RollbackTarget(p)
      PROVE  Lease!Expire
  <2> DEFINE S == IF ModeOf(p)' = ModeOf(p) THEN {} ELSE {p}
  <2>1. Reached({p}) = {p}
    BY AllReached DEF LeaseInv
  <2>2. /\ p \in rollback
        /\ drops' = drops \ {p}
        /\ UNCHANGED <<police, contain, allow, alert_age>>
    BY <1>2, <2>1 DEF RollbackTarget, restore_port
  <2>3. \/ ModeOf(p)' = ModeOf(p)
        \/ ModeOf(p) = "cut" /\ ModeOf(p)' = "open"
    BY <1>0, <2>2 DEF ModeOf
  <2>4. modes' = [q \in Ports |-> IF q \in S THEN "open" ELSE modes[q]]
    <3>1. ASSUME NEW q \in Ports \ {p}
          PROVE  ModeOf(q)' = ModeOf(q)
      BY <2>2 DEF ModeOf
    <3>2. ASSUME NEW q \in Ports
          PROVE  ModeOf(q)' = IF q \in S THEN "open" ELSE ModeOf(q)
      <4>1. CASE q = p
        BY <2>3, <4>1
      <4>2. CASE q # p
        BY <3>1, <4>2
      <4> QED
        BY <4>1, <4>2
    <3> QED
      BY <3>2 DEF modes
  <2>5. S \in SUBSET {q \in Ports : Lease!Lapsed(q)}
    BY <1>0, <2>2, <2>3, Modes DEF Lease!Lapsed
  <2> HIDE DEF S
  <2> QED
    BY <2>2, <2>4, <2>5, CommandArrives DEF Lease!Expire
<1> QED
  BY <1>1, <1>2

\* Every step of the undisturbed controller maps to a step or a stutter.
LEMMA StepMapped ==
  ASSUME Undisturbed, DefenceInv, LeaseInv, [Next]_vars
  PROVE  [Lease!Next]_(Lease!lease_vars)
<1> USE DEF switch_vars, limit_vars, loop_vars
<1>1. CASE Alert \/ Command
  <2>1. cur.port \in Ports
    <3>1. pc \in {"dispatch", "reroute", "trigger"}
      BY <1>1
         DEF Alert, AlertHeld, AlertRejected, AlertOnGuardedPort, Ingested,
             Escalated, WarningHeartbeat, WarningLimit, WarningExtend,
             DangerHeartbeat, DangerQuarantine, DangerIsolate, DangerReroute,
             DangerTrigger, Command, CommandIsolate, CommandRestore,
             CommandReroute, CommandQuarantine, CommandRelease, Handling
    <3> QED
      BY <3>1, MessageFacts DEF DefenceInv, TypeOK
  <2>2. PICK p \in Ports : p = cur.port
    BY <2>1
  <2>3. CASE Alert
    BY <2>2, <2>3, AlertMapped DEF Lease!Next
  <2>4. CASE Command
    BY <2>2, <2>4, CommandMapped DEF Lease!Next
  <2> QED
    BY <1>1, <2>3, <2>4
<1>3. CASE ExpireRateLimits \/ \E p \in Ports : RollbackTarget(p)
  BY <1>3, HousekeepingMapped DEF Lease!Next
<1>4. CASE Poll \/ RollbackDone \/ UNCHANGED vars
  <2>1. UNCHANGED <<drops, police, contain, allow, alert_age>>
    BY <1>4 DEF Poll, PollIdle, PollCooldown, PollRollback, Take, RollbackDone,
                vars
  <2>2. \A q \in Ports : SamePort(q)
    BY <2>1 DEF SamePort
  <2>3. UNCHANGED Commanded
    BY <1>4 DEF Poll, PollIdle, PollCooldown, PollRollback, Take, RollbackDone,
                Goto, Commanded, vars
  <2> QED
    BY <2>1, <2>2, <2>3, NoPort DEF Lease!lease_vars
<1>5. CASE Tick
  <2>1. \A q \in Ports : SamePort(q)
    BY <1>5 DEF Tick, SamePort
  <2>2. /\ alert_age' \in [Ports -> Nat]
        /\ \A p \in Ports : alert_age'[p] >= alert_age[p]
    BY <1>5, CooldownAssumption
       DEF Tick, Older, DefenceInv, TypeOK, CooldownAssumption
  <2>3. Commanded = {} /\ Commanded' = {}
    BY <1>5 DEF Tick, Commanded
  <2> QED
    BY <2>1, <2>2, <2>3, NoPort DEF Lease!Next, Lease!Pass
<1>6. ~ControllerRestarts /\ ~\E d \in Dpids : SwitchConnects(d) \/ SwitchDisconnects(d)
  BY DEF Undisturbed, ControllerRestarts, SwitchConnects, SwitchDisconnects
<1> QED
  BY <1>1, <1>3, <1>4, <1>5, <1>6 DEF Next, Listener

\* With every switch connected and no restart, the controller only ever opens
\* a port whose lease has run out, never downgrades a cut port to a limited
\* one, and never touches a guarded port.
THEOREM LeasesAreKept ==
  ASSUME Undisturbed
  PROVE  Spec => LeasesKept
<1>1. Init => LeaseInv /\ Lease!Init
  <2> SUFFICES ASSUME Init PROVE LeaseInv /\ Lease!Init
    OBVIOUS
  <2>1. \A p \in Ports : ModeOf(p) = "open"
    BY DEF Init, ModeOf
  <2> QED
    BY <2>1, CooldownAssumption
       DEF Init, LeaseInv, Lease!Init, modes, Commanded, CooldownAssumption
<1>2. DefenceInv /\ LeaseInv /\ [Next]_vars => LeaseInv'
  BY Undisturbed, LeaseInductive
<1>3. DefenceInv /\ LeaseInv /\ [Next]_vars => [Lease!Next]_(Lease!lease_vars)
  BY Undisturbed, StepMapped
<1> QED
  BY <1>1, <1>2, <1>3, DefenceInvariant, PTL DEF Spec, LeasesKept, Lease!Spec
=============================================================================
