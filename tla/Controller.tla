----------------------------- MODULE Controller -----------------------------
(***************************************************************************)
(* ryu/app/controller.py: the defence half of the Ryu application.         *)
(*                                                                         *)
(* One greenthread, _command_listener_loop, owns all defence state and     *)
(* does one iteration at a time: take a message, evaluate the FSM, expire  *)
(* the rate limits, dispatch the message.  It yields to the other          *)
(* greenthreads whenever it publishes to Redis, so switch connections come *)
(* and go in the middle of a rollback and of the isolate / reroute /       *)
(* trigger sequence; the controller process can also die there.            *)
(*                                                                         *)
(* A message is what the pub/sub socket delivers: any member of Messages   *)
(* at any poll, or none, which covers lost, delayed, duplicated and        *)
(* reordered messages alike.  The controller's own "auto-" commands, which *)
(* come back to it and are skipped, are the polls without a message.       *)
(* Flow tables survive a disconnection and a controller restart (OVS runs  *)
(* in fail-mode secure).  Time is in ticks; an iteration is shorter than a *)
(* tick.                                                                   *)
(***************************************************************************)
EXTENDS WhitelistGuard, RerouteEngine, CircuitBreaker, FlappingFSM

CONSTANTS
  Messages,                 \* what alerts and commands say, see Message
  NoMessage,                \* get_message() returned None
  hosts,                    \* ports with a host in arp_table
  hard_whitelist,           \* those quarantine_host refuses (the server)
  WARNING_HOLD_SEC,         \* rate limit outlives the last alert by (10 s)
  MANUAL_RESTORE_HOLD_SEC,  \* no automatic isolation after a RESTORE (60 s)
  FlakyDpids,               \* switches whose connection comes and goes
  MaxConns,                 \* connections of one switch open at a time
  Restarts                  \* may the controller process be restarted?

AlertStages == {"WARNING", "DANGER"}
Actions == {"ISOLATE", "RESTORE", "REROUTE", "QUARANTINE", "RELEASE"}
\* spread: the alert's threat_type is INTERNAL_SPREAD.  manual: the command
\* id starts with "manual-".
Message == [kind : AlertStages \union Actions, port : Ports,
            spread : BOOLEAN, manual : BOOLEAN]

ASSUME ControllerAssumption ==
  /\ Messages \subseteq Message
  /\ NoMessage \notin Messages
  /\ hosts \subseteq Ports
  /\ hard_whitelist \subseteq hosts
  /\ WARNING_HOLD_SEC \in Nat
  /\ MANUAL_RESTORE_HOLD_SEC \in Nat
  /\ FlakyDpids \subseteq Dpids
  /\ MaxConns \in Nat
  /\ Restarts \in BOOLEAN

VARIABLES
  \* switches, as flow tables
  drops,              \* Table 3 in_port drop rules
  police,             \* Table 2 meter rules
  bypass,             \* switches with the priority-20 rule of the bypass
  allow,              \* Table 1 priority-200 rules (host may use the server)
  contain,            \* Table 1 priority-300 rules (quarantine)
  \* controller memory
  conns,              \* open connections per switch
  datapaths,          \* self.datapaths
  rate_limits,        \* keys of self.rate_limits
  rate_age,           \* now - rate_limits[key]
  manual_holds,       \* time left of self.manual_holds[key], 0 if none
  quarantined_hosts,  \* ports of the hosts in self.quarantined_hosts
  \* the listener loop
  pc,                 \* where the iteration is
  cur,                \* the message in hand
  rollback,           \* cleared_targets still to be restored
  restored_sources,   \* as in _on_fsm_state_change
  \* what the dashboard has been told
  phase,              \* phase of the last topology sync
  announced,          \* ports whose automatic ISOLATE or QUARANTINE was published
                      \* and whose RESTORE was not
  \* history
  alert_age           \* since the last alert on the port that was acted on

switch_vars == <<drops, police, bypass, allow, contain>>
conn_vars   == <<conns, datapaths>>
limit_vars  == <<rate_limits, rate_age>>
loop_vars   == <<pc, cur, rollback, restored_sources>>
vars == <<switch_vars, conn_vars, limit_vars, manual_holds, quarantined_hosts,
          loop_vars, phase, announced, alert_age, fsm_vars, cb_vars>>

Init ==
  /\ drops = {} /\ police = {} /\ bypass = {} /\ contain = {}
  /\ allow = hosts \ hard_whitelist
  /\ conns = [d \in Dpids |-> 1]
  /\ datapaths = Dpids
  /\ rate_limits = {}
  /\ rate_age = [p \in Ports |-> 0]
  /\ manual_holds = [p \in Ports |-> 0]
  /\ quarantined_hosts = {}
  /\ pc = "poll" /\ cur = NoMessage
  /\ rollback = {} /\ restored_sources = {}
  /\ phase = "NORMAL" /\ announced = {}
  /\ alert_age = [p \in Ports |-> cooldown_sec]
  /\ FSMInit
  /\ CBInit

-----------------------------------------------------------------------------
(***************************************************************************)
(* FlowMods.  A switch that is not in datapaths gets none.                 *)
(***************************************************************************)
connected(p) == Dpid(p) \in datapaths
Reached(S) == {p \in S : connected(p)}

isolate_port(p) == drops' = drops \union Reached({p})
restore_port(p) == drops' = drops \ Reached({p})
unrate_limit_port(S) == police' = police \ Reached(S)
reroute_traffic(d) == bypass' = bypass \union (SpecDpids[d] \intersect datapaths)
restore_reroute_traffic(d) == bypass' = bypass \ (SpecDpids[d] \intersect datapaths)

\* quarantine_host refuses unknown and whitelisted hosts; with the switch
\* away it only notes the host.
quarantine_host(p) ==
  LET S == {p} \intersect (hosts \ hard_whitelist)
  IN /\ allow' = allow \ Reached(S)
     /\ contain' = contain \union Reached(S)
     /\ quarantined_hosts' = quarantined_hosts \union S

release_host(p) ==
  LET S == {p} \intersect hosts
  IN /\ contain' = contain \ Reached(S)
     /\ allow' = allow \union Reached(S)
     /\ quarantined_hosts' = quarantined_hosts \ S

\* The message in hand is dealt with; the loop goes back to get_message().
Done ==
  /\ pc' = "poll"
  /\ cur' = NoMessage
  /\ UNCHANGED <<rollback, restored_sources>>

\* What the dashboard is told.  The states of its nodes and links follow from
\* the phase and quarantined_hosts alone.
_publish_topology_sync(phase_name) == phase' = phase_name

Goto(label) ==
  /\ pc' = label
  /\ UNCHANGED <<cur, rollback, restored_sources>>

\* Mutant: the key is deleted and the meter is not.
MutDropRateLimit(p) ==
  /\ rate_limits' = rate_limits \ {p}
  /\ rate_age' = [rate_age EXCEPT ![p] = 0]
  /\ UNCHANGED police

\* Mutant: the meter is deleted and the key is not.
MutKeepRateLimit(p) ==
  /\ unrate_limit_port({p} \intersect rate_limits)
  /\ UNCHANGED limit_vars

\* del rate_limits[key] and unrate_limit_port, when there is such a key.
DropRateLimit(p) ==
  /\ rate_limits' = rate_limits \ {p}
  /\ rate_age' = [rate_age EXCEPT ![p] = 0]
  /\ unrate_limit_port({p} \intersect rate_limits)

-----------------------------------------------------------------------------
(***************************************************************************)
(* get_message(), then fsm.evaluate_heartbeat() with its callback          *)
(* _on_fsm_state_change.                                                   *)
(***************************************************************************)
Take(m, label) ==
  /\ pc = "poll"
  /\ cur' = m
  /\ pc' = label
  /\ UNCHANGED <<switch_vars, conn_vars, limit_vars, manual_holds,
                 quarantined_hosts, announced, alert_age, cb_vars>>

PollIdle(m) ==
  /\ Take(m, "expire")
  /\ HeartbeatIdle
  /\ UNCHANGED <<rollback, restored_sources, phase>>

PollCooldown(m) ==
  /\ Take(m, "expire")
  /\ HeartbeatCooldown
  /\ _publish_topology_sync("COOLDOWN_VERIFY")
  /\ UNCHANGED <<rollback, restored_sources>>

\* Mutant: the meta data lists the targets under another key than the callback
\* reads, as it does for force_restore.
MutPollRollback(m) ==
  /\ Take(m, "rollback")
  /\ HeartbeatRollback
  /\ rollback' = {}
  /\ restored_sources' = {}
  /\ UNCHANGED phase

PollRollback(m) ==
  /\ Take(m, "rollback")
  /\ HeartbeatRollback
  /\ rollback' = mitigated_targets
  /\ restored_sources' = {}
  /\ UNCHANGED phase

\* One round of the loop over cleared_targets.  Its order is the order in
\* which the targets were registered; here any order.
RollbackTarget(p) ==
  /\ pc = "rollback"
  /\ p \in rollback
  /\ restore_port(p)
  /\ IF Dpid(p) \in restored_sources THEN UNCHANGED bypass
     ELSE restore_reroute_traffic(Dpid(p))
  /\ restored_sources' = restored_sources \union {Dpid(p)}
  /\ rollback' = rollback \ {p}
  /\ announced' = announced \ {p}
  /\ UNCHANGED <<police, allow, contain, conn_vars, limit_vars, manual_holds,
                 quarantined_hosts, pc, cur, phase, alert_age, fsm_vars, cb_vars>>

RollbackDone ==
  /\ pc = "rollback"
  /\ rollback = {}
  /\ _publish_topology_sync("NORMAL")
  /\ Goto("expire")
  /\ UNCHANGED <<switch_vars, conn_vars, limit_vars, manual_holds,
                 quarantined_hosts, announced, alert_age, fsm_vars, cb_vars>>

\* Mutant: the FSM is not asked.
MutAllLifted(expired) == expired # {} /\ expired = rate_limits

\* The last rate limit goes and nothing else is defended against.
AllLifted(expired) ==
  expired # {} /\ expired = rate_limits /\ fsm_state = "NORMAL"

\* Mutant: a timeout of get_message() is dispatched like a message.
MutTakeUpMessage == Goto("dispatch")

\* With no message the iteration ends here.
TakeUpMessage == IF cur = NoMessage THEN Done ELSE Goto("dispatch")

\* _expire_rate_limits(), then the message in hand.
ExpireRateLimits ==
  /\ pc = "expire"
  /\ LET expired == {p \in rate_limits : rate_age[p] >= WARNING_HOLD_SEC}
     IN /\ rate_limits' = rate_limits \ expired
        /\ rate_age' = [p \in Ports |-> IF p \in expired THEN 0 ELSE rate_age[p]]
        /\ unrate_limit_port(expired)
        /\ IF AllLifted(expired) THEN _publish_topology_sync("NORMAL") ELSE UNCHANGED phase
  /\ TakeUpMessage
  /\ UNCHANGED <<drops, bypass, allow, contain, conn_vars, manual_holds,
                 quarantined_hosts, announced, alert_age, fsm_vars, cb_vars>>

-----------------------------------------------------------------------------
(***************************************************************************)
(* _handle_redis_message: alerts.                                          *)
(***************************************************************************)
Handling(kinds) == pc = "dispatch" /\ cur.kind \in kinds

\* An alert is dropped without a trace during a manual hold.
AlertHeld ==
  /\ Handling(AlertStages)
  /\ manual_holds[cur.port] > 0
  /\ Done
  /\ UNCHANGED <<switch_vars, conn_vars, limit_vars, manual_holds, phase,
                 quarantined_hosts, announced, alert_age, fsm_vars, cb_vars>>

\* The circuit breaker counts every other alert and may reject it.
AlertRejected ==
  /\ Handling(AlertStages)
  /\ manual_holds[cur.port] = 0
  /\ record_refused \/ record_tripping
  /\ Done
  /\ UNCHANGED <<switch_vars, conn_vars, limit_vars, manual_holds, phase,
                 quarantined_hosts, announced, alert_age, fsm_vars>>

\* Mutant: the manual hold is not looked at.
MutIngested(stage) ==
  /\ Handling({stage})
  /\ record_granted
  /\ UNCHANGED <<conn_vars, manual_holds>>

\* What every alert that passes the breaker has in common.
Ingested(stage) ==
  /\ Handling({stage})
  /\ manual_holds[cur.port] = 0
  /\ record_granted
  /\ UNCHANGED <<conn_vars, manual_holds>>

\* It names a trunk or a protected port.
AlertOnGuardedPort ==
  /\ \E stage \in AlertStages : Ingested(stage)
  /\ ~can_isolate(cur.port)
  /\ Done
  /\ UNCHANGED <<switch_vars, limit_vars, phase, quarantined_hosts, announced,
                 alert_age, fsm_vars>>

ActedOn == alert_age' = [alert_age EXCEPT ![cur.port] = 0]

\* Mutant: an incident in COOLDOWN_VERIFY is taken for a new one.
MutAlreadyMitigated ==
  fsm_state = "MITIGATED" /\ cur.port \in mitigated_targets

AlreadyMitigated == fsm_state # "NORMAL" /\ cur.port \in mitigated_targets

(***************************************************************************)
(* _handle_warning_alert.                                                  *)
(***************************************************************************)
WarningHeartbeat ==
  /\ Ingested("WARNING")
  /\ can_isolate(cur.port)
  /\ AlreadyMitigated
  /\ trigger_anomaly(cur.port)
  /\ ActedOn
  /\ Done
  /\ UNCHANGED <<switch_vars, limit_vars, phase, quarantined_hosts, announced>>

\* The key is recorded whether or not the switch could be programmed.
WarningLimit ==
  /\ Ingested("WARNING")
  /\ can_isolate(cur.port)
  /\ ~AlreadyMitigated
  /\ cur.port \notin rate_limits
  /\ rate_limits' = rate_limits \union {cur.port}
  /\ rate_age' = [rate_age EXCEPT ![cur.port] = 0]
  /\ police' = police \union Reached({cur.port})
  /\ IF connected(cur.port) THEN _publish_topology_sync("ATTACK_DETECTED")
     ELSE UNCHANGED phase
  /\ ActedOn
  /\ Done
  /\ UNCHANGED <<drops, bypass, allow, contain, quarantined_hosts, announced,
                 fsm_vars>>

\* Mutant: the hold is not extended.
MutWarningExtend ==
  /\ Ingested("WARNING")
  /\ can_isolate(cur.port)
  /\ ~AlreadyMitigated
  /\ cur.port \in rate_limits
  /\ ActedOn
  /\ Done
  /\ UNCHANGED <<switch_vars, limit_vars, phase, quarantined_hosts, announced,
                 fsm_vars>>

WarningExtend ==
  /\ Ingested("WARNING")
  /\ can_isolate(cur.port)
  /\ ~AlreadyMitigated
  /\ cur.port \in rate_limits
  /\ rate_age' = [rate_age EXCEPT ![cur.port] = 0]
  /\ ActedOn
  /\ Done
  /\ UNCHANGED <<switch_vars, rate_limits, phase, quarantined_hosts, announced,
                 fsm_vars>>

(***************************************************************************)
(* DANGER: heartbeat, host quarantine, or port isolation with a bypass.    *)
(***************************************************************************)
Escalated ==
  /\ Ingested("DANGER")
  /\ can_isolate(cur.port)
  /\ DropRateLimit(cur.port)
  /\ ActedOn

DangerHeartbeat ==
  /\ Escalated
  /\ AlreadyMitigated
  /\ trigger_anomaly(cur.port)
  /\ IF fsm_state = "MITIGATED" THEN UNCHANGED phase
     ELSE _publish_topology_sync("MITIGATED")
  /\ Done
  /\ UNCHANGED <<drops, bypass, allow, contain, quarantined_hosts, announced>>

DangerQuarantine ==
  /\ Escalated
  /\ ~AlreadyMitigated
  /\ cur.spread /\ cur.port \in hosts
  /\ quarantine_host(cur.port)
  /\ announced' = announced \union {cur.port}
  /\ Goto("trigger")
  /\ UNCHANGED <<drops, bypass, phase, fsm_vars>>

\* isolate_port's answer is not looked at.
DangerIsolate ==
  /\ Escalated
  /\ ~AlreadyMitigated
  /\ ~(cur.spread /\ cur.port \in hosts)
  /\ isolate_port(cur.port)
  /\ announced' = announced \union {cur.port}
  /\ Goto("reroute")
  /\ UNCHANGED <<bypass, allow, contain, phase, quarantined_hosts, fsm_vars>>

\* Back from publishing ISOLATE: the bypass.
DangerReroute ==
  /\ pc = "reroute"
  /\ reroute_traffic(Dpid(cur.port))
  /\ Goto("trigger")
  /\ UNCHANGED <<drops, police, allow, contain, conn_vars, limit_vars, phase,
                 manual_holds, quarantined_hosts, announced, alert_age,
                 fsm_vars, cb_vars>>

\* Mutant: the FSM is not told.
MutDangerTrigger ==
  /\ pc = "trigger"
  /\ _publish_topology_sync("MITIGATED")
  /\ Done
  /\ UNCHANGED <<switch_vars, conn_vars, limit_vars, manual_holds, fsm_vars,
                 quarantined_hosts, announced, alert_age, cb_vars>>

\* Back from publishing REROUTE or QUARANTINE: the FSM.
DangerTrigger ==
  /\ pc = "trigger"
  /\ trigger_anomaly(cur.port)
  /\ _publish_topology_sync("MITIGATED")
  /\ Done
  /\ UNCHANGED <<switch_vars, conn_vars, limit_vars, manual_holds,
                 quarantined_hosts, announced, alert_age, cb_vars>>

Alert ==
  \/ AlertHeld \/ AlertRejected \/ AlertOnGuardedPort
  \/ WarningHeartbeat \/ WarningLimit \/ WarningExtend
  \/ DangerHeartbeat \/ DangerQuarantine \/ DangerIsolate
  \/ DangerReroute \/ DangerTrigger

-----------------------------------------------------------------------------
(***************************************************************************)
(* _handle_redis_message: operator commands.  Only "manual-" ones touch    *)
(* the manual holds.                                                       *)
(***************************************************************************)
SetHold(time) ==
  manual_holds' = IF cur.manual THEN [manual_holds EXCEPT ![cur.port] = time]
                  ELSE manual_holds

\* The hold ends before validate_isolation_target can raise; after a
\* ValueError nothing else of the handler runs.
CommandIsolate ==
  /\ Handling({"ISOLATE"})
  /\ SetHold(0)
  /\ \/ /\ can_isolate(cur.port)
        /\ isolate_port(cur.port)
        /\ _publish_topology_sync("MITIGATED")
     \/ /\ ~can_isolate(cur.port)
        /\ UNCHANGED <<drops, phase>>
  /\ Done
  /\ UNCHANGED <<police, bypass, allow, contain, conn_vars, limit_vars,
                 quarantined_hosts, announced, alert_age, fsm_vars, cb_vars>>

\* force_restore forgets every target; its callback finds no
\* "cleared_targets" in the meta data and restores none of them.
CommandRestore ==
  /\ Handling({"RESTORE"})
  /\ DropRateLimit(cur.port)
  /\ restore_port(cur.port)
  /\ restore_reroute_traffic(Dpid(cur.port))
  /\ force_restore
  /\ SetHold(MANUAL_RESTORE_HOLD_SEC)
  /\ announced' = announced \ {cur.port}
  /\ _publish_topology_sync("NORMAL")
  /\ Done
  /\ UNCHANGED <<allow, contain, conn_vars, quarantined_hosts, alert_age, cb_vars>>

CommandReroute ==
  /\ Handling({"REROUTE"})
  /\ reroute_traffic(Dpid(cur.port))
  /\ _publish_topology_sync("MITIGATED")
  /\ Done
  /\ UNCHANGED <<drops, police, allow, contain, conn_vars, limit_vars,
                 manual_holds, quarantined_hosts, announced, alert_age,
                 fsm_vars, cb_vars>>

CommandQuarantine ==
  /\ Handling({"QUARANTINE"})
  /\ quarantine_host(cur.port)
  /\ _publish_topology_sync("MITIGATED")
  /\ Done
  /\ UNCHANGED <<drops, police, bypass, conn_vars, limit_vars, manual_holds,
                 announced, alert_age, fsm_vars, cb_vars>>

CommandRelease ==
  /\ Handling({"RELEASE"})
  /\ release_host(cur.port)
  /\ _publish_topology_sync("NORMAL")
  /\ Done
  /\ UNCHANGED <<drops, police, bypass, conn_vars, limit_vars, manual_holds,
                 announced, alert_age, fsm_vars, cb_vars>>

Command ==
  \/ CommandIsolate \/ CommandRestore \/ CommandReroute
  \/ CommandQuarantine \/ CommandRelease

-----------------------------------------------------------------------------
(***************************************************************************)
(* The other greenthreads and the environment.                             *)
(***************************************************************************)
defence_vars == <<limit_vars, manual_holds, quarantined_hosts, loop_vars, phase,
                  announced, alert_age, fsm_vars, cb_vars>>

\* switch_features_handler, then state_change_handler(MAIN_DISPATCHER): the
\* base tables are (re)installed, nothing already there is deleted.
SwitchConnects(d) ==
  /\ d \in FlakyDpids
  /\ conns[d] < MaxConns
  /\ conns' = [conns EXCEPT ![d] = @ + 1]
  /\ datapaths' = datapaths \union {d}
  /\ allow' = allow \union {p \in hosts \ hard_whitelist : Dpid(p) = d}
  /\ UNCHANGED <<drops, police, bypass, contain, defence_vars>>

\* state_change_handler(DEAD_DISPATCHER) for one of the connections of d.
SwitchDisconnects(d) ==
  /\ d \in FlakyDpids
  /\ conns[d] > 0
  /\ conns' = [conns EXCEPT ![d] = @ - 1]
  /\ datapaths' = datapaths \ {d}
  /\ UNCHANGED <<switch_vars, defence_vars>>

\* The process dies at any point and __init__ starts from nothing.  The
\* switches keep their tables and reconnect on their own; those that are
\* not in FlakyDpids are back before the listener takes its next message.
ControllerRestarts ==
  /\ Restarts
  /\ conns' = [d \in Dpids |-> IF d \in FlakyDpids THEN 0 ELSE 1]
  /\ datapaths' = Dpids \ FlakyDpids
  /\ allow' = allow \union {p \in hosts \ hard_whitelist : Dpid(p) \notin FlakyDpids}
  /\ rate_limits' = {}
  /\ rate_age' = [p \in Ports |-> 0]
  /\ manual_holds' = [p \in Ports |-> 0]
  /\ quarantined_hosts' = {}
  /\ pc' = "poll" /\ cur' = NoMessage
  /\ rollback' = {} /\ restored_sources' = {}
  /\ fsm_state' = "NORMAL"
  /\ threat_age' = cooldown_sec
  /\ mitigated_targets' = {}
  /\ target_age' = [p \in Ports |-> cooldown_sec]
  /\ cb_state' = "CLOSED"
  /\ stamp_age' = [s \in Slots |-> Pruned]
  /\ trip_age' = trip_cooldown_sec
  /\ UNCHANGED <<drops, police, bypass, contain, phase, announced, alert_age>>

\* One tick of time.time(), between two iterations.
Tick ==
  /\ pc = "poll"
  /\ FSMTick
  /\ CBTick
  /\ rate_age' = [p \in Ports |->
                    IF p \in rate_limits /\ rate_age[p] < WARNING_HOLD_SEC
                    THEN rate_age[p] + 1 ELSE rate_age[p]]
  /\ manual_holds' = [p \in Ports |->
                        IF manual_holds[p] > 0 THEN manual_holds[p] - 1 ELSE 0]
  /\ alert_age' = [p \in Ports |-> Older(alert_age[p])]
  /\ UNCHANGED <<switch_vars, conn_vars, rate_limits, quarantined_hosts,
                 loop_vars, phase, announced>>

Poll == \E m \in Messages \union {NoMessage} :
          PollIdle(m) \/ PollCooldown(m) \/ PollRollback(m)

Listener ==
  \/ Poll
  \/ \E p \in Ports : RollbackTarget(p)
  \/ RollbackDone
  \/ ExpireRateLimits
  \/ Alert
  \/ Command

Next ==
  \/ Listener
  \/ \E d \in Dpids : SwitchConnects(d) \/ SwitchDisconnects(d)
  \/ ControllerRestarts
  \/ Tick

Spec == Init /\ [][Next]_vars

\* The listener greenthread keeps running: get_message() returns after at
\* most 0.1 s.  time.time() advances whatever the loop does; the model lets
\* it advance only between iterations, so fairness of Tick is strong.
FairSpec == Spec /\ WF_vars(Listener) /\ SF_vars(Tick)
=============================================================================
