------------------------- MODULE DefenceProperties --------------------------
(***************************************************************************)
(* What the autonomous defence of Controller promises.                     *)
(***************************************************************************)
EXTENDS Controller

\* The values of the controller's fields and of the flow tables.  A message in
\* hand, from its dispatch on, is one of Messages.
TypeOK ==
  /\ drops \subseteq Ports /\ police \subseteq Ports
  /\ allow \subseteq Ports /\ contain \subseteq Ports
  /\ bypass \subseteq Dpids
  /\ conns \in [Dpids -> Nat] /\ datapaths \subseteq Dpids
  /\ rate_limits \subseteq Ports /\ rate_age \in [Ports -> Nat]
  /\ manual_holds \in [Ports -> Nat]
  /\ quarantined_hosts \subseteq Ports
  /\ pc \in {"poll", "rollback", "expire", "dispatch", "reroute", "trigger"}
  /\ cur \in Messages \union {NoMessage}
  /\ pc \in {"dispatch", "reroute", "trigger"} => cur \in Messages
  /\ rollback \subseteq Ports /\ restored_sources \subseteq Dpids
  /\ phase \in {"NORMAL", "ATTACK_DETECTED", "MITIGATED", "COOLDOWN_VERIFY"}
  /\ announced \subseteq Ports
  /\ alert_age \in [Ports -> 0..cooldown_sec]
  /\ FSMTypeOK
  /\ CBTypeOK

InFlight == pc \in {"reroute", "trigger"}

\* The port a DANGER alert is being answered for, until the FSM knows of it.
Answering == IF InFlight THEN {cur.port} ELSE {}

\* The rules nobody is going to remove: drops that neither the FSM, nor a
\* rollback in progress, nor the alert being answered knows of, and meters
\* without a key.
Owned == mitigated_targets \union rollback \union Answering
OrphanDrops  == drops \ Owned
OrphanMeters == police \ rate_limits

\* whitelist_guard: no automatic or manual path ever drops, limits or tracks a
\* trunk or a protected port, nor takes one up in a rollback, whatever
\* disconnects or restarts.  (A manual RESTORE of one goes through: it asks for
\* rules to be removed that are not there.)
GuardHolds ==
  (drops \union police \union rate_limits \union mitigated_targets
     \union rollback \union Answering)
    \intersect (trunk_ports \union protected_access_ports) = {}

\* A port is either rate limited (WARNING) or mitigated (DANGER), never both;
\* the FSM is NORMAL exactly when it has no target, and a target that is being
\* answered for has lost its rate limit before the FSM hears of it.
StagesExclusive ==
  /\ rate_limits \intersect (mitigated_targets \union Answering) = {}
  /\ fsm_state = "NORMAL" <=> mitigated_targets = {}

\* What a rollback rests on: the FSM's one timer never runs ahead of the time
\* since the last alert on any of its targets, and the targets of a rollback in
\* progress have all been quiet for the whole cooldown.
QuietBeforeRollback ==
  /\ pc # "rollback" => rollback = {}
  /\ \A p \in mitigated_targets : threat_age <= alert_age[p]
  /\ \A p \in rollback : alert_age[p] >= cooldown_sec

\* Every drop rule has an owner that will remove it: the FSM, a rollback in
\* progress, or the alert being answered.
DropsOwned == OrphanDrops = {}

\* ... and every target the FSM has gone MITIGATED for is really cut off:
\* by a drop rule or by its host's quarantine.
MitigationInstalled ==
  mitigated_targets \subseteq drops \union quarantined_hosts

\* Between iterations, the ports that carry a meter are those in rate_limits.
LimitsInstalled == pc = "poll" => police = rate_limits

\* The dashboard's event stream and the FSM agree on what is isolated.
AnnouncedIsTracked == pc = "poll" => announced = mitigated_targets

\* A NORMAL topology is shown only while no port is cut off and the FSM is
\* NORMAL too: what the dashboard calls NORMAL is never under mitigation.
\* (A rate limit of another port may be in force: the rollback publishes
\* NORMAL without looking at rate_limits, as _expire_rate_limits does.)
NormalPhaseIsTrue ==
  pc = "poll" /\ phase = "NORMAL" => fsm_state = "NORMAL" /\ drops = {}

\* A quarantined host never has its Table 1 rules towards the server back.
QuarantineHolds == quarantined_hosts \intersect allow = {}

\* "All defense flows rolled back to NORMAL baseline": once the FSM is back in
\* NORMAL and the iteration is over, no drop or bypass rule is left.
RolledBackWhenNormal ==
  pc = "poll" /\ fsm_state = "NORMAL" => drops = {} /\ bypass = {}

\* A switch with an open connection is in datapaths.
RegisteredWhileConnected == \A d \in Dpids : conns[d] > 0 => d \in datapaths

-----------------------------------------------------------------------------
\* No rule is forgotten without a cause.  A rule that loses its owner, or is
\* installed without one, does so because the controller process restarts,
\* because its switch is away when the rule is to be removed, or (drops only)
\* because an operator restores or isolates a port; no interleaving of alerts,
\* heartbeats, yields and reconnections does it on its own.
OrphansHaveCause ==
  [][\/ ControllerRestarts
     \/ /\ \A p \in OrphanDrops' \ OrphanDrops :
             ~connected(p) \/ Handling({"RESTORE", "ISOLATE"})
        /\ \A p \in OrphanMeters' \ OrphanMeters : ~connected(p)]_vars

\* After a manual RESTORE no alert cuts off, limits or quarantines the port
\* again before the hold has run out.
HoldRespected ==
  [][\A p \in Ports :
       \/ manual_holds[p] = 0
       \/ cur = NoMessage \/ cur.kind \notin AlertStages
       \/ /\ p \notin drops' \ drops
          /\ p \notin police' \ police
          /\ p \notin quarantined_hosts' \ quarantined_hosts]_vars

\* An incident is announced once: no second automatic ISOLATE or QUARANTINE
\* of a port before its RESTORE.
IsolateAnnouncedOnce ==
  [][(pc = "dispatch" /\ pc' \in {"reroute", "trigger"})
       => cur.port \notin announced]_vars

-----------------------------------------------------------------------------
\* No more alerts are received.
AlertsCease == <>[](cur = NoMessage \/ cur.kind \notin AlertStages)

\* When alerts cease, the defence takes itself back without anyone's help.
Recovers ==
  AlertsCease => <>[](/\ drops = {} /\ police = {} /\ bypass = {}
                      /\ mitigated_targets = {} /\ rate_limits = {})
=============================================================================
