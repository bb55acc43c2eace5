# TLA+ verification of the self-defending SDN controller

This directory holds TLA+ modules for the control loop of the repository: how
traffic becomes counters, counters become alerts, alerts (or an operator's
commands) become flow rules, what those rules do to packets, how the defence
takes itself back, and how the dashboard is kept informed of it. TLC checks the
modules on small instances; TLAPS proves the safety properties that these runs
check for every value of the constants. Liveness stays with TLC.

1. [The system](#the-system)
2. [Modules](#modules)
3. [How the model corresponds to the code](#how-the-model-corresponds-to-the-code)
4. [Runs](#runs)
5. [Fairness](#fairness)
6. [Disagreements found](#disagreements-found)
7. [Proofs](#proofs)
8. [What is not modelled, and the plan](#what-is-not-modelled-and-the-plan)

## The system

A diamond of four Open vSwitch switches (S1-S2-S4 is the primary path,
S1-S3-S4 the bypass) is driven by a Ryu controller. The controller publishes
counters to Redis; an AI worker turns them into alerts; the controller answers
alerts with flow rules; a FastAPI service relays everything to a React
dashboard, whose operators send commands back through Redis.

| Component | State | Operations | Talks to | What is hard | What makes it correct |
|---|---|---|---|---|---|
| Controller, defence (`ryu/app/controller.py`) | flow tables, `datapaths`, `rate_limits`, `manual_holds`, `quarantined_hosts`, position in the listener loop | handle an alert (WARNING: meter; DANGER: drop + bypass, or host quarantine), a command, roll back, expire limits | Redis (alerts, commands in; audit commands, topology out), switches, FSM, breaker, guard, reroute engine | the listener yields at every publication; switches come and go; the process restarts with empty memory while the switches keep their tables | every rule has an owner that removes it; nothing is removed early; guarded ports are never touched; operators' holds are kept; it recovers when alerts cease |
| Self-healing FSM (`harness/safety/flapping_fsm.py`) | state, one timer, dict of targets | `trigger_anomaly`, `evaluate_heartbeat`, `force_restore` | called by the controller, calls it back on transitions | one timer for all targets; re-attack in COOLDOWN_VERIFY | no target let go early; no flapping; self-healing |
| Circuit breaker (`harness/safety/circuit_breaker.py`) | state, time stamps, trip time | `record_command`, `can_execute`, `trip`, `reset` | asked by the controller before every alert | boundary of the window; the trial after the cooldown | rate bound; the trial can succeed |
| Whitelist guard (`harness/safety/whitelist_guard.py`) | two tables | `can_isolate`, `validate_isolation_target` | asked on every isolation path | some path might not ask | guarded ports never cut |
| Reroute engine (`ryu/app/reroute.py`) | weighted graph | `compute_reroute_path`, `get_path_flow_specs` | controller | ingress before intermediate would blackhole | path avoids S2, order of installation |
| Controller, forwarding | four flow tables per switch, `quarantined_hosts`, `arp_fail_targets` | `switch_features_handler`, `packet_in_handler`, the FlowMods of every defence command | switches | FlowMods to different switches are unordered; non-strict deletes; packets under way while rules change | admitted packets end where they should, the tables are those the commands ask for, zones exclude each other |
| Controller, telemetry | counters, ARP sets, `ProbeTracker` | `_monitor_loop`, `_probe_loop`, reply handlers | switches, Redis | late, lost, duplicated replies; sequence wrap | the loss reported is the loss there was |
| AI worker (`model/`) | per-port baselines, windows, streaks, stage, relearn deadlines, last health and connection reports | judge a report, raise an alert, relearn on approval | Redis | consecutive-report confirmation, drift under a slow attack, relearning against detection, stale reports | an attack is alerted and stays alerted; alerts are confirmed; baselines stay bounded |
| Pipeline (`pipeline/`) | last counters of a port; when each connection was first seen | difference, age of connections | Redis, server host | counter resets, absurd readings, reused ports, failed listings | no flood without packets; every waiting connection counted |
| Dashboard API (`api/`) | phase tracker, WebSocket set, last snapshot | relay, snapshot, manual command | Redis, browsers | Redis reconnect, snapshot against broadcast, phase inferred from several publishers | the phase shown is the phase of the defence |
| Dashboard UI (`ui/src`) | reducer state, socket | apply envelope, reconnect | API | joins and rejoins in the middle of an incident | an incident opens once and closes |
| Mock mode, measurement, traffic generators, verification and deployment scripts | - | - | - | - | not part of the running defence |

`PROJECT.json` lists every component with its status, and the hazards, each at
its line, with the properties that cover it.

## Modules

| Module | What it is |
|---|---|
| `Topology` | the switches, and the ports an alert or a command can name |
| `WhitelistGuard` | `can_isolate` over any two tables |
| `RerouteEngine` | shortest bypass on the diamond; the switches that get a rule for it |
| `CircuitBreaker` | the breaker as operators of a component |
| `CircuitBreakerSystem` | the breaker on its own, called in any order, with a history of the commands it granted |
| `FlappingFSM` | the FSM as operators of a component |
| `FlappingFSMSystem` | the FSM on its own: alerts on any target, heartbeats, forced restores |
| `SafetySystem` | breaker and FSM side by side under one clock |
| `Controller` | the defence: extends the guard, the reroute engine, the breaker and the FSM, whose actions are conjuncts of the handlers that call them |
| `DefenceProperties` | type invariant, invariants, action and liveness properties of `Controller` |
| `PortLease` | abstract: what the defence promises of each port, without FSM, breaker, holds or messages |
| `DefenceLease` | the refinement mapping from `Controller` to `PortLease` |
| `Switch` | a switch as the controller uses it: ordered channel, rules, non-strict deletion, what a packet meets (external) |
| `Forwarding` | the controller towards its switches: set-up, zone policy, the rules of every command, packet-in |
| `DataPlane` | packets crossing the diamond while channels are processed, rules expire and switches leave; uses `Forwarding` and `RerouteEngine` |
| `DataPlaneProperties` | its properties |
| `ProbeTracker` | pings, answers on the wire, the two-round monitor loop and its health report |
| `FeatureExtractor` | counters of a port, differences, and the two detectors of the worker's older mode |
| `ServerConnAgent` | connections of the server, the agent's listing and what it counts |
| `CriteriaEngine` | the decision rules of the worker: lines, evidence, streaks, stages, learning |
| `InferenceWorker` | the worker around the engine: messages in, alerts out, restart |
| `Detection` | the worker among its sources, with history variables, and its properties |
| `Sensing` | probe, ports, connections and worker as one specification |
| `DefenceHistory` | `Controller` with a history variable, for a promise of the documents that the code keeps no state for |
| `FlappingFSMProofs`, `CircuitBreakerProofs`, `ControllerProofs`, `OwnershipProofs`, `DefenceLeaseProofs`, `DataPlaneProofs`, `DashboardProofs`, `SensingProofs` | theorems and proofs |
| `LivePhase` | the names of the phases |
| `WebSocketHub` | registry of sessions, sends and multicasts on sockets with bounded buffers |
| `RedisBridge` | phase tracker, topology snapshot and connection state, and the envelopes a message becomes |
| `TowerState` | the browser's reducer, as operators on a view |
| `Dashboard` | bridge, hub, one endpoint task per socket and the browsers, with their faults |
| `DashboardProperties` | its properties |
| `MCSafety`, `MCController`, `MCHistory`, `MCDataPlane`, `MCSensing`, `MCDashboard` | instances for TLC |

Definitions whose name begins with `Mut` are deliberately broken variants of
the definition that follows them. No specification uses them; each shows that
the property named in `PROJECT.json` fails when the code is broken that way.

## How the model corresponds to the code

**One listener.** All defence state is written by `_command_listener_loop`.
One iteration takes a message, evaluates the FSM heartbeat, expires rate
limits, and dispatches the message. `pc` says where the iteration is. Within a
handler the greenthread yields only where it publishes to Redis. The steps of
`Controller` end at those publications that lie between two changes of defence
state: between the targets of a rollback (`RollbackTarget`), after the rollback
(`RollbackDone`), and between isolate or quarantine, bypass, and FSM
(`DangerIsolate`/`DangerQuarantine`, `DangerReroute`, `DangerTrigger`). At each
of these points switches may connect and disconnect and the process may die.

**Simplifications of the loop.** `ExpireRateLimits` lifts all expired limits in
one step. The rollback goes through the targets in any order; the code's order
is that of registration. A manual QUARANTINE names the port of its own host.

**Messages.** A poll delivers any member of `Messages` or none, whatever was
delivered before: loss, delay, duplication and reordering in Redis pub/sub are
all included. A Redis outage is a stretch of `Tick`s without polls. The
controller receives its own audit commands too and skips them by their id;
those are polls without a message.

**Switches.** A FlowMod to a switch that is not in `datapaths` is not sent, and
no handler looks at the answer: `Reached(S)`. Tables survive disconnections and
controller restarts because the switches run in fail-mode secure. A connection
has two events: `SwitchConnects` (features handler, then MAIN_DISPATCHER, which
reinstalls the base policy and registers the datapath) and `SwitchDisconnects`
(DEAD_DISPATCHER). `conns` counts open connections, so that a reconnect can
precede the DEAD event of the old connection.

**Flow rules** are abstracted to which port or switch has them: Table 3 drops
(`drops`), Table 2 meters (`police`), the priority-20 bypass (`bypass`, by
switch), Table 1 allow and quarantine rules of a host (`allow`, `contain`).

**Time** is counted in ticks and passes between iterations only (an iteration
takes milliseconds). Ages saturate where the code can no longer tell them
apart: `threat_age`, `target_age` and `alert_age` at the cooldown, breaker
stamps one past the window, `rate_age` at the warning hold.

**`phase`** is the phase of the last topology sync published; **`announced`**
the ports whose automatic ISOLATE or QUARANTINE was published and whose RESTORE
was not: the two things a dashboard knows.

**`alert_age`** is history: the time since the last alert on a port that
passed the hold, the breaker and the guard. `DefenceHistory` adds `heard_age`
(alerts received, whether or not they passed).

**The dashboard.** The tasks of the API server share one event loop, so
everything between two awaits is one step. `handle_message` updates the state
and copies the registry for its first envelope in one step; then the multicast
goes socket by socket, and waits at one whose buffer is full
(`BroadcastSend`). An endpoint is at `accepted`, `registered`, `greeted` (has
the topology) or `live` (has the status, waits for pings). A payload is
evaluated in the step that sends it. A connection has an end on each side:
`alive` is the server's belief, `socket` the browser's. `pending` waits for the
animation frame and survives the socket, as does the view; `Reload` clears
both. An envelope is its type and what the reducer reads of it; a topology is
identified by the phase of the sync that carried it. `seamless` and `reported`
are history. Message validation happens before any state is touched and is left
out, as are the counters of `/api/health` and the pings.

**The data plane.** A switch is an ordered channel and a set of rules; a
packet and a match are sets of fields, so that "a rule applies" and "a
non-strict delete takes it" are both set inclusion. Table 0 only counts and is
left out. A barrier is never sent by the code, so nothing orders one switch
after another. A packet is at a switch, with the controller (a packet-in), in a
channel (a packet-out), or over; if the connection breaks while the controller
has it, it is `orphaned`. One packet is under way at a time and packets meet
through the rules they leave behind (`Learned`, idle timeout 60 s as `Idle`).
`commanded` is history: what the commands given so far ask for. `Forwarding`
has the FlowMods that `Controller` abstracts to `drops`, `police`, `bypass`,
`allow`, `contain`: `TablesFollowCommands` is what justifies that abstraction
on a connected switch, and `left` is why it says nothing of one that left.

**The sources.** `ProbeTracker` counts in rounds of the monitor loop; a report
goes out in every other. `pings` is the history of a perfect observer, `report`
holds both accounts. `FeatureExtractor` reads either the counter or an absurd
value (seen in the repository's week 14 measurements); `real` is history.
`ServerConnAgent` lists what `ss` lists or nothing, because its exit status is
not looked at; `reused` and `missed` are history.

**The criteria engine.** A rate is a small integer; a baseline is its mean, and
k sigma the constant `Sigma` (the deviation is learned, bounded and reset with
the mean). EWMA smoothing becomes the choice to move one unit towards the rate
or not at all, indicator by indicator: an over-approximation of every smoothing
factor. Times are ages; the half-report tolerances of the code are kept by
doubling. Evidence is a set of triples (threat, value, line), so that the rule
for DANGER and the choice of the strongest threat read as the code does. The
score of the neural network in the older mode is any.

## Runs

| Run | Question | Bounds |
|---|---|---|
| `safety` | Does the breaker bound the rate, and can its trial succeed? Is a target ever let go early with one timer for three targets? Does the FSM heal by itself? | 3 commands per window of 2 ticks, open for 4: limit, limit + 1 and pruning all occur; 3 ports, cooldown 4 ticks: half and full cooldown are distinct, and targets of three different ages coexist |
| `autonomy` | Without operators and faults, do tables, memory, FSM and dashboard agree, and is everything taken back when alerts cease? | two ports that can be isolated and a trunk, so one timer serves two incidents; cooldown and warning hold 4, breaker window 1, open for 5: the order of the code's 2, 10, 10 and 15 s |
| `operators` | Do the guard and the manual hold stand against every command in any order? Does `Controller` implement `PortLease`? | one attacker, one protected host, one trunk, alerts, ISOLATE and RESTORE for each of them; manual hold 4, twice the cooldown; warning hold = cooldown, as in the code |
| `faults` | What survives disconnection anywhere in a handler, overlapping connections, and restarts? What leaves a rule that nobody will remove? | S1 flaky (every alert names its ports), two overlapping connections, two alerts per breaker window, restart at any point, an operator's ISOLATE and RESTORE; a limit lasts 2 ticks, so an escalation meets it |
| `dashboard` | Does a browser end up showing what the bridge knows, whatever connects and breaks when? | two messages, one fault of any kind, one browser whose old connection may outlive it on the server; buffers of one envelope, so every send can block |
| `dataplane` | What happens to packets while commands are on their way, and do the tables follow? | one packet of each of six classes from h1 (or the probe), two commands of eight kinds, S3 (the bypass) leaves and returns with or without its rules |
| `sensing` | Are the figures of each source those of what happened, and does the worker alert what it must and only that? | six ping numbers, answers up to 4 rounds late, timeout 2: more pings than are ever unsettled, so that numbers wrap but do not collide, as with 2^16; counters up to 7 packets, reports up to 2 ticks apart; two connections; one port, four traffic profiles, confirmation 2, clearing 2, learning resumed after 3, windows 2 and 3 |

Three ports of the diamond are enough: the handlers treat ports alike except
for the guard (one port of each kind) and for the shared timer (two isolatable
ports in `autonomy`, three in `safety`). The shipped guard tables leave one port
isolatable; `<<1, 5>>` is a port neither table names, as a further host would
have.

In `dashboard` two sockets are enough: a connection that one side believes in
and the other does not plays the slow or dead client next to a live one, and
two messages make one change that can be missed. Its bounds end every
behaviour, so deadlock is not checked there; `CatchesUp` says that it ends well.

In `dataplane` two commands suffice for every pair that could interfere (the
non-strict deletes of one against the rules of another), and rules left by
packets are a third party to each. Deadlock is not checked: when the commands
are used up, the network may rest. The engine of `sensing` reads nothing across
ports, so one port is enough; a source and the worker share no state, and what
goes between them is taken as any message the other could send, so each
behaviour is that of one of the four (`source`).

Five further runs are expected to be violated; see
[Disagreements found](#disagreements-found).

The properties, in words:

- `GrantBound`, `TrialStartsEmpty`: no window lets more than `max_commands`
  through, and a trial begins with an empty one.
- `NormalIffNoTarget`, `TimerIsNewestTarget`, `CooldownKeepsTargets`: the FSM's
  targets and its single timer agree.
- `NoFlapping`: a target is let go only by its own age, the time since the last
  alert on that very target; the exception is `force_restore` while the timer
  runs, which no heartbeat can be taken for.
- `GuardHolds`: no trunk or protected port is dropped, limited, tracked, taken
  up in a rollback or being answered for. A manual RESTORE of one is not
  refused; it asks for the removal of rules that are not there.
- `StagesExclusive`: rate limit and mitigation exclude each other, also between
  the isolation and the FSM hearing of it.
- `QuietBeforeRollback`: a rollback concerns only ports quiet for the full
  cooldown. It looks at alerts acted on (`alert_age`).
- `OrphansHaveCause`: a rule that nobody will remove (a drop unknown to FSM,
  rollback and alert in hand; a meter without a key) comes about only by a
  restart, because its switch is away, or, drops only, by an operator's RESTORE
  or ISOLATE. It says in the presence of faults what `DropsOwned` says without,
  and that the list of causes is complete.
- `DropsOwned`, `MitigationInstalled`, `LimitsInstalled`: rules and owners
  correspond in both directions.
- `AnnouncedIsTracked`, `NormalPhaseIsTrue`, `IsolateAnnouncedOnce`: what the
  dashboard is told. NORMAL is shown only while nothing is cut off; a rate
  limit of another port may be in force at that moment, because the rollback
  publishes NORMAL without looking at `rate_limits`
  (`controller.py:1074`, against the check at `:1148`).
- `HoldRespected`: no alert touches a port during its manual hold.
- `Recovers`, `SelfHeals`: the defence takes itself back.
- `LeasesKept`: refinement of `PortLease`.
- `TablesFollowCommands`: a switch that has processed everything and never left
  has the rules the commands ask for and no others.
- `ZonesExclusive`: between any two messages no host reaches both the server
  and the management network.
- `AdmittedByZone`: what gets in is what the zone policy and the commands allow,
  also by the controller's own rules and packet-outs.
- `NoLossInside`, `EverythingEnds`: an admitted packet is not lost inside unless
  a switch is out of the controller's reach, and none is forwarded forever.
- `HealthIsExact`: the loss reported is the loss a perfect observer saw.
- `FloodsAreReal`: no reset or absurd counter makes a flood.
- `WaitingCounted`: a connection that keeps the server waiting is counted when
  due, and no younger one, but for the exceptions the property names.
- `BaselinesBounded`, `LearnsFromQuietPorts`: slow growth does not teach the
  engine an attack, and it learns only from ports that have been quiet. In the
  run the gap was learned negative, so that both orders of the limits occur.
- `AlertsAreConfirmed`, `FloodsAreAlerted`: an alert rests on two comparable
  reports in a row of the same threat; a flood beyond every lawful baseline is
  alerted from its second report on without a pause, which is what keeps the
  FSM's cooldown from running out under attack.
- `InSync`: a browser that has nothing under way shows the bridge's phase,
  topology and upstream badge. It rests on the order in `websocket_endpoint`
  (register, then the snapshots) and on the bridge being one task that does not
  touch its state while it multicasts.
- `IncidentFollows`: on a page that kept its connection the incident shown is
  one of the present attack (`reported`: ports of the alerts since the phase
  was last NORMAL or CALIBRATING).
- `RegistryExact`, `LiveStayRegistered`: endpoints, failed sends and the purge
  after a multicast remove the sessions they should, and no others.
- `CatchesUp`: a dead or slow browser delays the others but does not stop them.

## Fairness

`FairSpec` assumes `WF(Listener)`: the greenthread keeps running, because
`get_message` returns after at most 0.1 s, message or not, and the loop catches
every exception. It assumes `SF(Tick)`: clock time advances whatever the loop
does; the model lets it advance only between iterations, so `Tick` is enabled
again and again rather than continuously, and weak fairness would let the loop
run infinitely often without time passing. Nothing is assumed of messages,
operators, switches or the process. `SelfHeals` and `Recovers` assume in their
statement that alerts cease. `SafetySpec` has the same two assumptions,
both weak, since there time can always pass.

`DataPlane`'s `FairSpec`: switches forward packets and process their channels,
and the controller's event loop takes queued packet-ins. No host need send, no
rule need expire and no switch need return: `EverythingEnds` counts a packet
that a switch without its rules drops as ended. `Sensing` has no liveness
property: an alert is due at a report, and that reports come is its worker's
environment.

`Dashboard`'s fairness: every ready task of the event loop runs; the bridge
retries Redis forever (`run` catches everything); the hook retries its socket
forever; a page that is shown reads and paints; uvicorn pings its sockets and
gives up those that do not answer (`ServerNotices`). Nothing is assumed of
messages and faults. A hidden tab does not paint; it is outside `CatchesUp`.

## Disagreements found

Each run checks one sentence of a document, comment or docstring, and TLC finds
a behaviour of the code that breaks it. `PROJECT.json` quotes the sentences.

| Run | What happens |
|---|---|
| `orphaned_drops` | RESTORE of one port empties the FSM; its callback reads a key `force_restore` does not send, so drop rules of other ports stay for good |
| `not_installed` | an isolation while S1 is away installs nothing and is reported, tracked and extended as MITIGATED |
| `quarantine_lost` | a reconnecting switch gives a quarantined host its access to the server back |
| `stale_disconnect` | the late DEAD event of an old connection unregisters the new one |
| `breaker_release` | the breaker (15 s) outlasts the cooldown (10 s): alerts it rejects do not prolong the mitigation, and the port is opened under attack |

Further limits that the modelling brought to light. No run of their own refutes
them; the properties beside them state what does hold.

- A page that was disconnected while one attack ended and another began still
  names the first one's port, though an incident is to close when the FSM is
  back to NORMAL (`towerState.js:31`); `IncidentFollows` is about pages that kept their connection.
- With S3 away `reroute_traffic` still programs S1, whose packets then end
  there; the docstring (`controller.py:915`) promises a lossless switch-over
  ("무유실 보장"). It is the exception `NoLossInside` makes.
- The quarantine's zone rules admit traffic for 10.0.0.254, to which
  `routing_table` has no route: such packets reach the controller and end there.
  `NoLossInside` leaves the class out.
- The clamp of `Baseline.update` (`criteria_engine.py:130`) is meant to keep a
  mean between what was learned beforehand and `cap_multiplier` times that, the
  first being the lower limit (`:93`). A gap is a signed difference (`:181`). Of
  a negative one the first update makes `cap_multiplier` times what was learned,
  which is below it, and there it stays. The shipped baseline has such a gap,
  for 4:1, which the worker does not watch; on a watched port the line would not
  suffer, since the floor decides it. `BaselinesBounded` is about the interval
  whichever end is the lower.
- `ServerConnAgent` takes a failed listing for an empty one and a reused client
  port for the old connection; `WaitingCounted` names both exceptions.

`MitigationInstalled` holds in `autonomy`, where every switch is connected, and
fails in `not_installed`: the two runs together say what it depends on.

## Proofs

Every invariant and every action property that a passing run checks is the
conclusion of a theorem, and so is the refinement `LeasesKept`, for every value
of the constants, under the assumptions named in the modules and the hypotheses
given below. The assumptions are:

- `PortsAssumption`, `ControllerAssumption`, `BridgeAssumption`,
  `DashboardAssumption`, `DataPlaneAssumption`, `WorkerAssumption`: what the
  constants are (ports lie on the four switches, messages are messages, sockets
  are not the absence of one).
- `CooldownAssumption`: the cooldown is positive. `BreakerAssumption`: the
  window is shorter than the breaker's cooldown (2 s, 15 s).
- `SwitchesAssumption`: the network is the diamond of four switches. What the
  theorems about packets say is about this network and its routing table, with
  any number of commands and any switches leaving.
- `CriteriaAssumption`: confirmation takes at least two reports (the code's 2),
  the cap is at least once the baseline, and what was learned beforehand is a
  natural number for every indicator but the gap, which is any integer.
  `FeatureAssumption`: an absurd
  reading is farther from any counter than the largest difference accepted.
- `ProbeAssumption`: there are more sequence numbers than a ping is ever under
  way or unsettled (2^16 against seconds).

**FSM** (`FlappingFSMProofs`, about `FSMSpec` of `FlappingFSMSystem`). `FSMInv` =
types, NORMAL iff no target, and the timer is the age of the newest target. It
is inductive; the last conjunct is what lets one timer decide about all targets.
`NeverFlaps` rests on it: the heartbeat asks the timer, the theorem speaks of
the age of each target. `CooldownIsTransparent` follows step by step.

**Breaker** (`CircuitBreakerProofs`). The rate bound is not inductive: after an
outside `trip()` the window may still be full when the breaker half-opens.
`BreakerInv` adds that the window has room while the breaker is not OPEN, and
that while it is OPEN every time stamp is at least as old as the trip. With the
window shorter than the cooldown the window is then empty at the trial
(`CooledDownIsEmpty`), and `RateIsLimited`, `TrialHasRoom` follow. The counting
lemmas (`RoomForOne`, `AppendFillsOne`) rest on the library's facts about
cardinality.

**Controller** (`ControllerProofs`). Types first, action by action; then
`DefenceInv` = types, `GuardHolds`, `StagesExclusive`, `QuietBeforeRollback`.
They need each other: that an escalation cannot leave a port both limited and
mitigated rests on the port being its own message's port until the FSM hears of
it (`Answering`); that a rollback is due rests on the FSM's timer never running
ahead of any target's `alert_age`. The invariant holds with flaky switches,
overlapping connections and restarts. `NoOrphanWithoutCause` and
`HoldIsRespected` are action properties. The first goes through every step that
takes an owner away: a heartbeat hands all targets to the rollback, and none is
pending outside one (`QuietBeforeRollback`); the other steps take the owner away
only together with the rule, when the switch can be reached.

`FSMInPlace` says that the controller uses the FSM as `FlappingFSMSystem` does
(`Spec` implies `FSMSpec` while the process is not restarted), so that what is
proved of the FSM on its own is true of the one in the controller.

**Ownership** (`OwnershipProofs`). That rules, memory and announcements agree
holds while every switch is connected, the process is not restarted and only
alerts arrive (`Autonomous`); without these it is false, as `orphaned_drops` and
`not_installed` show. `MitigationInstalled` and `AnnouncedIsTracked` are not
inductive: an alert installs and announces before the FSM is told, and a
rollback takes back one target at a time what the FSM has already forgotten.
`OwnershipInv` says for every step in between who owns what: the announcements
are those of the targets, the rollback and the alert in hand together
(`AnnouncedIsDefended`), the port of the alert in hand is cut off already
(`AnsweredIsCutOff`), no target is taken on during a rollback
(`RollbackComesAlone`), and the dashboard is not told NORMAL while the FSM is
in another state (`NormalMeansNormal`). `hard_whitelist` must lie on protected
ports, or a refused quarantine would count as a mitigation.

**Refinement** (`DefenceLeaseProofs`). `LeasesAreKept`: if no switch is flaky
and the process is not restarted, the warning hold is no longer than the
cooldown and whitelisted hosts sit on protected ports, then `Spec` implies
`PortLease`'s specification under the mapping of `DefenceLease` (an operator may
set the mode of exactly the port his command names, nobody else may open a port
whose lease has not lapsed). Beside
`DefenceInv` it needs `LeaseInv`: the meters are those of `rate_limits`, a
limit's age never runs ahead of its port's last alert, and a port being rolled
back is not limited. Each handler maps to `AlertOn`, `Operator`, `Expire`,
`Pass` or a stutter. With faults the refinement is false, as the runs on
disconnection show.

**Data plane** (`DataPlaneProofs`). What a table holds is decided by what is
still in the switch's channel: the last message that touches a rule, or the
table if none does. `Settles` says so of one rule; processing a message keeps
it and every command re-establishes it for the rules it concerns.
`TablesSettle` is `Settles` of every rule of the commands; `TablesFollow` is
the case of an empty channel. `ZonesInTurn` says that a zone rule under way has
the deletion of its opposite directly ahead of it, or meets a table without it.
`OnRoute`,
`SentOn` and `RulesInPlace` place the packet and the rules it will meet on the
primary path or the bypass, in the direction it is going; `NothingIsLostInside`
follows from them and from two facts that are proved about the network: the
cheapest route that avoids S2 is S1-S3-S4 (`ThePath`), and its rules are one at
S1 and one at S3 (`TheBypass`). `ZonesAreExclusive` and `AdmissionFollows`
assume that S1 stays: a returning S1 has its user zone installed again over a
quarantine, which is what `quarantine_lost` shows.

**Dashboard** (`DashboardProofs`). The invariant looks ahead: `Delivered` is the
view of a browser when everything written to its socket has been applied, and
`Arrives` says that it shows the bridge's state, or the endpoint or the
multicast in progress is about to write it there. This needs that what is being
multicast is not out of date (`EnvelopesCurrent`: the bridge does not touch its
state while it multicasts), that the registry has every session it should
(`Registry`) and that a connection has one owner at each end (`Apart`).
`Incidents` is the same for pages that kept their connection. Applying a batch
is a fold over a sequence, and the induction rules of the library take an
operator, which none of the provers can instantiate; `LeastNumber` and
`Induction` derive induction in terms of the set of numbers that have the
property from the well-foundedness of inclusion on finite sets, and the lemmas
about batches and the registry are proved by it.

**Sources and worker** (`SensingProofs`). The four machines share no variable,
so `SensingInv` is four invariants side by side. `PortInv`: what came since the
last report is at least what the counter gained, and a streak never exceeds the
floods there were. `ConnInv`: how far what the agent remembers of a connection
can be behind its age. `ProbeInv`: what the tracker remembers of a number is
all there is to know of the one ping of that number that is not settled, and an
answer on the wire is to that ping or to one already settled. `WorkerInv`: means
stay between what was learned and its multiple (`LimitsAre`), a streak is of a threat that the last
report was evidence of, a port whose flood has been confirmed is being alerted
on, and a port counts as quiet no longer than it has been.

**What proving changed in the model.** The stage of a decision was an unordered
CASE whose guards overlapped, where the code's if-chain takes the first; it is
now an IF chain. Folding a batch over the view and taking closed sessions out of
the registry are recursive functions, since tlapm cannot use RECURSIVE
operators.

**Only model-checked**: the liveness properties `SelfHeals`, `Recovers`,
`CatchesUp` and `EverythingEnds`. Fairness and ENABLED are outside what TLAPS
can prove.

## What is not modelled, and the plan

Not modelled:

- **Controller and bridge side by side.** The phase a dashboard shows against
  the controller's FSM, over a lossy channel. Each is modelled alone, with the
  other's messages in any order; their product is beyond TLC at bounds where
  both have something to do. Two hazards at `redis_bridge.py` (lines 66 and
  173) stay without a property for that reason.
- **REST handlers and `manual_control.py`.** They validate a command and publish
  it; they hold no state. `Controller` takes every command in any order,
  validated or not.
- **Mock mode** (`mock_generator.py`, `redis_replay.py`). A script of fixed
  times that feeds the dashboard without a network.
- **The network and its training** (`model.py`, synthetic samples), and the
  learning of the first baselines: data, entering as constants or choices.
  `recovery_monitor.py` is run by nothing.
- **The count rules of table 0** and their cookies: the worker's model takes
  their counts from a set.
- **The rest of the reducer** (charts, event feed, command stamps, recovery
  notice), and the React components, which only render. A hidden tab, whose
  `pending` has no limit in the code, is outside `CatchesUp`.
- **Measurement and reporting, traffic generators, verification scripts,
  deployment.** Write-only recording, packet sources, test drivers and set-up;
  read as documentation, and for the traffic profiles of `MCSensing`.

What the plan has left: step simulations between the components and the
controller beyond `FSMInPlace` (the breaker, whose module carries a history
variable of its own), and the ranking arguments behind the liveness properties
as safety lemmas, from which they would follow with a prover that has ENABLED.
