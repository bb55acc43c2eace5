---------------------------- MODULE RedisBridge -----------------------------
(***************************************************************************)
(* api/redis_bridge.py: one task that takes a message from Redis, updates  *)
(* the live phase and the topology snapshot, and multicasts the envelopes  *)
(* before it takes the next.  Payloads that fail validation are dropped    *)
(* before they touch any state and are left out; so are the counters of    *)
(* /api/health.                                                            *)
(***************************************************************************)
EXTENDS LivePhase, WebSocketHub

CONSTANTS
  Ports,          \* the ports alerts are about
  Messages        \* what the four channels deliver, see Message

\* type: the channel, as in CHANNEL_MODELS.  A sync whose phase is missing or unknown has NoPhase.
Message ==
       [type : {"sdn:stats:port"}]
  \union [type : {"sdn:anomaly:alert"}, port : Ports]
  \union [type : {"sdn:control:command"},
          action : {"ISOLATE", "RESTORE", "REROUTE", "RATE_LIMIT", "UNLIMIT",
                    "RELEARN", "QUARANTINE", "RELEASE"}]
  \union [type : {"sdn:topology:sync"}, phase : Phases \union {NoPhase}]

ASSUME BridgeAssumption == Messages \subseteq Message

VARIABLES
  phase,          \* tracker.phase
  topology,       \* the phase of self.topology, "static" while it is None
  connected       \* self.connected

bridge_vars == <<phase, topology, connected>>

BridgeInit ==
  /\ phase = NoPhase
  /\ topology = "static"
  /\ connected = FALSE

\* The tracker's guess: alerts do not lead back from MITIGATED, commands of
\* other kinds say nothing, and any other first message means NORMAL.
observe(message) ==
  CASE message.type = "sdn:anomaly:alert" ->
         IF phase \in {"MITIGATED", "COOLDOWN_VERIFY"} THEN phase ELSE "ATTACK_DETECTED"
    [] message.type = "sdn:control:command" ->
         CASE message.action \in {"ISOLATE", "REROUTE"} -> "MITIGATED"
           [] message.action = "RESTORE"                -> "NORMAL"
           [] OTHER                                     -> phase
    [] message.type = "sdn:topology:sync" /\ message.phase # NoPhase -> message.phase
    [] OTHER -> IF phase = NoPhase THEN "NORMAL" ELSE phase

Status(p, c) ==
  [type |-> "system:status", phase |-> p,
   upstream |-> IF c THEN "connected" ELSE "disconnected"]
status_payload == Status(phase, connected)
topology_snapshot == [type |-> "sdn:topology:sync", phase |-> topology]

Receives(message) ==
  /\ idle /\ connected
  /\ topology' = IF message.type = "sdn:topology:sync" THEN message.phase ELSE topology
  /\ phase' = observe(message)
  /\ UNCHANGED <<connected, connections, socket_vars>>

MutStatusFirst(message) ==
  /\ Receives(message)
  /\ broadcast(IF phase' # phase THEN <<message, status_payload>> ELSE <<message>>)

handle_message(message) ==
  /\ Receives(message)
  /\ broadcast(IF phase' # phase THEN <<message, Status(phase', connected)>>
                                 ELSE <<message>>)

\* run: subscribed again, or an exception out of listen().  What is published
\* in between is lost.
set_connected(c) ==
  /\ idle /\ connected # c
  /\ connected' = c
  /\ broadcast(<<Status(phase, c)>>)
  /\ UNCHANGED <<phase, topology, connections, socket_vars>>

RedisSubscribed == set_connected(TRUE)
RedisLost       == set_connected(FALSE)
=============================================================================
