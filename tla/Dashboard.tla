----------------------------- MODULE Dashboard ------------------------------
(***************************************************************************)
(* The dashboard end to end: Redis, the bridge task and the hub, one       *)
(* websocket_endpoint task per socket (api/main.py), and the browsers      *)
(* (ui/src/hooks/useControlTowerSocket.js around the reducer TowerState).  *)
(*                                                                         *)
(* All tasks of the server run on one event loop and interleave at awaits. *)
(* Either side of a connection may notice its end first; what is still on  *)
(* the wire is then lost.  A browser keeps its view when it reconnects and *)
(* loses it when the page is reloaded; a restarted server has forgotten    *)
(* everything.  Keepalive pings carry no state and are left out.           *)
(***************************************************************************)
EXTENDS RedisBridge, TowerState

CONSTANTS
  Browsers,
  NoSocket,
  MaxPending,     \* envelopes that wait for the next animation frame
  MaxMessages,    \* messages published and relayed in a behaviour
  Faults,         \* the kinds of faults that happen, see FaultKinds
  MaxFaults       \* faults in a behaviour

FaultKinds == {"redis", "connection", "server", "reload"}

ASSUME DashboardAssumption ==
  /\ NoSocket \notin Sockets
  /\ NoIncident \notin Ports
  /\ MaxPending \in Nat \ {0}
  /\ MaxMessages \in Nat
  /\ Faults \subseteq FaultKinds
  /\ MaxFaults \in Nat

VARIABLES
  endpoint,       \* where the endpoint task of a socket is
  socket,         \* the WebSocket of a browser
  pending,        \* received, and not yet applied to the view
  view,           \* the reducer's state
  \* history and bounds
  seamless,       \* the page has lost no connection since it was loaded
  reported,       \* ports of the alerts relayed since the phase was last closed
  published,
  faults

browser_vars == <<socket, pending, view, seamless>>
bound_vars   == <<reported, published, faults>>
vars == <<hub_vars, bridge_vars, endpoint, browser_vars, bound_vars>>

Init ==
  /\ HubInit
  /\ BridgeInit
  /\ endpoint = [s \in Sockets |-> "none"]
  /\ socket = [b \in Browsers |-> NoSocket]
  /\ pending = [b \in Browsers |-> <<>>]
  /\ view = [b \in Browsers |-> initialState]
  /\ seamless = [b \in Browsers |-> TRUE]
  /\ reported = {}
  /\ published = 0
  /\ faults = 0

-----------------------------------------------------------------------------
\* The bridge task.

Relay(m) ==
  /\ published < MaxMessages
  /\ handle_message(m)
  /\ reported' = IF phase' \in CLOSED_PHASES THEN {}
                 ELSE IF m.type = "sdn:anomaly:alert" THEN reported \union {m.port}
                 ELSE reported
  /\ published' = published + 1
  /\ UNCHANGED <<endpoint, browser_vars, faults>>

Fault(kind) ==
  /\ kind \in Faults
  /\ faults < MaxFaults
  /\ faults' = faults + 1
  /\ UNCHANGED <<reported, published>>

RedisDrops == RedisLost /\ Fault("redis") /\ UNCHANGED <<endpoint, browser_vars>>

BridgeSubscribes == RedisSubscribed /\ UNCHANGED <<endpoint, browser_vars, bound_vars>>

Multicast ==
  /\ BroadcastSend \/ BroadcastEnds
  /\ UNCHANGED <<bridge_vars, endpoint, browser_vars, bound_vars>>

-----------------------------------------------------------------------------
\* websocket_endpoint: registered first, so that nothing is missed between
\* the snapshots and the multicasts.

Goes(s, from, to) ==
  /\ endpoint[s] = from
  /\ endpoint' = [endpoint EXCEPT ![s] = to]

Register(s) ==
  /\ Goes(s, "accepted", "registered")
  /\ connections' = Append(connections, s)
  /\ UNCHANGED <<socket_vars, broadcast_vars, bridge_vars, browser_vars, bound_vars>>

SendTopology(s) ==
  /\ Goes(s, "registered", "greeted")
  /\ send_to(s, topology_snapshot)
  /\ UNCHANGED <<alive, broadcast_vars, bridge_vars, browser_vars, bound_vars>>

SendStatus(s) ==
  /\ Goes(s, "greeted", "live")
  /\ send_to(s, status_payload)
  /\ UNCHANGED <<alive, broadcast_vars, bridge_vars, browser_vars, bound_vars>>

\* receive_text raises once the connection is gone.
EndpointEnds(s) ==
  /\ s \notin alive
  /\ Goes(s, "live", "none")
  /\ disconnect(s)
  /\ UNCHANGED <<socket_vars, broadcast_vars, bridge_vars, browser_vars, bound_vars>>

\* The server learns of a connection's end: a close frame, a reset, or pings
\* that stay unanswered.
Drop(S) ==
  /\ alive' = alive \ S
  /\ wire' = [s \in Sockets |-> IF s \in S THEN <<>> ELSE wire[s]]

ServerNotices(s) ==
  /\ s \in alive
  /\ \A b \in Browsers : socket[b] # s
  /\ Drop({s})
  /\ UNCHANGED <<connections, broadcast_vars, bridge_vars, endpoint, browser_vars, bound_vars>>

ServerLoses(s) ==
  /\ s \in alive
  /\ Drop({s})
  /\ Fault("connection")
  /\ UNCHANGED <<connections, broadcast_vars, bridge_vars, endpoint, browser_vars>>

ServerRestarts ==
  /\ Fault("server")
  /\ Drop(Sockets)
  /\ connections' = <<>> /\ envelopes' = <<>> /\ targets' = <<>> /\ stale' = {}
  /\ phase' = NoPhase /\ topology' = "static" /\ connected' = FALSE
  /\ endpoint' = [s \in Sockets |-> "none"]
  /\ UNCHANGED browser_vars

-----------------------------------------------------------------------------
\* useControlTowerSocket.

\* A socket whose object nothing on the server refers to any more.
Fresh(s) ==
  /\ endpoint[s] = "none"
  /\ s \notin stale
  /\ \A i \in DOMAIN targets : targets[i] # s
  /\ \A b \in Browsers : socket[b] # s

Opens(b, s) ==
  /\ Fresh(s)
  /\ socket' = [socket EXCEPT ![b] = s]
  /\ endpoint' = [endpoint EXCEPT ![s] = "accepted"]
  /\ alive' = alive \union {s}
  /\ UNCHANGED <<connections, wire, broadcast_vars, bridge_vars, pending, view, seamless, bound_vars>>

MutNoRetry(b) == socket[b] = NoSocket /\ seamless[b] /\ \E s \in Sockets : Opens(b, s)

Connect(b) == socket[b] = NoSocket /\ \E s \in Sockets : Opens(b, s)

Receive(b) ==
  /\ socket[b] # NoSocket
  /\ wire[socket[b]] # <<>>
  /\ Len(pending[b]) < MaxPending
  /\ pending' = [pending EXCEPT ![b] = Append(@, Head(wire[socket[b]]))]
  /\ wire' = [wire EXCEPT ![socket[b]] = Tail(@)]
  /\ UNCHANGED <<connections, alive, broadcast_vars, bridge_vars, endpoint, socket, view,
                 seamless, bound_vars>>

\* One animation frame.
Flush(b) ==
  /\ pending[b] # <<>>
  /\ view' = [view EXCEPT ![b] = applyBatch(@, pending[b])]
  /\ pending' = [pending EXCEPT ![b] = <<>>]
  /\ UNCHANGED <<hub_vars, bridge_vars, endpoint, socket, seamless, bound_vars>>

\* onclose: the view and what is pending are kept, connect follows.
Closed(b) ==
  /\ socket[b] # NoSocket
  /\ socket' = [socket EXCEPT ![b] = NoSocket]
  /\ seamless' = [seamless EXCEPT ![b] = FALSE]
  /\ UNCHANGED <<hub_vars, bridge_vars, endpoint, pending, view>>

BrowserNotices(b) == socket[b] \notin alive /\ Closed(b) /\ UNCHANGED bound_vars
BrowserLoses(b)   == Closed(b) /\ Fault("connection")

Reload(b) ==
  /\ Fault("reload")
  /\ socket' = [socket EXCEPT ![b] = NoSocket]
  /\ pending' = [pending EXCEPT ![b] = <<>>]
  /\ view' = [view EXCEPT ![b] = initialState]
  /\ seamless' = [seamless EXCEPT ![b] = TRUE]
  /\ UNCHANGED <<hub_vars, bridge_vars, endpoint>>

-----------------------------------------------------------------------------
EndpointStep(s) == Register(s) \/ SendTopology(s) \/ SendStatus(s) \/ EndpointEnds(s)
BrowserStep(b)  == Connect(b) \/ Receive(b) \/ Flush(b) \/ BrowserNotices(b)

Next ==
  \/ \E m \in Messages : Relay(m)
  \/ BridgeSubscribes
  \/ Multicast
  \/ \E s \in Sockets : EndpointStep(s) \/ ServerNotices(s)
  \/ \E b \in Browsers : BrowserStep(b)
  \/ RedisDrops
  \/ \E s \in Sockets : ServerLoses(s)
  \/ ServerRestarts
  \/ \E b \in Browsers : BrowserLoses(b) \/ Reload(b)

Spec == Init /\ [][Next]_vars

\* The event loop runs every ready task; a browser that is shown reconnects
\* forever, reads its socket and paints; the server pings its sockets.
Fairness ==
  /\ WF_vars(BridgeSubscribes)
  /\ WF_vars(Multicast)
  /\ \A s \in Sockets : WF_vars(EndpointStep(s)) /\ WF_vars(ServerNotices(s))
  /\ \A b \in Browsers : WF_vars(Connect(b)) /\ WF_vars(Receive(b)) /\ WF_vars(Flush(b))
                         /\ WF_vars(BrowserNotices(b))

FairSpec == Spec /\ Fairness
=============================================================================
