---------------------------- MODULE WebSocketHub ----------------------------
(***************************************************************************)
(* api/websocket_hub.py on the server's side of the WebSockets: the        *)
(* registry of sessions and the multicast.  The registry's lock is never   *)
(* held across an await, so a locked section is one step.  Sending yields  *)
(* only when the socket's buffer is full; the multicast is one step per    *)
(* socket, and waits at a full one.                                        *)
(***************************************************************************)
EXTENDS Naturals, FiniteSets, Sequences, SequencesExt

CONSTANTS
  Sockets,
  HighWater       \* envelopes a socket's buffer takes before a sender waits

ASSUME HubAssumption == HighWater \in Nat \ {0}

VARIABLES
  connections,    \* self._connections
  alive,          \* sockets whose connection is up as the server knows it
  wire,           \* what was written to a socket and not yet received
  envelopes,      \* the envelope being multicast and those that follow it
  targets,        \* connections it has still to be sent to
  stale           \* connections that failed

socket_vars    == <<alive, wire>>
broadcast_vars == <<envelopes, targets, stale>>
hub_vars       == <<connections, socket_vars, broadcast_vars>>

HubInit ==
  /\ connections = <<>>
  /\ alive = {}
  /\ wire = [s \in Sockets |-> <<>>]
  /\ envelopes = <<>>
  /\ targets = <<>>
  /\ stale = {}

\* The registry without the sockets S, in its order.
Without(S) ==
  LET kept[n \in 0..Len(connections)] ==
        IF n = 0 THEN <<>>
        ELSE IF connections[n] \in S THEN kept[n - 1]
        ELSE Append(kept[n - 1], connections[n])
  IN  kept[Len(connections)]

MutKeepSession(s) == connections' = connections

\* Safe to call more than once for the same socket.
disconnect(s) == connections' = Without({s})

MutWritable(s) == s \in alive

Writable(s) == s \in alive /\ Len(wire[s]) < HighWater
send_json(s, envelope) == wire' = [wire EXCEPT ![s] = Append(@, envelope)]

\* send_to: the socket is dropped from the registry when the send fails.
send_to(s, envelope) ==
  \/ /\ Writable(s)
     /\ send_json(s, envelope)
     /\ UNCHANGED connections
  \/ /\ s \notin alive
     /\ disconnect(s)
     /\ UNCHANGED wire

idle == envelopes = <<>>

\* broadcast is entered with a copy of the registry.
broadcast(es) ==
  /\ envelopes' = es
  /\ targets' = connections
  /\ stale' = {}

BroadcastSend ==
  /\ targets # <<>>
  /\ targets' = Tail(targets)
  /\ LET s == Head(targets)
     IN \/ /\ Writable(s)
           /\ send_json(s, Head(envelopes))
           /\ UNCHANGED stale
        \/ /\ s \notin alive
           /\ stale' = stale \union {s}
           /\ UNCHANGED wire
  /\ UNCHANGED <<connections, alive, envelopes>>

MutPurgeAll ==
  /\ ~idle
  /\ targets = <<>>
  /\ connections' = IF stale = {} THEN connections ELSE <<>>
  /\ envelopes' = Tail(envelopes)
  /\ targets' = IF Len(envelopes) > 1 THEN connections' ELSE <<>>
  /\ stale' = {}
  /\ UNCHANGED socket_vars

\* The failed sockets are purged, and the next envelope finds a fresh copy.
BroadcastEnds ==
  /\ ~idle
  /\ targets = <<>>
  /\ connections' = Without(stale)
  /\ envelopes' = Tail(envelopes)
  /\ targets' = IF Len(envelopes) > 1 THEN connections' ELSE <<>>
  /\ stale' = {}
  /\ UNCHANGED socket_vars
=============================================================================
