------------------------ MODULE DashboardProperties -------------------------
(***************************************************************************)
(* What the dashboard is for: what a browser shows is what the bridge has  *)
(* last heard, whatever happened to connections in between.                *)
(***************************************************************************)
EXTENDS Dashboard

\* Types, and buffers within their bounds: no send passes the high-water mark.
TypeOK ==
  /\ connections \in Seq(Sockets) /\ targets \in Seq(Sockets)
  /\ alive \subseteq Sockets /\ stale \subseteq Sockets
  /\ phase \in Phases \union {NoPhase}
  /\ topology \in Phases \union {NoPhase, "static"}
  /\ connected \in BOOLEAN
  /\ endpoint \in [Sockets -> {"none", "accepted", "registered", "greeted", "live"}]
  /\ socket \in [Browsers -> Sockets \union {NoSocket}]
  /\ \A s \in Sockets : Len(wire[s]) <= HighWater
  /\ \A b \in Browsers : Len(pending[b]) <= MaxPending

\* Nothing is under way between the bridge and the browser's view.
Settled(b) ==
  /\ idle
  /\ socket[b] \in alive
  /\ endpoint[socket[b]] = "live"
  /\ wire[socket[b]] = <<>>
  /\ pending[b] = <<>>

Shows(b) ==
  /\ view[b].phase = phase
  /\ view[b].topology = topology
  /\ view[b].upstream = status_payload.upstream

\* A browser that has caught up shows the bridge's phase, topology and
\* upstream badge: no order of registration, snapshots, multicasts and
\* reconnections leaves it with an older one.
InSync == \A b \in Browsers : Settled(b) => Shows(b)

\* The incident shown is one of the present attack: its port was reported
\* since the FSM was last back to NORMAL.
IncidentCurrent(b) == view[b].incident \in reported \union {NoIncident}

\* So it is while the page keeps its connection.
IncidentFollows == \A b \in Browsers : Settled(b) /\ seamless[b] => IncidentCurrent(b)

\* The registry never holds a socket twice, nor one whose endpoint has ended.
RegistryExact ==
  /\ IsInjective(connections)
  /\ \A i \in DOMAIN connections :
       endpoint[connections[i]] \in {"registered", "greeted", "live"}

\* A session that is up is never dropped from the registry: a multicast that
\* fails, or an endpoint that ends, takes only itself out.
LiveStayRegistered ==
  \A s \in alive :
    endpoint[s] \in {"registered", "greeted", "live"}
      => \E i \in DOMAIN connections : connections[i] = s

\* One dead or slow browser holds the multicast up for a while, never for
\* good: in the end every browser shows the bridge's state.
CatchesUp == <>[](connected /\ \A b \in Browsers : Settled(b) /\ Shows(b))
=============================================================================
