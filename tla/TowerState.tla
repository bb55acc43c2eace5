----------------------------- MODULE TowerState -----------------------------
(***************************************************************************)
(* ui/src/lib/towerState.js: the pure reducer of the browser's view.  Of   *)
(* the view it keeps the phase, the upstream badge, the topology and       *)
(* the port of the open incident; charts, event feed and times are left    *)
(* out.                                                                    *)
(***************************************************************************)
EXTENDS LivePhase, Naturals, Sequences

CLOSED_PHASES == {"NORMAL", "CALIBRATING"}

NoIncident == "null"

\* A topology is identified by the phase of the sync that carried it.
initialState ==
  [phase |-> NoPhase, upstream |-> "null", topology |-> "empty", incident |-> NoIncident]

MutNeverCloses(view, status) ==
  [view EXCEPT !.upstream = status.upstream, !.phase = status.phase]

\* The early return on an unchanged phase leaves the incident alone.
applyStatus(view, status) ==
  IF status.phase = view.phase
  THEN [view EXCEPT !.upstream = status.upstream]
  ELSE [view EXCEPT !.upstream = status.upstream,
                    !.phase    = status.phase,
                    !.incident = IF status.phase \in CLOSED_PHASES THEN NoIncident ELSE @]

\* Only the first alert names the incident; later ones refresh its numbers.
openIncident(view, alert) ==
  IF view.incident = NoIncident THEN [view EXCEPT !.incident = alert.port] ELSE view

applyEnvelope(view, envelope) ==
  CASE envelope.type = "system:status"     -> applyStatus(view, envelope)
    [] envelope.type = "sdn:anomaly:alert" -> openIncident(view, envelope)
    [] envelope.type = "sdn:topology:sync" -> [view EXCEPT !.topology = envelope.phase]
    [] OTHER                               -> view

\* dispatch({type: "batch"}): the envelopes of one animation frame, in order.
applyBatch(view, batch) ==
  LET after[n \in 0..Len(batch)] ==
        IF n = 0 THEN view ELSE applyEnvelope(after[n - 1], batch[n])
  IN  after[Len(batch)]
=============================================================================
