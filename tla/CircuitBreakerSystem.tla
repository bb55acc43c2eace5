------------------------ MODULE CircuitBreakerSystem ------------------------
(***************************************************************************)
(* The circuit breaker on its own, called in any order at any time, with a *)
(* history variable that records which commands it let through.            *)
(***************************************************************************)
EXTENDS CircuitBreaker

VARIABLE granted        \* history: the slots whose command returned True

vars == <<cb_state, stamp_age, trip_age, granted>>

Init == CBInit /\ granted = {}

\* The slot the call just filled.
Filled == {s \in Slots : stamp_age[s] > window_sec /\ stamp_age'[s] = 0}

Grant  == record_granted /\ granted' = granted \union Filled
Trip   == record_tripping /\ granted' = granted \ Filled
Refuse == record_refused /\ UNCHANGED granted

Call ==
  \/ Grant
  \/ Trip
  \/ Refuse
  \/ can_execute /\ UNCHANGED granted
  \/ manual_trip /\ UNCHANGED granted
  \/ reset /\ granted' = {}

Tick == CBTick /\ UNCHANGED granted

Next == Call \/ Tick

Spec == Init /\ [][Next]_vars

\* The breaker's own type invariant, and a history that names slots.
TypeOK == CBTypeOK /\ granted \subseteq Slots

\* Since the last reset(), no sliding window of window_sec ever holds more
\* than max_commands commands that record_command() let through, whatever
\* trips, half-open trials and outside calls of trip() happened in between.
GrantBound == Cardinality(granted \intersect command_timestamps) <= max_commands

\* When the breaker leaves OPEN because it has cooled down, the window behind
\* it is empty: the half-open trial command always passes and always closes
\* the breaker (record_command() never trips from HALF_OPEN), and the list of
\* timestamps never outgrows max_commands + 1.
TrialStartsEmpty ==
  /\ cb_state = "HALF_OPEN" => command_timestamps = {}
  /\ Executable => command_timestamps # Slots

\* The inductive strengthening: while the breaker is not OPEN the window has
\* room for the trial, and while it is OPEN every entry is at least as old as
\* the trip.
BreakerInv ==
  /\ TypeOK
  /\ cb_state # "OPEN" => Cardinality(command_timestamps) <= max_commands
  /\ cb_state = "OPEN" =>
       \A s \in Slots : stamp_age[s] >= trip_age \/ stamp_age[s] = Pruned
  /\ cb_state = "HALF_OPEN" => command_timestamps = {}
  /\ GrantBound
=============================================================================
