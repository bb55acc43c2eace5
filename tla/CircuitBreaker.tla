--------------------------- MODULE CircuitBreaker ---------------------------
(***************************************************************************)
(* harness/safety/circuit_breaker.py: the valve in front of every alert    *)
(* the controller acts on.  More than max_commands alerts inside           *)
(* window_sec trip it OPEN for trip_cooldown_sec.                          *)
(*                                                                         *)
(* Times are ages in ticks, saturated where the code can no longer tell    *)
(* them apart: command_timestamps is a set of slots, each with the age of  *)
(* the command it holds; a slot older than the window is one the code      *)
(* prunes (or an unused one).  The code's list never holds more than       *)
(* max_commands + 1 entries after pruning.                                 *)
(***************************************************************************)
EXTENDS Naturals, FiniteSets

CONSTANTS
  max_commands,         \* commands allowed in a window          (5)
  window_sec,           \* length of the sliding window          (2.0 s)
  trip_cooldown_sec     \* how long a tripped breaker stays open (15.0 s)

ASSUME BreakerAssumption ==
  /\ max_commands \in Nat \ {0}
  /\ window_sec \in Nat
  /\ trip_cooldown_sec \in Nat
  /\ window_sec < trip_cooldown_sec

VARIABLES
  cb_state,             \* CLOSED, OPEN or HALF_OPEN
  stamp_age,            \* command_timestamps: the age of each slot
  trip_age              \* now - trip_time

cb_vars == <<cb_state, stamp_age, trip_age>>

Slots == 1..(max_commands + 1)
Pruned == window_sec + 1

\* The entries that survive the sliding-window pruning of record_command.
command_timestamps == {s \in Slots : stamp_age[s] <= window_sec}

CBInit ==
  /\ cb_state = "CLOSED"
  /\ stamp_age = [s \in Slots |-> Pruned]
  /\ trip_age = trip_cooldown_sec

\* can_execute() answers True (and turns a cooled-down OPEN into HALF_OPEN).
Executable == cb_state # "OPEN" \/ trip_age >= trip_cooldown_sec

\* prune, then append(now): the command takes one of the free slots.
AppendNow ==
  \E s \in Slots \ command_timestamps :
    /\ \A t \in Slots \ command_timestamps : s <= t
    /\ stamp_age' = [stamp_age EXCEPT ![s] = 0]

\* Mutant: the limit is compared before the command is counted.
MutWindowFull == Cardinality(command_timestamps) > max_commands
WindowFull == Cardinality(command_timestamps) + 1 > max_commands

\* Mutant: trip_time is not set.
MutTrip ==
  /\ cb_state' = "OPEN"
  /\ UNCHANGED trip_age

trip ==
  /\ cb_state' = "OPEN"
  /\ trip_age' = 0

(***************************************************************************)
(* record_command(), by the way it returns.                                *)
(***************************************************************************)
record_refused ==               \* False: can_execute() said no
  /\ ~Executable
  /\ UNCHANGED cb_vars

record_tripping ==              \* False: one command too many, trip()
  /\ Executable
  /\ WindowFull
  /\ AppendNow
  /\ trip

record_granted ==               \* True: HALF_OPEN closes again
  /\ Executable
  /\ ~WindowFull
  /\ AppendNow
  /\ cb_state' = "CLOSED"
  /\ UNCHANGED trip_age

record_command == record_refused \/ record_tripping \/ record_granted

\* can_execute() called on its own.
can_execute ==
  /\ Executable
  /\ cb_state' = IF cb_state = "OPEN" THEN "HALF_OPEN" ELSE cb_state
  /\ UNCHANGED <<stamp_age, trip_age>>

\* trip() and reset() called from outside.
manual_trip ==
  /\ trip
  /\ UNCHANGED stamp_age

reset ==
  /\ cb_state' = "CLOSED"
  /\ stamp_age' = [s \in Slots |-> Pruned]
  /\ trip_age' = trip_cooldown_sec

\* One tick of time.time().
CBTick ==
  /\ stamp_age' = [s \in Slots |->
                     IF stamp_age[s] < Pruned THEN stamp_age[s] + 1 ELSE Pruned]
  /\ trip_age' = IF trip_age < trip_cooldown_sec
                 THEN trip_age + 1 ELSE trip_cooldown_sec
  /\ UNCHANGED cb_state

\* The state enumeration, and ages that never leave their saturated range.
CBTypeOK ==
  /\ cb_state \in {"CLOSED", "OPEN", "HALF_OPEN"}
  /\ stamp_age \in [Slots -> 0..Pruned]
  /\ trip_age \in 0..trip_cooldown_sec
=============================================================================
