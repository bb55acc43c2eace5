------------------------ MODULE CircuitBreakerProofs ------------------------
(***************************************************************************)
(* CircuitBreakerSystem for every command limit, window and cooldown with  *)
(* window_sec < trip_cooldown_sec.                                         *)
(*                                                                         *)
(* The inductive invariant is BreakerInv.  The bound on granted commands   *)
(* needs the window to have room whenever a command can be granted; after  *)
(* a trip it has max_commands + 1 entries, and what makes room again is    *)
(* that all of them are at least as old as the trip, which is longer ago   *)
(* than the window when the breaker lets the trial command through.        *)
(***************************************************************************)
EXTENDS CircuitBreakerSystem, FiniteSetTheorems, TLAPS

\* The slots are a finite set of max_commands + 1 members.
LEMMA SlotsFinite ==
  /\ IsFiniteSet(Slots)
  /\ Cardinality(Slots) = max_commands + 1
<1>1. /\ IsFiniteSet(1..(max_commands + 1))
      /\ Cardinality(1..(max_commands + 1)) =
           IF 1 > max_commands + 1 THEN 0 ELSE (max_commands + 1) - 1 + 1
  BY BreakerAssumption, FS_Interval DEF BreakerAssumption
<1> QED
  BY <1>1, BreakerAssumption DEF Slots, BreakerAssumption

\* Cardinalities of sets of slots are natural numbers, ordered by inclusion.
LEMMA SlotSets ==
  ASSUME NEW S \in SUBSET Slots, NEW T \in SUBSET S
  PROVE  /\ IsFiniteSet(S)
         /\ Cardinality(S) \in Nat
         /\ Cardinality(T) \in Nat
         /\ Cardinality(T) <= Cardinality(S)
<1>1. IsFiniteSet(S)
  BY SlotsFinite, FS_Subset
<1>2. IsFiniteSet(T) /\ Cardinality(T) <= Cardinality(S)
  BY <1>1, FS_Subset
<1> QED
  BY <1>1, <1>2, FS_CardinalityType

\* A breaker that is OPEN and lets a command through has an empty window.
LEMMA CooledDownIsEmpty ==
  ASSUME BreakerInv, Executable, cb_state = "OPEN"
  PROVE  command_timestamps = {}
<1>1. \A s \in Slots : stamp_age[s] > window_sec
  BY BreakerAssumption DEF BreakerInv, TypeOK, CBTypeOK, Executable, Pruned,
                           BreakerAssumption
<1> QED
  BY <1>1, BreakerAssumption DEF command_timestamps, BreakerInv, TypeOK,
                                 CBTypeOK, BreakerAssumption, Pruned

\* A command that gets through, granted or one too many, finds room and is
\* not in OPEN with a full window.
LEMMA RoomForOne ==
  ASSUME BreakerInv, Executable
  PROVE  /\ Cardinality(command_timestamps) <= max_commands
         /\ WindowFull => cb_state # "OPEN"
<1>1. Cardinality({}) = 0
  BY FS_EmptySet
<1>2. CASE cb_state = "OPEN"
  BY <1>1, <1>2, CooledDownIsEmpty, BreakerAssumption
     DEF WindowFull, BreakerAssumption
<1>3. CASE cb_state # "OPEN"
  BY <1>3 DEF BreakerInv
<1> QED
  BY <1>2, <1>3

\* AppendNow fills exactly one slot.
LEMMA AppendFillsOne ==
  ASSUME CBTypeOK, AppendNow
  PROVE  /\ stamp_age' \in [Slots -> 0..Pruned]
         /\ \E s \in Slots \ command_timestamps :
              /\ Filled = {s}
              /\ command_timestamps' = command_timestamps \union {s}
              /\ stamp_age' = [stamp_age EXCEPT ![s] = 0]
<1>1. PICK s \in Slots \ command_timestamps : stamp_age' = [stamp_age EXCEPT ![s] = 0]
  BY DEF AppendNow
<1> USE BreakerAssumption DEF BreakerAssumption, CBTypeOK, Pruned
<1>2. stamp_age' \in [Slots -> 0..Pruned]
  BY <1>1
<1>3. \A t \in Slots : stamp_age'[t] = IF t = s THEN 0 ELSE stamp_age[t]
  BY <1>1
<1>4. command_timestamps' = command_timestamps \union {s}
  BY <1>1, <1>3 DEF command_timestamps
<1>5. Filled = {s}
  BY <1>1, <1>3 DEF command_timestamps, Filled
<1> QED
  BY <1>1, <1>2, <1>4, <1>5

\* Every step of the breaker preserves the inductive invariant.
LEMMA BreakerInductive == BreakerInv /\ [Next]_vars => BreakerInv'
<1> SUFFICES ASSUME BreakerInv, [Next]_vars PROVE BreakerInv'
  OBVIOUS
<1>0. CBTypeOK /\ granted \subseteq Slots
  BY DEF BreakerInv, TypeOK
<1>a. command_timestamps \subseteq Slots
  BY DEF command_timestamps
<1> USE BreakerAssumption DEF BreakerAssumption
<1>1. CASE Grant
  <2>1. PICK s \in Slots \ command_timestamps :
          /\ Filled = {s}
          /\ command_timestamps' = command_timestamps \union {s}
    BY <1>0, <1>1, AppendFillsOne DEF Grant, record_granted
  <2>2. TypeOK'
    BY <1>0, <1>1, <2>1, AppendFillsOne
       DEF Grant, record_granted, TypeOK, CBTypeOK
  <2>3. Cardinality(command_timestamps') <= max_commands
    <3>1. Cardinality(command_timestamps) + 1 <= max_commands
      BY <1>1, <1>a, SlotSets DEF Grant, record_granted, WindowFull
    <3>2. Cardinality(command_timestamps \union {s}) = Cardinality(command_timestamps) + 1
      BY <2>1, <1>a, SlotSets, FS_AddElement
    <3> QED
      BY <2>1, <3>1, <3>2
  <2>4. GrantBound'
    <3>1. /\ Cardinality((granted \intersect command_timestamps)') \in Nat
          /\ Cardinality((granted \intersect command_timestamps)')
               <= Cardinality(command_timestamps')
          /\ Cardinality(command_timestamps') \in Nat
      <4>1. command_timestamps' \in SUBSET Slots
        BY <2>1, <1>a
      <4>2. (granted \intersect command_timestamps)' \in SUBSET (command_timestamps')
        OBVIOUS
      <4> QED
        BY <4>1, <4>2, SlotSets
    <3> QED
      BY <3>1, <2>3 DEF GrantBound
  <2>5. cb_state' = "CLOSED"
    BY <1>1 DEF Grant, record_granted
  <2> QED
    BY <2>2, <2>3, <2>4, <2>5 DEF BreakerInv
<1>2. CASE Trip
  <2>1. PICK s \in Slots \ command_timestamps :
          /\ Filled = {s}
          /\ command_timestamps' = command_timestamps \union {s}
    BY <1>0, <1>2, AppendFillsOne DEF Trip, record_tripping
  <2>2. TypeOK'
    BY <1>0, <1>2, <2>1, AppendFillsOne
       DEF Trip, record_tripping, trip, TypeOK, CBTypeOK
  <2>3. GrantBound'
    <3>1. Cardinality(command_timestamps) <= max_commands
      BY <1>2, RoomForOne DEF Trip, record_tripping
    <3>2. (granted \intersect command_timestamps)' \in SUBSET command_timestamps
      BY <1>2, <2>1 DEF Trip
    <3>3. /\ Cardinality((granted \intersect command_timestamps)') \in Nat
          /\ Cardinality((granted \intersect command_timestamps)')
               <= Cardinality(command_timestamps)
          /\ Cardinality(command_timestamps) \in Nat
      BY <3>2, <1>a, SlotSets
    <3> QED
      BY <3>1, <3>3 DEF GrantBound
  <2>4. cb_state' = "OPEN" /\ trip_age' = 0
    BY <1>2 DEF Trip, record_tripping, trip
  <2> QED
    BY <2>2, <2>3, <2>4 DEF BreakerInv, TypeOK, CBTypeOK
<1>3. CASE Refuse \/ UNCHANGED vars
  BY <1>3 DEF Refuse, record_refused, vars, cb_vars, BreakerInv, TypeOK,
              CBTypeOK, GrantBound, command_timestamps
<1>4. CASE can_execute /\ UNCHANGED granted
  <2>1. command_timestamps' = command_timestamps
    BY <1>4 DEF can_execute, command_timestamps
  <2>2. cb_state = "OPEN" => command_timestamps = {}
    BY <1>4, CooledDownIsEmpty DEF can_execute
  <2>3. Cardinality(command_timestamps) <= max_commands
    BY <1>4, RoomForOne DEF can_execute
  <2>4. cb_state' # "OPEN" /\ TypeOK'
    BY <1>0, <1>4 DEF can_execute, TypeOK, CBTypeOK
  <2>5. cb_state' = "HALF_OPEN" => command_timestamps' = {}
    BY <1>4, <2>1, <2>2 DEF can_execute, BreakerInv
  <2>6. GrantBound'
    BY <1>4, <2>1 DEF GrantBound, BreakerInv
  <2> QED
    BY <2>1, <2>3, <2>4, <2>5, <2>6 DEF BreakerInv
<1>5. CASE manual_trip /\ UNCHANGED granted
  <2>1. command_timestamps' = command_timestamps
    BY <1>5 DEF manual_trip, command_timestamps
  <2>2. cb_state' = "OPEN" /\ trip_age' = 0 /\ TypeOK'
    BY <1>0, <1>5 DEF manual_trip, trip, TypeOK, CBTypeOK
  <2>3. GrantBound'
    BY <1>5, <2>1 DEF GrantBound, BreakerInv
  <2> QED
    BY <2>2, <2>3 DEF BreakerInv, TypeOK, CBTypeOK
<1>6. CASE reset /\ granted' = {}
  <2>1. command_timestamps' = {}
    BY <1>6 DEF reset, command_timestamps, Pruned
  <2>2. TypeOK' /\ cb_state' = "CLOSED"
    BY <1>6 DEF reset, TypeOK, CBTypeOK, Pruned
  <2>3. Cardinality({}) = 0
    BY FS_EmptySet
  <2>4. Cardinality(command_timestamps') <= max_commands
    BY <2>1, <2>3
  <2>5. GrantBound'
    <3>1. (granted \intersect command_timestamps)' = {}
      BY <2>1
    <3>2. Cardinality((granted \intersect command_timestamps)') = 0
      BY <3>1, <2>3, Zenon
    <3> QED
      BY <3>2 DEF GrantBound
  <2> QED
    BY <2>1, <2>2, <2>4, <2>5 DEF BreakerInv
<1>7. CASE Tick
  <2>1. TypeOK'
    BY <1>0, <1>7 DEF Tick, CBTick, TypeOK, CBTypeOK, Pruned
  <2>2. command_timestamps' \subseteq command_timestamps
    BY <1>0, <1>7 DEF Tick, CBTick, CBTypeOK, command_timestamps, Pruned
  <2>3. \A s \in Slots : stamp_age[s] >= trip_age \/ stamp_age[s] = Pruned
          => stamp_age'[s] >= trip_age' \/ stamp_age'[s] = Pruned
    BY <1>0, <1>7 DEF Tick, CBTick, CBTypeOK, Pruned
  <2>4. /\ Cardinality(command_timestamps') \in Nat
        /\ Cardinality(command_timestamps') <= Cardinality(command_timestamps)
        /\ Cardinality(command_timestamps) \in Nat
    BY <1>a, <2>2, SlotSets
  <2>5. GrantBound'
    <3>1. (granted \intersect command_timestamps)' \subseteq granted \intersect command_timestamps
      BY <1>7, <2>2 DEF Tick
    <3>2. /\ Cardinality((granted \intersect command_timestamps)') \in Nat
          /\ Cardinality((granted \intersect command_timestamps)')
               <= Cardinality(granted \intersect command_timestamps)
          /\ Cardinality(granted \intersect command_timestamps) \in Nat
      BY <1>0, <3>1, SlotSets
    <3> QED
      BY <3>2 DEF GrantBound, BreakerInv
  <2>6. cb_state' = cb_state
    BY <1>7 DEF Tick, CBTick
  <2> QED
    BY <2>1, <2>2, <2>3, <2>4, <2>5, <2>6 DEF BreakerInv, Pruned
<1> QED
  BY <1>1, <1>2, <1>3, <1>4, <1>5, <1>6, <1>7 DEF Next, Call, Tick

\* The inductive invariant holds in every reachable state.
THEOREM BreakerInvariant == Spec => []BreakerInv
<1>1. Init => BreakerInv
  <2> SUFFICES ASSUME Init PROVE BreakerInv
    OBVIOUS
  <2> USE BreakerAssumption DEF BreakerAssumption
  <2>1. command_timestamps = {} /\ granted = {}
    BY DEF Init, CBInit, command_timestamps, Pruned
  <2>2. Cardinality({}) = 0
    BY FS_EmptySet
  <2>3. GrantBound
    <3>1. granted \intersect command_timestamps = {}
      BY <2>1
    <3>2. Cardinality(granted \intersect command_timestamps) = 0
      BY <3>1, <2>2, Zenon
    <3> QED
      BY <3>2 DEF GrantBound
  <2> QED
    BY <2>1, <2>2, <2>3 DEF Init, CBInit, BreakerInv, TypeOK, CBTypeOK, Pruned
<1> QED
  BY <1>1, BreakerInductive, PTL DEF Spec

\* circuit_breaker.py keeps its fields in their ranges.
THEOREM BreakerTypeCorrect == Spec => []TypeOK
<1>1. BreakerInv => TypeOK
  BY DEF BreakerInv
<1> QED
  BY <1>1, BreakerInvariant, PTL

\* At most max_commands commands pass record_command() in any window.
THEOREM RateIsLimited == Spec => []GrantBound
<1>1. BreakerInv => GrantBound
  BY DEF BreakerInv
<1> QED
  BY <1>1, BreakerInvariant, PTL

\* A half-open trial starts with an empty window, and record_command() always
\* finds a free slot: the list of timestamps is bounded.
THEOREM TrialHasRoom == Spec => []TrialStartsEmpty
<1>1. BreakerInv => TrialStartsEmpty
  <2> SUFFICES ASSUME BreakerInv, Executable PROVE command_timestamps # Slots
    BY DEF TrialStartsEmpty, BreakerInv
  <2>1. Cardinality(command_timestamps) <= max_commands
    BY RoomForOne
  <2> QED
    BY <2>1, SlotsFinite, BreakerAssumption DEF BreakerAssumption
<1> QED
  BY <1>1, BreakerInvariant, PTL
=============================================================================
