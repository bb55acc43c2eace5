----------------------------- MODULE PortLease ------------------------------
(***************************************************************************)
(* What the defence promises of each switch port, without FSM, breaker,    *)
(* holds or messages.  A port is open, limited or cut.  An alert may       *)
(* tighten it, never a guarded one; every tightening is a lease that       *)
(* further alerts renew.  The defence itself never loosens a port before   *)
(* its lease has run out, and never turns a cut port into a limited one;   *)
(* an operator may set the mode of the port that his command names.        *)
(***************************************************************************)
EXTENDS Topology

CONSTANTS
  guarded,        \* ports the defence never touches
  CutLease,       \* quiet time after which a cut port is opened
  LimitLease      \* quiet time after which a limited port is opened

VARIABLES
  mode,           \* [Ports -> {"open", "limited", "cut"}]
  quiet,          \* [Ports -> time since the last alert acted on]
  command         \* ports that an operator's command in hand names

lease_vars == <<mode, quiet, command>>

Init ==
  /\ mode = [p \in Ports |-> "open"]
  /\ quiet \in [Ports -> Nat]
  /\ command = {}

AlertOn(p) ==
  /\ command = {}
  /\ p \notin guarded
  /\ \/ UNCHANGED mode
     \/ mode[p] = "open" /\ mode' = [mode EXCEPT ![p] = "limited"]
     \/ mode' = [mode EXCEPT ![p] = "cut"]
  /\ quiet' = [quiet EXCEPT ![p] = 0]
  /\ UNCHANGED command

Lapsed(p) ==
  \/ mode[p] = "cut" /\ quiet[p] >= CutLease
  \/ mode[p] = "limited" /\ quiet[p] >= LimitLease

\* Ports whose lease has lapsed are opened; a command may come in.
Expire ==
  /\ command = {}
  /\ \E S \in SUBSET {p \in Ports : Lapsed(p)} :
       mode' = [p \in Ports |-> IF p \in S THEN "open" ELSE mode[p]]
  /\ command' \in {{}} \union {{p} : p \in Ports}
  /\ UNCHANGED quiet

\* Only the port that was named, and only once.
Operator(p) ==
  /\ command = {p}
  /\ \E m \in {"open", "limited", "cut"} : mode' = [mode EXCEPT ![p] = m]
  /\ command' = {}
  /\ UNCHANGED quiet

\* Time passes; how far is left open.
Pass ==
  /\ command = {}
  /\ quiet' \in [Ports -> Nat]
  /\ \A p \in Ports : quiet'[p] >= quiet[p]
  /\ UNCHANGED <<mode, command>>

Next ==
  \/ \E p \in Ports : AlertOn(p) \/ Operator(p)
  \/ Expire
  \/ Pass

Spec == Init /\ [][Next]_lease_vars
=============================================================================
