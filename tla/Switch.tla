------------------------------- MODULE Switch -------------------------------
(***************************************************************************)
(* An OpenFlow 1.3 switch as the controller uses it: an ordered channel of *)
(* messages, three tables of rules (what table 0 counts it passes on), and *)
(* packets that the rules forward.  A packet and a match are sets of       *)
(* fields; a rule applies to the packets that have all of its fields.      *)
(***************************************************************************)
EXTENDS Naturals, Sequences

CONSTANT Switches

VARIABLES
  table,              \* table[s]: the rules of switch s
  channel,            \* channel[s]: messages sent to s and not yet processed
  up                  \* the switches in the controller's datapaths

switch_vars == <<table, channel, up>>

Rule(t, priority, match, to, port) ==
  [table |-> t, priority |-> priority, match |-> match, to |-> to, port |-> port]

add_flow(rule) == [op |-> "add", rule |-> rule]
delete_flow(t, match) == [op |-> "delete", table |-> t, match |-> match]
delete_meter(port) == [op |-> "delete_meter", port |-> port]
packet_out(port) == [op |-> "packet", port |-> port]

\* Messages to a switch that is away are not sent.
Sent(messages) ==
  [s \in Switches |-> IF s \in up THEN channel[s] \o messages[s] ELSE channel[s]]
To(s, messages) == [d \in Switches |-> IF d = s THEN messages ELSE <<>>]

\* Mutant: deletion that does not look at the match.
MutDeleted(rules, t, match) == {r \in rules : r.table # t \/ r.priority = 0}

\* OFPFC_DELETE is not strict: the priority does not matter, and every rule
\* with at least the fields of the match goes.
Deleted(rules, t, match) == {r \in rules : r.table # t \/ ~(match \subseteq r.match)}

\* A rule replaces the one of the same table, priority and match; a meter that
\* goes takes the rules that use it along; a packet changes no rule.
Processed(rules, m) ==
  CASE m.op = "add" ->
         {r \in rules : \/ r.table # m.rule.table
                        \/ r.priority # m.rule.priority
                        \/ r.match # m.rule.match} \union {m.rule}
    [] m.op = "delete" -> Deleted(rules, m.table, m.match)
    [] m.op = "delete_meter" -> {r \in rules : ~(r.to = "meter" /\ r.port = m.port)}
    [] m.op = "packet" -> rules

NoMatch(t) == Rule(t, 0, {}, "drop", 0)

\* The rule of table t that a packet meets: the matching one of the highest
\* priority, and a drop where there is none.
Met(rules, t, packet) ==
  LET hits == {r \in rules : r.table = t /\ r.match \subseteq packet}
  IN IF hits = {} THEN NoMatch(t)
     ELSE CHOOSE r \in hits : \A q \in hits : q.priority <= r.priority

\* What the pipeline may do with a packet: drop it, report it to the
\* controller, or put it out at a port.  A meter drops what exceeds its rate.
Verdicts(rules, packet) ==
  LET policy == Met(rules, "policy", packet)
      police == Met(rules, "police", packet)
  IN IF policy.to = "drop" THEN {NoMatch("policy")}
     ELSE (IF police.to = "meter" THEN {NoMatch("police")} ELSE {})
          \union {Met(rules, "forward", packet)}
=============================================================================
