---------------------------- MODULE ProbeTracker ----------------------------
(***************************************************************************)
(* The health of the service: pings of a number each, from S1 to the       *)
(* server, whose answers are late, twice, out of order or never there, and *)
(* a report of the losses every other round of the monitor loop.  One tick *)
(* is one such round, with at most one ping sent in it.                    *)
(***************************************************************************)
EXTENDS Naturals, FiniteSets

CONSTANTS
  Seqs,               \* ping numbers wrap: 0xFFFF of them, at least 1..Seqs
  timeout,            \* SERVICE_PROBE_TIMEOUT_SEC
  MaxDelay            \* bound: an answer is under way no longer than this

\* A number comes round again only after its last answer has ended and its
\* last ping has been reported.
ASSUME ProbeAssumption ==
  /\ timeout \in Nat \ {0}
  /\ MaxDelay \in Nat
  /\ Seqs \in Nat /\ Seqs > MaxDelay /\ Seqs > timeout + 1

VARIABLES
  seq,                \* the number last used
  sent,               \* sent[n]: ticks since ping n was sent, or NotSent
  rtt_ms,             \* the pings answered in time
  round,              \* _monitor_loop: tick % port_every, and whether it has run
  report,             \* the last summary
  answers,            \* on the wire: numbers of answers and the age of their pings
  pings               \* every ping sent and not settled: its number, its age and
                      \* whether its answer came

probe_vars == <<seq, sent, rtt_ms, round, report, answers, pings>>

NotSent == MaxDelay + timeout + 3
Empty == [sent |-> 0, received |-> 0]

ProbeInit ==
  /\ seq = 0
  /\ sent = [n \in 1..Seqs |-> NotSent]
  /\ rtt_ms = {}
  /\ round = [tick |-> 0, due |-> FALSE, pinged |-> FALSE]
  /\ report = [said |-> Empty, true |-> Empty]
  /\ answers = {}
  /\ pings = {}

\* _send_probe with next_seq, while S1 is connected.  The answer may already
\* be lost.
send_probe ==
  /\ ~round.pinged
  /\ LET n == 1 + (seq % Seqs)
     IN /\ seq' = n
        /\ sent' = [sent EXCEPT ![n] = 0]
        /\ pings' = pings \union {[seq |-> n, age |-> 0, came |-> FALSE]}
        /\ answers' \in {answers, answers \union {[seq |-> n, age |-> 0]}}
  /\ round' = [round EXCEPT !.pinged = TRUE]
  /\ UNCHANGED <<rtt_ms, report>>

\* Mutant: the time of the answer is not looked at.
MutInTime(n) == sent[n] # NotSent
InTime(n) == sent[n] <= timeout

\* _handle_probe_reply at S1 with reply: an answer arrives, once or with a
\* copy of it to come.
probe_reply ==
  \E a \in answers :
    /\ rtt_ms' = IF InTime(a.seq) THEN rtt_ms \union {a.seq} ELSE rtt_ms
    /\ pings' = {IF p.seq = a.seq /\ p.age = a.age /\ p.age <= timeout
                 THEN [p EXCEPT !.came = TRUE] ELSE p : p \in pings}
    /\ answers' \in {answers, answers \ {a}}
    /\ UNCHANGED <<seq, sent, round, report>>

\* _publish_service_health with summary, in every other round; what has
\* settled is forgotten.  `true' is what a perfect observer would have said.
publish_service_health ==
  /\ round.due
  /\ LET settled == {n \in 1..Seqs : sent[n] # NotSent /\ sent[n] >= timeout}
         over == {p \in pings : p.age >= timeout}
     IN /\ report' = IF settled = {} THEN report
                     ELSE [said |-> [sent |-> Cardinality(settled),
                                     received |-> Cardinality(settled \intersect rtt_ms)],
                           true |-> [sent |-> Cardinality(over),
                                     received |-> Cardinality({p \in over : p.came})]]
        /\ sent' = [n \in 1..Seqs |-> IF n \in settled THEN NotSent ELSE sent[n]]
        /\ rtt_ms' = rtt_ms \ settled
        /\ pings' = pings \ over
  /\ round' = [round EXCEPT !.due = FALSE]
  /\ UNCHANGED <<seq, answers>>

ProbeTick ==
  /\ ~round.due
  /\ round' = [tick |-> 1 - round.tick, due |-> round.tick = 1, pinged |-> FALSE]
  /\ sent' = [n \in 1..Seqs |-> IF sent[n] = NotSent THEN NotSent ELSE sent[n] + 1]
  /\ pings' = {[p EXCEPT !.age = @ + 1] : p \in pings}
  /\ answers' = {[a EXCEPT !.age = @ + 1] : a \in {a \in answers : a.age < MaxDelay}}
  /\ UNCHANGED <<seq, rtt_ms, report>>

ProbeNext == send_probe \/ probe_reply \/ publish_service_health \/ ProbeTick
=============================================================================
