-------------------------- MODULE ServerConnAgent ---------------------------
(***************************************************************************)
(* The agent on the server: once a tick it lists the open connections and  *)
(* counts, by client, those that have kept the server waiting.  The age of *)
(* a connection is the time since the agent first saw its client's address *)
(* and port, which a client may use again.                                 *)
(***************************************************************************)
EXTENDS Naturals, FiniteSets

CONSTANTS
  Keys,               \* (client, port) of connections of one client
  slow_age, pending_age

ASSUME ConnAssumption == slow_age \in Nat /\ pending_age \in Nat

VARIABLES
  conns,              \* conns[k]: the connection, or Closed
  first_seen,         \* first_seen[k]: ticks since, or Unseen
  polled,             \* the tick's poll is done
  counted,            \* the last report: the slow and the unfinished
  reused,             \* keys closed since the last poll, or used again before it
  missed              \* keys whose connection was open when a listing failed

conn_vars == <<conns, first_seen, polled, counted, reused, missed>>

Unseen == slow_age + 2
Closed == [open |-> FALSE, age |-> 0, bytes |-> "none", answered |-> FALSE]
Older(age) == IF age <= slow_age THEN age + 1 ELSE age

ConnInit ==
  /\ conns = [k \in Keys |-> Closed]
  /\ first_seen = [k \in Keys |-> Unseen]
  /\ polled = FALSE
  /\ counted = [slow |-> {}, pending |-> {}]
  /\ reused = {}
  /\ missed = {}

Open(k) ==
  /\ ~conns[k].open
  /\ conns' = [conns EXCEPT ![k] = [Closed EXCEPT !.open = TRUE]]
  /\ UNCHANGED <<first_seen, polled, counted, reused, missed>>

\* The client's bytes come: few for its age, or at a good rate.
Receive(k) ==
  /\ conns[k].open
  /\ \E bytes \in {"few", "many"} : conns' = [conns EXCEPT ![k].bytes = bytes]
  /\ UNCHANGED <<first_seen, polled, counted, reused, missed>>

Respond(k) ==
  /\ conns[k].open
  /\ conns' = [conns EXCEPT ![k].answered = TRUE]
  /\ UNCHANGED <<first_seen, polled, counted, reused, missed>>

Close(k) ==
  /\ conns[k].open
  /\ conns' = [conns EXCEPT ![k] = Closed]
  /\ missed' = missed \ {k}
  /\ reused' = reused \union {k}
  /\ UNCHANGED <<first_seen, polled, counted>>

Waiting(k) == conns[k].open /\ ~conns[k].answered /\ conns[k].bytes # "many"

\* Mutant: a connection that has ended is remembered.
MutSeen(listed) ==
  [k \in Keys |-> IF k \in listed /\ first_seen[k] = Unseen THEN 0 ELSE first_seen[k]]

\* first_seen after a listing, which forgets what is not in it.
Seen(listed) ==
  [k \in Keys |-> IF k \notin listed THEN Unseen
                  ELSE IF first_seen[k] = Unseen THEN 0 ELSE first_seen[k]]

\* ConnTracker.update with the connections ss lists, and build_message of what
\* it counted.  The exit status of ss is not looked at: when it fails it has
\* listed nothing, and every age starts again.
Poll ==
  /\ ~polled
  /\ polled' = TRUE
  /\ LET open == {k \in Keys : conns[k].open}
     IN \E listed \in {open, {}} :
          LET since == Seen(listed)
              waiting == {k \in listed : Waiting(k)}
          IN /\ first_seen' = since
             /\ counted' = [slow |-> {k \in waiting : since[k] >= slow_age},
                            pending |-> {k \in waiting : /\ conns[k].bytes # "none"
                                                         /\ since[k] >= pending_age}]
             /\ reused' = {k \in reused \intersect listed : since[k] > 0}
             /\ missed' = IF listed = open THEN missed ELSE open
  /\ UNCHANGED conns

ConnTick ==
  /\ polled
  /\ polled' = FALSE
  /\ conns' = [k \in Keys |-> IF conns[k].open THEN [conns[k] EXCEPT !.age = Older(@)]
                              ELSE Closed]
  /\ first_seen' = [k \in Keys |-> IF first_seen[k] = Unseen THEN Unseen
                                   ELSE IF first_seen[k] < slow_age
                                   THEN first_seen[k] + 1 ELSE slow_age]
  /\ UNCHANGED <<counted, reused, missed>>

ConnNext ==
  \/ \E k \in Keys : Open(k) \/ Receive(k) \/ Respond(k) \/ Close(k)
  \/ Poll
  \/ ConnTick
=============================================================================
