---------------------------- MODULE SensingProofs ----------------------------
(***************************************************************************)
(* Proofs about Sensing: that the figures of each source are those of what *)
(* happened, and that the worker alerts what it must and only that, for    *)
(* every value of the thresholds, windows and baselines.                   *)
(*                                                                         *)
(* The four machines share no variable.  Each has an invariant of its own, *)
(* which its own steps keep and the steps of the others leave alone.       *)
(***************************************************************************)
EXTENDS Sensing, FiniteSetTheorems, TLAPS

-----------------------------------------------------------------------------
(***************************************************************************)
(* The invariants.                                                         *)
(***************************************************************************)

\* The port statistics.  What came since the last report is at least what the
\* counter has gained on it, however often it began again, and the streak of
\* floods never runs ahead of the floods there were.
PortInv ==
  /\ counter \in [packets : 0..MaxCount, bytes : Nat]
  /\ elapsed \in Nat
  /\ streaks \in [flood : Nat, small : Nat]
  /\ seen \in Int
  /\ real \in [came : Nat, floods : Nat]
  /\ \/ prev = NoReading
     \/ prev = [packets |-> Absurd, bytes |-> Absurd]
     \/ /\ prev \in [packets : 0..MaxCount, bytes : Nat]
        /\ counter.packets <= prev.packets + real.came
  /\ streaks.flood <= real.floods
  /\ alert = "SYN_FLOOD" => streaks.flood >= detect_consecutive

\* The agent on the server.
ConnInv ==
  /\ conns \in [Keys -> [open : BOOLEAN, age : 0..(slow_age + 1),
                         bytes : {"none", "few", "many"}, answered : BOOLEAN]]
  /\ first_seen \in [Keys -> 0..slow_age \union {Unseen}]
  /\ polled \in BOOLEAN
  /\ reused \subseteq Keys
  /\ missed \subseteq Keys
  /\ \A k \in Keys :
       /\ ~conns[k].open => conns[k] = Closed
       /\ conns[k].open /\ k \notin missed =>
            IF first_seen[k] = Unseen THEN conns[k].age <= (IF polled THEN 0 ELSE 1)
            ELSE conns[k].age <= first_seen[k] + 1
       /\ first_seen[k] # Unseen /\ k \notin reused =>
            conns[k].open /\ first_seen[k] <= conns[k].age

\* The probe.  What the tracker remembers of a number is all there is to know
\* of the one ping of that number that is not settled.
Pending == {n \in 1..Seqs : sent[n] # NotSent}
PingOf(n) == [seq |-> n, age |-> sent[n], came |-> n \in rtt_ms]

\* How many pings ago number n was used, if it was.
Ago(n) == IF n <= seq THEN seq - n ELSE seq + Seqs - n
Since(n) == IF round.pinged THEN Ago(n) ELSE Ago(n) + 1

\* The age a ping can reach before it is reported.
Oldest == IF round.due THEN timeout + 1
          ELSE IF round.tick = 1 THEN timeout ELSE timeout - 1

ProbeInv ==
  /\ seq \in 0..Seqs
  /\ sent \in [1..Seqs -> Nat]
  /\ rtt_ms \subseteq Pending
  /\ round \in [tick : {0, 1}, due : BOOLEAN, pinged : BOOLEAN]
  /\ round.due => round.tick = 0
  /\ answers \subseteq [seq : 1..Seqs, age : 0..MaxDelay]
  /\ pings = {PingOf(n) : n \in Pending}
  /\ \A n \in Pending : sent[n] >= Since(n) /\ sent[n] <= Oldest
  /\ \A a \in answers : /\ a.age >= Since(a.seq)
                        /\ sent[a.seq] \in {NotSent, a.age}
  /\ report.said = report.true

\* The worker's memory of a port.  What the window and the cusum hold is read by
\* no property.
IsPort(s) ==
  /\ s = [prev |-> s.prev, mean |-> s.mean, cusum |-> s.cusum, streaks |-> s.streaks,
          window |-> s.window, stage |-> s.stage, normal_for |-> s.normal_for,
          relearn |-> s.relearn]
  /\ s.prev \in -1..MaxGap
  /\ s.mean \in [WATCHED_INDICATORS -> Int]
  /\ s.streaks \in [Threats -> Nat]
  /\ s.normal_for \in Nat
  /\ s.relearn \in Nat \union {NoRelearn}

WorkerTyped ==
  /\ st = [p \in Ports |-> st[p]]
  /\ \A p \in Ports : IsPort(st[p])
  /\ last_decisions = [p \in Ports |-> last_decisions[p]]
  /\ matched \in [Ports -> SUBSET Threats]
  /\ flooded \in [Ports -> Nat]
  /\ alerted \in [Ports -> 0..learn_resume_sec]

\* A mean between what was learned beforehand and cap_multiplier times that.
Bounded(p, ind, m) == m \in Limits(p, ind)

\* What is remembered of one port, against the history of it: its means, the
\* streaks that are under way, the floods, and the quiet since the last alert.
PortBounded(p, s) ==
  \A ind \in WATCHED_INDICATORS :
    (ind \in Volumes => s.relearn = NoRelearn) => Bounded(p, ind, s.mean[ind])
PortMatched(s, threats) == \A t \in Threats : s.streaks[t] > 0 => t \in threats
PortQuiet(s, since) ==
  since < learn_resume_sec => s.normal_for <= since /\ s.normal_for + s.prev <= since

WorkerInv ==
  /\ WorkerTyped
  /\ \A p \in Ports :
       /\ PortBounded(p, st[p])
       /\ PortMatched(st[p], matched[p])
       /\ flooded[p] <= st[p].streaks["UDP_FLOOD"]
       /\ flooded[p] >= confirm_intervals => Alerting(p)
       /\ PortQuiet(st[p], alerted[p])


-----------------------------------------------------------------------------
(***************************************************************************)
(* The port statistics.                                                    *)
(***************************************************************************)

\* A tick: what the counter gains has come.
LEMMA PortTickKeeps == PortInv /\ PortTick => PortInv'
<1> SUFFICES ASSUME PortInv, PortTick PROVE PortInv'
  OBVIOUS
<1> USE FeatureAssumption
<1>1. PICK n \in 0..min_pps, size \in {1, Large} :
        /\ counter.packets + n <= MaxCount
        /\ counter' = [packets |-> counter.packets + n, bytes |-> counter.bytes + n * size]
        /\ real' = [real EXCEPT !.came = @ + n]
  BY DEF PortTick
<1>2. n \in Nat /\ n * size \in Nat
  BY SMT, <1>1 DEF Large
<1>3. counter' \in [packets : 0..MaxCount, bytes : Nat]
      /\ counter'.packets = counter.packets + n /\ counter.packets \in Nat
  BY <1>1, <1>2 DEF PortInv
<1>4. real.came \in Nat /\ real' \in [came : Nat, floods : Nat] /\ real'.came = real.came + n
      /\ real'.floods = real.floods
  BY <1>1, <1>2 DEF PortInv
<1>5. prev' = prev /\ streaks' = streaks /\ seen' = seen /\ alert' = alert
      /\ elapsed' = elapsed + 1
  BY DEF PortTick
<1>6. \/ prev = NoReading
      \/ prev = [packets |-> Absurd, bytes |-> Absurd]
      \/ /\ prev \in [packets : 0..MaxCount, bytes : Nat]
         /\ counter'.packets <= prev.packets + real'.came
  <2>1. \/ prev = NoReading
        \/ prev = [packets |-> Absurd, bytes |-> Absurd]
        \/ /\ prev \in [packets : 0..MaxCount, bytes : Nat]
           /\ counter.packets <= prev.packets + real.came
    BY DEF PortInv
  <2>2. prev \in [packets : 0..MaxCount, bytes : Nat] => prev.packets \in Nat
    OBVIOUS
  <2> QED
    BY <2>1, <2>2, <1>2, <1>3, <1>4
<1> QED
  BY <1>3, <1>4, <1>5, <1>6 DEF PortInv

\* A switch that begins again leaves the counter below any reading of it.
LEMMA RestartKeeps == PortInv /\ SwitchRestarts => PortInv'
BY FeatureAssumption DEF PortInv, SwitchRestarts, Zero

\* What a report compares is backed by packets: a difference that is not
\* dropped is one of the counter with itself, or none at all.
LEMMA DifferenceIsReal ==
  ASSUME PortInv, NEW reading \in {counter, [packets |-> Absurd, bytes |-> Absurd]},
         prev # NoReading, NEW d, d.packets = reading.packets - prev.packets,
         Comparable(d, elapsed)
  PROVE  d.packets \in Nat /\ d.packets <= real.came
<1> USE FeatureAssumption
<1>1. d.packets \in 0..max_delta
  BY DEF Comparable
<1>2. CASE prev = [packets |-> Absurd, bytes |-> Absurd]
  BY <1>1, <1>2 DEF PortInv
<1>3. CASE prev # [packets |-> Absurd, bytes |-> Absurd]
  <2>1. prev \in [packets : 0..MaxCount, bytes : Nat]
        /\ counter.packets <= prev.packets + real.came
    BY <1>3 DEF PortInv
  <2>2. reading = counter
    BY <1>1, <2>1
  <2> QED
    BY <1>1, <2>1, <2>2 DEF PortInv
<1> QED
  BY <1>2, <1>3

\* A report: the streak grows only with a difference that is a flood, and then
\* so many packets came.
LEMMA PortReportKeeps == PortInv /\ PortReport => PortInv'
<1> SUFFICES ASSUME PortInv, PortReport PROVE PortInv'
  OBVIOUS
<1> USE FeatureAssumption
<1> PICK reading \in {counter, [packets |-> Absurd, bytes |-> Absurd]} :
      PortReport!(reading)
  BY DEF PortReport
<1> DEFINE d == [packets |-> reading.packets - prev.packets,
                 bytes |-> reading.bytes - prev.bytes]
           compared == prev # NoReading /\ Comparable(d, elapsed)
<1>1. /\ prev' = reading /\ elapsed' = 0 /\ counter' = counter
      /\ IF compared THEN Observe(d, elapsed)
         ELSE alert' = "none" /\ streaks' = streaks /\ seen' = seen
      /\ real' = [came |-> 0,
                  floods |-> IF ~compared THEN real.floods
                             ELSE IF real.came >= min_pps * elapsed
                             THEN Longer(real.floods) ELSE 0]
  OBVIOUS
<1>2. \A n \in Nat : Longer(n) \in Nat
  BY DEF Longer
<1>3. real' \in [came : Nat, floods : Nat] /\ elapsed' \in Nat
      /\ counter' \in [packets : 0..MaxCount, bytes : Nat]
  BY <1>1, <1>2 DEF PortInv
<1>4. \/ prev' = [packets |-> Absurd, bytes |-> Absurd]
      \/ /\ prev' \in [packets : 0..MaxCount, bytes : Nat]
         /\ counter'.packets <= prev'.packets + real'.came
  BY <1>1 DEF PortInv
<1>5. /\ streaks' \in [flood : Nat, small : Nat] /\ seen' \in Int
      /\ streaks'.flood <= real'.floods
      /\ alert' = "SYN_FLOOD" => streaks'.flood >= detect_consecutive
  <2>1. CASE ~compared
    BY <1>1, <2>1 DEF PortInv
  <2>2. CASE compared
    <3>1. PICK anomalous \in BOOLEAN, rising \in BOOLEAN :
            /\ streaks' = [flood |-> FloodStreak(d, elapsed, anomalous),
                           small |-> SmallStreak(d, elapsed, rising)]
            /\ seen' = WarmedUp
            /\ alert' = CASE FloodStreak(d, elapsed, anomalous) >= detect_consecutive -> "SYN_FLOOD"
                          [] FloodStreak(d, elapsed, anomalous) < detect_consecutive
                             /\ SmallStreak(d, elapsed, rising) >= sustained_ticks -> "SLOW_DDOS"
                          [] OTHER -> IF SmallStreak(d, elapsed, rising) >= detect_consecutive
                                      THEN "PORT_SCAN" ELSE "none"
      BY <1>1, <2>2 DEF Observe
    <3>2. FloodStreak(d, elapsed, anomalous) \in Nat
          /\ SmallStreak(d, elapsed, rising) \in Nat
      BY <1>2 DEF FloodStreak, SmallStreak, PortInv
    <3>3. seen' \in Int
      BY <3>1 DEF WarmedUp, PortInv
    <3>4. FloodStreak(d, elapsed, anomalous) <= real'.floods
      <4>1. CASE ~Flooding(d, elapsed)
        BY <4>1, <1>3 DEF FloodStreak
      <4>2. CASE Flooding(d, elapsed)
        <5>1. d.packets \in Nat /\ d.packets <= real.came
          BY <2>2, DifferenceIsReal
        <5>2. min_pps * elapsed \in Nat
          BY DEF PortInv
        <5>3. real.came >= min_pps * elapsed
          BY <5>1, <5>2, <4>2 DEF Flooding, PortInv
        <5>4. real'.floods = Longer(real.floods)
          BY <5>3, <1>1, <2>2
        <5>5. FloodStreak(d, elapsed, anomalous) <= Longer(streaks.flood)
          BY <1>2 DEF FloodStreak, PortInv
        <5>6. Longer(streaks.flood) <= Longer(real.floods)
          BY DEF Longer, PortInv
        <5> QED
          BY <5>4, <5>5, <5>6, <1>2, <3>2 DEF PortInv
      <4> QED
        BY <4>1, <4>2
    <3> QED
      BY <3>1, <3>2, <3>3, <3>4
  <2> QED
    BY <2>1, <2>2
<1> QED
  BY <1>3, <1>4, <1>5 DEF PortInv

\* The port's invariant holds at the start and in every step.
LEMMA PortStarts == PortInit => PortInv
BY FeatureAssumption DEF PortInit, PortInv, Zero, NoReading

\* A step of the port statistics, or of nothing of them, keeps their invariant.
LEMMA PortKeeps == PortInv /\ [PortNext]_port_vars => PortInv'
<1>1. PortInv /\ UNCHANGED port_vars => PortInv'
  BY DEF PortInv, port_vars
<1> QED
  BY <1>1, PortTickKeeps, RestartKeeps, PortReportKeeps DEF PortNext

-----------------------------------------------------------------------------
(***************************************************************************)
(* The agent on the server.                                                *)
(***************************************************************************)

\* What is known of one key: types, and the age of its connection against the
\* age the agent remembers for it.
KeyInv(k) ==
  /\ ~conns[k].open => conns[k] = Closed
  /\ conns[k].open /\ k \notin missed =>
       IF first_seen[k] = Unseen THEN conns[k].age <= (IF polled THEN 0 ELSE 1)
       ELSE conns[k].age <= first_seen[k] + 1
  /\ first_seen[k] # Unseen /\ k \notin reused =>
       conns[k].open /\ first_seen[k] <= conns[k].age

\* A connection and what the agent remembers, as types.
Connections == [open : BOOLEAN, age : 0..(slow_age + 1),
                bytes : {"none", "few", "many"}, answered : BOOLEAN]
ConnTyped ==
  /\ conns \in [Keys -> Connections]
  /\ first_seen \in [Keys -> 0..slow_age \union {Unseen}]
  /\ polled \in BOOLEAN
  /\ reused \subseteq Keys
  /\ missed \subseteq Keys

\* The two together are the invariant, in this state and in the next.
LEMMA ConnParts ==
  /\ ConnInv <=> ConnTyped /\ \A k \in Keys : KeyInv(k)
  /\ ConnInv' <=> ConnTyped' /\ \A k \in Keys : KeyInv(k)'
BY DEF ConnInv, ConnTyped, KeyInv, Connections

\* What one client's packets do to one connection.
LEMMA ClientKeeps ==
  ASSUME ConnInv, NEW k \in Keys, Open(k) \/ Receive(k) \/ Respond(k) \/ Close(k)
  PROVE  ConnInv'
<1> USE ConnAssumption
<1>1. ConnTyped /\ \A j \in Keys : KeyInv(j)
  BY ConnParts
<1>2. /\ Closed \in Connections /\ [Closed EXCEPT !.open = TRUE] \in Connections
      /\ [Closed EXCEPT !.open = TRUE].open /\ [Closed EXCEPT !.open = TRUE].age = 0
  <2>1. 0 \in 0..(slow_age + 1)
    OBVIOUS
  <2>2. Closed \in Connections
    BY <2>1 DEF Closed, Connections
  <2> QED
    BY <2>2 DEF Closed, Connections
<1>3. conns[k] \in Connections
  BY <1>1 DEF ConnTyped
<1>4. CASE Open(k)
  <2>1. conns' = [conns EXCEPT ![k] = [Closed EXCEPT !.open = TRUE]]
        /\ first_seen' = first_seen /\ polled' = polled /\ reused' = reused
        /\ missed' = missed /\ ~conns[k].open
    BY <1>4 DEF Open
  <2>2. ConnTyped'
    BY <1>1, <1>2, <2>1 DEF ConnTyped
  <2>3. ASSUME NEW j \in Keys PROVE KeyInv(j)'
    <3>1. CASE j # k
      BY <1>1, <2>1, <3>1 DEF KeyInv, ConnTyped
    <3>2. CASE j = k
      <4>1. conns'[j].open /\ conns'[j].age = 0
        BY <3>2, <2>1, <1>1, <1>2 DEF ConnTyped
      <4>2. first_seen[j] # Unseen => j \in reused
        BY <1>1, <2>1, <3>2 DEF KeyInv
      <4>3. first_seen[j] # Unseen => first_seen[j] \in Nat
        BY <1>1 DEF ConnTyped
      <4> QED
        BY <4>1, <4>2, <4>3, <2>1 DEF KeyInv
    <3> QED
      BY <3>1, <3>2
  <2> QED
    BY <2>2, <2>3, ConnParts
<1>5. CASE Receive(k) \/ Respond(k)
  <2>1. PICK c \in Connections : /\ conns' = [conns EXCEPT ![k] = c]
                                 /\ c.open = conns[k].open /\ c.age = conns[k].age
                                 /\ conns[k].open
    <3>1. CASE Receive(k)
      <4>1. PICK b \in {"few", "many"} : conns' = [conns EXCEPT ![k].bytes = b]
        BY <3>1 DEF Receive
      <4>2. [conns[k] EXCEPT !.bytes = b] \in Connections
            /\ [conns[k] EXCEPT !.bytes = b].open = conns[k].open
            /\ [conns[k] EXCEPT !.bytes = b].age = conns[k].age
        BY <1>3, <4>1 DEF Connections
      <4>3. conns' = [conns EXCEPT ![k] = [conns[k] EXCEPT !.bytes = b]]
        BY <4>1
      <4> QED
        BY <4>2, <4>3, <3>1 DEF Receive
    <3>2. CASE Respond(k)
      <4>2. [conns[k] EXCEPT !.answered = TRUE] \in Connections
            /\ [conns[k] EXCEPT !.answered = TRUE].open = conns[k].open
            /\ [conns[k] EXCEPT !.answered = TRUE].age = conns[k].age
        BY <1>3 DEF Connections
      <4>3. conns' = [conns EXCEPT ![k] = [conns[k] EXCEPT !.answered = TRUE]]
        BY <3>2 DEF Respond
      <4> QED
        BY <4>2, <4>3, <3>2 DEF Respond
    <3> QED
      BY <3>1, <3>2, <1>5
  <2>2. first_seen' = first_seen /\ polled' = polled /\ reused' = reused /\ missed' = missed
    BY <1>5 DEF Receive, Respond
  <2>3. ConnTyped'
    BY <1>1, <2>1, <2>2 DEF ConnTyped
  <2>4. ASSUME NEW j \in Keys PROVE KeyInv(j)'
    <3>1. conns'[j] = IF j = k THEN c ELSE conns[j]
      BY <2>1, <1>1 DEF ConnTyped
    <3> QED
      BY <1>1, <2>1, <2>2, <3>1 DEF KeyInv
  <2> QED
    BY <2>3, <2>4, ConnParts
<1>6. CASE Close(k)
  <2>1. conns' = [conns EXCEPT ![k] = Closed] /\ missed' = missed \ {k}
        /\ reused' = reused \union {k} /\ first_seen' = first_seen /\ polled' = polled
    BY <1>6 DEF Close
  <2>2. ConnTyped'
    BY <1>1, <1>2, <2>1 DEF ConnTyped
  <2>3. ASSUME NEW j \in Keys PROVE KeyInv(j)'
    <3>1. conns'[j] = IF j = k THEN Closed ELSE conns[j]
      BY <2>1, <1>1 DEF ConnTyped
    <3>2. Closed.open = FALSE
      BY DEF Closed
    <3>3. CASE j = k
      BY <3>1, <3>2, <3>3, <2>1 DEF KeyInv
    <3>4. CASE j # k
      BY <3>1, <3>4, <2>1, <1>1 DEF KeyInv
    <3> QED
      BY <3>3, <3>4
  <2> QED
    BY <2>2, <2>3, ConnParts
<1> QED
  BY <1>4, <1>5, <1>6

\* What a listing remembers of a key: nothing of what it does not list, the
\* old age of what it knew, and of the rest that it is new.
LEMMA SeenIs ==
  ASSUME NEW listed, NEW k \in Keys
  PROVE  Seen(listed)[k] = IF k \notin listed THEN Unseen
                           ELSE IF first_seen[k] = Unseen THEN 0 ELSE first_seen[k]
BY DEF Seen

\* A poll, listing what is open or nothing.
LEMMA PollKeeps == ASSUME ConnInv, Poll PROVE ConnInv' /\ WaitingIsCounted
<1> USE ConnAssumption
<1>1. ConnTyped /\ \A j \in Keys : KeyInv(j)
  BY ConnParts
<1> DEFINE open == {k \in Keys : conns[k].open}
<1>2. PICK listed \in {open, {}} :
        LET since == Seen(listed)
            waiting == {k \in listed : Waiting(k)}
        IN /\ first_seen' = since
           /\ counted' = [slow |-> {k \in waiting : since[k] >= slow_age},
                          pending |-> {k \in waiting : /\ conns[k].bytes # "none"
                                                       /\ since[k] >= pending_age}]
           /\ reused' = {k \in reused \intersect listed : since[k] > 0}
           /\ missed' = IF listed = open THEN missed ELSE open
  BY DEF Poll
<1>3. polled' = TRUE /\ polled = FALSE /\ conns' = conns
  BY <1>1 DEF Poll, ConnTyped
<1>4. /\ first_seen' = Seen(listed)
      /\ reused' = {k \in reused \intersect listed : Seen(listed)[k] > 0}
      /\ missed' = IF listed = open THEN missed ELSE open
      /\ counted'.slow = {k \in {k \in listed : Waiting(k)} : Seen(listed)[k] >= slow_age}
      /\ counted'.pending = {k \in {k \in listed : Waiting(k)} :
                               conns[k].bytes # "none" /\ Seen(listed)[k] >= pending_age}
  BY <1>2
<1>5. ASSUME NEW k \in Keys
      PROVE  /\ first_seen'[k] = IF k \notin listed THEN Unseen
                                 ELSE IF first_seen[k] = Unseen THEN 0 ELSE first_seen[k]
             /\ first_seen'[k] \in 0..slow_age \union {Unseen}
             /\ k \in listed => conns[k].open
             /\ conns[k].open /\ k \notin listed => k \in missed'
             /\ k \in listed => (k \in missed' <=> k \in missed)
             /\ k \in reused' <=> k \in reused /\ k \in listed /\ first_seen'[k] > 0
  BY <1>1, <1>4, SeenIs DEF ConnTyped
<1>6. ConnTyped'
  <2>1. first_seen' \in [Keys -> 0..slow_age \union {Unseen}]
    BY <1>4, <1>5 DEF Seen
  <2>2. reused' \subseteq Keys /\ missed' \subseteq Keys
    BY <1>1, <1>4 DEF ConnTyped
  <2> QED
    BY <1>1, <1>3, <2>1, <2>2 DEF ConnTyped
<1>7. ASSUME NEW k \in Keys PROVE KeyInv(k)'
  <2> USE <1>5
  <2>1. KeyInv(k) /\ conns[k].age \in Nat
    BY <1>1 DEF ConnTyped, Connections
  <2>2. first_seen[k] \in Nat
    BY <1>1 DEF ConnTyped, Unseen
  <2>3. ~conns'[k].open => conns'[k] = Closed
    BY <2>1, <1>3 DEF KeyInv
  <2>4. conns'[k].open /\ k \notin missed' =>
          IF first_seen'[k] = Unseen THEN conns'[k].age <= (IF polled' THEN 0 ELSE 1)
          ELSE conns'[k].age <= first_seen'[k] + 1
    <3> SUFFICES ASSUME conns[k].open, k \notin missed'
                 PROVE  first_seen'[k] # Unseen /\ conns[k].age <= first_seen'[k] + 1
      BY <1>3
    <3>1. k \in listed /\ k \notin missed
      OBVIOUS
    <3> QED
      BY <3>1, <2>1, <2>2, <1>3 DEF KeyInv, Unseen
  <2>5. first_seen'[k] # Unseen /\ k \notin reused' =>
          conns'[k].open /\ first_seen'[k] <= conns'[k].age
    BY <2>1, <2>2, <1>3 DEF KeyInv
  <2> QED
    BY <2>3, <2>4, <2>5 DEF KeyInv
<1>8. WaitingIsCounted
  <2> SUFFICES ASSUME NEW k \in Keys
               PROVE  /\ Waiting(k) /\ conns[k].age > slow_age /\ k \notin missed' => k \in counted'.slow
                      /\ k \in counted'.slow => conns[k].age >= slow_age \/ k \in reused
                      /\ k \in counted'.pending => conns[k].age >= pending_age \/ k \in reused
    BY DEF WaitingIsCounted
  <2> USE <1>5
  <2>1. KeyInv(k) /\ conns[k].age \in Nat /\ KeyInv(k)'
    BY <1>1, <1>7 DEF ConnTyped, Connections
  <2>2. first_seen[k] \in Nat
    BY <1>1 DEF ConnTyped, Unseen
  <2>3. Waiting(k) /\ conns[k].age > slow_age /\ k \notin missed' => k \in counted'.slow
    <3> SUFFICES ASSUME Waiting(k), conns[k].age > slow_age, k \notin missed'
                 PROVE  k \in counted'.slow
      OBVIOUS
    <3>1. conns[k].open /\ k \in listed
      BY DEF Waiting
    <3>2. first_seen'[k] >= slow_age
      BY <3>1, <2>1, <2>2, <1>3 DEF KeyInv, Unseen
    <3> QED
      BY <1>4, <3>1, <3>2
  <2>4. k \in listed /\ k \notin reused => first_seen'[k] <= conns[k].age
    BY <2>1, <2>2, <1>3 DEF KeyInv, Unseen
  <2>5. k \in counted'.slow => k \in listed /\ first_seen'[k] >= slow_age
    BY <1>4
  <2>6. k \in counted'.pending => k \in listed /\ first_seen'[k] >= pending_age
    BY <1>4
  <2>7. first_seen'[k] \in Nat
    BY DEF Unseen
  <2> QED
    BY <2>1, <2>3, <2>4, <2>5, <2>6, <2>7
<1> QED
  BY <1>6, <1>7, <1>8, ConnParts

\* A tick ages both sides alike.
LEMMA ConnTickKeeps == ASSUME ConnInv, ConnTick PROVE ConnInv'
<1> USE ConnAssumption
<1>1. ConnTyped /\ \A j \in Keys : KeyInv(j)
  BY ConnParts
<1>2. polled' = FALSE /\ polled = TRUE /\ reused' = reused /\ missed' = missed
  BY <1>1 DEF ConnTick, ConnTyped
<1>3. ASSUME NEW k \in Keys
      PROVE  /\ conns'[k] = IF conns[k].open THEN [conns[k] EXCEPT !.age = Older(@)] ELSE Closed
             /\ first_seen'[k] = IF first_seen[k] = Unseen THEN Unseen
                                 ELSE IF first_seen[k] < slow_age THEN first_seen[k] + 1
                                 ELSE slow_age
             /\ conns[k] \in Connections
  BY <1>1 DEF ConnTick, ConnTyped
<1>4. ASSUME NEW k \in Keys
      PROVE  /\ conns'[k] \in Connections /\ conns'[k].open = conns[k].open
             /\ conns[k].open => conns'[k].age = Older(conns[k].age)
  <2>1. Closed \in Connections /\ Closed.open = FALSE
    BY DEF Closed, Connections
  <2>2. conns[k] \in Connections
    BY <1>3
  <2>3. Older(conns[k].age) \in 0..(slow_age + 1) /\ conns[k].open \in BOOLEAN
    BY <2>2 DEF Older, Connections
  <2>4. /\ [conns[k] EXCEPT !.age = Older(@)] \in Connections
        /\ [conns[k] EXCEPT !.age = Older(@)].open = conns[k].open
        /\ [conns[k] EXCEPT !.age = Older(@)].age = Older(conns[k].age)
    BY <2>2, <2>3 DEF Connections
  <2> QED
    BY <1>3, <2>1, <2>3, <2>4
<1>5. ConnTyped'
  <2>1. conns' \in [Keys -> Connections]
    BY <1>4 DEF ConnTick
  <2>2. ASSUME NEW k \in Keys PROVE first_seen'[k] \in 0..slow_age \union {Unseen}
    <3>1. first_seen[k] \in 0..slow_age \union {Unseen}
      BY <1>1 DEF ConnTyped
    <3>2. CASE first_seen[k] = Unseen
      BY <3>2, <1>3
    <3>3. CASE first_seen[k] # Unseen
      <4>1. first_seen[k] \in 0..slow_age
        BY <3>1, <3>3
      <4>2. first_seen'[k] = IF first_seen[k] < slow_age THEN first_seen[k] + 1 ELSE slow_age
        BY <3>3, <1>3
      <4>3. first_seen'[k] \in 0..slow_age
        BY <4>1, <4>2
      <4> QED
        BY <4>3
    <3> QED
      BY <3>2, <3>3
  <2>3. first_seen' \in [Keys -> 0..slow_age \union {Unseen}]
    BY <2>2 DEF ConnTick
  <2> QED
    BY <1>1, <1>2, <2>1, <2>3 DEF ConnTyped
<1>6. ASSUME NEW k \in Keys PROVE KeyInv(k)'
  <2>1. KeyInv(k) /\ conns[k].age \in 0..(slow_age + 1)
        /\ first_seen[k] \in 0..slow_age \union {Unseen}
    BY <1>1, <1>3 DEF ConnTyped, Connections
  <2>2. ~conns'[k].open => conns'[k] = Closed
    BY <1>3, <1>4
  <2> DEFINE age == conns[k].age
             since == first_seen[k]
  <2>3. conns[k].open => conns'[k].age = IF age <= slow_age THEN age + 1 ELSE age
    BY <1>4 DEF Older
  <2>4. CASE since = Unseen
    <3>1. first_seen'[k] = Unseen
      BY <1>3, <2>4
    <3>2. conns[k].open /\ k \notin missed => conns'[k].age <= 1
      BY <2>1, <2>3, <2>4, <1>2 DEF KeyInv
    <3> QED
      BY <3>1, <3>2, <2>2, <1>2, <1>4 DEF KeyInv
  <2>5. CASE since # Unseen
    <3>1. since \in 0..slow_age
      BY <2>1, <2>5
    <3>2. first_seen'[k] = (IF since < slow_age THEN since + 1 ELSE slow_age)
          /\ first_seen'[k] # Unseen
      <4>1. first_seen'[k] = IF since < slow_age THEN since + 1 ELSE slow_age
        BY <1>3, <2>5
      <4> QED
        BY <4>1, <3>1 DEF Unseen
    <3>3. conns[k].open /\ k \notin missed => conns'[k].age <= first_seen'[k] + 1
      <4>1. conns[k].open /\ k \notin missed => age <= since + 1
        BY <2>1, <2>5 DEF KeyInv
      <4> QED
        BY <4>1, <3>1, <3>2, <2>1, <2>3
    <3>4. k \notin reused => conns[k].open /\ first_seen'[k] <= conns'[k].age
      <4>1. k \notin reused => conns[k].open /\ since <= age
        BY <2>1, <2>5 DEF KeyInv
      <4> QED
        BY <4>1, <3>1, <3>2, <2>1, <2>3
    <3> QED
      BY <3>2, <3>3, <3>4, <2>2, <1>2, <1>4 DEF KeyInv
  <2> QED
    BY <2>4, <2>5
<1> QED
  BY <1>5, <1>6, ConnParts

\* The agent's invariant holds at the start and in every step, and every poll
\* counts what has been waiting.
LEMMA ConnStarts == ConnInit => ConnInv
<1> SUFFICES ASSUME ConnInit PROVE ConnInv
  OBVIOUS
<1>1. Closed \in Connections /\ Closed.open = FALSE
  <2>1. 0 \in 0..(slow_age + 1)
    BY ConnAssumption
  <2> QED
    BY <2>1 DEF Closed, Connections
<1>2. ConnTyped
  BY <1>1 DEF ConnInit, ConnTyped
<1>3. \A k \in Keys : KeyInv(k)
  BY <1>1 DEF ConnInit, KeyInv
<1> QED
  BY <1>2, <1>3, ConnParts

\* A step of the agent keeps its invariant, and a poll counts what is waiting.
LEMMA ConnKeeps ==
  ConnInv /\ [ConnNext]_conn_vars =>
    ConnInv' /\ (polled' # polled /\ polled' => WaitingIsCounted)
<1> SUFFICES ASSUME ConnInv, [ConnNext]_conn_vars
             PROVE  ConnInv' /\ (polled' # polled /\ polled' => WaitingIsCounted)
  OBVIOUS
<1>1. CASE UNCHANGED conn_vars
  BY <1>1 DEF ConnInv, conn_vars
<1>2. ASSUME NEW k \in Keys, Open(k) \/ Receive(k) \/ Respond(k) \/ Close(k)
      PROVE  ConnInv' /\ polled' = polled
  BY <1>2, ClientKeeps DEF Open, Receive, Respond, Close
<1>3. CASE Poll
  BY <1>3, PollKeeps
<1>4. CASE ConnTick
  BY <1>4, ConnTickKeeps DEF ConnTick
<1> QED
  BY <1>1, <1>2, <1>3, <1>4 DEF ConnNext

-----------------------------------------------------------------------------
(***************************************************************************)
(* The probe.                                                              *)
(***************************************************************************)

\* The parts of the invariant that the steps can disturb apart.
ProbeTyped ==
  /\ seq \in 0..Seqs
  /\ sent \in [1..Seqs -> Nat]
  /\ rtt_ms \subseteq Pending
  /\ round \in [tick : {0, 1}, due : BOOLEAN, pinged : BOOLEAN]
  /\ round.due => round.tick = 0
  /\ answers \subseteq [seq : 1..Seqs, age : 0..MaxDelay]
PingsAreKnown == pings = {PingOf(n) : n \in Pending}
PingsAreRecent == \A n \in Pending : sent[n] >= Since(n) /\ sent[n] <= Oldest
AnswerFits(a) == a.age >= Since(a.seq) /\ sent[a.seq] \in {NotSent, a.age}
AnswersFit == \A a \in answers : AnswerFits(a)
SaidIsTrue == report.said = report.true

\* They are the invariant, in this state and in the next.
LEMMA ProbeParts ==
  /\ ProbeInv <=> /\ ProbeTyped /\ PingsAreKnown /\ PingsAreRecent /\ AnswersFit
                  /\ SaidIsTrue
  /\ ProbeInv' <=> /\ ProbeTyped' /\ PingsAreKnown' /\ PingsAreRecent' /\ AnswersFit'
                   /\ SaidIsTrue'
BY DEF ProbeInv, ProbeTyped, PingsAreKnown, PingsAreRecent, AnswersFit, AnswerFits,
       SaidIsTrue

\* NotSent is no age a ping or an answer can have.
LEMMA NotSentIsNoAge ==
  ProbeTyped => /\ NotSent \in Nat /\ Oldest \in Nat /\ Oldest < NotSent - 1
                /\ (~round.due => Oldest < NotSent - 2) /\ timeout < NotSent
BY ProbeAssumption DEF NotSent, Oldest, ProbeTyped

\* The number after seq.
LEMMA NextNumber ==
  ASSUME ProbeTyped
  PROVE  1 + (seq % Seqs) = IF seq = Seqs THEN 1 ELSE seq + 1
<1>1. seq \in Nat /\ Seqs \in Nat /\ Seqs > 0 /\ seq <= Seqs
  BY ProbeAssumption DEF ProbeTyped
<1>2. seq < Seqs => seq % Seqs = seq
  BY <1>1
<1>3. Seqs % Seqs = 0
  BY <1>1
<1> QED
  BY <1>1, <1>2, <1>3

\* A ping takes the number used longest ago: whatever had it has ended, and
\* every other number was used one ping earlier than before.
LEMMA SendKeeps == ASSUME ProbeInv, send_probe PROVE ProbeInv'
<1> USE ProbeAssumption
<1> DEFINE n == 1 + (seq % Seqs)
<1>1. /\ ProbeTyped /\ PingsAreKnown /\ PingsAreRecent /\ AnswersFit /\ SaidIsTrue
  BY ProbeParts
<1>2. PICK next \in 1..Seqs : next = n /\ next = (IF seq = Seqs THEN 1 ELSE seq + 1)
  BY <1>1, NextNumber DEF ProbeTyped
<1>3. /\ seq' = next /\ sent' = [sent EXCEPT ![next] = 0]
      /\ pings' = pings \union {[seq |-> next, age |-> 0, came |-> FALSE]}
      /\ answers' \in {answers, answers \union {[seq |-> next, age |-> 0]}}
      /\ round' = [round EXCEPT !.pinged = TRUE] /\ ~round.pinged
      /\ rtt_ms' = rtt_ms /\ report' = report
  BY <1>2 DEF send_probe
<1> HIDE DEF n
<1>4. /\ NotSent \in Nat /\ Oldest \in Nat /\ Oldest < NotSent - 1 /\ Oldest <= timeout + 1
  BY <1>1, NotSentIsNoAge DEF Oldest
<1>5. Since(next) = Seqs
  BY <1>1, <1>2, <1>3 DEF Since, Ago, ProbeTyped
<1>6. sent[next] = NotSent
  <2> SUFFICES ASSUME sent[next] # NotSent PROVE FALSE
    OBVIOUS
  <2>1. next \in Pending
    BY DEF Pending
  <2>2. sent[next] >= Seqs /\ sent[next] <= Oldest /\ sent[next] \in Nat
    BY <1>1, <1>5, <2>1 DEF PingsAreRecent, ProbeTyped
  <2> QED
    BY <1>4, <2>2
<1>7. \A a \in answers : a.seq # next
  <2> SUFFICES ASSUME NEW a \in answers, a.seq = next PROVE FALSE
    OBVIOUS
  <2>1. a.age >= Seqs /\ a.age \in 0..MaxDelay
    BY <1>1, <1>5 DEF AnswersFit, AnswerFits, ProbeTyped
  <2> QED
    BY <2>1
<1>8. /\ round' \in [tick : {0, 1}, due : BOOLEAN, pinged : BOOLEAN]
      /\ round'.pinged /\ round'.due = round.due /\ round'.tick = round.tick
  BY <1>1, <1>3 DEF ProbeTyped
<1>9. Oldest' = Oldest
  BY <1>8 DEF Oldest
<1>10. ASSUME NEW m \in 1..Seqs
       PROVE  /\ m # next => Since(m)' = Since(m) /\ sent'[m] = sent[m]
              /\ m = next => Since(m)' = 0 /\ sent'[m] = 0
              /\ m \in Pending' <=> m \in Pending \/ m = next
  <2>1. m # next => Since(m)' = Since(m)
    BY <1>1, <1>2, <1>3, <1>8 DEF Since, Ago, ProbeTyped
  <2>2. m = next => Since(m)' = 0
    BY <1>1, <1>2, <1>3, <1>8 DEF Since, Ago, ProbeTyped
  <2>3. sent'[m] = IF m = next THEN 0 ELSE sent[m]
    BY <1>1, <1>3 DEF ProbeTyped
  <2>4. NotSent # 0 /\ NotSent' = NotSent
    BY <1>4 DEF NotSent
  <2> QED
    BY <2>1, <2>2, <2>3, <2>4 DEF Pending
<1>11. ProbeTyped'
  <2>1. answers' \subseteq [seq : 1..Seqs, age : 0..MaxDelay]
    BY <1>1, <1>2, <1>3 DEF ProbeTyped
  <2>2. sent' \in [1..Seqs -> Nat]
    BY <1>1, <1>3 DEF ProbeTyped
  <2>3. rtt_ms' \subseteq Pending'
    <3>1. Pending \subseteq 1..Seqs
      BY DEF Pending
    <3> QED
      BY <1>1, <1>3, <1>10, <3>1 DEF ProbeTyped
  <2> QED
    BY <1>1, <1>2, <1>3, <1>8, <2>1, <2>2, <2>3 DEF ProbeTyped
<1>12. PingsAreKnown'
  <2>1. next \notin rtt_ms
    BY <1>1, <1>6 DEF ProbeTyped, Pending
  <2>2. ASSUME NEW m \in Pending PROVE PingOf(m)' = PingOf(m) /\ m # next
    <3>1. m \in 1..Seqs /\ m # next
      BY <1>6 DEF Pending
    <3> QED
      BY <1>3, <1>10, <3>1 DEF PingOf
  <2>3. PingOf(next)' = [seq |-> next, age |-> 0, came |-> FALSE]
    <3>1. (next \in rtt_ms') = FALSE
      BY <1>3, <2>1
    <3> QED
      BY <1>10, <3>1 DEF PingOf
  <2>4. Pending' = Pending \union {next}
    <3>1. Pending \subseteq 1..Seqs /\ Pending' \subseteq 1..Seqs
      BY DEF Pending
    <3> QED
      BY <1>10, <3>1
  <2>5. pings' = {PingOf(m) : m \in Pending} \union {[seq |-> next, age |-> 0, came |-> FALSE]}
    BY <1>1, <1>3 DEF PingsAreKnown
  <2>6. {PingOf(m)' : m \in Pending \union {next}}
        = {PingOf(m) : m \in Pending} \union {[seq |-> next, age |-> 0, came |-> FALSE]}
    BY <2>2, <2>3
  <2> QED
    BY <2>4, <2>5, <2>6 DEF PingsAreKnown
<1>13. PingsAreRecent'
  <2> SUFFICES ASSUME NEW m \in Pending' PROVE sent'[m] >= Since(m)' /\ sent'[m] <= Oldest'
    BY DEF PingsAreRecent
  <2>1. m \in 1..Seqs
    BY DEF Pending
  <2> QED
    BY <1>1, <1>4, <1>9, <1>10, <2>1 DEF PingsAreRecent
<1>14. AnswersFit'
  <2> SUFFICES ASSUME NEW a \in answers' PROVE AnswerFits(a)'
    BY DEF AnswersFit
  <2>1. CASE a \in answers
    <3>1. a.seq \in 1..Seqs /\ a.seq # next /\ AnswerFits(a)
      BY <1>1, <1>7, <2>1 DEF ProbeTyped, AnswersFit
    <3> QED
      BY <1>10, <3>1 DEF AnswerFits, NotSent
  <2>2. CASE a = [seq |-> next, age |-> 0]
    BY <1>10, <2>2 DEF AnswerFits
  <2> QED
    BY <1>3, <2>1, <2>2
<1> QED
  BY <1>1, <1>3, <1>11, <1>12, <1>13, <1>14, ProbeParts DEF SaidIsTrue

\* A ping whose answer has come.
LEMMA MarkedHeard ==
  ASSUME NEW n, NEW age, NEW came \in BOOLEAN
  PROVE  [[seq |-> n, age |-> age, came |-> came] EXCEPT !.came = TRUE]
         = [seq |-> n, age |-> age, came |-> TRUE]
<1> DEFINE P == [seq : {n}, age : {age}, came : BOOLEAN]
<1>1. PICK p \in P : p = [seq |-> n, age |-> age, came |-> came]
  OBVIOUS
<1>2. [p EXCEPT !.came = TRUE] \in P
  BY Zenon
<1>3. PICK q \in P : q = [p EXCEPT !.came = TRUE]
  BY <1>2
<1>4. q.seq = n /\ q.age = age /\ q.came = TRUE
  BY <1>1, <1>3
<1> QED
  BY <1>1, <1>3, <1>4

\* An answer counts for the ping of its number if it is in time; a late one
\* finds a ping too old, or none.
LEMMA ReplyKeeps == ASSUME ProbeInv, probe_reply PROVE ProbeInv'
<1> USE ProbeAssumption
<1>1. /\ ProbeTyped /\ PingsAreKnown /\ PingsAreRecent /\ AnswersFit /\ SaidIsTrue
  BY ProbeParts
<1>2. PICK a \in answers :
        /\ rtt_ms' = IF InTime(a.seq) THEN rtt_ms \union {a.seq} ELSE rtt_ms
        /\ pings' = {IF p.seq = a.seq /\ p.age = a.age /\ p.age <= timeout
                     THEN [p EXCEPT !.came = TRUE] ELSE p : p \in pings}
        /\ answers' \in {answers, answers \ {a}}
        /\ UNCHANGED <<seq, sent, round, report>>
  BY DEF probe_reply
<1>3. a.seq \in 1..Seqs /\ a.age \in 0..MaxDelay /\ sent[a.seq] \in {NotSent, a.age}
      /\ timeout < NotSent /\ NotSent \in Nat
  BY <1>1, NotSentIsNoAge DEF AnswersFit, AnswerFits, ProbeTyped
<1>4. InTime(a.seq) <=> a.seq \in Pending /\ a.age <= timeout
  BY <1>3 DEF InTime, Pending
<1>5. Pending' = Pending /\ NotSent' = NotSent /\ Oldest' = Oldest
      /\ \A n : Since(n)' = Since(n)
  BY <1>2 DEF Pending, NotSent, Oldest, Since, Ago
<1>6. ProbeTyped'
  BY <1>1, <1>2, <1>4, <1>5 DEF ProbeTyped
<1>7. PingsAreKnown'
  <2> DEFINE Heard(p) == IF p.seq = a.seq /\ p.age = a.age /\ p.age <= timeout
                         THEN [p EXCEPT !.came = TRUE] ELSE p
  <2>1. ASSUME NEW n \in Pending PROVE Heard(PingOf(n)) = PingOf(n)'
    <3>1. PingOf(n).seq = n /\ PingOf(n).age = sent[n]
      BY DEF PingOf
    <3>2. sent' = sent /\ PingOf(n)' = [seq |-> n, age |-> sent[n], came |-> n \in rtt_ms']
      BY <1>2 DEF PingOf
    <3>3. CASE n = a.seq /\ a.age <= timeout
      <4>1. sent[n] = a.age
        BY <1>3, <3>3 DEF Pending
      <4>2. (n \in rtt_ms') = TRUE
        BY <1>2, <1>4, <3>3
      <4>3. Heard(PingOf(n)) = [PingOf(n) EXCEPT !.came = TRUE]
        BY <3>1, <3>3, <4>1
      <4>4. [PingOf(n) EXCEPT !.came = TRUE] = [seq |-> n, age |-> sent[n], came |-> TRUE]
        <5>1. (n \in rtt_ms) \in BOOLEAN
          OBVIOUS
        <5> QED
          BY <5>1, MarkedHeard DEF PingOf
      <4> QED
        BY <3>2, <4>2, <4>3, <4>4
    <3>4. CASE ~(n = a.seq /\ a.age <= timeout)
      <4>1. (n \in rtt_ms') = (n \in rtt_ms)
        BY <1>2, <1>4, <3>4
      <4>2. Heard(PingOf(n)) = PingOf(n)
        BY <3>1, <3>4
      <4> QED
        BY <3>2, <4>1, <4>2 DEF PingOf
    <3> QED
      BY <3>3, <3>4
  <2>2. pings' = {Heard(p) : p \in pings}
    BY <1>2
  <2> HIDE DEF Heard
  <2>3. pings' = {Heard(PingOf(n)) : n \in Pending}
    BY <2>2, <1>1 DEF PingsAreKnown
  <2>4. pings' = {PingOf(n)' : n \in Pending}
    BY <2>1, <2>3
  <2> QED
    BY <2>4, <1>5 DEF PingsAreKnown
<1>8. PingsAreRecent'
  BY <1>1, <1>2, <1>5 DEF PingsAreRecent
<1>9. AnswersFit'
  BY <1>1, <1>2, <1>5 DEF AnswersFit, AnswerFits
<1> QED
  BY <1>1, <1>2, <1>6, <1>7, <1>8, <1>9, ProbeParts DEF SaidIsTrue

\* A set and its image under a one-to-one function have as many elements.
LEMMA AsMany ==
  ASSUME NEW S, IsFiniteSet(S), NEW T, NEW f \in [S -> T],
         \A x, y \in S : f[x] = f[y] => x = y, \A t \in T : \E x \in S : f[x] = t
  PROVE  Cardinality(T) = Cardinality(S)
<1>1. f \in Bijection(S, T)
  BY DEF Bijection, Injection, Surjection, IsInjective
<1> QED
  BY <1>1, FS_Bijection DEF ExistsBijection

\* The pings of a set of numbers are as many as the numbers.
LEMMA PingsOfNumbers ==
  ASSUME NEW S \in SUBSET (1..Seqs)
  PROVE  Cardinality({PingOf(n) : n \in S}) = Cardinality(S)
<1> DEFINE T == {PingOf(n) : n \in S}
           f == [n \in S |-> PingOf(n)]
<1>1. IsFiniteSet(S)
  <2>1. IsFiniteSet(1..Seqs)
    BY ProbeAssumption, FS_Interval
  <2> QED
    BY <2>1, FS_Subset
<1>2. f \in [S -> T] /\ \A t \in T : \E n \in S : f[n] = t
  OBVIOUS
<1>3. \A n : PingOf(n).seq = n
  BY DEF PingOf
<1>4. \A m, n \in S : f[m] = f[n] => m = n
  BY <1>3
<1> HIDE DEF f, T
<1>5. Cardinality(T) = Cardinality(S)
  BY <1>1, <1>2, <1>4, AsMany
<1> QED
  BY <1>5 DEF T

\* A report counts the pings that are over by their numbers, and gets what
\* counting the pings themselves would have given.
LEMMA ReportKeeps == ASSUME ProbeInv, publish_service_health PROVE ProbeInv'
<1> USE ProbeAssumption
<1>1. /\ ProbeTyped /\ PingsAreKnown /\ PingsAreRecent /\ AnswersFit /\ SaidIsTrue
  BY ProbeParts
<1> DEFINE settled == {n \in 1..Seqs : sent[n] # NotSent /\ sent[n] >= timeout}
           over == {p \in pings : p.age >= timeout}
<1>2. /\ report' = IF settled = {} THEN report
                   ELSE [said |-> [sent |-> Cardinality(settled),
                                   received |-> Cardinality(settled \intersect rtt_ms)],
                         true |-> [sent |-> Cardinality(over),
                                   received |-> Cardinality({p \in over : p.came})]]
      /\ sent' = [n \in 1..Seqs |-> IF n \in settled THEN NotSent ELSE sent[n]]
      /\ rtt_ms' = rtt_ms \ settled
      /\ pings' = pings \ over
  BY DEF publish_service_health
<1>3. /\ round' = [round EXCEPT !.due = FALSE] /\ seq' = seq /\ answers' = answers
      /\ round.due
  BY DEF publish_service_health
<1>4. /\ round' \in [tick : {0, 1}, due : BOOLEAN, pinged : BOOLEAN]
      /\ round'.pinged = round.pinged /\ round'.due = FALSE /\ round'.tick = 0
      /\ NotSent \in Nat /\ NotSent' = NotSent
  <2>1. round \in [tick : {0, 1}, due : BOOLEAN, pinged : BOOLEAN] /\ round.tick = 0
    BY <1>1, <1>3 DEF ProbeTyped
  <2>2. round' \in [tick : {0, 1}, due : BOOLEAN, pinged : BOOLEAN]
    BY <1>3, <2>1
  <2>3. round'.pinged = round.pinged /\ round'.due = FALSE /\ round'.tick = 0
    BY <1>3, <2>1
  <2>4. NotSent \in Nat /\ NotSent' = NotSent
    BY DEF NotSent
  <2> QED
    BY <2>2, <2>3, <2>4
<1>5. \A n : PingOf(n).seq = n /\ PingOf(n).age = sent[n] /\ (PingOf(n).came <=> n \in rtt_ms)
  BY DEF PingOf
<1>6. settled \subseteq Pending /\ Pending \subseteq 1..Seqs
  BY DEF Pending
<1>7. over = {PingOf(n) : n \in settled}
  <2>1. over = {p \in {PingOf(n) : n \in Pending} : p.age >= timeout}
    BY <1>1 DEF PingsAreKnown
  <2> QED
    BY <2>1, <1>5 DEF Pending
<1>8. {p \in over : p.came} = {PingOf(n) : n \in settled \intersect rtt_ms}
  BY <1>5, <1>7
<1>9. /\ Cardinality(over) = Cardinality(settled)
      /\ Cardinality({p \in over : p.came}) = Cardinality(settled \intersect rtt_ms)
  <2>1. settled \in SUBSET (1..Seqs) /\ settled \intersect rtt_ms \in SUBSET (1..Seqs)
    OBVIOUS
  <2> HIDE DEF settled, over
  <2> QED
    BY <2>1, <1>7, <1>8, PingsOfNumbers
<1>10. SaidIsTrue'
  BY <1>1, <1>2, <1>9 DEF SaidIsTrue
<1>11. ASSUME NEW n \in 1..Seqs
       PROVE  /\ n \in Pending' <=> n \in Pending /\ sent[n] < timeout
              /\ sent'[n] \in {NotSent, sent[n]}
              /\ n \in Pending' => sent'[n] = sent[n] /\ n \notin settled
  BY <1>1, <1>2, <1>4 DEF Pending, ProbeTyped
<1>12. ProbeTyped'
  <2>1. sent' \in [1..Seqs -> Nat]
    BY <1>1, <1>2, <1>4 DEF ProbeTyped
  <2>2. rtt_ms' \subseteq Pending'
    <3> SUFFICES ASSUME NEW n \in rtt_ms, n \notin settled PROVE n \in Pending'
      BY <1>2
    <3>1. n \in Pending /\ n \in 1..Seqs
      BY <1>1, <1>6 DEF ProbeTyped
    <3> QED
      BY <1>1, <1>11, <3>1 DEF Pending, ProbeTyped
  <2> QED
    BY <1>1, <1>3, <1>4, <2>1, <2>2 DEF ProbeTyped
<1>13. PingsAreKnown'
  <2>1. Pending' = Pending \ settled
    <3>1. Pending' \subseteq 1..Seqs
      BY DEF Pending
    <3> QED
      BY <1>1, <1>6, <1>11, <3>1 DEF Pending, ProbeTyped
  <2>2. ASSUME NEW n \in Pending \ settled PROVE PingOf(n)' = PingOf(n)
    <3>1. sent'[n] = sent[n]
      BY <1>6, <1>11, <2>1
    <3>2. (n \in rtt_ms') = (n \in rtt_ms)
      BY <1>2
    <3> QED
      BY <3>1, <3>2 DEF PingOf
  <2>3. pings' = {PingOf(n) : n \in Pending} \ {PingOf(n) : n \in settled}
    BY <1>1, <1>2, <1>7 DEF PingsAreKnown
  <2>4. pings' = {PingOf(n) : n \in Pending \ settled}
    BY <2>3, <1>5
  <2> QED
    BY <2>1, <2>2, <2>4 DEF PingsAreKnown
<1>14. \A n : Since(n)' = Since(n)
  BY <1>3, <1>4 DEF Since, Ago
<1>15. PingsAreRecent'
  <2> SUFFICES ASSUME NEW n \in Pending' PROVE sent'[n] >= Since(n)' /\ sent'[n] <= Oldest'
    BY DEF PingsAreRecent
  <2>1. n \in 1..Seqs
    BY DEF Pending
  <2>2. n \in Pending /\ sent[n] < timeout /\ sent'[n] = sent[n] /\ sent[n] \in Nat
    BY <1>1, <1>11, <2>1 DEF ProbeTyped
  <2>3. Oldest' = timeout - 1
    BY <1>4 DEF Oldest
  <2> QED
    BY <1>1, <1>14, <2>2, <2>3 DEF PingsAreRecent
<1>16. AnswersFit'
  <2> SUFFICES ASSUME NEW a \in answers PROVE AnswerFits(a)'
    BY <1>3 DEF AnswersFit
  <2>1. AnswerFits(a) /\ a.seq \in 1..Seqs
    BY <1>1 DEF AnswersFit, ProbeTyped
  <2> QED
    BY <1>4, <1>11, <1>14, <2>1 DEF AnswerFits
<1> QED
  BY <1>10, <1>12, <1>13, <1>15, <1>16, ProbeParts

\* A ping that is a tick older.
LEMMA OlderPing ==
  ASSUME NEW n, NEW age \in Nat, NEW came \in BOOLEAN
  PROVE  [[seq |-> n, age |-> age, came |-> came] EXCEPT !.age = @ + 1]
         = [seq |-> n, age |-> age + 1, came |-> came]
<1> DEFINE P == [seq : {n}, age : Nat, came : BOOLEAN]
<1>1. PICK p \in P : p = [seq |-> n, age |-> age, came |-> came]
  OBVIOUS
<1>2. p.age + 1 \in Nat
  BY <1>1
<1>3. [p EXCEPT !.age = @ + 1] \in P
  BY Zenon, <1>2
<1>4. PICK q \in P : q = [p EXCEPT !.age = @ + 1]
  BY <1>3
<1>5. q.seq = n /\ q.age = age + 1 /\ q.came = came
  BY <1>1, <1>4
<1> QED
  BY <1>1, <1>4, <1>5

\* A tick: everything under way is a tick older.
LEMMA ProbeTickKeeps == ASSUME ProbeInv, ProbeTick PROVE ProbeInv'
<1> USE ProbeAssumption
<1>1. /\ ProbeTyped /\ PingsAreKnown /\ PingsAreRecent /\ AnswersFit /\ SaidIsTrue
  BY ProbeParts
<1>2. /\ round' = [tick |-> 1 - round.tick, due |-> round.tick = 1, pinged |-> FALSE]
      /\ sent' = [n \in 1..Seqs |-> IF sent[n] = NotSent THEN NotSent ELSE sent[n] + 1]
      /\ pings' = {[p EXCEPT !.age = @ + 1] : p \in pings}
      /\ answers' = {[a EXCEPT !.age = @ + 1] : a \in {a \in answers : a.age < MaxDelay}}
      /\ seq' = seq /\ rtt_ms' = rtt_ms /\ report' = report /\ ~round.due
  BY DEF ProbeTick
<1>3. /\ NotSent \in Nat /\ Oldest \in Nat /\ Oldest < NotSent - 2 /\ NotSent' = NotSent
      /\ round.tick \in {0, 1}
  BY <1>1, <1>2, NotSentIsNoAge DEF ProbeTyped, NotSent
<1>4. /\ round'.tick = 1 - round.tick /\ (round'.due <=> round.tick = 1)
      /\ round'.pinged = FALSE
  BY <1>2
<1>5. round' \in [tick : {0, 1}, due : BOOLEAN, pinged : BOOLEAN]
  <2>1. (round.tick = 1) \in BOOLEAN /\ 1 - round.tick \in {0, 1}
    BY <1>3
  <2> QED
    BY <1>2, <2>1
<1>6. Oldest' = Oldest + 1
  BY <1>2, <1>3, <1>4 DEF Oldest
<1>7. \A n \in 1..Seqs : Since(n) \in Int /\ Since(n)' <= Since(n) + 1
  BY <1>1, <1>2, <1>4 DEF Since, Ago, ProbeTyped
<1>8. ASSUME NEW n \in 1..Seqs
      PROVE  /\ n \in Pending' <=> n \in Pending
             /\ n \in Pending => sent'[n] = sent[n] + 1
             /\ n \notin Pending => sent'[n] = NotSent
             /\ sent'[n] \in Nat /\ sent[n] \in Nat
  <2>1. sent[n] \in Nat /\ sent'[n] = IF sent[n] = NotSent THEN NotSent ELSE sent[n] + 1
    BY <1>1, <1>2 DEF ProbeTyped
  <2>2. n \in Pending => sent[n] <= Oldest
    BY <1>1 DEF PingsAreRecent
  <2> QED
    BY <1>3, <2>1, <2>2 DEF Pending
<1>9. Pending' = Pending /\ Pending \subseteq 1..Seqs
  <2>1. Pending' \subseteq 1..Seqs /\ Pending \subseteq 1..Seqs
    BY DEF Pending
  <2> QED
    BY <1>8, <2>1
<1>10. ASSUME NEW a \in answers, a.age < MaxDelay
       PROVE  /\ [a EXCEPT !.age = @ + 1] \in [seq : 1..Seqs, age : 0..MaxDelay]
              /\ [a EXCEPT !.age = @ + 1].seq = a.seq
              /\ [a EXCEPT !.age = @ + 1].age = a.age + 1
              /\ a.seq \in 1..Seqs /\ a.age \in Nat
  BY <1>1, <1>10 DEF ProbeTyped
<1>11. ProbeTyped'
  <2>1. sent' \in [1..Seqs -> Nat]
    BY <1>2, <1>8
  <2>2. answers' \subseteq [seq : 1..Seqs, age : 0..MaxDelay]
    BY <1>2, <1>10
  <2> QED
    BY <1>1, <1>2, <1>3, <1>4, <1>5, <1>9, <2>1, <2>2 DEF ProbeTyped
<1>12. PingsAreKnown'
  <2>1. ASSUME NEW n \in Pending PROVE [PingOf(n) EXCEPT !.age = @ + 1] = PingOf(n)'
    <3>1. sent'[n] = sent[n] + 1 /\ rtt_ms' = rtt_ms
      BY <1>2, <1>8, <1>9
    <3>2. [PingOf(n) EXCEPT !.age = @ + 1] = [seq |-> n, age |-> sent[n] + 1, came |-> n \in rtt_ms]
      <4>1. (n \in rtt_ms) \in BOOLEAN /\ sent[n] \in Nat
        BY <1>8, <1>9
      <4> QED
        BY <4>1, OlderPing DEF PingOf
    <3> QED
      BY <3>1, <3>2 DEF PingOf
  <2>2. pings' = {[PingOf(n) EXCEPT !.age = @ + 1] : n \in Pending}
    BY <1>1, <1>2 DEF PingsAreKnown
  <2> QED
    BY <1>9, <2>1, <2>2 DEF PingsAreKnown
<1>13. PingsAreRecent'
  <2> SUFFICES ASSUME NEW n \in Pending PROVE sent'[n] >= Since(n)' /\ sent'[n] <= Oldest'
    BY <1>9 DEF PingsAreRecent
  <2>1. sent[n] >= Since(n) /\ sent[n] <= Oldest /\ n \in 1..Seqs
    BY <1>1, <1>9 DEF PingsAreRecent
  <2>2. Since(n) \in Int /\ Since(n)' \in Int /\ Since(n)' <= Since(n) + 1
    BY <1>7, <2>1, <1>2, <1>1, <1>4 DEF Since, Ago, ProbeTyped
  <2> QED
    BY <1>3, <1>6, <1>8, <2>1, <2>2
<1>14. AnswersFit'
  <2> SUFFICES ASSUME NEW b \in answers, b.age < MaxDelay
               PROVE  AnswerFits([b EXCEPT !.age = @ + 1])'
    BY <1>2 DEF AnswersFit
  <2> DEFINE c == [b EXCEPT !.age = @ + 1]
  <2>1. c.seq = b.seq /\ c.age = b.age + 1 /\ b.seq \in 1..Seqs /\ b.age \in Nat
    BY <1>10
  <2>2. b.age >= Since(b.seq) /\ sent[b.seq] \in {NotSent, b.age}
    BY <1>1 DEF AnswersFit, AnswerFits
  <2>3. sent'[b.seq] \in {NotSent, b.age + 1}
    BY <1>8, <2>1, <2>2 DEF Pending
  <2>4. b.age + 1 >= Since(b.seq)'
    <3>1. Since(b.seq) \in Int /\ Since(b.seq)' \in Int /\ Since(b.seq)' <= Since(b.seq) + 1
      BY <1>7, <2>1, <1>2, <1>1, <1>4 DEF Since, Ago, ProbeTyped
    <3> QED
      BY <2>1, <2>2, <3>1
  <2> QED
    BY <1>3, <2>1, <2>3, <2>4 DEF AnswerFits
<1> QED
  BY <1>1, <1>2, <1>11, <1>12, <1>13, <1>14, ProbeParts DEF SaidIsTrue

\* The probe's invariant holds at the start and in every step.
LEMMA ProbeStarts == ProbeInit => ProbeInv
<1> SUFFICES ASSUME ProbeInit PROVE ProbeInv
  OBVIOUS
<1> USE ProbeAssumption
<1>1. NotSent \in Nat
  BY DEF NotSent
<1>2. Pending = {}
  BY DEF ProbeInit, Pending
<1>3. ProbeTyped
  BY <1>1, <1>2 DEF ProbeInit, ProbeTyped
<1>4. PingsAreKnown /\ PingsAreRecent
  BY <1>2 DEF ProbeInit, PingsAreKnown, PingsAreRecent
<1> QED
  BY <1>3, <1>4, ProbeParts DEF ProbeInit, AnswersFit, SaidIsTrue

\* A step of the probe, or of nothing of it, keeps its invariant.
LEMMA ProbeKeeps == ProbeInv /\ [ProbeNext]_probe_vars => ProbeInv'
<1>1. ProbeInv /\ UNCHANGED probe_vars => ProbeInv'
  <2> SUFFICES ASSUME ProbeInv, UNCHANGED probe_vars PROVE ProbeInv'
    OBVIOUS
  <2>1. /\ Pending' = Pending /\ NotSent' = NotSent /\ Oldest' = Oldest
        /\ \A n : Since(n)' = Since(n) /\ PingOf(n)' = PingOf(n)
    BY DEF probe_vars, Pending, NotSent, Oldest, Since, Ago, PingOf
  <2>2. /\ ProbeTyped /\ PingsAreKnown /\ PingsAreRecent /\ AnswersFit /\ SaidIsTrue
    BY ProbeParts
  <2>3. ProbeTyped' /\ SaidIsTrue'
    BY <2>1, <2>2 DEF ProbeTyped, SaidIsTrue, probe_vars
  <2>4. PingsAreKnown'
    BY <2>1, <2>2 DEF PingsAreKnown, probe_vars
  <2>5. PingsAreRecent' /\ AnswersFit'
    BY <2>1, <2>2 DEF PingsAreRecent, AnswersFit, AnswerFits, probe_vars
  <2> QED
    BY <2>3, <2>4, <2>5, ProbeParts
<1> QED
  BY <1>1, SendKeeps, ReplyKeeps, ReportKeeps, ProbeTickKeeps DEF ProbeNext

-----------------------------------------------------------------------------
(***************************************************************************)
(* The worker: operators.                                                  *)
(***************************************************************************)

\* The larger of two integers.
LEMMA MaxOfTwo ==
  ASSUME NEW a \in Int, NEW b \in Int
  PROVE  Max({a, b}) = IF a >= b THEN a ELSE b
BY DEF Max

\* The least of two numbers, likewise.
LEMMA MinOfTwo ==
  ASSUME NEW a \in Int, NEW b \in Int
  PROVE  Min({a, b}) = IF a <= b THEN a ELSE b
BY DEF Min

\* The limits of a mean: whichever of what was learned beforehand and
\* cap_multiplier times that is the smaller is the lower one.
LEMMA LimitsAre ==
  ASSUME NEW p \in Ports, NEW ind \in WATCHED_INDICATORS
  PROVE  /\ base_mean[p][ind] \in Int /\ cap_multiplier * base_mean[p][ind] \in Int
         /\ base_mean[p][ind] \in Limits(p, ind)
         /\ Limits(p, ind) = IF base_mean[p][ind] <= cap_multiplier * base_mean[p][ind]
                             THEN base_mean[p][ind]..(cap_multiplier * base_mean[p][ind])
                             ELSE (cap_multiplier * base_mean[p][ind])..base_mean[p][ind]
<1> DEFINE b == base_mean[p][ind]
           top == cap_multiplier * b
<1>1. b \in Int /\ top \in Int
  BY CriteriaAssumption
<1>2. Limits(p, ind) = Min({b, top})..Max({b, top})
  BY DEF Limits
<1> HIDE DEF b, top
<1>3. Limits(p, ind) = IF b <= top THEN b..top ELSE top..b
  BY <1>1, <1>2, MinOfTwo, MaxOfTwo
<1>4. b \in Limits(p, ind)
  BY <1>1, <1>3
<1> QED
  BY <1>1, <1>3, <1>4 DEF b, top

\* What was learned of a volume is no signed difference: the limits are in order.
LEMMA VolumeLimits ==
  ASSUME NEW p \in Ports
  PROVE  /\ base_mean[p]["udp"] \in Nat /\ cap_multiplier * base_mean[p]["udp"] \in Nat
         /\ base_mean[p]["udp"] <= cap_multiplier * base_mean[p]["udp"]
<1>1. "udp" \in WATCHED_INDICATORS \ {"gap"}
  BY DEF WATCHED_INDICATORS, Volumes
<1>2. base_mean[p]["udp"] \in Nat
  BY <1>1, CriteriaAssumption
<1>3. cap_multiplier \in Nat \ {0}
  BY CriteriaAssumption
<1> DEFINE b == base_mean[p]["udp"]
<1> HIDE DEF b
<1>4. b \in Nat => cap_multiplier * b \in Nat /\ b <= cap_multiplier * b
  BY <1>3
<1> QED
  BY <1>2, <1>4 DEF b

\* Baseline.update stays between what was learned and cap_multiplier times it.
LEMMA UpdatedIsBounded ==
  ASSUME NEW p \in Ports, NEW ind \in WATCHED_INDICATORS, NEW m \in Int
  PROVE  Bounded(p, ind, Updated(p, ind, m))
<1> DEFINE b == base_mean[p][ind]
           top == cap_multiplier * b
<1>1. /\ b \in Int /\ top \in Int
      /\ Limits(p, ind) = IF b <= top THEN b..top ELSE top..b
  BY LimitsAre
<1>2. Updated(p, ind, m) = Min({Max({m, b}), top})
  BY DEF Updated
<1> HIDE DEF b, top
<1> DEFINE x == Max({m, b})
<1>3. x \in Int /\ x >= b
  BY <1>1, MaxOfTwo
<1> HIDE DEF x
<1>4. Min({x, top}) = IF x <= top THEN x ELSE top
  BY <1>1, <1>3, MinOfTwo
<1>5. Min({x, top}) \in IF b <= top THEN b..top ELSE top..b
  BY <1>1, <1>3, <1>4
<1> QED
  BY <1>1, <1>2, <1>5 DEF Bounded, x

\* A line rises with the mean.
LEMMA LinesRise ==
  ASSUME NEW m \in [WATCHED_INDICATORS -> Int], NEW n \in [WATCHED_INDICATORS -> Int],
         m["udp"] <= n["udp"]
  PROVE  /\ attack_line(m, "udp") \in Int /\ attack_line(n, "udp") \in Int
         /\ line(m, "udp") \in Int /\ line(n, "udp") \in Int
         /\ attack_line(m, "udp") <= attack_line(n, "udp")
         /\ line(m, "udp") <= line(n, "udp")
<1> DEFINE fm == flood_multiplier * m["udp"]
           fn == flood_multiplier * n["udp"]
<1>1. m["udp"] \in Int /\ n["udp"] \in Int /\ floors["udp"] \in Int
      /\ attack_floors["udp"] \in Int /\ Sigma \in Int
  BY CriteriaAssumption DEF WATCHED_INDICATORS, Volumes
<1>2. fm \in Int /\ fn \in Int /\ fm <= fn
  BY <1>1, CriteriaAssumption
<1> HIDE DEF fm, fn
<1>3. attack_line(m, "udp") = (IF fm >= attack_floors["udp"] THEN fm ELSE attack_floors["udp"])
  BY <1>1, <1>2, MaxOfTwo DEF attack_line, fm
<1>4. attack_line(n, "udp") = (IF fn >= attack_floors["udp"] THEN fn ELSE attack_floors["udp"])
  BY <1>1, <1>2, MaxOfTwo DEF attack_line, fn
<1>5. line(m, "udp") = (IF m["udp"] + Sigma >= floors["udp"] THEN m["udp"] + Sigma ELSE floors["udp"])
  BY <1>1, MaxOfTwo DEF line
<1>6. line(n, "udp") = (IF n["udp"] + Sigma >= floors["udp"] THEN n["udp"] + Sigma ELSE floors["udp"])
  BY <1>1, MaxOfTwo DEF line
<1> QED
  BY <1>1, <1>2, <1>3, <1>4, <1>5, <1>6

\* What an update of one or two fields makes of a port.
LEMMA ExpiredShape ==
  ASSUME NEW a, NEW b, NEW c, NEW d, NEW e, NEW f, NEW g, NEW h, NEW m, NEW u
  PROVE  [[prev |-> a, mean |-> b, cusum |-> c, streaks |-> d, window |-> e,
           stage |-> f, normal_for |-> g, relearn |-> h] EXCEPT !.relearn = u, !.mean = m]
         = [prev |-> a, mean |-> m, cusum |-> c, streaks |-> d, window |-> e,
            stage |-> f, normal_for |-> g, relearn |-> u]
<1> DEFINE P == [prev : {a}, mean : {b, m}, cusum : {c}, streaks : {d}, window : {e},
                 stage : {f}, normal_for : {g}, relearn : {h, u}]
<1>1. PICK p \in P : p = [prev |-> a, mean |-> b, cusum |-> c, streaks |-> d,
                          window |-> e, stage |-> f, normal_for |-> g, relearn |-> h]
  OBVIOUS
<1>2. [p EXCEPT !.relearn = u] \in P
  BY Zenon
<1>3. PICK q \in P : q = [p EXCEPT !.relearn = u]
  BY <1>2
<1>4. [q EXCEPT !.mean = m] \in P
  BY Zenon
<1>5. PICK r \in P : r = [q EXCEPT !.mean = m]
  BY <1>4
<1>6. /\ r.prev = a /\ r.mean = m /\ r.cusum = c /\ r.streaks = d /\ r.window = e
      /\ r.stage = f /\ r.normal_for = g /\ r.relearn = u
  BY <1>1, <1>3, <1>5
<1> QED
  BY <1>1, <1>3, <1>5, <1>6

\* The end of an approval touches the approval and the means of the volumes.
LEMMA ExpiredIs ==
  ASSUME NEW p \in Ports, IsPort(st[p])
  PROVE  /\ IsPort(Expired(p))
         /\ Expired(p).prev = st[p].prev /\ Expired(p).streaks = st[p].streaks
         /\ Expired(p).normal_for = st[p].normal_for
         /\ st[p].relearn # 0 => Expired(p) = st[p]
         /\ st[p].relearn = 0 =>
              /\ Expired(p).relearn = NoRelearn
              /\ \A ind \in WATCHED_INDICATORS :
                   Expired(p).mean[ind] = IF ind \in Volumes THEN base_mean[p][ind]
                                          ELSE st[p].mean[ind]
<1>1. CASE st[p].relearn # 0
  <2>1. Expired(p) = st[p]
    BY <1>1 DEF Expired
  <2> QED
    BY <1>1, <2>1
<1>2. CASE st[p].relearn = 0
  <2> DEFINE s == st[p]
             mean == [ind \in WATCHED_INDICATORS |->
                        IF ind \in Volumes THEN base_mean[p][ind] ELSE s.mean[ind]]
             e == [prev |-> s.prev, mean |-> mean, cusum |-> s.cusum,
                   streaks |-> s.streaks, window |-> s.window, stage |-> s.stage,
                   normal_for |-> s.normal_for, relearn |-> NoRelearn]
  <2>1. mean \in [WATCHED_INDICATORS -> Int]
    BY CriteriaAssumption DEF IsPort
  <2>2. Expired(p) = [s EXCEPT !.relearn = NoRelearn, !.mean = mean]
    BY <1>2 DEF Expired
  <2> HIDE DEF mean
  <2>3. s = [prev |-> s.prev, mean |-> s.mean, cusum |-> s.cusum, streaks |-> s.streaks,
             window |-> s.window, stage |-> s.stage, normal_for |-> s.normal_for,
             relearn |-> s.relearn]
    BY DEF IsPort
  <2>4. Expired(p) = e
    BY <2>2, <2>3, ExpiredShape
  <2>5. IsPort(e)
    BY <2>1 DEF IsPort, NoRelearn
  <2> QED
    BY <1>2, <2>4, <2>5 DEF mean
<1> QED
  BY <1>1, <1>2

\* What is given is a triple of its threat.
LEMMA GivenIs ==
  ASSUME NEW threat, NEW condition \in BOOLEAN, NEW value, NEW at,
         NEW e \in Given(threat, condition, value, at)
  PROVE  e = <<threat, value, at>> /\ e[1] = threat
BY DEF Given

\* The rules: every piece of evidence names one of the threats.
LEMMA EvidenceNamesThreats ==
  ASSUME NEW p, NEW r, NEW dt, NEW e \in Evidence(p, r, dt)
  PROVE  e[1] \in Threats
<1> DEFINE s == Expired(p)
           w == Recorded(s, r, dt)
           newest == Max({a \in Ages : 2 * a < 2 * scan_window_sec - dt})
           Recent(field) == Total(w, field, newest)
           Long(field) == Total(w, field, Max(Ages))
           scan ==
             Given("PORT_SCAN", Recent("fails") >= scan_min
                                /\ 2 * Recent("fails") >= Recent("probes"),
                   Recent("fails"), scan_min)
             \union Given("PORT_SCAN", Long("fails") >= scan_long_min /\ Recent("fails") > 0,
                          Long("fails"), scan_long_min)
             \union Given("PORT_SCAN", Recent("unreach") >= scan_unreach_min,
                          Recent("unreach"), scan_unreach_min)
           Flood(threat, ind) ==
             Given(threat, r[ind] >= attack_line(s.mean, ind) /\ r[ind] > line(s.mean, ind),
                   r[ind], attack_line(s.mean, ind))
           slowly == Given("SLOW_DDOS", slow_requests(p) >= slow_http_min,
                           slow_requests(p), slow_http_min)
           spread == Given("INTERNAL_SPREAD", Long("arp") >= spread_min /\ Recent("arp") > 0,
                           Long("arp"), spread_min)
           denied == Given("INTERNAL_SPREAD", Recent("zone") >= zone_deny_min,
                           Recent("zone"), zone_deny_min)
           syn == Given("SYN_FLOOD", Cusum(s, r, dt) >= cusum_h /\ scan = {},
                        r.gap, attack_line(s.mean, "gap"))
<1>1. Evidence(p, r, dt)
      = UNION {scan, slowly, spread, denied, syn, Flood("UDP_FLOOD", "udp"),
               Flood("ICMP_FLOOD", "icmp")}
  BY DEF Evidence
<1>2. \A threat, condition, value, at : \A x \in Given(threat, condition, value, at) : x[1] = threat
  BY DEF Given
<1>3. \A x \in scan : x[1] = "PORT_SCAN"
  BY <1>2
<1>4. \A x \in slowly : x[1] = "SLOW_DDOS"
  BY <1>2
<1>5. \A x \in spread \union denied : x[1] = "INTERNAL_SPREAD"
  BY <1>2
<1>6. \A x \in syn : x[1] = "SYN_FLOOD"
  BY <1>2
<1>7. (\A x \in Flood("UDP_FLOOD", "udp") : x[1] = "UDP_FLOOD")
      /\ (\A x \in Flood("ICMP_FLOOD", "icmp") : x[1] = "ICMP_FLOOD")
  BY <1>2
<1> HIDE DEF scan, slowly, spread, denied, syn, Flood
<1>8. \/ e \in scan \/ e \in slowly \/ e \in spread \union denied \/ e \in syn
      \/ e \in Flood("UDP_FLOOD", "udp") \/ e \in Flood("ICMP_FLOOD", "icmp")
  BY <1>1
<1> QED
  BY <1>3, <1>4, <1>5, <1>6, <1>7, <1>8 DEF Threats

\* A rate of UDP beyond both lines is evidence of a flood of UDP.
LEMMA FloodIsEvidence ==
  ASSUME NEW p, NEW r, NEW dt, r["udp"] >= attack_line(Expired(p).mean, "udp"),
         r["udp"] > line(Expired(p).mean, "udp")
  PROVE  "UDP_FLOOD" \in Candidates(Evidence(p, r, dt))
<1> DEFINE x == <<"UDP_FLOOD", r["udp"], attack_line(Expired(p).mean, "udp")>>
<1>1. x \in Given("UDP_FLOOD", r["udp"] >= attack_line(Expired(p).mean, "udp")
                               /\ r["udp"] > line(Expired(p).mean, "udp"),
                  r["udp"], attack_line(Expired(p).mean, "udp"))
  BY DEF Given
<1>2. x \in Evidence(p, r, dt)
  BY <1>1, Zenon DEF Evidence
<1>3. x[1] = "UDP_FLOOD"
  OBVIOUS
<1> QED
  BY <1>2, <1>3 DEF Candidates

\* One judgement of a port, in the terms of the properties.
Judged(p, c, dt, o) ==
  LET s == Expired(p)
      r == indicator_rates(c)
      candidates == Candidates(Evidence(p, r, dt))
      runs == Streaks(p, candidates)
      odd == Odd(p, s.mean, r, candidates)
      learning == ~odd /\ Reached(NormalFor(s, dt, odd), learn_resume_sec, dt)
  IN /\ o.port = [prev |-> 0, mean |-> o.port.mean, cusum |-> o.port.cusum,
                  streaks |-> runs, window |-> o.port.window, stage |-> o.port.stage,
                  normal_for |-> NormalFor(s, dt, odd), relearn |-> s.relearn]
     /\ o.port.mean = [ind \in WATCHED_INDICATORS |-> o.port.mean[ind]]
     /\ \A ind \in WATCHED_INDICATORS :
          \E moves \in BOOLEAN : o.port.mean[ind] = Learned(p, s, r, learning, moves)[ind]
     /\ o.decision.threat # NoThreat =>
          /\ o.decision.threat \in candidates
          /\ runs[o.decision.threat] >= confirm_intervals
     /\ (\E t \in candidates : runs[t] >= confirm_intervals) =>
          o.decision.threat # NoThreat /\ o.decision.stage \in {"WARNING", "DANGER"}

\* _evaluate judges so.
LEMMA OutcomesAreJudged ==
  ASSUME NEW p \in Ports, NEW c, NEW dt, NEW o \in Outcomes(p, c, dt)
  PROVE  Judged(p, c, dt, o)
<1> DEFINE s == Expired(p)
           r == indicator_rates(c)
           evidence == Evidence(p, r, dt)
           candidates == Candidates(evidence)
           counts == Streaks(p, candidates)
           confirmed == {e \in evidence : counts[e[1]] >= confirm_intervals}
           odd == Odd(p, s.mean, r, candidates)
           normal_for == NormalFor(s, dt, odd)
           learning == ~odd /\ Reached(normal_for, learn_resume_sec, dt)
           threats == IF confirmed = {} THEN {NoThreat} ELSE Candidates(Strongest(confirmed))
           stage == IF confirmed # {}
                    THEN IF service_degraded \/ \E e \in confirmed : Strong(e) THEN "DANGER"
                         ELSE "WARNING"
                    ELSE IF odd THEN "WATCH"
                    ELSE IF Reached(normal_for, watch_clear_sec, dt) THEN "NORMAL" ELSE s.stage
           moved == Learned(p, s, r, learning, TRUE)
           kept == Learned(p, s, r, learning, FALSE)
           Mean(moving) ==
             [ind \in WATCHED_INDICATORS |-> IF ind \in moving THEN moved[ind] ELSE kept[ind]]
<1>1. o \in [decision : {[stage |-> stage, threat |-> t] : t \in threats},
             port : {[prev |-> 0, mean |-> Mean(moving), cusum |-> Cusum(s, r, dt),
                      streaks |-> counts, window |-> Recorded(s, r, dt), stage |-> stage,
                      normal_for |-> normal_for, relearn |-> s.relearn] :
                       moving \in SUBSET {ind \in WATCHED_INDICATORS : moved[ind] # kept[ind]}}]
  BY DEF Outcomes
<1> HIDE DEF s, r, evidence, candidates, counts, confirmed, odd, normal_for, learning,
             threats, stage, moved, kept, Mean
<1>2. /\ o.decision \in {[stage |-> stage, threat |-> t] : t \in threats}
      /\ o.port \in {[prev |-> 0, mean |-> Mean(moving), cusum |-> Cusum(s, r, dt),
                      streaks |-> counts, window |-> Recorded(s, r, dt), stage |-> stage,
                      normal_for |-> normal_for, relearn |-> s.relearn] :
                       moving \in SUBSET {ind \in WATCHED_INDICATORS : moved[ind] # kept[ind]}}
  BY <1>1
<1>3. PICK t \in threats : o.decision = [stage |-> stage, threat |-> t]
  BY <1>2
<1>8. PICK moving \in SUBSET {ind \in WATCHED_INDICATORS : moved[ind] # kept[ind]} :
        o.port = [prev |-> 0, mean |-> Mean(moving), cusum |-> Cusum(s, r, dt),
                  streaks |-> counts, window |-> Recorded(s, r, dt), stage |-> stage,
                  normal_for |-> normal_for, relearn |-> s.relearn]
  BY <1>2
<1>9. o.port = [prev |-> 0, mean |-> o.port.mean, cusum |-> o.port.cusum,
                streaks |-> counts, window |-> o.port.window, stage |-> o.port.stage,
                normal_for |-> normal_for, relearn |-> s.relearn]
      /\ o.port.mean = Mean(moving)
  <2> DEFINE stays == Mean(moving)
             sum == Cusum(s, r, dt)
             window == Recorded(s, r, dt)
             quiet == normal_for
             until == s.relearn
  <2>1. o.port = [prev |-> 0, mean |-> stays, cusum |-> sum, streaks |-> counts,
                  window |-> window, stage |-> stage, normal_for |-> quiet,
                  relearn |-> until]
    BY <1>8
  <2> HIDE DEF stays, sum, window, quiet, until
  <2>2. o.port.mean = stays /\ o.port.cusum = sum /\ o.port.window = window
        /\ o.port.stage = stage
    BY <2>1
  <2>3. o.port = [prev |-> 0, mean |-> o.port.mean, cusum |-> o.port.cusum,
                  streaks |-> counts, window |-> o.port.window, stage |-> o.port.stage,
                  normal_for |-> quiet, relearn |-> until]
    BY <2>1, <2>2
  <2> QED
    BY <2>2, <2>3 DEF stays, quiet, until
<1>4. ASSUME NEW ind \in WATCHED_INDICATORS
      PROVE  \E moves \in BOOLEAN : o.port.mean[ind] = Learned(p, s, r, learning, moves)[ind]
  <2>1. o.port.mean[ind] = moved[ind] \/ o.port.mean[ind] = kept[ind]
    BY <1>9 DEF Mean
  <2>2. TRUE \in BOOLEAN /\ FALSE \in BOOLEAN
    OBVIOUS
  <2> QED
    BY <2>1, <2>2, Zenon DEF moved, kept
<1>5. o.port.mean = [ind \in WATCHED_INDICATORS |-> o.port.mean[ind]]
  BY <1>9 DEF Mean
<1>10. o.decision.stage = stage /\ o.decision.threat = t
  BY <1>3
<1>11. \A e \in confirmed : e \in evidence /\ counts[e[1]] >= confirm_intervals
  BY DEF confirmed
<1>12. confirmed # {} => \E e \in confirmed : t = e[1]
  BY <1>3 DEF threats, Candidates, Strongest
<1>13. confirmed = {} => t = NoThreat
  BY <1>3 DEF threats
<1>6. ASSUME o.decision.threat # NoThreat
      PROVE  /\ o.decision.threat \in candidates
             /\ counts[o.decision.threat] >= confirm_intervals
  <2>1. PICK e \in confirmed : t = e[1]
    BY <1>6, <1>10, <1>12, <1>13
  <2> QED
    BY <1>10, <1>11, <2>1 DEF candidates, Candidates
<1>7. ASSUME NEW u \in candidates, counts[u] >= confirm_intervals
      PROVE  o.decision.threat # NoThreat /\ o.decision.stage \in {"WARNING", "DANGER"}
  <2>1. PICK e \in evidence : u = e[1]
    BY DEF candidates, Candidates
  <2>2. confirmed # {}
    BY <1>7, <2>1 DEF confirmed
  <2>3. stage \in {"WARNING", "DANGER"}
    BY <2>2 DEF stage
  <2>4. t \in Threats
    BY <1>11, <1>12, <2>2, EvidenceNamesThreats DEF evidence
  <2>5. NoThreat \notin Threats
    BY DEF NoThreat, Threats
  <2> QED
    BY <1>10, <2>3, <2>4, <2>5
<1> QED
  BY <1>4, <1>5, <1>6, <1>7, <1>9, Zenon
     DEF Judged, s, r, evidence, candidates, counts, odd, normal_for, learning

\* A mean after a report: any that follows an approved change, else what it was
\* or, if there is learning, what it may become.
LEMMA LearnedIs ==
  ASSUME NEW p \in Ports, NEW s, IsPort(s), NEW r, NEW learning \in BOOLEAN,
         NEW moves \in BOOLEAN, NEW ind \in WATCHED_INDICATORS
  PROVE  /\ Learned(p, s, r, learning, moves)[ind] \in Int
         /\ ~(s.relearn # NoRelearn /\ ind \in Volumes) =>
              \/ Learned(p, s, r, learning, moves)[ind] = s.mean[ind]
              \/ learning /\ Bounded(p, ind, Learned(p, s, r, learning, moves)[ind])
<1> DEFINE m == IF moves THEN Toward(s.mean[ind], r[ind]) ELSE s.mean[ind]
           relearned == s.relearn # NoRelearn /\ ind \in Volumes
<1>1. Learned(p, s, r, learning, moves)[ind] =
        IF relearned /\ Followable(s.mean, ind, r[ind]) THEN m
        ELSE IF learning /\ ~relearned THEN Updated(p, ind, m)
        ELSE s.mean[ind]
  BY DEF Learned
<1>2. s.mean[ind] \in Int
  BY DEF IsPort
<1>3. m \in Int
  BY <1>2 DEF Toward
<1> HIDE DEF m, relearned
<1>4. Bounded(p, ind, Updated(p, ind, m))
  BY <1>3, UpdatedIsBounded
<1>5. Updated(p, ind, m) \in Int
  BY <1>4, LimitsAre DEF Bounded
<1> QED
  BY <1>1, <1>2, <1>3, <1>4, <1>5 DEF relearned

\* What a judgement does to its port, for the invariant and the properties.
LEMMA JudgedKeeps ==
  ASSUME WorkerInv, NEW p \in Ports, NEW c \in Counts, NEW dt, dt = st[p].prev, dt > 0,
         NEW o, Judged(p, c, dt, o)
  PROVE  /\ IsPort(o.port) /\ o.port.prev = 0
         /\ PortBounded(p, o.port)
         /\ PortMatched(o.port, Candidates(Evidence(p, indicator_rates(c), dt)))
         /\ IsFlood(p, c) /\ o.port.relearn = NoRelearn =>
              o.port.streaks["UDP_FLOOD"] = Aged(st[p].streaks["UDP_FLOOD"], confirm_intervals)
         /\ o.port.streaks["UDP_FLOOD"] >= confirm_intervals =>
              o.decision.threat # NoThreat /\ o.decision.stage \in {"WARNING", "DANGER"}
         /\ o.decision.threat # NoThreat =>
              /\ o.decision.threat \in matched[p]
              /\ o.decision.threat \in Candidates(Evidence(p, indicator_rates(c), dt))
              /\ o.port.normal_for = 0
         /\ o.port.normal_for <= st[p].normal_for + dt
         /\ \/ st[p].relearn # NoRelearn
            \/ \A ind \in WATCHED_INDICATORS : o.port.mean[ind] = st[p].mean[ind]
            \/ 2 * o.port.normal_for >= 2 * learn_resume_sec - dt
<1> DEFINE s == Expired(p)
           r == indicator_rates(c)
           candidates == Candidates(Evidence(p, r, dt))
           runs == Streaks(p, candidates)
           odd == Odd(p, s.mean, r, candidates)
           quiet == NormalFor(s, dt, odd)
           learning == ~odd /\ Reached(quiet, learn_resume_sec, dt)
<1>1. /\ IsPort(st[p]) /\ PortBounded(p, st[p]) /\ PortMatched(st[p], matched[p])
      /\ matched[p] \in SUBSET Threats
  BY DEF WorkerInv, WorkerTyped
<1>2. dt \in 1..MaxGap /\ MaxGap \in Nat /\ dt \in Nat
  BY <1>1, WorkerAssumption DEF IsPort
<1>3. /\ IsPort(s) /\ s.streaks = st[p].streaks /\ s.normal_for = st[p].normal_for
      /\ st[p].relearn # 0 => s = st[p]
      /\ st[p].relearn = 0 =>
           /\ s.relearn = NoRelearn
           /\ \A ind \in WATCHED_INDICATORS :
                s.mean[ind] = IF ind \in Volumes THEN base_mean[p][ind] ELSE st[p].mean[ind]
  BY <1>1, ExpiredIs
<1>4. /\ o.port = [prev |-> 0, mean |-> o.port.mean, cusum |-> o.port.cusum,
                   streaks |-> runs, window |-> o.port.window, stage |-> o.port.stage,
                   normal_for |-> quiet, relearn |-> s.relearn]
      /\ o.port.mean = [ind \in WATCHED_INDICATORS |-> o.port.mean[ind]]
      /\ \A ind \in WATCHED_INDICATORS :
           \E moves \in BOOLEAN : o.port.mean[ind] = Learned(p, s, r, learning, moves)[ind]
      /\ o.decision.threat # NoThreat =>
           o.decision.threat \in candidates /\ runs[o.decision.threat] >= confirm_intervals
      /\ (\E t \in candidates : runs[t] >= confirm_intervals) =>
           o.decision.threat # NoThreat /\ o.decision.stage \in {"WARNING", "DANGER"}
  BY Zenon DEF Judged
<1>5. odd \in BOOLEAN /\ (candidates # {} => odd)
  BY DEF Odd
<1>6. candidates \subseteq Threats
  BY EvidenceNamesThreats DEF Candidates
<1>7. /\ IsFlood(p, c) /\ s.relearn = NoRelearn => "UDP_FLOOD" \in candidates
  <2> SUFFICES ASSUME IsFlood(p, c), s.relearn = NoRelearn PROVE "UDP_FLOOD" \in candidates
    OBVIOUS
  <2> DEFINE highest == [ind \in WATCHED_INDICATORS |-> cap_multiplier * base_mean[p][ind]]
  <2>1. "udp" \in WATCHED_INDICATORS /\ "udp" \in Volumes
    BY DEF WATCHED_INDICATORS, Volumes
  <2>2. highest \in [WATCHED_INDICATORS -> Int]
    BY CriteriaAssumption
  <2>3. base_mean[p]["udp"] \in Nat /\ cap_multiplier * base_mean[p]["udp"] \in Nat
        /\ base_mean[p]["udp"] <= cap_multiplier * base_mean[p]["udp"]
        /\ Limits(p, "udp") = base_mean[p]["udp"]..(cap_multiplier * base_mean[p]["udp"])
    BY <2>1, VolumeLimits, LimitsAre
  <2>4. s.mean \in [WATCHED_INDICATORS -> Int]
    BY <1>3 DEF IsPort
  <2>5. s.mean["udp"] <= highest["udp"]
    <3>1. CASE st[p].relearn = 0
      BY <3>1, <2>1, <2>3, <1>3
    <3>2. CASE st[p].relearn # 0
      <4>1. s = st[p]
        BY <3>2, <1>3
      <4> QED
        BY <4>1, <1>1, <2>1, <2>3 DEF PortBounded, Bounded
    <3> QED
      BY <3>1, <3>2
  <2>6. r["udp"] = c.udp /\ c.udp \in Nat
    <3>1. c \in Reports
      BY WorkerAssumption
    <3> QED
      BY <3>1 DEF Reports, indicator_rates
  <2>7. c.udp >= attack_line(highest, "udp") /\ c.udp > line(highest, "udp")
    BY DEF IsFlood
  <2> HIDE DEF s, r, highest
  <2>8. /\ attack_line(s.mean, "udp") \in Int /\ attack_line(highest, "udp") \in Int
        /\ line(s.mean, "udp") \in Int /\ line(highest, "udp") \in Int
        /\ attack_line(s.mean, "udp") <= attack_line(highest, "udp")
        /\ line(s.mean, "udp") <= line(highest, "udp")
    BY <2>2, <2>4, <2>5, LinesRise
  <2>9. r["udp"] >= attack_line(s.mean, "udp") /\ r["udp"] > line(s.mean, "udp")
    BY <2>6, <2>7, <2>8
  <2> QED
    BY <2>9, FloodIsEvidence DEF s
<1>8. /\ runs \in [Threats -> Nat]
      /\ \A t \in Threats : runs[t] = IF t \in candidates
                                      THEN Aged(st[p].streaks[t], confirm_intervals) ELSE 0
  BY <1>1, CriteriaAssumption DEF Streaks, Aged, IsPort
<1>9. quiet \in Nat /\ quiet <= st[p].normal_for + dt /\ (odd => quiet = 0)
      /\ st[p].normal_for \in Nat
  <2>1. s.normal_for \in Nat /\ learn_resume_sec \in Nat
    BY <1>3, CriteriaAssumption DEF IsPort
  <2>2. Min({s.normal_for + dt, learn_resume_sec}) =
          IF s.normal_for + dt <= learn_resume_sec THEN s.normal_for + dt ELSE learn_resume_sec
    BY <1>2, <2>1, MinOfTwo
  <2> QED
    BY <1>2, <1>3, <2>1, <2>2 DEF NormalFor
<1> HIDE DEF runs, odd, quiet, learning, candidates, s, r
<1>10. /\ o.port.prev = 0 /\ o.port.streaks = runs /\ o.port.normal_for = quiet
       /\ o.port.relearn = s.relearn
  BY <1>4
<1>11. ASSUME NEW ind \in WATCHED_INDICATORS
       PROVE  /\ o.port.mean[ind] \in Int
              /\ ~(s.relearn # NoRelearn /\ ind \in Volumes) =>
                   \/ o.port.mean[ind] = s.mean[ind]
                   \/ learning /\ Bounded(p, ind, o.port.mean[ind])
  <2>1. PICK moves \in BOOLEAN : o.port.mean[ind] = Learned(p, s, r, learning, moves)[ind]
    BY <1>4
  <2>2. learning \in BOOLEAN
    BY DEF learning
  <2> QED
    BY <1>3, <2>1, <2>2, LearnedIs
<1>12. IsPort(o.port)
  <2>1. o.port.mean \in [WATCHED_INDICATORS -> Int]
    BY <1>4, <1>11
  <2>2. o.port = [prev |-> o.port.prev, mean |-> o.port.mean, cusum |-> o.port.cusum,
                  streaks |-> o.port.streaks, window |-> o.port.window,
                  stage |-> o.port.stage, normal_for |-> o.port.normal_for,
                  relearn |-> o.port.relearn]
    BY <1>4, <1>10
  <2>3. s.relearn \in Nat \union {NoRelearn}
    BY <1>3 DEF IsPort
  <2> QED
    BY <1>2, <1>8, <1>9, <1>10, <2>1, <2>2, <2>3 DEF IsPort
<1>13. PortBounded(p, o.port)
  <2> SUFFICES ASSUME NEW ind \in WATCHED_INDICATORS, ind \in Volumes => s.relearn = NoRelearn
               PROVE  Bounded(p, ind, o.port.mean[ind])
    BY <1>10 DEF PortBounded
  <2>1. Bounded(p, ind, base_mean[p][ind])
    BY LimitsAre DEF Bounded
  <2>2. Bounded(p, ind, s.mean[ind])
    <3>1. CASE st[p].relearn # 0
      <4>1. s = st[p]
        BY <3>1, <1>3
      <4> QED
        BY <4>1, <1>1 DEF PortBounded
    <3>2. CASE st[p].relearn = 0 /\ ind \in Volumes
      BY <3>2, <1>3, <2>1
    <3>3. CASE st[p].relearn = 0 /\ ind \notin Volumes
      BY <3>3, <1>1, <1>3 DEF PortBounded
    <3> QED
      BY <3>1, <3>2, <3>3
  <2> QED
    BY <1>11, <2>2
<1>14. PortMatched(o.port, candidates)
  BY <1>8, <1>10 DEF PortMatched
<1>15. IsFlood(p, c) /\ o.port.relearn = NoRelearn =>
         o.port.streaks["UDP_FLOOD"] = Aged(st[p].streaks["UDP_FLOOD"], confirm_intervals)
  BY <1>7, <1>8, <1>10 DEF Threats
<1>16. o.port.streaks["UDP_FLOOD"] >= confirm_intervals =>
         o.decision.threat # NoThreat /\ o.decision.stage \in {"WARNING", "DANGER"}
  <2>1. runs["UDP_FLOOD"] >= confirm_intervals => "UDP_FLOOD" \in candidates
    BY <1>8, CriteriaAssumption DEF Threats
  <2> QED
    BY <1>4, <1>10, <2>1
<1>17. ASSUME o.decision.threat # NoThreat
       PROVE  /\ o.decision.threat \in matched[p] /\ o.decision.threat \in candidates
              /\ quiet = 0
  <2> DEFINE t == o.decision.threat
  <2>1. t \in candidates /\ t \in Threats /\ runs[t] >= confirm_intervals
    BY <1>4, <1>6, <1>17
  <2>2. quiet = 0
    BY <1>5, <1>9, <2>1
  <2>3. st[p].streaks[t] \in Nat
    BY <1>1, <2>1 DEF IsPort
  <2>4. st[p].streaks[t] > 0
    BY <1>8, <2>1, <2>3, CriteriaAssumption DEF Aged
  <2> QED
    BY <1>1, <2>1, <2>2, <2>4 DEF PortMatched
<1>18. \/ st[p].relearn # NoRelearn
       \/ \A ind \in WATCHED_INDICATORS : o.port.mean[ind] = st[p].mean[ind]
       \/ 2 * quiet >= 2 * learn_resume_sec - dt
  <2> SUFFICES ASSUME st[p].relearn = NoRelearn, ~learning
               PROVE  \A ind \in WATCHED_INDICATORS : o.port.mean[ind] = st[p].mean[ind]
    BY DEF learning, Reached
  <2>1. s = st[p]
    BY <1>3 DEF NoRelearn
  <2> QED
    BY <1>11, <2>1
<1> QED
  BY <1>9, <1>10, <1>12, <1>13, <1>14, <1>15, <1>16, <1>17, <1>18 DEF candidates, r

-----------------------------------------------------------------------------
(***************************************************************************)
(* The worker: steps.                                                      *)
(***************************************************************************)

\* What is known of one port, and of the whole: the invariant again.
PortKnown(p) ==
  /\ IsPort(st[p])
  /\ PortBounded(p, st[p])
  /\ PortMatched(st[p], matched[p])
  /\ flooded[p] <= st[p].streaks["UDP_FLOOD"]
  /\ flooded[p] >= confirm_intervals => Alerting(p)
  /\ PortQuiet(st[p], alerted[p])
WorkerFunctions ==
  /\ st = [p \in Ports |-> st[p]]
  /\ last_decisions = [p \in Ports |-> last_decisions[p]]
  /\ matched \in [Ports -> SUBSET Threats]
  /\ flooded \in [Ports -> Nat]
  /\ alerted \in [Ports -> 0..learn_resume_sec]

\* The two together are the invariant, in this state and in the next.
LEMMA WorkerParts ==
  /\ WorkerInv <=> WorkerFunctions /\ \A p \in Ports : PortKnown(p)
  /\ WorkerInv' <=> WorkerFunctions' /\ \A p \in Ports : PortKnown(p)'
BY DEF WorkerInv, WorkerTyped, WorkerFunctions, PortKnown

\* What the two action properties say of one port.
LearnsQuietly(p) ==
  (/\ st[p].relearn = NoRelearn
   /\ \E ind \in WATCHED_INDICATORS :
        st'[p].mean[ind] \notin {st[p].mean[ind], base_mean[p][ind]})
  => 2 * alerted[p] + MaxGap >= 2 * learn_resume_sec
AlertsConfirmed(p) ==
  Alerting(p)' /\ last_decisions'[p] # last_decisions[p] =>
    last_decisions'[p].threat \in matched[p] \intersect matched'[p]

\* A report of one port.
LEMMA PortReportedKeeps ==
  ASSUME WorkerInv, NEW p \in Ports, NEW c \in Counts, Report(p, c)
  PROVE  WorkerInv' /\ \A q \in Ports : LearnsQuietly(q) /\ AlertsConfirmed(q)
<1> DEFINE dt == st[p].prev
           candidates == Candidates(Evidence(p, indicator_rates(c), dt))
<1>1. WorkerFunctions /\ \A q \in Ports : PortKnown(q)
  BY WorkerParts
<1>2. dt > 0 /\ dt \in 1..MaxGap /\ MaxGap \in Nat
  <2>1. MaxGap \in Nat
    BY WorkerAssumption
  <2>2. dt \in -1..MaxGap
    BY <1>1 DEF PortKnown, IsPort
  <2>3. dt > 0
    BY Zenon DEF Report, process_counts
  <2> QED
    BY <2>1, <2>2, <2>3
<1>3. PICK o \in Outcomes(p, c, dt) : /\ last_decisions' = [last_decisions EXCEPT ![p] = o.decision]
                                      /\ st' = [st EXCEPT ![p] = o.port]
  BY DEF Report, process_counts, Evaluate
<1>4. Judged(p, c, dt, o)
  BY OutcomesAreJudged
<1>5. /\ matched' = [matched EXCEPT ![p] = candidates]
      /\ flooded' = [flooded EXCEPT ![p] =
                       IF IsFlood(p, c) /\ st'[p].relearn = NoRelearn
                       THEN Aged(@, confirm_intervals) ELSE 0]
      /\ alerted' = [alerted EXCEPT ![p] = IF Alerting(p)' THEN 0 ELSE @]
  BY DEF Report
<1>6. candidates \in SUBSET Threats
  BY EvidenceNamesThreats DEF Candidates
<1> HIDE DEF candidates
<1>7. /\ IsPort(o.port) /\ o.port.prev = 0
      /\ PortBounded(p, o.port)
      /\ PortMatched(o.port, candidates)
      /\ IsFlood(p, c) /\ o.port.relearn = NoRelearn =>
           o.port.streaks["UDP_FLOOD"] = Aged(st[p].streaks["UDP_FLOOD"], confirm_intervals)
      /\ o.port.streaks["UDP_FLOOD"] >= confirm_intervals =>
           o.decision.threat # NoThreat /\ o.decision.stage \in {"WARNING", "DANGER"}
      /\ o.decision.threat # NoThreat =>
           /\ o.decision.threat \in matched[p]
           /\ o.decision.threat \in candidates
           /\ o.port.normal_for = 0
      /\ o.port.normal_for <= st[p].normal_for + dt
      /\ \/ st[p].relearn # NoRelearn
         \/ \A ind \in WATCHED_INDICATORS : o.port.mean[ind] = st[p].mean[ind]
         \/ 2 * o.port.normal_for >= 2 * learn_resume_sec - dt
  BY <1>2, <1>4, JudgedKeeps DEF candidates
<1>8. ASSUME NEW q \in Ports
      PROVE  /\ st'[q] = IF q = p THEN o.port ELSE st[q]
             /\ last_decisions'[q] = IF q = p THEN o.decision ELSE last_decisions[q]
             /\ matched'[q] = IF q = p THEN candidates ELSE matched[q]
             /\ q # p => flooded'[q] = flooded[q] /\ alerted'[q] = alerted[q]
  <2>1. st = [r \in Ports |-> st[r]] /\ last_decisions = [r \in Ports |-> last_decisions[r]]
    BY <1>1 DEF WorkerFunctions
  <2>2. st'[q] = IF q = p THEN o.port ELSE st[q]
    BY <1>3, <2>1
  <2>3. last_decisions'[q] = IF q = p THEN o.decision ELSE last_decisions[q]
    BY <1>3, <2>1
  <2> QED
    BY <1>1, <1>5, <2>2, <2>3 DEF WorkerFunctions
<1>9. /\ flooded'[p] = IF IsFlood(p, c) /\ o.port.relearn = NoRelearn
                       THEN Aged(flooded[p], confirm_intervals) ELSE 0
      /\ alerted'[p] = IF Alerting(p)' THEN 0 ELSE alerted[p]
      /\ Alerting(p)' <=> o.decision.stage \in {"WARNING", "DANGER"}
                          /\ o.decision.threat # NoThreat
  <2>1. st'[p] = o.port /\ last_decisions'[p] = o.decision
    BY <1>8
  <2>2. Alerting(p)' <=> o.decision.stage \in {"WARNING", "DANGER"}
                         /\ o.decision.threat # NoThreat
    BY <2>1 DEF Alerting, NoThreat
  <2>3. flooded'[p] = IF IsFlood(p, c) /\ o.port.relearn = NoRelearn
                      THEN Aged(flooded[p], confirm_intervals) ELSE 0
    BY <1>1, <1>5, <2>1 DEF WorkerFunctions
  <2>4. alerted'[p] = IF Alerting(p)' THEN 0 ELSE alerted[p]
    BY <1>1, <1>5 DEF WorkerFunctions
  <2> QED
    BY <2>2, <2>3, <2>4
<1>10. /\ flooded[p] \in Nat /\ alerted[p] \in 0..learn_resume_sec
       /\ learn_resume_sec \in Nat /\ confirm_intervals \in Nat \ {0, 1}
       /\ st[p].streaks["UDP_FLOOD"] \in Nat /\ o.port.streaks["UDP_FLOOD"] \in Nat
       /\ st[p].normal_for \in Nat /\ o.port.normal_for \in Nat
  <2>1. "UDP_FLOOD" \in Threats
    BY DEF Threats
  <2> QED
    BY <1>1, <1>7, <2>1, CriteriaAssumption DEF WorkerFunctions, PortKnown, IsPort
<1>11. WorkerFunctions'
  <2>1. st' = [q \in Ports |-> st'[q]]
    <3>1. st = [r \in Ports |-> st[r]]
      BY <1>1 DEF WorkerFunctions
    <3> QED
      BY <1>3, <3>1, Zenon
  <2>2. last_decisions' = [q \in Ports |-> last_decisions'[q]]
    <3>1. last_decisions = [r \in Ports |-> last_decisions[r]]
      BY <1>1 DEF WorkerFunctions
    <3> QED
      BY <1>3, <3>1, Zenon
  <2>3. matched' \in [Ports -> SUBSET Threats]
    BY <1>1, <1>5, <1>6 DEF WorkerFunctions
  <2>4. flooded' \in [Ports -> Nat]
    <3>1. flooded'[p] \in Nat
      BY <1>9, <1>10 DEF Aged
    <3> QED
      BY <1>1, <1>5, <3>1 DEF WorkerFunctions
  <2>5. alerted' \in [Ports -> 0..learn_resume_sec]
    <3>1. alerted'[p] \in 0..learn_resume_sec
      BY <1>9, <1>10
    <3> QED
      BY <1>1, <1>5, <3>1 DEF WorkerFunctions
  <2> QED
    BY <2>1, <2>2, <2>3, <2>4, <2>5 DEF WorkerFunctions
<1>12. PortKnown(p)'
  <2>1. st'[p] = o.port /\ matched'[p] = candidates
    BY <1>8
  <2>2. flooded'[p] <= o.port.streaks["UDP_FLOOD"]
    <3>1. flooded[p] <= st[p].streaks["UDP_FLOOD"]
      BY <1>1 DEF PortKnown
    <3> QED
      BY <1>7, <1>9, <1>10, <3>1 DEF Aged
  <2>3. flooded'[p] >= confirm_intervals => Alerting(p)'
    <3>1. flooded'[p] \in Int
      BY <1>9, <1>10 DEF Aged
    <3> QED
      BY <1>7, <1>9, <1>10, <2>2, <3>1
  <2>4. PortQuiet(o.port, alerted'[p])
    <3>1. CASE Alerting(p)'
      <4>1. o.port.normal_for = 0 /\ alerted'[p] = 0
        BY <1>7, <1>9, <3>1
      <4> QED
        BY <1>7, <4>1 DEF PortQuiet
    <3>2. CASE ~Alerting(p)'
      <4>1. alerted'[p] = alerted[p]
        BY <1>9, <3>2
      <4>2. PortQuiet(st[p], alerted[p])
        BY <1>1 DEF PortKnown
      <4> QED
        BY <1>2, <1>7, <1>10, <4>1, <4>2 DEF PortQuiet
    <3> QED
      BY <3>1, <3>2
  <2> QED
    BY <1>7, <2>1, <2>2, <2>3, <2>4 DEF PortKnown
<1>13. ASSUME NEW q \in Ports, q # p PROVE PortKnown(q)'
  <2>1. /\ st'[q] = st[q] /\ last_decisions'[q] = last_decisions[q]
        /\ matched'[q] = matched[q] /\ flooded'[q] = flooded[q] /\ alerted'[q] = alerted[q]
    BY <1>8, <1>13
  <2> QED
    BY <1>1, <2>1 DEF PortKnown, Alerting
<1>14. LearnsQuietly(p) /\ AlertsConfirmed(p)
  <2>1. LearnsQuietly(p)
    <3> SUFFICES ASSUME st[p].relearn = NoRelearn,
                        NEW ind \in WATCHED_INDICATORS, o.port.mean[ind] # st[p].mean[ind]
                 PROVE  2 * alerted[p] + MaxGap >= 2 * learn_resume_sec
      BY <1>8 DEF LearnsQuietly
    <3>1. o.port.mean[ind] \in Int /\ st[p].mean[ind] \in Int
      BY <1>1, <1>7 DEF PortKnown, IsPort
    <3>2. 2 * o.port.normal_for >= 2 * learn_resume_sec - dt
      BY <1>7, <3>1
    <3>3. PortQuiet(st[p], alerted[p])
      BY <1>1 DEF PortKnown
    <3> QED
      BY <1>2, <1>7, <1>10, <3>2, <3>3 DEF PortQuiet
  <2>2. AlertsConfirmed(p)
    BY <1>7, <1>8, <1>9 DEF AlertsConfirmed
  <2> QED
    BY <2>1, <2>2
<1>15. ASSUME NEW q \in Ports, q # p PROVE LearnsQuietly(q) /\ AlertsConfirmed(q)
  <2>1. st'[q] = st[q] /\ last_decisions'[q] = last_decisions[q]
    BY <1>8, <1>15
  <2>2. \A ind \in WATCHED_INDICATORS : st[q].mean[ind] \in Int
    BY <1>1 DEF PortKnown, IsPort
  <2> QED
    BY <2>1, <2>2 DEF LearnsQuietly, AlertsConfirmed
<1> QED
  BY <1>11, <1>12, <1>13, <1>14, <1>15, WorkerParts

\* What the record of a port is with another time of the last report.
LEMMA PrevShape ==
  ASSUME NEW a, NEW b, NEW c, NEW d, NEW e, NEW f, NEW g, NEW h, NEW u
  PROVE  [[prev |-> a, mean |-> b, cusum |-> c, streaks |-> d, window |-> e,
           stage |-> f, normal_for |-> g, relearn |-> h] EXCEPT !.prev = u]
         = [prev |-> u, mean |-> b, cusum |-> c, streaks |-> d, window |-> e,
            stage |-> f, normal_for |-> g, relearn |-> h]
<1> DEFINE P == [prev : {a, u}, mean : {b}, cusum : {c}, streaks : {d}, window : {e},
                 stage : {f}, normal_for : {g}, relearn : {h}]
<1>1. PICK p \in P : p = [prev |-> a, mean |-> b, cusum |-> c, streaks |-> d,
                          window |-> e, stage |-> f, normal_for |-> g, relearn |-> h]
  OBVIOUS
<1>2. [p EXCEPT !.prev = u] \in P
  BY Zenon
<1>3. PICK q \in P : q = [p EXCEPT !.prev = u]
  BY <1>2
<1>4. /\ q.prev = u /\ q.mean = b /\ q.cusum = c /\ q.streaks = d /\ q.window = e
      /\ q.stage = f /\ q.normal_for = g /\ q.relearn = h
  BY <1>1, <1>3
<1> QED
  BY <1>1, <1>3, <1>4

\* The same with another approval,
LEMMA RelearnShape ==
  ASSUME NEW a, NEW b, NEW c, NEW d, NEW e, NEW f, NEW g, NEW h, NEW u
  PROVE  [[prev |-> a, mean |-> b, cusum |-> c, streaks |-> d, window |-> e,
           stage |-> f, normal_for |-> g, relearn |-> h] EXCEPT !.relearn = u]
         = [prev |-> a, mean |-> b, cusum |-> c, streaks |-> d, window |-> e,
            stage |-> f, normal_for |-> g, relearn |-> u]
<1> DEFINE P == [prev : {a}, mean : {b}, cusum : {c}, streaks : {d}, window : {e},
                 stage : {f}, normal_for : {g}, relearn : {h, u}]
<1>1. PICK p \in P : p = [prev |-> a, mean |-> b, cusum |-> c, streaks |-> d,
                          window |-> e, stage |-> f, normal_for |-> g, relearn |-> h]
  OBVIOUS
<1>2. [p EXCEPT !.relearn = u] \in P
  BY Zenon
<1>3. PICK q \in P : q = [p EXCEPT !.relearn = u]
  BY <1>2
<1>4. /\ q.prev = a /\ q.mean = b /\ q.cusum = c /\ q.streaks = d /\ q.window = e
      /\ q.stage = f /\ q.normal_for = g /\ q.relearn = u
  BY <1>1, <1>3
<1> QED
  BY <1>1, <1>3, <1>4

\* with another window,
LEMMA WindowShape ==
  ASSUME NEW a, NEW b, NEW c, NEW d, NEW e, NEW f, NEW g, NEW h, NEW u
  PROVE  [[prev |-> a, mean |-> b, cusum |-> c, streaks |-> d, window |-> e,
           stage |-> f, normal_for |-> g, relearn |-> h] EXCEPT !.window = u]
         = [prev |-> a, mean |-> b, cusum |-> c, streaks |-> d, window |-> u,
            stage |-> f, normal_for |-> g, relearn |-> h]
<1> DEFINE P == [prev : {a}, mean : {b}, cusum : {c}, streaks : {d}, window : {e, u},
                 stage : {f}, normal_for : {g}, relearn : {h}]
<1>1. PICK p \in P : p = [prev |-> a, mean |-> b, cusum |-> c, streaks |-> d,
                          window |-> e, stage |-> f, normal_for |-> g, relearn |-> h]
  OBVIOUS
<1>2. [p EXCEPT !.window = u] \in P
  BY Zenon
<1>3. PICK q \in P : q = [p EXCEPT !.window = u]
  BY <1>2
<1>4. /\ q.prev = a /\ q.mean = b /\ q.cusum = c /\ q.streaks = d /\ q.window = u
      /\ q.stage = f /\ q.normal_for = g /\ q.relearn = h
  BY <1>1, <1>3
<1> QED
  BY <1>1, <1>3, <1>4

\* and with the three that a tick changes.
LEMMA TickShape ==
  ASSUME NEW a, NEW b, NEW c, NEW d, NEW e, NEW f, NEW g, NEW h, NEW u, NEW v, NEW w
  PROVE  [[prev |-> a, mean |-> b, cusum |-> c, streaks |-> d, window |-> e,
           stage |-> f, normal_for |-> g, relearn |-> h]
            EXCEPT !.prev = u, !.window = v, !.relearn = w]
         = [prev |-> u, mean |-> b, cusum |-> c, streaks |-> d, window |-> v,
            stage |-> f, normal_for |-> g, relearn |-> w]
<1> DEFINE P == [prev : {a, u}, mean : {b}, cusum : {c}, streaks : {d}, window : {e, v},
                 stage : {f}, normal_for : {g}, relearn : {h, w}]
<1>1. PICK p \in P : p = [prev |-> a, mean |-> b, cusum |-> c, streaks |-> d,
                          window |-> e, stage |-> f, normal_for |-> g, relearn |-> h]
  OBVIOUS
<1>2. [p EXCEPT !.prev = u] \in P
  BY Zenon
<1>3. PICK q \in P : q = [p EXCEPT !.prev = u]
  BY <1>2
<1>4. [q EXCEPT !.window = v] \in P
  BY Zenon
<1>5. PICK r \in P : r = [q EXCEPT !.window = v]
  BY <1>4
<1>6. [r EXCEPT !.relearn = w] \in P
  BY Zenon
<1>7. PICK s \in P : s = [r EXCEPT !.relearn = w]
  BY <1>6
<1>8. /\ q.prev = u /\ q.mean = b /\ q.cusum = c /\ q.streaks = d /\ q.window = e
      /\ q.stage = f /\ q.normal_for = g /\ q.relearn = h
  BY <1>1, <1>3
<1>9. /\ r.prev = u /\ r.mean = b /\ r.cusum = c /\ r.streaks = d /\ r.window = v
      /\ r.stage = f /\ r.normal_for = g /\ r.relearn = h
  BY <1>5, <1>8
<1>10. /\ s.prev = u /\ s.mean = b /\ s.cusum = c /\ s.streaks = d /\ s.window = v
       /\ s.stage = f /\ s.normal_for = g /\ s.relearn = w
  BY <1>7, <1>9
<1>11. s = [prev |-> u, mean |-> b, cusum |-> c, streaks |-> d, window |-> v,
            stage |-> f, normal_for |-> g, relearn |-> w]
  BY <1>10
<1>12. s = [p EXCEPT !.prev = u, !.window = v, !.relearn = w]
  BY <1>3, <1>5, <1>7, Zenon
<1> QED
  BY <1>1, <1>11, <1>12

\* A report that cannot be compared.
LEMMA NotComparableKeeps ==
  ASSUME WorkerInv, NEW p \in Ports, NotComparable(p), UNCHANGED <<matched, flooded, alerted>>
  PROVE  /\ WorkerInv'
         /\ \A q \in Ports : /\ st'[q].mean = st[q].mean
                             /\ last_decisions'[q] = last_decisions[q]
<1>1. WorkerFunctions /\ \A q \in Ports : PortKnown(q)
  BY WorkerParts
<1>2. st' = [st EXCEPT ![p].prev = 0] /\ last_decisions' = last_decisions
      /\ matched' = matched /\ flooded' = flooded /\ alerted' = alerted
  BY DEF NotComparable
<1>3. st = [q \in Ports |-> st[q]] /\ MaxGap \in Nat
  BY <1>1, WorkerAssumption DEF WorkerFunctions
<1>4. PICK s : s = [st[p] EXCEPT !.prev = 0]
  OBVIOUS
<1>5. /\ s = [prev |-> 0, mean |-> st[p].mean, cusum |-> st[p].cusum,
              streaks |-> st[p].streaks, window |-> st[p].window, stage |-> st[p].stage,
              normal_for |-> st[p].normal_for, relearn |-> st[p].relearn]
  BY <1>1, <1>4, PrevShape DEF PortKnown, IsPort
<1>6. /\ s.prev = 0 /\ s.mean = st[p].mean /\ s.streaks = st[p].streaks
      /\ s.normal_for = st[p].normal_for /\ s.relearn = st[p].relearn
      /\ s.cusum = st[p].cusum /\ s.window = st[p].window /\ s.stage = st[p].stage
  BY <1>5
<1>7. ASSUME NEW q \in Ports PROVE st'[q] = IF q = p THEN s ELSE st[q]
  BY <1>2, <1>3, <1>4
<1>8. IsPort(s)
  BY <1>1, <1>3, <1>5, <1>6 DEF PortKnown, IsPort
<1>9. WorkerFunctions'
  <2>1. st' = [q \in Ports |-> st'[q]]
    BY <1>2, <1>3, Zenon
  <2> QED
    BY <1>1, <1>2, <2>1 DEF WorkerFunctions
<1>10. PortKnown(p)'
  <2>1. PortKnown(p) /\ st[p].normal_for \in Nat /\ st[p].prev \in Int
        /\ alerted[p] \in 0..learn_resume_sec /\ learn_resume_sec \in Nat
    BY <1>1, <1>3, CriteriaAssumption DEF PortKnown, IsPort, WorkerFunctions
  <2>2. st'[p] = s
    BY <1>7
  <2>3. PortQuiet(s, alerted[p])
    BY <1>6, <2>1 DEF PortKnown, PortQuiet
  <2>4. PortBounded(p, s) /\ PortMatched(s, matched[p])
    BY <1>6, <2>1 DEF PortKnown, PortBounded, PortMatched
  <2> QED
    BY <1>2, <1>6, <1>8, <2>1, <2>2, <2>3, <2>4 DEF PortKnown, Alerting
<1>11. ASSUME NEW q \in Ports, q # p PROVE PortKnown(q)'
  <2>1. st'[q] = st[q]
    BY <1>7, <1>11
  <2> QED
    BY <1>1, <1>2, <2>1 DEF PortKnown, Alerting
<1> QED
  BY <1>2, <1>6, <1>7, <1>9, <1>10, <1>11, WorkerParts

\* An operator's approval: only what may be relearned, and until when, changes.
LEMMA ApprovalKeeps ==
  ASSUME WorkerInv, NEW ports, NEW d \in Durations, approve_relearn(ports, d),
         UNCHANGED <<matched, flooded, alerted>>
  PROVE  /\ WorkerInv'
         /\ \A q \in Ports : /\ st'[q].mean = st[q].mean
                             /\ last_decisions'[q] = last_decisions[q]
<1>1. WorkerFunctions /\ \A q \in Ports : PortKnown(q)
  BY WorkerParts
<1>2. st' = [p \in Ports |-> IF p \in ports THEN [st[p] EXCEPT !.relearn = d] ELSE st[p]]
      /\ last_decisions' = last_decisions
      /\ matched' = matched /\ flooded' = flooded /\ alerted' = alerted
  BY DEF approve_relearn
<1>3. d \in Nat
  BY WorkerAssumption
<1>4. ASSUME NEW q \in Ports
      PROVE  PortKnown(q)' /\ st'[q].mean = st[q].mean
  <2>1. PortKnown(q) /\ IsPort(st[q])
    BY <1>1 DEF PortKnown
  <2>2. CASE q \notin ports
    <3>1. st'[q] = st[q]
      BY <1>2, <2>2
    <3> QED
      BY <1>2, <2>1, <3>1 DEF PortKnown, Alerting
  <2>3. CASE q \in ports
    <3>1. PICK s : s = [st[q] EXCEPT !.relearn = d]
      OBVIOUS
    <3>2. s = [prev |-> st[q].prev, mean |-> st[q].mean, cusum |-> st[q].cusum,
               streaks |-> st[q].streaks, window |-> st[q].window, stage |-> st[q].stage,
               normal_for |-> st[q].normal_for, relearn |-> d]
      BY <2>1, <3>1, RelearnShape DEF IsPort
    <3>3. /\ s.prev = st[q].prev /\ s.mean = st[q].mean /\ s.streaks = st[q].streaks
          /\ s.normal_for = st[q].normal_for /\ s.relearn = d
          /\ s.cusum = st[q].cusum /\ s.window = st[q].window /\ s.stage = st[q].stage
      BY <3>2
    <3>4. st'[q] = s
      BY <1>2, <2>3, <3>1
    <3>5. IsPort(s)
      BY <1>3, <2>1, <3>2, <3>3 DEF IsPort
    <3>6. PortBounded(q, s)
      <4> SUFFICES ASSUME NEW ind \in WATCHED_INDICATORS, ind \notin Volumes
                   PROVE  Bounded(q, ind, st[q].mean[ind])
        BY <1>3, <3>3 DEF PortBounded, NoRelearn
      <4> QED
        BY <2>1 DEF PortKnown, PortBounded
    <3>7. PortMatched(s, matched[q]) /\ PortQuiet(s, alerted[q])
      BY <2>1, <3>3 DEF PortKnown, PortMatched, PortQuiet
    <3> QED
      BY <1>2, <2>1, <3>3, <3>4, <3>5, <3>6, <3>7 DEF PortKnown, Alerting
  <2> QED
    BY <2>2, <2>3
<1>5. WorkerFunctions'
  <2>1. st' = [q \in Ports |-> st'[q]]
    BY <1>2, Zenon
  <2> QED
    BY <1>1, <1>2, <2>1 DEF WorkerFunctions
<1> QED
  BY <1>2, <1>4, <1>5, WorkerParts

\* A tick: the last report and the quiet get older together.
LEMMA WorkerTickKeeps ==
  ASSUME WorkerInv, Tick
  PROVE  /\ WorkerInv'
         /\ \A q \in Ports : /\ st'[q].mean = st[q].mean
                             /\ last_decisions'[q] = last_decisions[q]
<1>1. WorkerFunctions /\ \A q \in Ports : PortKnown(q)
  BY WorkerParts
<1>2. /\ last_decisions' = last_decisions /\ matched' = matched /\ flooded' = flooded
      /\ alerted' = [p \in Ports |-> Aged(alerted[p], learn_resume_sec)]
      /\ \A p \in Ports : st[p].prev < MaxGap
      /\ st' = [p \in Ports |->
                 [st[p] EXCEPT
                    !.prev = IF @ = NoReport THEN @ ELSE @ + 1,
                    !.window = [a \in Ages |-> IF a = 0 THEN NoCounts
                                                ELSE OlderEntry(@[a - 1], a)],
                    !.relearn = IF @ > 0 THEN @ - 1 ELSE @]]
  BY DEF Tick, WorkerTick, EngineTick
<1>3. MaxGap \in Nat /\ learn_resume_sec \in Nat
  BY WorkerAssumption, CriteriaAssumption
<1>4. ASSUME NEW q \in Ports PROVE PortKnown(q)' /\ st'[q].mean = st[q].mean
  <2>1. PortKnown(q) /\ IsPort(st[q])
    BY <1>1 DEF PortKnown
  <2> DEFINE age == IF st[q].prev = NoReport THEN st[q].prev ELSE st[q].prev + 1
             window == [a \in Ages |-> IF a = 0 THEN NoCounts
                                       ELSE OlderEntry(st[q].window[a - 1], a)]
             until == IF st[q].relearn > 0 THEN st[q].relearn - 1 ELSE st[q].relearn
             s == [prev |-> age, mean |-> st[q].mean, cusum |-> st[q].cusum,
                   streaks |-> st[q].streaks, window |-> window, stage |-> st[q].stage,
                   normal_for |-> st[q].normal_for, relearn |-> until]
  <2>2. st'[q] = [st[q] EXCEPT !.prev = age, !.window = window, !.relearn = until]
    BY <1>2, Zenon
  <2>3. age \in -1..MaxGap /\ (st[q].prev = -1 => age = -1) /\ age <= st[q].prev + 1
    <3>1. st[q].prev \in -1..MaxGap /\ st[q].prev < MaxGap
      BY <1>2, <2>1 DEF IsPort
    <3> HIDE DEF age
    <3>2. CASE st[q].prev = -1
      <4>1. age = -1
        BY <3>2 DEF age, NoReport
      <4> QED
        BY <1>3, <3>2, <4>1
    <3>3. CASE st[q].prev # -1
      <4>1. age = st[q].prev + 1
        BY <3>3 DEF age, NoReport
      <4> QED
        BY <1>3, <3>1, <3>3, <4>1
    <3> QED
      BY <3>2, <3>3
  <2>4. until \in Nat \union {NoRelearn} /\ (until = NoRelearn <=> st[q].relearn = NoRelearn)
    BY <2>1 DEF IsPort, NoRelearn
  <2> HIDE DEF age, window, until
  <2>5. st'[q] = s
    BY <2>1, <2>2, TickShape DEF IsPort
  <2>6. /\ s.prev = age /\ s.mean = st[q].mean /\ s.streaks = st[q].streaks
        /\ s.normal_for = st[q].normal_for /\ s.relearn = until
        /\ s.cusum = st[q].cusum /\ s.window = window /\ s.stage = st[q].stage
    OBVIOUS
  <2>7. IsPort(s)
    <3>1. s = [prev |-> s.prev, mean |-> s.mean, cusum |-> s.cusum, streaks |-> s.streaks,
               window |-> s.window, stage |-> s.stage, normal_for |-> s.normal_for,
               relearn |-> s.relearn]
      OBVIOUS
    <3> HIDE DEF s
    <3> QED
      BY <2>1, <2>3, <2>4, <2>6, <3>1 DEF IsPort
  <2> HIDE DEF s
  <2>8. PortBounded(q, s) /\ PortMatched(s, matched[q])
    BY <2>1, <2>4, <2>6 DEF PortKnown, PortBounded, PortMatched
  <2>9. PortQuiet(s, alerted'[q])
    <3>1. alerted'[q] = Aged(alerted[q], learn_resume_sec)
      BY <1>2
    <3>2. alerted[q] \in 0..learn_resume_sec /\ st[q].normal_for \in Nat
          /\ st[q].prev \in -1..MaxGap
      BY <1>1, <2>1 DEF WorkerFunctions, IsPort
    <3>3. PortQuiet(st[q], alerted[q])
      BY <2>1 DEF PortKnown
    <3> QED
      BY <1>3, <2>3, <2>6, <3>1, <3>2, <3>3 DEF PortQuiet, Aged
  <2> QED
    BY <1>2, <2>1, <2>5, <2>6, <2>7, <2>8, <2>9 DEF PortKnown, Alerting
<1>5. WorkerFunctions'
  <2>1. st' = [q \in Ports |-> st'[q]]
    BY <1>2, Zenon
  <2>2. alerted' \in [Ports -> 0..learn_resume_sec]
    <3>1. \A q \in Ports : Aged(alerted[q], learn_resume_sec) \in 0..learn_resume_sec
      BY <1>1, <1>3 DEF WorkerFunctions, Aged
    <3> QED
      BY <1>2, <3>1
  <2> QED
    BY <1>1, <1>2, <2>1, <2>2 DEF WorkerFunctions
<1> QED
  BY <1>2, <1>4, <1>5, WorkerParts

\* A port that nothing has been heard of.
LEMMA FreshIsKnown ==
  ASSUME NEW p \in Ports
  PROVE  /\ IsPort(FreshPort(p)) /\ PortBounded(p, FreshPort(p))
         /\ FreshPort(p).streaks = [t \in Threats |-> 0]
         /\ FreshPort(p).normal_for = 0 /\ FreshPort(p).prev = -1
         /\ FreshPort(p).mean = base_mean[p]
<1> DEFINE s == FreshPort(p)
<1>1. /\ s.streaks = [t \in Threats |-> 0] /\ s.normal_for = 0 /\ s.prev = -1
      /\ s.mean = base_mean[p] /\ s.relearn = NoRelearn
      /\ s = [prev |-> s.prev, mean |-> s.mean, cusum |-> s.cusum, streaks |-> s.streaks,
              window |-> s.window, stage |-> s.stage, normal_for |-> s.normal_for,
              relearn |-> s.relearn]
  BY DEF FreshPort, NoReport
<1> HIDE DEF s
<1>2. IsPort(s)
  BY <1>1, CriteriaAssumption, WorkerAssumption DEF IsPort
<1>3. PortBounded(p, s)
  <2> SUFFICES ASSUME NEW ind \in WATCHED_INDICATORS PROVE Bounded(p, ind, base_mean[p][ind])
    BY <1>1 DEF PortBounded
  <2> QED
    BY LimitsAre DEF Bounded
<1> QED
  BY <1>1, <1>2, <1>3 DEF s

\* A worker that has just started, at the beginning or again.
LEMMA FreshWorker ==
  ASSUME st = [p \in Ports |-> FreshPort(p)], last_decisions = [p \in Ports |-> NoDecision],
         matched = [p \in Ports |-> {}], flooded = [p \in Ports |-> 0],
         alerted \in [Ports -> 0..learn_resume_sec]
  PROVE  WorkerInv
<1>1. WorkerFunctions
  BY DEF WorkerFunctions
<1>2. ASSUME NEW p \in Ports PROVE PortKnown(p)
  <2>1. st[p] = FreshPort(p) /\ matched[p] = {} /\ flooded[p] = 0
        /\ alerted[p] \in Nat
    BY CriteriaAssumption
  <2>2. "UDP_FLOOD" \in Threats
    BY DEF Threats
  <2> QED
    BY <2>1, <2>2, FreshIsKnown, CriteriaAssumption DEF PortKnown, PortMatched, PortQuiet
<1> QED
  BY <1>1, <1>2, WorkerParts

\* The worker begins with nothing heard and every port long quiet.
LEMMA WorkerStarts == DetectionInit => WorkerInv
<1> SUFFICES ASSUME DetectionInit PROVE WorkerInv
  OBVIOUS
<1>1. alerted \in [Ports -> 0..learn_resume_sec]
  BY CriteriaAssumption DEF DetectionInit
<1> QED
  BY <1>1, FreshWorker DEF DetectionInit, EngineInit

\* The worker restarts: its history is as new, and every mean is what was learned
\* beforehand.
LEMMA WorkerRestartKeeps ==
  ASSUME WorkerInv, Restart
  PROVE  WorkerInv' /\ \A q \in Ports : LearnsQuietly(q) /\ AlertsConfirmed(q)
<1>1. WorkerFunctions /\ \A q \in Ports : PortKnown(q)
  BY WorkerParts
<1>2. /\ st' = [q \in Ports |-> FreshPort(q)]
      /\ last_decisions' = [q \in Ports |-> NoDecision]
      /\ matched' = [q \in Ports |-> {}]
      /\ flooded' = [q \in Ports |-> 0]
      /\ alerted' = alerted
  BY DEF Restart, WorkerRestarts
<1>3. WorkerFunctions'
  BY <1>1, <1>2 DEF WorkerFunctions
<1>4. ASSUME NEW q \in Ports
      PROVE  PortKnown(q)' /\ LearnsQuietly(q) /\ AlertsConfirmed(q)
  <2>1. st'[q] = FreshPort(q) /\ last_decisions'[q] = NoDecision /\ matched'[q] = {}
        /\ flooded'[q] = 0
    BY <1>2
  <2>2. "UDP_FLOOD" \in Threats /\ alerted[q] \in Nat
    BY <1>1, CriteriaAssumption DEF Threats, WorkerFunctions
  <2>3. PortKnown(q)'
    <3>1. PortMatched(FreshPort(q), {}) /\ PortQuiet(FreshPort(q), alerted[q])
      BY <2>2, FreshIsKnown DEF PortMatched, PortQuiet
    <3>2. 0 <= FreshPort(q).streaks["UDP_FLOOD"] /\ ~(0 >= confirm_intervals)
      BY <2>2, FreshIsKnown, CriteriaAssumption
    <3> QED
      BY <1>2, <2>1, <3>1, <3>2, FreshIsKnown DEF PortKnown
  <2>4. LearnsQuietly(q)
    BY <2>1, FreshIsKnown DEF LearnsQuietly
  <2>5. ~Alerting(q)'
    BY <2>1 DEF Alerting, NoDecision
  <2> QED
    BY <2>3, <2>4, <2>5 DEF AlertsConfirmed
<1> QED
  BY <1>3, <1>4, WorkerParts

\* The worker's invariant in every step, and what a step may do to a port.
LEMMA WorkerKeeps ==
  ASSUME WorkerInv, [DetectionNext]_detection_vars
  PROVE  WorkerInv' /\ [\A q \in Ports : LearnsQuietly(q) /\ AlertsConfirmed(q)]_detection_vars
<1>1. WorkerFunctions /\ \A q \in Ports : PortKnown(q)
  BY WorkerParts
<1>2. \A q \in Ports : \A ind \in WATCHED_INDICATORS : st[q].mean[ind] \in Int
  BY <1>1 DEF PortKnown, IsPort
<1>3. ASSUME \A q \in Ports : st'[q].mean = st[q].mean /\ last_decisions'[q] = last_decisions[q]
      PROVE  \A q \in Ports : LearnsQuietly(q) /\ AlertsConfirmed(q)
  BY <1>2, <1>3 DEF LearnsQuietly, AlertsConfirmed
<1>4. CASE UNCHANGED detection_vars
  BY <1>4 DEF detection_vars, engine_vars, WorkerInv, WorkerTyped, Alerting
<1>5. CASE \E p \in Ports, c \in Counts : Report(p, c)
  BY <1>5, PortReportedKeeps
<1>6. CASE Tick
  BY <1>3, <1>6, WorkerTickKeeps
<1>7. CASE Restart
  BY <1>7, WorkerRestartKeeps
<1>8. CASE Other
  <2>1. UNCHANGED <<matched, flooded, alerted>>
    BY <1>8 DEF Other
  <2>2. CASE \E p \in Ports : NotComparable(p)
    BY <1>3, <2>1, <2>2, NotComparableKeeps
  <2>3. CASE process_health \/ process_server_conns
    <3>1. UNCHANGED <<st, last_decisions>>
      BY <2>3 DEF process_health, process_server_conns, update_health, update_server_conns
    <3> QED
      BY <1>3, <2>1, <3>1 DEF WorkerInv, WorkerTyped, Alerting
  <2>4. CASE process_command
    <3>1. PICK ports \in {{p} : p \in Ports} \union {Ports}, d \in Durations :
            approve_relearn(ports, d)
      BY <2>4 DEF process_command
    <3> QED
      BY <1>3, <2>1, <3>1, ApprovalKeeps
  <2> QED
    BY <1>8, <2>2, <2>3, <2>4 DEF Other
<1> QED
  BY <1>4, <1>5, <1>6, <1>7, <1>8 DEF DetectionNext

-----------------------------------------------------------------------------
(***************************************************************************)
(* The four together.                                                      *)
(***************************************************************************)
SensingInv == PortInv /\ ConnInv /\ ProbeInv /\ WorkerInv

\* A step of the whole is a step of each machine or leaves it alone.
LEMMA EachSteps ==
  [Next]_vars => /\ [PortNext]_port_vars /\ [ConnNext]_conn_vars
                 /\ [ProbeNext]_probe_vars /\ [DetectionNext]_detection_vars
BY DEF Next, vars

\* The invariant holds at the start and in every step.
LEMMA SensingKeeps ==
  /\ Init => SensingInv
  /\ SensingInv /\ [Next]_vars => SensingInv'
<1>1. Init => SensingInv
  BY PortStarts, ConnStarts, ProbeStarts, WorkerStarts DEF Init, SensingInv
<1>2. SensingInv /\ [Next]_vars => SensingInv'
  BY EachSteps, PortKeeps, ConnKeeps, ProbeKeeps, WorkerKeeps DEF SensingInv
<1> QED
  BY <1>1, <1>2

\* The invariant is one of the specification.
LEMMA SensingInvariant == Spec => []SensingInv
BY SensingKeeps, PTL DEF Spec

\* The probe reports every ping once, under the right name: loss, delay,
\* doubling, reordering and the reuse of numbers included, whatever the timeout,
\* the longest delay and the number of sequence numbers.
THEOREM HealthExact == Spec => []HealthIsExact
<1>1. SensingInv => HealthIsExact
  BY DEF SensingInv, ProbeInv, HealthIsExact
<1> QED
  BY <1>1, SensingInvariant, PTL

\* The older mode's floods are floods, whatever the counters do.
THEOREM FloodsReal == Spec => []FloodsAreReal
<1>1. SensingInv => FloodsAreReal
  BY FeatureAssumption DEF SensingInv, PortInv, FloodsAreReal
<1> QED
  BY <1>1, SensingInvariant, PTL

\* What keeps the server waiting is counted, and nothing younger.
THEOREM WaitingIsSeen == Spec => WaitingCounted
<1>1. SensingInv /\ [Next]_vars => [WaitingIsCounted]_vars
  BY EachSteps, ConnKeeps DEF SensingInv, WaitingIsCounted
<1> QED
  BY <1>1, SensingInvariant, PTL DEF Spec, WaitingCounted

\* No traffic drags a baseline out of its bounds, whatever was learned
\* beforehand: a mean learned negative (a gap) has cap_multiplier times itself
\* for its lower bound.
THEOREM BaselinesStayBounded == Spec => []BaselinesBounded
<1>1. SensingInv => BaselinesBounded
  BY DEF SensingInv, WorkerInv, BaselinesBounded, PortBounded, Bounded
<1> QED
  BY <1>1, SensingInvariant, PTL

\* A flood beyond every lawful baseline is alerted from its second report on.
THEOREM FloodsAlerted == Spec => []FloodsAreAlerted
<1>1. SensingInv => FloodsAreAlerted
  BY DEF SensingInv, WorkerInv, FloodsAreAlerted
<1> QED
  BY <1>1, SensingInvariant, PTL

\* Learning without an approval is from a port long quiet.
THEOREM LearningIsQuiet == Spec => LearnsFromQuietPorts
<1>1. SensingInv /\ [Next]_vars =>
        [\A p \in Ports :
           (/\ st[p].relearn = NoRelearn
            /\ \E ind \in WATCHED_INDICATORS :
                 st'[p].mean[ind] \notin {st[p].mean[ind], base_mean[p][ind]})
           => 2 * alerted[p] + MaxGap >= 2 * learn_resume_sec]_detection_vars
  <2>1. SensingInv /\ [Next]_vars =>
          [\A p \in Ports : LearnsQuietly(p) /\ AlertsConfirmed(p)]_detection_vars
    BY EachSteps, WorkerKeeps DEF SensingInv
  <2> QED
    BY <2>1 DEF LearnsQuietly
<1> QED
  BY <1>1, SensingInvariant, PTL DEF Spec, LearnsFromQuietPorts

\* A new alert names a threat two reports in a row were evidence of.
THEOREM AlertsConfirmedTwice == Spec => AlertsAreConfirmed
<1>1. SensingInv /\ [Next]_vars =>
        [\A p \in Ports :
           Alerting(p)' /\ last_decisions'[p] # last_decisions[p] =>
             last_decisions'[p].threat \in matched[p] \intersect matched'[p]]_detection_vars
  <2>1. SensingInv /\ [Next]_vars =>
          [\A p \in Ports : LearnsQuietly(p) /\ AlertsConfirmed(p)]_detection_vars
    BY EachSteps, WorkerKeeps DEF SensingInv
  <2> QED
    BY <2>1 DEF AlertsConfirmed
<1> QED
  BY <1>1, SensingInvariant, PTL DEF Spec, AlertsAreConfirmed
=============================================================================
