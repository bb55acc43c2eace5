-------------------------- MODULE DataPlaneProofs ---------------------------
(***************************************************************************)
(* Safety of DataPlane for every number of commands and every order in     *)
(* which switches process their channels, rules expire and connections     *)
(* break.                                                                  *)
(*                                                                         *)
(* What a table will hold is decided by what is still in the channel: the  *)
(* last message that concerns a rule, or, if there is none, the table.     *)
(* Settles says so of one rule, is kept by every message processed and     *)
(* re-established by every command; the invariants about tables are        *)
(* Settles of the rules that they speak of.                                *)
(***************************************************************************)
EXTENDS DataPlaneProperties, SequenceTheorems, TLAPS

\* What a message does to one rule, whatever else the table holds.
Adds(m, r) == r \in Processed({}, m)
Removes(m, r) == r \notin Processed({r}, m)
Touches(m, r) == Adds(m, r) \/ Removes(m, r)

\* Once the messages c are processed, the rules T will hold r if and only if
\* it is wanted.
Settles(T, c, r, wanted) ==
  /\ (\A i \in DOMAIN c : ~Touches(c[i], r)) => (r \in T <=> wanted)
  /\ \A i \in DOMAIN c :
       Touches(c[i], r) /\ (\A j \in DOMAIN c : j > i => ~Touches(c[j], r))
         => (Adds(c[i], r) <=> wanted)

Operations == {"add", "delete", "delete_meter", "packet"}

\* The rules that reach switch s after it has connected, and the messages
\* that the controller sends to it.
UserPorts == {1, 2}
UserAt(port) == IF port = 1 THEN "h1" ELSE "h2"
AccessRules ==
  {Drop(port) : port \in UserPorts} \union {Limit(port) : port \in UserPorts}
    \union {UserZone(port) : port \in UserPorts}
    \union {QuarantineZone(port) : port \in UserPorts}
LearnedRules(s) ==
  {Learned(ip, routing_table[s][ip]) : ip \in Hosts}
    \union {Learned("probe", routing_table[s]["h1"])}
RulesFor(s) ==
  {Bypass(q) : q \in R!SpecDpids[1] \intersect {s}} \union LearnedRules(s)
    \union (IF s = 1 THEN AccessRules ELSE {})

MessagesFor(s) ==
  {add_flow(r) : r \in RulesFor(s)}
    \union {delete_flow(r.table, r.match) : r \in RulesFor(s)}
    \union {delete_flow("police", {In(port)}) : port \in UserPorts}
    \union {delete_flow("forward", {In(port)}) : port \in UserPorts}
    \union {delete_meter(port) : port \in UserPorts}
    \union {packet_out(port) : port \in 0..4}

Places == {"arrived", "lost", "switch", "controller", "orphaned", "channel"}
Packets == [where : Places, at : Switches, port : 0..4, class : Classes,
            answer : BOOLEAN, admitted : BOOLEAN]

Orders == [isolated : SUBSET Users, limited : SUBSET Users,
           rerouted : BOOLEAN, given : Nat]

\* Rules, messages, the packet and the commands in their ranges.
Typed ==
  /\ DOMAIN table = Switches /\ DOMAIN channel = Switches
  /\ \A s \in Switches : table[s] \subseteq Installed(s) \union RulesFor(s)
  /\ \A s \in Switches : channel[s] \in Seq(MessagesFor(s))
  /\ up \subseteq Switches /\ left \subseteq MayLeave
  /\ Switches \ up \subseteq left
  /\ quarantined_hosts \subseteq Users
  /\ arp_fail_targets \subseteq {<<1, 1>>}
  /\ packet \in Packets
  /\ commanded \in Orders

\* The one packet is carried by the one message that puts it out, and the
\* controller has it only over a connection; ARP for an address that nobody
\* has stays where it came from.
PacketInOnePlace ==
  /\ \A s \in Switches : \A i \in DOMAIN channel[s] :
       channel[s][i].op = "packet" =>
         /\ packet.where = "channel" /\ packet.at = s
         /\ \A j \in DOMAIN channel[s] : channel[s][j].op = "packet" => j = i
  /\ packet.where = "channel" =>
       \E i \in DOMAIN channel[packet.at] : channel[packet.at][i].op = "packet"
  /\ packet.where = "controller" => packet.at \in up
  /\ packet.class = "arp_unknown" =>
       /\ packet.where # "channel"
       /\ packet.where \in {"switch", "controller", "orphaned"} =>
            packet.at = 1 /\ packet.port = 1 /\ ~packet.answer

\* What the commands and the quarantine ask of a switch that never left is
\* what its channel will make of its table.
TablesSettle ==
  /\ 1 \notin left => \A port \in UserPorts :
       /\ Settles(table[1], channel[1], Drop(port), UserAt(port) \in commanded.isolated)
       /\ Settles(table[1], channel[1], Limit(port), UserAt(port) \in commanded.limited)
       /\ Settles(table[1], channel[1], UserZone(port), UserAt(port) \notin quarantined_hosts)
       /\ Settles(table[1], channel[1], QuarantineZone(port), UserAt(port) \in quarantined_hosts)
  /\ \A s \in Switches \ left : s \in R!SpecDpids[1] =>
       Settles(table[s], channel[s], Bypass(s), commanded.rerouted)

\* One zone is opened only by a message right behind the one that closes the
\* other.
Opens(c, T, opened, closed) ==
  \A i \in DOMAIN c : c[i] = add_flow(opened) =>
    IF i = 1 THEN closed \notin T ELSE c[i - 1] = delete_flow("policy", closed.match)
ZonesInTurn ==
  \A port \in UserPorts :
    /\ ~({UserZone(port), QuarantineZone(port)} \subseteq table[1])
    /\ Opens(channel[1], table[1], QuarantineZone(port), UserZone(port))
    /\ Opens(channel[1], table[1], UserZone(port), QuarantineZone(port))

-----------------------------------------------------------------------------
(***************************************************************************)
(* Messages and rules.                                                     *)
(***************************************************************************)
\* Adding a rule concerns that rule and those it replaces.
LEMMA AddTouches ==
  ASSUME NEW q, NEW r
  PROVE  /\ Adds(add_flow(q), r) <=> r = q
         /\ Touches(add_flow(q), r) <=>
              (r.table = q.table /\ r.priority = q.priority /\ r.match = q.match) \/ r = q
  BY DEF Adds, Removes, Touches, Processed, add_flow

\* Deletion concerns every rule of the table with the fields of the match.
LEMMA DeleteTouches ==
  ASSUME NEW t, NEW match, NEW r
  PROVE  /\ ~Adds(delete_flow(t, match), r)
         /\ Touches(delete_flow(t, match), r) <=> r.table = t /\ match \subseteq r.match
  BY DEF Adds, Removes, Touches, Processed, delete_flow, Deleted

\* A meter takes the rules that use it along; a packet takes none.
LEMMA OthersTouch ==
  ASSUME NEW port, NEW r
  PROVE  /\ ~Adds(delete_meter(port), r)
         /\ Touches(delete_meter(port), r) <=> r.to = "meter" /\ r.port = port
         /\ ~Touches(packet_out(port), r)
  BY DEF Adds, Removes, Touches, Processed, delete_meter, packet_out

\* A message's effect on a table is its effect on each rule.
LEMMA ProcessedRule ==
  ASSUME NEW T, NEW m, m.op \in Operations, NEW r
  PROVE  r \in Processed(T, m) <=> Adds(m, r) \/ (r \in T /\ ~Removes(m, r))
<1>1. CASE m.op = "add"
  BY <1>1 DEF Adds, Removes, Processed
<1>2. CASE m.op = "delete"
  BY <1>2 DEF Adds, Removes, Processed, Deleted
<1>3. CASE m.op = "delete_meter"
  BY <1>3 DEF Adds, Removes, Processed
<1>4. CASE m.op = "packet"
  BY <1>4 DEF Adds, Removes, Processed
<1> QED
  BY <1>1, <1>2, <1>3, <1>4 DEF Operations

\* Processing the head of the channel leaves what will be as it was.
LEMMA SettlesProcessed ==
  ASSUME NEW M, NEW c \in Seq(M), c # <<>>, Head(c).op \in Operations,
         NEW T, NEW r, NEW wanted \in BOOLEAN, Settles(T, c, r, wanted)
  PROVE  Settles(Processed(T, Head(c)), Tail(c), r, wanted)
<1> DEFINE m == Head(c)
           d == Tail(c)
<1>1. /\ d \in Seq(M) /\ Len(c) \in Nat \ {0} /\ Len(d) = Len(c) - 1
      /\ DOMAIN c = 1..Len(c) /\ DOMAIN d = 1..Len(d)
      /\ c[1] = m
      /\ \A i \in DOMAIN d : i + 1 \in DOMAIN c /\ d[i] = c[i + 1]
      /\ \A i \in DOMAIN c : i # 1 => i - 1 \in DOMAIN d /\ d[i - 1] = c[i]
  OBVIOUS
<1>2. r \in Processed(T, m) <=> Adds(m, r) \/ (r \in T /\ ~Removes(m, r))
  BY ProcessedRule
<1> HIDE DEF m, d
<1>3. ASSUME \A i \in DOMAIN d : ~Touches(d[i], r)
      PROVE  r \in Processed(T, m) <=> wanted
  <2>1. \A j \in DOMAIN c : j > 1 => ~Touches(c[j], r)
    BY <1>1, <1>3
  <2>2. CASE Touches(m, r)
    <3>1. 1 \in DOMAIN c /\ Touches(c[1], r)
      BY <1>1, <2>2
    <3>2. Adds(c[1], r) <=> wanted
      BY <2>1, <3>1 DEF Settles
    <3>3. Adds(m, r) <=> wanted
      BY <1>1, <3>2
    <3> QED
      BY <1>2, <2>2, <3>3 DEF Touches
  <2>3. CASE ~Touches(m, r)
    <3>1. \A i \in DOMAIN c : ~Touches(c[i], r)
      BY <1>1, <2>1, <2>3
    <3> QED
      BY <1>2, <2>3, <3>1 DEF Touches, Settles
  <2> QED
    BY <2>2, <2>3
<1>4. ASSUME NEW i \in DOMAIN d, Touches(d[i], r),
             \A j \in DOMAIN d : j > i => ~Touches(d[j], r)
      PROVE  Adds(d[i], r) <=> wanted
  <2>1. ASSUME NEW j \in DOMAIN c, j > i + 1
        PROVE  ~Touches(c[j], r)
    <3>1. j - 1 \in DOMAIN d /\ j - 1 > i /\ d[j - 1] = c[j]
      BY <1>1, <2>1
    <3> QED
      BY <1>4, <3>1
  <2> QED
    BY <1>1, <1>4, <2>1 DEF Settles
<1> QED
  BY <1>3, <1>4 DEF Settles, m, d

\* Messages that do not concern r change nothing about it.
LEMMA SettlesQuiet ==
  ASSUME NEW M, NEW c \in Seq(M), NEW ms \in Seq(M),
         NEW T, NEW r, NEW wanted \in BOOLEAN, Settles(T, c, r, wanted),
         \A i \in DOMAIN ms : ~Touches(ms[i], r)
  PROVE  Settles(T, c \o ms, r, wanted)
<1> DEFINE d == c \o ms
<1>1. /\ Len(c) \in Nat /\ Len(ms) \in Nat
      /\ DOMAIN c = 1..Len(c) /\ DOMAIN ms = 1..Len(ms)
      /\ DOMAIN d = 1..(Len(c) + Len(ms))
      /\ \A i \in DOMAIN c : d[i] = c[i]
      /\ \A i \in DOMAIN d : i > Len(c) => i - Len(c) \in DOMAIN ms /\ d[i] = ms[i - Len(c)]
  OBVIOUS
<1> HIDE DEF d
<1>2. \A i \in DOMAIN d : Touches(d[i], r) => i \in DOMAIN c /\ d[i] = c[i]
  BY <1>1
<1>3. \A i \in DOMAIN c : i \in DOMAIN d
  BY <1>1
<1>4. Settles(T, d, r, wanted)
  BY <1>1, <1>2, <1>3 DEF Settles
<1> QED
  BY <1>4 DEF d

\* Messages that decide about r, whatever was there before them.
LEMMA SettlesDecided ==
  ASSUME NEW M, NEW c \in Seq(M), NEW ms \in Seq(M),
         NEW T, NEW r, NEW wanted \in BOOLEAN,
         NEW last \in DOMAIN ms, Touches(ms[last], r),
         \A j \in DOMAIN ms : j > last => ~Touches(ms[j], r),
         Adds(ms[last], r) <=> wanted
  PROVE  Settles(T, c \o ms, r, wanted)
<1> DEFINE d == c \o ms
<1>1. /\ Len(c) \in Nat /\ Len(ms) \in Nat
      /\ DOMAIN c = 1..Len(c) /\ DOMAIN ms = 1..Len(ms)
      /\ DOMAIN d = 1..(Len(c) + Len(ms))
      /\ \A i \in DOMAIN ms : i + Len(c) \in DOMAIN d /\ d[i + Len(c)] = ms[i]
      /\ \A i \in DOMAIN d : i > Len(c) => i - Len(c) \in DOMAIN ms /\ d[i] = ms[i - Len(c)]
  OBVIOUS
<1> HIDE DEF d
<1>2. last + Len(c) \in DOMAIN d /\ d[last + Len(c)] = ms[last]
  BY <1>1
<1>3. \A i \in DOMAIN d : i > last + Len(c) => ~Touches(d[i], r)
  <2> SUFFICES ASSUME NEW i \in DOMAIN d, i > last + Len(c)
               PROVE  ~Touches(d[i], r)
    OBVIOUS
  <2>1. i > Len(c) /\ i - Len(c) > last /\ i - Len(c) \in DOMAIN ms /\ d[i] = ms[i - Len(c)]
    BY <1>1
  <2> QED
    BY <2>1
<1>4. ASSUME NEW i \in DOMAIN d, Touches(d[i], r),
             \A j \in DOMAIN d : j > i => ~Touches(d[j], r)
      PROVE  i = last + Len(c)
  BY <1>1, <1>2, <1>3, <1>4
<1>5. Settles(T, d, r, wanted)
  BY <1>2, <1>4 DEF Settles
<1> QED
  BY <1>5 DEF d

-----------------------------------------------------------------------------
(***************************************************************************)
(* Types.                                                                  *)
(***************************************************************************)
\* What a rule of switch s can be.
LEMMA RuleFacts ==
  ASSUME NEW s \in Switches, NEW r \in Installed(s) \union RulesFor(s)
  PROVE  \/ /\ r.table = "policy" /\ r.to \in {"next", "drop"}
            /\ r.priority \in {0, 100, 200, 300, 350, 400, 500, 65535}
         \/ /\ r.table = "police"
            /\ \/ r = Rule("police", 0, {}, "next", 0)
               \/ s = 1 /\ \E port \in UserPorts : r = Limit(port)
         \/ /\ r.table = "forward"
            /\ \/ r = Rule("forward", 0, {}, "controller", 0)
               \/ s = 1 /\ \E port \in UserPorts : r = Drop(port)
               \/ s \in R!SpecDpids[1] /\ r = Bypass(s)
               \/ r \in LearnedRules(s)
<1>1. CASE r \in PolicyTable(s)
  BY <1>1 DEF PolicyTable, Pass, Deny, UserZone, Rule
<1>2. CASE r \in AccessRules /\ s = 1
  BY <1>2 DEF AccessRules, Drop, Limit, UserZone, QuarantineZone, Pass, Rule
<1>3. CASE r \in LearnedRules(s)
  BY <1>3 DEF LearnedRules, Learned, Rule
<1>4. CASE s \in R!SpecDpids[1] /\ r = Bypass(s)
  BY <1>4 DEF Bypass, Rule
<1> QED
  BY <1>1, <1>2, <1>3, <1>4 DEF Installed, RulesFor, Rule

\* The parts of a rule have the values of a rule.
LEMMA RuleParts ==
  ASSUME NEW s \in Switches, NEW r \in Installed(s) \union RulesFor(s)
  PROVE  /\ r.table \in {"policy", "police", "forward"}
         /\ r.priority \in {0, 10, 20, 100, 200, 300, 350, 400, 500, 65535}
         /\ r.to \in {"drop", "next", "controller", "meter", "output"}
  BY RuleFacts
     DEF Limit, Drop, Bypass, LearnedRules, Learned, Rule

\* A message to s is one of the four that the switch knows, and carries rules
\* of s only.
LEMMA MessageParts ==
  ASSUME NEW s \in Switches, NEW m \in MessagesFor(s)
  PROVE  /\ m.op \in Operations
         /\ m.op = "add" => m.rule \in RulesFor(s)
         /\ m.op = "packet" => m.port \in 0..4
  BY DEF MessagesFor, Operations, add_flow, delete_flow, delete_meter, packet_out

\* A table grows by such rules only.
LEMMA ProcessedTyped ==
  ASSUME NEW s \in Switches, NEW m \in MessagesFor(s), NEW T
  PROVE  Processed(T, m) \subseteq T \union RulesFor(s)
<1>1. m.op \in Operations /\ (m.op = "add" => m.rule \in RulesFor(s))
  BY MessageParts
<1> QED
  BY <1>1 DEF Processed, Deleted, Operations

\* The rule that a packet meets is the best that matches.
LEMMA MetIsBest ==
  ASSUME NEW s \in Switches, NEW T, T \subseteq Installed(s) \union RulesFor(s),
         NEW t, NEW p
  PROVE  \/ /\ Met(T, t, p) = NoMatch(t)
            /\ \A r \in T : ~(r.table = t /\ r.match \subseteq p)
         \/ /\ Met(T, t, p) \in T
            /\ Met(T, t, p).table = t /\ Met(T, t, p).match \subseteq p
            /\ \A q \in T : q.table = t /\ q.match \subseteq p
                            => q.priority <= Met(T, t, p).priority
<1> DEFINE hits == {r \in T : r.table = t /\ r.match \subseteq p}
<1>1. \A r \in hits : r.priority \in {0, 10, 20, 100, 200, 300, 350, 400, 500, 65535}
  BY RuleParts
<1>2. hits # {} => \E r \in hits : \A q \in hits : q.priority <= r.priority
  <2> HIDE DEF hits
  <2> DEFINE Has(n) == \E r \in hits : r.priority = n
  <2>1. hits # {} => \E n \in {0, 10, 20, 100, 200, 300, 350, 400, 500, 65535} :
          Has(n) /\ \A k \in {0, 10, 20, 100, 200, 300, 350, 400, 500, 65535} :
                      Has(k) => k <= n
    BY <1>1
  <2> QED
    BY <1>1, <2>1
<1> QED
  BY <1>2 DEF Met

\* A packet in the range of packets stays there when it moves.
LEMMA PacketMoves ==
  ASSUME NEW p \in Packets, NEW where \in Places
  PROVE  /\ [p EXCEPT !.where = where] \in Packets
         /\ [p EXCEPT !.where = where, !.admitted = TRUE] \in Packets
         /\ \A at \in Switches, port \in 0..4 :
              [p EXCEPT !.where = where, !.at = at, !.port = port, !.admitted = TRUE] \in Packets
         /\ \A port \in 0..4 :
              [p EXCEPT !.where = where, !.port = port, !.answer = TRUE] \in Packets
         /\ \A at \in Switches, port \in 0..4, class \in Classes :
              [where |-> where, at |-> at, port |-> port, class |-> class,
               answer |-> FALSE, admitted |-> FALSE] \in Packets
  BY DEF Packets

\* A packet that is put out arrives at a switch port of the diamond, or nowhere.
LEMMA PutOutTyped ==
  ASSUME Typed, NEW s \in Switches, NEW port
  PROVE  /\ PutOut(s, port) \in Packets
         /\ PutOut(s, port).where \in {"switch", "arrived"}
         /\ PutOut(s, port).class = packet.class
<1> DEFINE far == {l \in link : <<s, port>> \in l}
<1>0. "switch" \in Places /\ "arrived" \in Places
  BY DEF Places
<1>1. packet \in Packets
  BY DEF Typed
<1>2. CASE far # {}
  <2>1. PICK l \in far : TRUE
    BY <1>2
  <2>2. \A a, b : a # b => \E at \in {a, b} : at # <<s, port>>
    OBVIOUS
  <2>3. /\ <<1, 3>> # <<2, 1>> /\ <<1, 4>> # <<3, 1>>
        /\ <<2, 2>> # <<4, 2>> /\ <<3, 2>> # <<4, 3>>
    OBVIOUS
  <2>4. l \in link
    BY <2>1
  <2>5. \E at \in l : at # <<s, port>>
    BY <2>2, <2>3, <2>4, Zenon DEF link
  <2> DEFINE at == CHOOSE at \in UNION far : at # <<s, port>>
  <2>6. at \in UNION far
    BY <2>1, <2>5
  <2>7. \A a \in UNION far : a[1] \in Switches /\ a[2] \in 0..4
    BY SwitchesAssumption DEF link
  <2>8. PutOut(s, port) = [packet EXCEPT !.where = "switch", !.at = at[1], !.port = at[2],
                                         !.admitted = TRUE]
    BY <1>2 DEF PutOut
  <2> HIDE DEF at, far
  <2>9. [packet EXCEPT !.where = "switch", !.at = at[1], !.port = at[2],
                       !.admitted = TRUE] \in Packets
    BY <1>0, <1>1, <2>6, <2>7, PacketMoves, Zenon
  <2> QED
    BY <1>1, <2>8, <2>9 DEF Packets
<1>3. CASE far = {} /\ <<s, port>> = arp_table["srv"] /\ packet.class # "arp"
  <2>1. PutOut(s, port) = [packet EXCEPT !.where = "switch", !.port = port, !.answer = TRUE]
    BY <1>3 DEF PutOut
  <2>2. port \in 0..4
    BY <1>3 DEF arp_table
  <2>3. [packet EXCEPT !.where = "switch", !.port = port, !.answer = TRUE] \in Packets
    BY <1>0, <1>1, <2>2, PacketMoves, Zenon
  <2> QED
    BY <1>1, <2>1, <2>3 DEF Packets
<1>4. CASE far = {} /\ ~(<<s, port>> = arp_table["srv"] /\ packet.class # "arp")
  <2>1. PutOut(s, port) = [packet EXCEPT !.where = "arrived", !.admitted = TRUE]
    BY <1>4 DEF PutOut
  <2>2. [packet EXCEPT !.where = "arrived", !.admitted = TRUE] \in Packets
    BY <1>0, <1>1, PacketMoves, Zenon
  <2> QED
    BY <1>1, <2>1, <2>2 DEF Packets
<1> QED
  BY <1>2, <1>3, <1>4

\* What enters is a packet at h1's port, or the probe from no port.
LEMMA EnteredTyped ==
  ASSUME NEW class \in Classes
  PROVE  Entered(class) \in Packets
<1>1. Sender(class)[1] \in Switches /\ Sender(class)[2] \in 0..4
  BY SwitchesAssumption DEF Sender, arp_table
<1> QED
  BY <1>1, PacketMoves DEF Entered, Packets, Places

\* Messages sent to one switch reach the end of its channel, if it is there.
LEMMA SentTo ==
  ASSUME Typed, NEW s \in Switches, NEW ms
  PROVE  /\ DOMAIN Sent(To(s, ms)) = Switches
         /\ \A d \in Switches :
              Sent(To(s, ms))[d] = IF d = s /\ s \in up THEN channel[d] \o ms ELSE channel[d]
<1>1. ASSUME NEW d \in Switches
      PROVE  channel[d] \o <<>> = channel[d]
  <2>1. channel[d] \in Seq(MessagesFor(d))
    BY DEF Typed
  <2> QED
    BY <2>1
<1> QED
  BY <1>1 DEF Sent, To

\* What sends messages of each switch's own keeps the channels typed.
LEMMA SentTyped ==
  ASSUME Typed, NEW ms, \A s \in Switches : ms[s] \in Seq(MessagesFor(s))
  PROVE  /\ DOMAIN Sent(ms) = Switches
         /\ \A s \in Switches : Sent(ms)[s] \in Seq(MessagesFor(s))
<1>1. ASSUME NEW s \in Switches
      PROVE  Sent(ms)[s] \in Seq(MessagesFor(s))
  <2>1. channel[s] \in Seq(MessagesFor(s)) /\ ms[s] \in Seq(MessagesFor(s))
    BY DEF Typed
  <2>2. channel[s] \o ms[s] \in Seq(MessagesFor(s))
    BY <2>1
  <2> QED
    BY <2>1, <2>2 DEF Sent
<1> QED
  BY <1>1 DEF Sent

\* The messages of the commands about h1, all of them to S1.
AboutH1 ==
  {<<add_flow(Drop(1))>>, <<delete_flow("forward", {In(1)})>>,
   <<delete_meter(1), delete_flow("police", {In(1)}), add_flow(Limit(1))>>,
   <<delete_flow("police", {In(1)}), delete_meter(1)>>,
   <<delete_flow("policy", UserZone(1).match), add_flow(QuarantineZone(1))>>,
   <<delete_flow("policy", QuarantineZone(1).match), add_flow(UserZone(1))>>}

\* Up to three messages are a sequence of messages.
LEMMA ShortSequences ==
  ASSUME NEW M
  PROVE  /\ <<>> \in Seq(M)
         /\ \A a \in M : <<a>> \in Seq(M)
         /\ \A a, b \in M : <<a, b>> \in Seq(M)
         /\ \A a, b, c \in M : <<a, b, c>> \in Seq(M)
  OBVIOUS

\* They are messages of S1, and carry no packet.
LEMMA AboutH1Typed ==
  ASSUME NEW ms \in AboutH1
  PROVE  /\ ms \in Seq(MessagesFor(1))
         /\ \A i \in DOMAIN ms : ms[i].op # "packet"
<1>1. \A port \in UserPorts :
        /\ Drop(port) \in RulesFor(1) /\ Limit(port) \in RulesFor(1)
        /\ UserZone(port) \in RulesFor(1) /\ QuarantineZone(port) \in RulesFor(1)
        /\ UserZone(port).table = "policy" /\ QuarantineZone(port).table = "policy"
  <2>1. \A port \in UserPorts :
          /\ Drop(port) \in AccessRules /\ Limit(port) \in AccessRules
          /\ UserZone(port) \in AccessRules /\ QuarantineZone(port) \in AccessRules
    BY DEF AccessRules
  <2>2. AccessRules \subseteq RulesFor(1)
    BY DEF RulesFor
  <2>3. \A port : UserZone(port).table = "policy" /\ QuarantineZone(port).table = "policy"
    BY DEF UserZone, QuarantineZone, Pass, Rule
  <2> QED
    BY <2>1, <2>2, <2>3
<1>2. /\ \A r \in RulesFor(1) : add_flow(r) \in MessagesFor(1)
      /\ \A r \in RulesFor(1) : delete_flow(r.table, r.match) \in MessagesFor(1)
      /\ \A port \in UserPorts : /\ delete_flow("police", {In(port)}) \in MessagesFor(1)
                                 /\ delete_flow("forward", {In(port)}) \in MessagesFor(1)
      /\ \A port \in UserPorts : delete_meter(port) \in MessagesFor(1)
  BY DEF MessagesFor
<1>3. 1 \in UserPorts
  BY DEF UserPorts
<1>4. /\ \A r : add_flow(r).op # "packet"
      /\ \A t, match : delete_flow(t, match).op # "packet"
      /\ \A port : delete_meter(port).op # "packet"
  BY DEF add_flow, delete_flow, delete_meter
<1>5. /\ delete_flow("policy", UserZone(1).match) \in MessagesFor(1)
      /\ delete_flow("policy", QuarantineZone(1).match) \in MessagesFor(1)
  BY <1>1, <1>2, <1>3
<1>6. /\ add_flow(Drop(1)) \in MessagesFor(1) /\ add_flow(Limit(1)) \in MessagesFor(1)
      /\ add_flow(UserZone(1)) \in MessagesFor(1)
      /\ add_flow(QuarantineZone(1)) \in MessagesFor(1)
  BY <1>1, <1>2, <1>3
<1>7. ms \in Seq(MessagesFor(1))
  <2>1. /\ delete_meter(1) \in MessagesFor(1)
        /\ delete_flow("police", {In(1)}) \in MessagesFor(1)
        /\ delete_flow("forward", {In(1)}) \in MessagesFor(1)
    BY <1>2, <1>3
  <2> QED
    BY <2>1, <1>5, <1>6, ShortSequences, Zenon DEF AboutH1
<1>8. \A i \in DOMAIN ms : ms[i].op # "packet"
  BY <1>4 DEF AboutH1
<1> QED
  BY <1>7, <1>8

\* The commands about the bypass: one message to each of its switches.
AddBypass ==
  [s \in Switches |-> IF s \in R!SpecDpids[1] THEN <<add_flow(Bypass(s))>> ELSE <<>>]
DeleteBypass ==
  [s \in Switches |->
     IF s \in R!SpecDpids[1] THEN <<delete_flow("forward", Bypass(s).match)>> ELSE <<>>]

\* They are messages of the switches that they go to, and carry no packet.
LEMMA BypassTyped ==
  ASSUME NEW s \in Switches, NEW ms \in {AddBypass, DeleteBypass}
  PROVE  /\ ms[s] \in Seq(MessagesFor(s))
         /\ \A i \in DOMAIN ms[s] : ms[s][i].op # "packet"
<1>1. s \in R!SpecDpids[1] => Bypass(s) \in RulesFor(s) /\ Bypass(s).table = "forward"
  BY DEF RulesFor, Bypass, Rule
<1>2. s \in R!SpecDpids[1] =>
        /\ add_flow(Bypass(s)) \in MessagesFor(s)
        /\ delete_flow("forward", Bypass(s).match) \in MessagesFor(s)
  BY <1>1 DEF MessagesFor
<1>3. /\ add_flow(Bypass(s)).op # "packet"
      /\ delete_flow("forward", Bypass(s).match).op # "packet"
  BY DEF add_flow, delete_flow
<1>4. ms[s] \in {<<>>, <<add_flow(Bypass(s))>>, <<delete_flow("forward", Bypass(s).match)>>}
      /\ (ms[s] # <<>> => s \in R!SpecDpids[1])
  BY DEF AddBypass, DeleteBypass
<1>5. ms[s] \in Seq(MessagesFor(s))
  BY <1>2, <1>4, ShortSequences
<1> QED
  BY <1>3, <1>4, <1>5

\* Whatever the command, it sends such messages and nothing else happens.
LEMMA CommandSends ==
  ASSUME Typed, Command
  PROVE  /\ UNCHANGED <<table, up, arp_fail_targets, packet, left>>
         /\ \/ channel' = Sent(AddBypass) \/ channel' = Sent(DeleteBypass)
            \/ \E ms \in AboutH1 : channel' = Sent(To(1, ms))
<1>1. arp_table["h1"][1] = 1 /\ arp_table["h1"][2] = 1
  BY DEF arp_table
<1> QED
  BY <1>1
     DEF Command, reroute_traffic, restore_reroute_traffic, isolate_port, restore_port,
         rate_limit_port, unrate_limit_port, quarantine_host, release_host,
         AboutH1, AddBypass, DeleteBypass

\* So that the channels stay typed and no packet is put out.
LEMMA CommandChannel ==
  ASSUME Typed, Command
  PROVE  \E ms : /\ channel' = Sent(ms)
                 /\ \A s \in Switches :
                      /\ ms[s] \in Seq(MessagesFor(s))
                      /\ \A i \in DOMAIN ms[s] : ms[s][i].op # "packet"
<1>1. CASE \E ms \in {AddBypass, DeleteBypass} : channel' = Sent(ms)
  BY <1>1, BypassTyped
<1>2. ASSUME NEW ms \in AboutH1, channel' = Sent(To(1, ms))
      PROVE  \A s \in Switches : /\ To(1, ms)[s] \in Seq(MessagesFor(s))
                                 /\ \A i \in DOMAIN To(1, ms)[s] : To(1, ms)[s][i].op # "packet"
  BY AboutH1Typed DEF To
<1> QED
  BY <1>1, <1>2, CommandSends

\* The controller's answer to a packet-in: a packet that is put out again,
\* behind the rule for those that follow.
LEMMA AnswerFacts ==
  ASSUME NEW s \in Switches, NEW port \in 0..4, NEW p,
         packet_in_handler(s, port, p) # Nothing
  PROVE  \E x \in 0..4, q \in LearnedRules(s) :
           packet_in_handler(s, port, p) \in {<<packet_out(x)>>, <<add_flow(q), packet_out(x)>>}
<1>1. \A ip \in Hosts : routing_table[s][ip] \in 0..4
  BY SwitchesAssumption DEF routing_table, Hosts, Users
<1>2. DOMAIN routing_table[s] = Hosts /\ "h1" \in Hosts
  BY SwitchesAssumption DEF routing_table, Hosts, Users
<1>3. ASSUME NEW ip, handle_ipv4(s, port, ip) # Nothing
      PROVE  \E x \in 0..4, q \in LearnedRules(s) :
               handle_ipv4(s, port, ip) = <<add_flow(q), packet_out(x)>>
  BY <1>1, <1>2, <1>3 DEF handle_ipv4, LearnedRules
<1>4. ASSUME _handle_probe_reply(s, port) # Nothing
      PROVE  \E x \in 0..4, q \in LearnedRules(s) :
               _handle_probe_reply(s, port) = <<add_flow(q), packet_out(x)>>
  BY <1>1, <1>2, <1>4 DEF _handle_probe_reply, LearnedRules
<1>5. ASSUME NEW ip, handle_arp(port, ip) # Nothing
      PROVE  handle_arp(port, ip) = <<packet_out(port)>>
  BY <1>5 DEF handle_arp
<1>6. \E q : q \in LearnedRules(s)
  BY <1>2 DEF LearnedRules
<1> QED
  BY <1>3, <1>4, <1>5, <1>6 DEF packet_in_handler

\* The initial tables and channels are typed.
LEMMA TypedInit == Init => Typed
<1> SUFFICES ASSUME Init PROVE Typed
  OBVIOUS
<1>1. packet \in Packets
  <2>1. PICK class \in Classes : packet = [Entered(class) EXCEPT !.where = "arrived"]
    BY DEF Init
  <2>2. Entered(class) \in Packets
    BY EnteredTyped
  <2> QED
    BY <2>1, <2>2, PacketMoves DEF Places
<1>2. \A s \in Switches : channel[s] \in Seq(MessagesFor(s))
  BY ShortSequences DEF Init, ForwardingInit
<1>3. commanded \in Orders
  BY DEF Init, Orders
<1> QED
  BY <1>1, <1>2, <1>3 DEF Typed, Init, ForwardingInit

\* The packet keeps its type when it moves.
LEMMA PacketTyped ==
  ASSUME Typed, Next
  PROVE  packet' \in Packets
<1>1. packet \in Packets
  BY DEF Typed
<1>2. packet.class \in Classes /\ packet.where \in Places /\ packet.at \in Switches
  BY <1>1 DEF Packets
<1>3. CASE Enter
  BY <1>2, <1>3, EnteredTyped DEF Enter
<1>4. CASE Cross
  <2>0. "controller" \in Places /\ "lost" \in Places
    BY DEF Places
  <2>1. PICK rule : packet' = CASE rule.to = "output" -> PutOut(packet.at, rule.port)
                                [] rule.to = "controller" /\ packet.at \in up ->
                                     [packet EXCEPT !.where = "controller", !.admitted = TRUE]
                                [] OTHER -> [packet EXCEPT !.where = "lost"]
    BY <1>4 DEF Cross
  <2>2. \/ packet' = PutOut(packet.at, rule.port)
        \/ packet' = [packet EXCEPT !.where = "controller", !.admitted = TRUE]
        \/ packet' = [packet EXCEPT !.where = "lost"]
    BY <2>1
  <2> QED
    BY <1>1, <1>2, <2>0, <2>2, PutOutTyped, PacketMoves, Zenon
<1>5. CASE PacketIn
  BY <1>1, <1>5, PacketMoves DEF PacketIn, Places
<1>6. ASSUME NEW s \in Switches, Process(s) PROVE packet' \in Packets
  BY <1>1, <1>6, PutOutTyped DEF Process
<1>7. CASE (\E ip \in {"srv", "h1", "probe"} : Idle(ip))
             \/ (\E s \in MayLeave : Return(s)) \/ Command
  BY <1>1, <1>7, CommandSends DEF Idle, Return
<1>8. ASSUME NEW s \in MayLeave, Leave(s) PROVE packet' \in Packets
  <2>1. \/ packet' = packet
        \/ \E where \in Places : packet' = [packet EXCEPT !.where = where]
    BY <1>2, <1>8 DEF Leave, Places
  <2> QED
    BY <1>1, <2>1, PacketMoves
<1> QED
  BY <1>3, <1>4, <1>5, <1>6, <1>7, <1>8 DEF Next

\* Tables and channels keep their rules and messages.
LEMMA SwitchesTyped ==
  ASSUME Typed, Next
  PROVE  /\ DOMAIN table' = Switches /\ DOMAIN channel' = Switches
         /\ \A s \in Switches : table'[s] \subseteq Installed(s) \union RulesFor(s)
         /\ \A s \in Switches : channel'[s] \in Seq(MessagesFor(s))
<1>1. /\ DOMAIN table = Switches /\ DOMAIN channel = Switches
      /\ \A s \in Switches : table[s] \subseteq Installed(s) \union RulesFor(s)
      /\ \A s \in Switches : channel[s] \in Seq(MessagesFor(s))
      /\ packet.at \in Switches /\ packet.port \in 0..4
  BY DEF Typed, Packets
<1>2. CASE Enter \/ Cross
  BY <1>1, <1>2 DEF Enter, Cross, forwarding_vars, switch_vars
<1>3. CASE PacketIn
  <2>1. CASE UNCHANGED channel
    BY <1>1, <1>3, <2>1 DEF PacketIn
  <2> DEFINE answer == packet_in_handler(packet.at, packet.port, fields)
  <2>2. CASE answer # Nothing /\ channel' = Sent(To(packet.at, answer))
    <3>1. PICK x \in 0..4, q \in LearnedRules(packet.at) :
            answer \in {<<packet_out(x)>>, <<add_flow(q), packet_out(x)>>}
      BY <1>1, <2>2, AnswerFacts
    <3>2. q \in RulesFor(packet.at)
      BY <3>1 DEF RulesFor
    <3>3. add_flow(q) \in MessagesFor(packet.at) /\ packet_out(x) \in MessagesFor(packet.at)
      BY <3>1, <3>2 DEF MessagesFor
    <3> HIDE DEF answer
    <3>4. answer \in Seq(MessagesFor(packet.at))
      BY <3>1, <3>3, ShortSequences
    <3>5. \A s \in Switches : To(packet.at, answer)[s] \in Seq(MessagesFor(s))
      BY <3>4, ShortSequences DEF To
    <3> QED
      BY <1>1, <1>3, <2>2, <3>5, SentTyped DEF PacketIn
  <2> QED
    BY <1>3, <2>1, <2>2 DEF PacketIn
<1>4. ASSUME NEW s \in Switches, Process(s)
      PROVE  /\ DOMAIN table' = Switches /\ DOMAIN channel' = Switches
             /\ \A d \in Switches : table'[d] \subseteq Installed(d) \union RulesFor(d)
             /\ \A d \in Switches : channel'[d] \in Seq(MessagesFor(d))
  <2>1. Head(channel[s]) \in MessagesFor(s) /\ Tail(channel[s]) \in Seq(MessagesFor(s))
    BY <1>1, <1>4 DEF Process
  <2>2. Processed(table[s], Head(channel[s])) \subseteq table[s] \union RulesFor(s)
    BY <2>1, ProcessedTyped
  <2>3. /\ table' = [table EXCEPT ![s] = Processed(table[s], Head(channel[s]))]
        /\ channel' = [channel EXCEPT ![s] = Tail(channel[s])]
    BY <1>4 DEF Process
  <2> QED
    BY <1>1, <2>1, <2>2, <2>3
<1>5. ASSUME NEW ip, Idle(ip)
      PROVE  /\ DOMAIN table' = Switches /\ channel' = channel
             /\ \A d \in Switches : table'[d] \subseteq table[d]
  BY <1>5 DEF Idle
<1>6. ASSUME NEW s \in MayLeave, Leave(s)
      PROVE  /\ DOMAIN table' = Switches /\ DOMAIN channel' = Switches
             /\ \A d \in Switches : table'[d] \subseteq Installed(d) \union RulesFor(d)
             /\ \A d \in Switches : channel'[d] \in Seq(MessagesFor(d))
  <2>1. \E rules \in {table[s], {}} : table' = [table EXCEPT ![s] = rules]
    BY <1>6 DEF Leave
  <2>2. channel' = [channel EXCEPT ![s] = <<>>]
    BY <1>6 DEF Leave
  <2>3. \A d \in Switches : channel'[d] \in {channel[d], <<>>}
    BY <1>1, <2>2
  <2> QED
    BY <1>1, <2>1, <2>2, <2>3, ShortSequences
<1>7. ASSUME NEW s \in MayLeave, Return(s)
      PROVE  /\ DOMAIN table' = Switches /\ channel' = channel
             /\ \A d \in Switches : table'[d] \subseteq table[d] \union Installed(d)
  BY <1>1, <1>7 DEF Return
<1>8. CASE Command
  <2>1. PICK ms : /\ channel' = Sent(ms)
                  /\ \A s \in Switches : ms[s] \in Seq(MessagesFor(s))
    BY <1>8, CommandChannel
  <2>2. table' = table
    BY <1>8, CommandSends
  <2> QED
    BY <1>1, <2>1, <2>2, SentTyped
<1> QED
  BY <1>1, <1>2, <1>3, <1>4, <1>5, <1>6, <1>7, <1>8 DEF Next

\* The packet is where its sender is, or was never anywhere else.
LEMMA TargetsTyped ==
  ASSUME Typed, PacketInOnePlace, Next
  PROVE  arp_fail_targets' \subseteq {<<1, 1>>}
<1>1. CASE PacketIn
  BY <1>1 DEF Typed, PacketInOnePlace, PacketIn
<1>2. CASE Command
  BY <1>2, CommandSends DEF Typed
<1> QED
  BY <1>1, <1>2
     DEF Next, Typed, Enter, Cross, Process, Idle, Leave, Return, forwarding_vars

\* A command is noted in what is asked for.
LEMMA CommandedTyped ==
  ASSUME Typed, Command
  PROVE  commanded' \in Orders
<1>1. /\ commanded \in Orders
      /\ commanded.isolated \subseteq Users /\ commanded.limited \subseteq Users
      /\ commanded.given + 1 \in Nat /\ "h1" \in Users
  BY DEF Typed, Orders, Users
<1>2. /\ \A b \in BOOLEAN, n \in Nat :
           [commanded EXCEPT !.rerouted = b, !.given = n] \in Orders
      /\ \A H \in SUBSET Users, n \in Nat :
           [commanded EXCEPT !.isolated = H, !.given = n] \in Orders
      /\ \A H \in SUBSET Users, n \in Nat :
           [commanded EXCEPT !.limited = H, !.given = n] \in Orders
      /\ \A n \in Nat : [commanded EXCEPT !.given = n] \in Orders
  BY <1>1 DEF Orders
<1>3. \/ \E b \in BOOLEAN :
           commanded' = [commanded EXCEPT !.rerouted = b, !.given = commanded.given + 1]
      \/ \E H \in SUBSET Users :
           commanded' = [commanded EXCEPT !.isolated = H, !.given = commanded.given + 1]
      \/ \E H \in SUBSET Users :
           commanded' = [commanded EXCEPT !.limited = H, !.given = commanded.given + 1]
      \/ commanded' = [commanded EXCEPT !.given = commanded.given + 1]
  BY <1>1 DEF Command
<1> QED
  BY <1>1, <1>2, <1>3, Zenon

\* Every step keeps the types.
LEMMA TypedStep ==
  ASSUME Typed, PacketInOnePlace, [Next]_vars
  PROVE  Typed'
<1>1. CASE UNCHANGED vars
  BY <1>1
     DEF vars, forwarding_vars, switch_vars, Typed, Packets
<1>2. CASE Next
  <2>1. /\ up' \subseteq Switches /\ left' \subseteq MayLeave /\ Switches \ up' \subseteq left'
    <3>1. CASE Command
      BY <3>1, CommandSends DEF Typed
    <3>2. CASE ~Command
      BY <1>2, <3>2, DataPlaneAssumption
         DEF DataPlaneAssumption, Next, Typed, Enter, Cross, PacketIn, Process, Idle, Leave,
             Return, forwarding_vars, switch_vars
    <3> QED
      BY <3>1, <3>2
  <2>2. quarantined_hosts' \subseteq Users
    BY <1>2
       DEF Next, Typed, Enter, Cross, PacketIn, Process, Idle, Leave, Return, Command,
           reroute_traffic, restore_reroute_traffic, isolate_port, restore_port,
           rate_limit_port, unrate_limit_port, quarantine_host, release_host,
           forwarding_vars, switch_vars, Users
  <2>3. commanded' \in Orders
    <3>1. CASE Command
      BY <3>1, CommandedTyped
    <3>2. CASE ~Command
      BY <1>2, <3>2
         DEF Next, Typed, Enter, Cross, PacketIn, Process, Idle, Leave, Return
    <3> QED
      BY <3>1, <3>2
  <2> QED
    BY <1>2, <2>1, <2>2, <2>3, PacketTyped, SwitchesTyped, TargetsTyped DEF Typed
<1> QED
  BY <1>1, <1>2

-----------------------------------------------------------------------------
(***************************************************************************)
(* Where the packet is.                                                    *)
(***************************************************************************)
NoPacketIn(c) == \A i \in DOMAIN c : c[i].op # "packet"
OnePacketIn(c) ==
  \E i \in DOMAIN c : c[i].op = "packet" /\ \A j \in DOMAIN c : c[j].op = "packet" => j = i

\* PacketInOnePlace, one switch at a time.
LEMMA OnePlaceBySwitch ==
  ASSUME Typed
  PROVE  PacketInOnePlace <=>
           /\ \A s \in Switches : IF packet.where = "channel" /\ packet.at = s
                                  THEN OnePacketIn(channel[s]) ELSE NoPacketIn(channel[s])
           /\ packet.where = "controller" => packet.at \in up
           /\ packet.class = "arp_unknown" =>
                /\ packet.where # "channel"
                /\ packet.where \in {"switch", "controller", "orphaned"} =>
                     packet.at = 1 /\ packet.port = 1 /\ ~packet.answer
<1>1. packet.at \in Switches
  BY DEF Typed, Packets
<1> QED
  BY <1>1 DEF PacketInOnePlace, NoPacketIn, OnePacketIn

\* What becomes of a channel's packet when messages come and go.
LEMMA PacketSent ==
  ASSUME NEW M, NEW c \in Seq(M), NEW ms \in Seq(M)
  PROVE  /\ NoPacketIn(ms) => (NoPacketIn(c) => NoPacketIn(c \o ms))
                              /\ (OnePacketIn(c) => OnePacketIn(c \o ms))
         /\ NoPacketIn(c) /\ OnePacketIn(ms) => OnePacketIn(c \o ms)
<1> DEFINE d == c \o ms
<1>1. /\ Len(c) \in Nat /\ Len(ms) \in Nat
      /\ DOMAIN c = 1..Len(c) /\ DOMAIN ms = 1..Len(ms)
      /\ DOMAIN d = 1..(Len(c) + Len(ms))
      /\ \A i \in DOMAIN c : i \in DOMAIN d /\ d[i] = c[i]
      /\ \A i \in DOMAIN ms : i + Len(c) \in DOMAIN d /\ d[i + Len(c)] = ms[i]
      /\ \A i \in DOMAIN d : i > Len(c) => i - Len(c) \in DOMAIN ms /\ d[i] = ms[i - Len(c)]
      /\ \A i \in DOMAIN d : ~(i > Len(c)) => i \in DOMAIN c /\ d[i] = c[i]
  OBVIOUS
<1> HIDE DEF d
<1>2. NoPacketIn(ms) /\ NoPacketIn(c) => NoPacketIn(d)
  BY <1>1 DEF NoPacketIn
<1>3. ASSUME NoPacketIn(ms), OnePacketIn(c) PROVE OnePacketIn(d)
  <2>1. PICK i \in DOMAIN c :
          c[i].op = "packet" /\ \A j \in DOMAIN c : c[j].op = "packet" => j = i
    BY <1>3 DEF OnePacketIn
  <2>2. i \in DOMAIN d /\ d[i].op = "packet"
    BY <1>1, <2>1
  <2>3. ASSUME NEW j \in DOMAIN d, d[j].op = "packet" PROVE j = i
    BY <1>1, <1>3, <2>1, <2>3 DEF NoPacketIn
  <2> QED
    BY <2>2, <2>3 DEF OnePacketIn
<1>4. ASSUME NoPacketIn(c), OnePacketIn(ms) PROVE OnePacketIn(d)
  <2>1. PICK i \in DOMAIN ms :
          ms[i].op = "packet" /\ \A j \in DOMAIN ms : ms[j].op = "packet" => j = i
    BY <1>4 DEF OnePacketIn
  <2>2. i + Len(c) \in DOMAIN d /\ d[i + Len(c)].op = "packet"
    BY <1>1, <2>1
  <2>3. ASSUME NEW j \in DOMAIN d, d[j].op = "packet" PROVE j = i + Len(c)
    BY <1>1, <1>4, <2>1, <2>3 DEF NoPacketIn
  <2> QED
    BY <2>2, <2>3 DEF OnePacketIn
<1> QED
  BY <1>2, <1>3, <1>4 DEF d

\* ... and when the first of them is processed.
LEMMA PacketProcessed ==
  ASSUME NEW M, NEW c \in Seq(M), c # <<>>
  PROVE  /\ NoPacketIn(c) => Head(c).op # "packet" /\ NoPacketIn(Tail(c))
         /\ OnePacketIn(c) => IF Head(c).op = "packet" THEN NoPacketIn(Tail(c))
                              ELSE OnePacketIn(Tail(c))
<1> DEFINE m == Head(c)
           d == Tail(c)
<1>1. /\ Len(c) \in Nat \ {0} /\ Len(d) = Len(c) - 1
      /\ DOMAIN c = 1..Len(c) /\ DOMAIN d = 1..Len(d)
      /\ 1 \in DOMAIN c /\ c[1] = m
      /\ \A i \in DOMAIN d : i + 1 \in DOMAIN c /\ d[i] = c[i + 1] /\ i + 1 # 1
      /\ \A i \in DOMAIN c : i # 1 => i - 1 \in DOMAIN d /\ d[i - 1] = c[i]
  OBVIOUS
<1> HIDE DEF m, d
<1>2. NoPacketIn(c) => m.op # "packet" /\ NoPacketIn(d)
  BY <1>1 DEF NoPacketIn
<1>3. OnePacketIn(c) /\ m.op = "packet" => NoPacketIn(d)
  BY <1>1 DEF NoPacketIn, OnePacketIn
<1>4. ASSUME OnePacketIn(c), m.op # "packet" PROVE OnePacketIn(d)
  <2>1. PICK i \in DOMAIN c :
          c[i].op = "packet" /\ \A j \in DOMAIN c : c[j].op = "packet" => j = i
    BY <1>4 DEF OnePacketIn
  <2>2. i # 1 /\ i - 1 \in DOMAIN d /\ d[i - 1].op = "packet"
    BY <1>1, <1>4, <2>1
  <2>3. ASSUME NEW j \in DOMAIN d, d[j].op = "packet" PROVE j = i - 1
    BY <1>1, <2>1, <2>3
  <2> QED
    BY <2>2, <2>3 DEF OnePacketIn
<1> QED
  BY <1>2, <1>3, <1>4 DEF m, d

\* Nothing forwards ARP but the controller: no forwarding rule with an output
\* applies to it.
LEMMA ArpIsNotForwarded ==
  ASSUME Typed, packet.class \in {"arp", "arp_unknown"}, ~packet.answer,
         packet.at = 1, packet.port = 1,
         NEW rule \in Verdicts(table[1], fields \union {In(1)})
  PROVE  rule.to # "output"
<1> DEFINE p == fields \union {In(1)}
<1>1. table[1] \subseteq Installed(1) \union RulesFor(1) /\ 1 \in Switches
  BY SwitchesAssumption DEF Typed
<1>2. IP \notin p
  BY DEF fields, Question, IP, ARP, Dst, In
<1>3. \/ rule = Met(table[1], "forward", p)
      \/ rule.to = "drop"
  BY DEF Verdicts, NoMatch, Rule
<1>4. ASSUME NEW r \in table[1], r.table = "forward", r.match \subseteq p
      PROVE  r.to # "output"
  BY <1>1, <1>2, <1>4, RuleFacts
     DEF Drop, Bypass, LearnedRules, Learned, Rule
<1>5. Met(table[1], "forward", p).to # "output"
  <2> HIDE DEF p
  <2>1. \/ Met(table[1], "forward", p) = NoMatch("forward")
        \/ /\ Met(table[1], "forward", p) \in table[1]
           /\ Met(table[1], "forward", p).table = "forward"
           /\ Met(table[1], "forward", p).match \subseteq p
    BY <1>1, MetIsBest
  <2> QED
    BY <1>4, <2>1 DEF NoMatch, Rule
<1> QED
  BY <1>3, <1>5

\* And the controller does not answer it.
LEMMA ArpIsNotAnswered ==
  ASSUME Typed, packet.class = "arp_unknown", ~packet.answer
  PROVE  packet_in_handler(packet.at, packet.port, fields) = Nothing
<1>1. ARP \in fields /\ \A ip : Dst(ip) \in fields <=> ip = "nobody"
  BY DEF fields, Question, ARP, Dst
<1>2. (CHOOSE ip \in Hosts \union {"probe", "mgmt", "nobody"} : Dst(ip) \in fields) = "nobody"
  BY <1>1
<1>3. "nobody" \notin Hosts \union {"probe"}
  BY DEF Hosts, Users
<1> QED
  BY <1>1, <1>2, <1>3 DEF packet_in_handler, handle_arp

\* Every step leaves the packet in one place.
LEMMA OnePlaceStep ==
  ASSUME Typed, PacketInOnePlace, Typed', [Next]_vars
  PROVE  PacketInOnePlace'
<1> DEFINE Here(s) == packet.where = "channel" /\ packet.at = s
<1>1. /\ packet \in Packets /\ packet.at \in Switches /\ packet.port \in 0..4
      /\ DOMAIN channel = Switches
      /\ \A s \in Switches : channel[s] \in Seq(MessagesFor(s))
  BY DEF Typed, Packets
<1>2. /\ \A s \in Switches : IF Here(s) THEN OnePacketIn(channel[s]) ELSE NoPacketIn(channel[s])
      /\ packet.where = "controller" => packet.at \in up
      /\ packet.class = "arp_unknown" =>
           /\ packet.where # "channel"
           /\ packet.where \in {"switch", "controller", "orphaned"} =>
                packet.at = 1 /\ packet.port = 1 /\ ~packet.answer
  BY OnePlaceBySwitch
<1> SUFFICES
      /\ \A s \in Switches : IF packet'.where = "channel" /\ packet'.at = s
                             THEN OnePacketIn(channel'[s]) ELSE NoPacketIn(channel'[s])
      /\ packet'.where = "controller" => packet'.at \in up'
      /\ packet'.class = "arp_unknown" =>
           /\ packet'.where # "channel"
           /\ packet'.where \in {"switch", "controller", "orphaned"} =>
                packet'.at = 1 /\ packet'.port = 1 /\ ~packet'.answer
  <2>1. packet'.at \in Switches
    BY DEF Typed, Packets
  <2> QED
    BY <2>1 DEF PacketInOnePlace, NoPacketIn, OnePacketIn
<1>3. CASE UNCHANGED <<channel, packet, up>>
  BY <1>2, <1>3
<1>4. CASE Enter
  <2>1. packet' = Entered(packet.class) /\ channel' = channel /\ packet.where # "channel"
    BY <1>4 DEF Enter, forwarding_vars, switch_vars, Over
  <2>2. Sender("arp_unknown") = <<1, 1>>
    BY DEF Sender, arp_table
  <2> QED
    BY <1>2, <2>1, <2>2 DEF Entered
<1>5. CASE Cross
  <2>1. packet.where = "switch" /\ channel' = channel /\ up' = up
    BY <1>5 DEF Cross, forwarding_vars, switch_vars
  <2>2. PICK rule \in Verdicts(table[packet.at], fields \union {In(packet.port)}) :
          packet' = CASE rule.to = "output" -> PutOut(packet.at, rule.port)
                      [] rule.to = "controller" /\ packet.at \in up ->
                           [packet EXCEPT !.where = "controller", !.admitted = TRUE]
                      [] OTHER -> [packet EXCEPT !.where = "lost"]
    BY <1>5 DEF Cross
  <2>3. CASE rule.to = "output"
    <3>1. packet.class # "arp_unknown"
      BY <1>2, <2>1, <2>2, <2>3, ArpIsNotForwarded
    <3>2. packet' = PutOut(packet.at, rule.port)
      BY <2>2, <2>3
    <3>3. packet'.where \in {"switch", "arrived"} /\ packet'.class # "arp_unknown"
      BY <1>1, <3>1, <3>2, PutOutTyped
    <3> QED
      BY <1>2, <2>1, <3>3
  <2>4. CASE rule.to # "output"
    <3>1. \/ packet' = [packet EXCEPT !.where = "controller", !.admitted = TRUE]
             /\ packet.at \in up
          \/ packet' = [packet EXCEPT !.where = "lost"]
      BY <2>2, <2>4
    <3>2. /\ packet'.at = packet.at /\ packet'.port = packet.port
          /\ packet'.class = packet.class /\ packet'.answer = packet.answer
          /\ \/ packet'.where = "controller" /\ packet.at \in up
             \/ packet'.where = "lost"
      BY <1>1, <3>1 DEF Packets
    <3> QED
      BY <1>2, <2>1, <3>2
  <2> QED
    BY <2>3, <2>4
<1>6. CASE PacketIn
  <2> DEFINE answer == packet_in_handler(packet.at, packet.port, fields)
  <2>1. packet.where \in {"controller", "orphaned"} /\ up' = up
    BY <1>6 DEF PacketIn
  <2>2. CASE answer # Nothing /\ packet.where = "controller"
    <3>1. packet.class # "arp_unknown" /\ packet.at \in up
      BY <1>2, <2>1, <2>2, ArpIsNotAnswered
    <3>2. channel' = Sent(To(packet.at, answer)) /\ packet' = [packet EXCEPT !.where = "channel"]
      BY <1>6, <2>2 DEF PacketIn
    <3>3. PICK x \in 0..4, q \in LearnedRules(packet.at) :
            answer \in {<<packet_out(x)>>, <<add_flow(q), packet_out(x)>>}
      BY <1>1, <2>2, AnswerFacts
    <3>4. q \in RulesFor(packet.at)
      BY <3>3 DEF RulesFor
    <3>5. add_flow(q) \in MessagesFor(packet.at) /\ packet_out(x) \in MessagesFor(packet.at)
      BY <3>3, <3>4 DEF MessagesFor
    <3>6. \A s \in Switches :
            channel'[s] = IF s = packet.at THEN channel[s] \o answer ELSE channel[s]
      BY <1>1, <3>1, <3>2, SentTo
    <3> HIDE DEF answer
    <3>7. answer \in Seq(MessagesFor(packet.at))
      BY <3>3, <3>5, ShortSequences
    <3>8. OnePacketIn(answer)
      BY <3>3 DEF OnePacketIn, packet_out, add_flow
    <3>9. NoPacketIn(channel[packet.at])
      BY <1>1, <1>2, <2>1
    <3>10. OnePacketIn(channel[packet.at] \o answer)
      BY <1>1, <3>7, <3>8, <3>9, PacketSent
    <3>11. /\ packet'.where = "channel" /\ packet'.at = packet.at
           /\ packet'.class # "arp_unknown"
      BY <1>1, <3>1, <3>2 DEF Packets
    <3> QED
      BY <1>1, <1>2, <2>1, <3>6, <3>10, <3>11
  <2>3. CASE ~(answer # Nothing /\ packet.where = "controller")
    <3>1. channel' = channel
      BY <1>6, <2>3 DEF PacketIn
    <3>2. \/ packet' = [packet EXCEPT !.where = "arrived"]
          \/ packet' = [packet EXCEPT !.where = "lost"]
      BY <1>6, <2>3 DEF PacketIn
    <3>3. packet'.where \in {"arrived", "lost"} /\ packet'.class = packet.class
      BY <1>1, <3>2 DEF Packets
    <3> QED
      BY <1>2, <2>1, <3>1, <3>3
  <2> QED
    BY <2>2, <2>3
<1>7. ASSUME NEW s \in Switches, Process(s)
      PROVE  /\ \A d \in Switches : IF packet'.where = "channel" /\ packet'.at = d
                                    THEN OnePacketIn(channel'[d]) ELSE NoPacketIn(channel'[d])
             /\ packet'.where = "controller" => packet'.at \in up'
             /\ packet'.class = "arp_unknown" =>
                  /\ packet'.where # "channel"
                  /\ packet'.where \in {"switch", "controller", "orphaned"} =>
                       packet'.at = 1 /\ packet'.port = 1 /\ ~packet'.answer
  <2> DEFINE m == Head(channel[s])
  <2>1. /\ channel[s] # <<>> /\ up' = up
        /\ packet' = IF m.op = "packet" THEN PutOut(s, m.port) ELSE packet
        /\ channel' = [channel EXCEPT ![s] = Tail(channel[s])]
    BY <1>7 DEF Process
  <2>2. /\ channel'[s] = Tail(channel[s])
        /\ \A d \in Switches : d # s => channel'[d] = channel[d]
    BY <1>1, <2>1
  <2>3. /\ NoPacketIn(channel[s]) => m.op # "packet" /\ NoPacketIn(channel'[s])
        /\ OnePacketIn(channel[s]) => IF m.op = "packet" THEN NoPacketIn(channel'[s])
                                      ELSE OnePacketIn(channel'[s])
    BY <1>1, <2>1, <2>2, PacketProcessed
  <2> HIDE DEF m
  <2>4. CASE m.op = "packet"
    <3>1. Here(s) /\ OnePacketIn(channel[s])
      BY <1>2, <2>3, <2>4
    <3>2. packet' = PutOut(s, m.port)
      BY <2>1, <2>4
    <3>3. packet'.where \in {"switch", "arrived"} /\ packet'.class = packet.class
      BY <3>2, PutOutTyped
    <3>4. \A d \in Switches : NoPacketIn(channel'[d])
      BY <1>2, <2>2, <2>3, <2>4, <3>1
    <3> QED
      BY <1>2, <3>1, <3>3, <3>4
  <2>5. CASE m.op # "packet"
    BY <1>2, <2>1, <2>2, <2>3, <2>5
  <2> QED
    BY <2>4, <2>5
<1>8. ASSUME NEW s \in Switches, Leave(s)
      PROVE  /\ \A d \in Switches : IF packet'.where = "channel" /\ packet'.at = d
                                    THEN OnePacketIn(channel'[d]) ELSE NoPacketIn(channel'[d])
             /\ packet'.where = "controller" => packet'.at \in up'
             /\ packet'.class = "arp_unknown" =>
                  /\ packet'.where # "channel"
                  /\ packet'.where \in {"switch", "controller", "orphaned"} =>
                       packet'.at = 1 /\ packet'.port = 1 /\ ~packet'.answer
  <2>1. /\ channel'[s] = <<>> /\ up' = up \ {s}
        /\ \A d \in Switches : d # s => channel'[d] = channel[d]
    BY <1>1, <1>8 DEF Leave
  <2>2. NoPacketIn(channel'[s])
    BY <2>1 DEF NoPacketIn
  <2>3. /\ packet'.at = packet.at /\ packet'.port = packet.port
        /\ packet'.class = packet.class /\ packet'.answer = packet.answer
        /\ packet.at # s => packet'.where = packet.where
        /\ packet.at = s => packet'.where = CASE packet.where = "channel" -> "lost"
                                              [] packet.where = "controller" -> "orphaned"
                                              [] OTHER -> packet.where
    BY <1>1, <1>8 DEF Leave, Packets
  <2> QED
    BY <1>2, <2>1, <2>2, <2>3
<1>9. CASE Command
  <2>1. PICK ms : /\ channel' = Sent(ms)
                  /\ \A s \in Switches : ms[s] \in Seq(MessagesFor(s)) /\ NoPacketIn(ms[s])
    BY <1>9, CommandChannel DEF NoPacketIn
  <2>2. \A s \in Switches : channel'[s] = channel[s] \/ channel'[s] = channel[s] \o ms[s]
    BY <2>1 DEF Sent
  <2>3. ASSUME NEW s \in Switches
        PROVE  /\ NoPacketIn(channel[s]) => NoPacketIn(channel'[s])
               /\ OnePacketIn(channel[s]) => OnePacketIn(channel'[s])
    <3>1. /\ channel[s] \in Seq(MessagesFor(s)) /\ ms[s] \in Seq(MessagesFor(s))
          /\ NoPacketIn(ms[s])
      BY <1>1, <2>1
    <3>2. /\ NoPacketIn(channel[s]) => NoPacketIn(channel[s] \o ms[s])
          /\ OnePacketIn(channel[s]) => OnePacketIn(channel[s] \o ms[s])
      BY <3>1, PacketSent
    <3> QED
      BY <2>2, <3>2
  <2>4. packet' = packet /\ up' = up
    BY <1>9, CommandSends
  <2> QED
    BY <1>2, <2>3, <2>4
<1>10. CASE \E s \in MayLeave : Return(s)
  BY <1>2, <1>10 DEF Return
<1>11. CASE (\E ip \in {"srv", "h1", "probe"} : Idle(ip)) \/ UNCHANGED vars
  BY <1>3, <1>11 DEF Idle, vars, forwarding_vars, switch_vars
<1> QED
  BY <1>4, <1>5, <1>6, <1>7, <1>8, <1>9, <1>10, <1>11, DataPlaneAssumption
     DEF Next, DataPlaneAssumption

\* Types, and the packet in one place, always.
THEOREM DataPlaneTyped == Spec => [](Typed /\ PacketInOnePlace)
<1>1. Init => Typed /\ PacketInOnePlace
  <2> SUFFICES ASSUME Init PROVE PacketInOnePlace
    BY TypedInit
  <2>1. packet.where = "arrived" /\ \A s \in Switches : channel[s] = <<>>
    BY DEF Init, ForwardingInit, Entered
  <2> QED
    BY <2>1 DEF PacketInOnePlace
<1>2. Typed /\ PacketInOnePlace /\ [Next]_vars => (Typed /\ PacketInOnePlace)'
  BY TypedStep, OnePlaceStep
<1> QED
  BY <1>1, <1>2, PTL DEF Spec

\* DataPlane's state keeps its types, and a message in exactly one channel
\* carries the packet that is in a channel, for all numbers of commands and all
\* switches that leave.
THEOREM DataPlaneTypeCorrect == Spec => []TypeOK
<1>1. Typed /\ PacketInOnePlace => TypeOK
  <2> SUFFICES ASSUME Typed, PacketInOnePlace PROVE TypeOK
    OBVIOUS
  <2>1. <<1, 1>> \in {arp_table[h] : h \in Hosts}
    BY DEF arp_table, Hosts, Users
  <2>2. packet.where \in Over \union {"switch", "controller", "orphaned", "channel"}
        /\ packet.at \in Switches
    BY DEF Typed, Packets, Places, Over
  <2>3. ASSUME NEW s \in Switches, NEW r \in table[s]
        PROVE  /\ r.table \in {"policy", "police", "forward"}
               /\ r.to \in {"drop", "next", "controller", "meter", "output"}
    <3>1. r \in Installed(s) \union RulesFor(s)
      BY DEF Typed
    <3> QED
      BY <3>1, RuleParts
  <2> QED
    BY <2>1, <2>2, <2>3 DEF TypeOK, Typed, PacketInOnePlace
<1> QED
  BY <1>1, DataPlaneTyped, PTL

-----------------------------------------------------------------------------
(***************************************************************************)
(* What the commands' messages do to the rules of the commands.            *)
(***************************************************************************)
Quiet(ms, r) == \A i \in DOMAIN ms : ~Touches(ms[i], r)
Decides(ms, r, wanted) ==
  \E last \in DOMAIN ms :
    /\ Touches(ms[last], r)
    /\ \A j \in DOMAIN ms : j > last => ~Touches(ms[j], r)
    /\ Adds(ms[last], r) <=> wanted

\* The rules of the commands can be told apart, and by the port where they
\* have one.
LEMMA RulesApart ==
  /\ \A port, q \in UserPorts : In(port) = In(q) => port = q
  /\ \A port : Drop(port).table = "forward" /\ Drop(port).priority = 100
               /\ Drop(port).match = {In(port)} /\ Drop(port).to = "drop"
  /\ \A port : Limit(port).table = "police" /\ Limit(port).priority = 100
               /\ Limit(port).match = {In(port), IP, L4("service")}
               /\ Limit(port).to = "meter" /\ Limit(port).port = port
  /\ \A port : UserZone(port).table = "policy" /\ UserZone(port).priority = 200
               /\ UserZone(port).match = {In(port), IP, Dst("srv"), L4("service")}
               /\ UserZone(port).to = "next"
  /\ \A port : QuarantineZone(port).table = "policy" /\ QuarantineZone(port).priority = 300
               /\ QuarantineZone(port).match = {In(port), IP, Dst("mgmt"), L4("manage")}
               /\ QuarantineZone(port).to = "next"
  /\ \A s : Bypass(s).table = "forward" /\ Bypass(s).priority = 20
            /\ Bypass(s).match = {IP, Dst("srv")} /\ Bypass(s).to = "output"
  BY DEF In, Drop, Limit, UserZone, QuarantineZone, Bypass, Pass, Rule, UserPorts

\* So can the fields of their matches.
LEMMA FieldsApart ==
  /\ IP # Dst("srv") /\ IP # Dst("mgmt") /\ IP # L4("service") /\ IP # L4("manage")
  /\ Dst("srv") # Dst("mgmt") /\ Dst("srv") # L4("service") /\ Dst("srv") # L4("manage")
  /\ Dst("mgmt") # L4("service") /\ Dst("mgmt") # L4("manage")
  /\ L4("service") # L4("manage")
  /\ \A port : In(port) # IP /\ In(port) # Dst("srv") /\ In(port) # Dst("mgmt")
               /\ In(port) # L4("service") /\ In(port) # L4("manage")
  BY DEF IP, Dst, L4, In

Tracked ==
  {Drop(port) : port \in UserPorts} \union {Limit(port) : port \in UserPorts}
    \union {UserZone(port) : port \in UserPorts}
    \union {QuarantineZone(port) : port \in UserPorts}
    \union {Bypass(s) : s \in Switches}

\* A message about one port or the bypass concerns one tracked rule, and
\* the bypass of each switch is the business of that switch.
LEMMA MessageTouches ==
  ASSUME NEW r \in Tracked
  PROVE  /\ Touches(add_flow(Drop(1)), r) <=> r = Drop(1)
         /\ Touches(delete_flow("forward", {In(1)}), r) <=> r = Drop(1)
         /\ Touches(add_flow(Limit(1)), r) <=> r = Limit(1)
         /\ Touches(delete_flow("police", {In(1)}), r) <=> r = Limit(1)
         /\ Touches(delete_meter(1), r) <=> r = Limit(1)
         /\ Touches(add_flow(UserZone(1)), r) <=> r = UserZone(1)
         /\ Touches(delete_flow("policy", UserZone(1).match), r) <=> r = UserZone(1)
         /\ Touches(add_flow(QuarantineZone(1)), r) <=> r = QuarantineZone(1)
         /\ Touches(delete_flow("policy", QuarantineZone(1).match), r)
              <=> r = QuarantineZone(1)
         /\ \A s \in Switches :
              /\ Touches(add_flow(Bypass(s)), r) => \E q \in Switches : r = Bypass(q)
              /\ Touches(delete_flow("forward", Bypass(s).match), r) <=>
                   \E q \in Switches : r = Bypass(q)
<1> USE RulesApart, FieldsApart
<1>1. 1 \in UserPorts
  BY DEF UserPorts
<1>2. r = Drop(1) <=> r.table = "forward" /\ In(1) \in r.match
  BY <1>1 DEF Tracked
<1>3. r = Limit(1) <=> r.table = "police" /\ In(1) \in r.match
  BY <1>1 DEF Tracked
<1>4. r = UserZone(1) <=> r.table = "policy" /\ In(1) \in r.match /\ Dst("srv") \in r.match
  BY <1>1 DEF Tracked
<1>5. r = QuarantineZone(1) <=>
        r.table = "policy" /\ In(1) \in r.match /\ Dst("mgmt") \in r.match
  BY <1>1 DEF Tracked
<1>6. (\E q \in Switches : r = Bypass(q)) <=> r.table = "forward" /\ IP \in r.match
  BY DEF Tracked
<1>7. (r.to = "meter" /\ r.port = 1) <=> r = Limit(1)
  BY <1>1 DEF Tracked
<1> QED
  BY <1>2, <1>3, <1>4, <1>5, <1>6, <1>7, AddTouches, DeleteTouches, OthersTouch

\* The rule that each message sequence about h1 decides on, and how; it is
\* quiet about every other.
LEMMA AboutH1Decides ==
  ASSUME NEW r \in Tracked
  PROVE  /\ IF r = Drop(1) THEN Decides(<<add_flow(Drop(1))>>, r, TRUE)
            ELSE Quiet(<<add_flow(Drop(1))>>, r)
         /\ IF r = Drop(1) THEN Decides(<<delete_flow("forward", {In(1)})>>, r, FALSE)
            ELSE Quiet(<<delete_flow("forward", {In(1)})>>, r)
         /\ LET ms == <<delete_meter(1), delete_flow("police", {In(1)}), add_flow(Limit(1))>>
            IN IF r = Limit(1) THEN Decides(ms, r, TRUE) ELSE Quiet(ms, r)
         /\ LET ms == <<delete_flow("police", {In(1)}), delete_meter(1)>>
            IN IF r = Limit(1) THEN Decides(ms, r, FALSE) ELSE Quiet(ms, r)
         /\ LET ms == <<delete_flow("policy", UserZone(1).match), add_flow(QuarantineZone(1))>>
            IN IF r = QuarantineZone(1) THEN Decides(ms, r, TRUE)
               ELSE IF r = UserZone(1) THEN Decides(ms, r, FALSE) ELSE Quiet(ms, r)
         /\ LET ms == <<delete_flow("policy", QuarantineZone(1).match), add_flow(UserZone(1))>>
            IN IF r = UserZone(1) THEN Decides(ms, r, TRUE)
               ELSE IF r = QuarantineZone(1) THEN Decides(ms, r, FALSE) ELSE Quiet(ms, r)
<1>1. \A q : Adds(add_flow(q), r) <=> r = q
  BY AddTouches
<1>2. /\ \A t, match : ~Adds(delete_flow(t, match), r)
      /\ ~Adds(delete_meter(1), r)
  BY DeleteTouches, OthersTouch
<1>3. Drop(1) # Limit(1) /\ UserZone(1) # QuarantineZone(1)
  BY RulesApart
<1>4. /\ \A a : DOMAIN <<a>> = {1} /\ <<a>>[1] = a
      /\ \A a, b : DOMAIN <<a, b>> = {1, 2} /\ <<a, b>>[1] = a /\ <<a, b>>[2] = b
      /\ \A a, b, c : DOMAIN <<a, b, c>> = {1, 2, 3} /\ <<a, b, c>>[1] = a
                      /\ <<a, b, c>>[2] = b /\ <<a, b, c>>[3] = c
  OBVIOUS
<1>5. \A a, wanted : /\ ~Touches(a, r) => Quiet(<<a>>, r)
                     /\ Touches(a, r) /\ (Adds(a, r) <=> wanted) => Decides(<<a>>, r, wanted)
  BY <1>4 DEF Quiet, Decides
<1>6. \A a, b, wanted :
        /\ ~Touches(a, r) /\ ~Touches(b, r) => Quiet(<<a, b>>, r)
        /\ Touches(b, r) /\ (Adds(b, r) <=> wanted) => Decides(<<a, b>>, r, wanted)
        /\ Touches(a, r) /\ ~Touches(b, r) /\ (Adds(a, r) <=> wanted)
             => Decides(<<a, b>>, r, wanted)
  BY <1>4 DEF Quiet, Decides
<1>7. \A a, b, c, wanted :
        /\ ~Touches(a, r) /\ ~Touches(b, r) /\ ~Touches(c, r) => Quiet(<<a, b, c>>, r)
        /\ Touches(c, r) /\ (Adds(c, r) <=> wanted) => Decides(<<a, b, c>>, r, wanted)
  BY <1>4 DEF Quiet, Decides
<1>8. /\ IF r = Drop(1) THEN Decides(<<add_flow(Drop(1))>>, r, TRUE)
         ELSE Quiet(<<add_flow(Drop(1))>>, r)
      /\ IF r = Drop(1) THEN Decides(<<delete_flow("forward", {In(1)})>>, r, FALSE)
         ELSE Quiet(<<delete_flow("forward", {In(1)})>>, r)
  BY <1>1, <1>2, <1>5, MessageTouches
<1>9. LET ms == <<delete_meter(1), delete_flow("police", {In(1)}), add_flow(Limit(1))>>
      IN IF r = Limit(1) THEN Decides(ms, r, TRUE) ELSE Quiet(ms, r)
  BY <1>1, <1>7, MessageTouches
<1>10. LET ms == <<delete_flow("police", {In(1)}), delete_meter(1)>>
       IN IF r = Limit(1) THEN Decides(ms, r, FALSE) ELSE Quiet(ms, r)
  BY <1>2, <1>6, MessageTouches
<1>11. LET ms == <<delete_flow("policy", UserZone(1).match), add_flow(QuarantineZone(1))>>
       IN IF r = QuarantineZone(1) THEN Decides(ms, r, TRUE)
          ELSE IF r = UserZone(1) THEN Decides(ms, r, FALSE) ELSE Quiet(ms, r)
  BY <1>1, <1>2, <1>3, <1>6, MessageTouches
<1>12. LET ms == <<delete_flow("policy", QuarantineZone(1).match), add_flow(UserZone(1))>>
       IN IF r = UserZone(1) THEN Decides(ms, r, TRUE)
          ELSE IF r = QuarantineZone(1) THEN Decides(ms, r, FALSE) ELSE Quiet(ms, r)
  BY <1>1, <1>2, <1>3, <1>6, MessageTouches
<1> QED
  BY <1>8, <1>9, <1>10, <1>11, <1>12

-----------------------------------------------------------------------------
(***************************************************************************)
(* Tables follow the commands.                                             *)
(***************************************************************************)
\* Every step but a command leaves what a tracked rule will be.
LEMMA SettlesStep ==
  ASSUME Typed, Next, ~Command, NEW s \in Switches, s \notin left',
         NEW r \in Tracked, NEW wanted \in BOOLEAN,
         Settles(table[s], channel[s], r, wanted)
  PROVE  Settles(table'[s], channel'[s], r, wanted)
<1>1. /\ DOMAIN table = Switches /\ DOMAIN channel = Switches
      /\ \A d \in Switches : channel[d] \in Seq(MessagesFor(d))
      /\ packet.at \in Switches /\ packet.port \in 0..4
      /\ Switches \ up \subseteq left
  BY DEF Typed, Packets
<1>2. r.priority # 10
  BY RulesApart DEF Tracked
<1>3. CASE Enter \/ Cross
  BY <1>3 DEF Enter, Cross, forwarding_vars, switch_vars
<1>4. CASE PacketIn
  <2>1. table' = table
    BY <1>4 DEF PacketIn
  <2>2. CASE UNCHANGED channel
    BY <2>1, <2>2
  <2> DEFINE answer == packet_in_handler(packet.at, packet.port, fields)
  <2>3. CASE answer # Nothing /\ channel' = Sent(To(packet.at, answer))
    <3>1. PICK x \in 0..4, q \in LearnedRules(packet.at) :
            answer \in {<<packet_out(x)>>, <<add_flow(q), packet_out(x)>>}
      BY <1>1, <2>3, AnswerFacts
    <3>2. q.priority = 10 /\ q # r /\ q \in RulesFor(packet.at)
      BY <1>2, <3>1 DEF LearnedRules, Learned, Rule, RulesFor
    <3>3. ~Touches(add_flow(q), r) /\ ~Touches(packet_out(x), r)
      BY <1>2, <3>2, AddTouches, OthersTouch
    <3>4. add_flow(q) \in MessagesFor(packet.at) /\ packet_out(x) \in MessagesFor(packet.at)
      BY <3>1, <3>2 DEF MessagesFor
    <3>5. channel'[s] = IF s = packet.at /\ s \in up THEN channel[s] \o answer ELSE channel[s]
      BY <1>1, <2>3, SentTo
    <3> HIDE DEF answer
    <3>6. answer \in Seq(MessagesFor(packet.at))
      BY <3>1, <3>4, ShortSequences
    <3>7. \A i \in DOMAIN answer : ~Touches(answer[i], r)
      BY <3>1, <3>3
    <3>8. s = packet.at => Settles(table[s], channel[s] \o answer, r, wanted)
      BY <1>1, <3>6, <3>7, SettlesQuiet
    <3> QED
      BY <2>1, <3>5, <3>8
  <2> QED
    BY <1>4, <2>2, <2>3 DEF PacketIn
<1>5. ASSUME NEW d \in Switches, Process(d)
      PROVE  Settles(table'[s], channel'[s], r, wanted)
  <2>1. CASE d = s
    <3>1. /\ channel[s] # <<>> /\ channel[s] \in Seq(MessagesFor(s))
          /\ table'[s] = Processed(table[s], Head(channel[s]))
          /\ channel'[s] = Tail(channel[s])
      BY <1>1, <1>5, <2>1 DEF Process
    <3>2. Head(channel[s]) \in MessagesFor(s)
      BY <3>1
    <3>3. Head(channel[s]).op \in Operations
      BY <3>2, MessageParts
    <3> QED
      BY <3>1, <3>3, SettlesProcessed
  <2>2. CASE d # s
    BY <1>1, <1>5, <2>2 DEF Process
  <2> QED
    BY <2>1, <2>2
<1>6. ASSUME NEW ip, Idle(ip)
      PROVE  Settles(table'[s], channel'[s], r, wanted)
  <2>1. channel' = channel /\ (r \in table'[s] <=> r \in table[s])
    BY <1>2, <1>6 DEF Idle
  <2> QED
    BY <2>1 DEF Settles
<1>7. ASSUME NEW d \in MayLeave, Leave(d) \/ Return(d)
      PROVE  Settles(table'[s], channel'[s], r, wanted)
  <2>1. s # d
    BY <1>1, <1>7, DataPlaneAssumption DEF Leave, Return, DataPlaneAssumption
  <2>2. table'[s] = table[s] /\ channel'[s] = channel[s]
    BY <1>1, <1>7, <2>1 DEF Leave, Return
  <2> QED
    BY <2>2
<1> QED
  BY <1>3, <1>4, <1>5, <1>6, <1>7 DEF Next

\* Quiet messages and deciding ones, sent to a switch that is there.
LEMMA SettlesSent ==
  ASSUME Typed, NEW s \in Switches, s \in up, NEW ms \in Seq(MessagesFor(s)),
         NEW r, NEW old \in BOOLEAN, NEW new \in BOOLEAN,
         Settles(table[s], channel[s], r, old),
         Decides(ms, r, new) \/ (Quiet(ms, r) /\ new = old)
  PROVE  Settles(table[s], channel[s] \o ms, r, new)
<1>1. channel[s] \in Seq(MessagesFor(s))
  BY DEF Typed
<1>2. CASE Decides(ms, r, new)
  BY <1>1, <1>2, SettlesDecided DEF Decides
<1>3. CASE Quiet(ms, r) /\ new = old
  BY <1>1, <1>3, SettlesQuiet DEF Quiet
<1> QED
  BY <1>2, <1>3

\* The rules of both users are tracked, and differ.
LEMMA UserRules ==
  ASSUME NEW port \in UserPorts
  PROVE  /\ {Drop(port), Limit(port), UserZone(port), QuarantineZone(port)} \subseteq Tracked
         /\ Drop(port) = Drop(1) <=> port = 1
         /\ Limit(port) = Limit(1) <=> port = 1
         /\ UserZone(port) = UserZone(1) <=> port = 1
         /\ QuarantineZone(port) = QuarantineZone(1) <=> port = 1
         /\ \A q : Drop(port) \notin {Limit(q), UserZone(q), QuarantineZone(q)}
         /\ \A q : Limit(port) \notin {Drop(q), UserZone(q), QuarantineZone(q)}
         /\ \A q : UserZone(port) \notin {Drop(q), Limit(q), QuarantineZone(q)}
         /\ \A q : QuarantineZone(port) \notin {Drop(q), Limit(q), UserZone(q)}
<1>1. {Drop(port), Limit(port), UserZone(port), QuarantineZone(port)} \subseteq Tracked
  BY DEF Tracked
<1>2. \A r \in {Drop(port), Limit(port), UserZone(port), QuarantineZone(port)} :
        In(1) \in r.match <=> port = 1
  <2>1. 1 \in UserPorts
    BY DEF UserPorts
  <2> QED
    BY <2>1, RulesApart, FieldsApart
<1>3. /\ \A r \in {Drop(1), Limit(1), UserZone(1), QuarantineZone(1)} : In(1) \in r.match
  BY RulesApart
<1>4. /\ \A q : Drop(port) \notin {Limit(q), UserZone(q), QuarantineZone(q)}
      /\ \A q : Limit(port) \notin {Drop(q), UserZone(q), QuarantineZone(q)}
      /\ \A q : UserZone(port) \notin {Drop(q), Limit(q), QuarantineZone(q)}
      /\ \A q : QuarantineZone(port) \notin {Drop(q), Limit(q), UserZone(q)}
  BY RulesApart
<1>5. /\ Drop(port) = Drop(1) <=> port = 1
      /\ Limit(port) = Limit(1) <=> port = 1
      /\ UserZone(port) = UserZone(1) <=> port = 1
      /\ QuarantineZone(port) = QuarantineZone(1) <=> port = 1
  BY <1>2, <1>3
<1> QED
  BY <1>1, <1>4, <1>5

\* Messages that make what is wanted of a rule old into new.
Turns(ms, r, old, new) == Decides(ms, r, new) \/ (Quiet(ms, r) /\ (new <=> old))

\* Sent to a switch that is there, they do.
LEMMA SettlesTurned ==
  ASSUME Typed, NEW s \in Switches, s \in up, NEW ms \in Seq(MessagesFor(s)),
         NEW r, NEW old \in BOOLEAN, NEW new \in BOOLEAN,
         Settles(table[s], channel[s], r, old), Turns(ms, r, old, new)
  PROVE  Settles(table[s], channel[s] \o ms, r, new)
  BY SettlesSent DEF Turns

\* A command about h1 whose messages turn what was asked for into what is
\* asked for now.
LEMMA AboutH1Settles ==
  ASSUME Typed, TablesSettle, UNCHANGED <<table, up, left>>, commanded' \in Orders,
         NEW ms \in AboutH1, channel' = Sent(To(1, ms)),
         commanded'.rerouted = commanded.rerouted,
         \A port \in UserPorts :
           /\ Turns(ms, Drop(port), UserAt(port) \in commanded.isolated,
                    UserAt(port) \in commanded'.isolated)
           /\ Turns(ms, Limit(port), UserAt(port) \in commanded.limited,
                    UserAt(port) \in commanded'.limited)
           /\ Turns(ms, UserZone(port), UserAt(port) \notin quarantined_hosts,
                    UserAt(port) \notin quarantined_hosts')
           /\ Turns(ms, QuarantineZone(port), UserAt(port) \in quarantined_hosts,
                    UserAt(port) \in quarantined_hosts')
  PROVE  TablesSettle'
<1>1. /\ Switches \ up \subseteq left /\ 1 \in Switches /\ commanded.rerouted \in BOOLEAN
  BY SwitchesAssumption DEF Typed, Orders
<1>2. \A s \in Switches :
        channel'[s] = IF s = 1 /\ s \in up THEN channel[s] \o ms ELSE channel[s]
  BY <1>1, SentTo
<1>3. ms \in Seq(MessagesFor(1))
  BY AboutH1Typed
<1>4. ASSUME 1 \notin left, NEW port \in UserPorts
      PROVE  /\ Settles(table[1], channel[1] \o ms, Drop(port),
                        UserAt(port) \in commanded'.isolated)
             /\ Settles(table[1], channel[1] \o ms, Limit(port),
                        UserAt(port) \in commanded'.limited)
             /\ Settles(table[1], channel[1] \o ms, UserZone(port),
                        UserAt(port) \notin quarantined_hosts')
             /\ Settles(table[1], channel[1] \o ms, QuarantineZone(port),
                        UserAt(port) \in quarantined_hosts')
  <2>1. 1 \in up
    BY <1>1, <1>4
  <2>2. Settles(table[1], channel[1] \o ms, Drop(port),
                UserAt(port) \in commanded'.isolated)
    <3>1. Settles(table[1], channel[1], Drop(port), UserAt(port) \in commanded.isolated)
      BY <1>4 DEF TablesSettle
    <3>2. Turns(ms, Drop(port), UserAt(port) \in commanded.isolated,
                UserAt(port) \in commanded'.isolated)
      BY <1>4
    <3>3. /\ (UserAt(port) \in commanded.isolated) \in BOOLEAN
          /\ (UserAt(port) \in commanded'.isolated) \in BOOLEAN
      OBVIOUS
    <3> QED
      BY <1>1, <1>3, <2>1, <3>1, <3>2, <3>3, SettlesTurned
  <2>3. Settles(table[1], channel[1] \o ms, Limit(port),
                UserAt(port) \in commanded'.limited)
    <3>1. Settles(table[1], channel[1], Limit(port), UserAt(port) \in commanded.limited)
      BY <1>4 DEF TablesSettle
    <3>2. Turns(ms, Limit(port), UserAt(port) \in commanded.limited,
                UserAt(port) \in commanded'.limited)
      BY <1>4
    <3>3. /\ (UserAt(port) \in commanded.limited) \in BOOLEAN
          /\ (UserAt(port) \in commanded'.limited) \in BOOLEAN
      OBVIOUS
    <3> QED
      BY <1>1, <1>3, <2>1, <3>1, <3>2, <3>3, SettlesTurned
  <2>4. Settles(table[1], channel[1] \o ms, UserZone(port),
                UserAt(port) \notin quarantined_hosts')
    <3>1. Settles(table[1], channel[1], UserZone(port), UserAt(port) \notin quarantined_hosts)
      BY <1>4 DEF TablesSettle
    <3>2. Turns(ms, UserZone(port), UserAt(port) \notin quarantined_hosts,
                UserAt(port) \notin quarantined_hosts')
      BY <1>4
    <3>3. /\ (UserAt(port) \notin quarantined_hosts) \in BOOLEAN
          /\ (UserAt(port) \notin quarantined_hosts') \in BOOLEAN
      OBVIOUS
    <3> QED
      BY <1>1, <1>3, <2>1, <3>1, <3>2, <3>3, SettlesTurned
  <2>5. Settles(table[1], channel[1] \o ms, QuarantineZone(port),
                UserAt(port) \in quarantined_hosts')
    <3>1. Settles(table[1], channel[1], QuarantineZone(port), UserAt(port) \in quarantined_hosts)
      BY <1>4 DEF TablesSettle
    <3>2. Turns(ms, QuarantineZone(port), UserAt(port) \in quarantined_hosts,
                UserAt(port) \in quarantined_hosts')
      BY <1>4
    <3>3. /\ (UserAt(port) \in quarantined_hosts) \in BOOLEAN
          /\ (UserAt(port) \in quarantined_hosts') \in BOOLEAN
      OBVIOUS
    <3> QED
      BY <1>1, <1>3, <2>1, <3>1, <3>2, <3>3, SettlesTurned
  <2> QED
    BY <2>2, <2>3, <2>4, <2>5
<1>5. ASSUME NEW s \in Switches, s \notin left, s \in R!SpecDpids[1]
      PROVE  Settles(table[s], channel'[s], Bypass(s), commanded.rerouted)
  <2>1. Settles(table[s], channel[s], Bypass(s), commanded.rerouted)
    BY <1>5 DEF TablesSettle
  <2>2. Quiet(ms, Bypass(s))
    <3>1. Bypass(s) \in Tracked
      BY DEF Tracked
    <3>2. Bypass(s) \notin {Drop(1), Limit(1), UserZone(1), QuarantineZone(1)}
      BY RulesApart
    <3> QED
      BY <3>1, <3>2, AboutH1Decides DEF AboutH1
  <2>3. s \in up
    BY <1>1, <1>5
  <2>4. s = 1 => Settles(table[s], channel[s] \o ms, Bypass(s), commanded.rerouted)
    BY <1>1, <1>3, <2>1, <2>2, <2>3, SettlesSent
  <2> QED
    BY <1>2, <2>1, <2>4
<1> QED
  BY <1>1, <1>2, <1>4, <1>5 DEF TablesSettle

\* Each command settles what it asks for.
LEMMA CommandSettles ==
  ASSUME Typed, Command, TablesSettle
  PROVE  TablesSettle'
<1>1. /\ UNCHANGED <<table, up, left>> /\ commanded' \in Orders /\ commanded \in Orders
      /\ Switches \ up \subseteq left /\ 1 \in Switches
      /\ \A s \in Switches : channel[s] \in Seq(MessagesFor(s))
  BY CommandSends, CommandedTyped, SwitchesAssumption DEF Typed
<1>2. /\ UserAt(1) = "h1" /\ \A port \in UserPorts : port # 1 => UserAt(port) # "h1"
      /\ arp_table["h1"][1] = 1 /\ arp_table["h1"][2] = 1
  BY DEF UserAt, UserPorts, arp_table
<1>3. ASSUME NEW on \in BOOLEAN, NEW ms, ms = IF on THEN AddBypass ELSE DeleteBypass,
             channel' = Sent(ms),
             quarantined_hosts' = quarantined_hosts,
             commanded'.isolated = commanded.isolated, commanded'.limited = commanded.limited,
             commanded'.rerouted = on
      PROVE  TablesSettle'
  <2>1. ASSUME NEW s \in Switches
        PROVE  ms[s] = IF s \notin R!SpecDpids[1] THEN <<>>
                       ELSE IF on THEN <<add_flow(Bypass(s))>>
                       ELSE <<delete_flow("forward", Bypass(s).match)>>
    BY <1>3 DEF AddBypass, DeleteBypass
  <2>2. ASSUME NEW s \in Switches, s \notin left
        PROVE  /\ s \in up
               /\ channel'[s] = channel[s] \o ms[s] /\ ms[s] \in Seq(MessagesFor(s))
    BY <1>1, <1>3, <2>2, BypassTyped DEF Sent
  <2>3. ASSUME NEW s \in Switches, NEW r \in Tracked, \A q \in Switches : r # Bypass(q)
        PROVE  Quiet(ms[s], r)
    <3>1. /\ ~Touches(add_flow(Bypass(s)), r)
          /\ ~Touches(delete_flow("forward", Bypass(s).match), r)
      BY <2>3, MessageTouches
    <3>2. ms[s] \in {<<>>, <<add_flow(Bypass(s))>>, <<delete_flow("forward", Bypass(s).match)>>}
      BY <2>1
    <3> QED
      BY <3>1, <3>2 DEF Quiet
  <2>4. ASSUME NEW s \in Switches, s \in R!SpecDpids[1]
        PROVE  Decides(ms[s], Bypass(s), on)
    <3>1. Bypass(s) \in Tracked
      BY DEF Tracked
    <3>2. Touches(add_flow(Bypass(s)), Bypass(s)) /\ Adds(add_flow(Bypass(s)), Bypass(s))
      BY AddTouches
    <3>3. /\ Touches(delete_flow("forward", Bypass(s).match), Bypass(s))
          /\ ~Adds(delete_flow("forward", Bypass(s).match), Bypass(s))
      BY <3>1, MessageTouches, DeleteTouches
    <3>4. CASE on
      <4>1. ms[s] = <<add_flow(Bypass(s))>>
        BY <2>1, <2>4, <3>4
      <4> QED
        BY <3>2, <3>4, <4>1 DEF Decides
    <3>5. CASE ~on
      <4>1. ms[s] = <<delete_flow("forward", Bypass(s).match)>>
        BY <2>1, <2>4, <3>5
      <4> QED
        BY <3>3, <3>5, <4>1 DEF Decides
    <3> QED
      BY <3>4, <3>5
  <2>5. ASSUME 1 \notin left, NEW r \in Tracked, \A q \in Switches : r # Bypass(q),
               NEW wanted \in BOOLEAN, Settles(table[1], channel[1], r, wanted)
        PROVE  Settles(table[1], channel'[1], r, wanted)
    <3>1. /\ 1 \in up /\ ms[1] \in Seq(MessagesFor(1))
          /\ channel'[1] = channel[1] \o ms[1]
      BY <1>1, <2>2, <2>5
    <3>2. Quiet(ms[1], r)
      BY <1>1, <2>3, <2>5
    <3>3. Settles(table[1], channel[1] \o ms[1], r, wanted)
      BY <1>1, <2>5, <3>1, <3>2, SettlesSent
    <3> QED
      BY <3>1, <3>3
  <2>6. ASSUME 1 \notin left, NEW port \in UserPorts
        PROVE  /\ Settles(table[1], channel'[1], Drop(port), UserAt(port) \in commanded.isolated)
               /\ Settles(table[1], channel'[1], Limit(port), UserAt(port) \in commanded.limited)
               /\ Settles(table[1], channel'[1], UserZone(port),
                          UserAt(port) \notin quarantined_hosts)
               /\ Settles(table[1], channel'[1], QuarantineZone(port),
                          UserAt(port) \in quarantined_hosts)
    <3>1. \A r \in {Drop(port), Limit(port), UserZone(port), QuarantineZone(port)} :
            r \in Tracked /\ \A q \in Switches : r # Bypass(q)
      BY UserRules, RulesApart
    <3>2. Settles(table[1], channel'[1], Drop(port), UserAt(port) \in commanded.isolated)
      <4>1. Settles(table[1], channel[1], Drop(port), UserAt(port) \in commanded.isolated)
        BY <2>6 DEF TablesSettle
      <4>2. (UserAt(port) \in commanded.isolated) \in BOOLEAN
        OBVIOUS
      <4> QED
        BY <2>5, <2>6, <3>1, <4>1, <4>2
    <3>3. Settles(table[1], channel'[1], Limit(port), UserAt(port) \in commanded.limited)
      <4>1. Settles(table[1], channel[1], Limit(port), UserAt(port) \in commanded.limited)
        BY <2>6 DEF TablesSettle
      <4>2. (UserAt(port) \in commanded.limited) \in BOOLEAN
        OBVIOUS
      <4> QED
        BY <2>5, <2>6, <3>1, <4>1, <4>2
    <3>4. Settles(table[1], channel'[1], UserZone(port), UserAt(port) \notin quarantined_hosts)
      <4>1. Settles(table[1], channel[1], UserZone(port), UserAt(port) \notin quarantined_hosts)
        BY <2>6 DEF TablesSettle
      <4>2. (UserAt(port) \notin quarantined_hosts) \in BOOLEAN
        OBVIOUS
      <4> QED
        BY <2>5, <2>6, <3>1, <4>1, <4>2
    <3>5. Settles(table[1], channel'[1], QuarantineZone(port),
                  UserAt(port) \in quarantined_hosts)
      <4>1. Settles(table[1], channel[1], QuarantineZone(port), UserAt(port) \in quarantined_hosts)
        BY <2>6 DEF TablesSettle
      <4>2. (UserAt(port) \in quarantined_hosts) \in BOOLEAN
        OBVIOUS
      <4> QED
        BY <2>5, <2>6, <3>1, <4>1, <4>2
    <3> QED
      BY <3>2, <3>3, <3>4, <3>5
  <2>7. ASSUME NEW s \in Switches, s \notin left, s \in R!SpecDpids[1]
        PROVE  Settles(table[s], channel'[s], Bypass(s), on)
    <3>1. Settles(table[s], channel[s], Bypass(s), commanded.rerouted)
          /\ commanded.rerouted \in BOOLEAN
      BY <1>1, <2>7 DEF TablesSettle, Orders
    <3> QED
      BY <2>2, <2>4, <2>7, <3>1, SettlesSent
  <2> QED
    BY <1>1, <1>3, <2>6, <2>7 DEF TablesSettle
<1>4. CASE isolate_port("h1")
          /\ commanded' = [commanded EXCEPT !.isolated = commanded.isolated \union {"h1"},
                                         !.given = commanded.given + 1]
  <2> DEFINE ms == <<add_flow(Drop(1))>>
  <2>1. /\ channel' = Sent(To(1, ms)) /\ ms \in AboutH1
    BY <1>2, <1>4 DEF isolate_port, AboutH1
  <2>2. /\ commanded'.rerouted = commanded.rerouted
        /\ commanded'.isolated = commanded.isolated \union {"h1"}
        /\ commanded'.limited = commanded.limited
        /\ quarantined_hosts' = quarantined_hosts
    BY <1>1, <1>4 DEF Orders, isolate_port
  <2>3. ASSUME NEW r \in Tracked
        PROVE  IF r = Drop(1) THEN Decides(ms, r, TRUE) ELSE Quiet(ms, r)
    BY AboutH1Decides
  <2> HIDE DEF ms
  <2>4. ASSUME NEW port \in UserPorts
        PROVE  /\ Turns(ms, Drop(port), UserAt(port) \in commanded.isolated,
                        UserAt(port) \in commanded'.isolated)
               /\ Turns(ms, Limit(port), UserAt(port) \in commanded.limited,
                        UserAt(port) \in commanded'.limited)
               /\ Turns(ms, UserZone(port), UserAt(port) \notin quarantined_hosts,
                        UserAt(port) \notin quarantined_hosts')
               /\ Turns(ms, QuarantineZone(port), UserAt(port) \in quarantined_hosts,
                        UserAt(port) \in quarantined_hosts')
    <3>1. Turns(ms, Drop(port), UserAt(port) \in commanded.isolated,
                UserAt(port) \in commanded'.isolated)
      BY <1>2, <2>2, <2>3, <2>4, UserRules DEF Turns
    <3>2. Turns(ms, Limit(port), UserAt(port) \in commanded.limited,
                UserAt(port) \in commanded'.limited)
      BY <1>2, <2>2, <2>3, <2>4, UserRules DEF Turns
    <3>3. Turns(ms, UserZone(port), UserAt(port) \notin quarantined_hosts,
                UserAt(port) \notin quarantined_hosts')
      BY <1>2, <2>2, <2>3, <2>4, UserRules DEF Turns
    <3>4. Turns(ms, QuarantineZone(port), UserAt(port) \in quarantined_hosts,
                UserAt(port) \in quarantined_hosts')
      BY <1>2, <2>2, <2>3, <2>4, UserRules DEF Turns
    <3> QED
      BY <3>1, <3>2, <3>3, <3>4
  <2> QED
    BY <1>1, <2>1, <2>2, <2>4, AboutH1Settles
<1>5. CASE restore_port("h1")
          /\ commanded' = [commanded EXCEPT !.isolated = commanded.isolated \ {"h1"},
                                         !.given = commanded.given + 1]
  <2> DEFINE ms == <<delete_flow("forward", {In(1)})>>
  <2>1. /\ channel' = Sent(To(1, ms)) /\ ms \in AboutH1
    BY <1>2, <1>5 DEF restore_port, AboutH1
  <2>2. /\ commanded'.rerouted = commanded.rerouted
        /\ commanded'.isolated = commanded.isolated \ {"h1"}
        /\ commanded'.limited = commanded.limited
        /\ quarantined_hosts' = quarantined_hosts
    BY <1>1, <1>5 DEF Orders, restore_port
  <2>3. ASSUME NEW r \in Tracked
        PROVE  IF r = Drop(1) THEN Decides(ms, r, FALSE) ELSE Quiet(ms, r)
    BY AboutH1Decides
  <2> HIDE DEF ms
  <2>4. ASSUME NEW port \in UserPorts
        PROVE  /\ Turns(ms, Drop(port), UserAt(port) \in commanded.isolated,
                        UserAt(port) \in commanded'.isolated)
               /\ Turns(ms, Limit(port), UserAt(port) \in commanded.limited,
                        UserAt(port) \in commanded'.limited)
               /\ Turns(ms, UserZone(port), UserAt(port) \notin quarantined_hosts,
                        UserAt(port) \notin quarantined_hosts')
               /\ Turns(ms, QuarantineZone(port), UserAt(port) \in quarantined_hosts,
                        UserAt(port) \in quarantined_hosts')
    <3>1. Turns(ms, Drop(port), UserAt(port) \in commanded.isolated,
                UserAt(port) \in commanded'.isolated)
      <4>1. CASE port = 1
        <5>1. Decides(ms, Drop(port), FALSE)
          BY <2>3, <2>4, <4>1, UserRules
        <5>2. (UserAt(port) \in commanded'.isolated) <=> FALSE
          BY <1>2, <2>2, <4>1
        <5> QED
          BY <5>1, <5>2 DEF Turns, Decides
      <4>2. CASE port # 1
        BY <1>2, <2>2, <2>3, <2>4, <4>2, UserRules DEF Turns
      <4> QED
        BY <4>1, <4>2
    <3>2. Turns(ms, Limit(port), UserAt(port) \in commanded.limited,
                UserAt(port) \in commanded'.limited)
      BY <1>2, <2>2, <2>3, <2>4, UserRules DEF Turns
    <3>3. Turns(ms, UserZone(port), UserAt(port) \notin quarantined_hosts,
                UserAt(port) \notin quarantined_hosts')
      BY <1>2, <2>2, <2>3, <2>4, UserRules DEF Turns
    <3>4. Turns(ms, QuarantineZone(port), UserAt(port) \in quarantined_hosts,
                UserAt(port) \in quarantined_hosts')
      BY <1>2, <2>2, <2>3, <2>4, UserRules DEF Turns
    <3> QED
      BY <3>1, <3>2, <3>3, <3>4
  <2> QED
    BY <1>1, <2>1, <2>2, <2>4, AboutH1Settles
<1>6. CASE rate_limit_port("h1")
          /\ commanded' = [commanded EXCEPT !.limited = commanded.limited \union {"h1"},
                                         !.given = commanded.given + 1]
  <2> DEFINE ms == <<delete_meter(1), delete_flow("police", {In(1)}), add_flow(Limit(1))>>
  <2>1. /\ channel' = Sent(To(1, ms)) /\ ms \in AboutH1
    BY <1>2, <1>6 DEF rate_limit_port, AboutH1
  <2>2. /\ commanded'.rerouted = commanded.rerouted
        /\ commanded'.isolated = commanded.isolated
        /\ commanded'.limited = commanded.limited \union {"h1"}
        /\ quarantined_hosts' = quarantined_hosts
    BY <1>1, <1>6 DEF Orders, rate_limit_port
  <2>3. ASSUME NEW r \in Tracked
        PROVE  IF r = Limit(1) THEN Decides(ms, r, TRUE) ELSE Quiet(ms, r)
    BY AboutH1Decides
  <2> HIDE DEF ms
  <2>4. ASSUME NEW port \in UserPorts
        PROVE  /\ Turns(ms, Drop(port), UserAt(port) \in commanded.isolated,
                        UserAt(port) \in commanded'.isolated)
               /\ Turns(ms, Limit(port), UserAt(port) \in commanded.limited,
                        UserAt(port) \in commanded'.limited)
               /\ Turns(ms, UserZone(port), UserAt(port) \notin quarantined_hosts,
                        UserAt(port) \notin quarantined_hosts')
               /\ Turns(ms, QuarantineZone(port), UserAt(port) \in quarantined_hosts,
                        UserAt(port) \in quarantined_hosts')
    <3>1. Turns(ms, Drop(port), UserAt(port) \in commanded.isolated,
                UserAt(port) \in commanded'.isolated)
      BY <1>2, <2>2, <2>3, <2>4, UserRules DEF Turns
    <3>2. Turns(ms, Limit(port), UserAt(port) \in commanded.limited,
                UserAt(port) \in commanded'.limited)
      BY <1>2, <2>2, <2>3, <2>4, UserRules DEF Turns
    <3>3. Turns(ms, UserZone(port), UserAt(port) \notin quarantined_hosts,
                UserAt(port) \notin quarantined_hosts')
      BY <1>2, <2>2, <2>3, <2>4, UserRules DEF Turns
    <3>4. Turns(ms, QuarantineZone(port), UserAt(port) \in quarantined_hosts,
                UserAt(port) \in quarantined_hosts')
      BY <1>2, <2>2, <2>3, <2>4, UserRules DEF Turns
    <3> QED
      BY <3>1, <3>2, <3>3, <3>4
  <2> QED
    BY <1>1, <2>1, <2>2, <2>4, AboutH1Settles
<1>7. CASE unrate_limit_port("h1")
          /\ commanded' = [commanded EXCEPT !.limited = commanded.limited \ {"h1"},
                                         !.given = commanded.given + 1]
  <2> DEFINE ms == <<delete_flow("police", {In(1)}), delete_meter(1)>>
  <2>1. /\ channel' = Sent(To(1, ms)) /\ ms \in AboutH1
    BY <1>2, <1>7 DEF unrate_limit_port, AboutH1
  <2>2. /\ commanded'.rerouted = commanded.rerouted
        /\ commanded'.isolated = commanded.isolated
        /\ commanded'.limited = commanded.limited \ {"h1"}
        /\ quarantined_hosts' = quarantined_hosts
    BY <1>1, <1>7 DEF Orders, unrate_limit_port
  <2>3. ASSUME NEW r \in Tracked
        PROVE  IF r = Limit(1) THEN Decides(ms, r, FALSE) ELSE Quiet(ms, r)
    BY AboutH1Decides
  <2> HIDE DEF ms
  <2>4. ASSUME NEW port \in UserPorts
        PROVE  /\ Turns(ms, Drop(port), UserAt(port) \in commanded.isolated,
                        UserAt(port) \in commanded'.isolated)
               /\ Turns(ms, Limit(port), UserAt(port) \in commanded.limited,
                        UserAt(port) \in commanded'.limited)
               /\ Turns(ms, UserZone(port), UserAt(port) \notin quarantined_hosts,
                        UserAt(port) \notin quarantined_hosts')
               /\ Turns(ms, QuarantineZone(port), UserAt(port) \in quarantined_hosts,
                        UserAt(port) \in quarantined_hosts')
    <3>1. Turns(ms, Drop(port), UserAt(port) \in commanded.isolated,
                UserAt(port) \in commanded'.isolated)
      BY <1>2, <2>2, <2>3, <2>4, UserRules DEF Turns
    <3>2. Turns(ms, Limit(port), UserAt(port) \in commanded.limited,
                UserAt(port) \in commanded'.limited)
      <4>1. CASE port = 1
        <5>1. Decides(ms, Limit(port), FALSE)
          BY <2>3, <2>4, <4>1, UserRules
        <5>2. (UserAt(port) \in commanded'.limited) <=> FALSE
          BY <1>2, <2>2, <4>1
        <5> QED
          BY <5>1, <5>2 DEF Turns, Decides
      <4>2. CASE port # 1
        BY <1>2, <2>2, <2>3, <2>4, <4>2, UserRules DEF Turns
      <4> QED
        BY <4>1, <4>2
    <3>3. Turns(ms, UserZone(port), UserAt(port) \notin quarantined_hosts,
                UserAt(port) \notin quarantined_hosts')
      BY <1>2, <2>2, <2>3, <2>4, UserRules DEF Turns
    <3>4. Turns(ms, QuarantineZone(port), UserAt(port) \in quarantined_hosts,
                UserAt(port) \in quarantined_hosts')
      BY <1>2, <2>2, <2>3, <2>4, UserRules DEF Turns
    <3> QED
      BY <3>1, <3>2, <3>3, <3>4
  <2> QED
    BY <1>1, <2>1, <2>2, <2>4, AboutH1Settles
<1>8. CASE quarantine_host("h1")
          /\ commanded' = [commanded EXCEPT !.given = commanded.given + 1]
  <2> DEFINE ms == <<delete_flow("policy", UserZone(1).match), add_flow(QuarantineZone(1))>>
  <2>1. /\ channel' = Sent(To(1, ms)) /\ ms \in AboutH1
    BY <1>2, <1>8 DEF quarantine_host, AboutH1
  <2>2. /\ commanded'.rerouted = commanded.rerouted
        /\ commanded'.isolated = commanded.isolated
        /\ commanded'.limited = commanded.limited
        /\ quarantined_hosts' = quarantined_hosts \union {"h1"}
    BY <1>1, <1>8 DEF Orders, quarantine_host
  <2>3. ASSUME NEW r \in Tracked
        PROVE  IF r = QuarantineZone(1) THEN Decides(ms, r, TRUE)
               ELSE IF r = UserZone(1) THEN Decides(ms, r, FALSE) ELSE Quiet(ms, r)
    BY AboutH1Decides
  <2> HIDE DEF ms
  <2>4. ASSUME NEW port \in UserPorts
        PROVE  /\ Turns(ms, Drop(port), UserAt(port) \in commanded.isolated,
                        UserAt(port) \in commanded'.isolated)
               /\ Turns(ms, Limit(port), UserAt(port) \in commanded.limited,
                        UserAt(port) \in commanded'.limited)
               /\ Turns(ms, UserZone(port), UserAt(port) \notin quarantined_hosts,
                        UserAt(port) \notin quarantined_hosts')
               /\ Turns(ms, QuarantineZone(port), UserAt(port) \in quarantined_hosts,
                        UserAt(port) \in quarantined_hosts')
    <3>1. Turns(ms, Drop(port), UserAt(port) \in commanded.isolated,
                UserAt(port) \in commanded'.isolated)
      BY <1>2, <2>2, <2>3, <2>4, UserRules DEF Turns
    <3>2. Turns(ms, Limit(port), UserAt(port) \in commanded.limited,
                UserAt(port) \in commanded'.limited)
      BY <1>2, <2>2, <2>3, <2>4, UserRules DEF Turns
    <3>3. Turns(ms, UserZone(port), UserAt(port) \notin quarantined_hosts,
                UserAt(port) \notin quarantined_hosts')
      BY <1>2, <2>2, <2>3, <2>4, UserRules DEF Turns
    <3>4. Turns(ms, QuarantineZone(port), UserAt(port) \in quarantined_hosts,
                UserAt(port) \in quarantined_hosts')
      BY <1>2, <2>2, <2>3, <2>4, UserRules DEF Turns
    <3> QED
      BY <3>1, <3>2, <3>3, <3>4
  <2> QED
    BY <1>1, <2>1, <2>2, <2>4, AboutH1Settles
<1>9. CASE release_host("h1")
          /\ commanded' = [commanded EXCEPT !.given = commanded.given + 1]
  <2> DEFINE ms == <<delete_flow("policy", QuarantineZone(1).match), add_flow(UserZone(1))>>
  <2>1. /\ channel' = Sent(To(1, ms)) /\ ms \in AboutH1
    BY <1>2, <1>9 DEF release_host, AboutH1
  <2>2. /\ commanded'.rerouted = commanded.rerouted
        /\ commanded'.isolated = commanded.isolated
        /\ commanded'.limited = commanded.limited
        /\ quarantined_hosts' = quarantined_hosts \ {"h1"}
    BY <1>1, <1>9 DEF Orders, release_host
  <2>3. ASSUME NEW r \in Tracked
        PROVE  IF r = UserZone(1) THEN Decides(ms, r, TRUE)
               ELSE IF r = QuarantineZone(1) THEN Decides(ms, r, FALSE) ELSE Quiet(ms, r)
    BY AboutH1Decides
  <2> HIDE DEF ms
  <2>4. ASSUME NEW port \in UserPorts
        PROVE  /\ Turns(ms, Drop(port), UserAt(port) \in commanded.isolated,
                        UserAt(port) \in commanded'.isolated)
               /\ Turns(ms, Limit(port), UserAt(port) \in commanded.limited,
                        UserAt(port) \in commanded'.limited)
               /\ Turns(ms, UserZone(port), UserAt(port) \notin quarantined_hosts,
                        UserAt(port) \notin quarantined_hosts')
               /\ Turns(ms, QuarantineZone(port), UserAt(port) \in quarantined_hosts,
                        UserAt(port) \in quarantined_hosts')
    <3>1. Turns(ms, Drop(port), UserAt(port) \in commanded.isolated,
                UserAt(port) \in commanded'.isolated)
      BY <1>2, <2>2, <2>3, <2>4, UserRules DEF Turns
    <3>2. Turns(ms, Limit(port), UserAt(port) \in commanded.limited,
                UserAt(port) \in commanded'.limited)
      BY <1>2, <2>2, <2>3, <2>4, UserRules DEF Turns
    <3>3. Turns(ms, UserZone(port), UserAt(port) \notin quarantined_hosts,
                UserAt(port) \notin quarantined_hosts')
      BY <1>2, <2>2, <2>3, <2>4, UserRules DEF Turns
    <3>4. Turns(ms, QuarantineZone(port), UserAt(port) \in quarantined_hosts,
                UserAt(port) \in quarantined_hosts')
      <4>1. CASE port = 1
        <5>1. Decides(ms, QuarantineZone(port), FALSE)
          BY <2>3, <2>4, <4>1, UserRules
        <5>2. (UserAt(port) \in quarantined_hosts') <=> FALSE
          BY <1>2, <2>2, <4>1
        <5> QED
          BY <5>1, <5>2 DEF Turns, Decides
      <4>2. CASE port # 1
        BY <1>2, <2>2, <2>3, <2>4, <4>2, UserRules DEF Turns
      <4> QED
        BY <4>1, <4>2
    <3> QED
      BY <3>1, <3>2, <3>3, <3>4
  <2> QED
    BY <1>1, <2>1, <2>2, <2>4, AboutH1Settles
<1>10. CASE reroute_traffic /\ commanded' = [commanded EXCEPT !.rerouted = TRUE,
                                                              !.given = commanded.given + 1]
  <2>1. channel' = Sent(AddBypass) /\ quarantined_hosts' = quarantined_hosts
    BY <1>10 DEF reroute_traffic, AddBypass
  <2>2. /\ commanded'.isolated = commanded.isolated /\ commanded'.limited = commanded.limited
        /\ commanded'.rerouted = TRUE
    BY <1>1, <1>10 DEF Orders
  <2> QED
    BY <1>3, <2>1, <2>2
<1>11. CASE restore_reroute_traffic /\ commanded' = [commanded EXCEPT !.rerouted = FALSE,
                                                              !.given = commanded.given + 1]
  <2>1. channel' = Sent(DeleteBypass) /\ quarantined_hosts' = quarantined_hosts
    BY <1>11 DEF restore_reroute_traffic, DeleteBypass
  <2>2. /\ commanded'.isolated = commanded.isolated /\ commanded'.limited = commanded.limited
        /\ commanded'.rerouted = FALSE
    BY <1>1, <1>11 DEF Orders
  <2> QED
    BY <1>3, <2>1, <2>2
<1> QED
  BY <1>4, <1>5, <1>6, <1>7, <1>8, <1>9, <1>10, <1>11 DEF Command

\* At first the channels are empty and nothing is asked for.
LEMMA TablesSettleInit ==
  ASSUME Init
  PROVE  TablesSettle
<1>1. /\ \A s \in Switches : table[s] = Installed(s) /\ channel[s] = <<>>
      /\ commanded.isolated = {} /\ commanded.limited = {} /\ commanded.rerouted = FALSE
      /\ quarantined_hosts = {} /\ 1 \in Switches
  BY SwitchesAssumption DEF Init, ForwardingInit
<1>2. \A s \in Switches : \A r \in Installed(s) : r.table = "forward" => r.priority = 0
  BY DEF Installed, PolicyTable, Pass, Deny, UserZone, Rule
<1>3. \A r \in Installed(1) : r.table = "police" => r.priority = 0
  BY DEF Installed, PolicyTable, Pass, Deny, UserZone, Rule
<1>4. \A r \in Installed(1) : r.priority # 300
  BY DEF Installed, PolicyTable, Pass, Deny, UserZone, Rule, trunk_ports
<1>5. ASSUME NEW port \in UserPorts PROVE UserZone(port) \in Installed(1)
  <2>1. /\ {"h1", "h2"} \subseteq {h \in Hosts : arp_table[h][1] = 1}
        /\ arp_table["h1"][2] = 1 /\ arp_table["h2"][2] = 2
    BY DEF Hosts, Users, arp_table
  <2>2. UserZone(1) \in PolicyTable(1) /\ UserZone(2) \in PolicyTable(1)
    BY <2>1 DEF PolicyTable
  <2> QED
    BY <2>2 DEF Installed, UserPorts
<1>6. ASSUME NEW port \in UserPorts
      PROVE  /\ Settles(table[1], channel[1], Drop(port), UserAt(port) \in commanded.isolated)
             /\ Settles(table[1], channel[1], Limit(port), UserAt(port) \in commanded.limited)
             /\ Settles(table[1], channel[1], UserZone(port),
                        UserAt(port) \notin quarantined_hosts)
             /\ Settles(table[1], channel[1], QuarantineZone(port),
                        UserAt(port) \in quarantined_hosts)
  <2>1. /\ Drop(port) \notin table[1] /\ Limit(port) \notin table[1]
        /\ QuarantineZone(port) \notin table[1]
    BY <1>1, <1>2, <1>3, <1>4, RulesApart
  <2>2. UserZone(port) \in table[1] /\ channel[1] = <<>>
    BY <1>1, <1>5
  <2> QED
    BY <1>1, <2>1, <2>2 DEF Settles
<1>7. ASSUME NEW s \in Switches
      PROVE  Settles(table[s], channel[s], Bypass(s), commanded.rerouted)
  <2>1. Bypass(s) \notin table[s] /\ channel[s] = <<>>
    BY <1>1, <1>2, RulesApart
  <2> QED
    BY <1>1, <2>1 DEF Settles
<1> QED
  BY <1>6, <1>7 DEF TablesSettle

\* No other step changes what is asked for.
LEMMA TablesSettleStep ==
  ASSUME Typed, TablesSettle, [Next]_vars
  PROVE  TablesSettle'
<1>1. CASE Command
  BY <1>1, CommandSettles
<1>2. CASE UNCHANGED vars
  BY <1>2 DEF vars, forwarding_vars, switch_vars, TablesSettle
<1>3. CASE Next /\ ~Command
  <2>1. UNCHANGED <<commanded, quarantined_hosts>> /\ left \subseteq left'
    BY <1>3
       DEF Next, Enter, Cross, PacketIn, Process, Idle, Leave, Return, forwarding_vars
  <2>2. 1 \in Switches /\ commanded.rerouted \in BOOLEAN
    BY SwitchesAssumption DEF Typed, Orders
  <2>3. ASSUME 1 \notin left', NEW r \in Tracked, NEW wanted \in BOOLEAN,
               Settles(table[1], channel[1], r, wanted)
        PROVE  Settles(table'[1], channel'[1], r, wanted)
    BY <1>3, <2>2, <2>3, SettlesStep
  <2>4. ASSUME 1 \notin left', NEW port \in UserPorts
        PROVE  /\ Settles(table'[1], channel'[1], Drop(port),
                          UserAt(port) \in commanded.isolated)
               /\ Settles(table'[1], channel'[1], Limit(port),
                          UserAt(port) \in commanded.limited)
               /\ Settles(table'[1], channel'[1], UserZone(port),
                          UserAt(port) \notin quarantined_hosts)
               /\ Settles(table'[1], channel'[1], QuarantineZone(port),
                          UserAt(port) \in quarantined_hosts)
    <3>1. {Drop(port), Limit(port), UserZone(port), QuarantineZone(port)} \subseteq Tracked
      BY UserRules
    <3>2. /\ (UserAt(port) \in commanded.isolated) \in BOOLEAN
          /\ (UserAt(port) \in commanded.limited) \in BOOLEAN
          /\ (UserAt(port) \notin quarantined_hosts) \in BOOLEAN
          /\ (UserAt(port) \in quarantined_hosts) \in BOOLEAN
      OBVIOUS
    <3>3. /\ Settles(table[1], channel[1], Drop(port), UserAt(port) \in commanded.isolated)
          /\ Settles(table[1], channel[1], Limit(port), UserAt(port) \in commanded.limited)
          /\ Settles(table[1], channel[1], UserZone(port),
                     UserAt(port) \notin quarantined_hosts)
          /\ Settles(table[1], channel[1], QuarantineZone(port),
                     UserAt(port) \in quarantined_hosts)
      BY <2>1, <2>4 DEF TablesSettle
    <3>4. Settles(table'[1], channel'[1], Drop(port), UserAt(port) \in commanded.isolated)
      BY <2>3, <2>4, <3>1, <3>2, <3>3
    <3>5. Settles(table'[1], channel'[1], Limit(port), UserAt(port) \in commanded.limited)
      BY <2>3, <2>4, <3>1, <3>2, <3>3
    <3>6. Settles(table'[1], channel'[1], UserZone(port),
                  UserAt(port) \notin quarantined_hosts)
      BY <2>3, <2>4, <3>1, <3>2, <3>3
    <3>7. Settles(table'[1], channel'[1], QuarantineZone(port),
                  UserAt(port) \in quarantined_hosts)
      BY <2>3, <2>4, <3>1, <3>2, <3>3
    <3> QED
      BY <3>4, <3>5, <3>6, <3>7
  <2>5. ASSUME NEW s \in Switches, s \notin left', s \in R!SpecDpids[1]
        PROVE  Settles(table'[s], channel'[s], Bypass(s), commanded.rerouted)
    <3>1. Bypass(s) \in Tracked
      BY DEF Tracked
    <3>2. Settles(table[s], channel[s], Bypass(s), commanded.rerouted)
      BY <2>1, <2>5 DEF TablesSettle
    <3> QED
      BY <1>3, <2>2, <2>5, <3>1, <3>2, SettlesStep
  <2> QED
    BY <2>1, <2>4, <2>5 DEF TablesSettle
<1> QED
  BY <1>1, <1>2, <1>3

\* A switch that has processed everything and never left has the rules that the
\* commands ask for and no others, for any number of commands in any order:
\* no deletion takes a rule that another command owns.
THEOREM TablesFollow == Spec => []TablesFollowCommands
<1>1. Init => TablesSettle
  BY TablesSettleInit
<1>2. Typed /\ TablesSettle /\ [Next]_vars => TablesSettle'
  BY TablesSettleStep
<1>3. Typed /\ TablesSettle => TablesFollowCommands
  <2> SUFFICES ASSUME Typed, TablesSettle, NEW s \in Switches \ left, channel[s] = <<>>
               PROVE  /\ \A h \in {h \in Users : arp_table[h][1] = s} :
                           LET port == arp_table[h][2]
                           IN /\ (Drop(port) \in table[s]) = (h \in commanded.isolated)
                              /\ (Limit(port) \in table[s]) = (h \in commanded.limited)
                              /\ (UserZone(port) \in table[s]) = (h \notin quarantined_hosts)
                              /\ (QuarantineZone(port) \in table[s]) = (h \in quarantined_hosts)
                      /\ s \in R!SpecDpids[1] => (Bypass(s) \in table[s]) = commanded.rerouted
    BY DEF TablesFollowCommands
  <2>1. \A r, wanted : Settles(table[s], channel[s], r, wanted) => (r \in table[s] <=> wanted)
    BY DEF Settles
  <2>2. ASSUME NEW h \in Users
        PROVE  arp_table[h][1] = 1 /\ arp_table[h][2] \in UserPorts /\ UserAt(arp_table[h][2]) = h
    BY DEF Users, arp_table, UserPorts, UserAt
  <2>3. commanded.rerouted \in BOOLEAN
    BY DEF Typed, Orders
  <2>4. s \in R!SpecDpids[1] => (Bypass(s) \in table[s]) = commanded.rerouted
    BY <2>1, <2>3 DEF TablesSettle
  <2>5. ASSUME s = 1, NEW port \in UserPorts
        PROVE  /\ Drop(port) \in table[s] <=> UserAt(port) \in commanded.isolated
               /\ Limit(port) \in table[s] <=> UserAt(port) \in commanded.limited
               /\ UserZone(port) \in table[s] <=> UserAt(port) \notin quarantined_hosts
               /\ QuarantineZone(port) \in table[s] <=> UserAt(port) \in quarantined_hosts
    BY <2>5 DEF TablesSettle, Settles
  <2> QED
    BY <2>2, <2>4, <2>5
<1> QED
  BY <1>1, <1>2, <1>3, DataPlaneTyped, PTL DEF Spec

-----------------------------------------------------------------------------
(***************************************************************************)
(* One zone at a time.                                                     *)
(***************************************************************************)
\* Messages that open neither zone leave the order of those that do.
LEMMA OpensQuiet ==
  ASSUME NEW M, NEW c \in Seq(M), NEW ms \in Seq(M), NEW T, NEW opened, NEW closed,
         Opens(c, T, opened, closed),
         \A i \in DOMAIN ms : ms[i] = add_flow(opened) =>
           i # 1 /\ ms[i - 1] = delete_flow("policy", closed.match)
  PROVE  Opens(c \o ms, T, opened, closed)
<1> DEFINE d == c \o ms
<1>1. /\ Len(c) \in Nat /\ Len(ms) \in Nat
      /\ DOMAIN c = 1..Len(c) /\ DOMAIN ms = 1..Len(ms)
      /\ DOMAIN d = 1..(Len(c) + Len(ms))
      /\ \A i \in DOMAIN c : d[i] = c[i]
      /\ \A i \in DOMAIN d : i > Len(c) => i - Len(c) \in DOMAIN ms /\ d[i] = ms[i - Len(c)]
  OBVIOUS
<1> HIDE DEF d
<1>2. ASSUME NEW i \in DOMAIN d, d[i] = add_flow(opened)
      PROVE  IF i = 1 THEN closed \notin T ELSE d[i - 1] = delete_flow("policy", closed.match)
  <2>1. CASE i \in DOMAIN c
    <3>1. c[i] = add_flow(opened) /\ (i # 1 => i - 1 \in DOMAIN c)
      BY <1>1, <1>2, <2>1
    <3> QED
      BY <1>1, <2>1, <3>1 DEF Opens
  <2>2. CASE i \notin DOMAIN c
    <3>1. /\ i - Len(c) \in DOMAIN ms /\ ms[i - Len(c)] = add_flow(opened) /\ i > Len(c)
      BY <1>1, <1>2, <2>2
    <3>2. i - Len(c) # 1 /\ ms[(i - Len(c)) - 1] = delete_flow("policy", closed.match)
      BY <3>1
    <3>3. i # 1 /\ i - 1 \in DOMAIN d /\ i - 1 > Len(c) /\ (i - 1) - Len(c) = (i - Len(c)) - 1
      BY <1>1, <3>1, <3>2
    <3> QED
      BY <1>1, <3>2, <3>3
  <2> QED
    BY <2>1, <2>2
<1> QED
  BY <1>2 DEF Opens, d

\* Processing a message in order opens one zone only after the other is closed.
LEMMA OpensProcessed ==
  ASSUME NEW s \in Switches, NEW c \in Seq(MessagesFor(s)), c # <<>>, NEW T,
         NEW a, NEW b, a # b, b.table = "policy",
         ~({a, b} \subseteq T), Opens(c, T, a, b), Opens(c, T, b, a)
  PROVE  /\ ~({a, b} \subseteq Processed(T, Head(c)))
         /\ Opens(Tail(c), Processed(T, Head(c)), a, b)
<1> DEFINE m == Head(c)
           d == Tail(c)
<1>1. /\ Len(c) \in Nat \ {0} /\ Len(d) = Len(c) - 1
      /\ DOMAIN c = 1..Len(c) /\ DOMAIN d = 1..Len(d)
      /\ 1 \in DOMAIN c /\ c[1] = m /\ m \in MessagesFor(s)
      /\ \A i \in DOMAIN d : i + 1 \in DOMAIN c /\ d[i] = c[i + 1] /\ i + 1 # 1 /\ (i + 1) - 1 = i
      /\ \A i \in DOMAIN d : i # 1 => i - 1 \in DOMAIN d /\ d[i - 1] = c[i]
  OBVIOUS
<1> HIDE DEF m, d
<1>2. m.op \in Operations
  BY <1>1, MessageParts
<1>3. \A r : r \in Processed(T, m) <=> Adds(m, r) \/ (r \in T /\ ~Removes(m, r))
  BY <1>2, ProcessedRule
<1>4. \A r : Adds(m, r) => m = add_flow(r)
  BY <1>1 DEF Adds, Processed, MessagesFor, add_flow, delete_flow, delete_meter, packet_out,
              Deleted
<1>5. Adds(m, a) => b \notin T
  BY <1>1, <1>4 DEF Opens
<1>6. Adds(m, b) => a \notin T
  BY <1>1, <1>4 DEF Opens
<1>7. ~(Adds(m, a) /\ Adds(m, b))
  BY <1>4 DEF add_flow
<1>8. ~({a, b} \subseteq Processed(T, m))
  BY <1>3, <1>5, <1>6, <1>7
<1>9. ASSUME NEW i \in DOMAIN d, d[i] = add_flow(a)
      PROVE  IF i = 1 THEN b \notin Processed(T, m) ELSE d[i - 1] = delete_flow("policy", b.match)
  <2>1. c[i] = delete_flow("policy", b.match)
    BY <1>1, <1>9 DEF Opens
  <2>2. CASE i = 1
    <3>1. m = delete_flow("policy", b.match)
      BY <1>1, <2>1, <2>2
    <3> QED
      BY <2>2, <3>1 DEF Processed, Deleted, delete_flow
  <2>3. CASE i # 1
    BY <1>1, <2>1, <2>3
  <2> QED
    BY <2>2, <2>3
<1> QED
  BY <1>8, <1>9 DEF Opens, m, d
\* The commands open one zone of a port right behind closing the other.
LEMMA AboutH1Opens ==
  ASSUME NEW ms \in AboutH1, NEW port \in UserPorts, NEW i \in DOMAIN ms
  PROVE  /\ ms[i] = add_flow(QuarantineZone(port)) =>
              i # 1 /\ ms[i - 1] = delete_flow("policy", UserZone(port).match)
         /\ ms[i] = add_flow(UserZone(port)) =>
              i # 1 /\ ms[i - 1] = delete_flow("policy", QuarantineZone(port).match)
<1>1. \A p, q : add_flow(p) = add_flow(q) => p = q
  BY DEF add_flow
<1>2. \A q : /\ \A t, match : delete_flow(t, match) # add_flow(q)
             /\ \A x : delete_meter(x) # add_flow(q)
  <2>1. /\ \A q : add_flow(q).op = "add"
        /\ \A t, match : delete_flow(t, match).op = "delete"
        /\ \A x : delete_meter(x).op = "delete_meter"
    BY DEF add_flow, delete_flow, delete_meter
  <2> QED
    BY <2>1
<1>3. /\ \A q : Drop(q) \notin {UserZone(port), QuarantineZone(port)}
      /\ \A q : Limit(q) \notin {UserZone(port), QuarantineZone(port)}
      /\ QuarantineZone(1) # UserZone(port) /\ UserZone(1) # QuarantineZone(port)
      /\ UserZone(1) = UserZone(port) => port = 1
      /\ QuarantineZone(1) = QuarantineZone(port) => port = 1
  BY UserRules
<1>4. CASE ms \in {<<add_flow(Drop(1))>>, <<delete_flow("forward", {In(1)})>>}
  BY <1>1, <1>2, <1>3, <1>4
<1>5. CASE ms = <<delete_meter(1), delete_flow("police", {In(1)}), add_flow(Limit(1))>>
  BY <1>1, <1>2, <1>3, <1>5
<1>6. CASE ms = <<delete_flow("police", {In(1)}), delete_meter(1)>>
  BY <1>1, <1>2, <1>3, <1>6
<1>7. CASE ms = <<delete_flow("policy", UserZone(1).match), add_flow(QuarantineZone(1))>>
  BY <1>1, <1>2, <1>3, <1>7
<1>8. CASE ms = <<delete_flow("policy", QuarantineZone(1).match), add_flow(UserZone(1))>>
  BY <1>1, <1>2, <1>3, <1>8
<1> QED
  BY <1>4, <1>5, <1>6, <1>7, <1>8 DEF AboutH1

\* A shorter table keeps the zones apart.
LEMMA ZonesOfFewer ==
  ASSUME ZonesInTurn, channel'[1] = channel[1], table'[1] \subseteq table[1]
  PROVE  ZonesInTurn'
  BY DEF ZonesInTurn, Opens

\* So do messages that open a zone only behind the closing of the other.
LEMMA ZonesOfMore ==
  ASSUME ZonesInTurn, Typed, NEW ms \in Seq(MessagesFor(1)),
         table'[1] = table[1], channel'[1] = channel[1] \o ms,
         \A port \in UserPorts, i \in DOMAIN ms :
           /\ ms[i] = add_flow(QuarantineZone(port)) =>
                i # 1 /\ ms[i - 1] = delete_flow("policy", UserZone(port).match)
           /\ ms[i] = add_flow(UserZone(port)) =>
                i # 1 /\ ms[i - 1] = delete_flow("policy", QuarantineZone(port).match)
  PROVE  ZonesInTurn'
<1>1. channel[1] \in Seq(MessagesFor(1))
  BY SwitchesAssumption DEF Typed
<1>2. ASSUME NEW port \in UserPorts
      PROVE  /\ Opens(channel[1] \o ms, table[1], QuarantineZone(port), UserZone(port))
             /\ Opens(channel[1] \o ms, table[1], UserZone(port), QuarantineZone(port))
  BY <1>1, OpensQuiet DEF ZonesInTurn
<1> QED
  BY <1>2 DEF ZonesInTurn

\* And messages that have nothing to do with zones.
LEMMA ZonesOfOthers ==
  ASSUME ZonesInTurn, Typed, NEW ms \in Seq(MessagesFor(1)),
         table'[1] = table[1], channel'[1] = channel[1] \o ms,
         \A i \in DOMAIN ms : \A q : ms[i] = add_flow(q) => q.table = "forward"
  PROVE  ZonesInTurn'
<1>1. \A port : UserZone(port).table # "forward" /\ QuarantineZone(port).table # "forward"
  BY RulesApart
<1> QED
  BY <1>1, ZonesOfMore

\* The zones start apart and stay so while S1 stays connected.
LEMMA ZonesInit == Init => ZonesInTurn
<1> SUFFICES ASSUME Init, NEW port \in UserPorts
             PROVE  /\ channel[1] = <<>>
                    /\ QuarantineZone(port) \notin table[1]
  BY DEF ZonesInTurn, Opens
<1>1. channel[1] = <<>> /\ table[1] = Installed(1)
  BY SwitchesAssumption DEF Init, ForwardingInit
<1>2. \A r \in Installed(1) : r.priority # 300
  BY DEF Installed, PolicyTable, Pass, Deny, UserZone, Rule
<1> QED
  BY <1>1, <1>2, RulesApart

\* The zones of S1's users stay apart in every step, while S1 does not leave:
\* its return would install the user zone whatever zone is open.
LEMMA ZonesStep ==
  ASSUME Typed, ZonesInTurn, [Next]_vars, 1 \notin MayLeave
  PROVE  ZonesInTurn'
<1>1. /\ 1 \in Switches /\ 1 \in up
      /\ DOMAIN table = Switches /\ DOMAIN channel = Switches
      /\ channel[1] \in Seq(MessagesFor(1))
      /\ packet.at \in Switches /\ packet.port \in 0..4
  BY SwitchesAssumption DEF Typed, Packets
<1>2. CASE Command
  <2>1. table' = table
    BY <1>2, CommandSends
  <2>2. ASSUME NEW ms \in AboutH1, channel' = Sent(To(1, ms))
        PROVE  ZonesInTurn'
    <3>1. channel'[1] = channel[1] \o ms
      BY <1>1, <2>2, SentTo
    <3>2. ms \in Seq(MessagesFor(1))
      BY AboutH1Typed
    <3> QED
      BY <2>1, <3>1, <3>2, AboutH1Opens, ZonesOfMore
  <2>3. ASSUME NEW ms \in {AddBypass, DeleteBypass}, channel' = Sent(ms)
        PROVE  ZonesInTurn'
    <3>1. channel'[1] = channel[1] \o ms[1]
      BY <1>1, <2>3 DEF Sent
    <3>2. ms[1] \in Seq(MessagesFor(1))
      BY <1>1, BypassTyped
    <3>3. ms[1] \in {<<>>, <<add_flow(Bypass(1))>>, <<delete_flow("forward", Bypass(1).match)>>}
      BY <1>1 DEF AddBypass, DeleteBypass
    <3>4. /\ \A p, q : add_flow(p) = add_flow(q) => p = q
          /\ \A q : add_flow(q) # delete_flow("forward", Bypass(1).match)
      BY DEF add_flow, delete_flow
    <3>5. \A i \in DOMAIN ms[1] : \A q : ms[1][i] = add_flow(q) => q.table = "forward"
      BY <3>3, <3>4, RulesApart
    <3> QED
      BY <2>1, <3>1, <3>2, <3>5, ZonesOfOthers
  <2> QED
    BY <1>2, <2>2, <2>3, CommandSends
<1>3. CASE PacketIn
  <2>1. table' = table
    BY <1>3 DEF PacketIn
  <2> DEFINE answer == packet_in_handler(packet.at, packet.port, fields)
  <2>2. CASE answer # Nothing /\ channel' = Sent(To(packet.at, answer))
    <3>1. PICK x \in 0..4, q \in LearnedRules(packet.at) :
            answer \in {<<packet_out(x)>>, <<add_flow(q), packet_out(x)>>}
      BY <1>1, <2>2, AnswerFacts
    <3>2. q.table = "forward" /\ q \in RulesFor(packet.at)
      BY <3>1 DEF LearnedRules, Learned, Rule, RulesFor
    <3>3. add_flow(q) \in MessagesFor(packet.at) /\ packet_out(x) \in MessagesFor(packet.at)
      BY <3>1, <3>2 DEF MessagesFor
    <3>4. channel'[1] = IF 1 = packet.at THEN channel[1] \o answer ELSE channel[1]
      BY <1>1, <2>2, SentTo
    <3> HIDE DEF answer
    <3>5. answer \in Seq(MessagesFor(packet.at))
      BY <3>1, <3>3, ShortSequences
    <3>6. /\ \A p, r : add_flow(p) = add_flow(r) => p = r
          /\ \A r : add_flow(r) # packet_out(x)
      BY DEF add_flow, packet_out
    <3>7. \A i \in DOMAIN answer : \A r : answer[i] = add_flow(r) => r.table = "forward"
      BY <3>1, <3>2, <3>6
    <3>8. CASE packet.at = 1
      BY <2>1, <3>4, <3>5, <3>7, <3>8, ZonesOfOthers
    <3>9. CASE packet.at # 1
      BY <2>1, <3>4, <3>9, ZonesOfFewer
    <3> QED
      BY <3>8, <3>9
  <2>3. CASE UNCHANGED channel
    BY <2>1, <2>3, ZonesOfFewer
  <2> QED
    BY <1>3, <2>2, <2>3 DEF PacketIn
<1>4. ASSUME NEW s \in Switches, Process(s)
      PROVE  ZonesInTurn'
  <2>1. CASE s = 1
    <3>1. /\ channel[1] # <<>>
          /\ table'[1] = Processed(table[1], Head(channel[1]))
          /\ channel'[1] = Tail(channel[1])
      BY <1>1, <1>4, <2>1 DEF Process
    <3>2. ASSUME NEW port \in UserPorts
          PROVE  /\ ~({UserZone(port), QuarantineZone(port)} \subseteq table'[1])
                 /\ Opens(channel'[1], table'[1], QuarantineZone(port), UserZone(port))
                 /\ Opens(channel'[1], table'[1], UserZone(port), QuarantineZone(port))
      <4> DEFINE u == UserZone(port)
                 q == QuarantineZone(port)
      <4>1. u # q /\ u.table = "policy" /\ q.table = "policy"
        BY RulesApart
      <4>2. /\ ~({u, q} \subseteq table[1]) /\ ~({q, u} \subseteq table[1])
            /\ Opens(channel[1], table[1], u, q) /\ Opens(channel[1], table[1], q, u)
        BY DEF ZonesInTurn
      <4> HIDE DEF u, q
      <4>3. /\ ~({u, q} \subseteq table'[1])
            /\ Opens(channel'[1], table'[1], u, q)
        BY <1>1, <3>1, <4>1, <4>2, OpensProcessed
      <4>4. Opens(channel'[1], table'[1], q, u)
        BY <1>1, <3>1, <4>1, <4>2, OpensProcessed
      <4> QED
        BY <4>3, <4>4 DEF u, q
    <3> QED
      BY <3>2 DEF ZonesInTurn
  <2>2. CASE s # 1
    BY <1>1, <1>4, <2>2, ZonesOfFewer DEF Process
  <2> QED
    BY <2>1, <2>2
<1>5. ASSUME NEW ip, Idle(ip)
      PROVE  ZonesInTurn'
  <2>1. channel'[1] = channel[1] /\ table'[1] \subseteq table[1]
    BY <1>1, <1>5 DEF Idle
  <2> QED
    BY <2>1, ZonesOfFewer
<1>6. ASSUME NEW s \in MayLeave, Leave(s) \/ Return(s)
      PROVE  ZonesInTurn'
  <2>1. s # 1
    OBVIOUS
  <2>2. table'[1] = table[1] /\ channel'[1] = channel[1]
    BY <1>1, <1>6, <2>1 DEF Leave, Return
  <2> QED
    BY <2>2, ZonesOfFewer
<1>7. CASE Enter \/ Cross \/ UNCHANGED vars
  <2>1. table' = table /\ channel' = channel
    BY <1>7 DEF Enter, Cross, vars, forwarding_vars, switch_vars
  <2> QED
    BY <2>1, ZonesOfFewer
<1> QED
  BY <1>2, <1>3, <1>4, <1>5, <1>6, <1>7 DEF Next

\* Between any two messages, and whatever commands are under way, no user's
\* port has both the zone of the server and the quarantine zone, as long as
\* the users' switch stays connected.  (When it reconnects the controller
\* installs the user zone beside the quarantine: the run quarantine_lost.)
THEOREM ZonesAreExclusive ==
  ASSUME 1 \notin MayLeave
  PROVE  Spec => []ZonesExclusive
<1>1. Init => ZonesInTurn
  BY ZonesInit
<1>2. Typed /\ ZonesInTurn /\ [Next]_vars => ZonesInTurn'
  BY ZonesStep
<1>3. ZonesInTurn => ZonesExclusive
  <2>1. \A h \in Users : arp_table[h][1] = 1 /\ arp_table[h][2] \in UserPorts
    BY DEF Users, arp_table, UserPorts
  <2> QED
    BY <2>1 DEF ZonesInTurn, ZonesExclusive
<1> QED
  BY <1>1, <1>2, <1>3, DataPlaneTyped, PTL DEF Spec
-----------------------------------------------------------------------------
(***************************************************************************)
(* What gets in.                                                           *)
(***************************************************************************)
\* A packet that is not in yet is at the port that it entered by.
AtTheDoor ==
  ~packet.admitted =>
    /\ packet.where \in Over \union {"switch"}
    /\ packet.where = "switch" =>
         packet.at = 1 /\ packet.port = Sender(packet.class)[2] /\ ~packet.answer

\* Once out of the door, in: wherever S1 puts a packet out.
LEMMA PutOutAdmits ==
  ASSUME Typed, NEW s, NEW port, packet.admitted \/ s = 1
  PROVE  PutOut(s, port).admitted
<1>1. packet \in Packets
  BY DEF Typed
<1>2. CASE packet.admitted
  BY <1>1, <1>2 DEF PutOut, Packets
<1>3. CASE s = 1
  <2>1. <<s, port>> # arp_table["srv"]
    BY <1>3 DEF arp_table
  <2> QED
    BY <1>1, <2>1 DEF PutOut, Packets
<1> QED
  BY <1>2, <1>3

\* Packets come to the door only by entering.
LEMMA AtTheDoorStep ==
  ASSUME Typed, PacketInOnePlace, AtTheDoor, [Next]_vars
  PROVE  AtTheDoor'
<1>1. packet \in Packets /\ packet.where \in Places
  BY DEF Typed, Packets
<1>2. CASE Enter
  <2>1. packet' = Entered(packet.class)
    BY <1>2 DEF Enter
  <2> QED
    BY <2>1 DEF AtTheDoor, Entered, Sender, arp_table
<1>3. CASE Cross
  <2>1. PICK rule \in Verdicts(table[packet.at], fields \union {In(packet.port)}) :
          packet' = CASE rule.to = "output" -> PutOut(packet.at, rule.port)
                      [] rule.to = "controller" /\ packet.at \in up ->
                           [packet EXCEPT !.where = "controller", !.admitted = TRUE]
                      [] OTHER -> [packet EXCEPT !.where = "lost"]
    BY <1>3 DEF Cross
  <2>2. packet.admitted \/ packet.at = 1
    BY <1>3 DEF AtTheDoor, Cross
  <2>3. CASE rule.to = "output"
    <3>1. PutOut(packet.at, rule.port).admitted
      BY <2>2, PutOutAdmits
    <3> QED
      BY <2>1, <2>3, <3>1 DEF AtTheDoor
  <2>4. CASE rule.to = "controller" /\ packet.at \in up
    BY <1>1, <2>1, <2>4 DEF AtTheDoor, Packets
  <2>5. CASE rule.to # "output" /\ ~(rule.to = "controller" /\ packet.at \in up)
    BY <1>1, <2>1, <2>5 DEF AtTheDoor, Packets, Over
  <2> QED
    BY <2>3, <2>4, <2>5
<1>4. CASE PacketIn
  <2>1. packet.admitted
    BY <1>4 DEF PacketIn, AtTheDoor, Over
  <2>2. packet'.admitted
    BY <1>1, <1>4, <2>1 DEF PacketIn, Packets
  <2> QED
    BY <2>2 DEF AtTheDoor
<1>5. ASSUME NEW s \in Switches, Process(s)
      PROVE  AtTheDoor'
  <2>1. channel[s] # <<>> /\ channel[s] \in Seq(MessagesFor(s))
    BY <1>5 DEF Process, Typed
  <2>2. /\ Head(channel[s]) \in MessagesFor(s)
        /\ 1 \in DOMAIN channel[s] /\ channel[s][1] = Head(channel[s])
    BY <2>1
  <2>3. CASE Head(channel[s]).op = "packet"
    <3>1. packet.where = "channel"
      BY <2>2, <2>3 DEF PacketInOnePlace
    <3>2. packet.admitted
      BY <3>1 DEF AtTheDoor, Over
    <3>3. PutOut(s, Head(channel[s]).port).admitted
      BY <3>1, <3>2, PutOutAdmits
    <3>4. packet' = PutOut(s, Head(channel[s]).port)
      BY <1>5, <2>3 DEF Process
    <3> QED
      BY <3>3, <3>4 DEF AtTheDoor
  <2>4. CASE Head(channel[s]).op # "packet"
    BY <1>5, <2>4 DEF Process, AtTheDoor
  <2> QED
    BY <2>3, <2>4
<1>6. ASSUME NEW s \in MayLeave, Leave(s) \/ Return(s)
      PROVE  AtTheDoor'
  <2>1. CASE packet' = packet
    BY <2>1 DEF AtTheDoor
  <2>2. CASE packet' # packet
    <3>1. packet' = [packet EXCEPT !.where = CASE @ = "channel" -> "lost"
                                               [] @ = "controller" -> "orphaned"
                                               [] OTHER -> @]
      BY <1>6, <2>2 DEF Leave, Return
    <3>2. /\ packet'.at = packet.at /\ packet'.port = packet.port
          /\ packet'.class = packet.class /\ packet'.answer = packet.answer
          /\ packet'.admitted = packet.admitted
          /\ packet.where \notin {"channel", "controller"} => packet'.where = packet.where
      BY <1>1, <3>1 DEF Packets
    <3> QED
      BY <3>2 DEF AtTheDoor, Over
  <2> QED
    BY <2>1, <2>2
<1>7. CASE Command \/ (\E ip \in {"srv", "h1", "probe"} : Idle(ip)) \/ UNCHANGED vars
  <2>1. packet' = packet
    BY <1>7 DEF Command, Idle, vars
  <2> QED
    BY <2>1 DEF AtTheDoor
<1> QED
  BY <1>2, <1>3, <1>4, <1>5, <1>6, <1>7 DEF Next

\* The rules of S1 that let a user's packet on to the next table.
LEMMA PolicyOfS1 ==
  ASSUME NEW r \in Installed(1) \union RulesFor(1), r.table = "policy", r.to # "drop"
  PROVE  \/ \E port \in {3, 4} : r.match = {In(port)}
         \/ r.match = {ARP} \/ r.match = {IP, Src("probe")} \/ r.match = {IP, Dst("probe")}
         \/ \E port \in UserPorts : r \in {UserZone(port), QuarantineZone(port)}
<1>1. CASE r \in PolicyTable(1)
  <2>1. arp_table["srv"][1] # 1 /\ \A h \in Users : arp_table[h][2] \in UserPorts
    BY DEF arp_table, Users, UserPorts
  <2>2. trunk_ports[1] = {3, 4} /\ Hosts = Users \union {"srv"}
    BY DEF trunk_ports, Hosts
  <2>3. \A port : Deny(0, {In(port)}).to = "drop"
    BY DEF Deny, Rule
  <2> QED
    BY <1>1, <2>1, <2>2, <2>3 DEF PolicyTable, Pass, Deny, Rule
<1>2. CASE r \in LearnedRules(1) \/ r = Bypass(1)
  BY <1>2 DEF LearnedRules, Learned, Bypass, Rule
<1>3. CASE r \in AccessRules
  BY <1>3 DEF AccessRules, Drop, Limit, Rule
<1> QED
  BY <1>1, <1>2, <1>3 DEF Installed, RulesFor, Rule

\* Of those, the ones that apply to what h1 sends.
LEMMA PolicyForH1 ==
  ASSUME NEW r \in Installed(1) \union RulesFor(1), r.table = "policy", r.to # "drop",
         NEW class \in Classes, class # "probe",
         r.match \subseteq Question(class) \union {In(1)}
  PROVE  /\ class = "request" => r = UserZone(1)
         /\ class = "manage" => r = QuarantineZone(1)
         /\ class # "lateral"
<1>1. /\ class = "request" => Question(class) = {IP, Src("h1"), Dst("srv"), L4("service")}
      /\ class = "lateral" => Question(class) = {IP, Src("h1"), Dst("h2"), L4("other")}
      /\ class = "manage" => Question(class) = {IP, Src("h1"), Dst("mgmt"), L4("manage")}
  BY DEF Question
<1>2. \A port : \A f \in {IP, Src("h1"), Dst("srv"), Dst("h2"), Dst("mgmt"), L4("service"),
                          L4("other"), L4("manage")} :
        In(port) # f /\ ARP # f /\ Src("probe") # f /\ Dst("probe") # f
  BY DEF IP, ARP, Src, Dst, L4, In
<1>3. /\ \A port : In(port) = In(1) => port = 1
      /\ ARP # In(1) /\ Src("probe") # In(1) /\ Dst("probe") # In(1)
  BY DEF IP, ARP, Src, Dst, L4, In
<1>4. /\ L4("service") \notin {IP, Src("h1"), Dst("mgmt"), L4("manage"), Dst("h2"), L4("other")}
      /\ L4("manage") \notin {IP, Src("h1"), Dst("srv"), L4("service"), Dst("h2"), L4("other")}
  BY DEF IP, Src, Dst, L4
<1>5. \A port : L4("service") # In(port) /\ L4("manage") # In(port)
  BY FieldsApart
<1>6. \A port : /\ UserZone(port).match = {In(port), IP, Dst("srv"), L4("service")}
                /\ QuarantineZone(port).match = {In(port), IP, Dst("mgmt"), L4("manage")}
  BY RulesApart
<1>7. CASE \/ \E port \in {3, 4} : r.match = {In(port)}
           \/ r.match = {ARP} \/ r.match = {IP, Src("probe")} \/ r.match = {IP, Dst("probe")}
  <2>1. CASE \E port \in {3, 4} : r.match = {In(port)}
    <3> PICK port \in {3, 4} : r.match = {In(port)}
      BY <2>1
    <3>1. In(port) \in Question(class) \/ In(port) = In(1)
      OBVIOUS
    <3> QED
      BY <1>1, <1>2, <1>3, <3>1
  <2>2. CASE r.match = {ARP} \/ r.match = {IP, Src("probe")} \/ r.match = {IP, Dst("probe")}
    <3>1. \E f \in {ARP, Src("probe"), Dst("probe")} : f \in Question(class)
      BY <1>3, <2>2
    <3> QED
      BY <1>1, <1>2, <3>1
  <2> QED
    BY <1>7, <2>1, <2>2
<1>8. ASSUME NEW port \in UserPorts, r \in {UserZone(port), QuarantineZone(port)},
             class \in {"request", "manage", "lateral"}
      PROVE  /\ class = "request" => r = UserZone(1)
             /\ class = "manage" => r = QuarantineZone(1)
             /\ class # "lateral"
  <2>1. In(port) \in Question(class) \union {In(1)}
    BY <1>6, <1>8
  <2>2. port = 1
    BY <1>1, <1>2, <1>3, <1>8, <2>1
  <2>3. CASE r = UserZone(port)
    <3>1. L4("service") \in Question(class)
      BY <1>5, <1>6, <2>3
    <3> QED
      BY <1>1, <1>4, <1>8, <2>2, <2>3, <3>1
  <2>4. CASE r = QuarantineZone(port)
    <3>1. L4("manage") \in Question(class)
      BY <1>5, <1>6, <2>4
    <3> QED
      BY <1>1, <1>4, <1>8, <2>2, <2>4, <3>1
  <2> QED
    BY <1>8, <2>3, <2>4
<1> QED
  BY <1>7, <1>8, PolicyOfS1

\* So that what passes has its rule in the table.
LEMMA PolicyPasses ==
  ASSUME NEW T, T \subseteq Installed(1) \union RulesFor(1),
         NEW class \in Classes, class # "probe",
         Met(T, "policy", Question(class) \union {In(1)}).to # "drop"
  PROVE  /\ class = "request" => UserZone(1) \in T
         /\ class = "manage" => QuarantineZone(1) \in T
         /\ class # "lateral"
<1> DEFINE p == Question(class) \union {In(1)}
           r == Met(T, "policy", p)
<1>1. r.to # "drop" /\ NoMatch("policy").to = "drop" /\ 1 \in Switches
  BY SwitchesAssumption DEF NoMatch, Rule
<1>2. r = NoMatch("policy") \/ (r \in T /\ r.table = "policy" /\ r.match \subseteq p)
  <2> HIDE DEF p
  <2> QED
    BY <1>1, MetIsBest
<1> HIDE DEF r
<1>3. /\ r \in Installed(1) \union RulesFor(1) /\ r \in T /\ r.table = "policy"
      /\ r.match \subseteq Question(class) \union {In(1)}
  BY <1>1, <1>2
<1> QED
  BY <1>1, <1>3, PolicyForH1

\* A drop at the port is met by everything that enters there.
LEMMA DropMet ==
  ASSUME NEW T, T \subseteq Installed(1) \union RulesFor(1), Drop(1) \in T,
         NEW p, In(1) \in p
  PROVE  Met(T, "forward", p).to = "drop"
<1>1. Drop(1).table = "forward" /\ Drop(1).match \subseteq p /\ Drop(1).priority = 100
  BY RulesApart
<1>2. 1 \in Switches
  BY SwitchesAssumption
<1> DEFINE r == Met(T, "forward", p)
<1>3. r \in T /\ r.table = "forward" /\ 100 <= r.priority
  <2>1. \/ /\ r = NoMatch("forward")
           /\ \A q \in T : ~(q.table = "forward" /\ q.match \subseteq p)
        \/ /\ r \in T
           /\ r.table = "forward" /\ r.match \subseteq p
           /\ \A q \in T : q.table = "forward" /\ q.match \subseteq p
                           => q.priority <= r.priority
    BY <1>2, MetIsBest
  <2> HIDE DEF r
  <2> QED
    BY <1>1, <2>1
<1>4. r \in Installed(1) \union RulesFor(1) /\ r.table = "forward"
  BY <1>3
<1> HIDE DEF r
<1>5. \/ r = Rule("forward", 0, {}, "controller", 0)
      \/ \E port \in UserPorts : r = Drop(port)
      \/ r = Bypass(1) \/ r \in LearnedRules(1)
  BY <1>2, <1>4, RuleFacts
<1>6. r.priority \in {0, 10, 20} \/ r.to = "drop"
  BY <1>5, RulesApart DEF LearnedRules, Learned, Rule
<1> QED
  BY <1>3, <1>6 DEF r

\* A packet from h1 gets in only where the policy passes it and no drop does
\* not.
LEMMA AdmittedStep ==
  ASSUME Typed, PacketInOnePlace, AtTheDoor, TablesSettle, 1 \notin left, Next,
         ~packet.admitted, packet'.admitted, packet' # packet,
         packet.where = "switch", packet.port # 0, channel[packet.at] = <<>>
  PROVE  /\ "h1" \notin commanded.isolated
         /\ packet.class = "request" => "h1" \notin quarantined_hosts
         /\ packet.class = "manage" => "h1" \in quarantined_hosts
         /\ packet.class # "lateral"
<1>1. /\ packet \in Packets /\ 1 \in Switches
      /\ table[1] \subseteq Installed(1) \union RulesFor(1)
  BY SwitchesAssumption DEF Typed
<1>2. /\ packet.at = 1 /\ packet.port = Sender(packet.class)[2] /\ ~packet.answer
      /\ packet.class \in Classes
  BY <1>1 DEF AtTheDoor, Packets
<1>3. packet.class # "probe" /\ packet.port = 1
  BY <1>2 DEF Sender, arp_table
<1>4. fields = Question(packet.class)
  BY <1>2 DEF fields
<1>5. Cross
  <2>1. ~Enter /\ ~PacketIn
    BY DEF Enter, PacketIn, Over
  <2>2. ~Command /\ \A ip : ~Idle(ip)
    BY DEF Command, Idle
  <2>3. ASSUME NEW s \in Switches, Process(s)
        PROVE  FALSE
    <3>1. /\ channel[s] # <<>> /\ channel[s] \in Seq(MessagesFor(s))
          /\ Head(channel[s]).op = "packet"
      BY <2>3 DEF Process, Typed
    <3>2. 1 \in DOMAIN channel[s] /\ channel[s][1] = Head(channel[s])
      BY <3>1
    <3> QED
      BY <3>1, <3>2 DEF PacketInOnePlace
  <2>4. ASSUME NEW s \in MayLeave, Leave(s) \/ Return(s)
        PROVE  FALSE
    <3>1. packet' = [packet EXCEPT !.where = CASE @ = "channel" -> "lost"
                                               [] @ = "controller" -> "orphaned"
                                               [] OTHER -> @]
      BY <2>4 DEF Leave, Return
    <3> QED
      BY <1>1, <3>1 DEF Packets
  <2> QED
    BY <2>1, <2>2, <2>3, <2>4 DEF Next
<1> DEFINE p == fields \union {In(1)}
<1>6. PICK rule \in Verdicts(table[1], p) : rule.to # "drop"
  <2>1. PICK rule \in Verdicts(table[1], p) :
          packet' = CASE rule.to = "output" -> PutOut(1, rule.port)
                      [] rule.to = "controller" /\ 1 \in up ->
                           [packet EXCEPT !.where = "controller", !.admitted = TRUE]
                      [] OTHER -> [packet EXCEPT !.where = "lost"]
    BY <1>2, <1>3, <1>5 DEF Cross
  <2>2. ASSUME rule.to = "drop"
        PROVE  FALSE
    <3>1. packet' = [packet EXCEPT !.where = "lost"]
      BY <2>1, <2>2
    <3> QED
      BY <1>1, <3>1 DEF Packets
  <2> QED
    BY <2>2
<1>7. Met(table[1], "policy", p).to # "drop" /\ Met(table[1], "forward", p).to # "drop"
  <2>1. \A t : NoMatch(t).to = "drop"
    BY DEF NoMatch, Rule
  <2> QED
    BY <1>6, <2>1 DEF Verdicts
<1>8. /\ packet.class = "request" => UserZone(1) \in table[1]
      /\ packet.class = "manage" => QuarantineZone(1) \in table[1]
      /\ packet.class # "lateral"
  BY <1>1, <1>2, <1>3, <1>4, <1>7, PolicyPasses
<1>9. /\ Drop(1) \in table[1] <=> "h1" \in commanded.isolated
      /\ UserZone(1) \in table[1] <=> "h1" \notin quarantined_hosts
      /\ QuarantineZone(1) \in table[1] <=> "h1" \in quarantined_hosts
  <2>1. 1 \in UserPorts /\ UserAt(1) = "h1" /\ channel[1] = <<>>
    BY <1>2 DEF UserPorts, UserAt
  <2> QED
    BY <2>1 DEF TablesSettle, Settles
<1>10. Drop(1) \notin table[1]
  BY <1>1, <1>7, DropMet
<1> QED
  BY <1>8, <1>9, <1>10

\* While the users' switch stays connected, what it lets in once it has
\* processed everything is what the commands so far allow: nothing from an
\* isolated port, requests only from hosts outside the quarantine, management
\* traffic only from those inside, and nothing towards another user.
THEOREM AdmissionFollows ==
  ASSUME 1 \notin MayLeave
  PROVE  Spec => AdmittedByZone
<1>1. Init => AtTheDoor
  BY DEF Init, AtTheDoor, Entered, Over
<1>2. Typed /\ PacketInOnePlace /\ AtTheDoor /\ [Next]_vars => AtTheDoor'
  BY AtTheDoorStep
<1>3. Init => TablesSettle
  BY TablesSettleInit
<1>4. Typed /\ TablesSettle /\ [Next]_vars => TablesSettle'
  BY TablesSettleStep
<1>5. Typed /\ PacketInOnePlace /\ AtTheDoor /\ TablesSettle /\ [Next]_vars
        => [/\ ~packet.admitted /\ packet'.admitted /\ packet' # packet
            /\ packet.where = "switch" /\ packet.port # 0 /\ channel[packet.at] = <<>>
            => /\ "h1" \notin commanded.isolated
               /\ packet.class = "request" => "h1" \notin quarantined_hosts
               /\ packet.class = "manage" => "h1" \in quarantined_hosts
               /\ packet.class # "lateral"]_vars
  <2>1. Typed => 1 \notin left
    BY DEF Typed
  <2> QED
    BY <2>1, AdmittedStep
<1> QED
  BY <1>1, <1>2, <1>3, <1>4, <1>5, DataPlaneTyped, PTL DEF Spec, AdmittedByZone
-----------------------------------------------------------------------------
(***************************************************************************)
(* Nothing is lost inside.                                                 *)
(***************************************************************************)
\* The one way around S2.
Way == <<1, 3, 4>>

\* Its cost is a number: the sum that the code builds hop by hop.
LEMMA WayCost == R!Cost(Way) \in Nat
<1>1. /\ Len(Way) = 3 /\ Way[1] = 1 /\ Way[2] = 3 /\ Way[3] = 4
      /\ R!weight[{1, 3}] = 2 /\ R!weight[{3, 4}] = 2
  BY DEF Way, R!weight
<1> DEFINE f == [i \in 1..3 |-> IF i = 1 THEN 0 ELSE IF i = 2 THEN 2 ELSE 4]
<1>2. f = [i \in 1..Len(Way) |->
             IF i = 1 THEN 0 ELSE f[i - 1] + R!weight[{Way[i - 1], Way[i]}]]
  BY <1>1
<1>3. \E g : g = [i \in 1..Len(Way) |->
             IF i = 1 THEN 0 ELSE g[i - 1] + R!weight[{Way[i - 1], Way[i]}]]
  BY <1>2
<1> DEFINE g == CHOOSE g : g = [i \in 1..Len(Way) |->
             IF i = 1 THEN 0 ELSE g[i - 1] + R!weight[{Way[i - 1], Way[i]}]]
<1>4. g = [i \in 1..Len(Way) |->
             IF i = 1 THEN 0 ELSE g[i - 1] + R!weight[{Way[i - 1], Way[i]}]]
  BY <1>3
<1>5. R!Cost(Way) = g[Len(Way)]
  BY DEF R!Cost
<1> HIDE DEF g
<1>6. g[1] = 0 /\ g[2] = g[1] + 2 /\ g[3] = g[2] + 2
  BY <1>1, <1>4
<1> QED
  BY <1>1, <1>5, <1>6

\* No other way has up to four switches, each once, linked, and not S2.
LEMMA Hops ==
  ASSUME NEW n \in 1..4, NEW r \in [1..n -> R!Dpids], r[1] = 1, r[Len(r)] = 4,
    \A i, j \in 1..Len(r) : r[i] = r[j] => i = j,
    \A i \in 1..(Len(r) - 1) : {r[i], r[i + 1]} \in DOMAIN R!weight,
    \A i \in 2..(Len(r) - 1) : r[i] \notin {2}
  PROVE r = Way
<1>1. Len(r) = n
  OBVIOUS
<1>2. DOMAIN R!weight = {{1, 2}, {1, 3}, {2, 4}, {3, 4}}
  BY DEF R!weight
<1>3. \A i \in 1..n : r[i] \in 1..4
  BY DEF R!Dpids
<1>4. n # 1
  BY <1>1
<1>5. n # 2
  <2>1. n = 2 => {1, 4} \in DOMAIN R!weight
    BY <1>1
  <2>2. {1, 4} \notin {{1, 2}, {1, 3}, {2, 4}, {3, 4}}
    <3>1. /\ {1, 4} # {1, 2} /\ {1, 4} # {1, 3} /\ {1, 4} # {2, 4}
          /\ {1, 4} # {3, 4}
      <4>1. /\ 4 \notin {1, 2} /\ 4 \notin {1, 3} /\ 1 \notin {2, 4} /\ 1 \notin {3, 4}
            /\ 4 \in {1, 4} /\ 1 \in {1, 4}
        OBVIOUS
      <4> QED
        BY <4>1, Zenon
    <3> QED
      BY <3>1
  <2> QED
    BY <2>1, <2>2, <1>2
<1>6. \A i \in 2..(n - 1) : r[i] = 3
  BY <1>1, <1>3
<1>7. n # 4
  BY <1>1, <1>6
<1>8. n = 3 /\ r[2] = 3 /\ r[3] = 4
  BY <1>1, <1>4, <1>5, <1>6, <1>7
<1>9. r = [i \in 1..3 |-> Way[i]]
  BY <1>8 DEF Way
<1> QED
  BY <1>9 DEF Way

\* So the bypass leads along it,
LEMMA ThePath == Path = Way
<1> DEFINE open == {r \in R!Routes(1, 4) : \A i \in 2..(Len(r) - 1) : r[i] \notin {2}}
<1>1. \A r \in open : r = Way
  BY Hops DEF R!Routes
<1>2. Way \in open
  <2>1. /\ Len(Way) = 3 /\ Way[1] = 1 /\ Way[2] = 3 /\ Way[3] = 4
    BY DEF Way
  <2>2. Way \in [1..3 -> R!Dpids]
    BY DEF Way, R!Dpids
  <2>3. DOMAIN R!weight = {{1, 2}, {1, 3}, {2, 4}, {3, 4}}
    BY DEF R!weight
  <2>4. \A i \in 1..2 : {Way[i], Way[i + 1]} \in DOMAIN R!weight
    BY <2>1, <2>3
  <2>5. \A i, j \in 1..3 : Way[i] = Way[j] => i = j
    BY <2>1
  <2> HIDE DEF Way
  <2>6. [1..3 -> R!Dpids] \in {[1..n -> R!Dpids] : n \in 1..4}
    OBVIOUS
  <2>7. Way \in UNION {[1..n -> R!Dpids] : n \in 1..4}
    BY <2>2, <2>6
  <2>8. Way \in R!Routes(1, 4)
    <3>1. /\ Way[1] = 1 /\ Way[Len(Way)] = 4
          /\ \A i, j \in 1..Len(Way) : Way[i] = Way[j] => i = j
          /\ \A i \in 1..(Len(Way) - 1) : {Way[i], Way[i + 1]} \in DOMAIN R!weight
      BY <2>1, <2>4, <2>5
    <3> QED
      BY <2>7, <3>1, Zenon DEF R!Routes
  <2>9. \A i \in 2..(Len(Way) - 1) : Way[i] \notin {2}
    BY <2>1
  <2> QED
    BY <2>8, <2>9
<1>3. Path = CHOOSE r \in open : \A q \in open : R!Cost(r) <= R!Cost(q)
  BY <1>2 DEF Path, R!compute_reroute_path, R!get_shortest_path
<1>4. \A q \in open : R!Cost(Way) <= R!Cost(q)
  BY <1>1, WayCost
<1> HIDE DEF open
<1> QED
  BY <1>1, <1>2, <1>3, <1>4

\* and is a rule of S1 towards S3 and a rule of S3 towards S4.
LEMMA TheBypass ==
  /\ R!SpecDpids[1] = {1, 3}
  /\ SpecPort(1) = 4 /\ SpecPort(3) = 2
<1>1. Len(Way) = 3 /\ Way[1] = 1 /\ Way[2] = 3 /\ Way[3] = 4 /\ DOMAIN Way = {1, 2, 3}
  BY DEF Way
<1>2. R!SpecDpids[1] = {1, 3}
  <2>1. R!compute_reroute_path(1) = Way
    BY ThePath DEF Path
  <2>2. R!FlowSpecs(Way) = [i \in 1..2 |-> IF i = 2 THEN 1 ELSE Way[i + 1]]
    BY <1>1 DEF R!FlowSpecs
  <2> QED
    BY <1>1, <2>1, <2>2 DEF R!SpecDpids, R!Dpids
<1>3. ASSUME NEW i \in {1, 2}, NEW a, a = Way[i]
      PROVE  Path[1 + (CHOOSE k \in DOMAIN Path : Path[k] = a)] = Way[i + 1]
  <2>1. \A k \in DOMAIN Way : Way[k] = a <=> k = i
    BY <1>1, <1>3
  <2>2. (CHOOSE k \in DOMAIN Way : Way[k] = a) = i
    BY <1>1, <2>1
  <2>3. Way[1 + i] = Way[i + 1]
    BY <1>1
  <2> QED
    BY <2>2, <2>3, ThePath, Zenon
<1>4. SpecPort(1) = CHOOSE port \in trunk_ports[1] :
        \E l \in link : <<1, port>> \in l /\ \E far \in l : far[1] = 3
  <2>1. Path[1 + (CHOOSE k \in DOMAIN Path : Path[k] = 1)] = 3
    BY <1>1, <1>3
  <2> QED
    BY <2>1, Zenon DEF SpecPort
<1>5. SpecPort(3) = CHOOSE port \in trunk_ports[3] :
        \E l \in link : <<3, port>> \in l /\ \E far \in l : far[1] = 4
  <2>1. Path[1 + (CHOOSE k \in DOMAIN Path : Path[k] = 3)] = 4
    BY <1>1, <1>3
  <2> QED
    BY <2>1, Zenon DEF SpecPort
<1>6. \A port \in {3, 4} :
        (\E l \in link : <<1, port>> \in l /\ \E far \in l : far[1] = 3) <=> port = 4
  BY DEF link
<1>7. \A port \in {1, 2} :
        (\E l \in link : <<3, port>> \in l /\ \E far \in l : far[1] = 4) <=> port = 2
  BY DEF link
<1>8. trunk_ports[1] = {3, 4} /\ trunk_ports[3] = {1, 2}
  BY DEF trunk_ports
<1> QED
  BY <1>2, <1>4, <1>5, <1>6, <1>7, <1>8

\* Where a packet goes, and the ports at which it can be: every one on its way
\* to the server, over S2 or the bypass, and back over S2.
Address ==
  IF packet.answer THEN (IF packet.class = "probe" THEN "probe" ELSE "h1")
  ELSE CASE packet.class = "lateral" -> "h2"
         [] packet.class = "manage" -> "mgmt"
         [] packet.class = "arp_unknown" -> "nobody"
         [] OTHER -> "srv"
Onward(s) == routing_table[s][IF Address = "probe" THEN "h1" ELSE Address]
Outward == {<<2, 1>>, <<3, 1>>, <<4, 2>>, <<4, 3>>}
Homeward == {<<4, 1>>, <<2, 2>>, <<1, 3>>}
Stop(p) ==
  /\ p.class \in {"request", "probe"}
  /\ <<p.at, p.port>> \in IF p.answer THEN Homeward ELSE Outward
OnRoute ==
  packet.class # "manage" =>
    /\ packet.where \in {"switch", "controller", "channel"} =>
         Stop(packet) \/ (~packet.answer /\ <<packet.at, packet.port>> = Sender(packet.class))
    /\ packet.where = "switch" /\ packet.admitted => Stop(packet)

\* The message that carries it puts it out in the direction of its way, or
\* where ARP came from.
PutsOutAt(c, port) == \A i \in DOMAIN c : c[i].op = "packet" => c[i].port = port
SentOn ==
  packet.class # "manage" /\ packet.where = "channel" =>
    PutsOutAt(channel[packet.at],
              IF packet.class = "arp" THEN packet.port ELSE Onward(packet.at))

\* A connected switch has the rules that pass what comes in over a trunk or
\* from the server, and the one that reports what no other forwards.
Trunk(port) == Pass(65535, {In(port)})
Replies == {Pass(400, {IP, Dst("probe")}), Pass(100, {In(1), IP, L4("reply")})}
Report == Rule("forward", 0, {}, "controller", 0)
RulesInPlace ==
  \A s \in up :
    /\ {Trunk(port) : port \in trunk_ports[s]} \subseteq table[s]
    /\ s = 4 => Replies \subseteq table[s]
    /\ Report \in table[s]

\* The one address in the packet's fields.
LEMMA FieldsAddress ==
  ASSUME Typed, NEW ip
  PROVE  Dst(ip) \in fields <=> ip = Address
<1>1. packet.class \in Classes /\ packet.answer \in BOOLEAN
  BY DEF Typed, Packets
<1>2. \A x : Dst(ip) = Dst(x) <=> ip = x
  BY DEF Dst
<1>3. Dst(ip) # IP /\ Dst(ip) # ARP /\ (\A x : Dst(ip) # Src(x)) /\ \A k : Dst(ip) # L4(k)
  BY DEF Dst, IP, ARP, Src, L4
<1>4. CASE packet.answer
  BY <1>2, <1>3, <1>4 DEF fields, Answer, Address
<1>5. CASE ~packet.answer
  <2>1. \A class \in Classes : Dst(ip) \in Question(class) <=>
          ip = CASE class = "lateral" -> "h2"
                 [] class = "manage" -> "mgmt"
                 [] class = "arp_unknown" -> "nobody"
                 [] OTHER -> "srv"
    BY <1>2, <1>3 DEF Question, Classes
  <2> QED
    BY <1>1, <1>5, <2>1 DEF fields, Address
<1> QED
  BY <1>1, <1>4, <1>5

\* The port of a link and what is at its other end.
Joins(s, x, at, port) ==
  /\ {<<s, x>>, <<at, port>>} \in link
  /\ \A l \in link : <<s, x>> \in l => l = {<<s, x>>, <<at, port>>}

\* A packet that is put out there is at the other end.
LEMMA OverALink ==
  ASSUME Typed, NEW s, NEW x, NEW at, NEW port, <<at, port>> # <<s, x>>,
         Joins(s, x, at, port)
  PROVE  /\ PutOut(s, x).at = at /\ PutOut(s, x).port = port
         /\ PutOut(s, x).class = packet.class /\ PutOut(s, x).answer = packet.answer
<1> DEFINE far == {l \in link : <<s, x>> \in l}
           end == <<at, port>>
           l == {<<s, x>>, end}
<1>1. packet \in Packets
  BY DEF Typed
<1>2. l \in far /\ \A k \in far : k = l
  BY DEF Joins
<1>3. \A e \in UNION far : e # <<s, x>> <=> e = end
  BY <1>2
<1>4. end \in UNION far
  BY <1>2
<1> DEFINE e == CHOOSE e \in UNION far : e # <<s, x>>
<1>5. e = end
  BY <1>3, <1>4
<1>6. PutOut(s, x) = [packet EXCEPT !.where = "switch", !.at = e[1], !.port = e[2],
                                    !.admitted = TRUE]
  BY <1>2 DEF PutOut
<1> HIDE DEF e, far
<1> QED
  BY <1>1, <1>5, <1>6 DEF Packets

\* The links of the diamond, from the ends that packets leave by.
LEMMA Links ==
  /\ Joins(1, 3, 2, 1) /\ Joins(1, 4, 3, 1) /\ Joins(2, 2, 4, 2)
  /\ Joins(3, 2, 4, 3) /\ Joins(4, 2, 2, 2) /\ Joins(2, 1, 1, 3)
  /\ \A l \in link : <<4, 1>> \notin l /\ <<1, 1>> \notin l /\ <<1, 2>> \notin l
<1>1. \A x, y : {x, y} = {y, x}
  OBVIOUS
<1>2. Joins(1, 3, 2, 1)
  BY <1>1 DEF link, Joins
<1>3. Joins(1, 4, 3, 1)
  BY <1>1 DEF link, Joins
<1>4. Joins(2, 2, 4, 2)
  BY <1>1 DEF link, Joins
<1>5. Joins(3, 2, 4, 3)
  BY <1>1 DEF link, Joins
<1>6. Joins(4, 2, 2, 2)
  BY <1>1 DEF link, Joins
<1>7. Joins(2, 1, 1, 3)
  BY <1>1 DEF link, Joins
<1>8. \A l \in link : <<4, 1>> \notin l /\ <<1, 1>> \notin l /\ <<1, 2>> \notin l
  BY DEF link
<1> QED
  BY <1>2, <1>3, <1>4, <1>5, <1>6, <1>7, <1>8

\* A packet that is put out in the direction of its way, or of the bypass, comes
\* to the next stop of its way or arrives.
LEMMA NextStop ==
  ASSUME Typed, packet.class \notin {"manage", "arp_unknown"},
         Stop(packet) \/ (~packet.answer /\ <<packet.at, packet.port>> = Sender(packet.class)),
         NEW x, 
         \/ packet.class = "arp" /\ x = packet.port
         \/ packet.class # "arp" /\ x = Onward(packet.at)
         \/ Address = "srv" /\ packet.at \in {1, 3} /\ x = SpecPort(packet.at) /\ packet.class # "arp"
  PROVE  PutOut(packet.at, x).where = "switch" => Stop(PutOut(packet.at, x))
<1> DEFINE q == PutOut(packet.at, x)
<1>1. packet \in Packets
  BY DEF Typed
<1>2. /\ <<2, 1>> # <<1, 3>> /\ <<3, 1>> # <<1, 4>> /\ <<4, 2>> # <<2, 2>>
      /\ <<4, 3>> # <<3, 2>> /\ <<2, 2>> # <<4, 2>> /\ <<1, 3>> # <<2, 1>>
  OBVIOUS
<1>3. /\ PutOut(1, 3).at = 2 /\ PutOut(1, 3).port = 1
      /\ PutOut(1, 3).class = packet.class /\ PutOut(1, 3).answer = packet.answer
  BY <1>2, Links, OverALink
<1>4. /\ PutOut(1, 4).at = 3 /\ PutOut(1, 4).port = 1
      /\ PutOut(1, 4).class = packet.class /\ PutOut(1, 4).answer = packet.answer
  BY <1>2, Links, OverALink
<1>5. /\ PutOut(2, 2).at = 4 /\ PutOut(2, 2).port = 2
      /\ PutOut(2, 2).class = packet.class /\ PutOut(2, 2).answer = packet.answer
  BY <1>2, Links, OverALink
<1>6. /\ PutOut(3, 2).at = 4 /\ PutOut(3, 2).port = 3
      /\ PutOut(3, 2).class = packet.class /\ PutOut(3, 2).answer = packet.answer
  BY <1>2, Links, OverALink
<1>7. /\ PutOut(4, 2).at = 2 /\ PutOut(4, 2).port = 2
      /\ PutOut(4, 2).class = packet.class /\ PutOut(4, 2).answer = packet.answer
  BY <1>2, Links, OverALink
<1>8. /\ PutOut(2, 1).at = 1 /\ PutOut(2, 1).port = 3
      /\ PutOut(2, 1).class = packet.class /\ PutOut(2, 1).answer = packet.answer
  BY <1>2, Links, OverALink
<1>9. PutOut(1, 1).where = "arrived" /\ PutOut(1, 2).where = "arrived"
  BY <1>1, Links DEF PutOut, arp_table, Packets
<1>10. packet.at = 4 /\ packet.class # "arp" =>
         /\ PutOut(4, 1).at = 4 /\ PutOut(4, 1).port = 1
         /\ PutOut(4, 1).class = packet.class /\ PutOut(4, 1).answer
  BY <1>1, Links DEF PutOut, arp_table, Packets
<1>11. /\ Sender("request") = <<1, 1>> /\ Sender("arp") = <<1, 1>>
       /\ Sender("lateral") = <<1, 1>> /\ Sender("probe") = <<1, 0>>
  BY DEF Sender, arp_table
<1>12. packet.class \in {"request", "lateral", "arp", "probe"}
  BY <1>1 DEF Packets, Classes
<1>13. /\ \A s \in 1..4 : /\ routing_table[s]["h1"] = <<1, 1, 1, 2>>[s]
                          /\ routing_table[s]["srv"] = <<3, 2, 2, 1>>[s]
       /\ routing_table[1]["h2"] = 2
  BY DEF routing_table
<1> HIDE DEF q
<1>14. CASE packet.class = "arp"
  BY <1>9, <1>11, <1>14 DEF Stop, q
<1>15. CASE packet.class = "lateral"
  BY <1>9, <1>11, <1>13, <1>15 DEF Stop, Onward, Address, q
<1>16. CASE packet.class \in {"request", "probe"} /\ ~packet.answer
  <2>1. <<packet.at, packet.port>> \in {<<1, 1>>, <<1, 0>>} \union Outward
    BY <1>11, <1>16 DEF Stop
  <2>2. Address = "srv"
    BY <1>16 DEF Address
  <2>3. \/ packet.at = 1 /\ x \in {3, 4}
        \/ packet.at \in {2, 3} /\ x = 2
        \/ packet.at = 4 /\ x = 1
    BY <1>13, <1>16, <2>1, <2>2, TheBypass DEF Onward, Outward
  <2> QED
    BY <1>3, <1>4, <1>5, <1>6, <1>10, <1>16, <2>3 DEF Stop, Outward, Homeward
<1>17. CASE packet.class \in {"request", "probe"} /\ packet.answer
  <2>1. <<packet.at, packet.port>> \in Homeward
    BY <1>17 DEF Stop
  <2>2. Address \in {"h1", "probe"}
    BY <1>17 DEF Address
  <2>3. \/ packet.at = 1 /\ x = 1
        \/ packet.at = 2 /\ x = 1
        \/ packet.at = 4 /\ x = 2
    BY <1>13, <1>17, <2>1, <2>2 DEF Onward, Homeward
  <2> QED
    BY <1>7, <1>8, <1>9, <1>17, <2>3 DEF Stop, Homeward
<1> QED
  BY <1>12, <1>14, <1>15, <1>16, <1>17

\* A rule forwards a packet in the direction of its way, or over the bypass.
LEMMA ForwardedOnward ==
  ASSUME Typed, NEW r \in table[packet.at], r.table = "forward", r.to = "output",
         r.match \subseteq fields \union {In(packet.port)}
  PROVE  \/ r.port = Onward(packet.at)
         \/ Address = "srv" /\ packet.at \in {1, 3} /\ r.port = SpecPort(packet.at)
<1>1. packet.at \in Switches /\ r \in Installed(packet.at) \union RulesFor(packet.at)
  BY DEF Typed, Packets
<1>2. \/ packet.at \in R!SpecDpids[1] /\ r = Bypass(packet.at)
      \/ r \in LearnedRules(packet.at)
  BY <1>1, RuleFacts DEF Drop, Rule
<1>3. \A ip : Dst(ip) # In(packet.port)
  BY DEF Dst, In
<1>4. CASE packet.at \in R!SpecDpids[1] /\ r = Bypass(packet.at)
  <2>1. Dst("srv") \in r.match /\ r.port = SpecPort(packet.at)
    BY <1>4 DEF Bypass, Rule
  <2>2. Dst("srv") \in fields
    BY <1>3, <2>1
  <2> QED
    BY <1>4, <2>1, <2>2, FieldsAddress, TheBypass
<1>5. ASSUME NEW ip \in Hosts, r = Learned(ip, routing_table[packet.at][ip])
      PROVE  r.port = Onward(packet.at)
  <2>1. Dst(ip) \in r.match /\ r.port = routing_table[packet.at][ip]
    BY <1>5 DEF Learned, Rule
  <2>2. ip = Address
    BY <1>3, <2>1, FieldsAddress
  <2>3. ip # "probe"
    BY DEF Hosts, Users
  <2> QED
    BY <2>1, <2>2, <2>3 DEF Onward
<1>6. CASE r = Learned("probe", routing_table[packet.at]["h1"])
  <2>1. Dst("probe") \in r.match /\ r.port = routing_table[packet.at]["h1"]
    BY <1>6 DEF Learned, Rule
  <2>2. "probe" = Address
    BY <1>3, <2>1, FieldsAddress
  <2> QED
    BY <2>1, <2>2 DEF Onward
<1> QED
  BY <1>2, <1>4, <1>5, <1>6 DEF LearnedRules

\* Every verdict to put a packet out is that of such a rule.
LEMMA VerdictToOutput ==
  ASSUME Typed, NEW rule \in Verdicts(table[packet.at], fields \union {In(packet.port)}),
         rule.to = "output"
  PROVE  /\ rule \in table[packet.at] /\ rule.table = "forward"
         /\ rule.match \subseteq fields \union {In(packet.port)}
<1> DEFINE p == fields \union {In(packet.port)}
<1>1. packet.at \in Switches /\ table[packet.at] \subseteq Installed(packet.at) \union RulesFor(packet.at)
  BY DEF Typed, Packets
<1>2. \A t : NoMatch(t).to # "output"
  BY DEF NoMatch, Rule
<1>3. rule = Met(table[packet.at], "forward", p)
  BY <1>2 DEF Verdicts
<1> HIDE DEF p
<1>4. \/ Met(table[packet.at], "forward", p) = NoMatch("forward")
      \/ /\ Met(table[packet.at], "forward", p) \in table[packet.at]
         /\ Met(table[packet.at], "forward", p).table = "forward"
         /\ Met(table[packet.at], "forward", p).match \subseteq p
  BY <1>1, MetIsBest
<1> QED
  BY <1>2, <1>3, <1>4 DEF p

\* The controller puts a packet out in the direction of its way, or where ARP
\* came from.
LEMMA AnsweredOnward ==
  ASSUME Typed, packet.class # "manage", packet.class = "arp" => ~packet.answer,
         packet_in_handler(packet.at, packet.port, fields) # Nothing
  PROVE  PutsOutAt(packet_in_handler(packet.at, packet.port, fields),
                   IF packet.class = "arp" THEN packet.port ELSE Onward(packet.at))
<1>1. packet.class \in Classes /\ packet.answer \in BOOLEAN
  BY DEF Typed, Packets
<1>2. (CHOOSE ip \in Hosts \union {"probe", "mgmt", "nobody"} : Dst(ip) \in fields) = Address
  <2>1. Address \in Hosts \union {"probe", "mgmt", "nobody"}
    BY DEF Address, Hosts, Users
  <2>2. \A ip : Dst(ip) \in fields <=> ip = Address
    BY FieldsAddress
  <2> QED
    BY <2>1, <2>2
<1>3. ARP \in fields <=> packet.class \in {"arp", "arp_unknown"} /\ ~packet.answer
  BY <1>1 DEF fields, Question, Answer, ARP, IP, Src, Dst, L4, Classes
<1>4. \A q, x : add_flow(q).op # "packet" /\ packet_out(x).port = x
  BY DEF add_flow, packet_out
<1>5. CASE ARP \in fields
  <2>1. packet_in_handler(packet.at, packet.port, fields) = handle_arp(packet.port, Address)
    BY <1>2, <1>5 DEF packet_in_handler
  <2>2. packet_in_handler(packet.at, packet.port, fields) = <<packet_out(packet.port)>>
    BY <2>1 DEF handle_arp
  <2>3. packet.class = "arp"
    BY <1>3, <1>5, ArpIsNotAnswered
  <2> QED
    BY <1>4, <2>2, <2>3 DEF PutsOutAt
<1>6. CASE ARP \notin fields /\ Address = "probe"
  <2>1. packet_in_handler(packet.at, packet.port, fields)
          = _handle_probe_reply(packet.at, packet.port)
    BY <1>2, <1>6 DEF packet_in_handler
  <2>2. /\ packet_in_handler(packet.at, packet.port, fields)
             = <<add_flow(Learned("probe", Onward(packet.at))), packet_out(Onward(packet.at))>>
        /\ packet.class # "arp"
    BY <1>6, <2>1 DEF _handle_probe_reply, Onward, Address
  <2> QED
    BY <1>4, <2>2 DEF PutsOutAt
<1>7. CASE ARP \notin fields /\ Address # "probe"
  <2>1. packet_in_handler(packet.at, packet.port, fields)
          = handle_ipv4(packet.at, packet.port, Address)
    BY <1>2, <1>7 DEF packet_in_handler
  <2>2. packet_in_handler(packet.at, packet.port, fields)
             = <<add_flow(Learned(Address, Onward(packet.at))), packet_out(Onward(packet.at))>>
    BY <1>7, <2>1 DEF handle_ipv4, Onward
  <2>3. packet.class # "arp"
    BY <1>3, <1>7
  <2> QED
    BY <1>4, <2>2, <2>3 DEF PutsOutAt
<1> QED
  BY <1>5, <1>6, <1>7

\* What a message sequence puts out, when messages come and go.
LEMMA PutsOutSent ==
  ASSUME NEW M, NEW c \in Seq(M), NEW ms \in Seq(M), NEW x,
         PutsOutAt(c, x), PutsOutAt(ms, x)
  PROVE  PutsOutAt(c \o ms, x)
<1> DEFINE d == c \o ms
<1>1. /\ \A i \in DOMAIN d : i > Len(c) => i - Len(c) \in DOMAIN ms /\ d[i] = ms[i - Len(c)]
      /\ \A i \in DOMAIN d : ~(i > Len(c)) => i \in DOMAIN c /\ d[i] = c[i]
  OBVIOUS
<1> HIDE DEF d
<1>2. PutsOutAt(d, x)
  BY <1>1 DEF PutsOutAt
<1> QED
  BY <1>2 DEF d

\* and when the first is processed.
LEMMA PutsOutProcessed ==
  ASSUME NEW M, NEW c \in Seq(M), c # <<>>, NEW x, PutsOutAt(c, x)
  PROVE  /\ Head(c).op = "packet" => Head(c).port = x
         /\ PutsOutAt(Tail(c), x)
<1> DEFINE d == Tail(c)
<1>1. /\ 1 \in DOMAIN c /\ c[1] = Head(c)
      /\ \A i \in DOMAIN d : i + 1 \in DOMAIN c /\ d[i] = c[i + 1]
  OBVIOUS
<1> HIDE DEF d
<1>2. PutsOutAt(d, x)
  BY <1>1 DEF PutsOutAt
<1> QED
  BY <1>1, <1>2 DEF PutsOutAt, d

\* Every step leaves the packet on its route, and the messages with it.
LEMMA OnRouteStep ==
  ASSUME Typed, PacketInOnePlace, OnRoute, SentOn, [Next]_vars
  PROVE  OnRoute' /\ SentOn'
<1> DEFINE AtStop == Stop(packet) \/ (~packet.answer
                                      /\ <<packet.at, packet.port>> = Sender(packet.class))
           x == IF packet.class = "arp" THEN packet.port ELSE Onward(packet.at)
           Same == /\ packet'.at = packet.at /\ packet'.port = packet.port
                   /\ packet'.class = packet.class /\ packet'.answer = packet.answer
<1>1. /\ packet \in Packets /\ packet.at \in Switches /\ packet.port \in 0..4
      /\ packet.class \in Classes
      /\ DOMAIN channel = Switches
      /\ \A s \in Switches : channel[s] \in Seq(MessagesFor(s))
  BY DEF Typed, Packets
<1>2. \A s \in Switches : ~(packet.where = "channel" /\ packet.at = s) => NoPacketIn(channel[s])
  BY <1>1, OnePlaceBySwitch
<1>3. ASSUME Same
      PROVE  /\ AtStop' <=> AtStop
             /\ x' = x
  BY <1>3 DEF Stop, Onward, Address
<1>4. CASE UNCHANGED <<packet, channel>>
  BY <1>4 DEF OnRoute, SentOn, Stop, Onward, Address, PutsOutAt
<1>5. CASE Enter
  <2>1. packet' = Entered(packet.class)
    BY <1>5 DEF Enter
  <2>2. Sender(packet.class) = <<Sender(packet.class)[1], Sender(packet.class)[2]>>
    BY DEF Sender, arp_table
  <2>3. /\ packet'.where = "switch" /\ ~packet'.admitted /\ ~packet'.answer
        /\ packet'.class = packet.class
        /\ <<packet'.at, packet'.port>> = Sender(packet.class)
    BY <2>1, <2>2 DEF Entered
  <2> QED
    BY <2>3 DEF OnRoute, SentOn
<1>6. CASE Cross
  <2>1. PICK rule \in Verdicts(table[packet.at], fields \union {In(packet.port)}) :
          packet' = CASE rule.to = "output" -> PutOut(packet.at, rule.port)
                      [] rule.to = "controller" /\ packet.at \in up ->
                           [packet EXCEPT !.where = "controller", !.admitted = TRUE]
                      [] OTHER -> [packet EXCEPT !.where = "lost"]
    BY <1>6 DEF Cross
  <2>2. packet.where = "switch"
    BY <1>6 DEF Cross
  <2>3. CASE rule.to = "output"
    <3>1. packet' = PutOut(packet.at, rule.port)
      BY <2>1, <2>3
    <3>2. packet'.where \in {"switch", "arrived"} /\ packet'.class = packet.class
      BY <1>1, <3>1, PutOutTyped
    <3>3. SUFFICES ASSUME packet.class # "manage", packet'.where = "switch"
                   PROVE  Stop(packet')
      BY <3>2 DEF OnRoute, SentOn
    <3>4. AtStop
      BY <2>2, <3>3 DEF OnRoute
    <3>5. packet.class \notin {"arp", "arp_unknown"}
      <4>1. \A class \in {"arp", "arp_unknown"} : Sender(class) = <<1, 1>>
        BY DEF Sender, arp_table
      <4>2. packet.class \in {"arp", "arp_unknown"} =>
              ~packet.answer /\ packet.at = 1 /\ packet.port = 1
        BY <3>4, <4>1 DEF Stop
      <4> QED
        BY <2>1, <2>3, <4>2, ArpIsNotForwarded
    <3>6. \/ rule.port = Onward(packet.at)
          \/ Address = "srv" /\ packet.at \in {1, 3} /\ rule.port = SpecPort(packet.at)
      BY <2>3, VerdictToOutput, ForwardedOnward
    <3> QED
      BY <3>1, <3>3, <3>4, <3>5, <3>6, NextStop
  <2>4. CASE rule.to = "controller" /\ packet.at \in up
    <3>1. packet' = [packet EXCEPT !.where = "controller", !.admitted = TRUE]
      BY <2>1, <2>4
    <3>2. Same /\ packet'.where = "controller"
      BY <1>1, <3>1 DEF Packets
    <3> QED
      BY <1>3, <2>2, <3>2 DEF OnRoute, SentOn
  <2>5. CASE rule.to # "output" /\ ~(rule.to = "controller" /\ packet.at \in up)
    <3>1. packet' = [packet EXCEPT !.where = "lost"]
      BY <2>1, <2>5
    <3>2. packet'.where = "lost"
      BY <1>1, <3>1 DEF Packets
    <3> QED
      BY <3>2 DEF OnRoute, SentOn
  <2> QED
    BY <2>3, <2>4, <2>5
<1>7. CASE PacketIn
  <2> DEFINE answer == packet_in_handler(packet.at, packet.port, fields)
  <2>1. CASE answer # Nothing /\ packet.where = "controller"
    <3>1. channel' = Sent(To(packet.at, answer)) /\ packet' = [packet EXCEPT !.where = "channel"]
      BY <1>7, <2>1 DEF PacketIn
    <3>2. Same /\ packet'.where = "channel"
      BY <1>1, <3>1 DEF Packets
    <3>3. SUFFICES ASSUME packet.class # "manage"
                   PROVE  AtStop /\ PutsOutAt(channel'[packet.at], x)
      BY <1>3, <3>2 DEF OnRoute, SentOn
    <3>4. AtStop
      BY <2>1, <3>3 DEF OnRoute
    <3>5. packet.class = "arp" => ~packet.answer
      BY <3>4 DEF Stop
    <3>6. PutsOutAt(answer, x)
      BY <2>1, <3>3, <3>5, AnsweredOnward
    <3>7. PutsOutAt(channel[packet.at], x)
      BY <1>1, <1>2, <2>1 DEF NoPacketIn, PutsOutAt
    <3>8. PICK y \in 0..4, q \in LearnedRules(packet.at) :
            answer \in {<<packet_out(y)>>, <<add_flow(q), packet_out(y)>>}
      BY <1>1, <2>1, AnswerFacts
    <3>9. q \in RulesFor(packet.at)
      BY <3>8 DEF RulesFor
    <3>10. add_flow(q) \in MessagesFor(packet.at) /\ packet_out(y) \in MessagesFor(packet.at)
      BY <3>8, <3>9 DEF MessagesFor
    <3>11. channel'[packet.at] \in {channel[packet.at], channel[packet.at] \o answer}
      BY <1>1, <3>1, SentTo
    <3> HIDE DEF answer, x
    <3>12. answer \in Seq(MessagesFor(packet.at))
      BY <3>8, <3>10, ShortSequences
    <3>13. PutsOutAt(channel[packet.at] \o answer, x)
      BY <1>1, <3>6, <3>7, <3>12, PutsOutSent
    <3> QED
      BY <3>4, <3>7, <3>11, <3>13
  <2>2. CASE ~(answer # Nothing /\ packet.where = "controller")
    <3>1. \/ packet' = [packet EXCEPT !.where = "arrived"]
          \/ packet' = [packet EXCEPT !.where = "lost"]
      BY <1>7, <2>2 DEF PacketIn
    <3>2. packet'.where \in {"arrived", "lost"}
      BY <1>1, <3>1 DEF Packets
    <3> QED
      BY <3>2 DEF OnRoute, SentOn
  <2> QED
    BY <2>1, <2>2
<1>8. ASSUME NEW s \in Switches, Process(s)
      PROVE  OnRoute' /\ SentOn'
  <2> DEFINE m == Head(channel[s])
  <2>1. /\ channel[s] # <<>> /\ channel[s] \in Seq(MessagesFor(s))
        /\ packet' = IF m.op = "packet" THEN PutOut(s, m.port) ELSE packet
        /\ channel'[s] = Tail(channel[s])
        /\ \A d \in Switches : d # s => channel'[d] = channel[d]
    BY <1>1, <1>8 DEF Process
  <2>2. CASE m.op = "packet"
    <3>1. packet.where = "channel" /\ packet.at = s
      <4>1. 1 \in DOMAIN channel[s] /\ channel[s][1] = m
        BY <2>1
      <4> QED
        BY <2>2, <4>1 DEF PacketInOnePlace
    <3>2. packet' = PutOut(packet.at, m.port)
      BY <2>1, <2>2, <3>1
    <3>3. packet'.where \in {"switch", "arrived"} /\ packet'.class = packet.class
      BY <1>1, <3>2, PutOutTyped
    <3>4. SUFFICES ASSUME packet.class # "manage", packet'.where = "switch"
                   PROVE  Stop(packet')
      BY <3>3 DEF OnRoute, SentOn
    <3>5. AtStop
      BY <3>1, <3>4 DEF OnRoute
    <3>6. PutsOutAt(channel[s], x)
      BY <3>1, <3>4 DEF SentOn
    <3>7. m.port = x
      <4> HIDE DEF x
      <4> QED
        BY <2>1, <2>2, <3>6, PutsOutProcessed
    <3>8. packet.class # "arp_unknown"
      BY <3>1 DEF PacketInOnePlace
    <3> QED
      BY <3>2, <3>4, <3>5, <3>7, <3>8, NextStop
  <2>3. CASE m.op # "packet"
    <3>1. packet' = packet
      BY <2>1, <2>3
    <3>2. ASSUME NEW y, PutsOutAt(channel[packet.at], y)
          PROVE  PutsOutAt(channel'[packet.at], y)
      BY <1>1, <2>1, <3>2, PutsOutProcessed
    <3> QED
      BY <3>1, <3>2 DEF OnRoute, SentOn, Stop, Onward, Address
  <2> QED
    BY <2>2, <2>3
<1>9. ASSUME NEW s \in Switches, Leave(s)
      PROVE  OnRoute' /\ SentOn'
  <2>1. /\ Same
        /\ \/ packet'.where = packet.where /\ packet'.admitted = packet.admitted
           \/ packet'.where \in {"lost", "orphaned"}
        /\ packet.at = s => packet'.where # "channel"
    BY <1>1, <1>9 DEF Leave, Packets
  <2>2. packet.at # s => channel'[packet.at] = channel[packet.at]
    BY <1>1, <1>9 DEF Leave
  <2>3. Stop(packet') <=> Stop(packet)
    BY <2>1 DEF Stop
  <2> QED
    BY <1>3, <2>1, <2>2, <2>3 DEF OnRoute, SentOn
<1>10. CASE Command
  <2>1. PICK ms : /\ channel' = Sent(ms)
                  /\ \A s \in Switches : ms[s] \in Seq(MessagesFor(s)) /\ NoPacketIn(ms[s])
    BY <1>10, CommandChannel DEF NoPacketIn
  <2>2. packet' = packet
    BY <1>10, CommandSends
  <2>3. ASSUME NEW y, PutsOutAt(channel[packet.at], y)
        PROVE  PutsOutAt(channel'[packet.at], y)
    <3>1. /\ channel[packet.at] \in Seq(MessagesFor(packet.at))
          /\ ms[packet.at] \in Seq(MessagesFor(packet.at)) /\ PutsOutAt(ms[packet.at], y)
      BY <1>1, <2>1 DEF NoPacketIn, PutsOutAt
    <3>2. PutsOutAt(channel[packet.at] \o ms[packet.at], y)
      BY <2>3, <3>1, PutsOutSent
    <3>3. channel'[packet.at] \in {channel[packet.at], channel[packet.at] \o ms[packet.at]}
      BY <1>1, <2>1 DEF Sent
    <3> QED
      BY <2>3, <3>2, <3>3
  <2> QED
    BY <2>2, <2>3 DEF OnRoute, SentOn, Stop, Onward, Address
<1>11. CASE (\E ip \in {"srv", "h1", "probe"} : Idle(ip)) \/ (\E s \in MayLeave : Return(s))
              \/ UNCHANGED vars
  BY <1>4, <1>11 DEF Idle, Return, vars, forwarding_vars, switch_vars
<1> QED
  BY <1>5, <1>6, <1>7, <1>8, <1>9, <1>10, <1>11, DataPlaneAssumption
     DEF Next, DataPlaneAssumption

\* The rules that must be in place, by switch.
Standing(s) ==
  {Trunk(port) : port \in trunk_ports[s]} \union (IF s = 4 THEN Replies ELSE {}) \union {Report}

\* They are installed, and no message removes one.
LEMMA StandingInstalled ==
  ASSUME NEW s \in Switches
  PROVE  Standing(s) \subseteq Installed(s)
<1>1. {Trunk(port) : port \in trunk_ports[s]} \subseteq PolicyTable(s)
  BY DEF PolicyTable, Trunk
<1>2. s = 4 => Replies \subseteq PolicyTable(s)
  <2>1. "srv" \in {h \in Hosts : arp_table[h][1] = 4} /\ arp_table["srv"][2] = 1
    BY DEF Hosts, arp_table
  <2>2. s = 4 => Pass(100, {In(1), IP, L4("reply")}) \in PolicyTable(s)
    <3> DEFINE zone(h) == IF h = "srv" THEN Pass(100, {In(arp_table[h][2]), IP, L4("reply")})
                          ELSE UserZone(arp_table[h][2])
    <3>1. zone("srv") = Pass(100, {In(1), IP, L4("reply")})
      BY <2>1
    <3>2. {zone(h) : h \in {h \in Hosts : arp_table[h][1] = s}} \subseteq PolicyTable(s)
      BY DEF PolicyTable
    <3> HIDE DEF zone
    <3> QED
      BY <2>1, <3>1, <3>2
  <2>3. Pass(400, {IP, Dst("probe")}) \in PolicyTable(s)
    BY DEF PolicyTable
  <2> QED
    BY <2>2, <2>3 DEF Replies
<1> QED
  BY <1>1, <1>2 DEF Standing, Installed, Report

\* ... whatever the message.
LEMMA StandingStays ==
  ASSUME NEW s \in Switches, NEW m \in MessagesFor(s), NEW r \in Standing(s), NEW T, r \in T
  PROVE  r \in Processed(T, m)
<1>1. /\ r.table \in {"policy", "forward"} /\ r.priority \in {0, 100, 400, 65535}
      /\ r.table = "policy" => r.priority # 0
      /\ r.table = "forward" => r.priority = 0 /\ r.match = {}
      /\ r.to # "meter"
      /\ L4("service") \notin r.match /\ L4("manage") \notin r.match
  BY FieldsApart
     DEF Standing, Trunk, Replies, Report, Pass, Rule, In, IP, Dst, L4
<1>2. ASSUME NEW q \in RulesFor(s)
      PROVE  /\ q.table = "policy" => /\ q.priority \in {200, 300}
                                      /\ L4("service") \in q.match \/ L4("manage") \in q.match
             /\ q.table = "forward" => q.priority # 0 /\ q.match # {}
  <2>1. CASE q \in LearnedRules(s)
    BY <2>1 DEF LearnedRules, Learned, Rule
  <2>2. CASE q \in AccessRules \/ \E d : q = Bypass(d)
    BY <2>2, RulesApart DEF AccessRules
  <2> QED
    BY <2>1, <2>2 DEF RulesFor
<1>3. CASE m \in {add_flow(q) : q \in RulesFor(s)}
  BY <1>1, <1>2, <1>3 DEF Processed, add_flow
<1>4. CASE m \in {delete_flow(q.table, q.match) : q \in RulesFor(s)}
  BY <1>1, <1>2, <1>4 DEF Processed, delete_flow, Deleted
<1>5. CASE \E port \in UserPorts : m \in {delete_flow("police", {In(port)}),
                                          delete_flow("forward", {In(port)}), delete_meter(port)}
  BY <1>1, <1>5 DEF Processed, delete_flow, delete_meter, Deleted
<1>6. CASE \E port : m = packet_out(port)
  BY <1>6 DEF Processed, packet_out
<1> QED
  BY <1>3, <1>4, <1>5, <1>6 DEF MessagesFor

\* RulesInPlace says that they are there.
LEMMA InPlace ==
  RulesInPlace <=> \A s \in up : Standing(s) \subseteq table[s]
  BY DEF RulesInPlace, Standing

\* So they stay in place: what a stopped switch has lost is installed again
\* before the controller takes it for connected.
LEMMA InPlaceStep ==
  ASSUME Typed, RulesInPlace, [Next]_vars
  PROVE  RulesInPlace'
<1>1. /\ DOMAIN table = Switches /\ DOMAIN channel = Switches /\ up \subseteq Switches
      /\ \A s \in Switches : channel[s] \in Seq(MessagesFor(s))
  BY DEF Typed
<1>2. \A s \in up : Standing(s) \subseteq table[s]
  BY InPlace
<1> SUFFICES \A s \in up' : Standing(s) \subseteq table'[s]
  BY InPlace DEF RulesInPlace, Standing
<1>3. CASE UNCHANGED <<table, up>>
  BY <1>2, <1>3
<1>4. ASSUME NEW d \in Switches, Process(d), NEW s \in up'
      PROVE  Standing(s) \subseteq table'[s]
  <2>1. s \in up /\ s \in Switches
    BY <1>1, <1>4 DEF Process
  <2>2. CASE s = d
    <3>1. /\ Head(channel[s]) \in MessagesFor(s)
          /\ table'[s] = Processed(table[s], Head(channel[s]))
      BY <1>1, <1>4, <2>2 DEF Process
    <3> QED
      BY <1>2, <2>1, <3>1, StandingStays
  <2>3. CASE s # d
    BY <1>1, <1>2, <1>4, <2>1, <2>3 DEF Process
  <2> QED
    BY <2>2, <2>3
<1>5. ASSUME NEW ip, Idle(ip), NEW s \in up'
      PROVE  Standing(s) \subseteq table'[s]
  <2>1. /\ up' = up /\ s \in Switches
        /\ \A r \in table[s] : r.priority # 10 => r \in table'[s]
    BY <1>1, <1>5 DEF Idle
  <2>2. \A r \in Standing(s) : r.priority # 10
    BY DEF Standing, Trunk, Replies, Report, Pass, Rule
  <2> QED
    BY <1>2, <2>1, <2>2
<1>6. ASSUME NEW d \in MayLeave, Leave(d), NEW s \in up'
      PROVE  Standing(s) \subseteq table'[s]
  BY <1>1, <1>2, <1>6 DEF Leave
<1>7. ASSUME NEW d \in MayLeave, Return(d), NEW s \in up'
      PROVE  Standing(s) \subseteq table'[s]
  <2>1. d \in Switches
    BY DataPlaneAssumption DEF DataPlaneAssumption
  <2> QED
    BY <1>1, <1>2, <1>7, <2>1, StandingInstalled DEF Return
<1>8. CASE Enter \/ Cross \/ PacketIn \/ Command \/ UNCHANGED vars
  <2>1. UNCHANGED <<table, up>>
    BY <1>8, CommandSends DEF Enter, Cross, PacketIn, vars, forwarding_vars, switch_vars
  <2> QED
    BY <1>3, <2>1
<1> QED
  BY <1>4, <1>5, <1>6, <1>7, <1>8 DEF Next

\* What is dropped by the policy, and by the other tables.
LEMMA WhatDrops ==
  ASSUME NEW s \in Switches, NEW r \in Installed(s) \union RulesFor(s)
  PROVE  /\ r.table = "policy" /\ r.to = "drop" => r.priority = 0 \/ L4("noise") \in r.match
         /\ r.table = "police" /\ r.to = "meter" => s = 1 /\ \E port \in UserPorts : In(port) \in r.match
         /\ r.table = "forward" /\ r.to \notin {"output", "controller"} =>
              s = 1 /\ \E port \in UserPorts : In(port) \in r.match
<1>1. CASE r \in PolicyTable(s)
  BY <1>1 DEF PolicyTable, Pass, Deny, UserZone, Rule
<1>2. CASE r \in AccessRules /\ s = 1
  BY <1>2, RulesApart DEF AccessRules
<1>3. CASE r \in LearnedRules(s)
  BY <1>3 DEF LearnedRules, Learned, Rule
<1>4. CASE \E d : r = Bypass(d)
  BY <1>4, RulesApart
<1> QED
  BY <1>1, <1>2, <1>3, <1>4 DEF Installed, RulesFor, Rule

\* A packet that matches a rule meets it or one as good.
LEMMA MetAtLeast ==
  ASSUME NEW s \in Switches, NEW T, T \subseteq Installed(s) \union RulesFor(s),
         NEW p, NEW t, NEW q \in T, q.table = t, q.match \subseteq p
  PROVE  /\ Met(T, t, p) \in T /\ Met(T, t, p).table = t /\ Met(T, t, p).match \subseteq p
         /\ q.priority <= Met(T, t, p).priority
  BY MetIsBest

\* A connected switch passes on what is at a stop of its way.
LEMMA StopPasses ==
  ASSUME Typed, RulesInPlace, Stop(packet), packet.at \in up,
         NEW rule \in Verdicts(table[packet.at], fields \union {In(packet.port)})
  PROVE  rule.to \in {"output", "controller"}
<1> DEFINE s == packet.at
           p == fields \union {In(packet.port)}
           T == table[s]
<1>1. s \in Switches /\ T \subseteq Installed(s) \union RulesFor(s) /\ packet.answer \in BOOLEAN
  BY DEF Typed, Packets
<1>2. /\ <<s, packet.port>> \in IF packet.answer THEN Homeward ELSE Outward
      /\ packet.class \in {"request", "probe"}
  BY DEF Stop
<1>3. L4("noise") \notin p
  BY <1>2 DEF fields, Question, Answer, IP, Src, Dst, L4, In
<1>4. s = 1 => \A port \in UserPorts : In(port) \notin p
  <2>1. s = 1 => packet.port = 3
    BY <1>2 DEF Homeward, Outward
  <2>2. \A port : In(port) \notin fields
    BY <1>2 DEF fields, Question, Answer, IP, Src, Dst, L4, In
  <2>3. \A port \in UserPorts : In(port) # In(3)
    BY DEF UserPorts, In
  <2> QED
    BY <2>1, <2>2, <2>3
<1>5. \E q \in T : q.table = "policy" /\ q.match \subseteq p /\ 100 <= q.priority
  <2>1. CASE <<s, packet.port>> # <<4, 1>>
    <3>1. packet.port \in trunk_ports[s]
      BY <1>2, <2>1 DEF Homeward, Outward, trunk_ports
    <3>2. Trunk(packet.port) \in T
      BY <3>1 DEF RulesInPlace
    <3> QED
      BY <3>2 DEF Trunk, Pass, Rule
  <2>2. CASE <<s, packet.port>> = <<4, 1>>
    <3>1. Replies \subseteq T /\ packet.answer /\ In(1) \in p
      BY <1>2, <2>2 DEF RulesInPlace, Outward
    <3>2. CASE packet.class = "probe"
      <4>1. IP \in p /\ Dst("probe") \in p
        BY <3>1, <3>2 DEF fields, Answer
      <4> QED
        BY <3>1, <4>1 DEF Replies, Pass, Rule
    <3>3. CASE packet.class = "request"
      <4>1. IP \in p /\ L4("reply") \in p
        BY <3>1, <3>3 DEF fields, Answer
      <4> QED
        BY <3>1, <4>1 DEF Replies, Pass, Rule
    <3> QED
      BY <1>2, <3>2, <3>3
  <2> QED
    BY <2>1, <2>2
<1>6. Report \in T /\ Report.table = "forward" /\ Report.match \subseteq p
  BY DEF RulesInPlace, Report, Rule
<1>7. PICK q \in T : q.table = "policy" /\ q.match \subseteq p /\ 100 <= q.priority
  BY <1>5
<1> HIDE DEF p, s, T
<1>8. /\ Met(T, "policy", p) \in T /\ Met(T, "policy", p).table = "policy"
      /\ Met(T, "policy", p).match \subseteq p /\ q.priority <= Met(T, "policy", p).priority
  BY <1>1, <1>7, MetAtLeast
<1>9. Met(T, "policy", p).to # "drop"
  <2> DEFINE r == Met(T, "policy", p)
  <2>1. /\ r.priority \in {0, 10, 20, 100, 200, 300, 350, 400, 500, 65535}
        /\ q.priority \in {0, 10, 20, 100, 200, 300, 350, 400, 500, 65535}
    BY <1>1, <1>7, <1>8, RuleParts
  <2>2. r.priority # 0
    BY <1>7, <1>8, <2>1
  <2> QED
    BY <1>1, <1>3, <1>8, <2>2, WhatDrops
<1>10. Met(T, "police", p).to # "meter"
  <2>1. \/ Met(T, "police", p) = NoMatch("police")
        \/ /\ Met(T, "police", p) \in T /\ Met(T, "police", p).table = "police"
           /\ Met(T, "police", p).match \subseteq p
    BY <1>1, MetIsBest
  <2> QED
    BY <1>1, <1>4, <2>1, WhatDrops DEF NoMatch, Rule
<1>11. /\ Met(T, "forward", p) \in T /\ Met(T, "forward", p).table = "forward"
       /\ Met(T, "forward", p).match \subseteq p
  <2> HIDE DEF Report
  <2> QED
    BY <1>1, <1>6, MetAtLeast
<1>12. Met(T, "forward", p).to \in {"output", "controller"}
  BY <1>1, <1>4, <1>11, WhatDrops
<1>13. rule \in Verdicts(T, p)
  BY DEF T, p, s
<1> QED
  BY <1>9, <1>10, <1>12, <1>13 DEF Verdicts

\* The controller answers, or consumes, everything that it is shown on its way.
LEMMA StopIsAnswered ==
  ASSUME Typed, packet.class # "manage",
         Stop(packet) \/ (~packet.answer /\ <<packet.at, packet.port>> = Sender(packet.class)),
         packet_in_handler(packet.at, packet.port, fields) = Nothing
  PROVE  fields \intersect {Dst("probe"), ARP} # {}
<1>1. packet.class \in Classes /\ packet.answer \in BOOLEAN /\ packet.at \in Switches
  BY DEF Typed, Packets
<1> SUFFICES ASSUME ARP \notin fields, Address # "probe"
             PROVE  FALSE
  BY FieldsAddress
<1>2. (CHOOSE ip \in Hosts \union {"probe", "mgmt", "nobody"} : Dst(ip) \in fields) = Address
  <2>1. Address \in Hosts \union {"probe", "mgmt", "nobody"}
    BY DEF Address, Hosts, Users
  <2>2. \A ip : Dst(ip) \in fields <=> ip = Address
    BY FieldsAddress
  <2> QED
    BY <2>1, <2>2
<1>3. handle_ipv4(packet.at, packet.port, Address) = Nothing
  <2>1. packet_in_handler(packet.at, packet.port, fields)
          = handle_ipv4(packet.at, packet.port, Address)
    BY <1>2 DEF packet_in_handler
  <2> QED
    BY <2>1
<1>4. packet.class \notin {"arp", "arp_unknown"}
  BY DEF fields, Question, Stop
<1>5. /\ Sender("request") = <<1, 1>> /\ Sender("lateral") = <<1, 1>>
      /\ Sender("probe") = <<1, 0>>
  BY DEF Sender, arp_table
<1>6. Address \in DOMAIN routing_table[packet.at] /\ routing_table[packet.at][Address] # packet.port
  <2>1. /\ \A s \in 1..4 : DOMAIN routing_table[s] = {"h1", "h2", "srv"}
        /\ \A s \in 1..4 : /\ routing_table[s]["h1"] = <<1, 1, 1, 2>>[s]
                           /\ routing_table[s]["srv"] = <<3, 2, 2, 1>>[s]
        /\ routing_table[1]["h2"] = 2
    BY DEF routing_table
  <2>2. CASE packet.class = "lateral"
    BY <1>5, <2>1, <2>2 DEF Stop, Address
  <2>3. CASE packet.class \in {"request", "probe"} /\ ~packet.answer
    BY <1>5, <2>1, <2>3 DEF Stop, Address, Outward
  <2>4. CASE packet.class \in {"request", "probe"} /\ packet.answer
    BY <2>1, <2>4 DEF Stop, Address, Homeward
  <2> QED
    BY <1>1, <1>4, <2>2, <2>3, <2>4 DEF Classes
<1> QED
  BY <1>3, <1>6 DEF handle_ipv4, Nothing

\* Only a switch out of the controller's reach, or whose connection broke while
\* the controller had the packet, loses one that is in.
LEMMA NoLossStep ==
  ASSUME Typed, OnRoute, RulesInPlace, PacketInOnePlace, Next,
         packet.admitted, packet.class # "manage",
         packet.where # "lost", packet'.where = "lost"
  PROVE  packet.at \notin up' \/ packet.where = "orphaned"
<1>1. packet \in Packets
  BY DEF Typed
<1>2. CASE Enter
  BY <1>2 DEF Enter, Entered
<1>3. CASE Cross
  <2> SUFFICES ASSUME packet.at \in up
               PROVE  FALSE
    BY <1>3 DEF Cross, forwarding_vars, switch_vars
  <2>1. PICK rule \in Verdicts(table[packet.at], fields \union {In(packet.port)}) :
          packet' = CASE rule.to = "output" -> PutOut(packet.at, rule.port)
                      [] rule.to = "controller" /\ packet.at \in up ->
                           [packet EXCEPT !.where = "controller", !.admitted = TRUE]
                      [] OTHER -> [packet EXCEPT !.where = "lost"]
    BY <1>3 DEF Cross
  <2>2. Stop(packet)
    BY <1>3 DEF OnRoute, Cross
  <2>3. rule.to \in {"output", "controller"}
    BY <2>2, StopPasses
  <2>4. CASE rule.to = "output"
    <3>1. packet' = PutOut(packet.at, rule.port)
      BY <2>1, <2>4
    <3>2. packet'.where \in {"switch", "arrived"}
      BY <1>1, <3>1, PutOutTyped DEF Packets
    <3> QED
      BY <3>2
  <2>5. CASE rule.to = "controller"
    <3>1. packet' = [packet EXCEPT !.where = "controller", !.admitted = TRUE]
      BY <2>1, <2>5
    <3> QED
      BY <1>1, <3>1 DEF Packets
  <2> QED
    BY <2>3, <2>4, <2>5
<1>4. CASE PacketIn
  <2> SUFFICES ASSUME packet.where = "controller"
               PROVE  FALSE
    BY <1>4 DEF PacketIn
  <2> DEFINE answer == packet_in_handler(packet.at, packet.port, fields)
  <2>1. CASE answer # Nothing
    <3>1. packet' = [packet EXCEPT !.where = "channel"]
      BY <1>4, <2>1 DEF PacketIn
    <3> QED
      BY <1>1, <3>1 DEF Packets
  <2>2. CASE answer = Nothing
    <3>1. fields \intersect {Dst("probe"), ARP} # {}
      BY <2>2, StopIsAnswered DEF OnRoute
    <3>2. packet' = [packet EXCEPT !.where = "arrived"]
      BY <1>4, <2>2, <3>1 DEF PacketIn
    <3> QED
      BY <1>1, <3>2 DEF Packets
  <2> QED
    BY <2>1, <2>2
<1>5. ASSUME NEW s \in Switches, Process(s)
      PROVE  FALSE
  <2>1. CASE packet' = packet
    BY <2>1
  <2>2. CASE packet' = PutOut(s, Head(channel[s]).port)
    <3>1. packet'.where \in {"switch", "arrived"}
      BY <1>1, <2>2, PutOutTyped
    <3> QED
      BY <3>1
  <2> QED
    BY <1>5, <2>1, <2>2 DEF Process
<1>6. ASSUME NEW s \in MayLeave, Leave(s)
      PROVE  packet.at \notin up'
  BY <1>1, <1>6 DEF Leave, Packets
<1>7. CASE Command \/ (\E ip \in {"srv", "h1", "probe"} : Idle(ip))
             \/ (\E s \in MayLeave : Return(s))
  <2>1. packet' = packet
    BY <1>7, CommandSends DEF Idle, Return
  <2> QED
    BY <2>1
<1> QED
  BY <1>2, <1>3, <1>4, <1>5, <1>6, <1>7 DEF Next

\* While routes are switched over, rules expire, drops and limits come and go
\* and switches leave and return, in any number and order: a packet that its
\* first switch let in is lost only by a switch out of the controller's reach,
\* or because the connection over which it was reported broke.
THEOREM NothingIsLostInside == Spec => NoLossInside
<1>1. Init => OnRoute /\ SentOn
  BY DEF Init, OnRoute, SentOn, Entered
<1>2. Typed /\ PacketInOnePlace /\ (OnRoute /\ SentOn) /\ [Next]_vars => (OnRoute /\ SentOn)'
  BY OnRouteStep
<1>3. Init => RulesInPlace
  <2> SUFFICES ASSUME Init
               PROVE  \A s \in up : Standing(s) \subseteq table[s]
    BY InPlace
  <2> QED
    BY StandingInstalled DEF Init, ForwardingInit
<1>4. Typed /\ RulesInPlace /\ [Next]_vars => RulesInPlace'
  BY InPlaceStep
<1>5. Typed /\ PacketInOnePlace /\ (OnRoute /\ SentOn) /\ RulesInPlace /\ [Next]_vars
        => [/\ packet.admitted /\ packet.class # "manage"
            /\ packet.where # "lost" /\ packet'.where = "lost"
            => packet.at \notin up' \/ packet.where = "orphaned"]_vars
  BY NoLossStep
<1> QED
  BY <1>1, <1>2, <1>3, <1>4, <1>5, DataPlaneTyped, PTL DEF Spec, NoLossInside
=============================================================================
