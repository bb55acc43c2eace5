----------------------------- MODULE DataPlane ------------------------------
(***************************************************************************)
(* The network under the controller.  Each switch processes its own        *)
(* channel in order and no barrier orders one switch after another; a      *)
(* packet crosses the network, and waits in the controller's queue where   *)
(* no rule forwards it, while commands are on their way.  One packet is    *)
(* under way at a time: packets meet through the rules they leave behind.  *)
(* The traffic of a behaviour is of one class.                             *)
(***************************************************************************)
EXTENDS Forwarding, SequencesExt

CONSTANTS
  MayLeave,           \* the switches whose connection may break
  MaxCommands         \* bound: defence commands in a behaviour

ASSUME DataPlaneAssumption ==
  /\ MayLeave \subseteq Switches
  /\ MaxCommands \in Nat

VARIABLES
  packet,             \* the packet: where it is, what it is, whether it is the
                      \* server's answer already, whether its first switch let it in
  commanded,          \* what the commands given so far ask for
  left                \* the switches whose connection broke at some time

vars == <<forwarding_vars, packet, commanded, left>>

\* What enters the network from h1: requests to the server, packets for
\* another user and for the management server, ARP requests; and the
\* controller's probe, put into the tables of S1 from no port of it.
Classes == {"request", "lateral", "manage", "arp", "arp_unknown", "probe"}
Sender(class) == IF class = "probe" THEN <<1, 0>> ELSE arp_table["h1"]
Question(class) ==
  CASE class = "request" -> {IP, Src("h1"), Dst("srv"), L4("service")}
    [] class = "lateral" -> {IP, Src("h1"), Dst("h2"), L4("other")}
    [] class = "manage" -> {IP, Src("h1"), Dst("mgmt"), L4("manage")}
    [] class = "arp" -> {ARP, Dst("srv")}
    [] class = "arp_unknown" -> {ARP, Dst("nobody")}
    [] class = "probe" -> {IP, Src("probe"), Dst("srv")}

\* The server answers with the addresses exchanged.
Answer(class) ==
  IF class = "probe" THEN {IP, Src("srv"), Dst("probe")}
  ELSE {IP, Src("srv"), Dst("h1"), L4("reply")}

Entered(class) ==
  [where |-> "switch", at |-> Sender(class)[1], port |-> Sender(class)[2],
   class |-> class, answer |-> FALSE, admitted |-> FALSE]
fields == IF packet.answer THEN Answer(packet.class) ELSE Question(packet.class)

Over == {"arrived", "lost"}     \* nothing happens to the packet any more

\* The packet, put out by switch s at a port.
PutOut(s, port) ==
  LET far == {l \in link : <<s, port>> \in l}
  IN IF far # {}
     THEN LET at == CHOOSE at \in UNION far : at # <<s, port>>
          IN [packet EXCEPT !.where = "switch", !.at = at[1], !.port = at[2],
                            !.admitted = TRUE]
     ELSE IF <<s, port>> = arp_table["srv"] /\ packet.class # "arp"
     THEN [packet EXCEPT !.where = "switch", !.port = port, !.answer = TRUE]
     ELSE [packet EXCEPT !.where = "arrived", !.admitted = TRUE]

Init ==
  /\ ForwardingInit
  /\ packet \in {[Entered(class) EXCEPT !.where = "arrived"] : class \in Classes}
  /\ commanded = [isolated |-> {}, limited |-> {}, rerouted |-> FALSE,
                  given |-> 0]
  /\ left = {}

Enter ==
  /\ packet.where \in Over
  /\ packet' = Entered(packet.class)
  /\ UNCHANGED <<forwarding_vars, commanded, left>>

\* The packet meets the tables of the switch it is at.
Cross ==
  /\ packet.where = "switch"
  /\ \E rule \in Verdicts(table[packet.at], fields \union {In(packet.port)}) :
       packet' = CASE rule.to = "output" -> PutOut(packet.at, rule.port)
                   [] rule.to = "controller" /\ packet.at \in up ->
                        [packet EXCEPT !.where = "controller", !.admitted = TRUE]
                   [] OTHER -> [packet EXCEPT !.where = "lost"]
  /\ UNCHANGED <<forwarding_vars, commanded, left>>

\* The controller's thread takes the packet-in.  Answers to a connection that
\* has ended since go nowhere.
PacketIn ==
  /\ packet.where \in {"controller", "orphaned"}
  /\ LET answer == packet_in_handler(packet.at, packet.port, fields)
         consumed == fields \intersect {Dst("probe"), ARP} # {}
     IN IF answer # Nothing /\ packet.where = "controller"
        THEN /\ channel' = Sent(To(packet.at, answer))
             /\ packet' = [packet EXCEPT !.where = "channel"]
        ELSE /\ packet' = [packet EXCEPT !.where = IF answer = Nothing /\ consumed
                                                   THEN "arrived" ELSE "lost"]
             /\ UNCHANGED channel
  /\ arp_fail_targets' =
       IF packet.class = "arp_unknown"
       THEN arp_fail_targets \union {<<packet.at, packet.port>>} ELSE arp_fail_targets
  /\ UNCHANGED <<table, up, quarantined_hosts, commanded, left>>

\* Switch s processes the next message of its channel.
Process(s) ==
  /\ channel[s] # <<>>
  /\ LET m == Head(channel[s])
     IN /\ table' = [table EXCEPT ![s] = Processed(@, m)]
        /\ packet' = IF m.op = "packet" THEN PutOut(s, m.port) ELSE packet
  /\ channel' = [channel EXCEPT ![s] = Tail(@)]
  /\ UNCHANGED <<up, quarantined_hosts, arp_fail_targets, commanded, left>>

\* No packet for ip passes for the idle_timeout of the rules that packets to
\* it left behind.
Idle(ip) ==
  /\ packet.where \in Over
  /\ table' = [s \in Switches |-> {r \in table[s] : ~(r.priority = 10 /\ Dst(ip) \in r.match)}]
  /\ UNCHANGED <<channel, up, quarantined_hosts, arp_fail_targets, packet, commanded, left>>

\* The connection of s breaks, and what is in it is lost; if s has stopped,
\* its rules are too.
Leave(s) ==
  /\ s \in up
  /\ up' = up \ {s}
  /\ channel' = [channel EXCEPT ![s] = <<>>]
  /\ \E rules \in {table[s], {}} : table' = [table EXCEPT ![s] = rules]
  /\ packet' = IF packet.at # s THEN packet
               ELSE [packet EXCEPT !.where = CASE @ = "channel" -> "lost"
                                               [] @ = "controller" -> "orphaned"
                                               [] OTHER -> @]
  /\ left' = left \union {s}
  /\ UNCHANGED <<quarantined_hosts, arp_fail_targets, commanded>>

\* switch_features_handler, then the datapath is registered.
Return(s) ==
  /\ s \notin up
  /\ up' = up \union {s}
  /\ table' = [table EXCEPT ![s] = @ \union Installed(s)]
  /\ UNCHANGED <<channel, quarantined_hosts, arp_fail_targets, packet, commanded, left>>

\* A command of the defence; isolation and limits are asked for again while
\* they last, and refreshed.
Command ==
  /\ commanded.given < MaxCommands
  /\ \/ /\ reroute_traffic
        /\ commanded' = [commanded EXCEPT !.rerouted = TRUE, !.given = @ + 1]
     \/ /\ restore_reroute_traffic
        /\ commanded' = [commanded EXCEPT !.rerouted = FALSE, !.given = @ + 1]
     \/ /\ isolate_port("h1")
        /\ commanded' = [commanded EXCEPT !.isolated = @ \union {"h1"}, !.given = @ + 1]
     \/ /\ restore_port("h1")
        /\ commanded' = [commanded EXCEPT !.isolated = @ \ {"h1"}, !.given = @ + 1]
     \/ /\ rate_limit_port("h1")
        /\ commanded' = [commanded EXCEPT !.limited = @ \union {"h1"}, !.given = @ + 1]
     \/ /\ unrate_limit_port("h1")
        /\ commanded' = [commanded EXCEPT !.limited = @ \ {"h1"}, !.given = @ + 1]
     \/ /\ quarantine_host("h1") \/ release_host("h1")
        /\ commanded' = [commanded EXCEPT !.given = @ + 1]
  /\ UNCHANGED <<packet, left>>

Next ==
  \/ Enter
  \/ Cross
  \/ PacketIn
  \/ \E s \in Switches : Process(s)
  \/ \E ip \in {"srv", "h1", "probe"} : Idle(ip)
  \/ \E s \in MayLeave : Leave(s) \/ Return(s)
  \/ Command

Spec == Init /\ [][Next]_vars

\* Switches forward and process what they are sent, and the controller's
\* event loop takes what is queued; nothing makes a host send or a switch return.
FairSpec ==
  /\ Spec
  /\ WF_vars(Cross)
  /\ WF_vars(PacketIn)
  /\ \A s \in Switches : WF_vars(Process(s))
=============================================================================
