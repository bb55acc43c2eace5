------------------------ MODULE DataPlaneProperties -------------------------
(***************************************************************************)
(* What the forwarding rules and the commands promise of packets.          *)
(***************************************************************************)
EXTENDS DataPlane

\* Rules, messages and the packet in their ranges; a packet is in a channel
\* exactly when a message carries it.
TypeOK ==
  /\ \A s \in Switches : \A r \in table[s] :
       /\ r.table \in {"policy", "police", "forward"}
       /\ r.to \in {"drop", "next", "controller", "meter", "output"}
  /\ up \subseteq Switches /\ left \subseteq MayLeave
  /\ quarantined_hosts \subseteq Users
  /\ arp_fail_targets \subseteq {arp_table[h] : h \in Hosts}
  /\ packet.where \in Over \union {"switch", "controller", "orphaned", "channel"}
  /\ (packet.where = "channel") =
       (\E s \in Switches : \E i \in DOMAIN channel[s] : channel[s][i].op = "packet")

\* A packet that its first switch let in is not lost on its way, nor is the
\* answer to it, while routes are switched over, rules expire and drops come
\* and go: only a switch out of the controller's reach loses it, or whose
\* connection broke while the controller had the packet.  (There is no route
\* to the management server.)
NoLossInside ==
  [][/\ packet.admitted /\ packet.class # "manage"
     /\ packet.where # "lost" /\ packet'.where = "lost"
     => packet.at \notin up' \/ packet.where = "orphaned"]_vars

\* No packet is forwarded or waits forever.
EverythingEnds == (packet.where \notin Over) ~> (packet.where \in Over)

\* A switch that has processed everything and never left has the rules that
\* the commands so far ask for, and no others: deletions that ignore the
\* priority take nothing that another command owns.
TablesFollowCommands ==
  \A s \in Switches \ left : channel[s] = <<>> =>
    /\ \A h \in {h \in Users : arp_table[h][1] = s} :
         LET port == arp_table[h][2]
         IN /\ (Drop(port) \in table[s]) = (h \in commanded.isolated)
            /\ (Limit(port) \in table[s]) = (h \in commanded.limited)
            /\ (UserZone(port) \in table[s]) = (h \notin quarantined_hosts)
            /\ (QuarantineZone(port) \in table[s]) = (h \in quarantined_hosts)
    /\ s \in R!SpecDpids[1] => (Bypass(s) \in table[s]) = commanded.rerouted

\* At no moment, between any two messages, may a host reach both the server
\* and the management network.
ZonesExclusive ==
  \A h \in Users :
    ~({UserZone(arp_table[h][2]), QuarantineZone(arp_table[h][2])}
        \subseteq table[arp_table[h][1]])

\* What gets in once the switch has processed everything: nothing of an
\* isolated port but what the controller put there, requests only from hosts
\* that are not quarantined, management traffic only from those that are, and
\* nothing to another user.
AdmittedByZone ==
  [][~packet.admitted /\ packet'.admitted /\ packet' # packet
     /\ packet.where = "switch" /\ packet.port # 0 /\ channel[packet.at] = <<>>
     => /\ "h1" \notin commanded.isolated
        /\ packet.class = "request" => "h1" \notin quarantined_hosts
        /\ packet.class = "manage" => "h1" \in quarantined_hosts
        /\ packet.class # "lateral"]_vars
=============================================================================
