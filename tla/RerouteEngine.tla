--------------------------- MODULE RerouteEngine ----------------------------
(***************************************************************************)
(* ryu/app/reroute.py: the bypass around the congested switch S2 and the   *)
(* switches that get a flow rule for it.                                   *)
(***************************************************************************)
EXTENDS Topology, Sequences

\* _build_diamond_topology: {u, v} |-> weight.
weight == [link \in {{1, 2}, {1, 3}, {2, 4}, {3, 4}} |->
             IF 3 \in link THEN 2 ELSE 1]

\* Routes without a repeated switch, from 1 to 4 hops long.
Routes(source, target) ==
  {r \in UNION {[1..n -> Dpids] : n \in 1..4} :
     /\ r[1] = source
     /\ r[Len(r)] = target
     /\ \A i, j \in 1..Len(r) : r[i] = r[j] => i = j
     /\ \A i \in 1..(Len(r) - 1) : {r[i], r[i + 1]} \in DOMAIN weight}

\* The total weight of a route.
Cost(r) ==
  LET upTo[i \in 1..Len(r)] ==
        IF i = 1 THEN 0 ELSE upTo[i - 1] + weight[{r[i - 1], r[i]}]
  IN upTo[Len(r)]

\* get_shortest_path: a cheapest route that avoids a set of switches (the
\* ends of the route are never removed from the graph), or <<>>.
get_shortest_path(source, target, avoid) ==
  LET open == {r \in Routes(source, target) :
                 \A i \in 2..(Len(r) - 1) : r[i] \notin avoid}
  IN IF open = {} THEN <<>>
     ELSE CHOOSE r \in open : \A q \in open : Cost(r) <= Cost(q)

compute_reroute_path(source) == get_shortest_path(source, 4, {2})

\* get_path_flow_specs: every switch of the path but the last gets a rule,
\* the intermediate ones before the ingress.
FlowSpecs(path) ==
  IF Len(path) < 2 THEN <<>>
  ELSE [i \in 1..(Len(path) - 1) |->
          IF i = Len(path) - 1 THEN path[1] ELSE path[i + 1]]

\* The switches that reroute_traffic(source_dpid) programs.
SpecDpids ==
  [source \in Dpids |->
     LET specs == FlowSpecs(compute_reroute_path(source))
     IN {specs[i] : i \in DOMAIN specs}]
=============================================================================
