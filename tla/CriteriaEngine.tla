--------------------------- MODULE CriteriaEngine ---------------------------
(***************************************************************************)
(* The decision rules of the AI worker: per access port, the packet counts *)
(* of one report against learned baselines, threats confirmed by           *)
(* consecutive reports, and learning that stops while anything is odd.     *)
(*                                                                         *)
(* Rates are small integers.  A baseline is its mean: the standard         *)
(* deviation is learned, bounded and reset with it and enters the lines as *)
(* the constant Sigma.  EWMA smoothing is the choice, indicator by         *)
(* indicator, to move one unit towards the rate or not at all.             *)
(***************************************************************************)
EXTENDS Integers, FiniteSetsExt

CONSTANTS
  Ports,              \* the ports the engine watches
  base_mean,          \* base_mean[p][ind], learned beforehand; gap is signed
  Sigma,              \* k_sigma standard deviations
  floors, attack_floors,                            \* [ind -> rate]
  flood_multiplier, strong_multiplier, cap_multiplier,
  cusum_h, scan_min, scan_long_min, scan_unreach_min,
  spread_min, zone_deny_min, slow_http_min,
  scan_window_sec, scan_long_window_sec,
  confirm_intervals, watch_clear_sec, learn_resume_sec,
  health_confirm, health_stale_sec, server_conn_stale_sec

Volumes == {"syn", "udp", "icmp"}                   \* relearn_indicators
WATCHED_INDICATORS == Volumes \union {"gap", "fail"}
Threats == {"SYN_FLOOD", "UDP_FLOOD", "ICMP_FLOOD", "SLOW_DDOS", "PORT_SCAN",
            "INTERNAL_SPREAD"}

ASSUME CriteriaAssumption ==
  /\ base_mean \in [Ports -> [WATCHED_INDICATORS -> Int]]
  /\ \A p \in Ports, ind \in WATCHED_INDICATORS \ {"gap"} : base_mean[p][ind] >= 0
  /\ cap_multiplier \in Nat \ {0}
  /\ Sigma \in Nat /\ flood_multiplier \in Nat
  /\ floors \in [WATCHED_INDICATORS -> Nat]
  /\ attack_floors \in [{"udp", "icmp", "gap"} -> Nat]
  /\ confirm_intervals \in Nat \ {0, 1}
  /\ learn_resume_sec \in Nat

NoReport == -1        \* prev_t is None
NoRelearn == -1       \* relearn_until = 0.0

VARIABLES
  st,                 \* st[p]: _PortState, times as ages
  health,             \* the probe: reports in a row that were bad, age of the last
  slow,               \* the server: slow requests by port, age of its report
  last_decisions      \* last_decisions[p]: the last Decision on p

engine_vars == <<st, health, slow, last_decisions>>

Aged(age, limit) == IF age < limit THEN age + 1 ELSE limit
Ages == 0..(scan_long_window_sec - 1)   \* the window: one entry per age of a report
NoCounts == [fails |-> 0, unreach |-> 0, probes |-> 0, arp |-> 0, zone |-> 0]

NoThreat == "none"
NoDecision == [stage |-> "NORMAL", threat |-> NoThreat]

FreshPort(p) ==
  [prev |-> NoReport, mean |-> base_mean[p], cusum |-> 0,
   streaks |-> [t \in Threats |-> 0], window |-> [a \in Ages |-> NoCounts],
   stage |-> "NORMAL", normal_for |-> 0, relearn |-> NoRelearn]

NoHealth == [bad |-> 0, age |-> 0]
NoSlow == [n |-> [p \in Ports |-> 0], age |-> server_conn_stale_sec + 1]

EngineInit ==
  /\ st = [p \in Ports |-> FreshPort(p)]
  /\ health = NoHealth
  /\ slow = NoSlow
  /\ last_decisions = [p \in Ports |-> NoDecision]

line(mean, ind) == Max({mean[ind] + Sigma, floors[ind]})
attack_line(mean, ind) == Max({flood_multiplier * mean[ind], attack_floors[ind]})

\* What a report says per tick, with the two derived indicators.
indicator_rates(c) ==
  [c EXCEPT !.gap = c.syn - c.fin - c.rst, !.fail = c.rst_in + c.unreach_in]

\* Mutant: the approval ends and what was relearned stays.
MutExpired(p) == [st[p] EXCEPT !.relearn = IF @ = 0 THEN NoRelearn ELSE @]

\* The port at the start of _evaluate: an approval whose time is up ends, and
\* the volumes go back to what was learned beforehand.
Expired(p) ==
  IF st[p].relearn # 0 THEN st[p]
  ELSE [st[p] EXCEPT !.relearn = NoRelearn,
          !.mean = [ind \in WATCHED_INDICATORS |->
                      IF ind \in Volumes THEN base_mean[p][ind] ELSE @[ind]]]

\* The window after this report: what is older than the long window (half a
\* report of tolerance) is dropped.  A failure counts when it can answer a
\* probe of this host, two for each.
Recorded(s, r, dt) ==
  LET probes == (r.syn + r.udp) * dt
      entry == [fails |-> Min({r.fail * dt, 2 * probes}),
                unreach |-> Min({r.unreach_in * dt, 2 * probes}),
                probes |-> probes, arp |-> r.arp_fail * dt, zone |-> r.zone_deny * dt]
  IN [a \in Ages |-> IF a = 0 THEN entry
                     ELSE IF 2 * a < 2 * scan_long_window_sec - dt THEN s.window[a]
                     ELSE NoCounts]

\* The excess over the line, added up while it lasts.
Cusum(s, r, dt) ==
  IF r.gap > line(s.mean, "gap")
  THEN Min({s.cusum + (r.gap - line(s.mean, "gap")) * dt, cusum_h}) ELSE 0

slow_requests(p) == IF slow.age <= server_conn_stale_sec THEN slow.n[p] ELSE 0
service_degraded == health.bad >= health_confirm /\ health.age <= health_stale_sec

(***************************************************************************)
(* The rules.  Evidence is a set of triples: a threat, a value, and the    *)
(* line the value has reached; no evidence, no candidate.                  *)
(***************************************************************************)
\* What the reports of the window at most `oldest' ticks old count together.
Total(w, field, oldest) ==
  LET upto[a \in Ages \union {-1}] ==
        IF a < 0 THEN 0 ELSE upto[a - 1] + w[a][field]
  IN upto[oldest]

Given(threat, condition, value, at) ==
  IF condition THEN {<<threat, value, at>>} ELSE {}

Evidence(p, r, dt) ==
  LET s == Expired(p)
      w == Recorded(s, r, dt)
      newest == Max({a \in Ages : 2 * a < 2 * scan_window_sec - dt})
      Recent(field) == Total(w, field, newest)
      Long(field) == Total(w, field, Max(Ages))
      scan ==
        Given("PORT_SCAN", Recent("fails") >= scan_min
                           /\ 2 * Recent("fails") >= Recent("probes"),
              Recent("fails"), scan_min)
        \union Given("PORT_SCAN", Long("fails") >= scan_long_min /\ Recent("fails") > 0,
                     Long("fails"), scan_long_min)
        \union Given("PORT_SCAN", Recent("unreach") >= scan_unreach_min,
                     Recent("unreach"), scan_unreach_min)
      Flood(threat, ind) ==
        Given(threat, r[ind] >= attack_line(s.mean, ind) /\ r[ind] > line(s.mean, ind),
              r[ind], attack_line(s.mean, ind))
  IN UNION
     {scan,
      Given("SLOW_DDOS", slow_requests(p) >= slow_http_min,
            slow_requests(p), slow_http_min),
      Given("INTERNAL_SPREAD", Long("arp") >= spread_min /\ Recent("arp") > 0,
            Long("arp"), spread_min),
      Given("INTERNAL_SPREAD", Recent("zone") >= zone_deny_min,
            Recent("zone"), zone_deny_min),
      Given("SYN_FLOOD", Cusum(s, r, dt) >= cusum_h /\ scan = {},
            r.gap, attack_line(s.mean, "gap")),
      Flood("UDP_FLOOD", "udp"), Flood("ICMP_FLOOD", "icmp")}

Candidates(evidence) == {e[1] : e \in evidence}

\* Mutant: what is confirmed has to be confirmed anew.
MutStartOver(p, candidates) ==
  [t \in Threats |-> IF t \in candidates
                     THEN 1 + (st[p].streaks[t] % confirm_intervals) ELSE 0]

Streaks(p, candidates) ==
  [t \in Threats |-> IF t \in candidates THEN Aged(st[p].streaks[t], confirm_intervals)
                     ELSE 0]

Odd(p, mean, r, candidates) ==
  \/ candidates # {}
  \/ slow_requests(p) > 0
  \/ \E ind \in WATCHED_INDICATORS : r[ind] > line(mean, ind)

Strong(e) == e[2] >= strong_multiplier * e[3]
Strongest(es) == {e \in es : \A f \in es : e[2] * f[3] >= f[2] * e[3]}

(***************************************************************************)
(* Learning.                                                               *)
(***************************************************************************)
Toward(m, x) == IF x > m THEN m + 1 ELSE IF x < m THEN m - 1 ELSE m

\* Baseline.update: between what was learned beforehand and cap times that.
Updated(p, ind, m) ==
  Min({Max({m, base_mean[p][ind]}), cap_multiplier * base_mean[p][ind]})

\* Rates that would be a strong attack are not followed even when approved.
Followable(mean, ind, x) ==
  LET least == IF ind \in DOMAIN attack_floors THEN attack_floors[ind] ELSE floors[ind]
  IN x < strong_multiplier * Max({flood_multiplier * mean[ind], least})

\* The baselines after the report, if the smoothing moves them all or none.
Learned(p, s, r, learning, moves) ==
  [ind \in WATCHED_INDICATORS |->
     LET m == IF moves THEN Toward(s.mean[ind], r[ind]) ELSE s.mean[ind]
         relearned == s.relearn # NoRelearn /\ ind \in Volumes
     IN IF relearned /\ Followable(s.mean, ind, r[ind]) THEN m
        ELSE IF learning /\ ~relearned THEN Updated(p, ind, m)
        ELSE s.mean[ind]]

\* Mutant: what is odd stops the count and does not restart it.
MutNormalFor(s, dt, odd) ==
  IF odd THEN s.normal_for ELSE Min({s.normal_for + dt, learn_resume_sec})
NormalFor(s, dt, odd) ==
  IF odd THEN 0 ELSE Min({s.normal_for + dt, learn_resume_sec})

\* With half a report of tolerance.
Reached(normal_for, sec, dt) == 2 * normal_for >= 2 * sec - dt

(***************************************************************************)
(* _evaluate: the decisions on p, and the port's states after them, that   *)
(* the counts c of the last dt ticks can lead to.                          *)
(***************************************************************************)
Outcomes(p, c, dt) ==
  LET s == Expired(p)
      r == indicator_rates(c)
      evidence == Evidence(p, r, dt)
      candidates == Candidates(evidence)
      seen_for == Streaks(p, candidates)
      confirmed == {e \in evidence : seen_for[e[1]] >= confirm_intervals}
      odd == Odd(p, s.mean, r, candidates)
      normal_for == NormalFor(s, dt, odd)
      learning == ~odd /\ Reached(normal_for, learn_resume_sec, dt)
      threats == IF confirmed = {} THEN {NoThreat}
                 ELSE Candidates(Strongest(confirmed))
      stage == IF confirmed # {}
               THEN IF service_degraded \/ \E e \in confirmed : Strong(e) THEN "DANGER"
                    ELSE "WARNING"
               ELSE IF odd THEN "WATCH"
               ELSE IF Reached(normal_for, watch_clear_sec, dt) THEN "NORMAL" ELSE s.stage
      moved == Learned(p, s, r, learning, TRUE)
      kept == Learned(p, s, r, learning, FALSE)
      Mean(moving) ==
        [ind \in WATCHED_INDICATORS |-> IF ind \in moving THEN moved[ind] ELSE kept[ind]]
  IN [decision : {[stage |-> stage, threat |-> t] : t \in threats},
      port : {[prev |-> 0, mean |-> Mean(moving), cusum |-> Cusum(s, r, dt),
               streaks |-> seen_for, window |-> Recorded(s, r, dt), stage |-> stage,
               normal_for |-> normal_for, relearn |-> s.relearn] :
                moving \in SUBSET {ind \in WATCHED_INDICATORS : moved[ind] # kept[ind]}}]

Evaluate(p, c, dt) ==
  /\ \E o \in Outcomes(p, c, dt) :
       /\ last_decisions' = [last_decisions EXCEPT ![p] = o.decision]
       /\ st' = [st EXCEPT ![p] = o.port]
  /\ UNCHANGED <<health, slow>>

\* update() without a decision: the first report of a port, a counter that
\* went back, or a report as old as the last one.
NotComparable(p) ==
  /\ st' = [st EXCEPT ![p].prev = 0]
  /\ UNCHANGED <<health, slow, last_decisions>>

\* update_health: only whether the last health_confirm reports were all bad,
\* and then the age of the newest, is ever asked.
update_health(degraded) ==
  /\ health' = [bad |-> IF degraded THEN Aged(health.bad, health_confirm) ELSE 0,
                age |-> 0]
  /\ UNCHANGED <<st, slow, last_decisions>>

\* update_server_conns replaces what was known of every client.
update_server_conns(n) ==
  /\ slow' = [n |-> n, age |-> 0]
  /\ UNCHANGED <<st, health, last_decisions>>

approve_relearn(ports, duration) ==
  /\ st' = [p \in Ports |-> IF p \in ports THEN [st[p] EXCEPT !.relearn = duration]
                            ELSE st[p]]
  /\ UNCHANGED <<health, slow, last_decisions>>

\* A tick older; what only the short window reads is forgotten with it.
OlderEntry(e, a) ==
  IF 2 * a < 2 * scan_window_sec - 1 THEN e
  ELSE [e EXCEPT !.unreach = 0, !.probes = 0, !.zone = 0]

\* One tick of the clock the reports are stamped with.
EngineTick ==
  /\ st' = [p \in Ports |->
              [st[p] EXCEPT
                 !.prev = IF @ = NoReport THEN @ ELSE @ + 1,
                 !.window = [a \in Ages |-> IF a = 0 THEN NoCounts
                                             ELSE OlderEntry(@[a - 1], a)],
                 !.relearn = IF @ > 0 THEN @ - 1 ELSE @]]
  /\ health' = IF health.bad < health_confirm THEN health
               ELSE [health EXCEPT !.age = Aged(@, health_stale_sec + 1)]
  /\ slow' = IF slow.age < server_conn_stale_sec THEN [slow EXCEPT !.age = @ + 1]
             ELSE NoSlow
  /\ UNCHANGED last_decisions
=============================================================================
