-------------------------- MODULE FeatureExtractor --------------------------
(***************************************************************************)
(* The port statistics of one port and the worker's older mode on them:    *)
(* the counters of the switch, which start again when it does and have     *)
(* been seen to read absurdly, the differences the extractor makes of      *)
(* them, and the two detectors that alert on those.                        *)
(***************************************************************************)
EXTENDS Integers

CONSTANTS
  MaxCount, MaxLag,   \* bounds: packets a counter reaches, ticks between reports
  Absurd,             \* the absurd reading
  max_delta,          \* MAX_PLAUSIBLE_PACKET_DELTA
  min_pps,            \* MIN_ATTACK_PPS
  detect_consecutive, sustained_ticks, warmup

\* The absurd reading is no plausible difference away from any counter.
ASSUME FeatureAssumption ==
  /\ MaxCount \in Nat /\ MaxLag \in Nat /\ max_delta \in Nat /\ min_pps \in Nat
  /\ Absurd \in Nat /\ Absurd > MaxCount + max_delta
  /\ detect_consecutive \in Nat /\ sustained_ticks \in Nat

Large == 2            \* bytes of a large packet; a small one has 1

VARIABLES
  counter,            \* the switch: packets, bytes
  elapsed,            \* ticks since the report that prev is
  prev,               \* _prev of the port: the last report, or NoReading
  streaks,            \* DetectionGuard, StreakGuard
  seen,               \* EwmaDetector._count, up to its warmup
  alert,              \* what the last report was an alert of
  real                \* packets that came since prev, and the number of reports in
                      \* a row behind which there were packets enough for a flood

port_vars == <<counter, elapsed, prev, streaks, seen, alert, real>>

NoReading == [packets |-> -1, bytes |-> -1]
Zero == [packets |-> 0, bytes |-> 0]

PortInit ==
  /\ counter = Zero
  /\ elapsed = 0
  /\ prev = NoReading
  /\ streaks = [flood |-> 0, small |-> 0]
  /\ seen = 0
  /\ alert = "none"
  /\ real = [came |-> 0, floods |-> 0]

\* Up to sustained_ticks is all that is asked.
Longer(n) == IF n < sustained_ticks THEN n + 1 ELSE n

PortTick ==
  /\ elapsed < MaxLag
  /\ \E n \in 0..min_pps, size \in {1, Large} :
       /\ counter.packets + n <= MaxCount
       /\ counter' = [packets |-> counter.packets + n, bytes |-> counter.bytes + n * size]
       /\ real' = [real EXCEPT !.came = @ + n]
  /\ elapsed' = elapsed + 1
  /\ UNCHANGED <<prev, streaks, seen, alert>>

SwitchRestarts ==
  /\ counter' = Zero
  /\ UNCHANGED <<elapsed, prev, streaks, seen, alert, real>>

\* Mutant: only differences below zero are dropped.
MutComparable(d, dt) == dt > 0 /\ d.packets >= 0 /\ d.bytes >= 0

\* update: reports of the same moment, counters that went back and
\* differences that no link can carry are dropped.
Comparable(d, dt) ==
  /\ dt > 0
  /\ d.packets \in 0..max_delta
  /\ d.bytes \in 0..(Large * max_delta)

\* A small packet is one of BPP_ATTACK_MAX at most; no packets are small ones.
SmallPackets(d) == d.bytes <= d.packets
Flooding(d, dt) == d.packets >= min_pps * dt

\* DetectionGuard.observe: small packets, and the model scores them badly.
FloodStreak(d, dt, anomalous) ==
  IF Flooding(d, dt) /\ SmallPackets(d) /\ anomalous THEN Longer(streaks.flood) ELSE 0

\* EwmaDetector.observe counts what it has seen; until its warm-up is over it
\* learns the variance and finds nothing unusual.
WarmedUp == IF seen < warmup THEN seen + 1 ELSE seen

\* SecondaryAttackClassifier.observe: too few small packets for a flood, but
\* after the warm-up far more of them than the moving mean.
SmallStreak(d, dt, rising) ==
  IF rising /\ seen = warmup /\ d.packets > 0 /\ ~Flooding(d, dt) /\ SmallPackets(d)
  THEN Longer(streaks.small) ELSE 0

\* process: the two detectors observe the difference, and a flood goes before
\* what the other says.  The model's score, and whether the rate is far above
\* its mean, are any.  (Reports are seconds apart: MAX_PLAUSIBLE_PPS drops
\* nothing that max_delta has left.)
Observe(d, dt) ==
  \E anomalous, rising \in BOOLEAN :
    LET flood == FloodStreak(d, dt, anomalous)
        small == SmallStreak(d, dt, rising)
    IN /\ streaks' = [flood |-> flood, small |-> small]
       /\ seen' = WarmedUp
       /\ alert' = CASE flood >= detect_consecutive -> "SYN_FLOOD"
                     [] flood < detect_consecutive /\ small >= sustained_ticks -> "SLOW_DDOS"
                     [] OTHER -> IF small >= detect_consecutive THEN "PORT_SCAN" ELSE "none"

\* port_stats_reply_handler, and the worker receives it.  Whatever is read is
\* what the next report is compared with.
PortReport ==
  \E reading \in {counter, [packets |-> Absurd, bytes |-> Absurd]} :
    LET d == [packets |-> reading.packets - prev.packets,
              bytes |-> reading.bytes - prev.bytes]
        compared == prev # NoReading /\ Comparable(d, elapsed)
    IN /\ prev' = reading
       /\ IF compared THEN Observe(d, elapsed)
          ELSE /\ alert' = "none"
               /\ UNCHANGED <<streaks, seen>>
       /\ real' = [came |-> 0,
                   floods |-> IF ~compared THEN real.floods
                              ELSE IF real.came >= min_pps * elapsed
                              THEN Longer(real.floods) ELSE 0]
       /\ elapsed' = 0
       /\ UNCHANGED counter

PortNext == PortTick \/ SwitchRestarts \/ PortReport
=============================================================================
