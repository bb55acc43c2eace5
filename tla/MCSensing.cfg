\* The worker with one port: two reports confirm, WATCH clears after 2 ticks,
\* learning resumes after 3, windows of 2 and 3 ticks, a report every tick or
\* every other.  Six ping numbers with answers under way for up to four ticks;
\* a port whose reports may lag; two connections of a client.
CONSTANTS
  Ports <- MCPorts
  Counts <- MCCounts
  base_mean <- MCBase
  Sigma = 1
  floors <- MCFloors
  attack_floors <- MCAttackFloors
  flood_multiplier = 2
  strong_multiplier = 2
  cap_multiplier = 2
  cusum_h = 3
  scan_min = 2
  scan_long_min = 4
  scan_unreach_min = 2
  spread_min = 2
  zone_deny_min = 2
  slow_http_min = 2
  scan_window_sec = 2
  scan_long_window_sec = 3
  confirm_intervals = 2
  watch_clear_sec = 2
  learn_resume_sec = 3
  health_confirm = 2
  health_stale_sec = 0
  server_conn_stale_sec = 0
  SlowCounts = {2}
  Durations = {1}
  MaxGap = 2
  Seqs = 6
  timeout = 2
  MaxDelay = 4
  MaxCount = 7
  MaxLag = 2
  Absurd = 100
  max_delta = 10
  min_pps = 2
  detect_consecutive = 2
  sustained_ticks = 3
  warmup = 2
  Keys = {k1, k2}
  slow_age = 3
  pending_age = 1
SPECIFICATION Spec
INVARIANTS
  HealthIsExact
  FloodsAreReal
  BaselinesBounded
  FloodsAreAlerted
PROPERTIES
  WaitingCounted
  LearnsFromQuietPorts
  AlertsAreConfirmed
