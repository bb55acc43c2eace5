\* Three commands in a window of 2 ticks, open for 4: window < cooldown, as
\* 2 s < 15 s, and a trip takes four commands in one window.  Three targets;
\* the cooldown of 10 s is four ticks, its half two.
CONSTANTS
  max_commands = 3
  window_sec = 2
  trip_cooldown_sec = 4
  Ports <- MCPorts
  cooldown_sec = 4
SPECIFICATION SafetySpec
INVARIANTS
  GrantBound
  TrialStartsEmpty
  NormalIffNoTarget
  TimerIsNewestTarget
PROPERTIES
  NoFlapping
  CooldownKeepsTargets
  SelfHeals
