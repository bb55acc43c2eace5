\* Alerts on two ports that can be isolated and on a trunk, no operator, every
\* switch connected.  As in the code: window < cooldown = warning hold <
\* breaker cooldown.
CONSTANTS
  Ports <- MCTwoPorts
  trunk_ports <- MCTrunk
  protected_access_ports = {}
  hosts <- MCOneHost
  hard_whitelist = {}
  Messages <- AutonomyMessages
  NoMessage = NoMessage
  max_commands = 2
  window_sec = 1
  trip_cooldown_sec = 5
  cooldown_sec = 4
  WARNING_HOLD_SEC = 4
  MANUAL_RESTORE_HOLD_SEC = 2
  FlakyDpids = {}
  MaxConns = 1
  Restarts = FALSE
SPECIFICATION FairSpec
INVARIANTS
  TypeOK
  DropsOwned
  MitigationInstalled
  LimitsInstalled
  AnnouncedIsTracked
  NormalPhaseIsTrue
PROPERTIES
  IsolateAnnouncedOnce
  Recovers
