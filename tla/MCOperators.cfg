\* Alerts of every kind and every operator command, on a protected port and a
\* trunk too, in any order; every switch connected.  The controller implements
\* PortLease: the warning hold is no longer than the cooldown, where alert_age saturates
\* (both 10 s).
CONSTANTS
  Ports <- MCPorts
  trunk_ports <- MCTrunk
  protected_access_ports <- MCProtected
  hosts <- MCHosts
  hard_whitelist = {}
  Messages <- OperatorMessages
  NoMessage = NoMessage
  max_commands = 1
  window_sec = 0
  trip_cooldown_sec = 3
  cooldown_sec = 2
  WARNING_HOLD_SEC = 2
  MANUAL_RESTORE_HOLD_SEC = 4
  FlakyDpids = {}
  MaxConns = 1
  Restarts = FALSE
SPECIFICATION Spec
INVARIANTS
  GuardHolds
PROPERTIES
  HoldRespected
  LeasesKept
