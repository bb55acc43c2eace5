\* S1 connects and disconnects, a reconnect can overlap with the old
\* connection, and the controller process is restarted at any point.
CONSTANTS
  Ports <- MCPorts
  trunk_ports <- MCTrunk
  protected_access_ports <- MCProtected
  hosts <- MCHosts
  hard_whitelist = {}
  Messages <- FaultMessages
  NoMessage = NoMessage
  max_commands = 2
  window_sec = 0
  trip_cooldown_sec = 1
  cooldown_sec = 2
  WARNING_HOLD_SEC = 2
  MANUAL_RESTORE_HOLD_SEC = 2
  FlakyDpids = {1}
  MaxConns = 2
  Restarts = TRUE
SPECIFICATION Spec
INVARIANTS
  StagesExclusive
  QuietBeforeRollback
PROPERTIES
  OrphansHaveCause
