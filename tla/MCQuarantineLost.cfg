\* S1 reconnects after an internal-spread quarantine.
CONSTANTS
  Ports <- MCPorts
  trunk_ports <- MCTrunk
  protected_access_ports <- MCProtected
  hosts <- MCHosts
  hard_whitelist = {}
  Messages <- FaultMessages
  NoMessage = NoMessage
  max_commands = 1
  window_sec = 0
  trip_cooldown_sec = 1
  cooldown_sec = 2
  WARNING_HOLD_SEC = 1
  MANUAL_RESTORE_HOLD_SEC = 2
  FlakyDpids = {1}
  MaxConns = 1
  Restarts = FALSE
SPECIFICATION Spec
INVARIANTS
  QuarantineHolds
