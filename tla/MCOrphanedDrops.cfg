\* The operator restores H_legit's port while H_attacker's is isolated.
CONSTANTS
  Ports <- MCPorts
  trunk_ports <- MCTrunk
  protected_access_ports <- MCProtected
  hosts <- MCHosts
  hard_whitelist = {}
  Messages <- OtherPortMessages
  NoMessage = NoMessage
  max_commands = 1
  window_sec = 0
  trip_cooldown_sec = 1
  cooldown_sec = 2
  WARNING_HOLD_SEC = 1
  MANUAL_RESTORE_HOLD_SEC = 2
  FlakyDpids = {}
  MaxConns = 1
  Restarts = FALSE
SPECIFICATION Spec
INVARIANTS
  RolledBackWhenNormal
