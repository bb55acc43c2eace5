\* The breaker stays open longer than the cooldown (15 s, 10 s).
CONSTANTS
  Ports <- MCPorts
  trunk_ports <- MCTrunk
  protected_access_ports <- MCProtected
  hosts <- MCHosts
  hard_whitelist = {}
  Messages <- AttackMessages
  NoMessage = NoMessage
  max_commands = 2
  window_sec = 1
  trip_cooldown_sec = 3
  cooldown_sec = 2
  WARNING_HOLD_SEC = 1
  MANUAL_RESTORE_HOLD_SEC = 2
  FlakyDpids = {}
  MaxConns = 1
  Restarts = FALSE
SPECIFICATION HSpec
PROPERTIES
  NoReleaseUnderAttack
