\* One browser, whose old connection can outlive it on the server; one fault
\* of any kind and two messages at any point.  Quiet once both are spent.
CONSTANTS
  Sockets = {s1, s2}
  Browsers = {b1}
  NoSocket = NoSocket
  Ports <- MCDashPorts
  HighWater = 1
  MaxPending = 1
  MaxMessages = 2
  Faults = {"redis", "connection", "server", "reload"}
  MaxFaults = 1
  Messages <- OneIncident
SPECIFICATION FairSpec
INVARIANTS
  TypeOK
  InSync
  IncidentFollows
  RegistryExact
  LiveStayRegistered
PROPERTIES
  CatchesUp
CHECK_DEADLOCK FALSE
