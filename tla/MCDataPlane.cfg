\* The whole diamond; a switch of the bypass may leave and return.
CONSTANTS
  Switches <- MCSwitches
  MayLeave = {3}
  MaxCommands = 2
SPECIFICATION FairSpec
INVARIANTS
  TypeOK
  TablesFollowCommands
  ZonesExclusive
PROPERTIES
  NoLossInside
  EverythingEnds
  AdmittedByZone
CHECK_DEADLOCK FALSE
