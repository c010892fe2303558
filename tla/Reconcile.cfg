SPECIFICATION Spec
CONSTANTS
  Keys <- MCKeys
  None = None
  Worlds <- MCWorlds
  BusCapacity = 2
INVARIANTS  AttachedAgrees
PROPERTY AlwaysSettles
CHECK_DEADLOCK FALSE
