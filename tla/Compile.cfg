SPECIFICATION LoopSpec
CONSTANTS
  Keys = {route, gateway, policy}
  Values = {v1, v2}
  Absent = Absent
  MaxWrites = 4
  MaxPanics = 1
INVARIANT NoLostChange
PROPERTY CatchesUp
CHECK_DEADLOCK FALSE
