CONSTANTS
  Gateway = "gw"
  Initial <- MCInitial
  Edits <- MCEdits
  Requests <- MCRequests
  CounterSize = 4
  MaxEdits = 2
SPECIFICATION Spec
INVARIANTS   WeightsHonoured SliceFollowsStore
PROPERTY ReloadKeepsState
CHECK_DEADLOCK FALSE
