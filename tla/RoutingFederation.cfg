CONSTANTS
  Gateway = "gw"
  Initial <- MCInitial
  Edits <- MCEdits
  Requests <- MCRequests
  CounterSize = 4
  MaxEdits = 1
SPECIFICATION Spec
INVARIANT MembersArePooled
CHECK_DEADLOCK FALSE
