SPECIFICATION Spec
CONSTANTS
  Requests = {r1, r2}
  FailureThreshold = 1
  SuccessThreshold = 1
  Timeout = 1
  MaxConn = 1
  CounterMax = 2
  MaxNow = 1
  MaxReloads = 1
INVARIANTS CapHolds SlotsReturned
PROPERTIES OpenWaits 
