SPECIFICATION Spec
CONSTANTS
  None = None
  Nodes = {n1, n2}
  Fps = {1, 2}
  NodeCap = 2
  Preempt = FALSE
  LateSessions = FALSE
  LateReports = FALSE
  MaxEvents = 3
  
PROPERTIES  Converges
CHECK_DEADLOCK FALSE
