SPECIFICATION Spec
CONSTANTS
  a1 = a1
  a2 = a2
  r1 = r1
  r2 = r2
  c1 = c1
  c2 = c2
  c3 = c3
  c4 = c4
  Addrs <- MCAddrs
  Hosts <- MCAddrs
  Tasks <- MCTasks
  Conns <- MCConns
  Policies <- MCPolicies
  Worlds <- MCWorlds
  MaxPools = 2
  Consecutive5xx = 2
  BaseEjection = 1
  MaxEjection = 2
  ConsecutiveSuccess = 1
  ConsecutiveFailure = 2
  MaxIdleTotal = 1
  MaxIdlePerTarget = 2
  H2PerTarget = 1
   
PROPERTY TimersFire
CHECK_DEADLOCK FALSE
