CONSTANTS
  c1 = c1  c2 = c2  c3 = c3  p1 = p1  p2 = p2  p3 = p3  e1 = e1  e2 = e2
  Ports <- MCPorts
  Services <- MCServices
  Addrs <- MCAddrs
  Conns <- MCConns
  Peers <- MCPeers
  MaxConnections = 2
  HandoffQueue = 1
  MaxUdpSessions = 2
  L4Idle = 2
  UdpIdle = 2
  Domains <- MCDomains
  RetryMax = 48
  Window = 12
  MaxFailed = 5
  MaxSerial = 2
  Files <- MCFiles
  Hosts <- MCHosts
  Worlds <- MCWorlds
SPECIFICATION Spec
CHECK_DEADLOCK FALSE
INVARIANTS L4Routed  CertsSettle StandaloneSound
PROPERTIES StepsKeepLive ChangesAreServed
