SPECIFICATION DaemonSpec
CONSTANTS
  NULL = NULL
  p1 = p1
  p2 = p2
  toolA = toolA
  toolB = toolB
  h1 = h1
  h2 = h2
  Configs <- AllConfigs
  Paths = {p1, p2}
  Inodes = {i1, i2}
  AddrBits = 2
  PortBits = 1
  Nameservers <- Resolver1
  Localhost <- Loopback
  MapCap <- Caps
  Ids = {1, 2}
  Holders = {h1, h2}
  Tools = {toolA, toolB}
  RingCap <- Rings
  Scenes <- AllScenes
INVARIANT TypeOK DecidesAsConfigured NoPartialPolicy AgentsFit MarkerTells WatchedOnce BracketVerdict DispatchesCounted NamesKnown BalancedTells
CHECK_DEADLOCK FALSE
