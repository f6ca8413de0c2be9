CONSTANTS
  input = input
  early = early
  checks = checks
  more = more
  a4 = a4
  a6 = a6
  None = None
  Chains <- MCChains
  ssh = ssh
  web = web
  eth = eth
  wg = wg
  Ifaces <- MCIfaces
  CtStates <- MCCtStates
  Ports <- MCPorts
  V4 <- MCV4
  V6 <- MCV6
  MaxDepth = 2
  Rulesets <- MCRulesets
  Packets <- MCPackets
SPECIFICATION FairSpec
INVARIANT SimTypeOK
 
PROPERTY WalkEnds
CHECK_DEADLOCK FALSE
