CONSTANTS
  country = country
  hostname = hostname
  r1 = r1
  r2 = r2
  loop = loop
  Ids = {1, 2}
  Names <- MCNames
  BlockList = "blacklist"
  Sources <- MCSources
  Hostnames <- MCHostnames
  Size = 8
  Sizes = {1, 2, 4, 8}
  Unlistable = {0, 7}
  ByHand <- MCByHand
  Answers <- MCAnswers
  Requests <- TwoRequests
  Refresher = loop
  MaxClicks = 2
  MaxFails = 1
  MaxRestarts = 1
SPECIFICATION ListsFairSpec
INVARIANT ListsTypeOK
INVARIANT SetsLoad
PROPERTY EveryListTried
CHECK_DEADLOCK FALSE
