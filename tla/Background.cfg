SPECIFICATION FairBackgroundSpec
CONSTANTS
  c1 = c1  c2 = c2  v1 = v1  v2 = v2  x1 = x1  x2 = x2  x3 = x3  x4 = x4
  None = None  NoServer = NoServer
  Calls = {c1, c2}
  Boots = 2
  AgeFloor = 0
  StallBound = 1
  MaxRuns = 2
  PollServers = {v1, v2}
  Sources = {x1, x2, x3, x4}
  FamilyOf <- BoardFamilies
  Windowed = {x2, x4}
  Concurrency = 3
  SegmentSize = 3
  StartInterval = 2
  PollBudget = 2
  MaxWindows = 2
  MaxPollFaults = 1
INVARIANTS FillTypeOK OneFiller OnlyDeathStrands ProviderSpacing OneCappedPoll
PROPERTIES DisplacedStaysOut RequestSettles EverySourcePolled
CHECK_DEADLOCK FALSE
