SPECIFICATION Spec
CONSTANTS
  MaxCalls = 2
  MaxLoads = 2
  MaxRequests = 1
  MaxResponses = 1
  Plans <- UnaryCalls
  Cuts = FALSE
  Newer = {}
  ShutsDown = FALSE
  Platforms = {"ios", "android"}
CHECK_DEADLOCK FALSE
INVARIANTS LiveIsListed HearsOwn HearsInOrder ListedIsLive
