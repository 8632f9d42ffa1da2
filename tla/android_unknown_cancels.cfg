SPECIFICATION Spec
CONSTANTS
  MaxCalls = 1
  MaxLoads = 1
  MaxRequests = 2
  MaxResponses = 2
  Plans <- AllPlans
  Cuts = FALSE
  Newer = {"android"}
  ShutsDown = FALSE
  Platforms = {"android"}
CHECK_DEADLOCK FALSE
PROPERTIES UnknownIsIgnored
