SPECIFICATION FairSpec
CONSTANTS
  MaxCalls = 1
  MaxLoads = 1
  MaxRequests = 2
  MaxResponses = 2
  Plans <- AllPlans
  Cuts = TRUE
  Newer = {"ios"}
  ShutsDown = TRUE
  Platforms = {"ios", "android"}
CHECK_DEADLOCK FALSE
INVARIANTS TypeOK CancelSilences PartialNeverAnswered ListedIsLive
PROPERTIES ImplementsContract Answered ShutDownEndsTasks
