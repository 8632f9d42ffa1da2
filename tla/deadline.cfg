SPECIFICATION RuntimeSpec
CONSTANTS
  Calls <- SomePairs
  Signals <- AllSignals
  Deadlines <- TimedOrNot
  Breaks = FALSE
  MaxCalls = 1
  MaxRequests = 1
  MaxResponses = 1
  Loopback = FALSE
  MaxFaults = 1
  HandlerCodes <- ThrowInternal
CHECK_DEADLOCK FALSE
PROPERTIES RejectionFreesHandler DeadlineBoundsUnary
