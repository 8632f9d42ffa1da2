SPECIFICATION FairSpec
CONSTANTS
  Calls <- AllPairs
  Signals <- Abortable
  Deadlines <- Untimed
  Breaks = FALSE
  MaxCalls = 1
  MaxRequests = 1
  MaxResponses = 2
  Loopback = FALSE
  MaxFaults = 0
  HandlerCodes <- ThrowInternal
PROPERTIES CallsSettle HandlersEnd
