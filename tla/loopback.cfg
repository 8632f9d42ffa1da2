SPECIFICATION Spec
CONSTANTS
  Calls <- AllPairs
  Signals <- Armed
  Deadlines <- Untimed
  Breaks = FALSE
  MaxCalls = 1
  MaxRequests = 2
  MaxResponses = 2
  Loopback = TRUE
  MaxFaults = 1
  HandlerCodes <- ThrowInternal
CHECK_DEADLOCK FALSE
INVARIANTS NoLostWakeup ResponsesInOrder NoStreamLeak
PROPERTIES ServerSilentWhenOver ImplementsContract
