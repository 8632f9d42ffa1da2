SPECIFICATION RuntimeSpec
CONSTANTS
  Calls <- ClientStreamCalls
  Signals <- NoSignal
  Deadlines <- Timed
  Breaks = FALSE
  MaxCalls = 1
  MaxRequests = 1
  MaxResponses = 1
  Loopback = FALSE
  MaxFaults = 0
  HandlerCodes <- ThrowInternal
CHECK_DEADLOCK FALSE
PROPERTY RequestsEndIsHeard
