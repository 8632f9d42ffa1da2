SPECIFICATION Spec
CONSTANTS
  Calls <- SingleRequest
  Signals <- Abortable
  Deadlines <- Untimed
  Breaks = FALSE
  MaxCalls = 2
  MaxRequests = 1
  MaxResponses = 1
  Loopback = FALSE
  MaxFaults = 0
  HandlerCodes <- ThrowInternal
INVARIANTS ResponsesInOrder CancellationHasCause
