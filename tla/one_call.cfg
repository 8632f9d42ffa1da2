SPECIFICATION Spec
CONSTANTS
  Calls <- Matching
  Signals <- ArmedOrAborted
  Deadlines <- Timed
  Breaks = TRUE
  MaxCalls = 1
  MaxRequests = 2
  MaxResponses = 2
  Loopback = FALSE
  MaxFaults = 1
  HandlerCodes <- ThrowInternal
CHECK_DEADLOCK FALSE
INVARIANTS TypeOK NoLostWakeup RequestsInOrder ResponsesInOrder FrameOrder NoStreamLeak
PROPERTIES ServerSilentWhenOver ClientSilentWhenDone ImplementsContract
