SPECIFICATION Spec
CONSTANTS
  Links = {"port", "electron", "window"}
  Runtime = runtime
  Others = {observer}
  Observed = {"host"}
  MaxFrames = 2
CHECK_DEADLOCK FALSE
INVARIANTS TypeOK HearsWhatIsDue NothingLost ClosedOnce
PROPERTIES HostLearns
