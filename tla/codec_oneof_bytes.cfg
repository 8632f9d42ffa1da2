SPECIFICATION Spec
CONSTANTS
  MaxRepeated = 1
  Hosts = {"typescript", "swift", "kotlin"}
  Flags <- WithCodecs
CHECK_DEADLOCK FALSE
INVARIANTS OneofIsMapped
