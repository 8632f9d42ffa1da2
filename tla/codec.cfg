SPECIFICATION Spec
CONSTANTS
  MaxRepeated = 3
  Hosts = {"typescript", "swift", "kotlin"}
  Flags <- AllFlags
CHECK_DEADLOCK FALSE
INVARIANTS PagesAgree AndroidAgrees IosAgrees AbsentTakesDefault
