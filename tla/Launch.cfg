SPECIFICATION Spec
CONSTANTS
  Runs = {"r1", "r2"}
  Workers = {1, 2}
  Target <- Forwards
  Scenarios <- Hosts
INVARIANTS NothingStranded StartsFenced
CHECK_DEADLOCK FALSE
