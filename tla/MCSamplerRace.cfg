\* One fatal answer.
CONSTANTS
  MaxProcs = 1
  MaxSpent = 1
  MaxExecs = 1
SPECIFICATION Spec
CHECK_DEADLOCK FALSE
INVARIANTS
  PollingNeverFails
