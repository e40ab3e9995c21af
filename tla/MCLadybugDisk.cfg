\* A reset that fails and one that does not.
CONSTANTS
  MaxGen = 2
  MaxSerial = 11
  Lengths = {0, 1, 2}
  Occurs <- BeginsWith
SPECIFICATION Spec
CHECK_DEADLOCK FALSE
INVARIANTS
  DiskIsOneStore
