\* A mutating case that asks for two executions and cannot be restored in time.
CONSTANTS
  f = f
  g = g
  blank = blank
  none = none
  Fixtures <- MCFixtures
  NoFixture = none
  Blank = blank
  Cases <- RepeatedWrites
  Probed <- MCProbed
  LoadCosts <- MCCosts
  CfgRepeats = 2
  CfgWarmups = 1
  Budget = 2
  Isolated = TRUE
  ServerSide = FALSE
  SchemaLoader = TRUE
  MaxCases = 1
  MaxWalked = 1
  MaxTried = 1
  MaxProbes = 1
SPECIFICATION Spec
CHECK_DEADLOCK FALSE
INVARIANTS
  SingleColdSample
