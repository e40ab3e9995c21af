\* An engine without a reset, in a run without warmups, against the abstract
\* promise, with the fairness the executor's one goroutine justifies.
CONSTANTS
  f = f
  g = g
  blank = blank
  none = none
  Fixtures <- MCFixtures
  NoFixture = none
  Blank = blank
  Cases <- AllCases
  Probed <- MCProbed
  LoadCosts <- MCCosts
  CfgRepeats = 2
  CfgWarmups = 0
  Budget = 2
  Isolated = FALSE
  ServerSide = FALSE
  SchemaLoader = TRUE
  MaxCases = 2
  MaxWalked = 1
  MaxTried = 1
  MaxProbes = 1
SPECIFICATION FairSpec
CHECK_DEADLOCK FALSE
INVARIANT RebuiltAfterFatal
PROPERTIES
  ImplementsPristine
  RunEnds
