\* An engine with a reset whose graph lives in the session's directory.
CONSTANTS
  f = f
  g = g
  blank = blank
  none = none
  Fixtures <- MCFixtures
  NoFixture = none
  Blank = blank
  Cases <- AllCases
  Probed <- MCProbed
  LoadCosts <- MCCosts
  CfgRepeats = 2
  CfgWarmups = 1
  Budget = 2
  Isolated = TRUE
  ServerSide = FALSE
  SchemaLoader = TRUE
  MaxCases = 3
  MaxWalked = 1
  MaxTried = 1
  MaxProbes = 1
SPECIFICATION Spec
CHECK_DEADLOCK FALSE
INVARIANTS
  FixtureIsolation
  FirstApplication
  SetupInPlace
  HandleIsLive
  RefusedFixtureNotUsed
