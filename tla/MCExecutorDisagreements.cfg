\* Two cases with one warmup on an engine with a reset.
\* Each of these is refuted: one at a time, or TLC stops at the first.
CONSTANTS
  f = f
  g = g
  blank = blank
  none = none
  Fixtures <- MCFixtures
  NoFixture = none
  Blank = blank
  Cases <- AllCases
  Probed <- MCProbed
  LoadCosts <- MCCosts
  CfgRepeats = 2
  CfgWarmups = 1
  Budget = 2
  Isolated = TRUE
  ServerSide = FALSE
  SchemaLoader = TRUE
  MaxCases = 2
  MaxWalked = 1
  MaxTried = 1
  MaxProbes = 1
SPECIFICATION Spec
CHECK_DEADLOCK FALSE
INVARIANT RebuiltAfterFatal
\* INVARIANT DeadSessionDiscarded
\* INVARIANT EveryLoadFromEmpty
\* INVARIANT NoWriteLeaks
\* PROPERTY MutatingReloads
\* With Isolated = FALSE, an engine without a reset:
\* PROPERTY MutatingGetsFreshDirectory
