\* Tables of up to two rows, up to three reports, and small stores.
CONSTANTS
  CellsEqual <- Same
  Text <- MCRendered
  MaxInt = 1000000
  MaxExact = 262144
  NaN = NaN
  TableSet <- MCTableSet
  OptionSet <- MCOptionSet
  ReportSeqs <- MCReportSeqs
  Files <- MCFiles
  DensityFloor = 10
  Stores <- MCStores
  FixtureSet <- MCFixtureSet
  EngineCapabilities <- AllCapabilities
  Identifiers <- MCIdentifiers
  Folded <- MCFolded
  IndexTypes <- MCIndexTypes
  EmptyRel <- MCEmptyRel
  SecondsPerDay = 2
  NanosPerSecond = 2
  MaxCount = 100
SPECIFICATION Spec
CHECK_DEADLOCK FALSE
INVARIANTS
  PassIsDeserved
  FailureIsDeserved
  QueueIsAllFailed
  EveryDecisionCounted
  ErrorIsBounded
  StagedIsFixture
  RefusedForWhatItIs
