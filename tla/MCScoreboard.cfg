\* Two cases, their sums and the exit, which is where the program stops.
SPECIFICATION ScoreSpec
CONSTANTS
  Cases <- MCCases
  Configs <- MCConfigs
  Cites <- MCCites
  Statuses = {"named", "42001"}
  SyntaxError = "42001"
  NoStatus = "no status"
  Features = {"feature"}
  DataKinds = {"data"}
  Items = {"clause", "option", "condition"}
  MaxRepeats = 1
  MaxCases = 2
INVARIANTS
  SumsAreCounts
  ExitTellsTheRun
  AlarmMeansAllPassed
CHECK_DEADLOCK FALSE
