\* One case from its first rung to its verdict, which is where it stops.
SPECIFICATION Spec
CONSTANTS
  Cases <- MCCases
  Configs <- MCConfigs
  Statuses = {"named", "other", "42001"}
  SyntaxError = "42001"
  NoStatus = "no status"
  Features = {"feature"}
  DataKinds = {"data"}
  MaxRepeats = 2
INVARIANTS
  NothingFromSilence
  DeclarationWeighed
  NamedConditionEarned
PROPERTIES
  ControlOnlyExcuses
CHECK_DEADLOCK FALSE
