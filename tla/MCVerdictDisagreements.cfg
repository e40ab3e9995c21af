\* The cases of MCVerdict.cfg.
\* Each of these is refuted: one at a time, or TLC stops at the first.
SPECIFICATION Spec
CONSTANTS
  Cases <- MCCases
  Configs <- MCConfigs
  Statuses = {"named", "other", "42001"}
  SyntaxError = "42001"
  NoStatus = "no status"
  Features = {"feature"}
  DataKinds = {"data"}
  MaxRepeats = 2
CHECK_DEADLOCK FALSE
INVARIANT NamedConditionNotMerelyRejected
\* INVARIANT FallenSessionIsNoEvidence
\* INVARIANT DeadSessionIsNoVerdict
