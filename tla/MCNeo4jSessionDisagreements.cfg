\* The fixture and the calls of MCNeo4jSession.cfg.
\* Each of these is refuted: one at a time, or TLC stops at the first.
CONSTANTS
  LabelSets = {"a", "b"}
  Types = {"e"}
  Ends <- MCEnds
  Fixtures <- MCFixtures
  AnyLanguage = FALSE
  MaxCalls = 3
  MaxLate = 1
SPECIFICATION Spec
CHECK_DEADLOCK FALSE
INVARIANT RefusedByTheServer
\* INVARIANT LoadRebuilds
