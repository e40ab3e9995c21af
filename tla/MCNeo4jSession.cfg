\* Two label sets with an edge type between them, three calls, and a statement
\* that was given up and goes on.
CONSTANTS
  LabelSets = {"a", "b"}
  Types = {"e"}
  Ends <- MCEnds
  Fixtures <- MCFixtures
  AnyLanguage = FALSE
  MaxCalls = 3
  MaxLate = 1
SPECIFICATION Spec
CHECK_DEADLOCK FALSE
INVARIANTS
  ReportsTheServer
  AnsweredFromFixture
PROPERTIES
  CallsReturn
