\* Four lines waited for, four processes, two loads: two statements with a
\* restart between them, and a load before either.
CONSTANTS
  MaxReads = 4
  MaxBorn = 4
  MaxLoads = 2
SPECIFICATION FairSpec
CHECK_DEADLOCK FALSE
INVARIANTS
  AnswersItsQuestion
  AnsweredFromPromised
  FileUnderShell
PROPERTIES
  CallsReturn
  ReadersEnd
