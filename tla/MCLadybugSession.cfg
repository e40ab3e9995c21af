\* Two resets or loads, of fixtures of no, one or two statements, and the
\* statements between them.
CONSTANTS
  MaxGen = 2
  MaxSerial = 11
  Lengths = {0, 1, 2}
  Occurs <- BeginsWith
SPECIFICATION Spec
CHECK_DEADLOCK FALSE
INVARIANTS
  AnswersItsStatement
  InsideTheGraph
  AnsweredFromPromised
