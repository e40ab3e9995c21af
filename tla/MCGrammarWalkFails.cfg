\* The one grammar, whose optional part is a choice and nothing of it is in prose;
\* and what the generator says of a walk it was not refused.
CONSTANTS
  Cut <- MCCut
  Unreachable = 100
  Grammars <- MCDelete
  Start = "program"
  MaxDepth = 4
  MinTokens = 2
  Attempts = 2
  MaxSteps = 3
  MaxTries = 4
  Guard = 81
SPECIFICATION Spec
CHECK_DEADLOCK FALSE
INVARIANT WalkNeverFails
