\* Five grammars, with a budget of eight levels.
CONSTANTS
  Cut <- MCCut
  Unreachable = 100
  Grammars <- MCGrammars
  Start = "program"
  MaxDepth = 8
  MinTokens = 2
  Attempts = 2
  MaxSteps = 4
  MaxTries = 6
  Guard = 20
SPECIFICATION Spec
CHECK_DEADLOCK FALSE
INVARIANTS
  CostIsShortest
  TailComesBack
  ReducedIsAdmitted
PROPERTIES
  NeverLonger
  GeneratorEnds
