\* Two processes in one window or several, three units of work, three executions.
CONSTANTS
  MaxProcs = 2
  MaxSpent = 3
  MaxExecs = 3
SPECIFICATION Spec
CHECK_DEADLOCK FALSE
INVARIANTS
  SumOfProcesses
PROPERTIES
  FigureNeverFalls
