\* Two processes, one unit of work, two executions.
\* Each of these is refuted: one at a time, or TLC stops at the first.
CONSTANTS
  MaxProcs = 2
  MaxSpent = 1
  MaxExecs = 2
SPECIFICATION Spec
CHECK_DEADLOCK FALSE
INVARIANT EveryProcessCounted
\* INVARIANT EarlierLifeNotCharged
\* INVARIANT RestoreNotCharged
\* INVARIANT UtilizationOfOneSpan
