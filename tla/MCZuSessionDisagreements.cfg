\* One statement, with the sampler asking for the process.
\* Each of these is refuted: one at a time, or TLC stops at the first.
CONSTANTS
  MaxReads = 2
  MaxBorn = 2
  MaxLoads = 1
SPECIFICATION Spec
CHECK_DEADLOCK FALSE
INVARIANT PolledDuringStatement
\* INVARIANT ReaderStaysWithItsProcess
