-------------------------------- MODULE Plan --------------------------------
(***************************************************************************)
(* How many timed executions one case gets and which treatment produced    *)
(* them: repeats, restores and plan in runner/runner.go.  The operators    *)
(* are pure; Executor uses them.                                           *)
(***************************************************************************)
EXTENDS Integers

CONSTANTS
  Fixtures,     \* names of the corpus fixtures
  NoFixture,    \* the empty fixture name: the case needs no data
  CfgRepeats,   \* Config.Repeats after applyDefaults
  CfgWarmups,   \* Config.Warmups after applyDefaults
  Budget        \* Config.MutatingBudget after applyDefaults, in clock ticks

ASSUME PlanAssumption ==
  /\ NoFixture \notin Fixtures
  /\ CfgRepeats \in Nat \ {0}
  /\ CfgWarmups \in Nat
  /\ Budget \in Int \ {0}

Timings == {"series", "restored", "cold-once"}
Shapes == {"plain", "fault", "closing"}

\* The fields of corpus.Case that decide what the executor does to the engine.
\* restore is the *bool of the YAML: unset, or the author's own answer.
CaseType ==
  [ fixture  : Fixtures \cup {NoFixture},
    mutating : BOOLEAN,
    shape    : Shapes,
    setup    : BOOLEAN,
    restore  : {"unset", "yes", "no"},
    repeat   : Nat,
    failing  : BOOLEAN,      \* expectsFailure: the case expects error or reject
    parses   : BOOLEAN ]

\* What Case.Validate lets through of those combinations, and one thing the
\* corpus keeps to although Validate does not ask for it: setup statements
\* write, so a case that has them is marked mutating.
WellFormed(c) ==
  /\ c.restore # "unset" => c.mutating
  /\ c.restore = "yes" => c.fixture # NoFixture
  /\ c.parses => c.failing /\ c.shape = "plain"
  /\ c.shape = "closing" => c.repeat <= 1
  /\ c.setup => c.mutating

RepeatsOf(c) ==
  IF c.repeat > 0 THEN c.repeat ELSE IF c.mutating THEN 1 ELSE CfgRepeats

Restores(c) == c.mutating /\ c.fixture # NoFixture /\ c.restore # "no"

Wanted(c) == IF c.repeat > 0 THEN c.repeat ELSE CfgRepeats

Least(a, b) == IF a < b THEN a ELSE b

\* How many executions the budget pays for when one ingest costs load; the
\* first needs no restore.  An unknown or unmeasurable ingest (0) is free.
Affordable(load, want) == IF load = 0 THEN want ELSE 1 + Budget \div load

\* plan: the number of executions and the treatment, given what the last
\* ingest of the case's fixture cost.
PlanFor(c, load) ==
  LET want == Wanted(c)
      most == Affordable(load, want)
      once == [repeats |-> RepeatsOf(c), timing |-> "cold-once"]
      all  == [repeats |-> RepeatsOf(c), timing |-> "series"]
  IN  IF ~c.mutating THEN all
      ELSE IF ~Restores(c) THEN IF c.fixture = NoFixture THEN once ELSE all
      ELSE IF want <= 1 \/ Budget < 0 \/ most <= 1 THEN once
      ELSE [repeats |-> Least(want, most), timing |-> "restored"]

\* A mutating statement is never warmed up.
\* Mutant WarmEverything: it is, like any other.
WarmEverything(c) == CfgWarmups
WarmupsOf(c) == IF c.mutating THEN 0 ELSE CfgWarmups

\* What the case does to its channel leaves room for one execution only, and
\* executeFault and executeClosing overwrite the plan with that.
Treatment(c, load) ==
  IF c.shape = "plain" THEN PlanFor(c, load)
  ELSE [repeats |-> 1, timing |-> "series"]
=============================================================================
