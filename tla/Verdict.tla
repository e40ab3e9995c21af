------------------------------- MODULE Verdict -------------------------------
(***************************************************************************)
(* How one case gets its verdict: the skips that come before the engine is *)
(* asked, the executions, judge, and the control statement that may take a *)
(* failure back (run, execute, executeFault, executeClosing, judge and     *)
(* checkParses in runner/runner.go, judgeGenerated in runner/generated.go).*)
(* The engine is whatever answers; Executor is what happens to its graph.  *)
(***************************************************************************)
EXTENDS Integers, FiniteSets

CONSTANTS
  Cases,        \* what Case.Validate lets through, one record per case
  Configs,      \* the run's mode and -challenge, and what the engine declares
  Statuses,     \* the GQLSTATUS codes in play
  SyntaxError,  \* 42001, the one code a walked statement fails on
  NoStatus,     \* no code: the case names none, or the engine reported none
  Features,     \* the optional features a case may require
  DataKinds,    \* the fixture capabilities a fixture may need
  MaxRepeats    \* bound: timed executions of one case

Flags == {"parameters", "multiple-statements", "transactions", "gqlstatus"}
Claims == Flags \cup Features \cup DataKinds
Kinds == {"mandatory", "optional", "condition", "grammar", "performance", "generated"}

CaseType ==
  [ kind         : Kinds,
    unprovokable : BOOLEAN,
    spelled      : BOOLEAN,       \* the corpus has this engine's dialect of it
    scaled       : {"no", "declared", "undeclared"},  \* does the engine declare the limit
    reviewed     : BOOLEAN,       \* a walked statement on the promotion list
    needs        : SUBSET (Claims \ {"gqlstatus"}),
    fixture      : {"none", "sound", "undefined"},
    expect       : {"reject", "error", "accept", "empty", "rows"},
    status       : Statuses \cup {NoStatus},
    also         : SUBSET Statuses,
    contains     : BOOLEAN,       \* expects words in the message
    diagnostic   : BOOLEAN,       \* expects a diagnostic record
    unless       : BOOLEAN,
    limit        : BOOLEAN,
    parses       : BOOLEAN,       \* has a control statement
    route        : {"ordinary", "fault", "closing"},
    restored     : BOOLEAN ]      \* the graph is put back between executions

\* What Case.Validate asks of these fields together; what a fixture needs is
\* derived from the fixture.
WellFormed(c) ==
  /\ c.unless \/ c.limit \/ c.diagnostic => c.expect = "error"
  /\ c.also # {} => c.expect = "error" /\ c.status \in Statuses \ c.also
  /\ ~(c.unless /\ c.limit)
  /\ c.scaled # "no" => c.limit
  /\ c.unprovokable \/ c.parses \/ c.route = "fault" =>
       c.kind = "condition" /\ c.expect = "error"
  /\ c.parses => c.route = "ordinary"
  /\ c.unprovokable => c.route # "fault"
  /\ c.needs \cap DataKinds # {} => c.fixture # "none"

\* A case the walk makes: grammar.Case fills in nothing else.
Walked(c) ==
  c.kind = "generated" =>
    /\ c.expect = "accept" /\ c.needs = {} /\ c.fixture = "none"
    /\ c.route = "ordinary" /\ c.scaled = "no" /\ ~c.unprovokable /\ ~c.restored

ConfigType ==
  [ mode : {"conformance", "compat"}, challenge : BOOLEAN,
    lacks : SUBSET Claims,        \* what the adapter declares absent
    injects : BOOLEAN ]           \* its session is a FaultInjector

ASSUME VerdictAssumption ==
  /\ SyntaxError \in Statuses /\ NoStatus \notin Statuses
  /\ Flags \cap (Features \cup DataKinds) = {} /\ Features \cap DataKinds = {}
  /\ Cases \subseteq {c \in CaseType : WellFormed(c) /\ Walked(c)}
  /\ Configs \subseteq ConfigType
  /\ MaxRepeats \in Nat \ {0}

(***************************************************************************)
(* What comes back from Exec: a table, or an error as AsFailure reads it.  *)
(* A shell that died under the statement is a refusal without a code, as   *)
(* session.fatal of the zu adapter makes it.                               *)
(***************************************************************************)
Answer(how, fatal, table, status, says, record) ==
  [ how |-> how, fatal |-> fatal, table |-> table,
    status |-> status, says |-> says, record |-> record ]
Tables == {"nil", "empty", "wanted", "other"}
Accepted(t) == Answer("accepted", FALSE, t, NoStatus, FALSE, FALSE)
Unheard(how, fatal) == Answer(how, fatal, "nil", NoStatus, FALSE, FALSE)
Answers ==
  {Accepted(t) : t \in Tables}
  \cup {Unheard(how, fatal) : how \in {"timeout", "transport", "unsupported"}, fatal \in BOOLEAN}
  \cup {Answer("refused", fatal, "nil", status, says, record) :
          fatal \in BOOLEAN, status \in Statuses \cup {NoStatus},
          says \in BOOLEAN, record \in BOOLEAN}
NotAsked == Unheard("not asked", FALSE)
CutOff(a) == a.how \in {"timeout", "transport"}

NoSkip == "no skip"
NoEvidence == "none"

VARIABLES
  conf,     \* Config.Mode, Config.Challenge and the adapter's Capabilities
  case,     \* the case run was called with
  at,       \* the rung or the call it is at
  todo,     \* timed executions still to do
  live,     \* e.sess # nil
  last,     \* res and err of the latest timed execution
  control,  \* what the control statement was answered
  r         \* the CaseResult: Outcome, Skip, Evidence, claims in Challenges
asking == <<todo, live, last, control>>
vars == <<conf, case, at, asking, r>>

Rungs == {"provokable", "dialect", "scale", "generated", "parameters",
          "setup-statements", "transactions", "required-feature", "no-gqlstatus",
          "fixture", "fixture-capability"}
Calls == {"session", "load", "plan", "setup", "exec", "restore", "explain", "judge", "control"}
Outcomes == {"pass", "fail", "skip", "error"}
Skips == (Rungs \ {"provokable", "dialect", "scale", "generated", "fixture"}) \cup
         {NoSkip, "not-provokable", "no-dialect", "within-limit", "already-reviewed",
          "no-fault-injection", "feature-present", "semantic-refusal", "unparsed"}
Evidences == {NoEvidence, "rows", "gqlstatus", "message", "accepted", "rejected"}

TypeOK ==
  /\ conf \in Configs /\ case \in Cases
  /\ at \in Rungs \cup Calls \cup {"done"}
  /\ todo \in 0..MaxRepeats /\ live \in BOOLEAN
  /\ last \in Answers \cup {NotAsked} /\ control \in Answers \cup {NotAsked}
  /\ r \in [outcome : Outcomes \cup {"none"}, skip : Skips, evidence : Evidences,
            challenged : SUBSET Claims]

------------------------------------------------------------------------------
Result(outcome, skip, evidence) ==
  [r EXCEPT !.outcome = outcome, !.skip = skip, !.evidence = evidence]
SkipAs(reason) == Result("skip", reason, NoEvidence)
Unmeasured == Result("error", NoSkip, NoEvidence)
Graded(good, evidence) == Result(IF good THEN "pass" ELSE "fail", NoSkip, evidence)
Failed == Result("fail", NoSkip, NoEvidence)

Goto(step) == at' = step /\ UNCHANGED <<conf, case, r>>
Finish(result) == r' = result /\ at' = "done" /\ UNCHANGED <<conf, case>>

\* Which rung a declared absence is looked at on: the SkipReason it causes.
ReasonOf(claim) ==
  CASE claim = "parameters"          -> "parameters"
    [] claim = "multiple-statements" -> "setup-statements"
    [] claim = "transactions"        -> "transactions"
    [] claim = "gqlstatus"           -> "no-gqlstatus"
    [] claim \in Features            -> "required-feature"
    [] OTHER                         -> "fixture-capability"

Declaring == {"parameters", "setup-statements", "transactions",
              "required-feature", "no-gqlstatus", "fixture-capability"}
After == [rung \in Declaring |->
  CASE rung = "parameters"         -> "setup-statements"
    [] rung = "setup-statements"   -> "transactions"
    [] rung = "transactions"       -> "required-feature"
    [] rung = "required-feature"   -> "no-gqlstatus"
    [] rung = "no-gqlstatus"       -> "fixture"
    [] rung = "fixture-capability" -> "session"]

Reports == "gqlstatus" \notin conf.lacks
NamesCode(c) == c.expect = "error" /\ c.status # NoStatus
Needs(c) == c.needs \cup (IF NamesCode(c) /\ ~c.contains THEN {"gqlstatus"} ELSE {})
Absent == Needs(case) \cap conf.lacks
ExpectsFailure(c) == c.expect \in {"error", "reject"}

Fresh == [outcome |-> "none", skip |-> NoSkip, evidence |-> NoEvidence, challenged |-> {}]

Init ==
  /\ conf \in Configs /\ case \in Cases /\ live = FALSE
  /\ at = "provokable" /\ r = Fresh /\ todo = 0 /\ last = NotAsked /\ control = NotAsked

\* run is called with the next case and whatever session the last one left.
Called(c) ==
  /\ case' = c /\ at' = "provokable" /\ r' = Fresh
  /\ todo' = 0 /\ last' = NotAsked /\ control' = NotAsked

------------------------------------------------------------------------------
(* What run looks at before it opens a session. *)

Withdrawn ==
  /\ at = "provokable" /\ UNCHANGED asking
  /\ IF case.unprovokable THEN Finish(SkipAs("not-provokable")) ELSE Goto("dialect")

\* statement
Spelling ==
  /\ at = "dialect" /\ UNCHANGED asking
  /\ IF conf.mode = "compat" /\ ~case.spelled THEN Finish(SkipAs("no-dialect"))
     ELSE Goto("scale")

\* scaled
Sizing ==
  /\ at = "scale" /\ UNCHANGED asking
  /\ IF case.scaled = "undeclared" THEN Finish(SkipAs("within-limit"))
     ELSE Goto("generated")

\* generatedSkip, which no challenge overrides
Reviewing ==
  /\ at = "generated" /\ UNCHANGED asking
  /\ IF case.kind = "generated" /\ ~Reports THEN Finish(SkipAs("no-gqlstatus"))
     ELSE IF case.kind = "generated" /\ case.reviewed THEN Finish(SkipAs("already-reviewed"))
     ELSE Goto("parameters")

\* declared, on the rungs the adapter's declaration is read on: an ordinary run
\* skips, a challenging one notes the claims it overrides and goes on.
\* Mutant ForgetOverridden: it goes on without noting them.
ForgetOverridden(excluded) == r
Overridden(excluded) == [r EXCEPT !.challenged = @ \cup excluded]
Declared ==
  LET excluded == {claim \in Absent : ReasonOf(claim) = at}
  IN  /\ at \in Declaring /\ UNCHANGED asking
      /\ \/ excluded = {} /\ Goto(After[at])
         \/ excluded # {} /\ ~conf.challenge /\ Finish(SkipAs(at))
         \/ /\ excluded # {} /\ conf.challenge
            /\ r' = Overridden(excluded) /\ at' = After[at] /\ UNCHANGED <<conf, case>>

\* Fixtures.Get and Materialize
Fixture ==
  /\ at = "fixture" /\ UNCHANGED asking
  /\ CASE case.fixture = "none"      -> Goto("session")
       [] case.fixture = "sound"     -> Goto("fixture-capability")
       [] case.fixture = "undefined" -> Finish(Unmeasured)

Ladder == Withdrawn \/ Spelling \/ Sizing \/ Reviewing \/ Declared \/ Fixture

------------------------------------------------------------------------------
(* The session, the fixture in it, and how the case is executed. *)

Opening ==
  /\ at = "session" /\ UNCHANGED <<todo, last, control>>
  /\ \/ live' = TRUE /\ Goto(IF case.fixture = "none" THEN "plan" ELSE "load")
     \/ live' = FALSE /\ ~live /\ Finish(Unmeasured)

Loading ==
  /\ at = "load" /\ UNCHANGED <<todo, last, control>>
  /\ \/ live' = live /\ Goto("plan")
     \/ live' = FALSE /\ Finish(Unmeasured)

\* plan and the route: executeFault needs an adapter that can inject one, and
\* it and executeClosing run the statement once.
Planning ==
  /\ at = "plan" /\ UNCHANGED <<live, last, control>>
  /\ IF case.route = "fault" /\ ~conf.injects
     THEN todo' = 1 /\ Finish(SkipAs("no-fault-injection"))
     ELSE /\ todo' \in IF case.route = "ordinary" THEN 1..MaxRepeats ELSE {1}
          /\ Goto("setup")

\* The setup statements, before the first execution and after every restore.
Setup ==
  /\ at = "setup" /\ UNCHANGED <<todo, last, control>>
  /\ \/ live' = live /\ Goto("exec")
     \/ /\ "multiple-statements" \in case.needs
        /\ live' \in {live, FALSE} /\ Finish(Unmeasured)

\* No execution follows the last one, a dead session, a timeout or an answer
\* that the case did not ask to fail.
\* Mutant OneMore: the series is one execution longer.
Futile(a) == a.fatal \/ a.how = "timeout" \/ (a.how # "accepted" /\ ~ExpectsFailure(case))
OneMore(a) == todo = 0 \/ Futile(a)
Stops(a) == todo = 1 \/ Futile(a)

Executing ==
  /\ at = "exec" /\ UNCHANGED control
  /\ \E a \in Answers :
       /\ case.route = "fault" => a.table = "nil"
       /\ last' = a /\ todo' = todo - 1
       /\ live' = (case.route = "ordinary" /\ ~a.fatal)
       /\ Goto(IF case.route # "ordinary" THEN "judge"
               ELSE IF Stops(a) THEN "explain"
               ELSE IF case.restored THEN "restore" ELSE "exec")

\* restore: the graph put back, or the series left where it is.
Restoring ==
  /\ at = "restore" /\ UNCHANGED <<todo, last, control>>
  /\ \/ live' = TRUE /\ Goto("setup")
     \/ live' = FALSE /\ Goto("explain")

\* explain asks a session that is still there, and may lose it.
Explaining ==
  /\ at = "explain" /\ UNCHANGED <<todo, last, control>>
  /\ live' \in {live, FALSE} /\ Goto("judge")

Calling == Opening \/ Loading \/ Planning \/ Setup \/ Executing \/ Restoring \/ Explaining

------------------------------------------------------------------------------
(* The verdict. *)

\* judgeGenerated: only invalid syntax contradicts the grammar.
JudgeGenerated(a) ==
  CASE a.how = "accepted"       -> Graded(TRUE, "accepted")
    [] a.status = SyntaxError   -> Graded(FALSE, "gqlstatus")
    [] a.status = NoStatus      -> SkipAs("no-gqlstatus")
    [] OTHER                    -> SkipAs("semantic-refusal")

\* judgeError: a failure that was supposed to happen.
\* Mutant AnyCode: any code will do.
AnyCode(a) == a.status # NoStatus
NamesIt(a) ==
  \/ a.status = case.status /\ (case.diagnostic => a.record)
  \/ a.status \in case.also
JudgeError(a) ==
  LET coded == NamesCode(case) /\ Reports
  IN  IF coded /\ a.status # NoStatus THEN Graded(NamesIt(a), "gqlstatus")
      ELSE IF case.contains THEN Graded(a.says, "message")
      ELSE IF coded THEN Graded(FALSE, "gqlstatus")
      ELSE Graded(TRUE, "rejected")

\* What the case expects of an answer the engine did give.
JudgeExpected(a) ==
  CASE case.expect = "reject" -> IF a.how = "accepted" THEN Failed ELSE Graded(TRUE, "rejected")
    [] case.expect = "error"  ->
         IF a.how # "accepted" THEN JudgeError(a)
         ELSE IF case.unless THEN SkipAs("feature-present")
         ELSE IF case.limit THEN SkipAs("within-limit")
         ELSE Failed
    [] case.expect = "accept" -> IF a.how = "accepted" THEN Graded(TRUE, "accepted") ELSE Failed
    [] case.expect = "empty"  ->
         IF a.how = "accepted" /\ a.table \in {"nil", "empty"} THEN Graded(TRUE, "rows") ELSE Failed
    [] case.expect = "rows"   ->
         IF a.how = "accepted" /\ a.table = "wanted" THEN Graded(TRUE, "rows") ELSE Failed

\* judge.  Mutant BrokenIsAnswer: a broken transport is read as an answer.
BrokenIsAnswer(a) == a.how = "timeout"
Silent(a) == CutOff(a)
Judgement(a) ==
  CASE a.how = "unsupported"       -> SkipAs("fixture-capability")
    [] Silent(a)                   -> Unmeasured
    [] OTHER -> IF case.kind = "generated" THEN JudgeGenerated(a) ELSE JudgeExpected(a)

Judging ==
  /\ at = "judge" /\ UNCHANGED <<asking, conf, case>>
  /\ r' = Judgement(last)
  /\ at' = IF case.route = "ordinary" THEN "control" ELSE "done"

\* checkParses: a wrong code is a failure only of an engine that can parse the
\* shape, and the control statement is how that is found out.
\* Mutant AlwaysAsk: the control is put although the case did not fail.
AlwaysAsk == case.parses /\ live
Disputed ==
  /\ case.parses /\ conf.mode = "conformance"
  /\ r.outcome = "fail" /\ r.evidence = "gqlstatus" /\ live
Controlling ==
  /\ at = "control" /\ UNCHANGED <<todo, last>>
  /\ \/ ~Disputed /\ UNCHANGED <<live, control>> /\ Finish(r)
     \/ /\ Disputed
        /\ \E a \in Answers :
             /\ control' = a /\ live' = (live /\ ~a.fatal)
             /\ Finish(IF a.how = "accepted" \/ CutOff(a) THEN r
                       ELSE [r EXCEPT !.outcome = "skip", !.skip = "unparsed"])

Step == Ladder \/ Calling \/ Judging \/ Controlling

Next == Step
Spec == Init /\ [][Next]_vars

------------------------------------------------------------------------------
(***************************************************************************)
(* Properties                                                              *)
(***************************************************************************)

\* Pass and fail are said of an engine only on an answer it gave: a statement
\* that was never put, a timeout and a broken transport are errors or skips,
\* and a control statement cut off leaves the failure standing.
NothingFromSilence ==
  at = "done" =>
    /\ r.outcome \in {"pass", "fail"} => last.how \in {"accepted", "refused"}
    /\ r.outcome = "pass" => r.evidence # NoEvidence
    /\ CutOff(control) => r.outcome = "fail"

\* Once a session is asked for, every absence the adapter declared that the
\* case runs into has been weighed: believed, and then there is none left, or
\* overridden by a challenge and noted on the result.
DeclarationWeighed ==
  at \in Calls => /\ r.challenged = Absent
                  /\ Absent # {} => conf.challenge

\* An ordinary run passes a case that names a condition only on the condition:
\* its code or one the case permits, with the record the case asks for, or on
\* the words the case accepts instead.
NamedConditionEarned ==
  at = "done" /\ ~conf.challenge /\ NamesCode(case) /\ r.outcome = "pass" =>
    \/ /\ r.evidence = "gqlstatus" /\ last.status \in {case.status} \cup case.also
       /\ last.status = case.status /\ case.diagnostic => last.record
    \/ r.evidence = "message" /\ case.contains /\ last.says

\* The control statement can only excuse: it turns a failure over the code
\* into a skip, and touches no other result.
ControlOnlyExcuses ==
  [][at = "control" /\ r' # r =>
       /\ r.outcome = "fail" /\ r.evidence = "gqlstatus"
       /\ r'.outcome = "skip" /\ control'.how # "accepted"]_vars

------------------------------------------------------------------------------
(* What the code says of itself, and does not keep to. *)

\* "A condition case cannot reach here: one that names a code is skipped
\* before it runs when the engine reports none" (judgeError).
NamedConditionNotMerelyRejected ==
  at = "done" /\ NamesCode(case) /\ r.outcome = "pass" => r.evidence # "rejected"

\* "A control the harness cut off, or a session that fell over under it, is
\* not evidence that the engine cannot parse the shape" (checkParses).
FallenSessionIsNoEvidence ==
  at = "done" /\ control.fatal => r.skip # "unparsed"

\* "Error means the harness could not obtain a verdict: a dead session, a load
\* that failed, a timeout.  It is never counted as a pass or a fail" (Outcome).
DeadSessionIsNoVerdict ==
  at = "done" /\ case.route = "ordinary" /\ last.fatal /\ last.status = NoStatus =>
    r.outcome \notin {"pass", "fail"}
=============================================================================
