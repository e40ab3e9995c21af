--------------------------- MODULE ScoreboardProofs ---------------------------
(***************************************************************************)
(* What a verdict rests on, for every case the corpus may hold, every      *)
(* engine's declaration and every answer; and what is published of a run,  *)
(* for any number of cases, whatever they cite and however they end.       *)
(***************************************************************************)
EXTENDS Scoreboard, FiniteSetTheorems, TLAPS

(***************************************************************************)
(* One case                                                                *)
(***************************************************************************)
\* The reasons a case could have been skipped for on the rungs below this one.
Behind(step) ==
  CASE step \in {"provokable", "dialect", "scale", "generated", "parameters"} -> {}
    [] step = "setup-statements" -> {"parameters"}
    [] step = "transactions"     -> {"parameters", "setup-statements"}
    [] step = "required-feature" -> {"parameters", "setup-statements", "transactions"}
    [] step = "no-gqlstatus"     -> Declaring \ {"no-gqlstatus", "fixture-capability"}
    [] step \in {"fixture", "fixture-capability"} -> Declaring \ {"fixture-capability"}
    [] OTHER -> Declaring

\* On the way up the ladder the claims behind it are the ones overridden.
Weighed ==
  /\ r.challenged \subseteq Absent
  /\ r.challenged # {} => conf.challenge
  /\ at # "done" =>
       r.challenged = {claim \in Absent : ReasonOf(claim) \in Behind(at)}
  /\ at = "fixture-capability" => case.fixture # "none"

\* Nothing is said before judge, and nothing is asked before the engine is.
Unsaid ==
  /\ at \notin {"control", "done"} =>
       r.outcome = "none" /\ r.skip = NoSkip /\ r.evidence = NoEvidence
  /\ at # "done" => control = NotAsked
  /\ at \in Rungs \cup {"session", "load", "plan"} => last = NotAsked
  /\ at \in {"explain", "judge", "restore"} => last # NotAsked
  /\ at \in {"setup", "exec", "restore"} => todo > 0

\* What a result that is about to be handed to the control says already.
Grounded ==
  /\ r.outcome \in {"pass", "fail"} => last.how \in {"accepted", "refused"}
  /\ r.outcome = "pass" => r.evidence # NoEvidence
  /\ ~conf.challenge /\ NamesCode(case) /\ r.outcome = "pass" =>
       \/ /\ r.evidence = "gqlstatus" /\ last.status \in {case.status} \cup case.also
          /\ last.status = case.status /\ case.diagnostic => last.record
       \/ r.evidence = "message" /\ case.contains /\ last.says

IInv ==
  /\ TypeOK /\ Weighed /\ Unsaid /\ Grounded
  /\ at = "control" => r.outcome # "none" /\ case.route = "ordinary"
  /\ CutOff(control) => r.outcome = "fail"

\* A case has the fields of CaseType and keeps to what Validate asks.
LEMMA CaseFields ==
  ASSUME NEW c \in Cases PROVE c \in CaseType /\ WellFormed(c)
BY VerdictAssumption

ResultTypes == [outcome : Outcomes \cup {"none"}, skip : Skips,
                evidence : Evidences, challenged : SUBSET Claims]

\* An answer is told apart from none by what it is.
LEMMA AnswerFields ==
  ASSUME NEW a \in Answers
  PROVE  /\ a.how \in {"accepted", "refused", "timeout", "transport", "unsupported"}
         /\ a.status \in Statuses \cup {NoStatus} /\ a # NotAsked
<1>1. CASE a \in {Accepted(t) : t \in Tables}
  <2>1. PICK t \in Tables : a = Accepted(t) BY <1>1
  <2> QED BY <2>1 DEF Answer, Accepted, Unheard, NotAsked
<1>2. CASE a \in {Unheard(how, fatal) :
                    how \in {"timeout", "transport", "unsupported"}, fatal \in BOOLEAN}
  <2>1. PICK how \in {"timeout", "transport", "unsupported"}, fatal \in BOOLEAN :
          a = Unheard(how, fatal)
    BY <1>2
  <2> QED BY <2>1 DEF Answer, Unheard, NotAsked
<1>3. CASE a \in {Answer("refused", fatal, "nil", status, says, record) :
                    fatal \in BOOLEAN, status \in Statuses \cup {NoStatus},
                    says \in BOOLEAN, record \in BOOLEAN}
  <2>1. PICK fatal \in BOOLEAN, status \in Statuses \cup {NoStatus},
             says \in BOOLEAN, record \in BOOLEAN :
          a = Answer("refused", fatal, "nil", status, says, record)
    BY <1>3
  <2> QED BY <2>1 DEF Answer, Unheard, NotAsked
<1> QED BY <1>1, <1>2, <1>3 DEF Answers

\* No answer is not one that was cut off.
LEMMA NotAskedFields == NotAsked.how = "not asked" /\ ~CutOff(NotAsked)
BY DEF NotAsked, Unheard, Answer, CutOff

\* A result says what it is made of, and keeps the challenges.
LEMMA ResultType ==
  ASSUME r \in ResultTypes, NEW o \in Outcomes, NEW s \in Skips, NEW e \in Evidences
  PROVE  /\ Result(o, s, e) \in ResultTypes
         /\ Result(o, s, e).outcome = o /\ Result(o, s, e).skip = s
         /\ Result(o, s, e).evidence = e /\ Result(o, s, e).challenged = r.challenged
BY DEF ResultTypes, Result

\* A run begins with nothing said, asked or overridden.
LEMMA InitInv == Init => IInv
<1> SUFFICES ASSUME Init PROVE IInv OBVIOUS
<1>1. r \in ResultTypes /\ r.outcome = "none" /\ r.skip = NoSkip
      /\ r.evidence = NoEvidence /\ r.challenged = {}
  BY DEF Init, Fresh, ResultTypes, Skips, Evidences, NoSkip, NoEvidence
<1>2. TypeOK
  <2>1. 0 \in 0..MaxRepeats BY VerdictAssumption
  <2>2. at \in Rungs /\ live \in BOOLEAN BY DEF Init, Rungs
  <2> QED BY <1>1, <2>1, <2>2 DEF Init, TypeOK, ResultTypes
<1>3. Weighed
  <2>1. Behind(at) = {} BY DEF Init, Behind
  <2> QED BY <1>1, <2>1 DEF Init, Weighed
<1>4. Unsaid BY <1>1 DEF Init, Unsaid
<1>5. Grounded BY <1>1 DEF Grounded
<1> QED BY <1>1, <1>2, <1>3, <1>4, <1>5, NotAskedFields DEF Init, IInv

\* Going on from one rung to the next with nothing weighed in between.
LEMMA Climb ==
  ASSUME IInv, at \in Rungs, NEW step \in Rungs \cup {"session"}, Goto(step), UNCHANGED asking,
         {claim \in Absent : ReasonOf(claim) \in Behind(step)} =
           {claim \in Absent : ReasonOf(claim) \in Behind(at)},
         step = "fixture-capability" => case.fixture # "none"
  PROVE  IInv'
<1>1. at # "done" /\ at # "control" /\ step # "done" /\ step # "control"
      /\ step \notin {"explain", "judge", "restore", "setup", "exec"}
  BY DEF Rungs
<1>2. UNCHANGED <<conf, case, r, todo, live, last, control>> /\ at' = step
  BY DEF Goto, asking
<1>3. Absent' = Absent /\ Behind(at)' = Behind(step)
      /\ \A claim : ReasonOf(claim)' = ReasonOf(claim)
  BY <1>2 DEF Absent, Needs, NamesCode, ReasonOf, Behind
<1>4. TypeOK' BY <1>2 DEF IInv, TypeOK, Calls
<1>5. Weighed' BY <1>1, <1>2, <1>3 DEF IInv, Weighed
<1>6. Unsaid' BY <1>1, <1>2 DEF IInv, Unsaid
<1>7. Grounded' BY <1>2 DEF IInv, Grounded, NamesCode
<1> QED BY <1>1, <1>2, <1>4, <1>5, <1>6, <1>7 DEF IInv, CutOff

\* Ending without having judged: nothing is claimed of the engine.
LEMMA Unjudged ==
  ASSUME IInv, at \notin {"control", "done"}, NEW res \in ResultTypes, Finish(res),
         res.outcome \in {"skip", "error"}, res.challenged = r.challenged,
         todo' \in 0..MaxRepeats, live' \in BOOLEAN, UNCHANGED <<last, control>>
  PROVE  IInv'
<1>1. UNCHANGED <<conf, case, last, control>> /\ at' = "done" /\ r' = res
  BY DEF Finish
<1>2. Absent' = Absent
  BY <1>1 DEF Absent, Needs, NamesCode
<1>3. control' = NotAsked
  BY <1>1 DEF IInv, Unsaid
<1>4. TypeOK' BY <1>1 DEF IInv, TypeOK, ResultTypes
<1>5. Weighed' BY <1>1, <1>2 DEF IInv, Weighed
<1>6. Unsaid' BY <1>1 DEF Unsaid, Rungs
<1>7. Grounded' BY <1>1 DEF Grounded
<1> QED BY <1>1, <1>3, <1>4, <1>5, <1>6, <1>7, NotAskedFields DEF IInv

\* From one call of the case to the next.
LEMMA Onward ==
  ASSUME IInv, at \in Calls \ {"control"}, NEW step \in Calls \ {"control"}, Goto(step),
         todo' \in 0..MaxRepeats, live' \in BOOLEAN, last' \in Answers \cup {NotAsked},
         UNCHANGED control,
         step \in {"session", "load", "plan"} => last' = NotAsked,
         step \in {"explain", "judge", "restore"} => last' # NotAsked,
         step \in {"setup", "exec", "restore"} => todo' > 0
  PROVE  IInv'
<1>1. UNCHANGED <<conf, case, r, control>> /\ at' = step BY DEF Goto
<1>2. at # "done" /\ at # "control" /\ step # "done" /\ step # "control"
      /\ at \notin Rungs /\ step \notin Rungs
  BY DEF Calls, Rungs
<1>3. Behind(at) = Declaring /\ Behind(at)' = Declaring
  BY <1>1, <1>2 DEF Behind, Rungs
<1>4. Absent' = Absent /\ \A claim : ReasonOf(claim)' = ReasonOf(claim)
  BY <1>1 DEF Absent, Needs, NamesCode, ReasonOf
<1>5. TypeOK' BY <1>1 DEF IInv, TypeOK
<1>6. Weighed' BY <1>1, <1>2, <1>3, <1>4 DEF IInv, Weighed, Rungs
<1>7. Unsaid' BY <1>1, <1>2 DEF IInv, Unsaid
<1>8. r.outcome = "none" BY <1>2 DEF IInv, Unsaid
<1>9. Grounded' BY <1>1, <1>8 DEF Grounded
<1>10. control' = NotAsked BY <1>1, <1>2 DEF IInv, Unsaid
<1> QED BY <1>1, <1>2, <1>5, <1>6, <1>7, <1>9, <1>10, NotAskedFields DEF IInv

------------------------------------------------------------------------------
\* What a skip or an error on the way is.
LEMMA Ending ==
  ASSUME IInv, NEW reason \in Skips
  PROVE  /\ SkipAs(reason) \in ResultTypes /\ SkipAs(reason).outcome = "skip"
         /\ SkipAs(reason).challenged = r.challenged
         /\ Unmeasured \in ResultTypes /\ Unmeasured.outcome = "error"
         /\ Unmeasured.challenged = r.challenged
<1>1. r \in ResultTypes BY DEF IInv, TypeOK, ResultTypes
<1>2. NoSkip \in Skips /\ NoEvidence \in Evidences BY DEF Skips, Evidences
<1>3. "skip" \in Outcomes /\ "error" \in Outcomes BY DEF Outcomes
<1> QED BY <1>1, <1>2, <1>3, ResultType DEF SkipAs, Unmeasured

\* The rungs that look at nothing the adapter declared.
LEMMA LadderStep == IInv /\ (Withdrawn \/ Spelling \/ Sizing \/ Reviewing \/ Fixture) => IInv'
<1> SUFFICES ASSUME IInv, Withdrawn \/ Spelling \/ Sizing \/ Reviewing \/ Fixture PROVE IInv'
  OBVIOUS
<1>1. UNCHANGED asking /\ at \in Rungs /\ at \notin {"control", "done"}
  BY DEF Withdrawn, Spelling, Sizing, Reviewing, Fixture, Rungs
<1>2. todo' \in 0..MaxRepeats /\ live' \in BOOLEAN /\ UNCHANGED <<last, control>>
  BY <1>1 DEF asking, IInv, TypeOK
<1>3. CASE \E reason \in Skips : Finish(SkipAs(reason))
  BY <1>1, <1>2, <1>3, Ending, Unjudged
<1>4. CASE Finish(Unmeasured)
  <2>1. "parameters" \in Skips BY DEF Skips, Rungs
  <2> QED BY <1>1, <1>2, <1>4, <2>1, Ending, Unjudged
<1>5. CASE at \in {"provokable", "dialect", "scale", "generated"} /\
           \E step \in {"dialect", "scale", "generated", "parameters"} : Goto(step)
  <2>1. PICK step \in {"dialect", "scale", "generated", "parameters"} : Goto(step) BY <1>5
  <2>2. Behind(step) = {} /\ Behind(at) = {} BY <1>5 DEF Behind
  <2> QED BY <1>1, <2>1, <2>2, Climb DEF Rungs
<1>6. CASE at = "fixture" /\ case.fixture = "none" /\ Goto("session")
  <2>1. Behind("session") = Declaring /\ Behind(at) = Declaring \ {"fixture-capability"}
    BY <1>6 DEF Behind
  <2>2. \A claim \in Absent : ReasonOf(claim) # "fixture-capability"
    <3>1. case \in Cases /\ case \in CaseType BY CaseFields DEF IInv, TypeOK
    <3>2. case.needs \cap DataKinds = {} /\ case.needs \subseteq Claims
      BY <1>6, <3>1, CaseFields DEF WellFormed, CaseType
    <3> QED BY <3>2 DEF Absent, Needs, ReasonOf, Claims, Flags
  <2> QED BY <1>1, <1>6, <2>1, <2>2, Climb
<1>7. CASE at = "fixture" /\ case.fixture = "sound" /\ Goto("fixture-capability")
  <2>1. Behind("fixture-capability") = Behind(at) BY <1>7 DEF Behind
  <2> QED BY <1>1, <1>7, <2>1, Climb DEF Rungs
<1>8. {"not-provokable", "no-dialect", "within-limit", "no-gqlstatus", "already-reviewed"}
        \subseteq Skips
  BY DEF Skips, Rungs
<1>9. CASE Withdrawn \/ Spelling \/ Sizing \/ Reviewing
  BY <1>3, <1>5, <1>8, <1>9 DEF Withdrawn, Spelling, Sizing, Reviewing
<1>10. CASE Fixture
  <2>1. case.fixture \in {"none", "sound", "undefined"}
    BY CaseFields DEF IInv, TypeOK, CaseType
  <2> QED BY <1>4, <1>6, <1>7, <1>10, <2>1 DEF Fixture
<1> QED BY <1>9, <1>10

\* A rung of the declaration: the claims of its reason are weighed.
LEMMA DeclaredStep == IInv /\ Declared => IInv'
<1> SUFFICES ASSUME IInv, Declared PROVE IInv' OBVIOUS
<1> DEFINE excluded == {claim \in Absent : ReasonOf(claim) = at}
<1>1. UNCHANGED asking /\ at \in Declaring /\ at \in Rungs /\ at \notin {"control", "done"}
  BY DEF Declared, Declaring, Rungs
<1>2. After[at] \in Rungs \cup {"session"} /\ After[at] # "fixture-capability"
  BY <1>1 DEF After, Declaring, Rungs
<1>3. Behind(After[at]) = Behind(at) \cup {at}
  BY <1>1 DEF After, Declaring, Behind
<1>4. CASE excluded = {} /\ Goto(After[at])
  BY <1>1, <1>2, <1>3, <1>4, Climb
<1>5. CASE Finish(SkipAs(at))
  <2>1. at \in Skips BY <1>1 DEF Skips, Declaring, Rungs
  <2>2. todo' \in 0..MaxRepeats /\ live' \in BOOLEAN /\ UNCHANGED <<last, control>>
    BY <1>1 DEF asking, IInv, TypeOK
  <2> QED BY <1>1, <1>5, <2>1, <2>2, Ending, Unjudged
<1>6. CASE /\ conf.challenge /\ r' = Overridden(excluded) /\ at' = After[at]
           /\ UNCHANGED <<conf, case>>
  <2>1. Absent' = Absent /\ Behind(at)' = Behind(After[at])
        /\ \A claim : ReasonOf(claim)' = ReasonOf(claim)
    BY <1>6 DEF Absent, Needs, NamesCode, ReasonOf, Behind
  <2>2. r' = [r EXCEPT !.challenged = @ \cup excluded] /\ r \in ResultTypes
    BY <1>6 DEF Overridden, IInv, TypeOK, ResultTypes
  <2>2a. excluded \subseteq Claims
    <3>1. case.needs \subseteq Claims BY CaseFields DEF IInv, TypeOK, CaseType
    <3> QED BY <3>1 DEF Absent, Needs, Claims, Flags
  <2>3. /\ r' \in ResultTypes /\ r'.challenged = r.challenged \cup excluded
        /\ r'.outcome = r.outcome /\ r'.skip = r.skip /\ r'.evidence = r.evidence
    BY <2>2, <2>2a DEF ResultTypes
  <2>4. UNCHANGED <<conf, case, todo, live, last, control>> BY <1>1, <1>6 DEF asking
  <2>5. r.outcome = "none" /\ last = NotAsked /\ control = NotAsked
    BY <1>1 DEF IInv, Unsaid
  <2>6. TypeOK' BY <1>2, <1>6, <2>3, <2>4 DEF IInv, TypeOK, ResultTypes, Calls
  <2>7. Weighed'
    <3>1. r'.challenged = {claim \in Absent : ReasonOf(claim) \in Behind(After[at])}
      BY <1>1, <1>3, <2>3 DEF IInv, Weighed
    <3> QED BY <1>2, <1>6, <2>1, <3>1 DEF Weighed, IInv
  <2>8. Unsaid' BY <1>1, <1>2, <1>6, <2>3, <2>4 DEF IInv, Unsaid, Rungs
  <2>9. Grounded' BY <2>3, <2>5 DEF Grounded
  <2>10. at' # "control" BY <1>2, <1>6 DEF Rungs
  <2> QED BY <2>4, <2>5, <2>6, <2>7, <2>8, <2>9, <2>10, NotAskedFields DEF IInv
<1> QED BY <1>4, <1>5, <1>6 DEF Declared

------------------------------------------------------------------------------
\* A call that comes before an execution leaves what was asked alone, whether
\* it goes on or the case ends there.
LEMMA QuietCall ==
  ASSUME IInv, at \in {"session", "load", "plan", "setup"},
         todo' \in 0..MaxRepeats, live' \in BOOLEAN, UNCHANGED <<last, control>>,
         \/ Finish(Unmeasured)
         \/ Finish(SkipAs("no-fault-injection"))
         \/ at # "setup" /\ \E step \in {"load", "plan"} : Goto(step)
         \/ at = "plan" /\ todo' > 0 /\ Goto("setup")
         \/ at = "setup" /\ todo' > 0 /\ Goto("exec")
  PROVE  IInv'
<1>1. at \in Calls \ {"control"} /\ at \notin {"control", "done"} BY DEF Calls
<1>2. last' \in Answers \cup {NotAsked} BY DEF IInv, TypeOK
<1>3. "no-fault-injection" \in Skips BY DEF Skips
<1>4. CASE Finish(Unmeasured) BY <1>1, <1>3, <1>4, Ending, Unjudged
<1>5. CASE Finish(SkipAs("no-fault-injection")) BY <1>1, <1>3, <1>5, Ending, Unjudged
<1>6. CASE at # "setup" /\ \E step \in {"load", "plan"} : Goto(step)
  <2>1. PICK step \in {"load", "plan"} : Goto(step) BY <1>6
  <2>2. last' = NotAsked BY <1>6 DEF IInv, Unsaid
  <2> QED BY <1>1, <1>2, <2>1, <2>2, Onward DEF Calls
<1>7. CASE at = "plan" /\ todo' > 0 /\ Goto("setup")
  BY <1>1, <1>2, <1>7, Onward DEF Calls
<1>8. CASE at = "setup" /\ todo' > 0 /\ Goto("exec")
  BY <1>1, <1>2, <1>8, Onward DEF Calls
<1> QED BY <1>4, <1>5, <1>6, <1>7, <1>8

\* From the session to the first execution.
LEMMA PreparingStep == IInv /\ (Opening \/ Loading \/ Planning \/ Setup) => IInv'
<1> SUFFICES ASSUME IInv, Opening \/ Loading \/ Planning \/ Setup PROVE IInv' OBVIOUS
<1>1. todo \in 0..MaxRepeats /\ live \in BOOLEAN BY DEF IInv, TypeOK
<1>2. CASE Opening
  <2>1. todo' \in 0..MaxRepeats /\ live' \in BOOLEAN BY <1>1, <1>2 DEF Opening
  <2> QED BY <1>2, <2>1, QuietCall DEF Opening
<1>3. CASE Loading
  <2>1. todo' \in 0..MaxRepeats /\ live' \in BOOLEAN BY <1>1, <1>3 DEF Loading
  <2> QED BY <1>3, <2>1, QuietCall DEF Loading
<1>4. CASE Planning
  <2>1. 1 \in 0..MaxRepeats /\ 1..MaxRepeats \subseteq 0..MaxRepeats BY VerdictAssumption
  <2>2. live' \in BOOLEAN /\ at = "plan" /\ UNCHANGED <<last, control>>
    BY <1>1, <1>4 DEF Planning
  <2>3. CASE Finish(SkipAs("no-fault-injection")) /\ todo' = 1
    BY <2>1, <2>2, <2>3, QuietCall
  <2>4. CASE Goto("setup") /\ todo' \in 1..MaxRepeats
    <3>1. todo' > 0 BY <2>4, VerdictAssumption
    <3> QED BY <2>1, <2>2, <2>4, <3>1, QuietCall
  <2>5. 1 \in 1..MaxRepeats BY VerdictAssumption
  <2> QED BY <1>4, <2>3, <2>4, <2>5 DEF Planning
<1>5. CASE Setup
  <2>1. todo' \in 0..MaxRepeats /\ live' \in BOOLEAN /\ todo' > 0
    BY <1>1, <1>5 DEF Setup, IInv, Unsaid
  <2> QED BY <1>5, <2>1, QuietCall DEF Setup
<1> QED BY <1>2, <1>3, <1>4, <1>5

\* An execution brings an answer, and another one only while some are left.
LEMMA ExecutingStep == IInv /\ Executing => IInv'
<1> SUFFICES ASSUME IInv, Executing PROVE IInv' OBVIOUS
<1> DEFINE next(a) == IF case.route # "ordinary" THEN "judge"
                      ELSE IF Stops(a) THEN "explain"
                      ELSE IF case.restored THEN "restore" ELSE "exec"
<1>1. PICK a \in Answers :
        /\ last' = a /\ todo' = todo - 1
        /\ live' = (case.route = "ordinary" /\ ~a.fatal)
        /\ Goto(next(a))
  BY DEF Executing
<1>2. at = "exec" /\ UNCHANGED control BY DEF Executing
<1>3. todo > 0 /\ todo \in 0..MaxRepeats BY <1>2 DEF IInv, Unsaid, TypeOK
<1>4. todo' \in 0..MaxRepeats /\ (next(a) \in {"restore", "exec"} => todo' > 0)
  BY <1>1, <1>3, VerdictAssumption DEF Stops
<1>5. live' \in BOOLEAN BY <1>1
<1>6. last' \in Answers \cup {NotAsked} /\ last' # NotAsked BY <1>1, AnswerFields
<1>7. next(a) \in {"judge", "explain", "restore", "exec"} OBVIOUS
<1>8. next(a) \in Calls \ {"control"} /\ next(a) \notin {"session", "load", "plan", "setup"}
  BY <1>7 DEF Calls
<1>9. next(a) \in {"setup", "exec", "restore"} => todo' > 0 BY <1>4, <1>8
<1> HIDE DEF next
<1> QED BY <1>1, <1>2, <1>4, <1>5, <1>6, <1>8, <1>9, Onward DEF Calls

\* Putting the graph back, and asking for the plan.
LEMMA AroundStep == IInv /\ (Restoring \/ Explaining) => IInv'
<1> SUFFICES ASSUME IInv, Restoring \/ Explaining PROVE IInv' OBVIOUS
<1>1. at \in {"restore", "explain"} /\ UNCHANGED <<todo, last, control>>
  BY DEF Restoring, Explaining
<1>2. last' # NotAsked /\ last' \in Answers \cup {NotAsked} /\ todo' \in 0..MaxRepeats
  BY <1>1 DEF IInv, Unsaid, TypeOK
<1>3. at = "restore" => todo' > 0 BY <1>1 DEF IInv, Unsaid
<1>4. live' \in BOOLEAN BY DEF Restoring, Explaining, IInv, TypeOK
<1>5. CASE Restoring
  BY <1>1, <1>2, <1>3, <1>4, <1>5, Onward DEF Restoring, Calls
<1>6. CASE Explaining
  BY <1>1, <1>2, <1>4, <1>6, Onward DEF Explaining, Calls
<1> QED BY <1>5, <1>6

------------------------------------------------------------------------------
\* What a verdict may be built on.
Founded(v) ==
  /\ v \in ResultTypes /\ v.outcome \in Outcomes /\ v.challenged = r.challenged
  /\ v.outcome \in {"pass", "fail"} => last.how \in {"accepted", "refused"}
  /\ v.outcome = "pass" => v.evidence # NoEvidence
  /\ ~conf.challenge /\ NamesCode(case) /\ v.outcome = "pass" =>
       \/ /\ v.evidence = "gqlstatus" /\ last.status \in {case.status} \cup case.also
          /\ last.status = case.status /\ case.diagnostic => last.record
       \/ v.evidence = "message" /\ case.contains /\ last.says

\* A grade is a pass when what it grades is good, and a failure otherwise.
LEMMA Grading ==
  ASSUME IInv, NEW e \in Evidences, NEW good
  PROVE  /\ Graded(good, e) \in ResultTypes
         /\ Graded(good, e).outcome = IF good THEN "pass" ELSE "fail"
         /\ Graded(good, e).evidence = e /\ Graded(good, e).challenged = r.challenged
         /\ Failed \in ResultTypes /\ Failed.outcome = "fail"
         /\ Failed.challenged = r.challenged
<1>1. r \in ResultTypes BY DEF IInv, TypeOK, ResultTypes
<1>2. NoSkip \in Skips /\ NoEvidence \in Evidences BY DEF Skips, Evidences
<1>3. (IF good THEN "pass" ELSE "fail") \in Outcomes BY DEF Outcomes
<1>4. "fail" \in Outcomes BY DEF Outcomes
<1> QED BY <1>1, <1>2, <1>3, <1>4, ResultType DEF Graded, Failed

\* The grades that weigh nothing further.
LEMMA PlainGrading ==
  ASSUME IInv, NEW e \in Evidences
  PROVE  /\ Graded(TRUE, e) \in ResultTypes /\ Graded(TRUE, e).outcome = "pass"
         /\ Graded(TRUE, e).evidence = e /\ Graded(TRUE, e).challenged = r.challenged
         /\ Graded(FALSE, e) \in ResultTypes /\ Graded(FALSE, e).outcome = "fail"
         /\ Graded(FALSE, e).evidence = e /\ Graded(FALSE, e).challenged = r.challenged
<1>1. r \in ResultTypes BY DEF IInv, TypeOK, ResultTypes
<1>2. NoSkip \in Skips /\ {"pass", "fail"} \subseteq Outcomes BY DEF Skips, Outcomes
<1>3. /\ Graded(TRUE, e) = Result("pass", NoSkip, e)
      /\ Graded(FALSE, e) = Result("fail", NoSkip, e)
  BY DEF Graded
<1>4. /\ Result("pass", NoSkip, e) \in ResultTypes /\ Result("pass", NoSkip, e).outcome = "pass"
      /\ Result("pass", NoSkip, e).evidence = e
      /\ Result("pass", NoSkip, e).challenged = r.challenged
  BY <1>1, <1>2, ResultType
<1>5. /\ Result("fail", NoSkip, e) \in ResultTypes /\ Result("fail", NoSkip, e).outcome = "fail"
      /\ Result("fail", NoSkip, e).evidence = e
      /\ Result("fail", NoSkip, e).challenged = r.challenged
  BY <1>1, <1>2, ResultType
<1> QED BY <1>3, <1>4, <1>5

\* A skip or an error is founded on anything.
LEMMA Abstaining ==
  ASSUME IInv, NEW reason \in Skips
  PROVE  Founded(SkipAs(reason)) /\ Founded(Unmeasured)
BY Ending DEF Founded, Outcomes

\* An ordinary run that got as far as the engine and expects a code either has
\* an adapter that reports codes or a case that accepts the words.
LEMMA CodeOrWords ==
  ASSUME IInv, at = "judge", ~conf.challenge, NamesCode(case)
  PROVE  Reports \/ case.contains
<1>1. Behind(at) = Declaring /\ at # "done" BY DEF Behind
<1>2. r.challenged = {} BY DEF IInv, Weighed
<1>3. \A claim \in Absent : ReasonOf(claim) \notin Declaring
  BY <1>1, <1>2 DEF IInv, Weighed
<1>4. ReasonOf("gqlstatus") \in Declaring BY DEF ReasonOf, Declaring
<1> QED BY <1>3, <1>4 DEF Absent, Needs, Reports

\* judgeError grades a refusal on the code or on the words when the case names
\* a code and the run is an ordinary one.
LEMMA ErrorFounded ==
  ASSUME IInv, at = "judge", last \in Answers, last.how = "refused"
  PROVE  Founded(JudgeError(last))
<1> DEFINE coded == NamesCode(case) /\ Reports
<1>1. {"gqlstatus", "message", "rejected"} \subseteq Evidences
      /\ {"pass", "fail"} \subseteq Outcomes
  BY DEF Evidences, Outcomes
<1>2. r \in ResultTypes /\ NoSkip \in Skips
  BY DEF IInv, TypeOK, ResultTypes, Skips
<1>3. CASE coded /\ last.status # NoStatus
  <2>1. JudgeError(last) = Graded(NamesIt(last), "gqlstatus") BY <1>3 DEF JudgeError
  <2>2. NamesIt(last) => /\ last.status \in {case.status} \cup case.also
                         /\ last.status = case.status /\ case.diagnostic => last.record
    <3>1. case.also # {} => case.status \notin case.also
      BY CaseFields DEF IInv, TypeOK, WellFormed
    <3> QED BY <3>1 DEF NamesIt
  <2> QED BY <1>1, <2>1, <2>2, Grading DEF Founded, NoEvidence
<1>4. CASE ~(coded /\ last.status # NoStatus) /\ case.contains
  <2>1. JudgeError(last) = Graded(last.says, "message") BY <1>4 DEF JudgeError
  <2> QED BY <1>1, <1>4, <2>1, Grading DEF Founded, NoEvidence
<1>5. CASE coded /\ last.status = NoStatus /\ ~case.contains
  <2>1. JudgeError(last) = Result("fail", NoSkip, "gqlstatus")
    BY <1>5 DEF JudgeError, Graded
  <2> QED BY <1>1, <1>2, <2>1, ResultType DEF Founded
<1>6. CASE ~coded /\ ~case.contains
  <2>1. JudgeError(last) = Result("pass", NoSkip, "rejected")
    BY <1>6 DEF JudgeError, Graded
  <2>2. conf.challenge \/ ~NamesCode(case) BY <1>6, CodeOrWords
  <2> QED BY <1>1, <1>2, <2>1, <2>2, ResultType DEF Founded, NoEvidence
<1> QED BY <1>3, <1>4, <1>5, <1>6

\* A verdict of any kind is founded on the answer.
LEMMA JudgementFounded ==
  ASSUME IInv, at = "judge", last \in Answers
  PROVE  Founded(Judgement(last))
<1>1. {"fixture-capability", "no-gqlstatus", "semantic-refusal", "feature-present",
       "within-limit"} \subseteq Skips
  BY DEF Skips, Rungs
<1>2. {"accepted", "rejected", "gqlstatus", "rows"} \subseteq Evidences
      /\ {"pass", "fail"} \subseteq Outcomes
  BY DEF Evidences, Outcomes
<1>3. last.how \in {"accepted", "refused", "timeout", "transport", "unsupported"}
  BY AnswerFields
<1>4. CASE last.how \in {"unsupported", "timeout", "transport"}
  <2>1. Judgement(last) \in {SkipAs("fixture-capability"), Unmeasured}
    BY <1>4 DEF Judgement, Silent, CutOff
  <2> QED BY <1>1, <2>1, Abstaining
<1>5. CASE last.how \in {"accepted", "refused"}
  <2>1. Founded(Failed) BY <1>2, <1>5, Grading DEF Founded
  <2>2. ASSUME NEW e \in {"accepted", "rejected", "gqlstatus", "rows"}, ~NamesCode(case)
        PROVE  Founded(Graded(TRUE, e))
    BY <1>2, <1>5, <2>2, PlainGrading DEF Founded, NoEvidence
  <2>3. Founded(Graded(FALSE, "gqlstatus"))
    BY <1>2, <1>5, PlainGrading DEF Founded
  <2>4. CASE case.kind = "generated"
    <3>1. case.expect = "accept" BY <2>4, VerdictAssumption DEF IInv, TypeOK, Walked
    <3>2. ~NamesCode(case) BY <3>1 DEF NamesCode
    <3>3. Judgement(last) = JudgeGenerated(last)
      BY <1>5, <2>4 DEF Judgement, Silent, CutOff
    <3>4. JudgeGenerated(last) \in {Graded(TRUE, "accepted"), Graded(FALSE, "gqlstatus"),
                                    SkipAs("no-gqlstatus"), SkipAs("semantic-refusal")}
      BY DEF JudgeGenerated
    <3> QED BY <1>1, <2>2, <2>3, <3>2, <3>3, <3>4, Abstaining
  <2>5. CASE case.kind # "generated"
    <3>1. Judgement(last) = JudgeExpected(last)
      BY <1>5, <2>5 DEF Judgement, Silent, CutOff
    <3>2. case.expect \in {"reject", "error", "accept", "empty", "rows"}
      BY CaseFields DEF IInv, TypeOK, CaseType
    <3>3. CASE case.expect = "error"
      <4>1. JudgeExpected(last) \in {JudgeError(last), SkipAs("feature-present"),
                                     SkipAs("within-limit"), Failed}
            /\ (last.how = "accepted" => JudgeExpected(last) \in
                  {SkipAs("feature-present"), SkipAs("within-limit"), Failed})
        BY <3>3 DEF JudgeExpected
      <4>2. last.how = "refused" => Founded(JudgeError(last)) BY ErrorFounded
      <4> QED BY <1>1, <1>5, <2>1, <3>1, <4>1, <4>2, Abstaining
    <3>4. CASE case.expect # "error"
      <4>1. ~NamesCode(case) BY <3>4 DEF NamesCode
      <4>2. JudgeExpected(last) \in {Failed, Graded(TRUE, "rejected"),
                                     Graded(TRUE, "accepted"), Graded(TRUE, "rows")}
        BY <3>2, <3>4 DEF JudgeExpected
      <4> QED BY <2>1, <2>2, <3>1, <4>1, <4>2
    <3> QED BY <3>3, <3>4
  <2> QED BY <2>4, <2>5
<1> QED BY <1>3, <1>4, <1>5

\* judge hands on a verdict that is founded.
LEMMA JudgingStep == IInv /\ Judging => IInv'
<1> SUFFICES ASSUME IInv, Judging PROVE IInv' OBVIOUS
<1>1. at = "judge" /\ UNCHANGED <<conf, case, todo, live, last, control>>
      /\ r' = Judgement(last) /\ at' \in {"control", "done"}
      /\ (at' = "control" => case.route = "ordinary")
  BY DEF Judging, asking
<1>2. last \in Answers /\ control = NotAsked BY <1>1 DEF IInv, Unsaid, TypeOK, Rungs
<1>3. Founded(r') BY <1>1, <1>2, JudgementFounded
<1>4. r' \in ResultTypes /\ r'.outcome \in Outcomes /\ r'.challenged = r.challenged
  BY <1>3 DEF Founded
<1>5. TypeOK' BY <1>1, <1>4 DEF IInv, TypeOK, ResultTypes, Calls
<1>6. Weighed'
  <2>1. Absent' = Absent /\ \A claim : ReasonOf(claim)' = ReasonOf(claim)
    BY <1>1 DEF Absent, Needs, NamesCode, ReasonOf
  <2>2. Behind(at) = Declaring /\ (at' = "control" => Behind(at)' = Declaring)
    BY <1>1 DEF Behind
  <2> QED BY <1>1, <1>4, <2>1, <2>2 DEF IInv, Weighed
<1>7. Unsaid' BY <1>1, <1>2 DEF Unsaid, Rungs
<1>8. Grounded' BY <1>1, <1>3 DEF Founded, Grounded, NamesCode
<1>9. r'.outcome # "none" BY <1>4 DEF Outcomes
<1> QED BY <1>1, <1>2, <1>5, <1>6, <1>7, <1>8, <1>9, NotAskedFields DEF IInv

\* The control leaves the verdict or turns a failure into a skip.
LEMMA ControllingStep == IInv /\ Controlling => IInv'
<1> SUFFICES ASSUME IInv, Controlling PROVE IInv' OBVIOUS
<1>1. at = "control" /\ at' = "done" /\ UNCHANGED <<conf, case, todo, last>>
  BY DEF Controlling, Finish
<1>2. Absent' = Absent BY <1>1 DEF Absent, Needs, NamesCode
<1>3. ASSUME r' = r \/ r' = [r EXCEPT !.outcome = "skip", !.skip = "unparsed"],
             live' \in BOOLEAN, control' \in Answers \cup {NotAsked},
             CutOff(control') => r'.outcome = "fail"
      PROVE  IInv'
  <2>1. r \in ResultTypes BY DEF IInv, TypeOK, ResultTypes
  <2>2. "skip" \in Outcomes /\ "unparsed" \in Skips BY DEF Outcomes, Skips
  <2>3. /\ r' \in ResultTypes /\ r'.challenged = r.challenged /\ r'.evidence = r.evidence
        /\ r'.outcome \in {r.outcome, "skip"}
    BY <1>3, <2>1, <2>2 DEF ResultTypes
  <2>4. TypeOK' BY <1>1, <1>3, <2>3 DEF IInv, TypeOK, ResultTypes
  <2>5. Weighed' BY <1>1, <1>2, <2>3 DEF IInv, Weighed
  <2>6. Unsaid' BY <1>1 DEF Unsaid, Rungs
  <2>7. Grounded' BY <1>1, <2>3 DEF IInv, Grounded, NamesCode
  <2> QED BY <1>1, <1>3, <2>4, <2>5, <2>6, <2>7 DEF IInv, CutOff
<1>4. control = NotAsked BY <1>1 DEF IInv, Unsaid
<1>5. CASE ~Disputed /\ UNCHANGED <<live, control>> /\ Finish(r)
  <2>1. r' = r /\ control' = NotAsked /\ live' \in BOOLEAN
    BY <1>4, <1>5 DEF Finish, IInv, TypeOK
  <2> QED BY <1>3, <2>1, NotAskedFields
<1>6. ASSUME Disputed, NEW a \in Answers, control' = a, live' = (live /\ ~a.fatal),
             Finish(IF a.how = "accepted" \/ CutOff(a) THEN r
                    ELSE [r EXCEPT !.outcome = "skip", !.skip = "unparsed"])
      PROVE  IInv'
  <2>1. r.outcome = "fail" BY <1>6 DEF Disputed
  <2>2. live' \in BOOLEAN BY <1>6
  <2>3. r' = IF a.how = "accepted" \/ CutOff(a) THEN r
             ELSE [r EXCEPT !.outcome = "skip", !.skip = "unparsed"]
    BY <1>6 DEF Finish
  <2>4. CutOff(control') => r'.outcome = "fail" BY <1>6, <2>1, <2>3
  <2> QED BY <1>3, <1>6, <2>2, <2>3, <2>4
<1> QED BY <1>5, <1>6 DEF Controlling

\* The invariant is inductive.
LEMMA NextInv == IInv /\ [Next]_vars => IInv'
<1>1. IInv /\ UNCHANGED vars => IInv'
  BY DEF vars, asking, IInv, TypeOK, Weighed, Unsaid, Grounded, Absent, Needs, NamesCode,
         ReasonOf, Behind, CutOff
<1> QED
  BY <1>1, LadderStep, DeclaredStep, PreparingStep, ExecutingStep, AroundStep, JudgingStep,
     ControllingStep
  DEF Next, Step, Ladder, Calling

\* Every state of a case satisfies it.
LEMMA Invariant == Spec => []IInv
BY InitInv, NextInv, PTL DEF Spec

------------------------------------------------------------------------------
\* A case is in a known place with a result of known make (run).
THEOREM CaseIsTyped == Spec => []TypeOK
<1>1. IInv => TypeOK BY DEF IInv
<1> QED BY <1>1, Invariant, PTL

\* Nothing is passed or failed for want of an answer (judge, checkParses).
THEOREM SilenceProvesNothing == Spec => []NothingFromSilence
<1>1. IInv => NothingFromSilence BY DEF IInv, Grounded, NothingFromSilence
<1> QED BY <1>1, Invariant, PTL

\* No absence the adapter declared is passed over on the way to the engine
\* (declared, and the rungs of run that call it).
THEOREM NothingDeclaredIsPassedOver == Spec => []DeclarationWeighed
<1>1. ASSUME IInv PROVE DeclarationWeighed
  <2> SUFFICES ASSUME at \in Calls
               PROVE  r.challenged = Absent /\ (Absent # {} => conf.challenge)
    BY DEF DeclarationWeighed
  <2>1. Behind(at) = Declaring /\ at # "done" BY DEF Behind, Calls
  <2>2. \A claim : ReasonOf(claim) \in Declaring BY DEF ReasonOf, Declaring
  <2>3. r.challenged = Absent BY <1>1, <2>1, <2>2 DEF IInv, Weighed
  <2> QED BY <1>1, <2>3 DEF IInv, Weighed
<1> QED BY <1>1, Invariant, PTL

\* An ordinary run passes a named condition on the condition (judgeError and
\* the no-gqlstatus rung of run).
THEOREM ConditionsAreEarned == Spec => []NamedConditionEarned
<1>1. IInv => NamedConditionEarned BY DEF IInv, Grounded, NamedConditionEarned
<1> QED BY <1>1, Invariant, PTL

\* The control statement only excuses a failure over the code (checkParses).
THEOREM ControlsOnlyExcuse == Spec => ControlOnlyExcuses
<1> DEFINE Excuse == at = "control" /\ r' # r =>
                       /\ r.outcome = "fail" /\ r.evidence = "gqlstatus"
                       /\ r'.outcome = "skip" /\ control'.how # "accepted"
<1>1. ASSUME IInv, [Next]_vars PROVE [Excuse]_vars
  <2> SUFFICES ASSUME at = "control", r' # r, Next PROVE Excuse BY <1>1 DEF vars, asking
  <2>1. Controlling
    BY <1>1 DEF Next, Step, Ladder, Calling, Withdrawn, Spelling, Sizing, Reviewing, Declared,
                Declaring, Fixture, Opening, Loading, Planning, Setup, Executing, Restoring,
                Explaining, Judging
  <2>2. Disputed /\ \E a \in Answers :
          /\ control' = a
          /\ Finish(IF a.how = "accepted" \/ CutOff(a) THEN r
                    ELSE [r EXCEPT !.outcome = "skip", !.skip = "unparsed"])
    BY <2>1 DEF Controlling, Finish
  <2>3. PICK a \in Answers :
          control' = a /\ ~(a.how = "accepted") /\
          r' = [r EXCEPT !.outcome = "skip", !.skip = "unparsed"]
    BY <2>2 DEF Finish
  <2>4. r \in ResultTypes BY <1>1 DEF IInv, TypeOK, ResultTypes
  <2>5. r'.outcome = "skip" BY <2>3, <2>4 DEF ResultTypes
  <2> QED BY <2>2, <2>3, <2>5 DEF Disputed
<1> QED BY <1>1, Invariant, PTL DEF Spec, ControlOnlyExcuses

(***************************************************************************)
(* The run                                                                 *)
(***************************************************************************)
\* The row of an item counts the results that cite it, the row of a claim those
\* that overrode it.
RowsAreCounts ==
  \A x \in Items :
    coverage[x].cases = Cardinality({j \in 1..i : x \in Cites[results[j].case]})
ChecksAreCounts ==
  \A claim \in Claims :
    /\ checks[claim].cases = Cardinality({j \in 1..i : claim \in results[j].challenged})
    /\ checks[claim].pass =
         Cardinality({j \in Ended("pass") : claim \in results[j].challenged})

Wrong ==
  IF conf.challenge THEN \E claim \in Claims : Contradicted(checks[claim]) ELSE Alarm(policy)

\* Every result is one of a case that has ended, and overrode only what the
\* adapter declared absent.
ResultsInv ==
  /\ results \in Seq(CaseResult)
  /\ \A j \in 1..Len(results) : results[j].challenged \subseteq conf.lacks

PhaseInv ==
  /\ phase \in {"run", "summarize", "exit"}
  /\ i \in 0..Len(results)
  /\ phase = "run" => i = 0
  /\ phase = "exit" => /\ i = Len(results)
                       /\ exit = IF Wrong THEN "nonzero" ELSE "zero"

SumsInv ==
  /\ totals \in Tally /\ byKind \in [Kinds -> Tally]
  /\ coverage \in [Items -> Status] /\ checks \in [Claims -> Tally]
  /\ SumsAreCounts /\ RowsAreCounts /\ ChecksAreCounts

CaseInv == IInv /\ (at = "done" => r.outcome # "none")

SInv == CaseInv /\ ResultsInv /\ PhaseInv /\ SumsInv

------------------------------------------------------------------------------
(* One case. *)

\* What a step ends a case with is an outcome.
LEMMA EndsWithOutcome == IInv /\ Step => (at' = "done" => r'.outcome # "none")
<1> SUFFICES ASSUME IInv, Step, at' = "done" PROVE r'.outcome # "none" OBVIOUS
<1>1. r \in ResultTypes BY DEF IInv, TypeOK, ResultTypes
<1>2. ASSUME NEW s \in Skips, r' \in {SkipAs(s), Unmeasured} PROVE r'.outcome # "none"
  <2>1. NoSkip \in Skips /\ NoEvidence \in Evidences /\ {"skip", "error"} \subseteq Outcomes
    BY DEF Skips, Evidences, Outcomes
  <2> QED BY <1>1, <1>2, <2>1, ResultType DEF SkipAs, Unmeasured
<1>3. {"not-provokable", "no-dialect", "within-limit", "no-gqlstatus", "already-reviewed",
       "no-fault-injection", NoSkip} \cup Declaring \subseteq Skips
  BY DEF Skips, Rungs, Declaring, NoSkip
<1>4. CASE Ladder
  <2>1. CASE Withdrawn \/ Spelling \/ Sizing \/ Reviewing \/ Fixture
    <3>1. case.fixture \in {"none", "sound", "undefined"}
      BY CaseFields DEF IInv, TypeOK, CaseType
    <3>2. /\ "fixture-capability" # "done" /\ "session" # "done"
          /\ NoSkip \in Skips
      BY <1>3
    <3>3. CASE Fixture
      BY <1>2, <3>1, <3>2, <3>3 DEF Fixture, Finish, Goto
    <3>4. CASE Withdrawn \/ Spelling \/ Sizing \/ Reviewing
      <4>1. \E s \in Skips : r' = SkipAs(s)
        BY <1>3, <3>4 DEF Withdrawn, Spelling, Sizing, Reviewing, Finish, Goto
      <4> QED BY <1>2, <4>1
    <3> QED BY <2>1, <3>3, <3>4
  <2>2. CASE Declared
    <3>1. at \in Declaring /\ After[at] # "done" BY <2>2 DEF Declared, Declaring, After
    <3>2. r' = SkipAs(at) BY <2>2, <3>1 DEF Declared, Finish, Goto
    <3> QED BY <1>2, <1>3, <3>1, <3>2
  <2> QED BY <1>4, <2>1, <2>2 DEF Ladder
<1>5. CASE Calling
  <2>1. \E s \in Skips : r' \in {SkipAs(s), Unmeasured}
    BY <1>3, <1>5
    DEF Calling, Opening, Loading, Planning, Setup, Executing, Restoring, Explaining, Finish, Goto
  <2> QED BY <1>2, <2>1
<1>6. CASE Judging
  <2>1. at = "judge" /\ r' = Judgement(last) BY <1>6 DEF Judging
  <2>2. last \in Answers BY <2>1 DEF IInv, TypeOK, Unsaid
  <2>3. Founded(r') BY <2>1, <2>2, JudgementFounded
  <2> QED BY <2>3 DEF Founded, Outcomes
<1>7. CASE Controlling
  <2>1. at = "control" /\ r.outcome # "none" BY <1>7 DEF Controlling, IInv
  <2>2. r' = r \/ r' = [r EXCEPT !.outcome = "skip", !.skip = "unparsed"]
    BY <1>7 DEF Controlling, Finish
  <2> QED BY <1>1, <2>1, <2>2 DEF ResultTypes
<1> QED BY <1>4, <1>5, <1>6, <1>7 DEF Step

\* A case is run to its end.
LEMMA CaseStep == CaseInv /\ OfCase => CaseInv'
<1>1. IInv /\ Step => IInv' BY NextInv DEF Next
<1> QED BY <1>1, EndsWithOutcome DEF CaseInv, OfCase

\* The next one begins with the session the last one left.
LEMMA NextCase ==
  ASSUME CaseInv, NEW c \in Cases, Called(c), UNCHANGED <<conf, live>>
  PROVE  CaseInv'
<1>1. /\ r' \in ResultTypes /\ r'.outcome = "none" /\ r'.skip = NoSkip
      /\ r'.evidence = NoEvidence /\ r'.challenged = {}
  BY DEF Called, Fresh, ResultTypes, Skips, Evidences, NoSkip, NoEvidence
<1>2. /\ case' = c /\ at' = "provokable" /\ todo' = 0 /\ last' = NotAsked
      /\ control' = NotAsked /\ conf' = conf /\ live' = live
  BY DEF Called
<1>3. TypeOK'
  <2>1. 0 \in 0..MaxRepeats BY VerdictAssumption
  <2> QED BY <1>1, <1>2, <2>1 DEF CaseInv, IInv, TypeOK, ResultTypes, Rungs
<1>4. Weighed'
  <2>1. Behind(at)' = {} BY <1>2 DEF Behind
  <2> QED BY <1>1, <1>2, <2>1 DEF Weighed
<1>5. Unsaid' BY <1>1, <1>2 DEF Unsaid
<1>6. Grounded' BY <1>1 DEF Grounded
<1> QED BY <1>1, <1>2, <1>3, <1>4, <1>5, <1>6, NotAskedFields DEF CaseInv, IInv, CutOff

\* What is appended is a result, of claims the adapter declared absent.
LEMMA AppendedResult ==
  ASSUME CaseInv, at = "done"
  PROVE  LET res == [case |-> case, outcome |-> r.outcome, skip |-> r.skip,
                     evidence |-> r.evidence, challenged |-> r.challenged, how |-> last.how,
                     code |-> last.status]
         IN  res \in CaseResult /\ res.challenged \subseteq conf.lacks
<1>1. r.outcome \in Outcomes BY DEF CaseInv, IInv, TypeOK
<1>2. /\ last.how \in {"not asked", "accepted", "refused", "timeout", "transport", "unsupported"}
      /\ last.status \in Statuses \cup {NoStatus}
  <2>1. last \in Answers \cup {NotAsked} BY DEF CaseInv, IInv, TypeOK
  <2>2. NotAsked.how = "not asked" /\ NotAsked.status = NoStatus
    BY DEF NotAsked, Unheard, Answer
  <2> QED BY <2>1, <2>2, AnswerFields
<1>3. r.challenged \subseteq conf.lacks BY DEF CaseInv, IInv, Weighed, Absent
<1> QED BY <1>1, <1>2, <1>3 DEF CaseInv, IInv, TypeOK, CaseResult

------------------------------------------------------------------------------
(* Counting. *)

\* One more of the first n is counted.
LEMMA CountedOnce ==
  ASSUME NEW n \in Nat, NEW A \in SUBSET (1..n)
  PROVE  /\ IsFiniteSet(A) /\ Cardinality(A) \in Nat
         /\ Cardinality(A \cup {n + 1}) = Cardinality(A) + 1
<1>1. IsFiniteSet(1..n) BY FS_Interval
<1>2. IsFiniteSet(A) BY <1>1, FS_Subset
<1>3. n + 1 \notin A OBVIOUS
<1> QED BY <1>2, <1>3, FS_AddElement, FS_CardinalityType

\* A result is added once to its total and to one of its kinds.
LEMMA Tallying ==
  ASSUME NEW t \in Tally, NEW o \in Outcomes
  PROVE  /\ Counted(t, o) \in Tally
         /\ Counted(t, o).cases = t.cases + 1
         /\ \A p \in Outcomes : Counted(t, o)[p] = t[p] + (IF p = o THEN 1 ELSE 0)
<1> DEFINE fields == {"cases", "pass", "fail", "skip", "error"}
<1>1. t \in [fields -> Nat] BY DEF Tally
<1>2. /\ Counted(t, o) \in [fields -> Nat]
      /\ Counted(t, o).cases = t.cases + 1
      /\ \A p \in Outcomes : Counted(t, o)[p] = t[p] + (IF p = o THEN 1 ELSE 0)
  BY <1>1 DEF Counted, Outcomes
<1>3. Counted(t, o) \in Tally BY <1>2 DEF Tally
<1> QED BY <1>2, <1>3

\* And so it is to the row of an item.
LEMMA Recording ==
  ASSUME NEW st \in Status, NEW res \in CaseResult
  PROVE  /\ Recorded(st, res) \in Status
         /\ Recorded(st, res).cases = st.cases + 1
         /\ \A p \in Outcomes :
              Recorded(st, res)[p] = st[p] + (IF p = res.outcome THEN 1 ELSE 0)
<1> DEFINE fields == {"cases", "pass", "fail", "skip", "error", "unreachable", "measured"}
           o == res.outcome
           more == Counted(st, o)
<1>1. st \in [fields -> Nat] BY DEF Status
<1>2. o \in Outcomes BY DEF CaseResult
<1>3. /\ more \in [fields -> Nat]
      /\ more.cases = st.cases + 1
      /\ \A p \in Outcomes : more[p] = st[p] + (IF p = o THEN 1 ELSE 0)
  BY <1>1, <1>2 DEF Counted, Outcomes
<1>4. more \in Status BY <1>3 DEF Status
<1>5. ASSUME NEW a \in Nat, NEW b \in Nat, NEW m \in Status
      PROVE  LET n == [m EXCEPT !.unreachable = a, !.measured = b]
             IN  n \in Status /\ n.cases = m.cases /\ \A p \in Outcomes : n[p] = m[p]
  <2>1. [m EXCEPT !.unreachable = a, !.measured = b] \in Status BY DEF Status
  <2>2. ASSUME NEW n, n = [m EXCEPT !.unreachable = a, !.measured = b]
        PROVE  n.cases = m.cases /\ \A p \in Outcomes : n[p] = m[p]
    BY <2>2 DEF Status, Outcomes
  <2> QED BY <2>1, <2>2
<1>6. /\ Recorded(st, res) \in Status
      /\ Recorded(st, res).cases = more.cases
      /\ \A p \in Outcomes : Recorded(st, res)[p] = more[p]
  <2> DEFINE a == more.unreachable + (IF Unreachable(res.skip) THEN 1 ELSE 0)
             b == more.measured + (IF res.skip = "within-limit" THEN 1 ELSE 0)
  <2>1. a \in Nat /\ b \in Nat BY <1>4 DEF Status
  <2>2. Recorded(st, res) = [more EXCEPT !.unreachable = a, !.measured = b]
    BY DEF Recorded
  <2> HIDE DEF more, a, b
  <2>3. /\ [more EXCEPT !.unreachable = a, !.measured = b] \in Status
        /\ [more EXCEPT !.unreachable = a, !.measured = b].cases = more.cases
        /\ \A p \in Outcomes : [more EXCEPT !.unreachable = a, !.measured = b][p] = more[p]
    BY <1>4, <1>5, <2>1, ZenonT(30)
  <2> QED BY <2>2, <2>3, Zenon
<1> QED BY <1>3, <1>6

\* Sums that are not touched stay counts: of the same results, or of none.
LEMMA SumsKept ==
  ASSUME SumsInv, UNCHANGED sums, UNCHANGED results \/ i = 0
  PROVE  SumsInv'
<1>1. /\ i' = i /\ totals' = totals /\ byKind' = byKind /\ coverage' = coverage
      /\ checks' = checks
  BY DEF sums
<1>2. ASSUME NEW o \in Outcomes
      PROVE  /\ Ended(o)' = Ended(o)
             /\ \A k \in Kinds : {j \in Ended(o) : results[j].case.kind = k}'
                               = {j \in Ended(o) : results[j].case.kind = k}
             /\ \A x \in Items : {j \in Ended(o) : x \in Cites[results[j].case]}'
                               = {j \in Ended(o) : x \in Cites[results[j].case]}
             /\ \A claim \in Claims : {j \in Ended(o) : claim \in results[j].challenged}'
                               = {j \in Ended(o) : claim \in results[j].challenged}
  <2>1. CASE UNCHANGED results BY <1>1, <2>1 DEF Ended
  <2>2. CASE i = 0
    <3>1. Ended(o) = {} /\ Ended(o)' = {} BY <1>1, <2>2 DEF Ended
    <3> QED BY <3>1
  <2> QED BY <2>1, <2>2
<1>3. \A claim \in Claims : {j \in 1..i : claim \in results[j].challenged}'
                          = {j \in 1..i : claim \in results[j].challenged}
      /\ \A x \in Items : {j \in 1..i : x \in Cites[results[j].case]}'
                        = {j \in 1..i : x \in Cites[results[j].case]}
  <2>1. CASE UNCHANGED results BY <1>1, <2>1
  <2>2. CASE i = 0 BY <1>1, <2>2
  <2> QED BY <2>1, <2>2
<1>4. "pass" \in Outcomes BY DEF Outcomes
<1>5. SumsAreCounts' BY <1>1, <1>2 DEF SumsInv, SumsAreCounts
<1>6. ChecksAreCounts' BY <1>1, <1>2, <1>3, <1>4 DEF SumsInv, ChecksAreCounts
<1>7. RowsAreCounts' BY <1>1, <1>3 DEF SumsInv, RowsAreCounts
<1> QED BY <1>1, <1>5, <1>6, <1>7 DEF SumsInv

\* A turn of the loops counts one result everywhere it belongs.
LEMMA SumsCounted ==
  ASSUME SumsInv, ResultsInv, PhaseInv, Count
  PROVE  SumsInv'
<1> DEFINE res == results[i + 1]
           o == res.outcome
<1>1. /\ i \in Nat /\ i < Len(results) /\ i' = i + 1 /\ results' = results
      /\ totals' = Counted(totals, o)
      /\ byKind' = [byKind EXCEPT ![res.case.kind] = Counted(@, o)]
      /\ coverage' = [x \in Items |-> IF x \in Cites[res.case]
                         THEN Recorded(coverage[x], res) ELSE coverage[x]]
      /\ checks' = [claim \in Claims |-> IF claim \in res.challenged
                       THEN Counted(checks[claim], o) ELSE checks[claim]]
  <2>1. i \in Nat /\ results' = results BY DEF Count, PhaseInv, ResultsInv
  <2> QED BY <2>1, Zenon DEF Count
<1>2. res \in CaseResult /\ o \in Outcomes /\ res.case.kind \in Kinds
  <2>1. res \in CaseResult BY <1>1 DEF ResultsInv
  <2>2. res.case \in Cases /\ o \in Outcomes BY <2>1 DEF CaseResult
  <2> QED BY <2>1, <2>2, CaseFields DEF CaseType
<1> HIDE DEF res, o
<1>3. ASSUME NEW p \in Outcomes
      PROVE  /\ Ended(p) \in SUBSET (1..i)
             /\ Ended(p)' = IF p = o THEN Ended(p) \cup {i + 1} ELSE Ended(p)
  <2>1. 1..(i + 1) = (1..i) \cup {i + 1} BY <1>1
  <2> QED BY <1>1, <2>1 DEF Ended, o, res
<1>4. totals' \in Tally /\ totals'.cases = i'
      /\ \A p \in Outcomes : totals'[p] = Cardinality(Ended(p)')
  <2>1. /\ totals' \in Tally /\ totals'.cases = totals.cases + 1
        /\ \A p \in Outcomes : totals'[p] = totals[p] + (IF p = o THEN 1 ELSE 0)
    BY <1>1, <1>2, Tallying DEF SumsInv
  <2>2. ASSUME NEW p \in Outcomes PROVE totals'[p] = Cardinality(Ended(p)')
    <3>1. totals[p] = Cardinality(Ended(p)) BY DEF SumsInv, SumsAreCounts
    <3>2. Cardinality(Ended(p)) \in Nat
          /\ Cardinality(Ended(p) \cup {i + 1}) = Cardinality(Ended(p)) + 1
      BY <1>1, <1>3, CountedOnce
    <3> QED BY <1>3, <2>1, <3>1, <3>2
  <2> QED BY <1>1, <2>1, <2>2 DEF SumsInv, SumsAreCounts
<1>5. byKind' \in [Kinds -> Tally]
      /\ \A p \in Outcomes, k \in Kinds :
           byKind'[k][p] = Cardinality({j \in Ended(p) : results[j].case.kind = k}')
  <2>1. ASSUME NEW k \in Kinds
        PROVE  /\ byKind'[k] \in Tally
               /\ \A p \in Outcomes : byKind'[k][p] =
                    byKind[k][p] + (IF p = o /\ k = res.case.kind THEN 1 ELSE 0)
    <3>1. byKind[k] \in Tally BY DEF SumsInv
    <3>2. \A p \in Outcomes : byKind[k][p] \in Nat BY <3>1 DEF Tally, Outcomes
    <3>3. byKind'[k] = IF k = res.case.kind THEN Counted(byKind[k], o) ELSE byKind[k]
      BY <1>1 DEF SumsInv
    <3> QED BY <1>2, <3>1, <3>2, <3>3, Tallying
  <2>2. ASSUME NEW p \in Outcomes, NEW k \in Kinds
        PROVE  byKind'[k][p] = Cardinality({j \in Ended(p) : results[j].case.kind = k}')
    <3> DEFINE A == {j \in Ended(p) : results[j].case.kind = k}
    <3>1. A \in SUBSET (1..i) BY <1>3
    <3>2. A' = IF p = o /\ k = res.case.kind THEN A \cup {i + 1} ELSE A
      BY <1>1, <1>3 DEF res
    <3>3. byKind[k][p] = Cardinality(A) BY DEF SumsInv, SumsAreCounts
    <3> HIDE DEF A
    <3>4. Cardinality(A) \in Nat /\ Cardinality(A \cup {i + 1}) = Cardinality(A) + 1
      BY <1>1, <3>1, CountedOnce
    <3>5. byKind'[k][p] = Cardinality(A') BY <2>1, <3>2, <3>3, <3>4
    <3> QED BY <3>5 DEF A
  <2> QED BY <1>1, <2>1, <2>2 DEF SumsInv
<1>6. coverage' \in [Items -> Status]
      /\ \A p \in Outcomes, x \in Items :
           coverage'[x][p] = Cardinality({j \in Ended(p) : x \in Cites[results[j].case]}')
  <2>1. ASSUME NEW x \in Items
        PROVE  /\ coverage'[x] \in Status
               /\ \A p \in Outcomes : coverage'[x][p] =
                    coverage[x][p] + (IF p = o /\ x \in Cites[res.case] THEN 1 ELSE 0)
    <3>1. coverage[x] \in Status BY DEF SumsInv
    <3>2. \A p \in Outcomes : coverage[x][p] \in Nat BY <3>1 DEF Status, Outcomes
    <3>3. coverage'[x] = IF x \in Cites[res.case] THEN Recorded(coverage[x], res)
                         ELSE coverage[x]
      BY <1>1
    <3> QED BY <1>2, <3>1, <3>2, <3>3, Recording DEF o
  <2>2. ASSUME NEW p \in Outcomes, NEW x \in Items
        PROVE  coverage'[x][p] = Cardinality({j \in Ended(p) : x \in Cites[results[j].case]}')
    <3> DEFINE A == {j \in Ended(p) : x \in Cites[results[j].case]}
    <3>1. A \in SUBSET (1..i) BY <1>3
    <3>2. A' = IF p = o /\ x \in Cites[res.case] THEN A \cup {i + 1} ELSE A
      BY <1>1, <1>3 DEF res
    <3>3. coverage[x][p] = Cardinality(A) BY DEF SumsInv, SumsAreCounts
    <3> HIDE DEF A
    <3>4. Cardinality(A) \in Nat /\ Cardinality(A \cup {i + 1}) = Cardinality(A) + 1
      BY <1>1, <3>1, CountedOnce
    <3>5. coverage'[x][p] = Cardinality(A') BY <2>1, <3>2, <3>3, <3>4
    <3> QED BY <3>5 DEF A
  <2> QED BY <1>1, <2>1, <2>2
<1>7. checks' \in [Claims -> Tally] /\ ChecksAreCounts'
  <2>1. ASSUME NEW c \in Claims
        PROVE  /\ checks'[c] \in Tally
               /\ checks'[c].cases = checks[c].cases + (IF c \in res.challenged THEN 1 ELSE 0)
               /\ checks'[c].pass = checks[c].pass
                     + (IF c \in res.challenged /\ o = "pass" THEN 1 ELSE 0)
    <3>1. checks[c] \in Tally /\ checks[c].cases \in Nat /\ checks[c].pass \in Nat
      BY DEF SumsInv, Tally
    <3>2. checks'[c] = IF c \in res.challenged THEN Counted(checks[c], o) ELSE checks[c]
      BY <1>1
    <3>3. /\ Counted(checks[c], o) \in Tally
          /\ Counted(checks[c], o).cases = checks[c].cases + 1
          /\ Counted(checks[c], o)["pass"] = checks[c]["pass"] + (IF "pass" = o THEN 1 ELSE 0)
      BY <1>2, <3>1, Tallying DEF Outcomes
    <3> QED BY <3>1, <3>2, <3>3
  <2>2. ASSUME NEW c \in Claims
        PROVE  /\ checks'[c].cases = Cardinality({j \in 1..i : c \in results[j].challenged}')
               /\ checks'[c].pass
                    = Cardinality({j \in Ended("pass") : c \in results[j].challenged}')
    <3> DEFINE A == {j \in 1..i : c \in results[j].challenged}
               B == {j \in Ended("pass") : c \in results[j].challenged}
    <3>1. A \in SUBSET (1..i) /\ B \in SUBSET (1..i) BY <1>3 DEF Outcomes
    <3>2. A' = IF c \in res.challenged THEN A \cup {i + 1} ELSE A
      <4>1. 1..(i + 1) = (1..i) \cup {i + 1} BY <1>1
      <4> QED BY <1>1, <4>1 DEF res
    <3>3. B' = IF c \in res.challenged /\ o = "pass" THEN B \cup {i + 1} ELSE B
      <4>1. "pass" \in Outcomes BY DEF Outcomes
      <4> QED BY <1>1, <1>3, <4>1 DEF res
    <3>4. checks[c].cases = Cardinality(A) /\ checks[c].pass = Cardinality(B)
      BY DEF SumsInv, ChecksAreCounts
    <3> HIDE DEF A, B
    <3>5. /\ Cardinality(A) \in Nat /\ Cardinality(A \cup {i + 1}) = Cardinality(A) + 1
          /\ Cardinality(B) \in Nat /\ Cardinality(B \cup {i + 1}) = Cardinality(B) + 1
      BY <1>1, <3>1, CountedOnce
    <3>6. checks'[c].cases = Cardinality(A') /\ checks'[c].pass = Cardinality(B')
      BY <2>1, <3>2, <3>3, <3>4, <3>5
    <3> QED BY <3>6 DEF A, B
  <2> QED BY <1>1, <2>1, <2>2 DEF ChecksAreCounts
<1>9. RowsAreCounts'
  <2> SUFFICES ASSUME NEW x \in Items
      PROVE coverage'[x].cases = Cardinality({j \in 1..i : x \in Cites[results[j].case]}')
    BY DEF RowsAreCounts
  <2> DEFINE A == {j \in 1..i : x \in Cites[results[j].case]}
  <2>1. A \in SUBSET (1..i) OBVIOUS
  <2>2. A' = IF x \in Cites[res.case] THEN A \cup {i + 1} ELSE A
    <3>1. 1..(i + 1) = (1..i) \cup {i + 1} BY <1>1
    <3> QED BY <1>1, <3>1 DEF res
  <2>3. coverage[x].cases = Cardinality(A) BY DEF SumsInv, RowsAreCounts
  <2>4. coverage'[x].cases = coverage[x].cases + (IF x \in Cites[res.case] THEN 1 ELSE 0)
    <3>1. coverage[x] \in Status BY DEF SumsInv
    <3>2. coverage[x].cases \in Nat BY <3>1 DEF Status
    <3>3. coverage'[x] = IF x \in Cites[res.case] THEN Recorded(coverage[x], res)
                         ELSE coverage[x]
      BY <1>1
    <3> QED BY <1>2, <3>1, <3>2, <3>3, Recording
  <2> HIDE DEF A
  <2>5. Cardinality(A) \in Nat /\ Cardinality(A \cup {i + 1}) = Cardinality(A) + 1
    BY <1>1, <2>1, CountedOnce
  <2>6. coverage'[x].cases = Cardinality(A') BY <2>2, <2>3, <2>4, <2>5
  <2> QED BY <2>6 DEF A
<1>8. SumsAreCounts' BY <1>4, <1>5, <1>6 DEF SumsAreCounts
<1> QED BY <1>4, <1>5, <1>6, <1>7, <1>8, <1>9 DEF SumsInv

------------------------------------------------------------------------------
(* The run. *)

LEMMA InitSInv == ScoreInit => SInv
<1> SUFFICES ASSUME ScoreInit PROVE SInv OBVIOUS
<1>1. CaseInv
  <2>1. at # "done" BY DEF ScoreInit, Init, Called
  <2> QED BY <2>1, InitInv DEF ScoreInit, CaseInv
<1>2. ResultsInv BY DEF ScoreInit, ResultsInv
<1>3. PhaseInv BY DEF ScoreInit, PhaseInv
<1>4. Nothing \in Tally /\ Untested \in Status
      /\ \A o \in Outcomes : Nothing[o] = 0 /\ Untested[o] = 0
  BY DEF Nothing, Untested, Tally, Status, Outcomes
<1>5. /\ i = 0 /\ totals = Nothing /\ byKind = [k \in Kinds |-> Nothing]
      /\ coverage = [x \in Items |-> Untested] /\ checks = [claim \in Claims |-> Nothing]
  BY DEF ScoreInit
<1>6. Cardinality({}) = 0 BY FS_EmptySet
<1>7. 1..i = {} /\ \A o \in Outcomes : Ended(o) = {} BY <1>5 DEF Ended
<1>8. SumsAreCounts
  <2>1. totals.cases = i BY <1>5 DEF Nothing
  <2>2. ASSUME NEW o \in Outcomes
        PROVE  /\ totals[o] = Cardinality(Ended(o))
               /\ \A k \in Kinds :
                    byKind[k][o] = Cardinality({j \in Ended(o) : results[j].case.kind = k})
               /\ \A x \in Items :
                    coverage[x][o] = Cardinality({j \in Ended(o) : x \in Cites[results[j].case]})
    <3>1. /\ \A k \in Kinds : {j \in Ended(o) : results[j].case.kind = k} = {}
          /\ \A x \in Items : {j \in Ended(o) : x \in Cites[results[j].case]} = {}
      BY <1>7
    <3> QED BY <1>4, <1>5, <1>6, <1>7, <3>1
  <2> QED BY <2>1, <2>2 DEF SumsAreCounts
<1>9. RowsAreCounts
  <2>1. \A x \in Items : {j \in 1..i : x \in Cites[results[j].case]} = {} BY <1>7
  <2> QED BY <1>5, <1>6, <2>1 DEF RowsAreCounts, Untested
<1>10. ChecksAreCounts
  <2>1. \A c \in Claims : {j \in 1..i : c \in results[j].challenged} = {}
                        /\ {j \in Ended("pass") : c \in results[j].challenged} = {}
    BY <1>7 DEF Outcomes
  <2> QED BY <1>5, <1>6, <2>1 DEF ChecksAreCounts, Nothing
<1>11. SumsInv BY <1>4, <1>5, <1>8, <1>9, <1>10 DEF SumsInv
<1> QED BY <1>1, <1>2, <1>3, <1>11 DEF SInv

\* The configuration is that of the run, whatever the case does.
LEMMA StepKeepsConf == IInv /\ Step => conf' = conf
<1> SUFFICES ASSUME IInv, Step PROVE conf' = conf OBVIOUS
<1>1. ASSUME NEW step, Goto(step) PROVE conf' = conf BY <1>1 DEF Goto
<1>2. ASSUME NEW res, Finish(res) PROVE conf' = conf BY <1>2 DEF Finish
<1>3. Ladder => conf' = conf
  <2>1. case.fixture \in {"none", "sound", "undefined"}
    BY CaseFields DEF IInv, TypeOK, CaseType
  <2>2. Fixture => conf' = conf BY <1>1, <1>2, <2>1 DEF Fixture
  <2> QED BY <1>1, <1>2, <2>2, Zenon DEF Ladder, Withdrawn, Spelling, Sizing, Reviewing, Declared
<1>4. Opening \/ Loading \/ Planning \/ Setup => conf' = conf
  BY <1>1, <1>2, Zenon DEF Opening, Loading, Planning, Setup
<1>5. Executing \/ Restoring \/ Explaining => conf' = conf
  BY <1>1, <1>2, Zenon DEF Executing, Restoring, Explaining
<1>6. Judging \/ Controlling => conf' = conf
  BY <1>1, <1>2, Zenon DEF Judging, Controlling
<1> QED BY <1>3, <1>4, <1>5, <1>6 DEF Step, Calling

LEMMA NextSInv == SInv /\ [ScoreNext]_all => SInv'
<1> SUFFICES ASSUME SInv, [ScoreNext]_all PROVE SInv' OBVIOUS
<1>1. CASE OfCase
  <2>1. conf' = conf BY <1>1, StepKeepsConf DEF OfCase, SInv, CaseInv
  <2>2. UNCHANGED <<phase, results, sums, policy, exit>> /\ phase = "run" /\ phase' = "run"
    BY <1>1 DEF OfCase, score
  <2>3. CaseInv' BY <1>1, CaseStep DEF SInv
  <2>4. ResultsInv' BY <2>1, <2>2 DEF SInv, ResultsInv
  <2>5. PhaseInv' BY <2>2 DEF SInv, PhaseInv, sums
  <2>6. SumsInv' BY <2>2, SumsKept DEF SInv
  <2> QED BY <2>3, <2>4, <2>5, <2>6 DEF SInv
<1>2. CASE Appended
  <2> DEFINE res == [case |-> case, outcome |-> r.outcome, skip |-> r.skip,
                     evidence |-> r.evidence, challenged |-> r.challenged, how |-> last.how,
                     code |-> last.status]
  <2>1. /\ phase = "run" /\ at = "done" /\ results' = Append(results, res)
        /\ UNCHANGED <<conf, live, sums, policy, exit>> /\ i' = i /\ i = 0
        /\ phase' \in {"run", "summarize"}
    BY <1>2 DEF Appended, SInv, PhaseInv, sums
  <2>2. res \in CaseResult /\ res.challenged \subseteq conf.lacks
    BY <2>1, AppendedResult DEF SInv
  <2> HIDE DEF res
  <2>3. CaseInv'
    <3>1. CASE \E c \in Cases : Called(c) BY <2>1, <3>1, NextCase DEF SInv
    <3>2. CASE UNCHANGED <<case, at, todo, last, control, r>>
      <4>1. UNCHANGED vars BY <2>1, <3>2 DEF vars, asking
      <4>2. IInv' BY <4>1, NextInv DEF SInv, CaseInv
      <4> QED BY <3>2, <4>2 DEF SInv, CaseInv
    <3> QED BY <1>2, <3>1, <3>2 DEF Appended
  <2>4. ResultsInv'
    <3>1. results \in Seq(CaseResult) BY DEF SInv, ResultsInv
    <3>2. /\ results' \in Seq(CaseResult) /\ Len(results') = Len(results) + 1
          /\ \A j \in 1..Len(results') :
               results'[j] = IF j = Len(results) + 1 THEN res ELSE results[j]
      BY <2>1, <2>2, <3>1
    <3>3. ASSUME NEW j \in 1..Len(results') PROVE results'[j].challenged \subseteq conf'.lacks
      <4>1. CASE j = Len(results) + 1 BY <2>1, <2>2, <3>2, <4>1
      <4>2. CASE j \in 1..Len(results) BY <2>1, <3>1, <3>2, <4>2 DEF SInv, ResultsInv
      <4> QED BY <3>1, <3>2, <4>1, <4>2
    <3> QED BY <3>2, <3>3 DEF ResultsInv
  <2>5. PhaseInv'
    <3>1. Len(results') \in Nat BY <2>4 DEF ResultsInv
    <3> QED BY <2>1, <3>1 DEF PhaseInv
  <2>6. SumsInv' BY <2>1, SumsKept DEF SInv
  <2> QED BY <2>3, <2>4, <2>5, <2>6 DEF SInv
<1>3. CASE Count
  <2>1. UNCHANGED <<vars, phase, results, policy, exit>> /\ phase = "summarize"
        /\ i < Len(results) /\ i' = i + 1
    BY <1>3 DEF Count
  <2>2. CaseInv'
    <3>1. IInv' BY <2>1, NextInv DEF SInv, CaseInv
    <3> QED BY <2>1, <3>1 DEF SInv, CaseInv, vars
  <2>3. ResultsInv' BY <2>1 DEF SInv, ResultsInv, vars
  <2>4. PhaseInv' BY <2>1 DEF SInv, PhaseInv, ResultsInv
  <2>5. SumsInv' BY <1>3, SumsCounted DEF SInv
  <2> QED BY <2>2, <2>3, <2>4, <2>5 DEF SInv
<1>4. CASE Leave
  <2>1. /\ UNCHANGED <<vars, results, sums>> /\ phase' = "exit" /\ i = Len(results) /\ i' = i
        /\ conf' = conf /\ totals' = totals /\ byKind' = byKind /\ checks' = checks
    BY <1>4 DEF Leave, sums, vars
  <2>2. CaseInv'
    <3>1. IInv' BY <2>1, NextInv DEF SInv, CaseInv
    <3> QED BY <2>1, <3>1 DEF SInv, CaseInv, vars
  <2>3. ResultsInv' BY <2>1 DEF SInv, ResultsInv
  <2>4. PhaseInv'
    <3>1. exit' = IF Wrong' THEN "nonzero" ELSE "zero"
      BY <1>4, <2>1 DEF Leave, Wrong, Alarm, Contradicted
    <3> QED BY <2>1, <3>1 DEF SInv, PhaseInv, ResultsInv
  <2>5. SumsInv' BY <2>1, SumsKept DEF SInv
  <2> QED BY <2>2, <2>3, <2>4, <2>5 DEF SInv
<1>5. CASE UNCHANGED all
  <2>1. UNCHANGED vars /\ UNCHANGED <<phase, results, sums, policy, exit>>
        /\ conf' = conf /\ i' = i /\ totals' = totals /\ byKind' = byKind /\ checks' = checks
    BY <1>5 DEF all, score, sums, vars
  <2>2. CaseInv'
    <3>1. IInv' BY <2>1, NextInv DEF SInv, CaseInv
    <3> QED BY <2>1, <3>1 DEF SInv, CaseInv, vars
  <2>3. ResultsInv' BY <2>1 DEF SInv, ResultsInv
  <2>4. PhaseInv' BY <2>1 DEF SInv, PhaseInv, Wrong, Alarm, Contradicted
  <2>5. SumsInv' BY <2>1, SumsKept DEF SInv
  <2> QED BY <2>2, <2>3, <2>4, <2>5 DEF SInv
<1> QED BY <1>1, <1>2, <1>3, <1>4, <1>5 DEF ScoreNext

LEMMA Scored == ScoreSpec => []SInv
<1>1. ScoreInit => SInv BY InitSInv
<1>2. SInv /\ [ScoreNext]_all => SInv' BY NextSInv
<1> QED BY <1>1, <1>2, PTL DEF ScoreSpec

------------------------------------------------------------------------------
(* What is read off the counts. *)

\* A count is zero for the empty set, and reaches that of a larger set when it
\* is the larger set.
LEMMA CountsTell ==
  ASSUME NEW n \in Nat, NEW A \in SUBSET (1..n), NEW B \in SUBSET A
  PROVE  /\ Cardinality(A) \in Nat /\ (Cardinality(A) > 0 <=> A # {})
         /\ Cardinality(B) = Cardinality(A) <=> B = A
<1>1. IsFiniteSet(A)
  <2>1. IsFiniteSet(1..n) BY FS_Interval
  <2> QED BY <2>1, FS_Subset
<1>2. Cardinality(A) \in Nat /\ (Cardinality(A) = 0 <=> A = {})
  BY <1>1, FS_CardinalityType, FS_EmptySet
<1>3. Cardinality(A) > 0 <=> A # {}
  <2>1. \A m \in Nat : m > 0 <=> m # 0 OBVIOUS
  <2> QED BY <1>2, <2>1, Zenon
<1>4. Cardinality(B) = Cardinality(A) => A = B BY <1>1, FS_Subset
<1> QED BY <1>2, <1>3, <1>4, Zenon

\* summarize: the scoreboard, its three kinds and every row of the coverage
\* tables count the results that have been gone over, each of them once and under
\* its own outcome.
THEOREM CountsOfRun == ScoreSpec => []SumsAreCounts
<1>1. SInv => SumsAreCounts BY DEF SInv, SumsInv
<1> QED BY <1>1, Scored, PTL

\* record and Supported: an item reads as supported exactly when some case of
\* the run claims it and all that claim it passed.
THEOREM SupportIsPasses == ScoreSpec => []SupportedMeansPassed
<1>1. SInv => SupportedMeansPassed
  <2> SUFFICES ASSUME SInv, phase = "exit", NEW x \in Items
      PROVE LET claiming == {j \in 1..Len(results) : x \in Cites[results[j].case]}
            IN  Supported(coverage[x]) <=>
                  claiming # {} /\ \A j \in claiming : results[j].outcome = "pass"
    BY DEF SupportedMeansPassed
  <2> DEFINE A == {j \in 1..i : x \in Cites[results[j].case]}
             B == {j \in Ended("pass") : x \in Cites[results[j].case]}
  <2>1. i = Len(results) /\ i \in Nat BY DEF SInv, PhaseInv, ResultsInv
  <2>2. A \in SUBSET (1..i) /\ B \in SUBSET A BY DEF Ended
  <2>3. coverage[x].cases = Cardinality(A) /\ coverage[x].pass = Cardinality(B)
    <3>1. "pass" \in Outcomes BY DEF Outcomes
    <3>2. coverage[x]["pass"] = Cardinality(B) BY <3>1 DEF SInv, SumsInv, SumsAreCounts
    <3> QED BY <3>2 DEF SInv, SumsInv, RowsAreCounts
  <2>4. B = A <=> \A j \in A : results[j].outcome = "pass" BY DEF Ended
  <2> HIDE DEF A, B
  <2>5. /\ Cardinality(A) \in Nat /\ (Cardinality(A) > 0 <=> A # {})
        /\ Cardinality(B) = Cardinality(A) <=> B = A
    BY <2>1, <2>2, CountsTell
  <2>6. Supported(coverage[x]) <=> A # {} /\ \A j \in A : results[j].outcome = "pass"
    BY <2>3, <2>4, <2>5 DEF Supported
  <2> QED BY <2>1, <2>6 DEF A
<1> QED BY <1>1, Scored, PTL

\* verdict of the command: an ordinary run exits with zero exactly when no case
\* ended in a harness error and none that the policy looks at failed.
THEOREM ExitIsTrue == ScoreSpec => []ExitTellsTheRun
<1>1. SInv => ExitTellsTheRun
  <2> SUFFICES ASSUME SInv, phase = "exit", ~conf.challenge
      PROVE exit = "zero" <=> \A j \in 1..Len(results) :
              /\ results[j].outcome # "error"
              /\ results[j].outcome = "fail" =>
                   ~(policy = "any" \/ (policy = "mandatory" /\ results[j].case.kind = "mandatory"))
    BY DEF ExitTellsTheRun
  <2> DEFINE M == {j \in Ended("fail") : results[j].case.kind = "mandatory"}
  <2>1. i = Len(results) /\ i \in Nat /\ (exit = "zero" <=> ~Alarm(policy))
    BY DEF SInv, PhaseInv, ResultsInv, Wrong
  <2>2. /\ Ended("error") \in SUBSET (1..i) /\ Ended("fail") \in SUBSET (1..i)
        /\ M \in SUBSET (1..i)
    BY DEF Ended
  <2>3. /\ totals.error = Cardinality(Ended("error")) /\ totals.fail = Cardinality(Ended("fail"))
        /\ byKind["mandatory"].fail = Cardinality(M)
    <3>1. /\ "error" \in Outcomes /\ "fail" \in Outcomes /\ "mandatory" \in Kinds
      BY DEF Outcomes, Kinds
    <3>2. /\ totals["error"] = Cardinality(Ended("error"))
          /\ totals["fail"] = Cardinality(Ended("fail"))
          /\ byKind["mandatory"]["fail"] = Cardinality(M)
      BY <3>1 DEF SInv, SumsInv, SumsAreCounts
    <3> QED BY <3>2
  <2> HIDE DEF M
  <2>4. \A S \in SUBSET (1..i) : Cardinality(S) > 0 <=> S # {} BY <2>1, CountsTell
  <2>5. Alarm(policy) <=>
          (Ended("error") # {} \/ (policy = "mandatory" /\ M # {})
                               \/ (policy = "any" /\ Ended("fail") # {}))
    BY <2>2, <2>3, <2>4 DEF Alarm
  <2> QED BY <2>1, <2>5 DEF M, Ended
<1> QED BY <1>1, Scored, PTL

\* declarations and the command: a challenging run exits red exactly when the
\* cases some claim of the adapter had kept from the engine all passed, and there
\* was one.
THEOREM AlarmIsContradiction == ScoreSpec => []AlarmMeansAllPassed
<1>1. SInv => AlarmMeansAllPassed
  <2> SUFFICES ASSUME SInv, phase = "exit", conf.challenge
      PROVE exit = "nonzero" <=> \E claim \in conf.lacks :
              LET excluded == {j \in 1..Len(results) : claim \in results[j].challenged}
              IN  excluded # {} /\ \A j \in excluded : results[j].outcome = "pass"
    BY DEF AlarmMeansAllPassed
  <2> DEFINE A(c) == {j \in 1..i : c \in results[j].challenged}
             B(c) == {j \in Ended("pass") : c \in results[j].challenged}
  <2>1. /\ i = Len(results) /\ i \in Nat
        /\ exit = "nonzero" <=> \E claim \in Claims : Contradicted(checks[claim])
    BY DEF SInv, PhaseInv, ResultsInv, Wrong
  <2>2. conf.lacks \subseteq Claims
    <3>1. conf \in ConfigType BY VerdictAssumption DEF SInv, CaseInv, IInv, TypeOK
    <3> QED BY <3>1 DEF ConfigType
  <2>3. ASSUME NEW c \in Claims
        PROVE  Contradicted(checks[c]) <=>
                 A(c) # {} /\ \A j \in A(c) : results[j].outcome = "pass"
    <3>1. A(c) \in SUBSET (1..i) /\ B(c) \in SUBSET A(c) BY DEF Ended
    <3>2. checks[c].cases = Cardinality(A(c)) /\ checks[c].pass = Cardinality(B(c))
      BY DEF SInv, SumsInv, ChecksAreCounts
    <3>3. B(c) = A(c) <=> \A j \in A(c) : results[j].outcome = "pass" BY DEF Ended
    <3> HIDE DEF A, B
    <3>4. /\ Cardinality(A(c)) \in Nat /\ (Cardinality(A(c)) > 0 <=> A(c) # {})
          /\ Cardinality(B(c)) = Cardinality(A(c)) <=> B(c) = A(c)
      BY <2>1, <3>1, CountsTell
    <3> QED BY <3>2, <3>3, <3>4 DEF Contradicted
  <2>4. ASSUME NEW c, A(c) # {} PROVE c \in conf.lacks
    BY <2>1, <2>4 DEF SInv, ResultsInv
  <2> QED BY <2>1, <2>2, <2>3, <2>4
<1> QED BY <1>1, Scored, PTL
=============================================================================
