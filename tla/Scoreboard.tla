----------------------------- MODULE Scoreboard -----------------------------
(***************************************************************************)
(* A run of several cases and what is published of it: Run's loop over the *)
(* suite, summarize and declarations of runner/result.go, and the exit     *)
(* status of cmd/gql-compat/run.go.  Each case goes through Verdict.       *)
(***************************************************************************)
EXTENDS Verdict, Sequences

CONSTANTS
  Items,        \* features, subclauses, conditions and productions of the standard
  Cites,        \* which of them each case claims
  MaxCases      \* bound: cases of one run

ASSUME ScoreboardAssumption ==
  /\ Cites \in [Cases -> SUBSET Items]
  /\ MaxCases \in Nat

VARIABLES
  phase,        \* the cases, the sums over them, or the exit
  results,      \* Report.Cases
  i,            \* how many of them have been counted
  totals,       \* Totals
  byKind,       \* Totals.ByKind
  weak,         \* Totals.WeakEvidence
  coverage,     \* Coverage: a Status for every item
  checks,       \* Report.Declarations, by claim
  policy,       \* -fail-on, once verdict has been called with it
  exit          \* what verdict turned the report into
sums == <<i, totals, byKind, weak, coverage, checks>>
score == <<phase, results, sums, policy, exit>>
all == <<vars, score>>

Policies == {"mandatory", "any", "none"}
Tally == [cases : Nat, pass : Nat, fail : Nat, skip : Nat, error : Nat]
Status == [cases : Nat, pass : Nat, fail : Nat, skip : Nat, error : Nat,
           unreachable : Nat, measured : Nat]
CaseResult == [case : Cases, outcome : Outcomes, skip : Skips, evidence : Evidences,
               challenged : SUBSET Claims, how : {"not asked", "accepted", "refused",
               "timeout", "transport", "unsupported"}, code : Statuses \cup {NoStatus}]

ScoreTypeOK ==
  /\ TypeOK
  /\ phase \in {"run", "summarize", "exit"}
  /\ results \in Seq(CaseResult) /\ Len(results) <= MaxCases
  /\ i \in 0..Len(results) /\ totals \in Tally /\ byKind \in [Kinds -> Tally]
  /\ weak \in Nat /\ coverage \in [Items -> Status] /\ checks \in [Claims -> Tally]
  /\ policy \in Policies \cup {"unread"} /\ exit \in {"none", "zero", "nonzero"}

Nothing == [cases |-> 0, pass |-> 0, fail |-> 0, skip |-> 0, error |-> 0]
Untested == [cases |-> 0, pass |-> 0, fail |-> 0, skip |-> 0, error |-> 0,
             unreachable |-> 0, measured |-> 0]

ScoreInit ==
  /\ Init /\ phase = "run" /\ results = <<>> /\ i = 0 /\ weak = 0
  /\ totals = Nothing /\ byKind = [k \in Kinds |-> Nothing]
  /\ coverage = [x \in Items |-> Untested] /\ checks = [claim \in Claims |-> Nothing]
  /\ policy = "unread" /\ exit = "none"

------------------------------------------------------------------------------
OfCase == phase = "run" /\ Step /\ UNCHANGED score

\* The result is appended, and the next case goes on with the session this one
\* left, unless the suite is through or the run was interrupted.
Appended ==
  /\ phase = "run" /\ at = "done"
  /\ results' = Append(results,
       [case |-> case, outcome |-> r.outcome, skip |-> r.skip, evidence |-> r.evidence,
        challenged |-> r.challenged, how |-> last.how, code |-> last.status])
  /\ UNCHANGED <<conf, live, sums, policy, exit>>
  /\ \/ /\ Len(results) + 1 < MaxCases /\ UNCHANGED phase
        /\ \E c \in Cases : Called(c)
     \/ phase' = "summarize" /\ UNCHANGED <<case, at, todo, last, control, r>>

Counted(t, outcome) == [t EXCEPT !.cases = @ + 1, ![outcome] = @ + 1]

\* record; unreachable is what no client can raise on this engine.
\* Mutant RecordVerdicts: a case that was not judged does not count.
Unreachable(reason) == reason \in {"feature-present", "not-provokable"}
RecordVerdicts(st, res) ==
  IF res.outcome \in {"pass", "fail"} THEN Counted(st, res.outcome) ELSE st
Recorded(st, res) ==
  [Counted(st, res.outcome) EXCEPT
     !.unreachable = @ + (IF Unreachable(res.skip) THEN 1 ELSE 0),
     !.measured    = @ + (IF res.skip = "within-limit" THEN 1 ELSE 0)]

\* One turn of the loops of summarize and declarations, which go over the same
\* results and share nothing.
Count ==
  /\ phase = "summarize" /\ i < Len(results)
  /\ LET res == results[i + 1]
     IN  /\ i' = i + 1
         /\ totals' = Counted(totals, res.outcome)
         /\ byKind' = [byKind EXCEPT ![res.case.kind] = Counted(@, res.outcome)]
         /\ weak' = weak + (IF res.outcome = "pass" /\ res.evidence = "message" THEN 1 ELSE 0)
         /\ coverage' = [x \in Items |-> IF x \in Cites[res.case]
                           THEN Recorded(coverage[x], res) ELSE coverage[x]]
         /\ checks' = [claim \in Claims |-> IF claim \in res.challenged
                         THEN Counted(checks[claim], res.outcome) ELSE checks[claim]]
  /\ UNCHANGED <<vars, phase, results, policy, exit>>

Supported(st) == st.cases > 0 /\ st.pass = st.cases
\* Mutant SomePassed: one pass contradicts a claim.
SomePassed(d) == d.pass > 0
Contradicted(d) == d.cases > 0 /\ d.pass = d.cases

\* verdict of the command, which a challenging run leaves to the declarations.
\* Mutant FailuresOnly: harness errors are overlooked.
FailuresOnly(p) ==
  \/ p = "mandatory" /\ byKind["mandatory"].fail > 0
  \/ p = "any" /\ totals.fail > 0
Alarm(p) ==
  \/ totals.error > 0
  \/ p = "mandatory" /\ byKind["mandatory"].fail > 0
  \/ p = "any" /\ totals.fail > 0

Leave ==
  /\ phase = "summarize" /\ i = Len(results) /\ phase' = "exit"
  /\ \E p \in Policies :
       /\ policy' = p
       /\ LET wrong == IF conf.challenge
                       THEN \E claim \in Claims : Contradicted(checks[claim]) ELSE Alarm(p)
          IN  exit' = IF wrong THEN "nonzero" ELSE "zero"
  /\ UNCHANGED <<vars, results, sums>>

ScoreNext == OfCase \/ Appended \/ Count \/ Leave
ScoreSpec == ScoreInit /\ [][ScoreNext]_all

------------------------------------------------------------------------------
(***************************************************************************)
(* Properties                                                              *)
(***************************************************************************)

\* The results counted so far with one outcome.
Ended(o) == {j \in 1..i : results[j].outcome = o}

\* The scoreboard and every row of the coverage tables are counts of results:
\* no case is counted twice, left out or counted under another outcome.
SumsAreCounts ==
  /\ totals.cases = i
  /\ \A o \in Outcomes :
       /\ totals[o] = Cardinality(Ended(o))
       /\ \A k \in Kinds :
            byKind[k][o] = Cardinality({j \in Ended(o) : results[j].case.kind = k})
       /\ \A x \in Items :
            coverage[x][o] = Cardinality({j \in Ended(o) : x \in Cites[results[j].case]})

\* An item of the standard reads as supported exactly when a case claims it and
\* every case of the run that claims it passed: a skip or an error denies it.
SupportedMeansPassed ==
  phase = "exit" => \A x \in Items :
    LET claiming == {j \in 1..Len(results) : x \in Cites[results[j].case]}
    IN  Supported(coverage[x]) <=>
          claiming # {} /\ \A j \in claiming : results[j].outcome = "pass"

\* A green exit of an ordinary run: every case that ran was measured, and none
\* the policy looks at failed; and a red one has such a case to show.
ExitTellsTheRun ==
  phase = "exit" /\ ~conf.challenge =>
    (exit = "zero" <=> \A j \in 1..Len(results) :
       /\ results[j].outcome # "error"
       /\ results[j].outcome = "fail" =>
            ~(policy = "any" \/ (policy = "mandatory" /\ results[j].case.kind = "mandatory")))

\* A challenging run alarms exactly over a claim the adapter made, that kept at
\* least one case of an ordinary run from the engine, and whose cases all passed.
AlarmMeansAllPassed ==
  phase = "exit" /\ conf.challenge =>
    (exit = "nonzero" <=> \E claim \in conf.lacks :
       LET excluded == {j \in 1..Len(results) : claim \in results[j].challenged}
       IN  excluded # {} /\ \A j \in excluded : results[j].outcome = "pass")

-----------------------------------------------------------------------------
(* What the code says of itself, and does not keep to. *)

\* "A claim is contradicted when every case it excluded passed, which is the one
\* outcome an engine that lacks the thing cannot produce" (report/markdown.go):
\* so one of them was accepted, or refused with a code.
LackCannotPass ==
  phase = "exit" => \A claim \in Claims :
    Contradicted(checks[claim]) => \E j \in 1..Len(results) :
      /\ claim \in results[j].challenged
      /\ results[j].how = "accepted" \/ results[j].code # NoStatus
=============================================================================
