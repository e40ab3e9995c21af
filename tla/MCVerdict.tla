----------------------------- MODULE MCVerdict -----------------------------
(* Cases and engines for Verdict: two codes beside the syntax error, one      *)
(* optional feature, one fixture capability.                                  *)
EXTENDS Verdict

Plain ==
  [ kind |-> "mandatory", unprovokable |-> FALSE, spelled |-> FALSE, scaled |-> "no",
    reviewed |-> FALSE, needs |-> {}, fixture |-> "none", expect |-> "accept",
    status |-> NoStatus, also |-> {}, contains |-> FALSE, diagnostic |-> FALSE,
    unless |-> FALSE, limit |-> FALSE, parses |-> FALSE, route |-> "ordinary",
    restored |-> FALSE ]

Answered ==
  {[Plain EXCEPT !.expect = e] : e \in {"reject", "empty", "rows", "error"}}
  \cup {[Plain EXCEPT !.expect = "rows", !.status = "named"]}
Needing ==
  {[Plain EXCEPT !.needs = n, !.fixture = "sound", !.restored = b] :
     n \in {{}, {"parameters"}, {"multiple-statements", "feature"}, {"transactions", "data"}},
     b \in BOOLEAN}
Absences == {[Plain EXCEPT !.fixture = "undefined"], [Plain EXCEPT !.spelled = TRUE]}
WalkedCases == {[Plain EXCEPT !.kind = "generated", !.reviewed = b] : b \in BOOLEAN}

Condition == [Plain EXCEPT !.kind = "condition", !.expect = "error", !.status = "named"]
Conditions ==
  {[Condition EXCEPT !.also = a, !.contains = c, !.diagnostic = d, !.parses = p] :
     a \in {{}, {"other"}}, c \in BOOLEAN, d \in BOOLEAN, p \in BOOLEAN}
Excused ==
  { [Condition EXCEPT !.unprovokable = TRUE], [Condition EXCEPT !.unless = TRUE],
    [Condition EXCEPT !.limit = TRUE, !.scaled = "undeclared"],
    [Condition EXCEPT !.limit = TRUE, !.scaled = "declared"],
    [Condition EXCEPT !.route = "fault", !.needs = {"multiple-statements"}],
    [Condition EXCEPT !.route = "closing"] }

MCCases ==
  Answered \cup Needing \cup Absences \cup WalkedCases \cup Conditions \cup Excused

MCConfigs ==
  [ mode : {"conformance", "compat"}, challenge : BOOLEAN, injects : BOOLEAN,
    lacks : {{}, {"gqlstatus"}, {"parameters", "multiple-statements", "feature", "data"}} ]
=============================================================================
