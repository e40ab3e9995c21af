--------------------------- MODULE MCScoreboard ---------------------------
(* Seven cases that end in every outcome, two of them claiming the same item. *)
EXTENDS Scoreboard

Plain ==
  [ kind |-> "mandatory", unprovokable |-> FALSE, spelled |-> FALSE, scaled |-> "no",
    reviewed |-> FALSE, needs |-> {}, fixture |-> "none", expect |-> "accept",
    status |-> NoStatus, also |-> {}, contains |-> FALSE, diagnostic |-> FALSE,
    unless |-> FALSE, limit |-> FALSE, parses |-> FALSE, route |-> "ordinary",
    restored |-> FALSE ]
Optional == [Plain EXCEPT !.kind = "optional", !.needs = {"feature"}]
Refused == [Plain EXCEPT !.expect = "reject", !.needs = {"parameters"}]
Condition == [Plain EXCEPT !.kind = "condition", !.expect = "error", !.status = "named"]
Controlled == [Condition EXCEPT !.parses = TRUE]
Worded == [Condition EXCEPT !.contains = TRUE]
Withheld == [Condition EXCEPT !.unprovokable = TRUE]
Limited == [Condition EXCEPT !.limit = TRUE]

MCCases == {Plain, Optional, Refused, Controlled, Worded, Withheld, Limited}
MCCites ==
  [c \in MCCases |-> IF c.kind = "condition" THEN {"condition"}
                     ELSE IF c.kind = "optional" THEN {"clause", "option"} ELSE {"clause"}]
MCConfigs ==
  [ mode : {"conformance"}, challenge : BOOLEAN, injects : {FALSE},
    lacks : {{}, {"gqlstatus", "parameters", "feature"}} ]
=============================================================================
