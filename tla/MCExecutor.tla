----------------------------- MODULE MCExecutor -----------------------------
(***************************************************************************)
(* Executor for TLC: the kinds of case the corpus has, one record each, so *)
(* that a suite is any sequence of them.                                   *)
(***************************************************************************)
EXTENDS ExecutorInvariant

CONSTANTS f, g, blank, none

Read(fx)   == [Reading(fx) EXCEPT !.repeat = 0]
Write(fx)  == [Reading(fx) EXCEPT !.mutating = TRUE]
Kept(fx)   == [Write(fx) EXCEPT !.restore = "no", !.repeat = 2]
Staged(fx) == [Write(fx) EXCEPT !.setup = TRUE]
Condition(fx) == [Write(fx) EXCEPT !.failing = TRUE, !.parses = TRUE]
Fault(fx)  == [Staged(fx) EXCEPT !.shape = "fault", !.failing = TRUE]
Close1(fx) == [Reading(fx) EXCEPT !.shape = "closing"]

MCFixtures == {f, g, blank}
AllCases ==
  { Read(f), Read(none), Write(f), Write(g), Write(none), Kept(f), Staged(f),
    Condition(f), Fault(f), Close1(none) }
RepeatedWrites == { [Write(f) EXCEPT !.repeat = 2] }
MCProbed == {f, none}
MCCosts == {0, 1, 3}
=============================================================================
