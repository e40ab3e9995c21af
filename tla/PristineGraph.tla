---------------------------- MODULE PristineGraph ----------------------------
(***************************************************************************)
(* What the executor promises a case or a probe about its fixture, stated  *)
(* as though there were no sharing at all: each piece of work takes a      *)
(* graph made for it, prepares it, applies its statement to it and lets go *)
(* of it.  How often the fixture is really ingested, which session holds   *)
(* it and what failed on the way is of no concern here.                    *)
(***************************************************************************)
EXTENDS Naturals

CONSTANTS Graphs,   \* the fixtures
          Idle      \* nobody holds a graph; not one of Graphs

VARIABLES
  made,      \* the fixture the held graph was made from, or Idle
  staged,    \* the work has setup statements
  once,      \* the graph is to be put back before another application
  prepared,  \* times the setup has taken effect on it
  applied    \* times the statement under test has taken effect on it

view == <<made, staged, once, prepared, applied>>

Unheld ==
  made = Idle /\ staged = FALSE /\ once = FALSE /\ prepared = 0 /\ applied = 0

Init == Unheld

Take ==
  /\ made = Idle
  /\ made' \in Graphs /\ staged' \in BOOLEAN /\ once' \in BOOLEAN
  /\ prepared' = 0 /\ applied' = 0

\* The setup is applied once, and before the statement.
Prepare ==
  /\ made # Idle /\ staged /\ prepared = 0 /\ applied = 0
  /\ prepared' = 1
  /\ UNCHANGED <<made, staged, once, applied>>

\* The statement finds its setup in place, and where the graph is to be put
\* back after each execution it finds no earlier execution's work.
Apply ==
  /\ made # Idle
  /\ staged => prepared = 1
  /\ once => applied = 0
  /\ applied' = applied + 1
  /\ UNCHANGED <<made, staged, once, prepared>>

Release == made # Idle /\ Unheld'

Next == Take \/ Prepare \/ Apply \/ Release

Spec == Init /\ [][Next]_view
=============================================================================
