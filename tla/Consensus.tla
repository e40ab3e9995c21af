------------------------------ MODULE Consensus ------------------------------
(***************************************************************************)
(* Package consensus: what several reports say of the same cases, the      *)
(* queue of those every judging engine failed, and the file of what was    *)
(* decided about them.  A report gives an outcome for each case it holds.  *)
(***************************************************************************)
EXTENDS Integers, Sequences, FiniteSets, SequencesExt

Outcomes == {"pass", "fail", "skip", "error"}
MinEngines == 2

(***************************************************************************)
(* Compare                                                                 *)
(***************************************************************************)

\* Two reports at the least, and no adapter twice.
Comparable(reports) ==
  /\ Len(reports) >= 2
  /\ \A i, j \in DOMAIN reports : reports[i].adapter = reports[j].adapter => i = j

CaseIDs(reports) == UNION {DOMAIN reports[i].cases : i \in DOMAIN reports}

\* The engines that have this outcome for a case.
Engines(reports, c, outcome) ==
  {reports[i].adapter : i \in {k \in DOMAIN reports :
     c \in DOMAIN reports[k].cases /\ reports[k].cases[c] = outcome}}

Passed(reports, c) == Engines(reports, c, "pass")
Failed(reports, c) == Engines(reports, c, "fail")
Judged(reports, c) == Cardinality(Passed(reports, c)) + Cardinality(Failed(reports, c))

\* Mutant NobodyPassed: one engine that failed is enough.
NobodyPassed(reports, c) == Passed(reports, c) = {} /\ Failed(reports, c) # {}
Unanimous(reports, c) ==
  Passed(reports, c) = {} /\ Cardinality(Failed(reports, c)) >= MinEngines
Divided(reports, c) == Passed(reports, c) # {} /\ Failed(reports, c) # {}

Review(reports) == {c \in CaseIDs(reports) : Unanimous(reports, c)}
Thin(reports) == Len(reports) < 3

Modes(reports) == {reports[i].mode : i \in DOMAIN reports} \ {""}
MixedModes(reports) == Cardinality(Modes(reports)) > 1

\* Summarize, which takes the first of the four that fits.
Group(reports, c) ==
  IF Judged(reports, c) < 2 THEN "unjudged"
  ELSE IF Divided(reports, c) THEN "divided"
  ELSE IF Failed(reports, c) = {} THEN "all passed"
  ELSE "all failed"

(***************************************************************************)
(* The file of dispositions                                                *)
(***************************************************************************)
Verdicts == {"corpus-bug", "shared-gap", "ambiguous", "harness-limit"}

Entry(c, verdict, noted) == [case |-> c, verdict |-> verdict, noted |-> noted]

\* A file is taken whole or not at all.
\* Mutant TakesHalf: a case that is decided twice is not noticed.
TakesHalf(version, entries) ==
  /\ version \in {0, 1}
  /\ \A i \in DOMAIN entries :
       entries[i].case # "" /\ entries[i].verdict \in Verdicts /\ entries[i].noted
Readable(version, entries) ==
  /\ version \in {0, 1}
  /\ \A i \in DOMAIN entries :
       entries[i].case # "" /\ entries[i].verdict \in Verdicts /\ entries[i].noted
  /\ \A i, j \in DOMAIN entries : entries[i].case = entries[j].case => i = j

\* The last entry for a case is the one that stays in the map.
Read(entries) ==
  [c \in {entries[i].case : i \in DOMAIN entries} |->
     entries[CHOOSE i \in DOMAIN entries :
               /\ entries[i].case = c
               /\ \A j \in DOMAIN entries : entries[j].case = c => j <= i].verdict]

Undisposed(reports, decided) == Review(reports) \ DOMAIN decided
Stale(reports, decided) == DOMAIN decided \ Review(reports)
ByVerdict(reports, decided, v) ==
  {c \in Review(reports) \cap DOMAIN decided : decided[c] = v}

\* Template: an entry for each case nobody has decided, left to be filled in.
Template(reports, decided) ==
  {Entry(c, "", FALSE) : c \in Undisposed(reports, decided)}
=============================================================================
