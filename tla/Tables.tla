------------------------------- MODULE Tables -------------------------------
(***************************************************************************)
(* What the harness works out from what it was given, once and in one      *)
(* place: a table against the expected one, several reports against each   *)
(* other and the file of what was decided about them, the weight of a      *)
(* store against the graph in it, and the file a fixture is staged in.  A  *)
(* step takes one question.                                                *)
(***************************************************************************)
EXTENDS Rows, Consensus, Density, Staging

CONSTANTS
  TableSet, OptionSet,        \* tables, and Options
  ReportSeqs, Files,          \* reports, and files: a version and entries
  Stores,                     \* stores, with what is true of them
  FixtureSet,                 \* fixtures
  EngineCapabilities          \* what the engine says it can hold

\* What a question can be about: tables and reports are sequences, every cell
\* has its place among the renderings, and what was weighed has a size.
ASSUME TablesAssumption ==
  /\ \A t \in TableSet :
       Listing(t.rows) /\ \A i \in DOMAIN t.rows : Listing(t.rows[i])
  /\ \A t \in TableSet : \A c \in Cells(t) : Text(c) \in Int
  /\ \A reports \in ReportSeqs : Listing(reports)
  /\ \A file \in Files : Listing(file.entries)
  /\ \A s \in Stores :
       /\ {s.fixed, s.graph, s.pad, s.schema, s.empty, s.unit} \subseteq Nat
       /\ s.nodes \in Nat /\ s.edges \in Nat
       /\ s.pad < s.unit
  /\ \A fx \in FixtureSet : Written(fx)
  /\ "Node" \in Identifiers

VARIABLE subject   \* the question in hand, with its answer

vars == <<subject>>

Init == subject = [of |-> "nothing"]

\* Compare(want, got, opt).
CompareTables ==
  \E want \in {t \in TableSet : ~t.nil}, got \in TableSet, opt \in OptionSet :
    subject' = [of |-> "rows", want |-> want, got |-> got, opt |-> opt,
                differ |-> Differ(want, got, opt)]

\* The consensus command, with the file where it can be read.
CompareReports ==
  \E reports \in ReportSeqs, file \in Files :
    /\ Comparable(reports)
    /\ subject' = [of |-> "consensus", reports |-> reports, entries |-> file.entries,
                   readable |-> Readable(file.version, file.entries),
                   review |-> Review(reports)]

\* A store that was weighed: fixed bytes, those of the graph, what the last
\* allocation unit of it was rounded up by, and what could be found out.
Known(store) ==
  Load(store.fixed + store.graph + store.pad,
       IF "schema floor" \in store.known THEN store.fixed ELSE 0,
       IF "schema" \in store.known THEN store.schema ELSE 0,
       IF "empty" \in store.known THEN store.empty ELSE 0,
       IF "unit" \in store.known THEN store.unit ELSE 0,
       store.nodes, store.edges)

WeighStore ==
  \E store \in Stores :
    subject' = [of |-> "density", store |-> store, load |-> Known(store)]

\* A load of zu, of a fixture that is not skipped.
StageFixture ==
  \E fx \in FixtureSet, rows \in BOOLEAN :
    /\ Valid(fx) /\ Missing(fx, EngineCapabilities) = {}
    /\ subject' = [of |-> "staging", fixture |-> fx, rows |-> rows, file |-> Staged(fx, rows)]

Next ==
  /\ subject.of = "nothing"
  /\ CompareTables \/ CompareReports \/ WeighStore \/ StageFixture

Spec == Init /\ [][Next]_vars

-----------------------------------------------------------------------------
(***************************************************************************)
(* Properties                                                              *)
(***************************************************************************)

Asked(what) == subject.of = what

\* A case passes on its rows only if the table is the one that was asked for:
\* the rows are equal one by one, or in some order where none was asked for.
PassIsDeserved ==
  Asked("rows") /\ ~subject.differ => Describes(subject.want, subject.got, subject.opt)

\* A case fails on its rows only if it is not, as long as rendering tells the
\* values apart that equal does and no others.
FailureIsDeserved ==
  Asked("rows") /\ RenderingTells(subject.want, subject.got, subject.opt) =>
    (subject.differ => ~Describes(subject.want, subject.got, subject.opt))

\* The queue is the group that is counted as failed by all: Unanimous and the
\* four groups of the summary are two readings of the same verdicts.
QueueIsAllFailed ==
  Asked("consensus") =>
    subject.review = {c \in CaseIDs(subject.reports) :
                        Group(subject.reports, c) = "all failed"}

\* Whatever a file that loads says is shown: under its verdict while the case
\* is queued, and as stale when it is not; and what is left is the template.
EveryDecisionCounted ==
  Asked("consensus") /\ subject.readable =>
    LET decided == Read(subject.entries)
        reports == subject.reports
    IN  /\ \A i \in DOMAIN subject.entries :
             LET e == subject.entries[i]
             IN  IF e.case \in subject.review
                 THEN {v \in Verdicts : e.case \in ByVerdict(reports, decided, v)} = {e.verdict}
                 ELSE e.case \in Stale(reports, decided)
        /\ {e.case : e \in Template(reports, decided)} =
             subject.review \ {subject.entries[i].case : i \in DOMAIN subject.entries}

\* What is divided and is no part of the graph.
Charged(l, s) == Over(l) - s.graph

\* What an engine attributes to the schema less than the fixed part is.
Slack(l, s) == IF Floor(l) = "engine" THEN s.fixed - s.schema ELSE 0

\* A density that is published is of the graph, but for the error that the code
\* allows on its route.  Where the fixed part comes off, what is
\* divided is the graph, its rounding and the engine's slack; and where the
\* unit is known the rounding is a tenth of it at the most.  Where the store is
\* divided whole, a fixed part that is no more than an empty store is a tenth
\* of it at the most; and one of any size comes to no more for each element
\* than an empty store weighs.
ErrorIsBounded ==
  Asked("density") /\ DensityOK(subject.load) =>
    LET l == subject.load
        s == subject.store
        elements == Larger(s.nodes, s.edges)
    IN  /\ Exact(l) => Charged(l, s) = s.pad + Slack(l, s)
        /\ Exact(l) /\ l.unit > 0 => 10 * s.pad <= Over(l)
        /\ ~Exact(l) /\ s.fixed <= s.empty => 10 * s.fixed <= Over(l)
        /\ ~Exact(l) /\ elements > 0 => Charged(l, s) \div elements <= s.empty

\* The converter reads the fixture in the file, node for node and edge for
\* edge with every label and value, as long as its counts fit in 64 bits; and
\* in the file of its shape a table for each of its labels and edge types, with
\* a column for each property, and nothing else.
StagedIsFixture ==
  Asked("staging") /\ subject.file.made =>
    LET fx == subject.fixture
        db == subject.file
    IN  /\ subject.rows /\ InRange(fx) => Holds(db, fx)
        /\ ~subject.rows =>
             /\ NodeIds(db) = {} /\ EdgeIds(db) = {}
             /\ \A n \in Nodes(fx) : DOMAIN n.props \subseteq DOMAIN db.nodes[TableOf(n)].columns.types
             /\ \A e \in Edges(fx) : DOMAIN e.props \subseteq DOMAIN db.rels[TypeOf(e)].columns.types

\* A fixture is refused for what it is and not for the order it is written in:
\* it is staged if the format has a place for it and its names are free.
RefusedForWhatItIs ==
  Asked("staging") =>
    LET fx == subject.fixture
    IN  subject.file.made <=>
          HasAPlace(fx) /\ AllNames(fx) \subseteq Identifiers /\ ~NameTaken(fx)

-----------------------------------------------------------------------------
(* What the code says of itself, and does not keep to. *)

\* "Requires already refuses to claim CapTemporalValues" (AsTemporal) for a map
\* that is no temporal literal.
OnlyTemporalIsTemporal ==
  Asked("staging") =>
    ("temporal-values" \in Requires(subject.fixture) =>
       \E x \in Nodes(subject.fixture) \cup Edges(subject.fixture) :
         \E p \in DOMAIN x.props : x.props[p].is \in Tags)

\* "Storing one as though it were local would load a different value than the
\* fixture wrote": a count that does not fit in 64 bits does.
NoOtherValue ==
  Asked("staging") /\ subject.rows /\ subject.file.made =>
    Holds(subject.file, subject.fixture)

\* "Unordered compares rows as a multiset" (Options).
UnorderedIsMultiset ==
  Asked("rows") /\ subject.opt.unordered =>
    (subject.differ => ~Describes(subject.want, subject.got, subject.opt))

\* "It needs three engines. Two engines agreeing is a coin flip, and this
\* package says so in its output": but it counts the reports.
ThinSaysSo ==
  Asked("consensus") =>
    \A c \in subject.review : Judged(subject.reports, c) >= 3 \/ Thin(subject.reports)
=============================================================================
