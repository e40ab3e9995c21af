-------------------------------- MODULE Rows --------------------------------
(***************************************************************************)
(* Package rows: whether a table is the one a case asked for.  When two    *)
(* cells are equal, and how one is rendered, is said elsewhere (Values).   *)
(***************************************************************************)
EXTENDS Ranking

CONSTANTS
  CellsEqual(_, _, _), \* whether a cell is the wanted one, under the options
  Text(_)              \* where a cell's rendering comes among the renderings,
                       \* which are ordered as strings

NoTable == [columns |-> <<>>, rows |-> <<>>, nil |-> TRUE]
Table(columns, rows) == [columns |-> columns, rows |-> rows, nil |-> FALSE]

\* RenderRow, compared: by the first cell in which they differ, and a row that
\* is the beginning of another comes first.
RowBefore(a, b) ==
  \/ \E k \in DOMAIN a \cap DOMAIN b :
       /\ Text(a[k]) < Text(b[k])
       /\ \A j \in 1..(k - 1) : Text(a[j]) = Text(b[j])
  \/ /\ Len(a) < Len(b)
     /\ \A j \in DOMAIN a : Text(a[j]) = Text(b[j])

\* What comes before what in sortRows, which keeps the order of what is
\* rendered alike.
Earlier(rows) ==
  {ij \in (DOMAIN rows) \X (DOMAIN rows) :
     \/ RowBefore(rows[ij[1]], rows[ij[2]])
     \/ ~RowBefore(rows[ij[2]], rows[ij[1]]) /\ ij[1] < ij[2]}

\* sortRows.
\* Mutant AsTheyCame: the rows stay as the engine returned them.
AsTheyCame(rows) == rows
SortRows(rows) ==
  [k \in DOMAIN rows |-> rows[Ranked(DOMAIN rows, Earlier(rows))[k]]]

\* Columns are only compared where the case names some.
ColumnsDiffer(want, got, opt) ==
  opt.strictColumns /\ want.columns # <<>> /\ want.columns # got.columns

\* Mutant WantedWidth: a row is read as far as the row that is asked for goes.
WantedWidth(want, got, opt) ==
  \E k \in DOMAIN want : k \in DOMAIN got => ~CellsEqual(want[k], got[k], opt)
RowsDiffer(want, got, opt) ==
  \/ Len(want) # Len(got)
  \/ \E k \in DOMAIN want : ~CellsEqual(want[k], got[k], opt)

\* Compare: whether there is a difference.
Differ(want, got, opt) ==
  \/ got.nil
  \/ ColumnsDiffer(want, got, opt)
  \/ Len(want.rows) # Len(got.rows)
  \/ LET w == IF opt.unordered THEN SortRows(want.rows) ELSE want.rows
         g == IF opt.unordered THEN SortRows(got.rows) ELSE got.rows
     IN  \E r \in DOMAIN w : RowsDiffer(w[r], g[r], opt)

(***************************************************************************)
(* What is asked of a comparison, for the properties                       *)
(***************************************************************************)

\* The ways of pairing the rows of two tables that the options allow.
Pairings(want, got, opt) ==
  IF opt.unordered
  THEN {p \in [DOMAIN want.rows -> DOMAIN got.rows] :
          \A i, j \in DOMAIN want.rows : p[i] = p[j] => i = j}
  ELSE {[i \in DOMAIN want.rows |-> i]}

SameRow(want, got, opt) ==
  DOMAIN want = DOMAIN got /\ \A k \in DOMAIN want : CellsEqual(want[k], got[k], opt)

\* got is the table that want describes.
Describes(want, got, opt) ==
  /\ ~got.nil
  /\ ~ColumnsDiffer(want, got, opt)
  /\ Len(want.rows) = Len(got.rows)
  /\ \E p \in Pairings(want, got, opt) :
       \A i \in DOMAIN want.rows : SameRow(want.rows[i], got.rows[p[i]], opt)

Cells(table) == UNION {Range(table.rows[i]) : i \in DOMAIN table.rows}

\* Rendered alike and equal are the same thing among the values in hand.
RenderingTells(want, got, opt) ==
  \A a, b \in Cells(want) \cup Cells(got) :
    Text(a) = Text(b) <=> CellsEqual(a, b, opt)
=============================================================================
