------------------------------ MODULE Staging ------------------------------
(***************************************************************************)
(* adapter/zu/sqlite.go: the SQLite file a fixture is written into for     *)
(* `zu convert` to read.  A table for every first label, one for every     *)
(* edge type, a column for every property, and a table of the labels a     *)
(* node has beside its first.  The plan refuses a fixture whole, and the   *)
(* file is one transaction, so that there is no file or it has all of it.  *)
(***************************************************************************)
EXTENDS Fixtures, Ranking, SequencesExt

CONSTANTS
  Identifiers,      \* the names checkIdent takes
  Folded(_),        \* a name as SQLite compares it, without its case
  IndexTypes(_),    \* the edge types whose tables have the names of the
                    \* indexes of this type's
  EmptyRel(_),      \* "ZU_COMPAT_EMPTY_" before a label
  SecondsPerDay, NanosPerSecond,
  MaxCount          \* math.MaxInt64

ASSUME StagingAssumption ==
  /\ SecondsPerDay \in Nat \ {0} /\ NanosPerSecond \in Nat \ {0} /\ MaxCount \in Nat
  /\ SecondsPerDay * NanosPerSecond <= MaxCount
  /\ \A t \in Identifiers : IndexTypes(t) \subseteq Identifiers

(***************************************************************************)
(* The type of a column: a kind, "LIST" after the kind of the elements,    *)
(* "LIST" alone where they are not known yet, and nothing at first         *)
(***************************************************************************)
Undecided == <<>>
AnyList == <<"LIST">>
Refused == <<"refused">>

IsListKind(column) == column # <<>> /\ Last(column) = "LIST"

Scalars == [int |-> "INTEGER", float |-> "REAL", bool |-> "BOOLEAN", string |-> "TEXT"]

ListKind(elems) ==
  LET kinds == {e.is : e \in Range(elems)}
  IN  IF ~(kinds \subseteq DOMAIN Scalars) \/ Cardinality(kinds) > 1 THEN Refused
      ELSE IF kinds = {} THEN AnyList
      ELSE <<Scalars[CHOOSE k \in kinds : TRUE], "LIST">>

\* A zone has no place in a count; months and the rest are two types.
TemporalKind(v) ==
  CASE v.is = "date" -> <<"DATE">>
    [] v.is = "localtime" -> <<"LOCALTIME">>
    [] v.is = "localdatetime" -> <<"LOCALDATETIME">>
    [] v.is = "duration" -> IF v.months = 0 THEN <<"DURATION">>
                            ELSE IF v.n # 0 THEN Refused ELSE <<"YEARMONTHDURATION">>
    [] v.is \in {"time", "datetime"} -> Refused

ColumnKind(v) ==
  IF v.is \in Tags THEN TemporalKind(v)
  ELSE IF v.is \in DOMAIN Scalars THEN <<Scalars[v.is]>>
  ELSE IF v.is = "list" THEN ListKind(v.elems)
  ELSE Refused

\* One more value of a column.
\* Mutant FirstKind: an empty list in front decides the column.
FirstKind(column, v) ==
  LET k == ColumnKind(v)
  IN  IF column = Refused \/ v = NoValue THEN column
      ELSE IF k = Refused THEN Refused
      ELSE IF k = AnyList /\ IsListKind(column) THEN column
      ELSE IF column \notin {Undecided, k} THEN Refused
      ELSE k
Take(column, v) ==
  LET k == ColumnKind(v)
  IN  IF column = Refused \/ v = NoValue THEN column
      ELSE IF k = Refused THEN Refused
      ELSE IF k = AnyList /\ IsListKind(column) THEN column
      ELSE IF column = AnyList /\ IsListKind(k) THEN k
      ELSE IF column \notin {Undecided, k} THEN Refused
      ELSE k

Prop(props, name) == IF name \in DOMAIN props THEN props[name] ELSE NoValue

\* The type of a column so far, after each of the elements of a table.
ColumnAfter(elems, name) ==
  LET column[k \in 0..Len(elems)] ==
        IF k = 0 THEN Undecided ELSE Take(column[k - 1], Prop(elems[k].props, name))
  IN  column

\* Its type after all of them.
Column(elems, name) ==
  LET column == ColumnAfter(elems, name)[Len(elems)]
  IN  IF column \in {Undecided, AnyList} THEN Refused ELSE column

Names(elems) == UNION {DOMAIN e.props : e \in Range(elems)}

ColumnsRefused(elems) ==
  \E p \in Names(elems) : p \notin Identifiers \/ Column(elems, p) = Refused

(***************************************************************************)
(* Cells                                                                   *)
(***************************************************************************)
Int64Of(n) == ((n + MaxCount + 1) % (2 * (MaxCount + 1))) - (MaxCount + 1)

\* Days, nanoseconds or months: the column's type says which.
Count(v) ==
  CASE v.is = "date" -> v.n \div SecondsPerDay
    [] v.is = "duration" /\ v.months # 0 -> v.months
    [] OTHER -> Int64Of(v.n * NanosPerSecond)

\* A list is a text of its elements.
Cell(v) == IF v.is \in Tags THEN Literal("int", Count(v)) ELSE v

Row(e, names) == [p \in names |-> Cell(Prop(e.props, p))]
Columns(elems) ==
  [types |-> [p \in Names(elems) |-> Column(elems, p)],
   rows |-> [k \in DOMAIN elems |-> Row(elems[k], Names(elems))]]

(***************************************************************************)
(* Tables                                                                  *)
(***************************************************************************)
TableOf(n) == IF n.labels = <<>> THEN "Node" ELSE n.labels[1]
TypeOf(e) == IF e.type = "" THEN "EDGE" ELSE e.type

\* A node's row is its place among the nodes of its table.
\* Mutant PlaceInFixture: its place among all nodes.
PlaceInFixture(fx, i) == i
ZRow(fx, i) == Cardinality({j \in 1..i : TableOf(fx.nodes[j]) = TableOf(fx.nodes[i])})

NodeAt(fx, key) == CHOOSE i \in DOMAIN fx.nodes : fx.nodes[i].key = key

Ends(fx, e) ==
  <<TableOf(fx.nodes[NodeAt(fx, e.from)]), TableOf(fx.nodes[NodeAt(fx, e.to)])>>

\* Where the elements of a table are in the fixture, and the elements.
NodesIn(fx, label) == {i \in DOMAIN fx.nodes : TableOf(fx.nodes[i]) = label}
EdgesIn(fx, type) == {i \in DOMAIN fx.edges : TypeOf(fx.edges[i]) = type}
NodesOf(fx, label) == Selected(fx.nodes, NodesIn(fx, label))
EdgesOf(fx, type) == Selected(fx.edges, EdgesIn(fx, type))

NodeLabels(fx) == {TableOf(n) : n \in Nodes(fx)}
RelTypes(fx) == {TypeOf(e) : e \in Edges(fx)}

\* A table for nodes that no edge touches has an empty one for edges.
Untouched(fx) == NodeLabels(fx) \ UNION {Range(Ends(fx, e)) : e \in Edges(fx)}

\* The first edge of a type decides what the type is.
EdgeRefused(fx, e) ==
  LET first == Head(EdgesOf(fx, TypeOf(e)))
  IN  \/ TypeOf(e) \notin Identifiers
      \/ Ends(fx, e) # Ends(fx, first)
      \/ e.undirected # first.undirected

\* The labels a row has beside the table's own.
Extra(n) == {n.labels[k] : k \in 2..Len(n.labels)} \ {TableOf(n)}

\* planFixture refuses.
Unplannable(fx) ==
  \/ \E n \in Nodes(fx) : ~({TableOf(n)} \cup Range(n.labels) \subseteq Identifiers)
  \/ \E l \in NodeLabels(fx) : ColumnsRefused(NodesOf(fx, l))
  \/ \E e \in Edges(fx) : EdgeRefused(fx, e)
  \/ \E t \in RelTypes(fx) : ColumnsRefused(EdgesOf(fx, t))

SameName(names) == \E a, b \in names : a # b /\ Folded(a) = Folded(b)

\* SQLite refuses a table, an index or a column whose name is taken.
AllTypes(fx) == RelTypes(fx) \cup {EmptyRel(l) : l \in Untouched(fx)}
NameTaken(fx) ==
  \/ SameName(NodeLabels(fx)) \/ SameName(AllTypes(fx))
  \/ \E t, u \in AllTypes(fx) : \E i \in IndexTypes(t) : Folded(i) = Folded(u)
  \/ \E l \in Untouched(fx) : EmptyRel(l) \in RelTypes(fx)
  \/ \E l \in NodeLabels(fx) : SameName(Names(NodesOf(fx, l)))
  \/ \E t \in RelTypes(fx) : SameName(Names(EdgesOf(fx, t)))

NodeTable(fx, l) ==
  [columns |-> Columns(NodesOf(fx, l)),
   extra |-> [k \in DOMAIN NodesOf(fx, l) |-> Extra(NodesOf(fx, l)[k])]]

RelTable(fx, t) ==
  LET edges == EdgesOf(fx, t)
  IN  [src |-> Ends(fx, Head(edges))[1], dst |-> Ends(fx, Head(edges))[2],
       undirected |-> Head(edges).undirected,
       columns |-> Columns(edges),
       edges |-> [k \in DOMAIN edges |-> <<ZRow(fx, NodeAt(fx, edges[k].from)),
                                           ZRow(fx, NodeAt(fx, edges[k].to))>>]]

EmptyTable(l) ==
  [src |-> l, dst |-> l, undirected |-> FALSE, columns |-> Columns(<<>>), edges |-> <<>>]

\* A table of the shape: created, and never filled.
Emptied(table, rows) == [table EXCEPT !.columns.rows = <<>>, ![rows] = <<>>]

Plan(fx) ==
  [made |-> TRUE,
   nodes |-> [l \in NodeLabels(fx) |-> NodeTable(fx, l)],
   rels |-> [t \in AllTypes(fx) |->
               IF t \in RelTypes(fx) THEN RelTable(fx, t)
               ELSE EmptyTable(CHOOSE l \in Untouched(fx) : EmptyRel(l) = t)]]

\* The nodes and the edges of a file, each by its table and its row.
NodeIds(db) == UNION {{<<l, k>> : k \in DOMAIN db.nodes[l].columns.rows} : l \in DOMAIN db.nodes}
EdgeIds(db) == UNION {{<<t, k>> : k \in DOMAIN db.rels[t].edges} : t \in DOMAIN db.rels}

Counts(plan) == <<Cardinality(NodeIds(plan)), Cardinality(EdgeIds(plan))>>

NoFile == [made |-> FALSE, nodes |-> <<>>, rels |-> <<>>]

\* The file of a fixture, or of its shape.
Staged(fx, rows) ==
  IF Unplannable(fx) \/ NameTaken(fx) THEN NoFile
  ELSE LET plan == Plan(fx)
       IN  IF ~rows
           THEN [made |-> TRUE,
                 nodes |-> [l \in DOMAIN plan.nodes |-> Emptied(plan.nodes[l], "extra")],
                 rels |-> [t \in DOMAIN plan.rels |-> Emptied(plan.rels[t], "edges")]]
           ELSE IF Counts(plan) # <<Len(fx.nodes), Len(fx.edges)>>
           THEN NoFile
           ELSE plan

(***************************************************************************)
(* What the converter reads in a file (external), and what is asked of it  *)
(***************************************************************************)
Reads(type, cell) ==
  IF cell = NoValue \/ type[1] \notin {"DATE", "LOCALTIME", "LOCALDATETIME", "DURATION",
                                    "YEARMONTHDURATION"}
  THEN cell
  ELSE CASE type[1] = "DATE" -> Literal("date", cell.n * SecondsPerDay)
         [] type[1] = "LOCALTIME" -> Literal("localtime", cell.n \div NanosPerSecond)
         [] type[1] = "LOCALDATETIME" -> Literal("localdatetime", cell.n \div NanosPerSecond)
         [] type[1] = "DURATION" -> Literal("duration", cell.n \div NanosPerSecond)
         [] type[1] = "YEARMONTHDURATION" -> Months(cell.n, 0)

Given(props) == {<<p, props[p]>> : p \in {q \in DOMAIN props : props[q] # NoValue}}
Held(columns, k) ==
  {<<p, Reads(columns.types[p], columns.rows[k][p])>> :
     p \in {q \in DOMAIN columns.types : columns.rows[k][q] # NoValue}}

\* The node of the file is the fixture's, but for the label of one without.
SameNode(db, id, n) ==
  LET table == db.nodes[id[1]]
  IN  /\ {id[1]} \cup table.extra[id[2]] = {TableOf(n)} \cup Range(n.labels)
      /\ Held(table.columns, id[2]) = Given(n.props)

\* An edge of the file, and one of the fixture whose nodes are at these ids.
ReadEdge(db, id) ==
  LET table == db.rels[id[1]]
  IN  [type |-> id[1], undirected |-> table.undirected,
       from |-> <<table.src, table.edges[id[2]][1]>>,
       to |-> <<table.dst, table.edges[id[2]][2]>>,
       props |-> Held(table.columns, id[2])]
EdgeAs(fx, at, e) ==
  [type |-> TypeOf(e), undirected |-> e.undirected,
   from |-> at[NodeAt(fx, e.from)], to |-> at[NodeAt(fx, e.to)], props |-> Given(e.props)]

\* The file holds this graph: each of its nodes once, and its edges between
\* them as often as the fixture has them.
Holds(db, fx) ==
  \E at \in Bijection(DOMAIN fx.nodes, NodeIds(db)) :
    /\ \A i \in DOMAIN fx.nodes : SameNode(db, at[i], fx.nodes[i])
    /\ Cardinality(EdgeIds(db)) = Len(fx.edges)
    /\ \A e \in Edges(fx) :
         Cardinality({id \in EdgeIds(db) : ReadEdge(db, id) = EdgeAs(fx, at, e)})
           = Cardinality({i \in DOMAIN fx.edges : EdgeAs(fx, at, fx.edges[i]) = EdgeAs(fx, at, e)})

\* What can be written in a fixture: a date is a whole day, and a local time
\* is within one.
Parsed(v) ==
  v.is \in Tags =>
    /\ v.n \in Int /\ v.months \in Int
    /\ v = IF v.is = "duration" THEN Months(v.months, v.n) ELSE Literal(v.is, v.n)
    /\ v.is = "date" => v.n % SecondsPerDay = 0
    /\ v.is = "localtime" => v.n \in 0..(SecondsPerDay - 1)

Written(fx) ==
  /\ Listing(fx.nodes) /\ Listing(fx.edges)
  /\ \A n \in Nodes(fx) : Listing(n.labels)
  /\ \A x \in Nodes(fx) \cup Edges(fx) : \A p \in DOMAIN x.props : Parsed(x.props[p])

\* Every count fits in 64 bits.
InRange(fx) ==
  \A x \in Nodes(fx) \cup Edges(fx) : \A p \in DOMAIN x.props :
    x.props[p].is \in {"localdatetime", "duration"} =>
      x.props[p].n * NanosPerSecond \in (-MaxCount - 1)..MaxCount

\* The kinds a set of elements has for a property, but for those of no kind.
Kinds(elems, p) ==
  {ColumnKind(x.props[p]) : x \in {e \in elems : Prop(e.props, p) # NoValue}} \ {AnyList}

\* One kind the file has a column for; a list, if one of the lists is empty.
OneKind(elems, p) ==
  \E k \in {<<"DATE">>, <<"LOCALTIME">>, <<"LOCALDATETIME">>, <<"DURATION">>,
             <<"YEARMONTHDURATION">>} \cup {<<Scalars[s]>> : s \in DOMAIN Scalars}
               \cup {<<Scalars[s], "LIST">> : s \in DOMAIN Scalars} :
    /\ Kinds(elems, p) = {k}
    /\ (\E e \in elems : Prop(e.props, p).is = "list") => IsListKind(k)

\* What the format has a place for, whatever order it is written in: one pair
\* of tables and one direction for a type, one kind for a property of a table.
HasAPlace(fx) ==
  /\ \A e, f \in Edges(fx) : TypeOf(e) = TypeOf(f) =>
       Ends(fx, e) = Ends(fx, f) /\ e.undirected = f.undirected
  /\ \A l \in NodeLabels(fx) :
       LET elems == {n \in Nodes(fx) : TableOf(n) = l}
       IN  \A p \in UNION {DOMAIN n.props : n \in elems} : OneKind(elems, p)
  /\ \A t \in RelTypes(fx) :
       LET elems == {e \in Edges(fx) : TypeOf(e) = t}
       IN  \A p \in UNION {DOMAIN e.props : e \in elems} : OneKind(elems, p)

AllNames(fx) ==
  Labels(fx) \cup RelTypes(fx) \cup UNION {DOMAIN x.props : x \in Nodes(fx) \cup Edges(fx)}
=============================================================================
