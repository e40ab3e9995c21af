------------------------------ MODULE MCTables ------------------------------
(***************************************************************************)
(* Tables for TLC.                                                         *)
(***************************************************************************)
EXTENDS Tables, Values

None == [k \in {} |-> 0]
Null == Value("null", "", None)
Int64(n) == Value("int64", n, None)
Float(x) == Value("float64", x, None)
List(type, elems) == Value(type, "", elems)

\* Where the renderings come: "(:A{...", "-2", "1", "1000000", "150", "1e+06" and
\* "999999" are in the order of strings.  A list of one comes where "[" does.
RECURSIVE MCText(_)
MCText(v) ==
  CASE v.type = "node" -> 1
    [] v.type \in {"int64", "float64"} ->
         (CASE v.atom = -2 -> 2
            [] v.atom = 1 -> 3
            [] v.atom = 1000000 -> IF v.type = "int64" THEN 4 ELSE 6
            [] v.atom = 150 -> 5
            [] v.atom = 999999 -> 7
            [] v.atom = NaN -> 9)
    [] v.type = "list" -> 10 + MCText(v.kids[1])
    [] v.type = "null" -> 30

MCRendered(v) == MCText(Normalize(v))

\* An int64 of the model ends at 1000000, so that a uint64 can be beyond it;
\* 999999 is then nearest to the float 1000000.
MCCells ==
  {Null, Int64(1), Float(1), Int64(150), Float(1000000), Int64(1000000), Int64(999999), Float(NaN),
   List("list", <<Float(1)>>), List("[]int64", <<Int64(1)>>),
   Value("uint64", 2000000, None), Value("node", {"A"}, [p |-> Int64(1)])}

MCTableSet ==
  {NoTable, Table(<<"x">>, <<>>), Table(<<"x">>, << <<Null>> >>),
   Table(<<"x">>, << <<Null, Null>> >>)}
    \cup {Table(<<c>>, << <<a>> >>) : c \in {"x", "y"}, a \in {Int64(1), Float(1)}}
    \cup {Table(<<"x">>, << <<a>>, <<b>> >>) : a, b \in MCCells}

Opt(unordered, types, columns, tolerance) ==
  [unordered |-> unordered, strictTypes |-> types, strictColumns |-> columns,
   tolerance |-> tolerance]
MCOptionSet == {Opt(u, t, ~t, 0) : u, t \in BOOLEAN} \cup {Opt(u, FALSE, FALSE, 999) : u \in BOOLEAN}

Report(adapter, cases) == [adapter |-> adapter, mode |-> "conformance", cases |-> cases]
MCHeld == {None} \cup [{"c"} -> Outcomes]
MCReportSeqs ==
  {<<Report("p", a)>> : a \in MCHeld}
    \cup {<<Report("p", a), Report(q, b)>> : a, b \in MCHeld, q \in {"p", "q"}}
    \cup {<<Report("p", a), Report("q", b), Report("r", c)>> : a, b, c \in MCHeld}

MCEntries == {Entry("c", "corpus-bug", TRUE), Entry("c", "shared-gap", TRUE),
              Entry("gone", "ambiguous", TRUE), Entry("c", "", FALSE)}
MCFiles == [version : {1}, entries : UNION {[1..n -> MCEntries] : n \in 0..2}]
             \cup {[version |-> 2, entries |-> <<>>]}

\* The graph fills whole units but for the last: 0 to 13 units of four bytes,
\* or 8 to 11 of twenty, nineteen bytes of the last of which are rounding.
MCStores ==
  {s \in [fixed : {0, 3, 5, 12, 96}, graph : {0, 1, 7, 16, 33, 37, 40, 50, 141, 161, 181, 201},
          pad : {0, 2, 3, 19}, unit : {4, 20}, schema : {2, 5}, empty : {3, 5},
          nodes : {1, 20}, edges : {0, 20},
          known : SUBSET {"schema floor", "schema", "empty", "unit"}] :
     (s.graph + s.pad) % s.unit = 0 /\ s.pad < s.unit /\ (s.graph > 100 <=> s.unit = 20)}

\* Fixtures: names that differ in their case, an edge type that is named like
\* an index of another, and one that is no identifier.
MCIdentifiers == {"A", "a", "B", "Node", "EDGE", "T", "T_fwd", "p", "q"}
MCFolded(name) == IF name = "A" THEN "a" ELSE name
MCIndexTypes(type) == IF type = "T" THEN {"T_fwd"} ELSE {}
MCEmptyRel(label) == CASE label = "A" -> "EMPTY_A" [] label = "a" -> "EMPTY_a"
                       [] label = "B" -> "EMPTY_B" [] label = "Node" -> "EMPTY_Node"
                       [] OTHER -> "EMPTY"

Node(key, labels, props) == [key |-> key, labels |-> labels, props |-> props]
Edge(from, to, type, undirected, props) ==
  [from |-> from, to |-> to, type |-> type, undirected |-> undirected, props |-> props]
Fixture(nodes, edges) == [nodes |-> nodes, edges |-> edges]

MCValues ==
  {NoValue, Literal("int", 1), Literal("bool", 1), Listed(<<>>),
   Listed(<<Literal("int", 1), Literal("int", 2)>>),
   Listed(<<Literal("int", 1), Literal("string", 1)>>), Literal("date", -4), Literal("localtime", 1),
   Literal("localdatetime", 40), Literal("localdatetime", 60), Months(0, 3), Months(2, 0), Months(2, 1),
   Literal("datetime", 5), Literal("tagged map", 0)}
MCProps == {None} \cup [{"p"} -> MCValues] \cup {[p |-> Literal("int", 1), q |-> NoValue]}
MCLabels == {<<>>, <<"A">>, <<"B", "A">>, <<"A", "A">>}

MCFixtureSet ==
  {Fixture(<<Node("k", l, a), Node("m", <<"A">>, b)>>,
           IF related THEN <<Edge("k", "m", "T", FALSE, b), Edge("k", "m", "T", FALSE, a)>> ELSE <<>>) :
     l \in MCLabels, a, b \in MCProps, related \in BOOLEAN}
    \cup
  {Fixture(<<Node("k", <<"A">>, None), Node("l", <<"B", "A">>, None), Node("m", <<"A">>, None)>>,
           <<Edge(f, t, type, u, None), Edge(g, "m", "T", FALSE, [p |-> Literal("int", 1)])>>) :
     f, t, g \in {"k", "l", "m"}, type \in {"", "T", "T_fwd", "t t"}, u \in BOOLEAN}
    \cup
  {Fixture(<<Node("k", <<"A">>, None), Node(key, <<l>>, [p |-> Literal("int", 1)]),
             Node("n", <<"B">>, None)>>, <<>>) :
     key \in {"k", "m"}, l \in {"A", "a", "B"}}
=============================================================================
