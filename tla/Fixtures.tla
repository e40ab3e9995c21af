------------------------------ MODULE Fixtures ------------------------------
(***************************************************************************)
(* Package fixture: a graph written down by hand, and what an engine has   *)
(* to be able to hold to hold it.  Nodes and edges are sequences; the      *)
(* properties of an element are a function on the names it has.            *)
(***************************************************************************)
EXTENDS Integers, Sequences, FiniteSets, Functions

(***************************************************************************)
(* Values, as a fixture file gives them                                    *)
(***************************************************************************)

\* A number, a truth value, a text or a literal of one of the temporal tags;
\* a literal with a date is in seconds, and in months where it has any.
Literal(is, n) == [is |-> is, n |-> n, months |-> 0, elems |-> <<>>]
Months(m, rest) == [is |-> "duration", n |-> rest, months |-> m, elems |-> <<>>]
Listed(elems) == [is |-> "list", n |-> 0, months |-> 0, elems |-> elems]
NoValue == Literal("null", 0)

Tags == {"date", "time", "datetime", "localtime", "localdatetime", "duration"}

\* A map with a tag in it that AsTemporal does not take, and one without.
Oddities == {"tagged map", "map"}

(***************************************************************************)
(* Requires                                                                *)
(***************************************************************************)
AllCapabilities ==
  {"labels", "multi-label", "node-properties", "edge-properties", "edge-types",
   "multiple-edge-types", "multiple-node-labels", "temporal-values", "list-values",
   "null-properties", "float-values", "boolean-values", "undirected-edges",
   "self-loops", "parallel-edges", "parallel-edge-properties"}

\* markValueCaps, which looks at a value and not into it.
ValueCap(v) ==
  CASE v.is = "null" -> "null-properties"
    [] v.is = "list" -> "list-values"
    [] v.is = "bool" -> "boolean-values"
    [] v.is = "float" -> "float-values"
    [] v.is \in Tags \cup {"tagged map"} -> "temporal-values"
    [] OTHER -> "none"

ValueCaps(props) == {ValueCap(props[p]) : p \in DOMAIN props}

NodeCaps(n) ==
  ValueCaps(n.props)
    \cup (IF n.labels # <<>> THEN {"labels"} ELSE {})
    \cup (IF Len(n.labels) > 1 THEN {"multi-label"} ELSE {})
    \cup (IF DOMAIN n.props # {} THEN {"node-properties"} ELSE {})

EdgeCaps(e) ==
  ValueCaps(e.props)
    \cup (IF e.type # "" THEN {"edge-types"} ELSE {})
    \cup (IF DOMAIN e.props # {} THEN {"edge-properties"} ELSE {})
    \cup (IF e.undirected THEN {"undirected-edges"} ELSE {})
    \cup (IF e.from = e.to THEN {"self-loops"} ELSE {})

Nodes(fx) == {fx.nodes[i] : i \in DOMAIN fx.nodes}
Edges(fx) == {fx.edges[i] : i \in DOMAIN fx.edges}

Labels(fx) == UNION {{n.labels[k] : k \in DOMAIN n.labels} : n \in Nodes(fx)}
EdgeTypes(fx) == {e.type : e \in Edges(fx)} \ {""}

\* Two edges of one type between the same ordered pair.
Parallel(fx) ==
  {ij \in (DOMAIN fx.edges) \X (DOMAIN fx.edges) :
     LET a == fx.edges[ij[1]]
         b == fx.edges[ij[2]]
     IN  ij[1] # ij[2] /\ <<a.type, a.from, a.to>> = <<b.type, b.from, b.to>>}

Requires(fx) ==
  (UNION {NodeCaps(n) : n \in Nodes(fx)} \ {"none"})
    \cup (UNION {EdgeCaps(e) : e \in Edges(fx)} \ {"none"})
    \cup (IF Cardinality(Labels(fx)) > 1 THEN {"multiple-node-labels"} ELSE {})
    \cup (IF Cardinality(EdgeTypes(fx)) > 1 THEN {"multiple-edge-types"} ELSE {})
    \cup (IF Parallel(fx) # {} THEN {"parallel-edges"} ELSE {})
    \cup (IF \E ij \in Parallel(fx) : DOMAIN fx.edges[ij[1]].props # {}
          THEN {"parallel-edge-properties"} ELSE {})

Missing(fx, has) == Requires(fx) \ has

(***************************************************************************)
(* Validate: keys are there once, and edges name nodes                     *)
(***************************************************************************)
Keys(fx) == {n.key : n \in Nodes(fx)}

Valid(fx) ==
  /\ \A i, j \in DOMAIN fx.nodes : fx.nodes[i].key = fx.nodes[j].key => i = j
  /\ \A e \in Edges(fx) : {e.from, e.to} \subseteq Keys(fx)
=============================================================================
