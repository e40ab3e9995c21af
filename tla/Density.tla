------------------------------- MODULE Density -------------------------------
(***************************************************************************)
(* Load.density of package metrics: whether what a store weighs may be     *)
(* divided by the graph in it, and by which of three routes its fixed part *)
(* is known.  Sizes are bytes, and 0 where nothing is known.               *)
(***************************************************************************)
EXTENDS Integers

CONSTANT DensityFloor   \* 10

ASSUME DensityAssumption == DensityFloor \in Nat \ {0}

Load(size, schemaFloor, schema, empty, unit, nodes, edges) ==
  [size |-> size, schemaFloor |-> schemaFloor, schema |-> schema, empty |-> empty,
   unit |-> unit, nodes |-> nodes, edges |-> edges]

Larger(a, b) == IF a > b THEN a ELSE b

(***************************************************************************)
(* The route                                                               *)
(***************************************************************************)
Floor(l) ==
  IF l.size <= 0 THEN "none"
  ELSE IF l.schemaFloor > 0 THEN "fixture-schema"
  ELSE IF l.schema > 0 THEN "engine"
  ELSE IF l.empty <= 0 THEN "none"
  ELSE "empty-store"

Fixed(l) == IF Floor(l) = "fixture-schema" THEN l.schemaFloor ELSE l.schema
Exact(l) == Floor(l) \in {"fixture-schema", "engine"}

\* exactDensity: what is left is something, and enough allocation units of it.
GraphBytes(l) == IF Exact(l) /\ l.size > Fixed(l) THEN l.size - Fixed(l) ELSE 0
\* Mutant OneUnitLess: one allocation unit fewer is enough.
OneUnitLess(l) ==
  GraphBytes(l) > 0 /\ (l.unit > 0 => GraphBytes(l) >= (DensityFloor - 1) * l.unit)
ExactOK(l) ==
  GraphBytes(l) > 0 /\ (l.unit > 0 => GraphBytes(l) >= DensityFloor * l.unit)

\* shareOverEmptyStore: an element seems to cost more than an empty store.
ShareOver(l) ==
  LET elements == Larger(l.nodes, l.edges)
  IN  elements > 0 /\ l.size \div elements > l.empty

\* The empty store: many times it, and no element that large.
EmptyOK(l) == l.size >= DensityFloor * l.empty /\ ~ShareOver(l)

DensityOK(l) ==
  IF Exact(l) THEN ExactOK(l) ELSE Floor(l) = "empty-store" /\ EmptyOK(l)

\* Compute: what the densities are computed over, where they are.
Over(l) == IF GraphBytes(l) > 0 THEN GraphBytes(l) ELSE l.size
=============================================================================
