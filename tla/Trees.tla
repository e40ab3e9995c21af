-------------------------------- MODULE Trees --------------------------------
(***************************************************************************)
(* Trees as functions: a tree takes the way to each of its nodes, the      *)
(* numbers of the children on it, to what the node says, a record with the *)
(* number of the node's own children among its fields.  The way to the     *)
(* root is empty, and the tree without nodes stands for none.              *)
(***************************************************************************)
EXTENDS Integers, Sequences, FiniteSets, SequencesExt

Nothing == <<>>

Ways == Seq(Nat \ {0})

\* A way, without its first n steps; a tree of one node; the tree of what a
\* node says and the trees below it.
After(way, n) == SubSeq(way, n + 1, Len(way))
Leaf(x) == [way \in {<<>>} |-> x]
Branch(x, kids) ==
  [way \in {<<>>} \cup UNION {{<<k>> \o w : w \in DOMAIN kids[k]} : k \in DOMAIN kids} |->
     IF way = <<>> THEN [x EXCEPT !.kids = Len(kids)] ELSE kids[way[1]][After(way, 1)]]

\* The ways through a node, the tree below it, and the tree with another one
\* in that place.
Through(d, at) == {way \in DOMAIN d : IsPrefix(at, way)}
Below(d, at) == [w \in {After(way, Len(at)) : way \in Through(d, at)} |-> d[at \o w]]
Graft(d, at, r) ==
  [way \in (DOMAIN d \ Through(d, at)) \cup {at \o w : w \in DOMAIN r} |->
     IF IsPrefix(at, way) THEN r[After(way, Len(at))] ELSE d[way]]

Size(d) == Cardinality(DOMAIN d)

\* Further left, or nearer to the root on the same way.
LeftOf(v, w) ==
  \/ IsStrictPrefix(v, w)
  \/ \E k \in DOMAIN v \cap DOMAIN w :
       v[k] < w[k] /\ \A j \in 1..(k - 1) : v[j] = w[j]

\* Every node but the root is a child of another, and no child is missing.
IsTree(d) ==
  /\ IsFiniteSet(DOMAIN d) /\ DOMAIN d \subseteq Ways /\ <<>> \in DOMAIN d
  /\ \A way \in DOMAIN d :
       /\ d[way].kids \in Nat
       /\ \A k \in 1..d[way].kids : Append(way, k) \in DOMAIN d
       /\ way # <<>> => Front(way) \in DOMAIN d /\ Last(way) \in 1..d[Front(way)].kids
=============================================================================
