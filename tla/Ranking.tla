------------------------------ MODULE Ranking ------------------------------
(***************************************************************************)
(* A finite set put in order.  What a sort or a loop does one element at a *)
(* time is said here by counting, without recursion: an element's rank is  *)
(* one more than the number of those that come before it.  An order is a   *)
(* set of pairs.                                                           *)
(***************************************************************************)
EXTENDS Integers, FiniteSets, Sequences, Functions

Listing(s) == s \in Seq(Range(s))

Rank(S, order, x) == Cardinality({y \in S : <<y, x>> \in order}) + 1

\* The elements of S, the first one first.
Ranked(S, order) ==
  [k \in 1..Cardinality(S) |-> CHOOSE x \in S : Rank(S, order, x) = k]

\* The order in which a loop goes through a set of places.
Ascending(is) == {ij \in is \X is : ij[1] < ij[2]}

\* The elements of a sequence at a set of places, in their order.
Selected(seq, is) ==
  [k \in 1..Cardinality(is) |-> seq[Ranked(is, Ascending(is))[k]]]
=============================================================================
