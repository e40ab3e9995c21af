--------------------------- MODULE MCNeo4jSession ---------------------------
(***************************************************************************)
(* Neo4jSession for TLC: a fixture with two label sets and an edge type    *)
(* between them.                                                           *)
(***************************************************************************)
EXTENDS Neo4jSession

MCEnds == [t \in {"e"} |-> {"a", "b"}]
MCFixtures == {{"a", "b", "e"}}
=============================================================================
