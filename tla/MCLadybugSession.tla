-------------------------- MODULE MCLadybugSession --------------------------
(***************************************************************************)
(* LadybugSession for TLC.  Markers are numbered in base 2 instead of 10,  *)
(* so that one is the beginning of another within a few statements.        *)
(***************************************************************************)
EXTENDS LadybugSession

BeginsWith(m, n) == \E k \in 0..4 : n \div 2^k = m
=============================================================================
