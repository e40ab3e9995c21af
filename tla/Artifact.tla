------------------------------ MODULE Artifact ------------------------------
(***************************************************************************)
(* From the elements of the artifact to the trees of a grammar.  A token   *)
(* is one symbol whatever its text.                                        *)
(***************************************************************************)
EXTENDS Trees

(***************************************************************************)
(* Elements: a keyword, a reference, prose, a repeat mark, or an optional  *)
(* part, a group or an alternative with elements in it.                    *)
(***************************************************************************)
Kw(t) == [tag |-> "kw", name |-> t, in |-> <<>>]
Bnf(r) == [tag |-> "BNF", name |-> r, in |-> <<>>]
SeeTheRules == [tag |-> "seeTheRules", name |-> "", in |-> <<>>]
RepeatMark == [tag |-> "repeat", name |-> "", in |-> <<>>]
OptOf(els) == [tag |-> "opt", name |-> "", in |-> els]
GroupOf(els) == [tag |-> "group", name |-> "", in |-> els]
AltOf(els) == [tag |-> "alt", name |-> "", in |-> els]

Node(kind, name, kids) == Branch([kind |-> kind, name |-> name, kids |-> 0], kids)
Root(n) == n[<<>>]

Collapse(n) ==
  IF Root(n).kind \in {"seq", "alt"} /\ Root(n).kids = 1 THEN Below(n, <<1>>) ELSE n

\* A repeat mark follows what it repeats.
RepeatLast(kids) ==
  IF kids = <<>> THEN kids ELSE Front(kids) \o <<Node("repeat", "", <<Last(kids)>>)>>

\* The children of one element: a sequence, or a choice if there are
\* alternatives among them; what is beside the alternatives is one more.
RECURSIVE ParseSeq(_)
ParseSeq(els) ==
  LET Read(acc, e) ==
        CASE e.tag = "alt" -> [acc EXCEPT !.alts = Append(@, Collapse(ParseSeq(e.in)))]
          [] e.tag = "group" -> [acc EXCEPT !.kids = Append(@, Collapse(ParseSeq(e.in)))]
          [] e.tag = "opt" ->
               [acc EXCEPT !.kids = Append(@, Node("opt", "", <<Collapse(ParseSeq(e.in))>>))]
          [] e.tag = "repeat" -> [acc EXCEPT !.kids = RepeatLast(@)]
          [] e.tag = "BNF" -> [acc EXCEPT !.kids = Append(@, Node("ref", e.name, <<>>))]
          [] e.tag = "kw" -> [acc EXCEPT !.kids = Append(@, Node("word", e.name, <<>>))]
          [] e.tag = "seeTheRules" -> [acc EXCEPT !.kids = Append(@, Node("prose", "", <<>>))]
      all == FoldLeft(Read, [kids |-> <<>>, alts |-> <<>>], els)
      seq == Node("seq", "", all.kids)
  IN  IF all.alts = <<>> THEN seq
      ELSE Node("alt", "", all.alts \o (IF all.kids = <<>> THEN <<>> ELSE <<Collapse(seq)>>))

\* Parse: the names of the productions in the artifact's order, and the nodes
\* of their bodies.
Parse(artifact) ==
  LET body == [i \in DOMAIN artifact |-> Collapse(ParseSeq(artifact[i].rhs))]
  IN  [names |-> [i \in DOMAIN artifact |-> artifact[i].name],
       node |-> [at \in UNION {{<<i>> \o way : way \in DOMAIN body[i]} : i \in DOMAIN body} |->
                   body[Head(at)][Tail(at)]]]
=============================================================================
