------------------------------- MODULE Grammar -------------------------------
(***************************************************************************)
(* The grammar of package grammar: what the walk and the reducer do with   *)
(* its trees at one place.  A place is a production's number and the way   *)
(* to a node of its body, because the tables go by the node and not by its *)
(* text.  The lexical layer is the cut.                                    *)
(***************************************************************************)
EXTENDS Trees

CONSTANTS
  Cut,          \* leaves.go: productions that are written as one of ...
  Unreachable   \* the cost of what cannot be written

\* The rule of a node that enters none, and the token of one that writes none.
Blank == ""

ASSUME GrammarAssumption ==
  /\ Unreachable \in Nat \ {0}
  /\ \A name \in DOMAIN Cut : Cut[name] \in Seq(Range(Cut[name])) /\ Blank \notin Range(Cut[name])

Places(rules) == DOMAIN rules.node
NodeAt(rules, at) == rules.node[at]
KidsAt(rules, at) == [k \in 1..NodeAt(rules, at).kids |-> Append(at, k)]
Defined(rules, name) == name \in Range(rules.names)
RuleNo(rules, name) == CHOOSE i \in DOMAIN rules.names : rules.names[i] = name

\* What Parse makes: a body for every production, the nodes of each kind with
\* the children they have, and a text in every word.
WellFormed(rules) ==
  /\ rules.names \in Seq(Range(rules.names)) /\ IsFiniteSet(Places(rules))
  /\ \A i, j \in DOMAIN rules.names : rules.names[i] = rules.names[j] => i = j
  /\ Places(rules) \subseteq Ways \ {<<>>} /\ {<<i>> : i \in DOMAIN rules.names} \subseteq Places(rules)
  /\ \A at \in Places(rules) :
       LET n == NodeAt(rules, at)
       IN  /\ IF Len(at) = 1 THEN at[1] \in DOMAIN rules.names
              ELSE Front(at) \in Places(rules) /\ Last(at) \in 1..NodeAt(rules, Front(at)).kids
           /\ Len(at) <= Cardinality(Places(rules)) /\ n.kids \in Nat
           /\ \A k \in 1..n.kids : Append(at, k) \in Places(rules)
           /\ n.kind \in {"word", "prose", "ref", "opt", "repeat", "alt", "seq"}
           /\ n.kind \in {"opt", "repeat"} => n.kids = 1
           /\ n.kind = "word" => n.name # Blank

(***************************************************************************)
(* Costs                                                                   *)
(***************************************************************************)
Capped(n) == IF n > Unreachable THEN Unreachable ELSE n

\* What the first k parts of a sequence cost.
Spent(costs) ==
  LET spent[k \in 0..Len(costs)] == IF k = 0 THEN 0 ELSE Capped(spent[k - 1] + costs[k])
  IN  spent

\* What a reference costs while the productions cost what ruleCost says.
RefCost(rules, ruleCost, name) ==
  IF name \in DOMAIN Cut THEN IF Cut[name] = <<>> THEN 0 ELSE 1
  ELSE IF Defined(rules, name) THEN ruleCost[RuleNo(rules, name)]
  ELSE Unreachable

\* cost, of one node whose children cost what cost says.
NodeCost(rules, ruleCost, cost, at) ==
  LET n == NodeAt(rules, at)
      kids == [k \in 1..n.kids |-> cost[Append(at, k)]]
  IN  CASE n.kind = "word" -> 1
        [] n.kind = "prose" -> Unreachable
        [] n.kind = "ref" -> RefCost(rules, ruleCost, n.name)
        [] n.kind = "opt" -> 0
        [] n.kind = "alt" -> Min({Unreachable} \cup Range(kids))
        [] n.kind = "repeat" -> kids[1]
        [] n.kind = "seq" -> Spent(kids)[n.kids]

CostOf(rules, ruleCost) ==
  LET cost[at \in Places(rules)] == NodeCost(rules, ruleCost, cost, at)
  IN  cost

\* The places cost comes by, which are those it is recorded for: nothing in an
\* optional part, and nothing after what makes a sequence unreachable.
Enters(rules, cost, at, k) ==
  LET n == NodeAt(rules, at)
  IN  \/ n.kind \in {"alt", "repeat"}
      \/ /\ n.kind = "seq"
         /\ Spent([j \in 1..n.kids |-> cost[Append(at, j)]])[k - 1] < Unreachable
Visited(rules, cost, i) ==
  {at \in Places(rules) :
     at[1] = i /\ \A l \in 1..(Len(at) - 1) : Enters(rules, cost, SubSeq(at, 1, l), at[l + 1])}

\* What a relaxation of production number i records.
CostTable(rules, ruleCost, i) ==
  LET cost == CostOf(rules, ruleCost)
  IN  [at \in Visited(rules, cost, i) |-> cost[at]]

\* The alternatives there is a cost for, and the first of the cheapest.
Writable(rules, nodeCost, at) ==
  {k \in 1..NodeAt(rules, at).kids :
     Append(at, k) \in DOMAIN nodeCost /\ nodeCost[Append(at, k)] < Unreachable}
\* Mutant LastCheapest: a tie goes to the last of them.
LastCheapest(rules, nodeCost, at) ==
  LET w == Writable(rules, nodeCost, at)
      cheap == {k \in w : \A j \in w : nodeCost[Append(at, k)] <= nodeCost[Append(at, j)]}
  IN  CHOOSE k \in cheap : \A j \in cheap : j <= k
\* Mutant FirstWritable: the first that can be written.
FirstWritable(rules, nodeCost, at) == Min(Writable(rules, nodeCost, at))
Cheapest(rules, nodeCost, at) ==
  LET w == Writable(rules, nodeCost, at)
      cheap == {k \in w : \A j \in w : nodeCost[Append(at, k)] <= nodeCost[Append(at, j)]}
  IN  Min(cheap)

(***************************************************************************)
(* Derivations: trees whose nodes say which place of the grammar, or which *)
(* production, was expanded there, and what was written                    *)
(***************************************************************************)
\* at = <<>> where a production was entered.
Deriv(at, rule, token, taken) ==
  [at |-> at, rule |-> rule, token |-> token, taken |-> taken, kids |-> 0]
Plain(at) == Deriv(at, Blank, Blank, FALSE)
Entered(name) == Deriv(<<>>, name, Blank, FALSE)

\* render: where a derivation has its tokens.
Tokens(d) == {way \in DOMAIN d : d[way].token # Blank}

\* minimal, of a reference and of one node, where smaller has what it gives one
\* level down: the smallest derivation by the cost table, or Nothing.
SmallestRef(rules, smaller, at, name) ==
  IF name \in DOMAIN Cut
  THEN Leaf([Plain(at) EXCEPT !.token = IF Cut[name] = <<>> THEN Blank ELSE Cut[name][1]])
  ELSE LET body == IF Defined(rules, name) THEN smaller[<<RuleNo(rules, name)>>] ELSE Nothing
       IN  IF body = Nothing THEN Nothing
           ELSE Branch(Plain(at), <<Branch(Entered(name), <<body>>)>>)
SmallestOf(smaller, at, places) ==
  LET ds == [k \in DOMAIN places |-> smaller[places[k]]]
  IN  IF Nothing \in Range(ds) THEN Nothing ELSE Branch(Plain(at), ds)
SmallestAt(rules, nodeCost, smaller, at) ==
  LET n == NodeAt(rules, at)
  IN  IF at \in DOMAIN nodeCost /\ nodeCost[at] >= Unreachable THEN Nothing
      ELSE CASE n.kind = "word" -> Leaf([Plain(at) EXCEPT !.token = n.name])
             [] n.kind = "prose" -> Nothing
             [] n.kind = "opt" -> Leaf(Plain(at))
             [] n.kind = "ref" -> SmallestRef(rules, smaller, at, n.name)
             [] n.kind \in {"seq", "repeat"} -> SmallestOf(smaller, at, KidsAt(rules, at))
             [] n.kind = "alt" ->
                  IF Writable(rules, nodeCost, at) = {} THEN Nothing
                  ELSE SmallestOf(smaller, at, <<Append(at, Cheapest(rules, nodeCost, at))>>)

\* minimal: at every place, within so many levels.
Minimal(rules, nodeCost, levels) ==
  LET minimal[j \in 0..levels] ==
        [at \in Places(rules) |->
           IF j = 0 THEN Nothing ELSE SmallestAt(rules, nodeCost, minimal[j - 1], at)]
  IN  minimal[levels]

KindOf(rules, x) == IF x.at = <<>> THEN "rule" ELSE NodeAt(rules, x.at).kind

\* What a reduction tries in the place of a node: an optional part is dropped,
\* a repetition trimmed to one, a choice or a reference replaced.
Replacement(rules, minimal, d, way) ==
  LET x == d[way]
      kind == KindOf(rules, x)
  IN  CASE kind = "opt" /\ x.taken -> Leaf(Plain(x.at))
        [] kind = "repeat" /\ x.kids > 1 -> Branch(Plain(x.at), <<Below(d, Append(way, 1))>>)
        [] kind \in {"alt", "ref"} -> minimal[x.at]
        [] OTHER -> Nothing

\* The sites of a derivation, with what each saves.
Site(rules, minimal, d, way) ==
  LET small == Replacement(rules, minimal, d, way)
      size == Size(Below(d, way))
  IN  [way |-> way, replace |-> small,
       saving |-> IF KindOf(rules, d[way]) = "opt" THEN size ELSE size - Size(small)]
Sites(rules, minimal, d) ==
  {Site(rules, minimal, d, way) :
     way \in {w \in DOMAIN d : LET small == Replacement(rules, minimal, d, w)
                               IN  small # Nothing /\ Size(small) < Size(Below(d, w))}}

\* Largest saving first, and then by place.
First(sites) ==
  CHOOSE s \in sites : \A t \in sites \ {s} :
    \/ s.saving > t.saving
    \/ s.saving = t.saving /\ LeftOf(s.way, t.way)

(***************************************************************************)
(* What the grammar itself says, for the properties                        *)
(***************************************************************************)

\* The lengths of what is written in parts, after so many of them.
Sums(parts) ==
  LET sums[k \in 0..Len(parts)] ==
        IF k = 0 THEN {0} ELSE {a + b : a \in sums[k - 1], b \in parts[k]}
  IN  sums

\* The lengths a node can be written in with nothing repeated and no production
\* inside itself, which the shortest writings are among: within the productions
\* inside, where the children can be written in what of says.
RefLengths(rules, lengths, inside, name) ==
  IF name \in DOMAIN Cut THEN {IF Cut[name] = <<>> THEN 0 ELSE 1}
  ELSE IF Defined(rules, name) /\ name \notin inside
  THEN lengths[inside \cup {name}][<<RuleNo(rules, name)>>]
  ELSE {}
LengthsAt(rules, lengths, inside, of, at) ==
  LET n == NodeAt(rules, at)
      parts == [k \in 1..n.kids |-> of[Append(at, k)]]
  IN  CASE n.kind = "word" -> {1}
        [] n.kind = "prose" -> {}
        [] n.kind = "ref" -> RefLengths(rules, lengths, inside, n.name)
        [] n.kind = "opt" -> {0} \cup parts[1]
        [] n.kind = "alt" -> UNION Range(parts)
        [] n.kind = "repeat" -> parts[1]
        [] n.kind = "seq" -> Sums(parts)[n.kids]
LengthsWithin(rules, lengths, inside) ==
  LET of[at \in Places(rules)] == LengthsAt(rules, lengths, inside, of, at)
  IN  of
Lengths(rules) ==
  LET lengths[inside \in SUBSET Range(rules.names)] == LengthsWithin(rules, lengths, inside)
  IN  lengths

\* A node of a derivation is what the grammar has at its place, and its
\* children are what belongs there.
Admitted(rules, d, way) ==
  LET x == d[way]
      n == NodeAt(rules, x.at)
      Each(places) == /\ x.kids = Len(places)
                      /\ \A k \in 1..x.kids : LET y == d[Append(way, k)]
                                              IN  y.rule = Blank /\ y.at = places[k]
      Repeated == /\ x.kids > 0
                  /\ \A k \in 1..x.kids : LET y == d[Append(way, k)]
                                          IN  y.rule = Blank /\ y.at = Append(x.at, 1)
  IN  IF x.at = <<>>
      THEN Defined(rules, x.rule) /\ x.token = Blank /\ Each(<< <<RuleNo(rules, x.rule)>> >>)
      ELSE /\ x.at \in Places(rules) /\ x.rule = Blank
           /\ CASE n.kind = "word" -> x.token = n.name /\ x.kids = 0
                [] n.kind = "ref" /\ n.name \in DOMAIN Cut ->
                     x.kids = 0 /\ IF Cut[n.name] = <<>> THEN x.token = Blank
                                   ELSE x.token \in Range(Cut[n.name])
                [] OTHER -> x.token = Blank
           /\ CASE n.kind = "prose" -> FALSE
                [] n.kind = "opt" -> IF x.taken THEN Each(KidsAt(rules, x.at)) ELSE x.kids = 0
                [] n.kind = "repeat" -> Repeated
                [] n.kind = "alt" -> \E k \in 1..n.kids : Each(<<Append(x.at, k)>>)
                [] n.kind = "seq" -> Each(KidsAt(rules, x.at))
                [] n.kind = "ref" /\ n.name \notin DOMAIN Cut ->
                     /\ Defined(rules, n.name) /\ x.kids = 1
                     /\ d[Append(way, 1)].at = <<>> /\ d[Append(way, 1)].rule = n.name
                [] OTHER -> TRUE

\* d is a derivation of the grammar.
Derives(rules, d) == IsTree(d) /\ \A way \in DOMAIN d : Admitted(rules, d, way)
=============================================================================
