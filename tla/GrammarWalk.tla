----------------------------- MODULE GrammarWalk -----------------------------
(***************************************************************************)
(* A generator over one grammar, and the reducer of what it writes.        *)
(*                                                                         *)
(* NewGenerator relaxes the costs of the productions until a sweep changes *)
(* none.  Generate walks from the start production; the recursion of       *)
(* expand is the derivation grown so far, from left to right, and the ways *)
(* to the nodes that are still to be expanded.  Where the source draws a   *)
(* random number any outcome it has a weight for may come.  Reduce then    *)
(* offers smaller derivations to an engine that answers as it likes.       *)
(***************************************************************************)
EXTENDS Grammar

CONSTANTS
  Grammars,             \* what Parse made of an artifact
  Start,                \* Options.Start
  MaxDepth, MinTokens,  \* Options
  Attempts,             \* Generate: 64
  MaxSteps, MaxTries,   \* Reduce: 40 and 200
  Guard                 \* minimal: 81 levels

ASSUME WalkAssumption ==
  /\ \A g \in Grammars : WellFormed(g) /\ Defined(g, Start)
  /\ {MaxDepth, MinTokens, Attempts, MaxSteps, MaxTries, Guard} \subseteq Nat \ {0}

VARIABLES
  rules,                      \* Grammar.Rules
  phase,
  ruleCost, nodeCost,         \* the tables of the generator
  sweep, changed,             \* computeCost: the production next, and changed
  built, open, attempt,       \* the walk: what is grown, where it is still to
                              \* be expanded, and the attempts so far
  tree, left, steps, tries,   \* Reduce: cur, the candidates left, the caps
  held                        \* ghost: what was walked or was said to hold

costs == <<ruleCost, nodeCost, sweep, changed>>
walk == <<built, open, attempt>>
cut == <<tree, left, steps, tries, held>>
vars == <<rules, phase, costs, walk, cut>>

Init ==
  /\ rules \in Grammars
  /\ phase = "cost"
  /\ ruleCost = [i \in DOMAIN rules.names |-> Unreachable] /\ nodeCost = <<>>
  /\ sweep = 1 /\ changed = FALSE
  /\ built = Nothing /\ open = {} /\ attempt = 0
  /\ tree = Nothing /\ left = {} /\ steps = 0 /\ tries = 0 /\ held = {}

(***************************************************************************)
(* computeCost, and what NewGenerator makes of it                          *)
(***************************************************************************)

\* Mutant SameIsBetter: a cost that stays as it is counts as a change.
SameIsBetter(new, old) == new <= old
Better(new, old) == new < old

Relax ==
  /\ phase = "cost" /\ sweep \in DOMAIN rules.names
  /\ nodeCost' = LET new == CostTable(rules, ruleCost, sweep)
                 IN  [at \in DOMAIN new \cup DOMAIN nodeCost |->
                        IF at \in DOMAIN new THEN new[at] ELSE nodeCost[at]]
  /\ LET c == nodeCost'[<<sweep>>]
     IN  IF Better(c, ruleCost[sweep])
         THEN ruleCost' = [ruleCost EXCEPT ![sweep] = c] /\ changed' = TRUE
         ELSE UNCHANGED <<ruleCost, changed>>
  /\ sweep' = sweep + 1
  /\ UNCHANGED <<rules, phase, walk, cut>>

\* Mutant OneSweep: the productions are gone through once.
OneSweep == FALSE
Again == changed
NextSweep ==
  /\ phase = "cost" /\ sweep \notin DOMAIN rules.names /\ Again
  /\ sweep' = 1 /\ changed' = FALSE
  /\ UNCHANGED <<rules, phase, ruleCost, nodeCost, walk, cut>>

Entry(name) == <<RuleNo(rules, name)>>

\* gen.walk: a production, whose body is still to be expanded.
Enter(name) == Branch(Entered(name), <<Leaf(Plain(Entry(name)))>>)
Begin ==
  /\ phase' = "walk" /\ built' = Enter(Start) /\ open' = {<<1>>}
  /\ attempt' = attempt + 1

Costed ==
  /\ phase = "cost" /\ sweep \notin DOMAIN rules.names /\ ~Again
  /\ IF ruleCost[RuleNo(rules, Start)] >= Unreachable
     THEN phase' = "refused" /\ UNCHANGED walk
     ELSE Begin
  /\ UNCHANGED <<rules, costs, cut>>

(***************************************************************************)
(* expand                                                                  *)
(***************************************************************************)
Top == CHOOSE way \in open : \A w \in open \ {way} : LeftOf(way, w)
Here == built[Top].at
Expanding(kind) == phase = "walk" /\ open # {} /\ NodeAt(rules, Here).kind = kind

\* A level deeper is what is under a production, an optional part, a
\* repetition or a choice.
Depth(way) ==
  Cardinality({w \in DOMAIN built : /\ IsStrictPrefix(w, way)
                                    /\ KindOf(rules, built[w]) \notin {"seq", "ref"}})
Tight(way) == Depth(way) >= MaxDepth

\* The node is grown into a twig, and these nodes of it are to be expanded.
Grow(twig, rest) ==
  /\ built' = Graft(built, Top, twig)
  /\ open' = (open \ {Top}) \cup {Top \o w : w \in rest}
  /\ UNCHANGED <<rules, phase, costs, attempt, cut>>

Write(token) == Grow(Leaf([Plain(Here) EXCEPT !.token = token]), {})

\* One child for each of the places.
Descend(x, places) ==
  Grow(Branch(x, [k \in DOMAIN places |-> Leaf(Plain(places[k]))]), {<<k>> : k \in DOMAIN places})

Fail ==
  /\ phase' = "failed"
  /\ UNCHANGED <<rules, costs, walk, cut>>

ExpandWord == Expanding("word") /\ Write(NodeAt(rules, Here).name)
ExpandProse == Expanding("prose") /\ Fail

ExpandLeaf ==
  /\ Expanding("ref") /\ NodeAt(rules, Here).name \in DOMAIN Cut
  /\ LET tokens == Cut[NodeAt(rules, Here).name]
     IN  IF tokens = <<>> THEN Write(Blank) ELSE \E k \in DOMAIN tokens : Write(tokens[k])

ExpandRef ==
  /\ Expanding("ref") /\ NodeAt(rules, Here).name \notin DOMAIN Cut
  /\ LET name == NodeAt(rules, Here).name
     IN  IF Defined(rules, name) THEN Grow(Branch(Plain(Here), <<Enter(name)>>), {<<1, 1>>})
         ELSE Fail

ExpandSeq == Expanding("seq") /\ Descend(Plain(Here), KidsAt(rules, Here))

\* A part without an entry in the table passes for one that costs nothing.
ExpandOpt ==
  /\ Expanding("opt")
  /\ LET part == Append(Here, 1)
     IN  \/ Write(Blank)
         \/ /\ ~Tight(Top)
            /\ part \in DOMAIN nodeCost => nodeCost[part] < Unreachable
            /\ Descend([Plain(Here) EXCEPT !.taken = TRUE], <<part>>)

ExpandRepeat ==
  /\ Expanding("repeat")
  /\ \E reps \in IF Tight(Top) THEN {1} ELSE {1, 2} :
       Descend(Plain(Here), [k \in 1..reps |-> Append(Here, 1)])

\* choose
ExpandAlt ==
  /\ Expanding("alt")
  /\ LET w == Writable(rules, nodeCost, Here)
     IN  IF w = {} THEN Fail
         ELSE \E k \in IF Tight(Top) THEN {Cheapest(rules, nodeCost, Here)} ELSE w :
                Descend(Plain(Here), <<Append(Here, k)>>)

Smaller(d) == Sites(rules, Minimal(rules, nodeCost, Guard), d)

\* Generate: a statement that is too short is thrown away, but for the last.
Generated ==
  /\ phase = "walk" /\ open = {}
  /\ IF Cardinality(Tokens(built)) >= MinTokens \/ attempt = Attempts
     THEN /\ phase' = "reduce" /\ tree' = built /\ left' = Smaller(built)
          /\ held' = {built} /\ built' = Nothing
          /\ UNCHANGED <<open, attempt>>
     ELSE Begin /\ UNCHANGED <<tree, left, held>>
  /\ UNCHANGED <<rules, costs, steps, tries>>

(***************************************************************************)
(* Reduce                                                                  *)
(***************************************************************************)
Reducing == phase = "reduce" /\ steps < MaxSteps /\ left # {} /\ tries < MaxTries

\* replaceAt: the next of the candidates, which are in the order of First.
Candidate == Graft(tree, First(left).way, First(left).replace)

SkipEmpty ==
  /\ Reducing /\ Tokens(Candidate) = {}
  /\ left' = left \ {First(left)}
  /\ UNCHANGED <<rules, phase, costs, walk, tree, steps, tries, held>>

\* Mutant KeepRefused: what does not hold is kept as well.
KeepRefused(still) == TRUE
Kept(still) == still
Ask ==
  /\ Reducing /\ Tokens(Candidate) # {}
  /\ tries' = tries + 1
  /\ \E still \in BOOLEAN :
       /\ held' = IF still THEN held \cup {Candidate} ELSE held
       /\ IF Kept(still)
          THEN tree' = Candidate /\ left' = Smaller(tree') /\ steps' = steps + 1
          ELSE left' = left \ {First(left)} /\ UNCHANGED <<tree, steps>>
  /\ UNCHANGED <<rules, phase, costs, walk>>

Reduced ==
  /\ phase = "reduce" /\ ~Reducing
  /\ phase' = "done"
  /\ UNCHANGED <<rules, costs, walk, cut>>

-----------------------------------------------------------------------------
ComputeCost == Relax \/ NextSweep \/ Costed
Walk ==
  \/ ExpandWord \/ ExpandProse \/ ExpandLeaf \/ ExpandRef \/ ExpandSeq
  \/ ExpandOpt \/ ExpandRepeat \/ ExpandAlt \/ Generated
Reduce == SkipEmpty \/ Ask \/ Reduced
Next == ComputeCost \/ Walk \/ Reduce

\* One goroutine, which goes on while it can: WF_vars(Next), said without
\* ENABLED because Next is enabled until the generator has ended.
Ended == phase \in {"refused", "failed", "done"}
Fairness == <>[]Ended \/ []<><<Next>>_vars
Spec == Init /\ [][Next]_vars /\ Fairness

-----------------------------------------------------------------------------
(***************************************************************************)
(* Properties                                                              *)
(***************************************************************************)

\* The fixed point of the costs is what it is meant for: every production
\* costs the fewest tokens it can be written in, and what costs Unreachable
\* cannot be written in fewer.
CostIsShortest ==
  phase # "cost" =>
    \A i \in DOMAIN rules.names :
      ruleCost[i] = Min({Unreachable} \cup Lengths(rules)[{rules.names[i]}][<<i>>])

\* Past the budget the walk comes back up: no production is entered within
\* itself again, so that how deep the tail of a statement goes is bounded by
\* the number of productions.
TailComesBack ==
  LET entered == {way \in DOMAIN built : built[way].at = <<>> /\ Tight(way)}
  IN  \A v, w \in entered : IsStrictPrefix(v, w) => built[v].rule # built[w].rule

\* What is reported is a statement the grammar admits, and one the engine was
\* seen to do the thing with: the one that was walked or a candidate that held.
ReducedIsAdmitted ==
  tree # Nothing =>
    /\ Derives(rules, tree) /\ tree[<<>>].at = <<>> /\ tree[<<>>].rule = Start
    /\ tree \in held

\* A reduction never makes the statement longer, although it goes by the size
\* of the derivation.
NeverLonger ==
  [][tree # Nothing => Cardinality(Tokens(tree')) <= Cardinality(Tokens(tree))]_vars

\* Costs, walk and reduction come to an end.
GeneratorEnds == <>Ended

-----------------------------------------------------------------------------
(* What the code says of itself, and does not keep to. *)

\* "It has to know which alternatives are writable at all": a generator that
\* was not refused writes its statements.
WalkNeverFails == phase # "failed"
=============================================================================
