---------------------------- MODULE MCGrammarWalk ----------------------------
(***************************************************************************)
(* GrammarWalk for TLC: small grammars, each with something the artifact   *)
(* has.                                                                    *)
(***************************************************************************)
EXTENDS GrammarWalk, Artifact

P(name, rhs) == [name |-> name, rhs |-> rhs]

MCCut == [id |-> <<"i", "j">>, empty |-> <<>>]

\* An optional part that is a choice, and a list.
Delete == <<
  P("program", <<OptOf(<<AltOf(<<Kw("DETACH")>>), AltOf(<<Kw("NODETACH")>>)>>),
                 Kw("DELETE"), Bnf("list")>>),
  P("list", <<Bnf("id"), OptOf(<<GroupOf(<<Kw(","), Bnf("id")>>), RepeatMark>>)>>) >>

\* Expressions within expressions, the shortest of which is found late.
Nested == <<
  P("program", <<Kw("RETURN"), Bnf("expr")>>),
  P("expr", <<AltOf(<<Bnf("term")>>), AltOf(<<Bnf("expr"), Kw("+"), Bnf("term")>>)>>),
  P("term", <<AltOf(<<Kw("f"), Kw("("), Bnf("expr"), Kw(")")>>), AltOf(<<Bnf("primary")>>)>>),
  P("primary", <<AltOf(<<Bnf("id")>>), AltOf(<<Kw("("), Bnf("expr"), Kw(")")>>)>>) >>

\* Productions that stand for each other at the same cost, and a longer way
\* of writing what a chain of productions writes in one token.
Chains == <<
  P("program", <<AltOf(<<Kw("x"), Kw("y")>>), AltOf(<<Bnf("a")>>), AltOf(<<Bnf("empty")>>)>>),
  P("a", <<AltOf(<<Bnf("id")>>), AltOf(<<Bnf("b")>>)>>),
  P("b", <<Bnf("c"), RepeatMark>>),
  P("c", <<Bnf("a")>>) >>

\* What is defined in prose or nowhere.
Prose == <<
  P("program", <<AltOf(<<Bnf("mode"), Kw("x")>>), AltOf(<<Kw("y"), OptOf(<<Bnf("mode")>>), Kw("z")>>),
                 AltOf(<<Kw("w"), Bnf("gone")>>), SeeTheRules>>),
  P("mode", <<SeeTheRules>>) >>
Refused == << P("program", <<Kw("x"), Bnf("mode")>>), P("mode", <<SeeTheRules>>) >>

MCGrammars == {Parse(a) : a \in {Delete, Nested, Chains, Prose, Refused}}
MCDelete == {Parse(Delete)}
=============================================================================
