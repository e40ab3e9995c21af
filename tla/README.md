# A TLA+ model of gql-compat

gql-compat puts the conformance suite of ISO/IEC 39075 (GQL) to a graph
engine, times what it answers and writes a report.  Its verdicts and its
figures are only as good as the state of the harness at the moment each
statement is sent: which graph is in the engine, which session the handle
names, which process the sampler is reading, which line on the pipe answers
which question.  Those are the things this directory models, model-checks and
proves.

## The system

| part | source | state it keeps | operations | hard behaviour |
|---|---|---|---|---|
| executor | `runner/runner.go`, `runner/generated.go` | the session, what is loaded in it and whether it is dirty, refused fixtures, measured floors, load times | measure the empty store and the round trip, run a case, explore, observe, close | beliefs about a graph it cannot see; sessions that die under it; restores between repetitions; failures between any two steps |
| plan | `runner.go: repeats, restores, plan` | none | how many executions, warm or cold or restored | a budget divided by a time that may be zero or unknown |
| verdict | `runner.go: run, judge...`, `result.go` | the case result | skip ladder, judge, control statement | order of the rungs; evidence that is not evidence (timeouts, transport) |
| summary, exit | `runner/result.go`, `cmd/gql-compat/run.go: verdict` | none | totals, coverage, declarations, exit status | counting once; what a green exit says |
| process sampler | `metrics/sampler.go` | baseline, last and peak readings, the bank of finished processes | Start, tick, Stop | a goroutine beside the executor; processes that come and go; readings that fail or lie |
| metrics | `metrics/metrics.go` | none | percentiles, the density of a load, disk deltas | three routes tried in order, boundaries |
| zu session | `adapter/zu/zu.go` | one shell process, its pipe, a loader process | Load, Exec, Explain, CutAfter, Reset, Close | answers that belong to an earlier question; a reader goroutine nobody can interrupt |
| ladybug adapter | `adapter/ladybug` | the path of a store on disk, whether the graph was made in it, a count of markers; a process per exchange | Load, Exec, Reset | what a killed process leaves; replies told apart by markers that may be lost |
| zu staging | `adapter/zu/sqlite.go` | a plan | write a fixture, or its shape, into a SQLite file | a type for a column from values in any order; ends of edges named by row |
| neo4j adapter | `adapter/neo4j` | a driver, a bolt session the first statement opens | Version, Load, Exec, Reset, Close | results nobody reads; statements given up that go on; a session nobody replaces |
| fake adapter, registry | `adapter/fake`, `adapter/adapter.go` | a table of answers; a locked map | Register, Open | test double |
| corpus | `corpus/` | the suite and its registers | load, validate, select | rules between fields |
| fixtures | `fixture/` | lazily built graphs | Materialize, Requires, Missing, Validate | a capability missed is a fixture put to an engine that cannot hold it |
| rows | `rows/rows.go` | none | Compare, Normalize | bags against sequences, tolerance |
| grammar | `grammar/` | a grammar, a seeded generator | cost, Generate, Reduce, Cases | recursion that must end; a reducer that must not grow |
| impdef | `impdef/` | the probe set | Observe, Silent | an answer told from a silence |
| consensus | `consensus/` | none | compare reports, the queue, its file of dispositions | two readings of the same verdicts; decisions that outlive their case |
| iso | `iso/` | the standard's artifacts | lookups | data |
| report | `report/` | none | text, Markdown, HTML, CSV, JUnit, JSON | wording and layout |
| command line, facade | `cmd/gql-compat`, `gqlcompat.go` | none | flags, files | I/O |

The executor owns everything that changes.  It takes cases from the corpus,
asks an adapter for a session, loads a fixture into it, starts a sampler
around each load and each series, sends statements, judges the answers and
appends results; the summary, the reports and the consensus read what it
left.  Two things run beside it: the sampler's goroutine, which calls into the
session the executor holds, and the adapters' reader goroutines, which wait on
a pipe.

### What makes each part correct

- **executor**: a case or a probe is put to its own fixture, carrying nothing
  of an earlier case and its own setup exactly once; where the report says
  "first application" it is the first; no call goes to a closed session; at
  most one session is open; a fixture that failed is not used; the run ends.
- **zu session**: a line read is the answer to the request it is taken for;
  what the shell serves is what the last load or reset left, through every
  restart; the file is not touched under a shell; one process at a time; every
  call returns and no reader is left behind.
- **process sampler**: a window reports the sum over the processes it spans,
  each counted once from the right baseline; a bad reading takes nothing back;
  polling cannot break the run.
- **ladybug, neo4j sessions**: reply *i* belongs to statement *i*; a load that
  reports success left the fixture and nothing else; a reset leaves nothing;
  what is reported of a statement is what the server did with it.
- **zu staging**: the file holds the fixture, node for node and edge for edge,
  or there is none; a fixture is refused for what it is and not for the order
  it is written in.
- **verdict**: what the harness cut off is never evidence; an absence the
  engine declared is believed or noted, never passed over; a condition is
  credited only on its own status, a permitted one, or the words accepted
  instead; a control statement only excuses.
- **summary, exit**: every result is counted once in the totals, once under its
  kind, once under each item it cites; support and contradiction mean that all
  passed; a green exit hides no failure of the policy and no error.
- **rows**: the comparison decides equality of sequences, or of bags when the
  order is free, under the tolerance of the types.
- **grammar**: the cost is the length of the shortest derivation; the walk
  ends; a reduction is derivable, no larger, and still shows the lead.
- **metrics**: what a published density divides is the graph, but for the error
  that the code allows on each of the three routes.
- **corpus, fixtures**: what validation lets through is what the executor can
  run; a fixture's required capabilities are those its data needs.
- **consensus**: a case is queued exactly when two engines judged it and none
  passed it; every decision in the file is shown under its verdict or as stale.

## Modules

| module | what it is |
|---|---|
| `Plan` | `repeats`, `restores`, `plan` as operators, and the case record |
| `Executor` | one worker driving one engine through a whole run (extends `Plan`) |
| `PristineGraph` | the abstract promise: every case gets a graph made for it |
| `ExecutorInvariant` | the inductive invariant of `Executor` |
| `ExecutorProofs` | its safety theorems; that it implements `PristineGraph` |
| `MCExecutor` | the kinds of case the corpus has, for TLC |
| `ZuSession`, `ZuSessionProofs` | the zu adapter's session; its theorems |
| `LadybugSession`, `LadybugProofs` | the ladybug adapter's session; its theorems |
| `MCLadybugSession` | its markers, for TLC |
| `Sampler`, `SamplerProofs` | the process sampler and its use by `execute`; its theorems |
| `Verdict` | how one case gets its verdict, on any answer |
| `Scoreboard`, `ScoreboardProofs` | several cases, their sums and the exit status (extends `Verdict`); the theorems of both |
| `MCVerdict`, `MCScoreboard` | cases and engines' declarations, for TLC |
| `Neo4jSession`, `MCNeo4jSession` | the neo4j adapter's session, its server and its driver |
| `Neo4jProofs` | its theorems |
| `Trees` | trees as functions from the ways to their nodes: branch, subtree, graft, size |
| `Grammar` | what is done with a grammar at one place: costs, choice, derivations and smaller ones (extends `Trees`) |
| `GrammarWalk` | the generator's costs and walk, and the reducer (extends `Grammar`) |
| `GrammarProofs` | what is reported is a derivation of the grammar, and no longer than before; the costs are the least; the tail comes back; its lemmas about trees |
| `Artifact`, `MCGrammarWalk` | from the elements of the artifact to the trees of a grammar; five grammars for TLC |
| `Rows`, `Consensus`, `Density`, `Fixtures`, `Staging` | pure algorithms, as operators, each with the reference definition it is held against |
| `Ranking` | what a sort and a loop over a set of places do, by counting: a rank, and the sequence the ranks give |
| `Values` | when a cell is the wanted one (`Normalize` and `equal`, which recur over a value); `Rows` takes it as the constant `CellsEqual` |
| `Tables`, `MCTables` | the questions they are asked, one a behaviour (extends `Rows`, `Consensus`, `Density`, `Staging`); inputs for TLC, with `Values` for the cells |
| `TablesProofs` | their properties, for every input |

`ZuSession`, `LadybugSession` and `Neo4jSession` are the sessions that are
the environment of `Executor`: what `Executor` allows an engine (answers,
refusals, timeouts, death between any two calls) is what they can do.  `Sampler` has the
executor reduced to the points where it opens and closes a window and sets or
clears its session.  `Verdict` follows the same `run` as `Executor`, from the
other side: it keeps what an answer says and leaves out the graph, where
`Executor` keeps the graph and leaves out what is made of the answer.  Whether
a table is the one wanted is an input to `Verdict` and the answer of `Rows`; a
walked statement is one step of `Executor` and a behaviour of `GrammarWalk`;
a load of zu may fail in `ZuSession` and `Staging` says when; `Consensus`
begins with the reports `Scoreboard` ends in.

Definitions called *Mutant* in a comment are the same operation with a
plausible bug in it; each is there because exchanging it for the real one
makes some property fail.

## The executor

`Executor.tla` is one worker driving one engine through a whole run.  An
action is at most one call on the engine together with what the code does with
the answer, so that a failure or a cancellation can fall between any two
calls.  The fields of the Go struct are variables of the same name; ghost
variables (`open`, `health`, `base`, `residue`, `prepared`, `applied`,
`store`) hold what is really on the engine's side, which the code cannot see.
`Plan.tla` has the pure arithmetic of `repeats`, `restores` and `plan`.
`PristineGraph.tla` says what a case is promised, as though every case had a
graph made for it alone; `Executor` implements it.

`phase` is the part of `Run` that is executing (empty load, round trip, cases,
walk, probes, done), `pc` the next engine call inside it, `cur` the case in
hand, and `handle` the local variable `sess` of the function that is running,
kept apart from the field `sess` because the difference is a hazard.  An
engine's answer is one of ok, refused, timeout, fatal timeout, fatal, dead; the
last is an ordinary error, as `adapter.AsFailure` makes it.  Three constants
choose the kind of engine: `Isolated` (it declares a reset), `ServerSide` (its
graph outlives sessions) and `SchemaLoader` (it can load a shape alone).

What a run shows:

| run | question | result |
|---|---|---|
| `executor` | three cases of ten kinds, a walked statement, a reduction, a probe, all answers, cancellation anywhere: do the five invariants hold? | holds |
| `executor_unreset` | without a reset and without warmups: is sharing invisible to a case, is a session rebuilt after every fatal answer, does every run end with its session closed? | `Executor` implements `PristineGraph`, and the other two hold, the last under fairness |

Bounds: two fixtures and the blank one, three cases, one walked statement, one
candidate of the reducer, one probe, one warmup, two repeats, three ingest
costs; `executor_unreset` has two cases and no warmups, because a fatal answer
to a warmup is a disagreement of its own (below).  Three cases are enough for a case to suffer from one that is not its
neighbour; what a case inherits is in five fields, and each of them takes
every value within two cases.  The theorems below do not depend on the bounds.

Fairness: `WF_vars(Step)`.  The executor is one goroutine, always scheduled,
and each engine call it makes is under a context with a timeout that the
adapters honour, so a step that is possible is taken.  Cancellation is not
fair: nobody has to cancel.

What is proved (`ExecutorProofs`): the five invariants
of the run `executor`, three more (`TypeOK`, that at most one session is open,
that a measured shape is gone before a fixture is loaded), the refinement, and
`RebuiltAfterFatal` where there are no warmups, for every set of fixtures and
cases, every budget and bound and all three kinds of engine.  That the warmups
are all that stands in the way of the last is a theorem too, about steps and
for any number of them (`OnlyWarmupsKeepKilled`): only a warmup's step can
leave the executor with a session that a fatal answer has killed.  None of the
invariants is inductive: `FixtureIsolation` speaks of the moment of execution,
while what makes it true is what `loaded` and `dirty` mean in between.  `IInv`
says that: a fixture that is loaded and not dirty is what is really in the
graph, with no writes in it but those of the mutating case being executed
(`LoadedInv`); a session of an engine without a reset that is not dirty is
clean (`UnresetInv`); between the load and the end of a case the fixture is
the loaded one (`SettledInv`); a local handle that may still be used is the
executor's (`HandleInv`).  The walk is the exception (its statements write and
do not mark the graph), and the assignment at its end is what restores the
invariant.  The proof has one step for each action.  From the assumptions on
constants it uses `PlanAssumption` and `ExecutorAssumption`; the second says
that the cases are well formed and that a server declares a reset.

Model-checked only: `RunEnds`.  Two things are taken from the corpus rather
than from `Validate`: setup statements occur only in cases marked mutating,
and a walked statement can write.

## The zu session

`ZuSession.tla` has the fields of the Go struct (`cmd`, `out`, `load`,
`closed`) and, as ghosts, the processes that are alive, what each pipe still
holds and what the shell really serves.  Lines on the pipe bear the number of
the request they answer, 0 for the greeting, so that a line taken for the
wrong answer is visible.  A reader goroutine is a record in `readers`: it is
created by `AskFor`, evaluates `s.out` when it is first scheduled
(`RunReader`) and ends with a line or an error (`Read`).  `Call`, `Load` and
`Close` begin the operations; `Staged`, `Convert`, `Start`, `Greeted`, `Write`,
`Answered`, `GiveUp` are their steps, every one of which may fail as in the
code.  `Reply` and `Die` are the shell, `Poll` is the sampler's goroutine
asking for the process.

| run | question | result |
|---|---|---|
| `zu_session` | right answers, right graph, no file pulled from under a shell; does every call return and every reader end? | holds, the last two under fairness |

Bounds: four lines waited for, four processes, two loads.  Two statements with
a restart between them, after a load, need four lines and four processes.

Fairness: a call in progress goes on (the statement's deadline, the ten
seconds of the greeting and the load timeout end every wait), and a reader
that can finish does, which its pipe guarantees once the process has been
waited for.  The shell owes nothing: `Reply` and `Die` are not fair.

Proved (`ZuSessionProofs`): the three invariants of `zu_session`, `TypeOK` and
that at most one process is alive, for any bounds.  The
strengthening (`IInv`) says where the lines are: at most one is under way,
still to be read by the shell, on the pipe or in the channel, and it is the
greeting while the greeting is waited for and the answer to the latest request
while that is; at any other point nothing is on the pipe.  And it says that a
shell serves what a new one would serve, and that this is what was promised.
`AnswersItsQuestion` needs that every recovery stops the
shell: a shell that survives a timeout still owes a line.  These theorems hold
in the behaviours up to the data race of `MCZuSessionDisagreements.cfg`: a step after
it is not taken, because what the program then does is not defined.

Model-checked only: `CallsReturn`, `ReadersEnd`.  Not modelled: the decoding
of frames and the engine's own durability
(what a killed shell had written since the load counts as part of the graph it
was loaded with).  The runner's contract is assumed: one call at a time, none
after Close.

## The ladybug session

`LadybugSession.tla` has the fields of the Go struct (`path` as its `gen`,
`created`, `serial`), the call in hand, and the exchange: the script, the
number before its first marker, the length of its prelude, how far the shell
has come, what it has printed and what has been read of it.  `Exec` and
`Reset` begin the calls (a load begins with the same reset), `Send` is
`preludeLocked` and the head of `runLocked`, `RunStatement` is the shell,
`End` and `Kill` the two ways it stops, `Scan` one turn of `split`, and
`Answer`, `Opened`, `Remove` and `Loaded` what the calls do with the replies.
A line bears the number of the statement that printed it, which the code does
not see: `split` goes by the markers, and a marker is found by its text
(`Occurs`), so that `...-1` is found in `...-10`.

| run | question | result |
|---|---|---|
| `ladybug_session` | is a reply the one to its statement, from inside the graph, and from what the last successful load or reset left? | holds |

Bounds: two resets or loads, eleven markers, fixtures of up to two statements;
markers are numbered in base 2 in place of 10, so that one occurs in another
within the eleven.  Two resets are one that fails and one after it.  A session
can always start another statement until a bound is reached, so deadlock is
not checked.

Proved (`LadybugProofs`): the three invariants and `TypeOK`, for any number of resets,
statements and markers, and any `Occurs` in which a marker occurs in itself.
The argument is the one the comment of `split` leaves to the reader.  Lines
come in the order of their statements and a marker is the last of its
statement (`Sorted`); so far as replies have been cut they are in step with
the statements (`InStep`), or something was taken for a marker too early or
too late, and then every line left belongs to a later statement than the one
being waited for (`Behind`), so the lines run out before the markers do.  A
full list of replies is therefore in step.  `Bad` ties that to the disk: a
statement that did not do what the session takes it to have done printed an
error, so a prelude and a load whose replies bear none have happened.

Assumed of the shell: it runs the statements in order, prints for each its
rows or an error and then the marker, loses a statement's marker before it
loses its lines, and prints no marker's text otherwise.  The effects of a
case's own statement on the graph are `Executor`'s business.  Not modelled:
the output of a killed shell, which the code does not read, and values.

## The process sampler

`Sampler.tla` is `metrics/sampler.go` with one counter for the four groups the
code treats alike, and `runner.execute` as the code that opens and closes
windows around a series.  A reading may be right, find no process, find one
and nothing behind it, or find a confident zero, which are the failures the
comment of `carry` describes.  The ghost `due` accumulates what a window is
entitled to: each process's counter from where it stood when the window
opened, or from its birth, as far as any reading showed it.

| run | question | result |
|---|---|---|
| `sampler` | does a window report the sum, each process once, and never take anything back? | holds when its first reading is right |
| `sampler_race` | can a tick fail the run? | violated: a nil session is called |

Bounds: two processes, three units of work, three executions.  A window spans
at most one restart, a case two restores; a second restart inside a window
repeats the first, which the proofs confirm for any number.

Proved (`SamplerProofs`): `TypeOK`, `SumOfProcesses`, `FigureNeverFalls`.  The
strengthening is a ledger: while a window that was opened by a right reading
is open, the bank plus the running account is what is due, and what is
accounted for of the process being watched is its last reading.

Not modelled: the memory levels, the peaks and the thread count, which are
maxima; a process identifier the system gives to a later process is taken for
a new one.

## The verdict

`Verdict.tla` is `run` as far as it decides a result: `at` is the rung of the
skip ladder or the call it has come to, `r` the `CaseResult`, `last` what the
latest timed execution was answered and `control` what the control statement
was.  An answer is a table, or an error with the fields `AsFailure` gives it;
the table is nil, empty, the one wanted or another, the message says the
expected words or not, the diagnostic record fits or not.  `Cases` is any set
of cases that `Case.Validate` lets through (`WellFormed`) or the walk makes
(`Walked`).  `Declared` is one action for the six rungs that read the
adapter's declaration, because they differ only in the claims they look at
(`ReasonOf`).  Warm-ups are left out: their answers reach no verdict.

`Scoreboard.tla` runs several cases through it with the session handed on, and
then goes over the results as `summarize` and `declarations` do (one turn of
both loops a step; they share nothing) and leaves as the command does.  The
policy is chosen at the exit, which is where it is read.  A run that ends
before its last case is one that was interrupted.  Lists of citations and
claims are taken as sets.

| run | question | result |
|---|---|---|
| `verdict` | does a verdict rest on an answer, a pass of a condition on the condition; are declarations weighed; does the control only excuse? | holds |
| `scoreboard` | are all rows counts of results, and do contradiction and exit status say what they claim? | holds |

Bounds: thirty-nine cases that differ in what the ladder and `judge` look at,
twenty-four configurations (three declarations in each mode, challenged or
not), two codes beside the syntax error, two executions.  One execution after another is all a series has: the second can
replace the answer of the first or be kept from happening.  The scoreboard has
seven of the cases, two of them a run: a row can tell none, one and all of two.
Both runs stop, with their verdict and with the exit, so deadlock is not
checked.

Proved (`ScoreboardProofs`): the four properties of `verdict` and `TypeOK`, for all cases,
declarations, codes and numbers of executions.  `DeclarationWeighed` needs the
rungs one by one: on each, the claims noted so far are those whose reason lies
behind it (`Weighed`), which is why a rung left out or passed over without a
note would be seen at the next.  `NamedConditionEarned` needs that and one
thing of the ladder: an ordinary run that reaches the engine overrode nothing,
so an adapter without codes has been asked only about cases that accept the
words (`CodeOrWords`).  `Unsaid` says nothing is claimed before `judge`,
`Grounded` that what `judge` claimed is already what the property wants when
the control takes it over.

Proved beside them: the three properties of `scoreboard`, and that an
item reads as supported exactly when all that claim it passed
(`SupportedMeansPassed`), for any number of cases, citations and claims.
`SumsAreCounts` alone does not give the others: a row is compared with its own
number of cases, so the invariant also counts those (`RowsAreCounts`,
`ChecksAreCounts`), and it ties a result to the configuration (`ResultsInv`: what it
overrode was declared) and the exit to the rows it was read from (`PhaseInv`).
Two counts are equal only when the sets are, one being part of the other
(`CountsTell`).

Not modelled: families,
the registers of what no case can reach, the counts by skip reason, and
walked statements and probes, which are in no sum.

## The neo4j session

`Neo4jSession.tla` is the adapter whose graph is on a server.  The session has
one field that changes, the bolt session the first statement opens; everything
else is the call in hand (`op`, and the statements it still has to send in
`todo`) and what the driver and the server make of it.  `Issue` is `sess.Run`
up to the wait, `RunReturns` and `RunRefused` its two answers, `Collect` the
result that `Exec` reads to its end.  `Load` and `Reset` read none: the driver
reads it for them before it sends the next statement, so what the server says
of a statement it has accepted is lost (`Abort`), and a connection that breaks
then breaks unheard (`LoseUnread`).  `Deadline` ends a call wherever the driver
waits and leaves the statement to the server, which may carry it out during a
later call (`Late`).  `Version` turns away a server that parses Cypher 5, and
one that cannot be reached.

| run | question | result |
|---|---|---|
| `neo4j_session` | is what Exec reports what the server did; is a statement put to the last load's fixture; does every call return? | holds, the last under fairness |

The second has an exception, and the ghost `doubtful` is exactly that: a
statement of the load failed after it was accepted, or one that was given up
was carried out late.  Without it the property is refuted (`LoadRebuilds`, below).

Bounds: two label sets and an edge type between them, which is the least in
which the order of batches matters; three calls, so that a statement given up
in the first can be carried out in the third, behind a load; one such
statement at a time (a second one is taken to come to nothing).

Fairness: the session's goroutine goes on when it can (`WF_vars(Session)`) and
the deadline of a call's context passes (`WF_vars(Deadline)`): the runner gives
every call one.  Server and network owe nothing.  `CallsReturn` leaves out
`Close`, which waits with a context that never ends.

Proved (`Neo4jProofs`): `TypeOK`, `ReportsTheServer` and `AnsweredFromFixture`,
for all label sets, edge types and fixtures and any number of calls and of
statements given up; of the constants only `Neo4jAssumption` is used, whose
part that matters is that a fixture holds the nodes its edges end in.  The
property speaks of the moment of the answer, the invariant of every moment
before it: what is left of a call is the end of its steps, the first of them
begun (`TodoInv`); while a statement of the load that promised is on the
connection, the promised batches are all still to come if it is the reset, and
those of the nodes are through if it is one of edges (`PromiserInv`); and as
long as nothing is doubtful, a batch of the promise is still to be sent, is on
its way or is in the graph, with nothing from before the reset (`BuiltInv`).
What a given-up statement can still do is bounded by the same part: behind an
undoubted promise only those of later calls are left.  For
`ReportsTheServer`, the fate of a statement follows where the connection has
it, and no late one is of the call that answers (`FateInv`).

Model-checked only: `CallsReturn`.  Not modelled: what a result holds (`convertValue`,
`diagnosticOf`), the text of the statements, the counters `Load` returns.

## The grammar

A tree, of the grammar or of a derivation, is a function from the way to each
of its nodes, the numbers of the children on it, to what the node says
(`Trees`).  `Branch` puts trees under a node, `Below` is what hangs there and
`Graft` is `replaceAt`.  `Artifact` reads the elements into such trees (a
repeat mark follows what it repeats; what stands beside alternatives is one
alternative more).  In `Grammar` is what is done at one place of a grammar: its cost,
the places a visit of `cost` records, the choice of the cheapest, the smallest
derivation (by levels, as `minimal` counts them), and the smaller derivations a
reduction tries, in their order.  What depends on what is below is written as a
recursive function over places or levels.

`GrammarWalk.tla` is a generator: `Relax` and `NextSweep` are `computeCost`,
one production at a time.  The recursion of `expand` is the derivation grown so
far (`built`) and the ways in it that are still to be expanded (`open`); the
next is the leftmost, because a sequence is expanded in order, and how deep the
recursion is can be read off the way (`Depth`).  There is an action for each
kind of node; `Generated` is the end of an attempt, and `Ask` one question of
`Reduce`, which any engine may answer either way.  Where the code draws a
random number every outcome it has a weight for may come.

| run | question | result |
|---|---|---|
| `grammar` | is the cost the length of the shortest statement; does the tail of a walk come back up; is what is reported a statement of the grammar that did the thing, and no longer than before; does it all end? | holds, the last under fairness |
| `grammar_walk_fails` | does a generator that was not refused write its statements? | violated: an optional part that is a choice has no costs |

Bounds of `grammar`: five grammars, each with something the artifact has (an optional
choice before a keyword, a list, expressions in expressions, productions that
stand for each other, prose, nothing but prose); eight levels of depth, two
attempts, four steps of the reduction, six questions; twenty levels of
`minimal`, which these grammars do not come to (with the 81 of the code the
same states are reached).  In the artifact itself the cheapest choice of an
alternative never leads back to its own production.  `grammar_walk_fails` has
one grammar only, in the form of `<delete statement>`: an optional choice of
DETACH and NODETACH, the keyword, a list, and nothing in prose, so that a walk
that fails does so for want of a writable alternative (`generate.go:414`) and
not of a text (361).  Its trace takes the optional part and ends in the
choice.

Fairness: one goroutine that goes on until it has ended.  It is stated as
`<>[]Ended \/ []<><<Next>>_vars`, which is `WF_vars(Next)` because `Next` is
possible until then.

Proved (`GrammarProofs`): `ReducedIsAdmitted`, for every grammar `Parse` can
make (`WellFormed`), every cut, start production, budget and cap, and whatever
the engine answers.  The invariant (`WalkInv`) says that the costs are numbers
up to the one of what cannot be written; that what is grown is a derivation but
for the nodes still to be expanded, each of which is a leaf with its place
(`Walked`, from `Growing`); and that what is being reduced is a derivation
(`Standing`).  Under it are three groups of lemmas:

* Trees.  The node a tree has at a way and that `Branch`, `Below` and `Graft`
  make trees of trees (`BranchTree`, `BelowTree`, `GraftTree`); that left-to-right
  orders the ways, so that there is a leftmost one (`LeftOfOrders`,
  `LeftmostIs`).
* Recursion.  The library has no induction the provers can use, so that a
  recursive function exists, and has a type, is shown by its least
  counterexample (`Recursion`, from the well-foundedness of the naturals): over
  the height of a place for the costs (`CostIs`), over the parts of a sequence
  (`SpentAt`), over the levels of `minimal` (`MinimalLevels`).
* Derivations.  Admitted is said of a node and its children, so a branch of
  derivations is one (`BranchDerives`), and so is a derivation with another
  grafted in where the same place is expanded (`GraftDerives`).  The first is
  what `minimal` needs (`MinimalStands`), the second what a candidate of the
  reducer does (`ReplacementStands`, `FirstStands`), and the two with open ways
  are what the walk does (`BranchGrows`, `GraftGrows`).

The one condition on a walk that the invariant needs of the costs is that a
choice within the budget's tail is one of the alternatives (`CheapestIs`).

Proved of the costs, once `computeCost` is through, for the same grammars:

* `NeverLonger` (`Shrinks`).  The invariant (`CostInv`) is that a production
  costs what its body does (`Settled`) from the end of the last sweep on.  No
  derivation then writes less than its place costs (`NothingIsShorter`), the
  smallest one writes just that where it is not cut short (`MinimalReaches`), so
  what a candidate has put in is no longer than what it took away
  (`ReplacementWrites`, `GraftWrites`).
* `CostsAreShortest` (`ShortestOfAll`).  A cost below `Unreachable` is also one
  that some derivation writes (`Afforded`, kept by every relaxation), so that
  the cost is the length of the shortest derivation of all, those included that
  enter a production within itself.
* `CostIsShortest` (`CostsListed`).  The run's reference definition lists the
  lengths a production can be written in without entering one within itself
  (`Lengths`).  No length on the list is less than the cost (`LengthsCover`),
  and a cost below `Unreachable` is on it: the invariant (`Listed`) is that it is
  so within any set of dearer productions, because what a production is relaxed
  from costs no more than it does.

Proved of the tail of a walk (`ComesBack`): `TailComesBack`, whenever the
cheapest choices do not lead back (`NeverBack`: among any places there is one
from which the walk, past the budget, goes on to none of them).  The condition
is one on the grammar, which the five of the run meet; two productions that are
each other's cheapest choice would be entered for ever.  The invariant
(`TailInv`) is that every node past the budget has below it only what the
cheapest choices give.  It survives a twig grafted in at the leftmost open way,
because the levels above a node do not change with what grows elsewhere
(`TurnsStay`, `GraftTailed`).  A production within itself would then be a round
of places that each lead to the next (`TailComes`).

Model-checked only: `GeneratorEnds`, which is liveness.  Not modelled: the
refusal of an artifact with unnamed or doubled productions, how tokens are
joined, the coverage of productions, the promotion of statements to cases,
fingerprints.

## Algorithms

`Tables.tla` puts one question to one of four algorithms and keeps the answer;
each property compares the answer with what it is meant to be, defined another
way.

* `Rows`: `Compare` with its sort.  The equality of two cells is the constant
  `CellsEqual`, which `Values` defines for TLC, and a rendering is only its
  place among the renderings, given by the constant `Text`.  The stable sort is
  said by `Ranking`: the row at place *k* is the one with *k* - 1 rows before
  it.  The reference (`Describes`) asks for a pairing of the rows that the
  options allow.
* `Consensus`: the queue, the four groups, the file of dispositions.  The
  queue is found by one rule and counted by another; they are the same cases.
* `Density`: the three routes to what a store's fixed part weighs, tried in
  order.  The reference is what is divided besides the graph (`ErrorIsBounded`).
  Where a fixed part comes off that is the rounding of the last unit and, if
  the engine named the part, its slack: of these the code bounds the rounding,
  by a tenth and where the unit is known, leaves the slack charged to the
  graph, and believes an engine without a unit.  Where the store is divided
  whole it is the fixed part, bounded by the empty store: a tenth if it weighs
  no more, and otherwise an empty store for each element.
* `Staging` (on `Fixtures`): the plan of a fixture, the columns and cells, the
  tables, and the check before the commit.  The reference reads the file as
  the converter does, and asks for a bijection of its nodes with the fixture's;
  and what the format has a place for is said without any order
  (`HasAPlace`).

| run | question | result |
|---|---|---|
| `tables` | does a case pass or fail on its rows as it deserves; is the queue what failed everywhere and every decision shown; is a density wrong by no more than its route allows; does a staged file hold its fixture, and is one refused only for what it is? | holds |

Bounds: tables of up to two rows of two cells out of twelve values (integers
of several types, floats, lists, nodes, NaN) under six options; up to three
reports of one case and every file of two entries; stores of up
to thirteen units of four bytes, or of eight to eleven units of twenty with
nineteen bytes of rounding, so that nine times is too little and ten enough on
each route, with one element or twenty, a fixed part from nothing to more than
the graph, and all sixteen ways of knowing about them; fixtures of up to three
nodes and two edges with every kind of value, names that differ in case,
loops, parallel and undirected edges.  The algorithms
look at pairs (two rows, two reports' verdicts, two elements of a column, two
names), so the second of everything is the interesting one, and the third
tells a majority.  An int64 of the model ends at a million, and a float holds
every integer up to 2^18 (2^63 - 1 and 2^53 in the code; past that an integer
is rounded to a step that doubles, in the model as in the code); a day has a
few seconds.  The run stops after its one step, so deadlock is not checked.

Proved (`TablesProofs`): all seven properties, as theorems of `Spec`, for
tables, reports, files, stores and fixtures of any size, any equality of cells
and any rendering.  A behaviour has one step, so the invariant is only that an
answer is the one its question got (`Answered`); the work is in what the
algorithms compute.

* Rows (`PassDeserved`, `FailureDeserved`).  A sort that is said by ranks is a
  permutation because ranks are different and there are as many of them as
  rows (`RankedLists`); the pairing that shows a pass is one permutation after
  the inverse of the other.  For a fail, two tables that can be paired have as
  many rows before a row as before its partner, so the sorts agree on what is
  rendered (`SortedAlike`).
* Consensus (`QueueAllFailed`, `DecisionCounted`), and densities
  (`ErrorBounded`).  The last has a hypothesis, that `DensityFloor` is ten or
  more: it is 10 in the code, and the property speaks of a tenth.  It says no
  more than the property: with no unit known the rounding has no bound, and
  the slack of an engine has none.
* Columns (`RefusedForIt`).  The loop over the values of a column is a
  recursive function.  That it exists and has a type at each place is shown by
  the least place at which it would not (`LeastNatural`, from the
  well-foundedness of the naturals; `ColumnSteps`, `ColumnTyped`), and so is
  what the column is in the end: the one kind its values have
  (`ColumnIsOneKind`).  `Plannable` is then that nothing is refused for more
  than that.
* The file (`StagedFixture`).  The bijection the property asks for takes a node
  to its table and its row; that it is one is a lemma about a finite sequence
  in classes, counted within each (`Numbered`), used once for the nodes and
  once for the edges.  `ReadBack` is a cell through the file and the
  converter, `HeldIsGiven` and `EdgeIsRead` a row and an edge, `PlanHolds` the
  whole.  `CountsMatch` says that the check before the commit never refuses a
  plan.

From the assumptions on constants these use `TablesAssumption` (what is asked
about is made of sequences; sizes and counts are natural numbers; the rounding of a store
is less than its unit; a literal is what the parser makes: a date a whole day,
a local time within one; `Node` is a name) and `StagingAssumption` (a day of
nanoseconds fits in an int64, as it does).  Six more theorems say something of the operators alone: the queue is
the group failed by all, and reports that do not judge do not move it; where
the fixed part comes off and the unit is known the rounding is at most the
share `DensityFloor` allows, and where the store is divided whole so is a fixed
part that is no more than an empty store; two
values give a column the same type in either order; a count that fits in 64
bits is kept.

Model-checked only: `Values`, whose operators recur over a value.

`FailureIsDeserved` has a condition: rendering has to tell apart the same
values as the equality (`RenderingTells`).  Where it does not, two equal bags
may be sorted differently (`UnorderedIsMultiset`, below).  Two things the
properties allow because the code does: an unlabelled node and one labelled
`Node` share a table, as do an untyped edge and one of type `EDGE`; and
`Requires` looks at a value, not at what is in a list.

Not modelled: the wording of a difference, rendering, percentiles, the shapes
of generated fixtures, literals (they are numbers), SQL and what SQLite makes
of a value (it stores a float property that is NaN as NULL, so such a fixture
is read back without it), and a write that fails for another reason than a
name: the transaction leaves no file.

## Disagreements

The two violated runs are disagreements between the code and what a comment
beside it says; `PROJECT.json` quotes the lines.  A tick of the sampler can
call a nil session and end the run (`sampler_race`); a generator can end in
"no writable alternative" (`grammar_walk_fails`).

The rest are stated at the end of their modules and refuted on the instances
of the configurations named here, which belong to no standing run
(`tlc -config <cfg> <module>` repeats each within half a minute; a configuration with
several properties has one of them active and the others as comments):


| what the code says of itself | where | property, configuration | what happens |
|---|---|---|---|
| a fatal failure has the session rebuilt before the next case | `adapter/adapter.go:154` | `RebuiltAfterFatal`, `MCExecutorDisagreements.cfg` | a fatal answer to a warmup is looked at by nobody (`runner.go:1146-1153`) |
| a session that answers an ordinary error is discarded | `adapter/adapter.go:259` | `DeadSessionDiscarded`, `MCExecutorDisagreements.cfg` | only `Fatal` discards, and `AsFailure` does not set it |
| a mutating case has its fixture reloaded | `corpus/corpus.go:424` | `MutatingReloads`, `MCExecutorDisagreements.cfg` | it shares the ingest of a read-only case before it; the graph is right |
| without a reset a mutating case gets a fresh directory | `adapter/adapter.go:49` | `MutatingGetsFreshDirectory`, `MCExecutorDisagreements.cfg` with `Isolated = FALSE` | only if the graph is dirty |
| every reported load starts in an empty directory | `runner.go:492` | `EveryLoadFromEmpty`, `MCExecutorDisagreements.cfg` | a second load of a fixture follows the first |
| `cold-once` is a distribution of one | `runner/result.go:283` | `SingleColdSample`, `MCExecutorColdRepeat.cfg` | a case with a repeat count is executed that many times; no case of the corpus has both |
| peaks are polled while a query runs | `metrics/sampler.go:16` | `PolledDuringStatement`, `MCZuSessionDisagreements.cfg` | `PID` waits for the mutex `Exec` holds |
| a window is not charged a process's earlier life | `metrics/sampler.go:186` | `EarlierLifeNotCharged`, `MCSamplerDisagreements.cfg` | it is when the first reading missed the process |
| the total is the sum over every process | `metrics/sampler.go:349` | `EveryProcessCounted`, `MCSamplerDisagreements.cfg` | not one whose first reading had no counters |
| a restore is not charged to the statement | `runner.go:1166` | `RestoreNotCharged`, `MCSamplerDisagreements.cfg` | it is when it fails: the window is closed twice |
| a condition case is skipped where no code is reported | `runner.go:1704` | `NamedConditionNotMerelyRejected`, `MCVerdictDisagreements.cfg` | not in a challenging run, where any refusal passes it |
| a failure stands when the session falls over under the control | `runner.go:1480` | `FallenSessionIsNoEvidence`, `MCVerdictDisagreements.cfg` | only when the control's answer is a timeout or a transport failure |
| old stores are removed, the disk figures are about the fixture | `adapter/ladybug/ladybug.go:852` | `DiskIsOneStore`, `MCLadybugDisk.cfg` (module `MCLadybugSession`) | a reset that failed leaves its store, and the next one removes only its predecessor's |
| a write never leaks into the next case | `runner.go:309` | `NoWriteLeaks`, `MCExecutorDisagreements.cfg` | it is by a case that names no fixture, which never has the graph reset |
| a reader stays blocked until the process it reads from is killed | `adapter/zu/zu.go:477` | `ReaderStaysWithItsProcess`, `MCZuSessionDisagreements.cfg` | it evaluates `s.out` when first scheduled: nil, or the next shell's |
| the CPU utilisation is the fraction of a core the series kept busy | `metrics/metrics.go:621` | `UtilizationOfOneSpan`, `MCSamplerDisagreements.cfg` | for a restored series CPU time is of the last execution and wall time of all (`report/csv.go:167`) |
| a dead session is never counted as a pass or a fail | `runner/result.go:45` | `DeadSessionIsNoVerdict`, `MCVerdictDisagreements.cfg` | a fatal failure without the transport flag is judged as a refusal |
| a driver that loses the connection is not an engine that refused | `adapter/adapter.go:160` | `RefusedByTheServer`, `MCNeo4jSessionDisagreements.cfg` | a lost connection comes back without the flag, and is judged as a refusal |
| Load rebuilds the graph from a fixture | `adapter/neo4j/neo4j.go:254` | `LoadRebuilds`, `MCNeo4jSessionDisagreements.cfg` | it reads no result: a batch that fails after it was accepted is missing |
| unordered compares rows as a multiset | `rows/rows.go:67` | `UnorderedIsMultiset`, `MCTablesDisagreements.cfg` | it sorts by text, and 1 and 1.0, or two floats within the tolerance, may be sorted apart from their equals |
| consensus needs three engines and says so where there are two | `consensus/consensus.go:22` | `ThinSaysSo`, `MCTablesDisagreements.cfg` | it counts the reports, not the engines that judged the case |
| `Requires` refuses to claim temporal values for a map that is no literal | `fixture/temporal.go:45` | `OnlyTemporalIsTemporal`, `MCTablesDisagreements.cfg` | any map with a tag in it counts |
| a staged value is the one the fixture wrote | `adapter/zu/sqlite.go:572` | `NoOtherValue`, `MCTablesDisagreements.cfg` | a time past the year 2262 wraps around |
| an engine that lacks the thing cannot contradict its claim | `report/markdown.go:166` | `LackCannotPass`, `MCScoreboardLack.cfg` | refusals that the case expects pass it |

## What is not modelled

Rendering (reports, consensus and probe tables), the command line, the ISO
artifacts, YAML and value conversion in the adapters are data or I/O without a
state that anything else depends on.  The fake adapter is a test double and the
registry a map filled before anything runs.  Of the parts that are modelled,
each section says what it leaves out.

Out of the prover's reach, and left to TLC: the liveness properties (`RunEnds`,
both `CallsReturn`, `ReadersEnd`, `GeneratorEnds`), and what the recursive
operators of `Values` and `Artifact` compute on values and elements.

## Plan

Done: the executor, the three sessions, the process sampler, the verdict and
the scoreboard, the grammar, and the algorithms of rows, consensus, density and
staging, all with their proofs.  Left, in this order:

1. `Graph`: an abstract session (a promise, and statements answered from it)
   that the three sessions implement.
2. `Observation`: `impdef.Observe` and the walk's `lead`, which read answers by
   rules of their own; an answer told from a silence.
3. `CorpusRules`: `Validate` and selection; that what passes is `WellFormed`.
