------------------------------ MODULE Executor ------------------------------
(***************************************************************************)
(* The executor of runner/runner.go and runner/generated.go: one worker    *)
(* that drives one engine session through a whole run, in the order        *)
(* Run takes it: weigh the empty store, measure the round trip, run the    *)
(* selected cases, walk the grammar, take the probes, close.               *)
(*                                                                         *)
(* One action is at most one call on the engine together with what the Go  *)
(* code does with the answer.  The engine answers nondeterministically.    *)
(* Ghost variables record what the engine really holds; the executor's own *)
(* fields are only what it believes.                                       *)
(*                                                                         *)
(* The skip ladder and the verdicts are left out: a case the ladder skips  *)
(* touches nothing, and a verdict changes nothing in the engine.           *)
(***************************************************************************)
EXTENDS Plan, FiniteSets

CONSTANTS
  Blank,        \* EmptyFixture, the fixture with nothing in it
  Cases,        \* the cases the suite may hand out, in any order
  Probed,       \* the fixtures (or NoFixture) the probes name
  LoadCosts,    \* what an ingest may cost, in clock ticks; 0 is unmeasurable
  Isolated,     \* Capabilities.Isolated
  ServerSide,   \* the engine's graph outlives its sessions (Neo4j)
  SchemaLoader, \* the adapter can load a fixture's shape alone
  MaxCases,     \* bound: cases in the suite
  MaxWalked,    \* bound: statements the grammar walk generates
  MaxTried,     \* bound: candidates the reducer puts to the engine
  MaxProbes     \* bound: probes in the set

\* A server's graph survives a new session, so a server without a reset would
\* offer no way back to a known graph at all; the Neo4j adapter declares both.
ASSUME ExecutorAssumption ==
  /\ Blank \in Fixtures
  /\ Cases \subseteq {c \in CaseType : WellFormed(c)}
  /\ Probed \subseteq Fixtures \cup {NoFixture}
  /\ LoadCosts \subseteq Nat
  /\ Isolated \in BOOLEAN /\ ServerSide \in BOOLEAN /\ SchemaLoader \in BOOLEAN
  /\ ServerSide => Isolated
  /\ MaxCases \in Nat /\ MaxWalked \in Nat /\ MaxTried \in Nat /\ MaxProbes \in Nat

Nil == 0        \* no session; sessions are numbered from 1

VARIABLES
  \* Run and the calls below it
  phase,        \* which part of Run is executing
  pc,           \* the next engine call inside it
  cancelled,    \* ctx.Err() # nil
  cur,          \* the case, walked statement or probe in hand
  count,        \* how many of them this phase has begun
  plan,         \* r.Repeats and r.Timing
  tries,        \* warmups, executions or reductions done so far
  handle,       \* the local variable sess of run, execute, probe...
  \* the executor's fields
  sess, seq, loaded, dirty, failedLoads, floors,
  \* ghost: what is really on the engine's side
  open,         \* the sessions opened and not closed
  health,       \* the worst this session has reported about itself
  base,         \* the fixture the graph was made from, or "empty"/"partial"
  residue,      \* a write of an earlier case is still in the graph
  prepared,     \* times the current case's setup is in the graph
  applied,      \* times the current case's statement is in the graph
  store         \* what earlier loads left in the session's directory

control == <<phase, pc, cancelled, cur, count, plan, tries, handle>>
holding == <<sess, seq, loaded, dirty>>
memory  == <<failedLoads, floors>>
graph   == <<base, residue, prepared, applied>>
engine  == <<open, health, graph, store>>
vars == <<control, holding, memory, engine>>

Phases == {"empty", "roundtrip", "cases", "walk", "probes", "done"}
Steps == {"start", "session", "load", "reopen", "floor", "refresh", "ingest",
          "plan", "setup", "warm", "exec", "restore", "explain", "parses",
          "finish", "cut", "closing", "ask", "probe", "reduce", "try"}

\* A read-only piece of work on a fixture: the empty load, a probe.
Reading(f) ==
  [ fixture |-> f, mutating |-> FALSE, shape |-> "plain", setup |-> FALSE,
    restore |-> "unset", repeat |-> 0, failing |-> FALSE, parses |-> FALSE ]

\* grammar.Cases: a walked statement names no fixture, is not marked mutating
\* and runs once.
Walked == [Reading(NoFixture) EXCEPT !.repeat = 1]

Work == Cases \cup {Reading(f) : f \in Fixtures \cup {NoFixture}} \cup {Walked}

\* What one Exec can answer, by what the executor does with it.  A dead engine
\* is an ordinary error, not a Failure: AsFailure gives it no Fatal flag.
Answers == {"ok", "refused", "timeout", "fatal timeout", "fatal", "dead"}
Kills(a) == a \in {"fatal", "fatal timeout"}
TimedOut(a) == a \in {"timeout", "fatal timeout"}

\* Failure.Fatal as the runner reads it.
\* Mutant FatalUnlessTimeout: a cut-off statement is never taken for fatal.
FatalUnlessTimeout(a) == Kills(a) /\ ~TimedOut(a)
Fatal(a) == Kills(a)

Writes(c) == c.mutating \/ phase = "walk"

Init ==
  /\ phase = "empty" /\ pc = "start" /\ cancelled = FALSE
  /\ cur = Reading(NoFixture) /\ count = 0 /\ tries = 0 /\ handle = Nil
  /\ plan = [repeats |-> 1, timing |-> "series"]
  /\ sess = Nil /\ seq = 0 /\ loaded = NoFixture /\ dirty = FALSE
  /\ failedLoads = {} /\ floors = {}
  /\ open = {} /\ health = "sound"
  /\ base = "empty" /\ residue = FALSE /\ prepared = 0 /\ applied = 0
  /\ store = "nothing"

(***************************************************************************)
(* session, discard and the local handle                                   *)
(***************************************************************************)

\* Driver.Open in a directory of its own succeeded.
Open ==
  /\ seq' = seq + 1 /\ sess' = seq + 1 /\ loaded' = NoFixture /\ dirty' = FALSE
  /\ handle' = seq + 1
  /\ open' = open \cup {seq + 1} /\ health' = "sound" /\ store' = "nothing"
  /\ IF ServerSide THEN UNCHANGED graph
     ELSE base' = "empty" /\ residue' = FALSE /\ prepared' = 0 /\ applied' = 0

\* session: the one there is, or a new one.
Session ==
  \/ sess # Nil /\ handle' = sess /\ UNCHANGED <<holding, engine>>
  \/ sess = Nil /\ Open

\* session when Open fails: the directory number is spent, nothing else.
\* Mutant NoSessionGivesBack: the number is taken back twice.
NoSessionGivesBack ==
  /\ sess = Nil
  /\ seq' = seq - 1
  /\ UNCHANGED <<sess, loaded, dirty, handle, engine>>
NoSession ==
  /\ sess = Nil
  /\ seq' = seq + 1
  /\ UNCHANGED <<sess, loaded, dirty, handle, engine>>

\* discard.  Mutant DiscardUnclosed: the session is forgotten, not closed.
DiscardUnclosed ==
  /\ sess' = Nil /\ loaded' = NoFixture /\ dirty' = FALSE
  /\ UNCHANGED <<seq, open>>
Discard ==
  /\ sess' = Nil /\ loaded' = NoFixture /\ dirty' = FALSE
  /\ open' = open \ {sess}
  /\ UNCHANGED seq

DiscardIf(cond) ==
  IF cond THEN Discard ELSE UNCHANGED <<holding, open>>

\* What an answer says about the session it came from.  An adapter may answer
\* again after that (zu starts another shell on the same file).
Heard(a) ==
  health' = CASE Kills(a) -> "killed"
              [] a = "dead" /\ health = "sound" -> "dead"
              [] OTHER -> health


(***************************************************************************)
(* Where the control goes                                                  *)
(***************************************************************************)

Goto(step) ==
  pc' = step /\ UNCHANGED <<phase, cancelled, cur, count, plan>>

Enter(next) ==
  /\ phase' = next /\ pc' = "start" /\ count' = 0 /\ tries' = 0
  /\ UNCHANGED <<cancelled, cur, plan>>

Begin(c) ==
  /\ cur' = c /\ pc' = "session" /\ count' = count + 1 /\ tries' = 0
  /\ UNCHANGED <<phase, cancelled, plan>>

\* A restored execution starts again at the setup the restore undid.
\* Mutant ResumeAtStatement: the setup is run before the first one only.
ResumeAtStatement == "exec"
Resume == "setup"

\* ensureLoaded returned a session, or the work in hand needs no fixture.
Ready ==
  IF phase = "empty" THEN Enter("roundtrip")
  ELSE /\ Goto(IF phase = "roundtrip" THEN "ask"
               ELSE IF phase = "probes" THEN "probe"
               ELSE IF tries > 0 THEN Resume ELSE "plan")
       /\ UNCHANGED tries

\* No session, or no fixture in it.  The measurements are given up with a
\* note, a case before its first execution is an error, a probe is silent; a
\* case between two executions stops with the samples it has.
GiveUp ==
  IF phase = "empty" THEN Enter("roundtrip")
  ELSE IF phase = "roundtrip" THEN Enter("cases")
  ELSE Goto(IF tries > 0 THEN "explain" ELSE "start") /\ UNCHANGED tries

(***************************************************************************)
(* Run: the phases                                                         *)
(***************************************************************************)

\* The context is cancelled while the run is anywhere.
Cancel ==
  /\ ~cancelled /\ phase # "done"
  /\ cancelled' = TRUE
  /\ UNCHANGED <<phase, pc, cur, count, plan, tries, handle, holding, memory, engine>>

\* measureEmpty, or its early returns.
MeasureEmpty ==
  /\ phase = "empty" /\ pc = "start"
  /\ Begin(Reading(Blank)) \/ Enter("roundtrip")
  /\ UNCHANGED <<handle, holding, memory, engine>>

MeasureRoundTrip ==
  /\ phase = "roundtrip" /\ pc = "start"
  /\ Begin(Reading(NoFixture))
  /\ UNCHANGED <<handle, holding, memory, engine>>

\* One iteration of the case loop on a case the skip ladder lets through.
RunCase ==
  /\ phase = "cases" /\ pc = "start" /\ ~cancelled /\ count < MaxCases
  /\ \E c \in Cases : Begin(c)
  /\ UNCHANGED <<handle, holding, memory, engine>>

\* The suite is exhausted or the context is cancelled; the walk is optional.
EndCases ==
  /\ phase = "cases" /\ pc = "start"
  /\ (~cancelled /\ Enter("walk")) \/ Enter("probes")
  /\ UNCHANGED <<handle, holding, memory, engine>>

Walk ==
  /\ phase = "walk" /\ pc = "start" /\ ~cancelled /\ count < MaxWalked
  /\ Begin(Walked)
  /\ UNCHANGED <<handle, holding, memory, engine>>

\* Whatever the session held is not what it holds now.
EndWalk ==
  /\ phase = "walk" /\ pc = "start"
  /\ Enter("probes")
  /\ dirty' = TRUE
  /\ UNCHANGED <<handle, sess, seq, loaded, memory, engine>>

Observe ==
  /\ phase = "probes" /\ pc = "start" /\ ~cancelled /\ count < MaxProbes
  /\ \E f \in Probed : Begin(Reading(f))
  /\ UNCHANGED <<handle, holding, memory, engine>>

\* Run returns and the deferred close runs.
Close ==
  /\ phase = "probes" /\ pc = "start"
  /\ Enter("done")
  /\ sess' = Nil /\ open' = open \ {sess}
  /\ UNCHANGED <<handle, seq, loaded, dirty, memory, health, graph, store>>

(***************************************************************************)
(* session and ensureLoaded, with measureFloor inside it                   *)
(***************************************************************************)

GetSession ==
  /\ pc = "session"
  /\ \/ /\ Session
        /\ IF cur.fixture = NoFixture THEN Ready ELSE Goto("load") /\ UNCHANGED tries
     \/ NoSession /\ GiveUp
  /\ UNCHANGED memory

\* The three questions ensureLoaded asks before it loads: is the graph already
\* there, was it refused before, and can it be put into this session.
\* Mutant RefusedForgotten: a refused fixture is tried again.
RefusedForgotten == FALSE
UpToDate == loaded = cur.fixture /\ ~dirty
Refused == cur.fixture \in failedLoads
NeedsReopen == dirty /\ ~Isolated

\* What ensureLoaded does next once the session is fit to be loaded into.
ToIngest == IF cur.fixture = Blank \/ cur.fixture \in floors THEN "ingest" ELSE "floor"

EnsureLoaded ==
  /\ pc = "load"
  /\ \/ /\ UpToDate
        /\ Ready
        /\ UNCHANGED <<handle, holding, engine>>
     \/ /\ ~UpToDate /\ Refused
        /\ Discard
        /\ GiveUp
        /\ UNCHANGED <<handle, health, graph, store>>
     \/ /\ ~UpToDate /\ ~Refused /\ NeedsReopen
        /\ Discard
        /\ Goto("reopen")
        /\ UNCHANGED <<tries, handle, health, graph, store>>
     \/ /\ ~UpToDate /\ ~Refused /\ ~NeedsReopen
        /\ Goto(ToIngest)
        /\ UNCHANGED <<tries, handle, holding, engine>>
  /\ UNCHANGED memory

\* The engine has no reset, so the way back to a known graph is a new session.
Reopen ==
  /\ pc = "reopen"
  /\ \/ Session /\ Goto(ToIngest) /\ UNCHANGED tries
     \/ NoSession /\ GiveUp
  /\ UNCHANGED memory

\* What follows the shape load.
\* Mutant KeepShape: the session the shape went into is loaded into next.
KeepShape == UNCHANGED <<holding, open>>
DropShape == Discard

\* measureFloor up to the discard.  The shape load may fail half way, and
\* whatever it left behind goes with the session.
MeasureFloor ==
  /\ pc = "floor"
  /\ \/ /\ ~SchemaLoader
        /\ floors' = floors \cup {cur.fixture}
        /\ Goto("ingest")
        /\ UNCHANGED <<tries, handle, holding, failedLoads, engine>>
     \/ /\ SchemaLoader
        /\ base' = "partial" /\ store' = "shape"
        /\ DropShape
        /\ Goto("refresh")
        /\ UNCHANGED <<tries, handle, memory, health, residue, prepared, applied>>

\* measureFloor's own session call, and the deferred record of the floor.
\* Mutant RefreshUnseen: the caller goes on with the session it passed in.
RefreshUnseen ==
  /\ pc = "refresh"
  /\ floors' = floors \cup {cur.fixture}
  /\ sess = Nil /\ sess' = seq + 1 /\ seq' = seq + 1
  /\ open' = open \cup {seq + 1} /\ health' = "sound" /\ store' = "nothing"
  /\ Goto("ingest")
  /\ UNCHANGED <<tries, handle, loaded, dirty, graph, failedLoads>>
Refresh ==
  /\ pc = "refresh"
  /\ floors' = floors \cup {cur.fixture}
  /\ \/ Session /\ Goto("ingest") /\ UNCHANGED tries
     \/ NoSession /\ GiveUp
  /\ UNCHANGED failedLoads

\* Load replaces the graph; only an engine with a reset also gets rid of what
\* earlier writes left outside it.
Replaced(b) ==
  /\ base' = b
  /\ residue' = (~Isolated /\ (residue \/ prepared > 0 \/ applied > 0))
  /\ prepared' = 0 /\ applied' = 0

\* Load: it succeeds, it fails and is remembered, or it loads another number
\* of rows than the fixture has, which is not remembered.  Every caller of
\* ensureLoaded discards the session on an error.
Ingest ==
  /\ pc = "ingest"
  /\ store' = "graph"
  /\ UNCHANGED <<handle, floors>>
  /\ \/ /\ Replaced(cur.fixture)
        /\ loaded' = cur.fixture /\ dirty' = FALSE
        /\ Ready
        /\ UNCHANGED <<sess, seq, failedLoads, open, health>>
     \/ /\ Replaced("partial")
        /\ failedLoads' \in {failedLoads, failedLoads \cup {cur.fixture}}
        /\ Discard
        /\ GiveUp
        /\ UNCHANGED health

(***************************************************************************)
(* execute, executeFault and executeClosing                                *)
(***************************************************************************)

\* plan, made after the load; a fault case skips when the adapter has no way
\* to break its own channel.
MakePlan ==
  /\ pc = "plan"
  /\ \E load \in LoadCosts : plan' = Treatment(cur, load)
  /\ pc' \in {"setup"} \cup IF cur.shape = "fault" THEN {"finish"} ELSE {}
  /\ UNCHANGED <<phase, cancelled, cur, count, tries, handle, holding, memory, engine>>

AfterSetup ==
  CASE cur.shape = "fault"   -> "cut"
    [] cur.shape = "closing" -> "closing"
    [] OTHER                 -> IF tries > 0 THEN "exec" ELSE "warm"

Setup ==
  /\ pc = "setup"
  /\ UNCHANGED <<tries, handle, memory, base, residue, applied, store>>
  /\ \/ /\ ~cur.setup
        /\ Goto(AfterSetup)
        /\ UNCHANGED <<holding, open, health, prepared>>
     \/ /\ cur.setup
        /\ \E a \in Answers :
             /\ Heard(a)
             /\ DiscardIf(Fatal(a))
             /\ prepared' \in {prepared + 1} \cup IF a = "ok" THEN {} ELSE {prepared}
             /\ Goto(IF a = "ok" THEN AfterSetup ELSE "finish")

\* The warmup loop leaves early on a timeout only, and never discards.
Warmed(a) == IF TimedOut(a) THEN WarmupsOf(cur) ELSE tries + 1

Warm ==
  /\ pc = "warm"
  /\ \/ /\ tries < WarmupsOf(cur)
        /\ \E a \in Answers :
             /\ Heard(a)
             /\ tries' = Warmed(a)
             /\ applied' \in {applied} \cup IF Writes(cur) THEN {applied + 1} ELSE {}
        /\ Goto("warm")
        /\ UNCHANGED <<base, residue, prepared>>
     \/ /\ tries >= WarmupsOf(cur)
        /\ Goto("exec") /\ tries' = 0
        /\ UNCHANGED <<health, graph>>
  /\ UNCHANGED <<handle, holding, memory, open, store>>

\* One timed execution, and whether the loop goes round again.
Exec ==
  /\ pc = "exec"
  /\ tries' = tries + 1
  /\ \E a \in Answers :
       /\ Heard(a)
       /\ DiscardIf(Fatal(a))
       /\ applied' \in {applied} \cup IF Writes(cur) THEN {applied + 1} ELSE {}
       /\ LET stops == \/ Fatal(a) \/ TimedOut(a)
                       \/ a # "ok" /\ ~cur.failing
                       \/ tries + 1 = plan.repeats
          IN Goto(IF stops THEN "explain"
                  ELSE IF plan.timing = "restored" THEN "restore" ELSE "exec")
  /\ UNCHANGED <<handle, memory, base, residue, prepared, store>>

\* restore: the graph is declared dirty and loaded again.
\* Mutant NotDirtied: the restore trusts the graph it is to put back.
NotDirtied == dirty
DirtyForRestore == TRUE
Restore ==
  /\ pc = "restore"
  /\ dirty' = DirtyForRestore
  /\ Goto("session")
  /\ UNCHANGED <<tries, handle, sess, seq, loaded, memory, engine>>

\* Four things stop the question; an engine that answers it does not execute.
Explain ==
  /\ pc = "explain"
  /\ Goto("parses")
  /\ \/ UNCHANGED <<holding, open, health>>
     \/ /\ sess # Nil
        /\ \E a \in Answers : Heard(a) /\ DiscardIf(Fatal(a))
  /\ UNCHANGED <<tries, handle, memory, graph, store>>

\* checkParses, when the judged failure is about the status code.
CheckParses ==
  /\ pc = "parses"
  /\ Goto("finish")
  /\ \/ UNCHANGED <<holding, open, health, applied>>
     \/ /\ cur.parses /\ sess # Nil
        /\ \E a \in Answers : Heard(a) /\ DiscardIf(Fatal(a))
        /\ applied' \in {applied} \cup IF Writes(cur) THEN {applied + 1} ELSE {}
  /\ UNCHANGED <<tries, handle, memory, base, residue, prepared, store>>

\* CutAfter: sent or not, the channel is destroyed and the session discarded.
Cut ==
  /\ pc = "cut"
  /\ health' = "killed"
  /\ applied' \in {applied} \cup IF Writes(cur) THEN {applied + 1} ELSE {}
  /\ Discard
  /\ Goto("finish")
  /\ UNCHANGED <<tries, handle, memory, base, residue, prepared, store>>

Closing ==
  /\ pc = "closing"
  /\ \E a \in Answers : Heard(a)
  /\ applied' \in {applied} \cup IF Writes(cur) THEN {applied + 1} ELSE {}
  /\ Discard
  /\ Goto("finish")
  /\ UNCHANGED <<tries, handle, memory, base, residue, prepared, store>>

\* The end of run.  A walked statement the engine called a syntax error is
\* reduced next.  What the case left in the graph is residue from here on.
\* Mutant WriteForgotten: a mutating case leaves the graph to the next one.
WriteForgotten == dirty
DirtyAfterCase == dirty \/ cur.mutating
Finish ==
  /\ pc = "finish"
  /\ dirty' = DirtyAfterCase
  /\ residue' = (residue \/ prepared > 0 \/ applied > 0)
  /\ prepared' = 0 /\ applied' = 0 /\ tries' = 0
  /\ \/ Goto("start")
     \/ phase = "walk" /\ Goto("reduce")
  /\ UNCHANGED <<handle, sess, seq, loaded, memory, open, health, base, store>>

(***************************************************************************)
(* measureRoundTrip, lead and probe                                        *)
(***************************************************************************)

\* Warmups stop at the first error and nothing is discarded; a timed answer
\* that is an error ends the measurement.
Ask ==
  /\ pc = "ask"
  /\ \E a \in Answers :
       /\ Heard(a)
       /\ IF tries < CfgWarmups
          THEN /\ Goto("ask")
               /\ tries' = IF a = "ok" THEN tries + 1 ELSE CfgWarmups
               /\ UNCHANGED <<holding, open>>
          ELSE /\ DiscardIf(Fatal(a))
               /\ IF a = "ok" /\ tries + 1 < CfgWarmups + CfgRepeats
                  THEN Goto("ask") /\ tries' = tries + 1
                  ELSE Enter("cases")
  /\ UNCHANGED <<handle, memory, graph, store>>

\* grammar.Reduce counts every candidate it asks about.
\* Mutant TriedIfSilent: only those the engine never answered.
TriedIfSilent == IF sess = Nil THEN tries + 1 ELSE tries
Tried == tries + 1

\* lead: grammar.Reduce asks for a session and puts a candidate to it.
Reduce ==
  /\ pc = "reduce"
  /\ \/ Goto("start") /\ UNCHANGED <<tries, handle, holding, engine>>
     \/ /\ ~cancelled /\ tries < MaxTried
        /\ \/ Session /\ Goto("try") /\ UNCHANGED tries
           \/ NoSession /\ Goto("reduce") /\ tries' = Tried
  /\ UNCHANGED memory

SyntaxError ==
  /\ pc = "try"
  /\ tries' = Tried
  /\ Goto("reduce")
  /\ \E a \in Answers : Heard(a) /\ DiscardIf(Fatal(a))
  /\ residue' \in {residue, TRUE}
  /\ UNCHANGED <<handle, memory, base, prepared, applied, store>>

Probe ==
  /\ pc = "probe"
  /\ Goto("start")
  /\ \E a \in Answers : Heard(a) /\ DiscardIf(Fatal(a))
  /\ UNCHANGED <<tries, handle, memory, graph, store>>

-----------------------------------------------------------------------------
CaseStep ==
  \/ MakePlan \/ Setup \/ Warm \/ Exec \/ Restore \/ Explain \/ CheckParses
  \/ Cut \/ Closing \/ Finish

LoadStep ==
  GetSession \/ EnsureLoaded \/ Reopen \/ MeasureFloor \/ Refresh \/ Ingest

PhaseStep ==
  \/ MeasureEmpty \/ MeasureRoundTrip \/ RunCase \/ EndCases
  \/ Walk \/ EndWalk \/ Observe \/ Close

Step == PhaseStep \/ LoadStep \/ CaseStep \/ Ask \/ Reduce \/ SyntaxError \/ Probe

Next == Step \/ Cancel

\* The executor is one goroutine that is always scheduled, and every call it
\* makes on an engine is under a timeout the adapters honour.
Spec == Init /\ [][Next]_vars
FairSpec == Spec /\ WF_vars(Step)

-----------------------------------------------------------------------------
(***************************************************************************)
(* Properties                                                              *)
(***************************************************************************)

\* The statement, the setup or the probe about to be put to the engine.
Executing == pc \in {"setup", "warm", "exec", "cut", "closing", "probe"}

\* The local variable sess is about to be used.
Calling == Executing \/ pc \in {"floor", "ingest", "ask", "try"}

ControlTyped ==
  /\ phase \in Phases /\ pc \in Steps /\ cancelled \in BOOLEAN
  /\ cur \in Work /\ count \in Nat /\ tries \in Nat
  /\ plan \in [repeats : Nat, timing : Timings]

HoldingTyped ==
  /\ handle \in Nat /\ sess \in Nat /\ seq \in Nat
  /\ loaded \in Fixtures \cup {NoFixture} /\ dirty \in BOOLEAN

MemoryTyped == failedLoads \subseteq Fixtures /\ floors \subseteq Fixtures

EngineTyped ==
  /\ open \subseteq Nat /\ health \in {"sound", "dead", "killed"}
  /\ base \in Fixtures \cup {"empty", "partial"} /\ residue \in BOOLEAN
  /\ prepared \in Nat /\ applied \in Nat
  /\ store \in {"nothing", "shape", "graph"}

\* Every variable keeps to the values the Go fields and the engine can have.
TypeOK == ControlTyped /\ HoldingTyped /\ MemoryTyped /\ EngineTyped

\* A case or a probe that names a fixture is put to a graph made from that
\* fixture by a complete load, with no write of an earlier case or of the
\* grammar walk in it, however many cases shared the ingest.
FixtureIsolation ==
  Executing /\ cur.fixture # NoFixture => base = cur.fixture /\ ~residue

\* Every execution of a mutating case that is its first, or that follows a
\* restore, is the statement's first application to the graph: nothing warmed
\* it up, and the restore took the previous application away.
FirstApplication ==
  pc = "exec" /\ cur.mutating /\ (tries = 0 \/ plan.timing = "restored")
    => applied = 0

\* A case with setup statements is executed on a graph in which they have
\* taken effect once: a restore that undid them ran them again, and nothing
\* else ran them twice.
SetupInPlace ==
  pc \in {"warm", "exec", "cut", "closing"} /\ cur.setup => prepared = 1

\* No call goes to a session that has been closed: reopening, restoring and
\* floor measuring all replace the local handle together with e.sess.  Explain
\* and checkParses look at e.sess and then call through the handle, so there
\* it has to be the same session whenever there is one.
HandleIsLive ==
  Calling \/ (pc \in {"explain", "parses"} /\ sess # Nil)
    => handle = sess /\ handle \in open

\* The executor never loses track of a session it opened: at most one is open
\* at a time, it is the one the executor holds, and none is at the end.
NoLeakedSession == open \subseteq {sess} \ {Nil}

\* A fixture the engine once failed to load is never executed against again,
\* not even where an earlier case had loaded it.
RefusedFixtureNotUsed ==
  Executing /\ cur.fixture # NoFixture => cur.fixture \notin failedLoads

\* The store a fixture is loaded and weighed in never holds the shape the
\* floor was measured with.
FloorNotUnderIngest == pc = "ingest" => store # "shape"

\* adapter.Failure.Fatal: a failure that killed the session has it rebuilt
\* before the next piece of work.
RebuiltAfterFatal == pc = "start" /\ sess # Nil => health # "killed"

\* Holding: the work in hand is using the graph of its fixture.
Holding == Executing /\ cur.fixture # NoFixture
IfHolding(x, otherwise) == IF Holding THEN x ELSE otherwise

Pristine == INSTANCE PristineGraph WITH
  Graphs   <- Fixtures,
  Idle     <- NoFixture,
  made     <- IfHolding(IF residue THEN "partial" ELSE base, NoFixture),
  staged   <- IfHolding(cur.setup, FALSE),
  once     <- IfHolding(plan.timing = "restored" /\ pc # "probe", FALSE),
  prepared <- IfHolding(prepared, 0),
  applied  <- IfHolding(applied, 0)

\* The executor implements the promise of PristineGraph: sharing an ingest
\* between cases, reopening, restoring and giving up are invisible to a case.
ImplementsPristine == Pristine!Spec

\* The run ends: no answer, refusal, failed load or restore sends the executor
\* round a loop for ever, and a cancelled run ends as well.
RunEnds == <>(phase = "done" /\ open = {})

-----------------------------------------------------------------------------
(* What the code says of itself, and does not keep to. *)

\* adapter.Session.Exec: a dead process returns an ordinary error and the
\* session is discarded.
DeadSessionDiscarded == pc = "start" /\ sess # Nil => health # "dead"

\* TimingColdOnce: one unwarmed execution of a mutating statement, so a case
\* that ends up there is not executed again on what it left behind.
SingleColdSample == pc = "exec" /\ plan.timing = "cold-once" => tries = 0

\* executor.loaded and dirty: no write leaks into the next case.
NoWriteLeaks == phase = "cases" /\ pc = "plan" => ~residue

\* corpus.Case.Mutating: the fixture is reloaded before a mutating case
\* instead of sharing a loaded one.
MutatingReloads == [][pc = "load" /\ pc' = "plan" => ~cur.mutating]_vars

\* adapter.Capabilities.Isolated: without it every mutating case is run in a
\* fresh working directory, so never in the session it found open.
MutatingGetsFreshDirectory ==
  [][~Isolated /\ pc = "session" /\ pc' = "plan" /\ cur.mutating => sess = Nil]_vars

\* measureFloor: every load in the report, which is every load a case caused
\* before its first execution, is measured from an empty directory.
EveryLoadFromEmpty ==
  pc = "ingest" /\ phase = "cases" /\ tries = 0 => store = "nothing"
=============================================================================
