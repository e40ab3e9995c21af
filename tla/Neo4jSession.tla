---------------------------- MODULE Neo4jSession ----------------------------
(***************************************************************************)
(* The session of adapter/neo4j: a server that keeps the graph, and a bolt *)
(* session that is opened by the first statement and replaced by nobody.   *)
(*                                                                         *)
(* Every statement is a transaction of its own.  Run returns when the      *)
(* server has accepted it; whether it took effect is said later, at the    *)
(* end of its result.  Exec reads that end.  Load and Reset do not: the    *)
(* driver reads it for them before the next statement, and tells nobody.   *)
(* A connection that is given up leaves its statement to the server, which *)
(* may still carry it out, or not, at any later time.                      *)
(*                                                                         *)
(* The calls are one after another.  The server and the driver are         *)
(* modelled from how the session uses them.                                *)
(***************************************************************************)
EXTENDS Integers, Sequences, FiniteSets

CONSTANTS
  LabelSets, Types, \* what the nodes and the edges of a load are batched by
  Ends,             \* the label sets in which the edges of a type end
  Fixtures,         \* sets of batches
  AnyLanguage,      \* GQL_COMPAT_NEO4J_ANY_LANGUAGE is set
  MaxCalls,         \* bound: calls of Load, Reset and Exec
  MaxLate           \* bound: statements that were given up and go on

Others == {"reset", "index", "exec"}

ASSUME Neo4jAssumption ==
  /\ LabelSets \cap Types = {} /\ (LabelSets \cup Types) \cap Others = {}
  /\ Ends \in [Types -> SUBSET LabelSets]
  /\ Fixtures \subseteq SUBSET (LabelSets \cup Types)
  /\ \A f \in Fixtures : \A t \in f \cap Types : Ends[t] \subseteq f
  /\ AnyLanguage \in BOOLEAN /\ MaxCalls \in Nat /\ MaxLate \in Nat

VARIABLES
  open,              \* session.sess # nil
  pc, op,            \* where the call in hand is, and which call it is
  todo,              \* its statements: a sequence of sets, each in any order
  conn,              \* the statement whose result is open on the connection
  late,              \* statements of connections that were given up
  graph,             \* what the server holds
  calls,             \* calls so far
  fate,              \* ghost: what the server did with the last Exec's statement
  promised, doubtful, answer   \* ghost

call == <<open, pc, op, todo, calls>>
server == <<conn, late, graph, fate>>
ghost == <<promised, doubtful, answer>>
vars == <<call, server, ghost>>

Batches == LabelSets \cup Types
None == [call |-> 0, part |-> "none", at |-> "none", seen |-> {}]
NoPromise == [by |-> 0, parts |-> {}]  \* calls are numbered from 1
NoAnswer == [call |-> 0, outcome |-> "none", seen |-> {}, promised |-> NoPromise,
             doubtful |-> FALSE]

Init ==
  /\ open = FALSE
  /\ pc = "unasked" /\ op = "none" /\ todo = <<>> /\ calls = 0
  /\ conn = None /\ late = {} /\ graph = {} /\ fate = {}
  /\ promised = NoPromise /\ doubtful = FALSE /\ answer = NoAnswer

(***************************************************************************)
(* Version, before anything is measured                                    *)
(***************************************************************************)

\* The language a database parses by default; a query for it that fails is
\* taken for a server that has no such thing.
Languages == {"none", "cypher5", "cypher25"}

\* Version, on a session of its own.  It fails when the server is not reached
\* or names no component.
Version ==
  /\ pc = "unasked"
  /\ \E named \in BOOLEAN, reported \in Languages :
       pc' = IF named /\ (reported = "cypher5" => AnyLanguage)
             THEN "idle" ELSE "turned away"
  /\ UNCHANGED <<open, op, todo, calls, server, ghost>>

(***************************************************************************)
(* The calls                                                               *)
(***************************************************************************)

Begin(which, steps) ==
  /\ pc = "idle" /\ calls < MaxCalls
  /\ pc' = "next" /\ op' = which /\ todo' = steps
  /\ calls' = calls + 1
  /\ answer' = NoAnswer /\ fate' = {}
  /\ UNCHANGED <<open, conn, late, graph>>

\* What was given up before may still be carried out after the reset.
Rebuild(parts) ==
  /\ promised' = [by |-> calls + 1, parts |-> parts]
  /\ doubtful' = (late # {})

\* The statements of Load after its Reset: an index, a batch for every label
\* set and one for every edge type.
\* Mutant EdgesFirst: the batches of the edges go before those of the nodes.
EdgesFirst(f) == <<{"index"}, f \cap Types, f \cap LabelSets>>
Parts(f) == <<{"index"}, f \cap LabelSets, f \cap Types>>

Load(f) == Begin("load", <<{"reset"}>> \o Parts(f)) /\ Rebuild(f)
Reset == Begin("reset", <<{"reset"}>>) /\ Rebuild({})
Exec == Begin("exec", <<{"exec"}>>) /\ UNCHANGED <<promised, doubtful>>

Running == conn.at \in {"sent", "accepted"}

\* The driver has read the result that was open to its end, whatever it is.
Issue ==
  /\ pc = "next" /\ Head(todo) # {} /\ ~Running
  /\ \E p \in Head(todo) :
       /\ conn' = [call |-> calls, part |-> p, at |-> "sent", seen |-> {}]
       /\ todo' = [todo EXCEPT ![1] = @ \ {p}]
  /\ open' = TRUE
  /\ pc' = "run"
  /\ UNCHANGED <<op, calls, late, graph, fate, ghost>>

NextPart ==
  /\ pc = "next" /\ Len(todo) > 1 /\ Head(todo) = {}
  /\ todo' = Tail(todo)
  /\ UNCHANGED <<open, pc, op, calls, server, ghost>>

\* Reset and Load return nil.
Done ==
  /\ pc = "next" /\ todo = <<{}>>
  /\ pc' = "idle" /\ op' = "none" /\ todo' = <<>>
  /\ UNCHANGED <<open, calls, server, ghost>>

\* Run has returned: Exec goes on to Collect, the others to what comes next.
\* Mutant CollectUnread: Exec takes the statement that was accepted for one
\* that succeeded.
CollectUnread == conn.at \in {"accepted", "done", "failed"}
Collected == conn.at = "done"
RunReturns ==
  /\ pc = "run" /\ conn.at \in {"accepted", "done", "failed"}
  /\ pc' = IF op = "exec" THEN "collect" ELSE "next"
  /\ UNCHANGED <<open, op, todo, calls, server, ghost>>

\* The call returns: an Exec with its answer, the others with an error, after
\* which nothing is promised.
Return(outcome) ==
  /\ pc' = "idle" /\ op' = "none" /\ todo' = <<>>
  /\ IF op = "exec"
     THEN /\ answer' = [call |-> calls, outcome |-> outcome, seen |-> conn.seen,
                        promised |-> promised, doubtful |-> doubtful]
          /\ UNCHANGED promised
     ELSE promised' = NoPromise /\ UNCHANGED answer
  /\ UNCHANGED <<open, calls>>

RunRefused ==
  /\ pc = "run" /\ conn.at = "refused"
  /\ Return("coded")
  /\ UNCHANGED <<server, doubtful>>

\* A property of the nodes, or of the edges, has a value bolt has no type for:
\* the load ends before their batches, and behind the ones before.
Unconvertible ==
  /\ pc = "next" /\ op = "load" /\ Len(todo) \in {2, 3} /\ Head(todo) = {}
  /\ Return("plain")
  /\ UNCHANGED <<server, doubtful>>

Collect ==
  /\ pc = "collect"
  /\ \/ Collected /\ Return("ok")
     \/ ~Collected /\ conn.at = "failed" /\ Return("coded")
  /\ UNCHANGED <<server, doubtful>>

\* The connection is given up: a statement the server has not finished is out
\* of the session's hands.
GiveUp ==
  /\ conn' = None
  /\ late' = IF Running /\ Cardinality(late) < MaxLate
             THEN late \cup {[call |-> conn.call, part |-> conn.part]} ELSE late
  /\ doubtful' = (doubtful \/ (Running /\ conn.part # "exec"))
  /\ UNCHANGED <<graph, fate>>

\* The driver waits, also for the result of the statement before.
\* Mutant WaitsInRun: the context does not reach that wait.
WaitsInRun == pc \in {"run", "collect"}
Waits == pc \in {"run", "collect"} \/ (pc = "next" /\ Running)

\* The call's context ends while the driver waits.
Deadline ==
  /\ Waits
  /\ GiveUp
  /\ Return("timeout")

\* The connection breaks.  The error is not the server's and not a timeout.
Lose ==
  /\ pc \in {"run", "collect"}
  /\ GiveUp
  /\ Return("plain")

\* It breaks with a result open that nobody reads: nobody is told.
LoseUnread ==
  /\ pc \in {"next", "idle", "closing"} /\ Running
  /\ GiveUp
  /\ pc' = IF pc = "closing" THEN "idle" ELSE pc
  /\ open' = IF pc = "closing" THEN FALSE ELSE open
  /\ UNCHANGED <<op, todo, calls, promised, answer>>

\* Close waits, without a deadline, for the result that is open.
Close ==
  /\ pc = "idle" /\ open
  /\ pc' = "closing"
  /\ UNCHANGED <<open, op, todo, calls, server, ghost>>

Closed ==
  /\ pc = "closing" /\ ~Running
  /\ pc' = "idle" /\ open' = FALSE
  /\ conn' = None
  /\ UNCHANGED <<op, todo, calls, late, graph, fate, ghost>>

(***************************************************************************)
(* The server                                                              *)
(***************************************************************************)

\* Edges are made between the nodes that are there.
Effect(s) ==
  CASE s.part = "reset" -> {}
    [] s.part = "index" -> graph
    [] s.part \in Types /\ ~(\A b \in Ends[s.part] : \E c \in 1..MaxCalls : <<c, b>> \in graph)
         -> graph
    [] OTHER -> graph \cup {<<s.call, s.part>>}

\* The fate of the last call's statement, if it is an Exec.
Fate(s, what) == fate \cup {what : c \in {s.call} \cap {calls}}

\* The statement is accepted, or refused with a code.
Accept ==
  /\ conn.at = "sent"
  /\ \/ conn' = [conn EXCEPT !.at = "accepted"] /\ UNCHANGED fate
     \/ conn' = [conn EXCEPT !.at = "refused"] /\ fate' = Fate(conn, "refused")
  /\ UNCHANGED <<call, late, graph, ghost>>

\* Its transaction is committed.
Commit ==
  /\ conn.at = "accepted"
  /\ graph' = Effect(conn) /\ fate' = Fate(conn, "committed")
  /\ conn' = [conn EXCEPT !.at = "done", !.seen = graph]
  /\ UNCHANGED <<call, late, ghost>>

\* Its transaction fails, which only a reader of the result comes to know.
Abort ==
  /\ conn.at = "accepted"
  /\ conn' = [conn EXCEPT !.at = "failed"] /\ fate' = Fate(conn, "refused")
  /\ doubtful' = (doubtful \/ conn.call = promised.by)
  /\ UNCHANGED <<call, late, graph, promised, answer>>

\* What was given up is carried out after all, or comes to nothing.
Late ==
  /\ \E s \in late :
       /\ late' = late \ {s}
       /\ \/ graph' = Effect(s) /\ fate' = Fate(s, "committed")
          \/ UNCHANGED <<graph, fate>>
  /\ UNCHANGED <<call, conn, ghost>>

-----------------------------------------------------------------------------
Caller ==
  \/ Version \/ (\E f \in Fixtures : Load(f)) \/ Reset \/ Exec \/ Close
Session ==
  \/ Issue \/ NextPart \/ Unconvertible \/ Done \/ RunReturns \/ RunRefused \/ Collect \/ Closed
Network == Lose \/ LoseUnread
Server == Accept \/ Commit \/ Abort \/ Late
Next == Caller \/ Session \/ Deadline \/ Network \/ Server

\* The session's goroutine goes on when it can, and a context ends.  The
\* server and the network owe nothing.
Spec == Init /\ [][Next]_vars /\ WF_vars(Session) /\ WF_vars(Deadline)

-----------------------------------------------------------------------------
(***************************************************************************)
(* Properties                                                              *)
(***************************************************************************)

Items == (1..MaxCalls) \X (Batches \cup {"exec"})
Statements == [call : 1..MaxCalls, part : Batches \cup Others]
Promise == [by : 0..MaxCalls, parts : SUBSET Batches]

TypeOK ==
  /\ open \in BOOLEAN
  /\ pc \in {"unasked", "turned away", "idle", "next", "run", "collect", "closing"}
  /\ op \in {"none", "load", "reset", "exec"} /\ calls \in 0..MaxCalls
  /\ todo \in Seq(SUBSET (Batches \cup Others))
  /\ conn \in [call : 0..MaxCalls, part : Batches \cup Others \cup {"none"},
               at : {"none", "sent", "accepted", "refused", "done", "failed"},
               seen : SUBSET Items]
  /\ late \subseteq Statements /\ graph \subseteq Items
  /\ fate \subseteq {"committed", "refused"}
  /\ promised \in Promise /\ doubtful \in BOOLEAN
  /\ answer \in [call : 0..MaxCalls, outcome : {"none", "ok", "coded", "plain", "timeout"},
                 seen : SUBSET Items, promised : Promise, doubtful : BOOLEAN]

\* What Exec reports is what the server did with this statement: a success is
\* a transaction that was committed, and a refusal with a code is one that
\* left nothing behind, and never will.
ReportsTheServer ==
  /\ answer.outcome = "ok" => "committed" \in fate
  /\ answer.outcome = "coded" => fate = {"refused"}

\* A statement that is answered was put to the fixture of the last load that
\* returned without an error, whole, and to nothing but it and what later
\* statements wrote, unless a statement of the load failed after it was
\* accepted or one that was given up earlier was carried out late.
AnsweredFromFixture ==
  LET p == answer.promised
  IN  answer.outcome = "ok" /\ p # NoPromise /\ ~answer.doubtful =>
        /\ \A part \in p.parts : <<p.by, part>> \in answer.seen
        /\ \A x \in answer.seen : \/ x[1] = p.by /\ x[2] \in p.parts
                                  \/ x[1] > p.by /\ x[2] = "exec"

\* Every call returns, whatever the server and the network do, but for Close.
CallsReturn == \A c \in {"load", "reset", "exec"} : op = c ~> op = "none"

-----------------------------------------------------------------------------
(* What the code says of itself, and does not keep to. *)

\* "a driver that loses the connection is not an engine that refused the
\* statement" (adapter.Failure): what is neither a timeout nor marked as a
\* failure of the transport is taken for a refusal.
RefusedByTheServer ==
  answer.outcome \in {"coded", "plain"} => "refused" \in fate

\* "Load rebuilds the graph from a fixture."
LoadRebuilds ==
  answer.outcome = "ok" /\ answer.promised # NoPromise =>
    \A part \in answer.promised.parts : <<answer.promised.by, part>> \in answer.seen
=============================================================================
