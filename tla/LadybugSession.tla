--------------------------- MODULE LadybugSession ---------------------------
(***************************************************************************)
(* The session of adapter/ladybug: no process is kept.  Every exchange is  *)
(* one shell that reads a script, a marker after every statement, on a     *)
(* store on disk; its whole output is cut into replies at the markers when *)
(* it has ended.  A reset moves the session to a store that never existed. *)
(*                                                                         *)
(* Every call holds the mutex to its end and the sampler reads an atomic,  *)
(* so the calls are one after another; what goes wrong is the shell, which *)
(* may end, be killed, or lose any part of its output at every statement.  *)
(***************************************************************************)
EXTENDS Integers, Sequences, FiniteSets

CONSTANTS
  MaxGen,         \* bound: resets
  MaxSerial,      \* bound: markers
  Lengths,        \* how many statements the load of a fixture may need
  Occurs(_, _)    \* the text of the first marker occurs in that of the second

\* A number is part of itself, as 1 is of 10.
ASSUME LadybugAssumption ==
  /\ MaxGen \in Nat /\ MaxSerial \in Nat /\ Lengths \subseteq Nat
  /\ \A m \in 1..MaxSerial : Occurs(m, m)

\* Statements: the parts of a load are numbered from 1, the others are these.
Create == -1
Use == -2
Probe == -3
Stmt == -4

Any == {<<0, 0>>}  \* no promise about the graph: loads are numbered from 1
Absent == [there |-> FALSE, graph |-> FALSE, parts |-> {}]

VARIABLES
  path, created, serial,  \* session.path as its gen, and the other fields
  pc, op,                 \* where the call in hand is, and which call it is
  todo,                   \* a load's statements, until they are put
  script, base, pre,      \* the exchange: statements, first marker, prelude
  ran, inside, out,       \* the shell: statements done, in the graph, lines
  reps, cur,              \* split: replies complete, and the one being read
  stores,                 \* what is on disk
  loads, promised, answer, fatal \* ghost

fields == <<path, created, serial>>
call == <<pc, op, todo>>
exchange == <<script, base, pre>>
shell == <<ran, inside, out>>
reading == <<reps, cur>>
ghost == <<loads, promised, answer, fatal>>
vars == <<fields, call, exchange, shell, reading, stores, ghost>>

Blank == [of |-> {}, errs |-> {}]

Init ==
  /\ path = 0 /\ created = FALSE /\ serial = 0
  /\ pc = "idle" /\ op = "none" /\ todo = 0
  /\ script = <<>> /\ base = 0 /\ pre = 0
  /\ ran = 0 /\ inside = FALSE /\ out = <<>>
  /\ reps = <<>> /\ cur = Blank
  /\ stores = [g \in 0..MaxGen |-> Absent]
  /\ loads = 0 /\ promised = {}
  /\ answer = [asked |-> 0, of |-> {}, inside |-> TRUE, held |-> {}, promised |-> {}]
  /\ fatal = FALSE

(***************************************************************************)
(* The calls                                                               *)
(***************************************************************************)

\* preludeLocked and the head of runLocked: a marker for every statement.
Send(ready, stmts) ==
  LET prelude == IF ready THEN <<Use>> ELSE <<Create, Use>>
  IN  /\ script' = prelude \o stmts /\ pre' = Len(prelude)
      /\ base' = serial /\ serial' = serial + Len(script')
      /\ serial' <= MaxSerial
      /\ ran' = 0 /\ inside' = FALSE /\ out' = <<>>
      /\ reps' = <<>> /\ cur' = Blank
      /\ pc' = "start"

Parts(n) == [k \in 1..n |-> k]

Exec ==
  /\ pc = "idle"
  /\ op' = "exec" /\ todo' = 0
  /\ Send(created, <<Stmt>>)
  /\ UNCHANGED <<path, created, stores, ghost>>

\* resetLocked, up to the exchange that opens the new store.
\* Mutant SamePath: the reset works in the store that is there.
SamePath == path' = path /\ path < MaxGen
Move == path' = path + 1 /\ path < MaxGen
\* Mutant StillCreated: the new store is taken for one with the graph in it.
StillCreated == created
Fresh == FALSE
Reset ==
  /\ pc = "idle"
  /\ Move /\ created' = Fresh
  /\ \/ op' = "reset" /\ todo' = 0 /\ UNCHANGED loads
     \/ op' = "load" /\ todo' \in Lengths /\ loads' = loads + 1
  /\ Send(created', <<Probe>>)
  /\ UNCHANGED <<stores, promised, answer, fatal>>

\* The call returns an error, which says whether it was fatal.  What it had
\* begun on the disk stays.
Fail(deadly) ==
  /\ pc' = "idle" /\ op' = "none" /\ todo' = 0
  /\ promised' = IF op = "exec" THEN promised ELSE Any
  /\ fatal' = (fatal \/ deadly)
  /\ UNCHANGED <<loads, answer>>

\* The call returns without one; a load or a reset has made a promise.
Succeed(parts) ==
  /\ pc' = "idle" /\ op' = "none" /\ todo' = 0
  /\ promised' = parts
  /\ UNCHANGED <<loads, answer, fatal>>

(***************************************************************************)
(* The shell                                                               *)
(***************************************************************************)

Start ==
  /\ pc = "start"
  /\ \/ pc' = "run" /\ UNCHANGED <<op, todo, ghost>>
     \/ Fail(TRUE)
  /\ UNCHANGED <<fields, exchange, shell, reading, stores>>

\* What a statement the shell accepted leaves on the disk.
Effect(stmt) ==
  [stores EXCEPT ![path] =
    [there |-> TRUE,
     graph |-> @.graph \/ stmt = Create,
     parts |-> IF inside /\ stmt \in Nat THEN @.parts \cup {<<loads, stmt>>} ELSE @.parts]]

Line(kind) == [of |-> ran + 1, kind |-> kind]

\* What a statement comes to print: nothing, when the shell ends or its output
\* is lost; a line and not its marker; or all of it, which need not be a row.
Printed(kind) ==
  {<<>>, <<Line(kind)>>, <<Line(kind), Line("marker")>>}
    \cup {<<Line("marker")>> : k \in {kind} \cap {"rows"}}

\* The next statement is accepted or refused, whether or not the one before it
\* was.
RunStatement ==
  /\ pc = "run" /\ ran < Len(script)
  /\ LET stmt == script[ran + 1]
         exists == stores[path].graph
     IN  \E kind \in {"rows", "exists", "error"} :
           /\ kind = "exists" => stmt = Create /\ exists
           /\ kind = "rows" => (stmt = Create => ~exists) /\ (stmt = Use => exists)
           /\ stores' = IF kind = "rows" THEN Effect(stmt)
                        ELSE [stores EXCEPT ![path].there = TRUE]
           /\ inside' = (inside \/ (stmt = Use /\ kind = "rows"))
           /\ \E printed \in Printed(kind) : out' = out \o printed
  /\ ran' = ran + 1
  /\ UNCHANGED <<fields, call, exchange, reading, ghost>>

\* The shell ends by itself, at the end of its script or before.  Without any
\* output that is a failure, fatal or not; else the output is read.
End ==
  /\ pc = "run"
  /\ \/ out = <<>> /\ \E deadly \in BOOLEAN : Fail(deadly)
     \/ out # <<>> /\ pc' = "split" /\ UNCHANGED <<op, todo, ghost>>
  /\ UNCHANGED <<fields, exchange, shell, reading, stores>>

\* The context ends first: the shell is killed and its output not looked at.
Kill ==
  /\ pc = "run"
  /\ Fail(FALSE)
  /\ UNCHANGED <<fields, exchange, shell, reading, stores>>

(***************************************************************************)
(* Reading the output                                                      *)
(***************************************************************************)

\* bytes.Contains(line, markers[next])
Marks(line) ==
  line.kind = "marker" /\ Occurs(base + Len(reps) + 1, base + line.of)

\* Mutant KeptReply: the lines of a reply are not taken out for the next.
KeptReply == cur
NextReply == Blank

\* One turn of split's loop.  A marker that is not the next is a row.
Scan ==
  /\ pc = "split" /\ Len(reps) < Len(script) /\ out # <<>>
  /\ LET line == Head(out)
     IN  IF Marks(line) THEN reps' = Append(reps, cur) /\ cur' = NextReply
         ELSE /\ cur' = [of |-> cur.of \cup {line.of},
                         errs |-> cur.errs \cup ({line.kind} \ {"rows", "marker"})]
              /\ UNCHANGED reps
  /\ out' = Tail(out)
  /\ UNCHANGED <<fields, call, exchange, ran, inside, stores, ghost>>

\* truncatedOutput: the output ended before the last marker.
Truncated ==
  /\ pc = "split" /\ Len(reps) < Len(script) /\ out = <<>>
  /\ Fail(FALSE)
  /\ UNCHANGED <<fields, exchange, shell, reading, stores>>

\* The error of a prelude statement ends the call, but for a graph that is
\* there already in a store the session did not see it made in.
\* Mutant PreludeUnread: the replies of the prelude are not looked at.
PreludeUnread == TRUE
PreludeHeld ==
  \A i \in 1..pre :
    \/ reps[i].errs = {}
    \/ i = 1 /\ ~created /\ "exists" \in reps[i].errs

Complete == pc = "split" /\ Len(reps) = Len(script)

PreludeFailed ==
  /\ Complete /\ ~PreludeHeld
  /\ Fail(TRUE)
  /\ UNCHANGED <<fields, exchange, shell, reading, stores>>

\* Exec: the reply is the answer, rows or an error.
Answer ==
  /\ Complete /\ PreludeHeld /\ op = "exec"
  /\ created' = TRUE
  /\ answer' = [asked |-> Len(script), of |-> reps[Len(script)].of, inside |-> inside,
                held |-> stores[path].parts, promised |-> promised]
  /\ pc' = "idle" /\ op' = "none" /\ UNCHANGED todo
  /\ UNCHANGED <<path, serial, exchange, shell, reading, stores, loads, promised, fatal>>

\* resetLocked: the new store is open and the old one goes.
Opened ==
  /\ Complete /\ PreludeHeld /\ script[Len(script)] = Probe
  /\ created' = TRUE
  /\ pc' = "remove"
  /\ UNCHANGED <<path, serial, op, todo, exchange, shell, reading, stores, ghost>>

\* removeStore, and the load's own exchange when it has one to make.
Remove ==
  /\ pc = "remove"
  /\ \/ /\ Fail(FALSE)
        /\ UNCHANGED <<fields, exchange, shell, reading, stores>>
     \/ /\ stores' = [stores EXCEPT ![path - 1] = Absent]
        /\ \/ /\ todo = 0 /\ Succeed({})
              /\ UNCHANGED <<fields, exchange, shell, reading>>
           \/ /\ todo > 0 /\ Send(created, Parts(todo))
              /\ UNCHANGED <<path, created, op, todo, ghost>>

\* Load: one part refused and the load has failed, the rest of it in place.
\* Mutant RefusalsUnread: the replies of the parts are not looked at.
RefusalsUnread == FALSE
PartRefused == \E i \in pre + 1 .. Len(script) : reps[i].errs # {}
Loaded ==
  /\ Complete /\ PreludeHeld /\ script[Len(script)] \in Nat
  /\ created' = TRUE
  /\ IF PartRefused THEN Fail(FALSE) ELSE Succeed({<<loads, k>> : k \in 1..todo})
  /\ UNCHANGED <<path, serial, exchange, shell, reading, stores>>

-----------------------------------------------------------------------------
Caller == Exec \/ Reset
Shell == Start \/ RunStatement \/ End \/ Kill
Reader == Scan \/ Truncated \/ PreludeFailed \/ Answer \/ Opened \/ Remove \/ Loaded
Next == Caller \/ Shell \/ Reader
Spec == Init /\ [][Next]_vars

-----------------------------------------------------------------------------
(***************************************************************************)
(* Properties                                                              *)
(***************************************************************************)

\* The fields keep to their values; a graph the session believes in is in the
\* store it would be looked for in, and no store is ahead of the session.
TypeOK ==
  /\ path \in 0..MaxGen /\ created \in BOOLEAN /\ serial \in 0..MaxSerial
  /\ pc \in {"idle", "start", "run", "split", "remove"}
  /\ op \in {"none", "exec", "reset", "load"}
  /\ todo \in Nat /\ loads \in Nat
  /\ base + Len(script) <= serial /\ pre \in 0..Len(script) /\ ran \in 0..Len(script)
  /\ Len(reps) <= Len(script)
  /\ created => stores[path].graph
  /\ \A g \in path + 1 .. MaxGen : stores[g] = Absent

\* What Exec takes for the answer to its statement was printed by it: neither
\* a lost marker nor one that is part of another moves the replies.
AnswersItsStatement == answer.of \subseteq {answer.asked}

\* A statement that was answered was put inside the ANY graph, and never to
\* the schema-typed graph a shell opens with.
InsideTheGraph == answer.inside

\* After a load or a reset that succeeded, statements are answered from the
\* fixture it was given, whole, and from nothing else, whatever was killed,
\* refused or left behind before.
AnsweredFromPromised == answer.promised \in {Any, answer.held}

-----------------------------------------------------------------------------
(* What the code says of itself, and does not keep to. *)

\* "The old files are removed so the disk figures stay about the fixture rather
\* than about every fixture before it" (Reset).  A session that fell fatally is
\* left out: the runner gives it up and its directory with it.
DiskIsOneStore ==
  pc = "idle" /\ promised # Any /\ ~fatal =>
    \A g \in 0..MaxGen \ {path} : ~stores[g].there
=============================================================================
