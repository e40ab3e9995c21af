------------------------------ MODULE ZuSession ------------------------------
(***************************************************************************)
(* The session of adapter/zu: one shell process at the end of a pipe, that *)
(* greets once and then answers one line per request; a converter that     *)
(* writes the file the next shell serves; and a goroutine for every line   *)
(* that is waited for, because a read from a pipe cannot be interrupted.   *)
(*                                                                         *)
(* The runner makes one call at a time.  Beside it run the shell, which    *)
(* may answer late or die, the reader goroutines, and the sampler, which   *)
(* calls PID and has to take the same mutex.                               *)
(***************************************************************************)
EXTENDS Integers, Sequences

CONSTANTS
  MaxReads,   \* bound: lines waited for
  MaxBorn,    \* bound: processes started
  MaxLoads    \* bound: loads begun

ASSUME ZuAssumption == MaxReads \in Nat /\ MaxBorn \in Nat /\ MaxLoads \in Nat

Nil == 0              \* no process; processes are numbered from 1
Hello == 0            \* the greeting; other lines bear the number of their read
NoLine == -1          \* nothing on the channel yet
Eof == -2             \* the read failed

\* What a file or a shell holds: load n, or one of these.
Empty == 0
NoFile == -1
Broken == -2
Any == -3             \* no promise about the graph

VARIABLES
  pc, op,             \* where the call in hand is, and which call it is
  cmd, out, load, closed,   \* the fields of session
  file,               \* what is at s.path
  \* the processes
  alive, born,
  serving, onFile,    \* what the current shell serves, and whether from the file
  todo, pipe,         \* requests it has still to answer, lines not yet read
  \* the readers
  ask,                \* how many reads have been asked for
  readers,            \* goroutines not finished: for which read, of which process
  chan,               \* the channel of the latest of them
  panicked,           \* a reader called a method of a nil *bufio.Reader
  polling,            \* the sampler's goroutine is inside PID
  \* ghost
  loads,              \* loads begun
  promised,           \* what statements are to be answered from
  answer              \* the last line taken for an answer

fields == <<cmd, out, load, closed>>
process == <<alive, born, serving, onFile, todo, pipe>>
reading == <<ask, readers, chan, panicked>>
ghost == <<loads, promised, answer>>
vars == <<pc, op, fields, file, process, reading, polling, ghost>>

Init ==
  /\ pc = "idle" /\ op = "none"
  /\ cmd = Nil /\ out = Nil /\ load = Nil /\ closed = FALSE
  /\ file = NoFile
  /\ alive = {} /\ born = 0 /\ serving = Empty /\ onFile = FALSE
  /\ todo = <<>> /\ pipe = <<>>
  /\ ask = 0 /\ readers = {} /\ chan = NoLine /\ panicked = FALSE
  /\ polling = FALSE
  /\ loads = 0 /\ promised = Empty
  /\ answer = [asked |-> 0, line |-> 0, from |-> Empty, promised |-> Any]

(***************************************************************************)
(* Helpers                                                                 *)
(***************************************************************************)

\* A call may need a converter and a shell, a greeting and an answer.
Room == born + 2 <= MaxBorn /\ ask + 2 <= MaxReads

\* stopLocked and killLocked: the process is waited for, so it is gone, and
\* its pipe with it.
\* Mutant StopForgets: the process is not waited for.
\* Mutant StopHalf: s.out is not cleared.
StopForgets ==
  /\ cmd' = Nil /\ out' = Nil /\ todo' = <<>> /\ pipe' = <<>>
  /\ UNCHANGED alive
StopHalf ==
  /\ cmd' = Nil /\ alive' = alive \ {cmd} /\ todo' = <<>> /\ pipe' = <<>>
  /\ UNCHANGED out
Stop ==
  /\ cmd' = Nil /\ out' = Nil
  /\ alive' = alive \ {cmd} /\ todo' = <<>> /\ pipe' = <<>>

Untouched == UNCHANGED <<cmd, out, alive, todo, pipe>>

\* go func() { b, err := s.out.ReadBytes('\n'); ch <- ... }()
AskFor ==
  /\ ask' = ask + 1 /\ chan' = NoLine
  /\ readers' = readers \cup {[ask |-> ask + 1, of |-> cmd', out |-> Nil]}
  /\ UNCHANGED panicked

Return == pc' = "idle" /\ op' = "none"

\* What the deferred recovery of a failed read does to the shell.
\* Mutant KeepShell: the shell is kept for the next statement.
KeepShell == Untouched
Recover == Stop

\* Reset's fallback when the statement could not be put or answered: the file
\* goes.
FallBack ==
  IF op = "reset" THEN file' = NoFile /\ promised' = Empty
  ELSE UNCHANGED <<file, promised>>

(***************************************************************************)
(* The calls                                                               *)
(***************************************************************************)

\* Exec and Explain ("exec"), CutAfter ("cut") and Reset start a shell if there
\* is none.  A reset with neither shell nor file has nothing to empty.
Call ==
  /\ pc = "idle" /\ ~closed /\ Room
  /\ \E o \in {"exec", "cut", "reset"} :
       \/ /\ o = "reset" /\ cmd = Nil /\ file = NoFile
          /\ promised' = Empty
          /\ UNCHANGED <<pc, op>>
       \/ /\ o # "reset" \/ cmd # Nil \/ file # NoFile
          /\ op' = o /\ pc' = IF cmd = Nil THEN "start" ELSE "write"
          /\ UNCHANGED promised
  /\ UNCHANGED <<fields, file, process, reading, polling, loads, answer>>

\* stage: the shell is stopped, the old file removed and the fixture staged
\* beside it.
\* Mutant LoadBesideShell: the shell goes on serving the old file.
LoadBesideShell == Untouched
StopForLoad == Stop
Load ==
  /\ pc = "idle" /\ ~closed /\ Room /\ loads < MaxLoads
  /\ loads' = loads + 1 /\ promised' = Any
  /\ StopForLoad
  /\ file' = NoFile
  /\ op' = "load" /\ pc' = "stage"
  /\ UNCHANGED <<load, closed, born, serving, onFile, reading, polling, answer>>

\* The converter is started and published for the sampler, unless the staging
\* or the start fails.
Staged ==
  /\ pc = "stage"
  /\ \/ /\ born' = born + 1 /\ load' = born + 1
        /\ alive' = alive \cup {born + 1}
        /\ pc' = "convert" /\ UNCHANGED op
     \/ Return /\ UNCHANGED <<born, load, alive>>
  /\ UNCHANGED <<cmd, out, closed, file, serving, onFile, todo, pipe, reading,
                 polling, ghost>>

\* The converter ends, is killed at the deadline, or fails and leaves what it
\* had written.
Convert ==
  /\ pc = "convert"
  /\ load' = Nil /\ alive' = alive \ {load}
  /\ \/ file' = loads /\ pc' = "start" /\ UNCHANGED op
     \/ file' \in {NoFile, Broken} /\ Return
  /\ UNCHANGED <<cmd, out, closed, born, serving, onFile, todo, pipe, reading,
                 polling, ghost>>

\* startShellLocked up to the greeting.  Without a file the shell serves
\* memory.
\* Mutant ServedFromMemory: the path is left off the command line.
ServedFromMemory == Empty
Served == IF file = NoFile THEN Empty ELSE file
Start ==
  /\ pc = "start"
  /\ \/ /\ born' = born + 1 /\ cmd' = born + 1 /\ out' = born + 1
        /\ alive' = alive \cup {born + 1}
        /\ onFile' = (file # NoFile)
        /\ serving' = Served
        /\ todo' = <<Hello>> /\ pipe' = <<>>
        /\ AskFor
        /\ pc' = "greet" /\ UNCHANGED op
        /\ UNCHANGED <<file, promised>>
     \/ Return /\ FallBack /\ UNCHANGED <<cmd, out, process, reading>>
  /\ UNCHANGED <<load, closed, polling, loads, answer>>

\* greetLocked read its line.  A shell on a broken file does not greet.
Greeted ==
  /\ pc = "greet" /\ chan # NoLine
  /\ \/ /\ chan = Hello /\ serving # Broken /\ op = "load"
        /\ Return /\ promised' = loads
        /\ Untouched /\ UNCHANGED file
     \/ /\ chan = Hello /\ serving # Broken /\ op # "load"
        /\ pc' = "write"
        /\ Untouched /\ UNCHANGED <<op, file, promised>>
     \/ Recover /\ Return /\ FallBack
  /\ UNCHANGED <<load, closed, born, serving, onFile, reading, polling, loads, answer>>

\* The frame is written, unless the shell has died.  CutAfter then kills the
\* shell and reads nothing.
Write ==
  /\ pc = "write"
  /\ \/ /\ cmd \in alive /\ op # "cut"
        /\ todo' = Append(todo, ask + 1)
        /\ pc' = "await"
        /\ UNCHANGED <<op, cmd, out, alive, pipe, file, promised>>
        /\ AskFor
     \/ /\ cmd \notin alive \/ op = "cut"
        /\ Stop /\ Return /\ FallBack
        /\ UNCHANGED reading
  /\ UNCHANGED <<load, closed, born, serving, onFile, polling, loads, answer>>

\* A line arrived.  The reset statement emptied the graph or was refused, and
\* then the file goes with the shell.
StopForReset == Stop
Answered ==
  /\ pc = "await" /\ chan \notin {NoLine, Eof}
  /\ Return
  /\ answer' = [asked |-> ask, line |-> chan, from |-> serving, promised |-> promised]
  /\ \/ op = "exec" /\ Untouched /\ UNCHANGED <<file, serving, promised>>
     \/ /\ op = "reset" /\ Untouched
        /\ serving' = Empty /\ promised' = Empty
        /\ file' = IF onFile THEN Empty ELSE file
     \/ /\ op = "reset" /\ StopForReset
        /\ file' = NoFile /\ promised' = Empty
        /\ UNCHANGED serving
  /\ UNCHANGED <<load, closed, born, onFile, reading, polling, loads>>

\* The read failed or the deadline passed, in roundTrip or in greetLocked.
\* Mutant NoDeadline: only the pipe is waited for.
NoDeadline == chan = Eof
Deadline == TRUE
GiveUp ==
  /\ pc \in {"greet", "await"}
  /\ Deadline
  /\ Recover /\ Return /\ FallBack
  /\ UNCHANGED <<load, closed, born, serving, onFile, reading, polling, loads, answer>>

Close ==
  /\ pc = "idle" /\ ~closed
  /\ closed' = TRUE
  /\ Stop
  /\ UNCHANGED <<pc, op, load, file, born, serving, onFile, reading, polling, ghost>>

(***************************************************************************)
(* What runs beside the calls                                              *)
(***************************************************************************)

Reply ==
  /\ cmd \in alive /\ todo # <<>>
  /\ pipe' = Append(pipe, Head(todo)) /\ todo' = Tail(todo)
  /\ UNCHANGED <<pc, op, fields, file, alive, born, serving, onFile, reading, polling, ghost>>

Die ==
  /\ cmd \in alive
  /\ alive' = alive \ {cmd} /\ todo' = <<>>
  /\ UNCHANGED <<pc, op, fields, file, born, serving, onFile, pipe, reading, polling, ghost>>

\* A reader goroutine is scheduled for the first time and evaluates s.out,
\* which nothing orders against stopLocked clearing it.
RunReader ==
  /\ \E r \in readers :
       /\ r.out = Nil
       /\ panicked' = (out = Nil)
       /\ readers' = (readers \ {r}) \cup {[r EXCEPT !.out = out]}
  /\ UNCHANGED <<pc, op, fields, file, process, ask, chan, polling, ghost>>

\* ReadBytes returns a line, or an error once the process is gone.
Read ==
  /\ \E r \in readers :
       /\ r.out # Nil
       /\ readers' = readers \ {r}
       /\ \/ /\ r.out = cmd /\ pipe # <<>>
             /\ pipe' = Tail(pipe)
             /\ chan' = IF r.ask = ask THEN Head(pipe) ELSE chan
          \/ /\ r.out \notin alive /\ (r.out = cmd => pipe = <<>>)
             /\ chan' = IF r.ask = ask THEN Eof ELSE chan
             /\ UNCHANGED pipe
  /\ UNCHANGED <<pc, op, fields, file, alive, born, serving, onFile, todo, ask,
                 panicked, polling, ghost>>

\* The sampler calls PID, and gets an answer when nobody holds s.mu, which a
\* call holds throughout, a load only while it stops and starts the shell.
Poll ==
  /\ polling' = ~polling
  /\ polling => pc \in {"idle", "convert"}
  /\ UNCHANGED <<pc, op, fields, file, process, reading, ghost>>

-----------------------------------------------------------------------------
Runner ==
  Call \/ Load \/ Staged \/ Convert \/ Start \/ Greeted \/ Write \/ Answered \/ GiveUp \/ Close

Next == ~panicked /\ (Runner \/ Reply \/ Die \/ RunReader \/ Read \/ Poll)

Spec == Init /\ [][Next]_vars

\* A call in progress goes on: the deadline of the statement, the ten seconds
\* of the greeting and the load timeout end every wait there is.
Going == Staged \/ Convert \/ Start \/ Greeted \/ Write \/ Answered \/ GiveUp
FairSpec == Spec /\ WF_vars(Next /\ Going) /\ WF_vars(Next /\ (RunReader \/ Read))

-----------------------------------------------------------------------------
\* The fields and the pipe keep to their values; s.cmd and s.out are set and
\* cleared together.
TypeOK ==
  /\ pc \in {"idle", "stage", "start", "greet", "write", "await", "convert"}
  /\ op \in {"none", "exec", "cut", "reset", "load"}
  /\ cmd \in 0..born /\ out = cmd /\ load \in 0..born /\ closed \in BOOLEAN
  /\ file \in {NoFile, Broken} \cup (0..loads)
  /\ alive \subseteq 1..born /\ born \in Nat
  /\ serving \in {Broken} \cup (0..loads) /\ onFile \in BOOLEAN
  /\ todo \in Seq(0..ask) /\ pipe \in Seq(0..ask)
  /\ ask \in Nat /\ readers \subseteq [ask : 1..ask, of : 1..born, out : 0..born]
  /\ chan \in {NoLine, Eof} \cup (0..ask) /\ panicked \in BOOLEAN
  /\ polling \in BOOLEAN /\ loads \in Nat
  /\ promised \in {Any} \cup (0..loads)

\* What Exec, Explain and Reset take for the answer is the line the shell wrote
\* to that very request: not the greeting, not the late answer to a statement
\* that timed out, not a line of an earlier shell.
AnswersItsQuestion == answer.line = answer.asked

\* After a load or a reset that succeeded, and through every restart of the
\* shell since, statements are answered from the graph it left.
AnsweredFromPromised == answer.promised \in {Any, answer.from}

\* The file is never removed or replaced under a shell that serves it.
FileUnderShell == cmd # Nil /\ onFile => file = serving

\* One engine process at a time, and none the session has lost track of: a
\* shell is gone before the converter starts, the converter before the next
\* shell, and everything once the session is closed.
OneProcess ==
  /\ alive \subseteq {cmd, load} \ {Nil}
  /\ cmd = Nil \/ load = Nil
  /\ closed => alive = {}

\* Every call returns, whatever the shell does.
CallsReturn == [](pc # "idle" => <>(pc = "idle" \/ panicked))

\* A goroutine reading from a shell that is no longer the session's ends: none
\* is left behind on the pipe of a process nobody stopped.
ReadersEnd ==
  \A n \in 1..MaxReads :
    (\E r \in readers : r.ask = n /\ r.out \notin {Nil, cmd})
      ~> (panicked \/ \A r \in readers : r.ask # n)

-----------------------------------------------------------------------------
(* What the code says of itself, and does not keep to. *)

\* readLine: on the timeout path the goroutine stays blocked until the process
\* it is reading from is killed.
ReaderStaysWithItsProcess ==
  ~panicked /\ \A r \in readers : r.out \in {Nil, r.of}

\* metrics.Sampler: the peak figures need polling, so a reading asked for while
\* a statement runs is taken while it runs.
PolledDuringStatement == pc = "await" => ~polling
=============================================================================
