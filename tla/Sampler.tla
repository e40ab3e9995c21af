------------------------------- MODULE Sampler -------------------------------
(***************************************************************************)
(* metrics/sampler.go, and the way runner.execute uses it: a window is     *)
(* opened before the executions of a case, a goroutine polls the process   *)
(* of whatever session the executor holds, and the window is closed around *)
(* every restore and at the end.                                           *)
(*                                                                         *)
(* One cumulative counter stands for the four groups (CPU, I/O, faults,    *)
(* context switches), which the code treats alike.  Processes come and go  *)
(* inside a window and a reading may fail in three ways: no process found, *)
(* a process found and nothing behind it, and a confident zero.            *)
(***************************************************************************)
EXTENDS Integers

CONSTANTS
  MaxProcs,    \* bound: processes ever started
  MaxSpent,    \* bound: the counter of one process
  MaxExecs     \* bound: executions of one case

ASSUME SamplerAssumption == MaxProcs \in Nat /\ MaxSpent \in Nat /\ MaxExecs \in Nat

VARIABLES
  at,          \* where execute is
  sess,        \* whether e.sess is set
  proc, born, spent,   \* the live process, or 0; how many there were; its counter
  tick,        \* where the polling goroutine is
  first, last, bank, have,   \* the fields of Sampler
  samples, watched,    \* executions of the case; those in the present window
  result,      \* what the latest Stop returned
  \* ghost
  seen,        \* per process: the counter as far as it is accounted for
  due,         \* what the window is entitled to
  heard,       \* some reading in it gave a counter
  honest,      \* the reading that opened it was right
  matched      \* the latest Stop closed an open window

engine == <<sess, proc, born, spent>>
fields == <<first, last, bank, have>>
ghost  == <<seen, due, heard, honest, matched>>
vars == <<at, engine, tick, fields, samples, watched, result, ghost>>

Procs == 1..MaxProcs

\* snapshot{}: no process found.
NoReading == [pid |-> 0, ok |-> FALSE, n |-> 0]

Init ==
  /\ at = "idle" /\ sess = FALSE
  /\ proc = 0 /\ born = 0 /\ spent = 0
  /\ tick = "wait"
  /\ first = NoReading /\ last = NoReading /\ have = FALSE
  /\ bank = [n |-> 0, ok |-> FALSE]
  /\ samples = 0 /\ watched = 0
  /\ result = [n |-> 0, ok |-> FALSE, execs |-> 0]
  /\ seen = [p \in Procs |-> 0] /\ due = 0
  /\ heard = FALSE /\ honest = TRUE /\ matched = TRUE

(***************************************************************************)
(* The sampler                                                             *)
(***************************************************************************)

Honest == [pid |-> proc, ok |-> TRUE, n |-> spent]

\* read: what may come back.
Readings ==
  {NoReading} \cup
  IF proc = 0 THEN {} ELSE {Honest, [Honest EXCEPT !.n = 0], [pid |-> proc, ok |-> FALSE, n |-> 0]}

\* banked.add
Add(b, from, to) ==
  IF from.ok /\ to.ok THEN [n |-> b.n + to.n - from.n, ok |-> TRUE] ELSE b

\* carry: a counter that is missing or has fallen is a failed reading.
\* Mutant Believe: every reading is believed.
Believe(prev, snap) == snap
Carry(prev, snap) ==
  IF prev.pid = snap.pid /\ prev.ok /\ (~snap.ok \/ snap.n < prev.n)
  THEN prev ELSE snap

\* rebase: where a process that appears inside the window is measured from.
\* Mutant FromFirstSight: from its first reading.
FromFirstSight(snap) == snap
Baseline(snap) == [pid |-> snap.pid, ok |-> TRUE, n |-> 0]

\* Mutant RebaseBankOnly: the account stays that of the process that has gone.
RebaseBankOnly(snap) == bank' = Add(bank, first, last) /\ UNCHANGED first
Rebase(snap) ==
  /\ bank' = Add(bank, first, last)
  /\ first' = Baseline(snap)

\* observe
Observe(snap) ==
  \/ /\ snap.pid = 0
     /\ UNCHANGED fields
  \/ /\ snap.pid # 0
     /\ IF snap.pid # first.pid THEN Rebase(snap) ELSE UNCHANGED <<first, bank>>
     /\ last' = Carry(last, snap)
     /\ have' = (have \/ snap.ok)

\* What an open window is owed: every process's counter once, from its value
\* when the window opened, or from its birth.
Account(snap) ==
  /\ heard' = (heard \/ snap.ok)
  /\ IF snap.ok /\ snap.n > seen[snap.pid]
     THEN /\ due' = due + snap.n - seen[snap.pid]
          /\ seen' = [seen EXCEPT ![snap.pid] = snap.n]
     ELSE UNCHANGED <<due, seen>>

\* Start
Open(snap) ==
  /\ first' = snap /\ last' = snap /\ have' = snap.ok
  /\ bank' = [n |-> 0, ok |-> FALSE]
  /\ watched' = 0
  /\ seen' = [p \in Procs |-> IF p = proc THEN spent ELSE 0]
  /\ due' = 0 /\ heard' = snap.ok
  /\ honest' = (proc = 0 \/ snap = Honest)

\* The end of Stop: the final reading, and the sum over the processes.
Final(snap) ==
  /\ Observe(snap)
  /\ result' = IF have' THEN [n |-> Add(bank', first', last').n,
                              ok |-> Add(bank', first', last').ok,
                              execs |-> watched]
               ELSE [n |-> 0, ok |-> FALSE, execs |-> watched]

(***************************************************************************)
(* execute                                                                 *)
(***************************************************************************)

\* sampler.Start() before the first execution, and after a restore.
StartSeries ==
  /\ at = "idle" /\ sess
  /\ \E snap \in Readings : Open(snap)
  /\ at' = "running" /\ samples' = 0
  /\ UNCHANGED <<engine, tick, result, matched>>
StartAgain ==
  /\ at = "restoring" /\ sess
  /\ \E snap \in Readings : Open(snap)
  /\ at' = "running"
  /\ UNCHANGED <<engine, tick, samples, result, matched>>

\* sess.Exec: any number in one window, or one after each restore.  After a
\* fatal answer the session is discarded, the sampler still running.
Exec ==
  /\ at = "running" /\ samples < MaxExecs
  /\ samples = watched \/ watched = 0
  /\ samples' = samples + 1 /\ watched' = watched + 1
  /\ \/ UNCHANGED <<at, sess, proc>>
     \/ at' = "broken" /\ sess' = FALSE /\ proc' = 0
  /\ UNCHANGED <<born, spent, tick, fields, result, ghost>>

\* sampler.Stop(): the cancellation, then the wait for the goroutine, then the
\* final reading.
Cancel ==
  /\ \/ at \in {"running", "broken"} /\ watched > 0 /\ at' = "joining"
     \/ at = "running" /\ watched = 1 /\ at' = "rejoining"
  /\ UNCHANGED <<engine, tick, fields, samples, watched, result, ghost>>
Stop ==
  /\ at \in {"joining", "rejoining"} /\ tick = "wait"
  /\ \E snap \in Readings : Final(snap) /\ Account(snap)
  /\ at' = IF at = "joining" THEN "idle" ELSE "restoring"
  /\ matched' = TRUE
  /\ UNCHANGED <<engine, tick, samples, watched, honest>>

\* The restore failed: the loop is left, and Stop is called on a sampler that
\* is not running.
StopAgain ==
  /\ at = "restoring"
  /\ \E snap \in Readings : Final(snap)
  /\ at' = "idle"
  /\ matched' = FALSE
  /\ UNCHANGED <<engine, tick, samples, watched, seen, due, heard, honest>>

\* The setup failed after a restore: execute returns, the sampler stopped.
Abandon ==
  /\ at = "restoring" /\ at' = "idle"
  /\ UNCHANGED <<engine, tick, fields, samples, watched, result, ghost>>

\* Between windows the executor discards its session and opens another.
Reopen ==
  /\ at \in {"idle", "restoring"}
  /\ sess' = ~sess /\ proc' = 0
  /\ UNCHANGED <<at, born, spent, tick, fields, samples, watched, result, ghost>>

(***************************************************************************)
(* What goes on beside it                                                  *)
(***************************************************************************)

\* The session starts a process, or ends it; the process works.
Spawn ==
  /\ sess /\ proc = 0 /\ born < MaxProcs
  /\ born' = born + 1 /\ proc' = born + 1 /\ spent' = 0
  /\ UNCHANGED <<at, sess, tick, fields, samples, watched, result, ghost>>
Exit ==
  /\ proc # 0 /\ proc' = 0
  /\ UNCHANGED <<at, sess, born, spent, tick, fields, samples, watched, result, ghost>>
Work ==
  /\ proc # 0 /\ spent < MaxSpent
  /\ spent' = spent + 1
  /\ UNCHANGED <<at, sess, proc, born, tick, fields, samples, watched, result, ghost>>

Polling == at \in {"running", "broken", "joining", "rejoining"}

\* if e.sess == nil { return 0 }
Look ==
  /\ Polling /\ tick = "wait"
  /\ tick' = IF sess THEN "call" ELSE "wait"
  /\ UNCHANGED <<at, engine, fields, samples, watched, result, ghost>>

\* return e.sess.PID(), and the reading of what it names
Poll ==
  /\ tick = "call"
  /\ \/ /\ sess
        /\ \E snap \in Readings : Observe(snap) /\ Account(snap)
        /\ tick' = "wait"
     \/ /\ ~sess
        /\ tick' = "panicked"
        /\ UNCHANGED <<fields, seen, due, heard>>
  /\ UNCHANGED <<at, engine, samples, watched, result, honest, matched>>

-----------------------------------------------------------------------------
Executor == StartSeries \/ StartAgain \/ Exec \/ Cancel \/ Stop \/ StopAgain \/ Abandon
            \/ Reopen

Next ==
  /\ tick # "panicked"
  /\ Executor \/ Spawn \/ Exit \/ Work \/ Look \/ Poll

Spec == Init /\ [][Next]_vars

-----------------------------------------------------------------------------
Reading == [pid : 0..MaxProcs, ok : BOOLEAN, n : Nat]

\* The fields keep to their values; the reading an account would be closed with
\* is of the process it was opened for.
TypeOK ==
  /\ at \in {"idle", "running", "broken", "restoring", "joining", "rejoining"}
  /\ sess \in BOOLEAN /\ have \in BOOLEAN
  /\ proc \in {0, born} /\ born \in 0..MaxProcs /\ spent \in Nat
  /\ tick \in {"wait", "call", "panicked"}
  /\ first \in Reading /\ last \in Reading /\ first.pid = last.pid
  /\ bank \in [n : Int, ok : BOOLEAN]
  /\ samples \in Nat /\ watched \in Nat
  /\ result \in [n : Int, ok : BOOLEAN, execs : Nat]
  /\ seen \in [Procs -> Nat] /\ due \in Nat
  /\ heard \in BOOLEAN /\ honest \in BOOLEAN /\ matched \in BOOLEAN

Total == Add(bank, first, last)

\* A window that spans restarts reports the sum of what each process spent in
\* it, each counted once and as far as it was ever read, whatever readings
\* failed in between; and it reports a figure exactly if one was read.
SumOfProcesses ==
  at = "idle" /\ matched /\ honest =>
    /\ result.n = due
    /\ result.ok = heard

\* While a window is open its figure never falls: no reading takes back work
\* that was already accounted for.
FigureNeverFalls == [][Polling /\ Polling' => Total'.n >= Total.n]_vars

-----------------------------------------------------------------------------
(* What the code says of itself, and does not keep to. *)

\* NewSampler: a missing metric should degrade the report, not fail the
\* conformance run that produced it.
PollingNeverFails == tick # "panicked"

\* Start: the window is not entitled to the earlier life of the process it
\* finds.
EarlierLifeNotCharged == at = "idle" /\ matched => result.n <= due

\* Stop: the total is the sum over every process the window saw.
EveryProcessCounted == at = "idle" /\ matched /\ result.ok => result.n >= due

\* execute: the sampler is stopped across a restore, so that an ingest is not
\* charged to the statement.
RestoreNotCharged == at = "idle" /\ honest => result.n = due

\* CPUUtilization: the CPU figure and the wall time it is divided by are of the
\* same executions.
UtilizationOfOneSpan == at = "idle" /\ result.ok => result.execs = samples
=============================================================================
