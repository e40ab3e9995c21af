---------------------------- MODULE SamplerProofs ----------------------------
(***************************************************************************)
(* What a window of the sampler adds up to, for any number of processes    *)
(* and readings.                                                           *)
(***************************************************************************)
EXTENDS Sampler, TLAPS

\* An account that has no reading yet was opened at zero.
OpenedAtZero == first.ok /\ ~last.ok => first.n = 0

\* The figure is what is due, and what is accounted for of the process being
\* watched is its last reading.
Balanced ==
  /\ first.pid <= born
  /\ first.pid # 0 => first.ok
  /\ first.pid = 0 => ~last.ok
  /\ last.ok => last.n = seen[first.pid]
  /\ first.pid # 0 /\ ~last.ok => seen[first.pid] = 0
  /\ \A p \in Procs : p > first.pid => seen[p] = 0
  /\ Total.n = due
  /\ Total.ok = heard
  /\ have = heard
  /\ ~heard => due = 0

\* So it is in a window that was opened by a right reading.
Ledger == Polling /\ honest => Balanced

\* The goroutine reads within a window only.
ReadsInWindow == tick = "call" => Polling

\* Between two windows of a case the result of the last one already stands.
Settled ==
  at \in {"idle", "restoring"} /\ matched /\ honest =>
    /\ result.n = due
    /\ result.ok = heard

IInv == TypeOK /\ OpenedAtZero /\ ReadsInWindow /\ Ledger /\ Settled

\* A reading is typed, and of the live process if of any.
LEMMA ReadingTypes ==
  ASSUME TypeOK, NEW snap \in Readings
  PROVE  /\ snap \in Reading
         /\ snap.pid \in {0, proc}
         /\ snap.pid = 0 => ~snap.ok
         /\ snap.pid # 0 => snap.pid \in Procs /\ snap.pid = born
<1>1. /\ proc \in 0..MaxProcs /\ spent \in Nat /\ MaxProcs \in Nat
      /\ proc # 0 => proc \in Procs /\ proc = born
  BY SamplerAssumption DEF TypeOK, Procs
<1>2. \/ snap = [pid |-> 0, ok |-> FALSE, n |-> 0]
      \/ /\ proc # 0
         /\ \/ snap = [pid |-> proc, ok |-> TRUE, n |-> spent]
            \/ snap = [pid |-> proc, ok |-> TRUE, n |-> 0]
            \/ snap = [pid |-> proc, ok |-> FALSE, n |-> 0]
  BY DEF Readings, NoReading, Honest
<1>3. CASE snap = [pid |-> 0, ok |-> FALSE, n |-> 0]
  BY <1>1, <1>3 DEF Reading
<1>4. CASE proc # 0 /\ snap = [pid |-> proc, ok |-> TRUE, n |-> spent]
  BY <1>1, <1>4 DEF Reading
<1>5. CASE proc # 0 /\ snap = [pid |-> proc, ok |-> TRUE, n |-> 0]
  BY <1>1, <1>5 DEF Reading
<1>6. CASE proc # 0 /\ snap = [pid |-> proc, ok |-> FALSE, n |-> 0]
  BY <1>1, <1>6 DEF Reading
<1> QED BY <1>2, <1>3, <1>4, <1>5, <1>6

\* Accounts are kept in numbers, and a bank that is added to stays one.
LEMMA AddType ==
  ASSUME NEW b \in [n : Int, ok : BOOLEAN], NEW from \in Reading, NEW to \in Reading
  PROVE  /\ Add(b, from, to) \in [n : Int, ok : BOOLEAN]
         /\ from.ok /\ to.ok => Add(b, from, to).n = b.n + to.n - from.n /\ Add(b, from, to).ok
         /\ ~(from.ok /\ to.ok) => Add(b, from, to) = b
BY DEF Add, Reading

\* What observing a reading does to the fields of the sampler.
LEMMA ObserveFields ==
  ASSUME TypeOK, OpenedAtZero, NEW snap \in Readings, Observe(snap)
  PROVE  /\ first' \in Reading /\ last' \in Reading /\ first'.pid = last'.pid
         /\ bank' \in [n : Int, ok : BOOLEAN]
         /\ have' \in BOOLEAN
         /\ OpenedAtZero'
         /\ Total'.n >= Total.n
<1>0. /\ snap \in Reading
      /\ snap.pid = 0 => ~snap.ok
      /\ first \in Reading /\ last \in Reading /\ first.pid = last.pid
      /\ bank \in [n : Int, ok : BOOLEAN] /\ have \in BOOLEAN
  BY ReadingTypes DEF TypeOK
<1>1. CASE snap.pid = 0
  BY <1>0, <1>1 DEF Observe, fields, Total, Add, OpenedAtZero, Reading
<1>2. CASE snap.pid # 0 /\ snap.pid = first.pid
  <2>1. /\ first' = first /\ bank' = bank /\ have' = (have \/ snap.ok)
        /\ last' = Carry(last, snap)
    BY <1>2 DEF Observe
  <2>2. /\ last' \in Reading /\ last'.pid = first.pid
        /\ last.ok => last'.ok /\ last'.n >= last.n
    BY <1>0, <1>2, <2>1 DEF Carry, Reading
  <2>3. OpenedAtZero' BY <2>1, <2>2 DEF OpenedAtZero
  <2>4. Total'.n >= Total.n
    <3>1. /\ Total' = Add(bank, first, last') /\ Total = Add(bank, first, last)
      BY <2>1 DEF Total
    <3>2. /\ first.ok /\ last'.ok => Total'.n = bank.n + last'.n - first.n
          /\ ~(first.ok /\ last'.ok) => Total'.n = bank.n
      BY <1>0, <2>2, <3>1 DEF Add, Reading
    <3>3. /\ first.ok /\ last.ok => Total.n = bank.n + last.n - first.n
          /\ ~(first.ok /\ last.ok) => Total.n = bank.n
      BY <1>0, <3>1, AddType
    <3>4. /\ bank.n \in Int /\ first.n \in Nat /\ last.n \in Nat /\ last'.n \in Nat
      BY <1>0, <2>2 DEF Reading
    <3>5. first.ok /\ ~last.ok => first.n = 0 BY DEF OpenedAtZero
    <3> QED BY <2>2, <3>2, <3>3, <3>4, <3>5
  <2> QED BY <1>0, <2>1, <2>2, <2>3, <2>4
<1>3. CASE snap.pid # 0 /\ snap.pid # first.pid
  <2>1. /\ bank' = Total /\ first' = [pid |-> snap.pid, ok |-> TRUE, n |-> 0]
        /\ last' = snap /\ have' = (have \/ snap.ok)
    BY <1>0, <1>3 DEF Observe, Rebase, Baseline, Carry, Total
  <2>2. Total \in [n : Int, ok : BOOLEAN] BY <1>0, AddType DEF Total
  <2>3. first' \in Reading /\ first'.pid = snap.pid /\ first'.n = 0 /\ first'.ok
    BY <1>0, <2>1 DEF Reading
  <2>4. Total'.n >= Total.n
    <3>1. Total' = Add(Total, first', snap) BY <2>1 DEF Total
    <3>2. /\ snap.ok => Total'.n = Total.n + snap.n - 0
          /\ ~snap.ok => Total'.n = Total.n
      BY <1>0, <2>2, <2>3, <3>1 DEF Add, Reading
    <3>3. Total.n \in Int /\ snap.n \in Nat BY <1>0, <2>2 DEF Reading
    <3> QED BY <3>2, <3>3
  <2> QED BY <1>0, <2>1, <2>2, <2>3, <2>4 DEF OpenedAtZero
<1> QED BY <1>1, <1>2, <1>3

\* Accounting for a reading keeps the ghost variables typed.
LEMMA AccountTypes ==
  ASSUME TypeOK, NEW snap \in Readings, Account(snap)
  PROVE  seen' \in [Procs -> Nat] /\ due' \in Nat /\ heard' \in BOOLEAN
<1>0. snap \in Reading /\ snap.ok => snap.pid \in Procs
  BY ReadingTypes
<1>1. snap \in Reading BY ReadingTypes
<1> QED BY <1>0, <1>1 DEF TypeOK, Account, Reading

\* Accounting for a reading that is not behind what is accounted for brings it
\* up to date; any other changes nothing.
LEMMA AccountValues ==
  ASSUME TypeOK, NEW snap \in Readings, snap.pid # 0, Account(snap)
  PROVE  /\ seen[snap.pid] \in Nat
         /\ snap.ok /\ snap.n >= seen[snap.pid] =>
              seen'[snap.pid] = snap.n /\ due' = due + snap.n - seen[snap.pid]
         /\ ~snap.ok \/ snap.n <= seen[snap.pid] => seen' = seen /\ due' = due
         /\ \A p \in Procs : p # snap.pid => seen'[p] = seen[p]
         /\ heard' = (heard \/ snap.ok)
<1>1. /\ snap.pid \in Procs /\ snap.n \in Nat
      /\ seen \in [Procs -> Nat] /\ due \in Nat /\ seen[snap.pid] \in Nat
  BY ReadingTypes DEF TypeOK, Reading
<1>2. heard' = (heard \/ snap.ok) BY DEF Account
<1>3. CASE snap.ok /\ snap.n > seen[snap.pid]
  <2>1. due' = due + snap.n - seen[snap.pid] /\ seen' = [seen EXCEPT ![snap.pid] = snap.n]
    BY <1>3 DEF Account
  <2> QED BY <1>1, <1>2, <1>3, <2>1
<1>4. CASE ~(snap.ok /\ snap.n > seen[snap.pid])
  <2>1. due' = due /\ seen' = seen BY <1>4 DEF Account
  <2> QED BY <1>1, <1>2, <1>4, <2>1
<1> QED BY <1>3, <1>4

\* A reading taken and accounted for leaves the ledger balanced.
LEMMA LedgerKept ==
  ASSUME IInv, Polling, honest, NEW snap \in Readings, Observe(snap), Account(snap), born' = born
  PROVE  Balanced'
<1>0. /\ snap \in Reading
      /\ snap.pid = 0 => ~snap.ok
      /\ snap.pid # 0 => snap.pid \in Procs /\ snap.pid = born
      /\ first \in Reading /\ last \in Reading /\ first.pid = last.pid
      /\ bank \in [n : Int, ok : BOOLEAN] /\ have \in BOOLEAN
      /\ seen \in [Procs -> Nat] /\ due \in Nat /\ heard \in BOOLEAN
      /\ born \in 0..MaxProcs
      /\ MaxProcs \in Nat
  BY ReadingTypes, SamplerAssumption DEF IInv, TypeOK
<1>1. /\ first.pid <= born
      /\ first.pid # 0 => first.ok
      /\ first.pid = 0 => ~last.ok
      /\ last.ok => last.n = seen[first.pid]
      /\ first.pid # 0 /\ ~last.ok => seen[first.pid] = 0
      /\ \A p \in Procs : p > first.pid => seen[p] = 0
      /\ Total.n = due
      /\ Total.ok = heard
      /\ have = heard
      /\ ~heard => due = 0
  BY DEF IInv, Ledger, Balanced
<1>2. OpenedAtZero BY DEF IInv
<1>3. CASE snap.pid = 0
  <2>1. UNCHANGED <<first, last, bank, have, seen, due, heard>>
    BY <1>0, <1>1, <1>3 DEF Observe, Account, fields
  <2> QED BY <1>1, <2>1 DEF Balanced, Total
<1>4. CASE snap.pid # 0 /\ snap.pid = first.pid
  <2>1. /\ first' = first /\ bank' = bank /\ have' = (have \/ snap.ok)
        /\ last' = Carry(last, snap)
    BY <1>4 DEF Observe
  <2>2. /\ seen[snap.pid] \in Nat /\ snap.n \in Nat /\ last.n \in Nat /\ first.n \in Nat
        /\ bank.n \in Int /\ first.ok
    BY <1>0, <1>1, <1>4 DEF Reading
  <2>3. /\ \A p \in Procs : p # snap.pid => seen'[p] = seen[p]
        /\ snap.ok /\ snap.n >= seen[snap.pid] =>
             seen'[snap.pid] = snap.n /\ due' = due + snap.n - seen[snap.pid]
        /\ ~snap.ok \/ snap.n <= seen[snap.pid] => seen' = seen /\ due' = due
    BY <1>4, AccountValues DEF IInv
  <2>4. heard' = (heard \/ snap.ok) BY DEF Account
  <2>5. CASE snap.ok /\ (last.ok => snap.n >= last.n)
    <3>1. last' = snap BY <1>0, <1>4, <2>1, <2>2, <2>5 DEF Carry
    <3>2. seen'[snap.pid] = snap.n /\ due' = due + snap.n - seen[snap.pid]
      BY <1>1, <1>4, <2>2, <2>3, <2>5
    <3>3. Total' = [n |-> bank.n + snap.n - first.n, ok |-> TRUE]
      BY <2>1, <2>2, <2>5, <3>1 DEF Total, Add
    <3>4. Total.n = bank.n + seen[snap.pid] - first.n
      BY <1>0, <1>1, <1>2, <1>4, <2>2 DEF Total, Add, OpenedAtZero
    <3>5. Total'.n = due' BY <1>0, <1>1, <2>2, <3>2, <3>3, <3>4
    <3>6. \A p \in Procs : p > first'.pid => seen'[p] = 0
      BY <1>0, <1>1, <1>4, <2>1, <2>3 DEF Procs
    <3>7. first'.pid = snap.pid /\ first'.ok /\ last'.ok /\ have' /\ heard' /\ Total'.ok
      BY <1>4, <2>1, <2>2, <2>4, <2>5, <3>1, <3>3
    <3> QED BY <1>0, <1>1, <1>4, <3>1, <3>2, <3>5, <3>6, <3>7 DEF Balanced
  <2>6. CASE ~(snap.ok /\ (last.ok => snap.n >= last.n))
    <3>1. seen' = seen /\ due' = due
      BY <1>1, <1>4, <2>2, <2>3, <2>6
    <3>2. last.ok => last' = last BY <1>0, <1>4, <2>1, <2>2, <2>6 DEF Carry
    <3>3. ~last.ok => last' = snap /\ ~snap.ok BY <1>0, <1>4, <2>1, <2>6 DEF Carry
    <3>4. Total' = Total
      BY <2>1, <3>2, <3>3 DEF Total, Add
    <3>5. snap.ok => heard
      BY <1>1, <2>2, <3>3 DEF Total, Add
    <3> QED
      BY <1>0, <1>1, <1>4, <2>1, <2>4, <3>1, <3>2, <3>3, <3>4, <3>5 DEF Balanced
  <2> QED BY <2>5, <2>6
<1>5. CASE snap.pid # 0 /\ snap.pid # first.pid
  <2>1. seen[snap.pid] = 0 /\ snap.pid > first.pid
    BY <1>0, <1>1, <1>5 DEF Reading, Procs
  <2>2. /\ bank' = Total /\ first' = Baseline(snap) /\ last' = snap
        /\ have' = (have \/ snap.ok)
    BY <1>0, <1>5 DEF Observe, Rebase, Carry, Total
  <2>3. /\ heard' = (heard \/ snap.ok)
        /\ snap.ok => seen'[snap.pid] = snap.n /\ due' = due + snap.n
        /\ ~snap.ok => seen' = seen /\ due' = due
        /\ \A p \in Procs : p > snap.pid => seen'[p] = 0
    <3>1. /\ heard' = (heard \/ snap.ok)
          /\ \A p \in Procs : p # snap.pid => seen'[p] = seen[p]
          /\ snap.ok /\ snap.n >= seen[snap.pid] =>
               seen'[snap.pid] = snap.n /\ due' = due + snap.n - seen[snap.pid]
          /\ ~snap.ok => seen' = seen /\ due' = due
      BY <1>5, AccountValues DEF IInv
    <3>2. snap.n \in Nat /\ snap.pid \in Int /\ first.pid \in Int BY <1>0 DEF Reading
    <3>3. \A p \in Procs : p > snap.pid => seen'[p] = 0
      BY <1>1, <2>1, <3>1, <3>2 DEF Procs
    <3> QED BY <1>0, <2>1, <3>1, <3>2, <3>3
  <2>4. Total \in [n : Int, ok : BOOLEAN]
    BY <1>0, AddType DEF Total
  <2>5. first'.pid = snap.pid /\ first'.ok /\ first'.n = 0
    BY <2>2 DEF Baseline
  <2>6. CASE snap.ok
    <3>1. Total' = [n |-> Total.n + snap.n - 0, ok |-> TRUE]
      BY <2>2, <2>5, <2>6 DEF Total, Add
    <3>2. Total'.n = due'
      <4>1. snap.n \in Nat /\ Total.n = due /\ due' = due + snap.n
        BY <1>0, <1>1, <2>3, <2>6 DEF Reading
      <4>2. Total'.n = Total.n + snap.n - 0 BY <3>1
      <4> QED BY <1>0, <4>1, <4>2
    <3>3. \A p \in Procs : p > first'.pid => seen'[p] = 0 BY <2>3, <2>5
    <3>4. last'.ok /\ have' /\ heard' /\ Total'.ok /\ last'.n = snap.n
      BY <2>2, <2>3, <2>6, <3>1
    <3>5. seen'[snap.pid] = snap.n /\ snap.pid # 0 /\ snap.pid <= born'
      BY <1>0, <1>5, <2>3, <2>6
    <3> QED BY <2>5, <3>2, <3>3, <3>4, <3>5 DEF Balanced
  <2>7. CASE ~snap.ok
    <3>1. Total' = Total BY <2>2, <2>7 DEF Total, Add
    <3> QED BY <1>0, <1>1, <1>5, <2>1, <2>2, <2>3, <2>5, <2>7, <3>1 DEF Balanced
  <2> QED BY <2>6, <2>7
<1> QED BY <1>3, <1>4, <1>5

\* A window opened by a right reading starts with a balanced ledger, and any
\* window with typed fields.
LEMMA OpenLedger ==
  ASSUME IInv, NEW snap \in Readings, Open(snap), UNCHANGED engine,
         at' = "running", UNCHANGED <<tick, result, matched>>, samples' \in Nat
  PROVE  IInv'
<1>0. /\ snap \in Reading /\ snap.pid \in {0, proc}
      /\ snap.pid = 0 => ~snap.ok
      /\ snap.pid # 0 => snap.pid \in Procs /\ snap.pid = born
  BY ReadingTypes DEF IInv
<1>1. TypeOK'
  BY <1>0 DEF IInv, TypeOK, Open, engine, Reading
<1>2. OpenedAtZero' BY DEF Open, OpenedAtZero
<1>3. Ledger'
  <2> SUFFICES ASSUME honest' PROVE Ledger' BY DEF Ledger
  <2>1. proc = 0 \/ snap = Honest BY DEF Open
  <2>2. /\ proc \in {0, born} /\ born \in 0..MaxProcs /\ spent \in Nat /\ MaxProcs \in Nat
    BY SamplerAssumption DEF IInv, TypeOK
  <2>3. CASE proc = 0
    <3>1. snap = NoReading BY <2>3 DEF Readings
    <3> QED BY <2>2, <2>3, <3>1 DEF Ledger, Balanced, Open, engine, NoReading, Total, Add, Procs
  <2>4. CASE proc # 0 /\ snap = Honest
    <3>1. proc = born /\ born \in Procs BY <2>2, <2>4 DEF Procs
    <3> QED BY <2>2, <2>4, <3>1 DEF Ledger, Balanced, Open, engine, Honest, Total, Add, Procs
  <2> QED BY <2>1, <2>3, <2>4
<1>4. Settled' BY DEF Settled
<1>5. ReadsInWindow' BY DEF ReadsInWindow, Polling
<1> QED BY <1>1, <1>2, <1>3, <1>4, <1>5 DEF IInv

\* What the final reading does, whichever Stop takes it.
LEMMA FinalTypes ==
  ASSUME IInv, NEW snap \in Readings, Final(snap), UNCHANGED watched
  PROVE  /\ result' \in [n : Int, ok : BOOLEAN, execs : Nat]
         /\ have' => (result'.n = Total'.n /\ result'.ok = Total'.ok)
         /\ ~have' => (result'.n = 0 /\ ~result'.ok)
<1>1. /\ first' \in Reading /\ last' \in Reading
      /\ bank' \in [n : Int, ok : BOOLEAN] /\ have' \in BOOLEAN
  BY ObserveFields DEF IInv, Final
<1>2. Total' \in [n : Int, ok : BOOLEAN] BY <1>1, AddType DEF Total
<1>3. watched \in Nat BY DEF IInv, TypeOK
<1>4. CASE have'
  <2>1. result' = [n |-> Total'.n, ok |-> Total'.ok, execs |-> watched]
    BY <1>4 DEF Final, Total
  <2> QED BY <1>2, <1>3, <1>4, <2>1
<1>5. CASE ~have'
  <2>1. result' = [n |-> 0, ok |-> FALSE, execs |-> watched]
    BY <1>5 DEF Final
  <2>2. result' \in [n : Int, ok : BOOLEAN, execs : Nat] BY <1>3, <2>1
  <2>3. result'.n = 0 /\ result'.ok = FALSE BY <2>1
  <2> QED BY <1>5, <2>2, <2>3
<1> QED BY <1>1, <1>4, <1>5

\* Initially there is no window and nothing is due.
LEMMA InitInv == Init => IInv
<1> SUFFICES ASSUME Init PROVE IInv OBVIOUS
<1>1. /\ first = [pid |-> 0, ok |-> FALSE, n |-> 0] /\ last = first
      /\ bank = [n |-> 0, ok |-> FALSE]
      /\ result = [n |-> 0, ok |-> FALSE, execs |-> 0]
  BY DEF Init, NoReading
<1>2. first \in Reading /\ result \in [n : Int, ok : BOOLEAN, execs : Nat]
  BY <1>1, SamplerAssumption DEF Reading
<1>3. TypeOK
  <2>1. /\ at = "idle" /\ tick = "wait" /\ sess = FALSE /\ have = FALSE
        /\ proc = 0 /\ born = 0 /\ spent = 0 /\ samples = 0 /\ watched = 0 /\ due = 0
        /\ heard = FALSE /\ honest = TRUE /\ matched = TRUE
        /\ seen = [p \in Procs |-> 0]
    BY DEF Init
  <2>2. seen \in [Procs -> Nat] /\ bank \in [n : Int, ok : BOOLEAN] /\ born \in 0..MaxProcs
    BY <1>1, <2>1, SamplerAssumption
  <2> QED BY <1>1, <1>2, <2>1, <2>2 DEF TypeOK
<1>4. OpenedAtZero BY <1>1 DEF OpenedAtZero
<1>5. Ledger BY DEF Init, Ledger, Polling
<1>6. Settled
  <2>1. result.n = 0 /\ result.ok = FALSE BY <1>1
  <2> QED BY <2>1 DEF Init, Settled
<1>7. ReadsInWindow BY DEF Init, ReadsInWindow
<1> QED BY <1>3, <1>4, <1>5, <1>6, <1>7 DEF IInv

\* Every step keeps the invariant.
LEMMA NextInv == IInv /\ [Next]_vars => IInv'
<1> SUFFICES ASSUME IInv, [Next]_vars PROVE IInv' OBVIOUS
<1> USE DEF IInv
<1>1. CASE StartSeries
  <2>1. PICK snap \in Readings : Open(snap) BY <1>1 DEF StartSeries
  <2> QED BY <1>1, <2>1, OpenLedger DEF StartSeries
<1>2. CASE StartAgain
  <2>1. PICK snap \in Readings : Open(snap) BY <1>2 DEF StartAgain
  <2>2. samples' \in Nat BY <1>2 DEF StartAgain, TypeOK
  <2> QED BY <1>2, <2>1, <2>2, OpenLedger DEF StartAgain
<1>3. CASE Exec
  <2>1. /\ at' \in {at, "broken"} /\ sess' \in BOOLEAN /\ proc' \in {0, born}
        /\ samples' \in Nat /\ watched' \in Nat
    <3>1. samples \in Nat /\ watched \in Nat /\ sess \in BOOLEAN /\ proc \in {0, born}
      BY DEF TypeOK
    <3>2. CASE UNCHANGED <<at, sess, proc>> BY <1>3, <3>1, <3>2 DEF Exec
    <3>3. CASE at' = "broken" /\ sess' = FALSE /\ proc' = 0
      <4>1. samples' = samples + 1 /\ watched' = watched + 1 BY <1>3 DEF Exec
      <4>2. sess' \in BOOLEAN BY <3>3
      <4>3. at' \in {at, "broken"} /\ proc' \in {0, born} BY <3>3
      <4>4. samples' \in Nat /\ watched' \in Nat BY <3>1, <4>1
      <4> QED BY <4>2, <4>3, <4>4
    <3> QED BY <1>3, <3>2, <3>3 DEF Exec
  <2>2. UNCHANGED <<born, spent, tick, first, last, bank, have, result,
                    seen, due, heard, honest, matched>>
    BY <1>3 DEF Exec, fields, ghost
  <2>3. TypeOK'
    <3>1. at' \in {"idle", "running", "broken", "restoring", "joining", "rejoining"}
      BY <1>3 DEF Exec, TypeOK
    <3> QED BY <2>1, <2>2, <3>1 DEF TypeOK
  <2> QED
    BY <1>3, <2>3 DEF Exec, OpenedAtZero, ReadsInWindow, Ledger, Balanced, Settled, Polling, Total, fields, ghost
<1>4. CASE Cancel
  <2>1. TypeOK' BY <1>4 DEF Cancel, TypeOK, engine, fields, ghost
  <2> QED
    BY <1>4, <2>1 DEF Cancel, OpenedAtZero, ReadsInWindow, Ledger, Balanced, Settled, Polling, Total, engine, fields, ghost
<1>5. CASE Stop
  <2>1. PICK snap \in Readings : Final(snap) /\ Account(snap) BY <1>5 DEF Stop
  <2>2. Observe(snap) BY <2>1 DEF Final
  <2>3. TypeOK'
    BY <1>5, <2>1, <2>2, ObserveFields, AccountTypes, FinalTypes DEF Stop, TypeOK, engine
  <2>4. OpenedAtZero' BY <2>2, ObserveFields
  <2>5. Ledger' /\ ReadsInWindow' BY <1>5 DEF Stop, Ledger, Polling, ReadsInWindow, engine
  <2>6. Settled'
    <3> SUFFICES ASSUME honest' PROVE result'.n = due' /\ result'.ok = heard'
      BY DEF Settled
    <3>1. Polling /\ honest /\ born' = born BY <1>5 DEF Stop, Polling, engine
    <3>2. Balanced' BY <2>1, <2>2, <3>1, LedgerKept
    <3>3. /\ have' => result'.n = Total'.n /\ result'.ok = Total'.ok
          /\ ~have' => result'.n = 0 /\ ~result'.ok
          /\ result'.ok \in BOOLEAN /\ heard' \in BOOLEAN
      BY <1>5, <2>1, FinalTypes, AccountTypes DEF Stop
    <3> QED BY <3>2, <3>3 DEF Balanced
  <2> QED BY <2>3, <2>4, <2>5, <2>6
<1>6. CASE StopAgain
  <2>1. PICK snap \in Readings : Final(snap) BY <1>6 DEF StopAgain
  <2>2. Observe(snap) BY <2>1 DEF Final
  <2>3. TypeOK'
    BY <1>6, <2>1, <2>2, ObserveFields, FinalTypes DEF StopAgain, TypeOK, engine
  <2>4. OpenedAtZero' BY <2>2, ObserveFields
  <2> QED BY <1>6, <2>3, <2>4 DEF StopAgain, Ledger, Polling, ReadsInWindow, Settled
<1>7. CASE Reopen
  <2>1. TypeOK' BY <1>7 DEF Reopen, TypeOK, fields, ghost
  <2> QED
    BY <1>7, <2>1 DEF Reopen, OpenedAtZero, ReadsInWindow, Ledger, Balanced, Settled, Polling, Total, fields, ghost
<1>14. CASE Abandon
  <2>1. TypeOK' BY <1>14 DEF Abandon, TypeOK, engine, fields, ghost
  <2> QED
    BY <1>14, <2>1 DEF Abandon, OpenedAtZero, ReadsInWindow, Ledger, Settled, Polling, engine, fields, ghost
<1>8. CASE Spawn
  <2>0. born \in 0..MaxProcs /\ MaxProcs \in Nat /\ born' = born + 1 /\ born < MaxProcs
    BY <1>8, SamplerAssumption DEF TypeOK, Spawn
  <2>1. TypeOK' BY <1>8, <2>0 DEF Spawn, TypeOK, fields, ghost
  <2>2. Ledger'
    BY <1>8, <2>0 DEF Spawn, Ledger, Balanced, Polling, Total, TypeOK, Reading, fields, ghost
  <2> QED
    BY <1>8, <2>1, <2>2 DEF Spawn, OpenedAtZero, ReadsInWindow, Polling, Settled, fields, ghost
<1>9. CASE Exit
  <2>1. TypeOK' BY <1>9 DEF Exit, TypeOK, fields, ghost
  <2> QED
    BY <1>9, <2>1 DEF Exit, OpenedAtZero, ReadsInWindow, Ledger, Balanced, Settled, Polling, Total, fields, ghost
<1>10. CASE Work
  <2>1. TypeOK' BY <1>10 DEF Work, TypeOK, fields, ghost
  <2> QED
    BY <1>10, <2>1 DEF Work, OpenedAtZero, ReadsInWindow, Ledger, Balanced, Settled, Polling, Total, fields, ghost
<1>11. CASE Look
  <2>1. TypeOK' BY <1>11 DEF Look, TypeOK, engine, fields, ghost
  <2> QED
    BY <1>11, <2>1 DEF Look, OpenedAtZero, ReadsInWindow, Ledger, Balanced, Settled, Polling, Total, engine, fields, ghost
<1>12. CASE Poll
  <2>1. CASE UNCHANGED <<fields, seen, due, heard>> /\ tick' = "panicked"
    <3>1. TypeOK' BY <1>12, <2>1 DEF Poll, TypeOK, engine, fields
    <3> QED
      BY <1>12, <2>1, <3>1 DEF Poll, OpenedAtZero, ReadsInWindow, Ledger, Balanced, Settled, Polling, Total, engine, fields
  <2>2. CASE \E snap \in Readings : Observe(snap) /\ Account(snap) /\ tick' = "wait"
    <3>1. PICK snap \in Readings : Observe(snap) /\ Account(snap) /\ tick' = "wait" BY <2>2
    <3>2. TypeOK'
      BY <1>12, <3>1, ObserveFields, AccountTypes DEF Poll, TypeOK, engine
    <3>3. OpenedAtZero' BY <3>1, ObserveFields
    <3>4. UNCHANGED <<at, born, honest, matched, result>> BY <1>12 DEF Poll, engine
    <3>5. Ledger'
      <4> SUFFICES ASSUME Polling', honest' PROVE Ledger' BY DEF Ledger
      <4>1. Polling /\ honest BY <3>4 DEF Polling
      <4>2. Balanced' BY <3>1, <3>4, <4>1, LedgerKept
      <4> QED BY <4>2 DEF Ledger
    <3>6. ReadsInWindow' BY <3>1 DEF ReadsInWindow
    <3>7. Settled' BY <1>12, <3>4 DEF Poll, ReadsInWindow, Polling, Settled
    <3> QED BY <3>2, <3>3, <3>5, <3>6, <3>7
  <2> QED BY <1>12, <2>1, <2>2 DEF Poll
<1>13. CASE UNCHANGED vars
  BY <1>13 DEF vars, TypeOK, OpenedAtZero, ReadsInWindow, Ledger, Balanced, Settled, Polling, Total, engine, fields, ghost
<1> QED
  BY <1>1, <1>2, <1>3, <1>4, <1>5, <1>6, <1>7, <1>8, <1>9, <1>10, <1>11, <1>12, <1>13, <1>14 DEF Next, Executor

\* The strengthened invariant holds of every behaviour.
THEOREM Invariance == Spec => []IInv
<1>1. Init => IInv BY InitInv
<1>2. IInv /\ [Next]_vars => IInv' BY NextInv
<1> QED BY <1>1, <1>2, PTL DEF Spec

\* The sampler's fields and its accounts stay typed, and the closing reading is
\* always of the process the account was opened for.
THEOREM TypeCorrect == Spec => []TypeOK
BY Invariance, PTL DEF IInv

\* A window that was opened by a right reading reports the sum of what the
\* processes in it spent, each counted once, however many there are, in
\* whatever order they come and go and whichever later readings fail.
THEOREM SumCorrect == Spec => []SumOfProcesses
<1>1. IInv => SumOfProcesses BY DEF IInv, Settled, SumOfProcesses
<1>2. QED BY <1>1, Invariance, PTL

\* No step takes back what a window had accounted for, also when the reading
\* that opened it failed.
THEOREM NeverFalls == Spec => FigureNeverFalls
<1>1. IInv /\ [Next]_vars => [Polling /\ Polling' => Total'.n >= Total.n]_vars
  <2> SUFFICES ASSUME IInv, [Next]_vars, Polling, Polling' PROVE Total'.n >= Total.n
    OBVIOUS
  <2>1. Total.n \in Int
    BY AddType DEF IInv, TypeOK, Total
  <2>2. ASSUME UNCHANGED fields PROVE Total'.n >= Total.n
    <3>1. Total' = Total BY <2>2 DEF fields, Total
    <3> QED BY <2>1, <3>1
  <2>3. CASE \E snap \in Readings : Observe(snap)
    <3>1. PICK snap \in Readings : Observe(snap) BY <2>3
    <3> QED BY <3>1, ObserveFields DEF IInv
  <2>4. UNCHANGED fields \/ \E snap \in Readings : Observe(snap)
    <3>1. CASE StartSeries BY <3>1 DEF StartSeries, Polling
    <3>2. CASE StartAgain BY <3>2 DEF StartAgain, Polling
    <3>3. CASE Stop BY <3>3 DEF Stop, Final
    <3>4. CASE StopAgain BY <3>4 DEF StopAgain, Final
    <3>5. CASE Poll BY <3>5 DEF Poll
    <3>6. CASE Exec \/ Cancel \/ Abandon \/ Reopen \/ Spawn \/ Exit \/ Work \/ Look
      BY <3>6 DEF Exec, Cancel, Abandon, Reopen, Spawn, Exit, Work, Look
    <3>7. CASE UNCHANGED vars BY <3>7 DEF vars
    <3> QED BY <3>1, <3>2, <3>3, <3>4, <3>5, <3>6, <3>7 DEF Next, Executor
  <2> QED BY <2>2, <2>3, <2>4
<1>2. QED BY <1>1, Invariance, PTL DEF Spec, FigureNeverFalls
=============================================================================
