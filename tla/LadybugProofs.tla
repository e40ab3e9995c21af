--------------------------- MODULE LadybugProofs ---------------------------
(***************************************************************************)
(* The invariants of LadybugSession, for any number of resets, statements  *)
(* and markers, and whatever marker's text occurs in another's.            *)
(***************************************************************************)
EXTENDS LadybugSession, SequenceTheorems, TLAPS

(***************************************************************************)
(* The inductive invariant                                                 *)
(***************************************************************************)
Kinds == {"rows", "exists", "error"}
LineType == [of : Nat, kind : Kinds \cup {"marker"}]
ReplyType == [of : SUBSET Nat, errs : SUBSET Kinds]
StoreType == [there : BOOLEAN, graph : BOOLEAN, parts : SUBSET (Nat \X Nat)]

Busy == pc \in {"start", "run", "split"}

TypeInv ==
  /\ path \in 0..MaxGen /\ created \in BOOLEAN /\ serial \in 0..MaxSerial
  /\ pc \in {"idle", "start", "run", "split", "remove"}
  /\ op \in {"none", "exec", "reset", "load"} /\ (op = "none" <=> pc = "idle")
  /\ todo \in Nat /\ loads \in Nat
  /\ script \in Seq(Int) /\ base \in Nat /\ pre \in 0..Len(script)
  /\ base + Len(script) <= serial
  /\ ran \in 0..Len(script) /\ inside \in BOOLEAN
  /\ out \in Seq(LineType) /\ reps \in Seq(ReplyType) /\ cur \in ReplyType
  /\ Len(reps) <= Len(script)
  /\ stores \in [0..MaxGen -> StoreType]
  /\ promised \in SUBSET (Nat \X Nat) /\ fatal \in BOOLEAN

\* The scripts there are.
Shape ==
  Busy =>
    /\ pre = IF created THEN 1 ELSE 2
    /\ \A i \in 1..pre : script[i] \in {Create, Use}
    /\ \A i \in 1..Len(script) : script[i] = Use <=> i = pre
    /\ \A i \in 1..Len(script) : script[i] = Create => ~created
    /\ op = "exec" => Len(script) = pre + 1 /\ script[Len(script)] = Stmt
    /\ op # "exec" =>
         \/ Len(script) = pre + 1 /\ script[Len(script)] = Probe
         \/ /\ op = "load" /\ todo > 0 /\ Len(script) = pre + todo
            /\ \A k \in 1..todo : script[pre + k] = k

\* What is on the disk: a graph where one is believed in, nothing ahead of the
\* session, and in the store of the session what was promised or is being put.
Disk ==
  /\ created \/ (Busy /\ inside) => stores[path].graph
  /\ op = "reset" => todo = 0
  /\ \A g \in path + 1 .. MaxGen : stores[g] = Absent
  /\ op \in {"none", "exec"} /\ promised # Any => stores[path].parts = promised
  /\ pc = "remove" => stores[path].parts = {} /\ created /\ op \in {"reset", "load"}
  /\ Busy /\ op \in {"reset", "load"} =>
       stores[path].parts \subseteq
         IF script[Len(script)] = Probe THEN {} ELSE {<<loads, k>> : k \in 1..todo}

\* The lines of the output are in the order of their statements, and a marker
\* is the last of its statement's.
Sorted ==
  /\ \A i \in 1..Len(out) : out[i].of \in 1..ran
  /\ \A i, j \in 1..Len(out) : i < j =>
       /\ out[i].of <= out[j].of
       /\ out[i].kind = "marker" => out[i].of < out[j].of

\* Nothing that is still to be read is of a statement replied to.
Ahead == \A i \in 1..Len(out) : out[i].of > Len(reps)

\* A statement that did not do what the session takes it to have done.
Bad(i) ==
  \/ script[i] = Use /\ ~inside
  \/ script[i] \in Nat /\ inside /\ <<loads, script[i]>> \notin stores[path].parts

Marked(i) == \E j \in 1..Len(out) : out[j].of = i /\ out[j].kind = "marker"
Blamed(i) == \E j \in 1..Len(out) : out[j].of = i /\ out[j].kind \in {"exists", "error"}

\* The replies so far are in step with the statements.
InStep ==
  /\ \A i \in 1..Len(reps) : reps[i].of \subseteq {i} /\ (Bad(i) => reps[i].errs # {})
  /\ cur.of \subseteq {Len(reps) + 1}
  /\ \A i \in Len(reps) + 1 .. ran : Bad(i) /\ Marked(i) =>
       Blamed(i) \/ (i = Len(reps) + 1 /\ cur.errs # {})

\* A marker was lost, or taken for another: the output ends too early.
Behind ==
  /\ Len(reps) < Len(script)
  /\ \A i \in 1..Len(out) : out[i].of > Len(reps) + 1

Reading ==
  /\ pc \in {"run", "split"} => Sorted /\ Ahead /\ (InStep \/ (pc = "split" /\ Behind))
  /\ pc = "run" => reps = <<>> /\ cur = Blank
  /\ pc = "start" => ran = 0 /\ ~inside /\ out = <<>> /\ reps = <<>> /\ cur = Blank

Answered == AnswersItsStatement /\ InsideTheGraph /\ AnsweredFromPromised

IInv == TypeInv /\ Shape /\ Disk /\ Reading /\ Answered

-----------------------------------------------------------------------------
(***************************************************************************)
(* Lemmas                                                                  *)
(***************************************************************************)

\* What Send makes of a list of statements: the prelude and then the list.
LEMMA Sent ==
  ASSUME TypeInv, NEW ready \in BOOLEAN, NEW stmts \in Seq(Int), Send(ready, stmts),
         \A k \in 1..Len(stmts) : stmts[k] \notin {Use, Create}
  PROVE  /\ script' \in Seq(Int) /\ base' \in Nat /\ serial' \in 0..MaxSerial
         /\ base' + Len(script') <= serial'
         /\ pre' = (IF ready THEN 1 ELSE 2) /\ pre' \in 0..Len(script')
         /\ Len(script') = pre' + Len(stmts)
         /\ \A k \in 1..Len(stmts) : script'[pre' + k] = stmts[k]
         /\ \A i \in 1..pre' : script'[i] \in {Create, Use}
         /\ \A i \in 1..Len(script') : script'[i] = Use <=> i = pre'
         /\ \A i \in 1..Len(script') : script'[i] = Create => ~ready
         /\ ran' = 0 /\ inside' = FALSE /\ out' = <<>> /\ reps' = <<>> /\ cur' = Blank
         /\ pc' = "start"
<1> DEFINE prelude == IF ready THEN <<Use>> ELSE <<Create, Use>>
<1>1. prelude \in Seq(Int) /\ Len(prelude) = IF ready THEN 1 ELSE 2
  BY DEF Use, Create
<1>2. /\ prelude[Len(prelude)] = Use
      /\ \A i \in 1..Len(prelude) : prelude[i] = Use <=> i = Len(prelude)
      /\ \A i \in 1..Len(prelude) : prelude[i] \in {Create, Use}
      /\ \A i \in 1..Len(prelude) : prelude[i] = Create => ~ready
  BY DEF Use, Create
<1>3. script' = prelude \o stmts /\ pre' = Len(prelude)
  BY DEF Send
<1> HIDE DEF prelude
<1>4. /\ script' \in Seq(Int) /\ Len(script') = Len(prelude) + Len(stmts)
      /\ \A i \in 1..Len(prelude) : script'[i] = prelude[i]
      /\ \A i \in Len(prelude) + 1 .. Len(script') : script'[i] = stmts[i - Len(prelude)]
  <2>1. /\ prelude \o stmts \in Seq(Int)
        /\ Len(prelude \o stmts) = Len(prelude) + Len(stmts)
        /\ \A i \in 1 .. Len(prelude) + Len(stmts) : (prelude \o stmts)[i] =
               IF i <= Len(prelude) THEN prelude[i] ELSE stmts[i - Len(prelude)]
    BY <1>1, ConcatProperties
  <2>2. Len(prelude) \in Nat /\ Len(stmts) \in Nat
    BY <1>1
  <2>3. /\ script' \in Seq(Int)
        /\ Len(script') = Len(prelude) + Len(stmts)
        /\ \A i \in 1 .. Len(prelude) + Len(stmts) : script'[i] =
               IF i <= Len(prelude) THEN prelude[i] ELSE stmts[i - Len(prelude)]
    BY <2>1, <1>3
  <2>4. \A i \in 1..Len(prelude) : script'[i] = prelude[i]
    BY <2>2, <2>3
  <2>5. \A i \in Len(prelude) + 1 .. Len(script') : script'[i] = stmts[i - Len(prelude)]
    BY SMTT(20), <2>2, <2>3
  <2> QED BY <2>3, <2>4, <2>5
<1>5. \A i \in Len(prelude) + 1 .. Len(script') : script'[i] \notin {Use, Create}
  <2> TAKE i \in Len(prelude) + 1 .. Len(script')
  <2>1. i - Len(prelude) \in 1..Len(stmts)
    BY <1>1, <1>4
  <2> QED BY <2>1, <1>4
<1>6. \A k \in 1..Len(stmts) : script'[pre' + k] = stmts[k]
  <2> TAKE k \in 1..Len(stmts)
  <2>1. pre' + k \in Len(prelude) + 1 .. Len(script') /\ (pre' + k) - Len(prelude) = k
    BY <1>1, <1>3, <1>4
  <2> QED BY <2>1, <1>4
<1>7. /\ base' \in Nat /\ serial' \in 0..MaxSerial /\ base' + Len(script') <= serial'
      /\ ran' = 0 /\ inside' = FALSE /\ out' = <<>> /\ reps' = <<>> /\ cur' = Blank
      /\ pc' = "start"
  BY <1>4, LadybugAssumption DEF Send, TypeInv
<1>8. \A i \in 1..Len(script') : script'[i] = Use <=> i = pre'
  BY <1>1, <1>2, <1>3, <1>4, <1>5
<1>9. \A i \in 1..Len(script') : script'[i] = Create => ~ready
  BY <1>1, <1>2, <1>3, <1>4, <1>5
<1>10. pre' = (IF ready THEN 1 ELSE 2) /\ pre' \in 0..Len(script') /\ Len(script') = pre' + Len(stmts)
  BY <1>1, <1>3, <1>4
<1>11. \A i \in 1..pre' : script'[i] \in {Create, Use}
  BY <1>1, <1>2, <1>3, <1>4
<1> QED BY <1>4, <1>6, <1>7, <1>8, <1>9, <1>10, <1>11

\* The empty buffers an exchange begins with are buffers.
LEMMA EmptyBuffers ==
  /\ <<>> \in Seq(LineType) /\ <<>> \in Seq(ReplyType) /\ Blank \in ReplyType
  /\ Len(<<>>) = 0
  BY DEF Blank, ReplyType

\* An exchange that has been sent has the types it should have.
LEMMA Begun ==
  ASSUME path' \in 0..MaxGen, created' \in BOOLEAN, op' \in {"exec", "reset", "load"},
         todo' \in Nat, loads' \in Nat,
         script' \in Seq(Int), base' \in Nat, serial' \in 0..MaxSerial,
         base' + Len(script') <= serial', pre' \in 0..Len(script'),
         ran' = 0, inside' = FALSE, out' = <<>>, reps' = <<>>, cur' = Blank, pc' = "start",
         stores' \in [0..MaxGen -> StoreType],
         promised' \in SUBSET (Nat \X Nat), fatal' \in BOOLEAN
  PROVE  TypeInv'
<1>1. out' \in Seq(LineType) /\ reps' \in Seq(ReplyType) /\ cur' \in ReplyType
  BY EmptyBuffers
<1>2. Len(script') \in Nat /\ Len(reps') = 0
  BY EmptyBuffers
<1>3. ran' \in 0..Len(script') /\ Len(reps') <= Len(script')
  BY <1>2
<1>4. inside' \in BOOLEAN /\ (op' = "none" <=> pc' = "idle")
  OBVIOUS
<1> QED BY <1>1, <1>3, <1>4 DEF TypeInv

-----------------------------------------------------------------------------
(***************************************************************************)
(* The steps                                                               *)
(***************************************************************************)

LEMMA Initially == Init => IInv
<1> SUFFICES ASSUME Init PROVE IInv
  OBVIOUS
<1>1. TypeInv
  <2>1. Absent \in StoreType
    BY DEF Absent, StoreType
  <2>2. <<>> \in Seq(Int) /\ stores \in [0..MaxGen -> StoreType]
    BY <2>1 DEF Init
  <2>3. out \in Seq(LineType) /\ reps \in Seq(ReplyType) /\ cur \in ReplyType /\ Len(reps) = 0
        /\ script \in Seq(Int) /\ Len(script) = 0
    BY <2>2, EmptyBuffers DEF Init
  <2>4. promised \in SUBSET (Nat \X Nat) /\ fatal \in BOOLEAN /\ path \in 0..MaxGen
        /\ serial \in 0..MaxSerial
    BY LadybugAssumption DEF Init
  <2>5. /\ created \in BOOLEAN /\ inside \in BOOLEAN /\ pc = "idle" /\ op = "none"
        /\ todo = 0 /\ loads = 0 /\ base = 0 /\ serial = 0 /\ pre = 0 /\ ran = 0
    BY DEF Init
  <2> QED BY <2>2, <2>3, <2>4, <2>5 DEF TypeInv
<1>2. Disk
  BY LadybugAssumption DEF Init, Disk, Absent, Busy
<1>3. Shape /\ Reading /\ Answered
  BY DEF Init, Shape, Busy, Reading, Answered, AnswersItsStatement, InsideTheGraph,
         AnsweredFromPromised
<1> QED BY <1>1, <1>2, <1>3 DEF IInv

\* A call that returns an error leaves everything but the promise.
LEMMA Failing ==
  ASSUME IInv, NEW deadly \in BOOLEAN, Fail(deadly),
         UNCHANGED <<fields, exchange, shell, reading, stores>>
  PROVE  IInv'
<1>1. TypeInv'
  BY DEF IInv, TypeInv, Fail, fields, exchange, shell, reading, Any
<1>2. Disk'
  BY DEF IInv, TypeInv, Disk, Fail, fields, exchange, shell, reading, Busy
<1>3. Shape' /\ Reading'
  BY DEF Fail, Shape, Busy, Reading
<1>4. Answered'
  BY DEF IInv, Fail, Answered, AnswersItsStatement, InsideTheGraph, AnsweredFromPromised
<1> QED BY <1>1, <1>2, <1>3, <1>4 DEF IInv

LEMMA ExecStep == ASSUME IInv, Exec PROVE IInv'
<1> USE DEF IInv
<1>1. <<Stmt>> \in Seq(Int) /\ Len(<<Stmt>>) = 1 /\ <<Stmt>>[1] = Stmt
      /\ \A k \in 1..Len(<<Stmt>>) : <<Stmt>>[k] \notin {Use, Create}
  BY DEF Stmt, Use, Create
<1>2. created \in BOOLEAN /\ Send(created, <<Stmt>>)
  BY DEF Exec, TypeInv
<1>3. /\ script' \in Seq(Int) /\ base' \in Nat /\ serial' \in 0..MaxSerial
      /\ base' + Len(script') <= serial'
      /\ pre' = (IF created THEN 1 ELSE 2) /\ pre' \in 0..Len(script')
      /\ Len(script') = pre' + 1
      /\ script'[pre' + 1] = Stmt
      /\ \A i \in 1..pre' : script'[i] \in {Create, Use}
      /\ \A i \in 1..Len(script') : script'[i] = Use <=> i = pre'
      /\ \A i \in 1..Len(script') : script'[i] = Create => ~created
      /\ ran' = 0 /\ inside' = FALSE /\ out' = <<>> /\ reps' = <<>> /\ cur' = Blank
      /\ pc' = "start"
  <2> DEFINE stmts == <<Stmt>>
  <2>1. /\ stmts \in Seq(Int) /\ Len(stmts) = 1 /\ stmts[1] = Stmt
        /\ \A k \in 1..Len(stmts) : stmts[k] \notin {Use, Create}
        /\ Send(created, stmts)
    BY <1>1, <1>2
  <2> HIDE DEF stmts
  <2>2. TypeInv /\ created \in BOOLEAN
    BY <1>2
  <2>3. /\ script' \in Seq(Int) /\ base' \in Nat /\ serial' \in 0..MaxSerial
        /\ base' + Len(script') <= serial'
        /\ pre' = (IF created THEN 1 ELSE 2) /\ pre' \in 0..Len(script')
        /\ Len(script') = pre' + Len(stmts)
        /\ \A k \in 1..Len(stmts) : script'[pre' + k] = stmts[k]
        /\ \A i \in 1..pre' : script'[i] \in {Create, Use}
        /\ \A i \in 1..Len(script') : script'[i] = Use <=> i = pre'
        /\ \A i \in 1..Len(script') : script'[i] = Create => ~created
        /\ ran' = 0 /\ inside' = FALSE /\ out' = <<>> /\ reps' = <<>> /\ cur' = Blank
        /\ pc' = "start"
    BY <2>1, <2>2, Sent
  <2>4. 1 \in 1..Len(stmts)
    BY <2>1
  <2>5. script'[pre' + 1] = Stmt
    BY <2>1, <2>3, <2>4
  <2> QED BY <2>1, <2>3, <2>5
<1>4. /\ op' = "exec" /\ todo' = 0 /\ pc = "idle" /\ op = "none"
      /\ UNCHANGED <<path, created, stores, loads, promised, answer, fatal>>
  BY DEF Exec, ghost, TypeInv
<1>5. TypeInv'
  <2>1. /\ path' \in 0..MaxGen /\ created' \in BOOLEAN /\ loads' \in Nat
        /\ stores' \in [0..MaxGen -> StoreType]
        /\ promised' \in SUBSET (Nat \X Nat) /\ fatal' \in BOOLEAN
    BY <1>4 DEF TypeInv
  <2> QED BY <2>1, <1>3, <1>4, Begun
<1>6. Shape'
  BY <1>3, <1>4 DEF Shape
<1>7. Disk'
  BY <1>3, <1>4 DEF Disk, Busy
<1>8. Reading'
  BY <1>3 DEF Reading
<1>9. Answered'
  BY <1>4 DEF Answered, AnswersItsStatement, InsideTheGraph, AnsweredFromPromised
<1> QED BY <1>5, <1>6, <1>7, <1>8, <1>9

LEMMA ResetStep == ASSUME IInv, Reset PROVE IInv'
<1> USE DEF IInv
<1>1. <<Probe>> \in Seq(Int) /\ Len(<<Probe>>) = 1 /\ <<Probe>>[1] = Probe
      /\ \A k \in 1..Len(<<Probe>>) : <<Probe>>[k] \notin {Use, Create}
  BY DEF Probe, Use, Create
<1>2. created' = FALSE /\ Send(created', <<Probe>>)
  BY DEF Reset, Fresh
<1>3. /\ script' \in Seq(Int) /\ base' \in Nat /\ serial' \in 0..MaxSerial
      /\ base' + Len(script') <= serial'
      /\ pre' = 2 /\ pre' \in 0..Len(script')
      /\ Len(script') = pre' + 1
      /\ script'[pre' + 1] = Probe
      /\ \A i \in 1..pre' : script'[i] \in {Create, Use}
      /\ \A i \in 1..Len(script') : script'[i] = Use <=> i = pre'
      /\ ran' = 0 /\ inside' = FALSE /\ out' = <<>> /\ reps' = <<>> /\ cur' = Blank
      /\ pc' = "start"
  <2> DEFINE stmts == <<Probe>>
  <2>1. /\ stmts \in Seq(Int) /\ Len(stmts) = 1 /\ stmts[1] = Probe
        /\ \A k \in 1..Len(stmts) : stmts[k] \notin {Use, Create}
        /\ Send(created', stmts)
    BY <1>1, <1>2
  <2> HIDE DEF stmts
  <2>2. TypeInv /\ created' \in BOOLEAN
    BY <1>2
  <2>3. /\ script' \in Seq(Int) /\ base' \in Nat /\ serial' \in 0..MaxSerial
        /\ base' + Len(script') <= serial'
        /\ pre' = (IF created' THEN 1 ELSE 2) /\ pre' \in 0..Len(script')
        /\ Len(script') = pre' + Len(stmts)
        /\ \A k \in 1..Len(stmts) : script'[pre' + k] = stmts[k]
        /\ \A i \in 1..pre' : script'[i] \in {Create, Use}
        /\ \A i \in 1..Len(script') : script'[i] = Use <=> i = pre'
        /\ ran' = 0 /\ inside' = FALSE /\ out' = <<>> /\ reps' = <<>> /\ cur' = Blank
        /\ pc' = "start"
    BY <2>1, <2>2, Sent
  <2>4. 1 \in 1..Len(stmts)
    BY <2>1
  <2>5. script'[pre' + 1] = Probe
    BY <2>1, <2>3, <2>4
  <2> QED BY <1>2, <2>1, <2>3, <2>5
<1>4. /\ path' = path + 1 /\ path' \in 0..MaxGen /\ path \in 0..MaxGen
      /\ op' \in {"reset", "load"} /\ todo' \in Nat /\ loads' \in Nat
      /\ (op' = "reset" => todo' = 0)
      /\ UNCHANGED <<stores, promised, answer, fatal>>
  <2>1. path' = path + 1 /\ path' \in 0..MaxGen /\ path \in 0..MaxGen
    BY LadybugAssumption DEF Reset, Move, TypeInv
  <2>2. op' \in {"reset", "load"} /\ todo' \in Nat /\ loads' \in Nat /\ (op' = "reset" => todo' = 0)
    <3>1. loads \in Nat /\ Lengths \subseteq Nat
      BY LadybugAssumption DEF TypeInv
    <3>2. CASE op' = "reset" /\ todo' = 0 /\ loads' = loads
      BY <3>1, <3>2
    <3>3. CASE op' = "load" /\ todo' \in Lengths /\ loads' = loads + 1
      BY <3>1, <3>3
    <3> QED BY <3>2, <3>3 DEF Reset
  <2> QED BY <2>1, <2>2 DEF Reset
<1>5. TypeInv'
  <2>1. /\ created' \in BOOLEAN /\ stores' \in [0..MaxGen -> StoreType]
        /\ promised' \in SUBSET (Nat \X Nat) /\ fatal' \in BOOLEAN
    BY <1>2, <1>4 DEF TypeInv
  <2> QED BY <2>1, <1>3, <1>4, Begun
<1>6. Shape'
  BY <1>2, <1>3, <1>4 DEF Shape
<1>7. stores[path + 1] = Absent
  BY <1>4 DEF Disk
<1>8. Disk'
  BY <1>2, <1>3, <1>4, <1>7 DEF Disk, Busy, Absent
<1>9. Reading'
  BY <1>3 DEF Reading
<1>10. Answered'
  BY <1>4 DEF Answered, AnswersItsStatement, InsideTheGraph, AnsweredFromPromised
<1> QED BY <1>5, <1>6, <1>8, <1>9, <1>10

LEMMA StartStep == ASSUME IInv, Start PROVE IInv'
<1> USE DEF IInv
<1>1. CASE Fail(TRUE) /\ UNCHANGED <<fields, exchange, shell, reading, stores>>
  BY <1>1, Failing
<1>2. CASE /\ pc = "start" /\ pc' = "run"
           /\ UNCHANGED <<op, todo, ghost, fields, exchange, shell, reading, stores>>
  <2>1. /\ UNCHANGED <<path, created, serial, op, todo, script, base, pre, ran, inside, out,
                       reps, cur, stores, loads, promised, answer, fatal>>
        /\ pc = "start" /\ pc' = "run"
    BY <1>2 DEF fields, exchange, shell, reading, ghost
  <2>2. TypeInv'
    BY <2>1 DEF TypeInv
  <2>3. Shape'
    BY <2>1 DEF Shape, Busy
  <2>4. Disk'
    BY <2>1 DEF Disk, Busy
  <2>5. Reading'
    BY <2>1 DEF Reading, Sorted, Ahead, InStep, Blank
  <2>6. Answered'
    BY <2>1 DEF Answered, AnswersItsStatement, InsideTheGraph, AnsweredFromPromised
  <2> QED BY <2>2, <2>3, <2>4, <2>5, <2>6
<1> QED BY <1>1, <1>2 DEF Start

LEMMA EndStep == ASSUME IInv, End PROVE IInv'
<1> USE DEF IInv
<1>1. CASE (\E deadly \in BOOLEAN : Fail(deadly))
           /\ UNCHANGED <<fields, exchange, shell, reading, stores>>
  BY <1>1, Failing
<1>2. CASE /\ pc = "run" /\ pc' = "split"
           /\ UNCHANGED <<op, todo, ghost, fields, exchange, shell, reading, stores>>
  <2>1. /\ UNCHANGED <<path, created, serial, op, todo, script, base, pre, ran, inside, out,
                       reps, cur, stores, loads, promised, answer, fatal>>
        /\ pc = "run" /\ pc' = "split"
    BY <1>2 DEF fields, exchange, shell, reading, ghost
  <2>2. TypeInv'
    BY <2>1 DEF TypeInv
  <2>3. Shape'
    BY <2>1 DEF Shape, Busy
  <2>4. Disk'
    BY <2>1 DEF Disk, Busy
  <2>5. Sorted /\ Ahead /\ InStep
    BY <2>1 DEF Reading
  <2>6. Sorted' /\ Ahead' /\ InStep'
    <3>1. Sorted' /\ Ahead'
      BY <2>1, <2>5 DEF Sorted, Ahead
    <3>2. \A i : (Bad(i)' <=> Bad(i)) /\ (Marked(i)' <=> Marked(i)) /\ (Blamed(i)' <=> Blamed(i))
      BY <2>1 DEF Bad, Marked, Blamed
    <3> QED BY <2>1, <2>5, <3>1, <3>2 DEF InStep
  <2>7. Reading'
    BY <2>1, <2>6 DEF Reading
  <2>8. Answered'
    BY <2>1 DEF Answered, AnswersItsStatement, InsideTheGraph, AnsweredFromPromised
  <2> QED BY <2>2, <2>3, <2>4, <2>7, <2>8
<1> QED BY <1>1, <1>2 DEF End

LEMMA GivingUpStep == ASSUME IInv, Kill \/ Truncated \/ PreludeFailed PROVE IInv'
  BY Failing DEF Kill, Truncated, PreludeFailed

\* When there is a reply for every statement the replies are in step, and a
\* prelude whose replies hold has put the process inside the graph.
LEMMA PreludeDone ==
  ASSUME IInv, Complete, PreludeHeld
  PROVE  /\ Busy /\ InStep /\ inside /\ stores[path].graph
         /\ pre \in 1..Len(script) /\ Len(script) \in Nat
<1> USE DEF IInv
<1>1. Busy /\ Len(reps) = Len(script) /\ Len(script) \in Nat
  BY DEF Complete, Busy, TypeInv
<1>2. InStep
  BY <1>1 DEF Complete, Reading, Behind
<1>3. /\ pre = (IF created THEN 1 ELSE 2) /\ pre \in 1..Len(script)
      /\ script[pre] = Use
  BY <1>1 DEF Shape, TypeInv
<1>4. reps[pre].errs = {}
  BY <1>3 DEF PreludeHeld
<1>5. ~Bad(pre)
  BY <1>1, <1>2, <1>3, <1>4 DEF InStep
<1>6. inside
  BY <1>3, <1>5 DEF Bad
<1> QED BY <1>1, <1>2, <1>3, <1>6 DEF Disk

LEMMA AnswerStep == ASSUME IInv, Answer PROVE IInv'
<1> USE DEF IInv
<1>1. /\ Busy /\ InStep /\ inside /\ stores[path].graph
      /\ pre \in 1..Len(script) /\ Len(script) \in Nat
  BY PreludeDone DEF Answer
<1>2. /\ op = "exec" /\ op' = "none" /\ pc' = "idle" /\ created' = TRUE
      /\ Len(reps) = Len(script)
      /\ UNCHANGED <<path, serial, todo, script, base, pre, ran, inside, out, reps, cur,
                     stores, loads, promised, fatal>>
  BY DEF Answer, Complete, exchange, shell, reading
<1>3. answer' = [asked |-> Len(script), of |-> reps[Len(script)].of, inside |-> inside,
                 held |-> stores[path].parts, promised |-> promised]
  BY DEF Answer
<1>4. TypeInv'
  BY <1>2 DEF TypeInv
<1>5. Shape' /\ Reading'
  BY <1>2 DEF Shape, Reading, Busy
<1>6. Disk'
  BY <1>1, <1>2 DEF Disk, Busy
<1>7. Len(script) \in 1..Len(reps)
  BY <1>1, <1>2
<1>8. reps[Len(script)].of \subseteq {Len(script)}
  BY <1>1, <1>7 DEF InStep
<1>9. promised # Any => stores[path].parts = promised
  BY <1>2 DEF Disk
<1>10. Answered'
  BY <1>1, <1>3, <1>8, <1>9 DEF Answered, AnswersItsStatement, InsideTheGraph, AnsweredFromPromised,
     Any
<1> QED BY <1>4, <1>5, <1>6, <1>10

LEMMA OpenedStep == ASSUME IInv, Opened PROVE IInv'
<1> USE DEF IInv
<1>1. /\ Busy /\ InStep /\ inside /\ stores[path].graph
      /\ pre \in 1..Len(script) /\ Len(script) \in Nat
  BY PreludeDone DEF Opened
<1>2. /\ pc' = "remove" /\ created' = TRUE /\ pc = "split" /\ script[Len(script)] = Probe
      /\ UNCHANGED <<path, serial, op, todo, script, base, pre, ran, inside, out, reps, cur,
                     stores, loads, promised, answer, fatal>>
  BY DEF Opened, Complete, exchange, shell, reading, ghost
<1>3. op \in {"reset", "load"}
  BY <1>1, <1>2 DEF Shape, TypeInv, Probe, Stmt
<1>4. TypeInv'
  BY <1>2, <1>3 DEF TypeInv
<1>5. Shape' /\ Reading'
  BY <1>2 DEF Shape, Reading, Busy
<1>6. stores[path].parts = {}
  BY <1>1, <1>2, <1>3 DEF Disk
<1>7. Disk'
  BY <1>1, <1>2, <1>3, <1>6 DEF Disk, Busy
<1>8. Answered'
  BY <1>2 DEF Answered, AnswersItsStatement, InsideTheGraph, AnsweredFromPromised
<1> QED BY <1>4, <1>5, <1>7, <1>8

LEMMA LoadedStep == ASSUME IInv, Loaded PROVE IInv'
<1> USE DEF IInv
<1>1. /\ Busy /\ InStep /\ inside /\ stores[path].graph
      /\ pre \in 1..Len(script) /\ Len(script) \in Nat
  BY PreludeDone DEF Loaded
<1>2. /\ pc' = "idle" /\ op' = "none" /\ todo' = 0 /\ created' = TRUE
      /\ Len(reps) = Len(script) /\ script[Len(script)] \in Nat
      /\ UNCHANGED <<path, serial, script, base, pre, ran, inside, out, reps, cur,
                     stores, loads, answer>>
  BY DEF Loaded, Complete, exchange, shell, reading, Fail, Succeed
<1> DEFINE given == {<<loads, k>> : k \in 1..todo}
<1>3. /\ op = "load" /\ Len(script) = pre + todo /\ script[Len(script)] # Probe
      /\ \A k \in 1..todo : script[pre + k] = k
  BY <1>1, <1>2 DEF Shape, TypeInv, Probe, Stmt
<1>4. fatal' \in BOOLEAN /\ promised' \in {Any, given}
  BY <1>3 DEF Loaded, Fail, Succeed, TypeInv
<1>5. promised' # Any => stores[path].parts = given /\ promised' = given
  <2>1. SUFFICES ASSUME promised' # Any PROVE stores[path].parts = given /\ promised' = given
    OBVIOUS
  <2>2. ~PartRefused
    BY <2>1, <1>3 DEF Loaded, Fail
  <2>3. \A k \in 1..todo : <<loads, k>> \in stores[path].parts
    <3> TAKE k \in 1..todo
    <3>1. pre + k \in pre + 1 .. Len(script) /\ pre + k \in 1..Len(reps)
      BY <1>1, <1>2, <1>3 DEF TypeInv
    <3>2. reps[pre + k].errs = {}
      BY <2>2, <3>1 DEF PartRefused
    <3>3. ~Bad(pre + k)
      BY <1>1, <3>1, <3>2 DEF InStep
    <3>4. script[pre + k] = k /\ k \in Nat
      BY <1>3
    <3> QED BY <1>1, <3>3, <3>4 DEF Bad
  <2>4. stores[path].parts \subseteq given
    BY <1>1, <1>3 DEF Disk
  <2> QED BY <1>4, <2>1, <2>3, <2>4
<1>6. promised' \in SUBSET (Nat \X Nat)
  <2>1. given \in SUBSET (Nat \X Nat) /\ Any \in SUBSET (Nat \X Nat)
    BY DEF TypeInv, Any
  <2> QED BY <1>4, <2>1
<1>7. TypeInv'
  BY <1>2, <1>4, <1>6 DEF TypeInv
<1>8. Shape' /\ Reading'
  BY <1>2 DEF Shape, Reading, Busy
<1>9. Disk'
  BY <1>1, <1>2, <1>5 DEF Disk, Busy
<1>10. Answered'
  BY <1>2 DEF Answered, AnswersItsStatement, InsideTheGraph, AnsweredFromPromised
<1> QED BY <1>7, <1>8, <1>9, <1>10

LEMMA RemoveStep == ASSUME IInv, Remove PROVE IInv'
<1> USE DEF IInv
<1>1. CASE Fail(FALSE) /\ UNCHANGED <<fields, exchange, shell, reading, stores>>
  BY <1>1, Failing
<1> DEFINE Gone == stores' = [stores EXCEPT ![path - 1] = Absent]
<1>2. ASSUME pc = "remove", Gone
      PROVE  /\ stores' \in [0..MaxGen -> StoreType] /\ path \in 0..MaxGen
             /\ stores'[path] = stores[path] /\ stores[path].parts = {} /\ stores[path].graph
             /\ created = TRUE /\ op \in {"reset", "load"}
             /\ \A g \in path + 1 .. MaxGen : stores'[g] = Absent
  <2>1. path \in 0..MaxGen /\ stores \in [0..MaxGen -> StoreType] /\ created \in BOOLEAN
    BY DEF TypeInv
  <2>2. Absent \in StoreType
    BY DEF Absent, StoreType
  <2>3. stores' \in [0..MaxGen -> StoreType]
    BY <1>2, <2>1, <2>2
  <2>4. \A g \in path .. MaxGen : stores'[g] = stores[g]
    BY <1>2, <2>1, LadybugAssumption
  <2>5. /\ created /\ stores[path].graph /\ stores[path].parts = {} /\ op \in {"reset", "load"}
        /\ \A g \in path + 1 .. MaxGen : stores[g] = Absent
    BY <1>2 DEF Disk
  <2>6. created = TRUE
    BY <2>1, <2>5
  <2>7. path \in path..MaxGen /\ \A g \in path + 1 .. MaxGen : g \in path..MaxGen
    BY <2>1, LadybugAssumption
  <2> QED BY <2>1, <2>3, <2>4, <2>5, <2>6, <2>7
<1>3. CASE /\ pc = "remove" /\ Gone /\ todo = 0 /\ Succeed({})
           /\ UNCHANGED <<fields, exchange, shell, reading>>
  <2>1. /\ pc' = "idle" /\ op' = "none" /\ todo' = 0 /\ promised' = {}
        /\ UNCHANGED <<path, created, serial, script, base, pre, ran, inside, out, reps, cur,
                       loads, answer, fatal>>
    BY <1>3 DEF Succeed, fields, exchange, shell, reading
  <2>2. TypeInv'
    BY <1>2, <1>3, <2>1 DEF TypeInv
  <2>3. Shape' /\ Reading'
    BY <2>1 DEF Shape, Reading, Busy
  <2>4. Disk'
    BY <1>2, <1>3, <2>1 DEF Disk, Busy
  <2>5. Answered'
    BY <2>1 DEF Answered, AnswersItsStatement, InsideTheGraph, AnsweredFromPromised
  <2> QED BY <2>2, <2>3, <2>4, <2>5
<1>4. CASE /\ pc = "remove" /\ Gone /\ todo > 0 /\ Send(created, Parts(todo))
           /\ UNCHANGED <<path, created, op, todo, ghost>>
  <2>1. /\ UNCHANGED <<path, created, op, todo, loads, promised, answer, fatal>>
        /\ todo \in Nat /\ todo > 0
    BY <1>4 DEF ghost, TypeInv
  <2>2. op = "load" /\ created = TRUE
    BY <1>2, <1>4, <2>1 DEF Disk
  <2>3. /\ script' \in Seq(Int) /\ base' \in Nat /\ serial' \in 0..MaxSerial
        /\ base' + Len(script') <= serial'
        /\ pre' = 1 /\ pre' \in 0..Len(script')
        /\ Len(script') = pre' + todo
        /\ \A k \in 1..todo : script'[pre' + k] = k
        /\ \A i \in 1..pre' : script'[i] \in {Create, Use}
        /\ \A i \in 1..Len(script') : script'[i] = Use <=> i = pre'
        /\ \A i \in 1..Len(script') : script'[i] = Create => ~created
        /\ ran' = 0 /\ inside' = FALSE /\ out' = <<>> /\ reps' = <<>> /\ cur' = Blank
        /\ pc' = "start"
    <3> DEFINE stmts == Parts(todo)
    <3>1. /\ stmts \in Seq(Int) /\ Len(stmts) = todo /\ \A k \in 1..todo : stmts[k] = k
          /\ Send(created, stmts)
      BY <1>4, <2>1 DEF Parts
    <3> HIDE DEF stmts
    <3>2. \A k \in 1..Len(stmts) : stmts[k] \notin {Use, Create}
      BY <3>1, <2>1 DEF Use, Create
    <3>3. TypeInv /\ created \in BOOLEAN
      BY DEF TypeInv
    <3>4. /\ script' \in Seq(Int) /\ base' \in Nat /\ serial' \in 0..MaxSerial
          /\ base' + Len(script') <= serial'
          /\ pre' = (IF created THEN 1 ELSE 2) /\ pre' \in 0..Len(script')
          /\ Len(script') = pre' + Len(stmts)
          /\ \A k \in 1..Len(stmts) : script'[pre' + k] = stmts[k]
          /\ \A i \in 1..pre' : script'[i] \in {Create, Use}
          /\ \A i \in 1..Len(script') : script'[i] = Use <=> i = pre'
          /\ \A i \in 1..Len(script') : script'[i] = Create => ~created
          /\ ran' = 0 /\ inside' = FALSE /\ out' = <<>> /\ reps' = <<>> /\ cur' = Blank
          /\ pc' = "start"
      BY <3>1, <3>2, <3>3, Sent
    <3> QED BY <2>2, <3>1, <3>4
  <2>4. TypeInv'
    <3>1. /\ path' \in 0..MaxGen /\ created' \in BOOLEAN /\ loads' \in Nat /\ todo' \in Nat
          /\ op' \in {"exec", "reset", "load"}
          /\ promised' \in SUBSET (Nat \X Nat) /\ fatal' \in BOOLEAN
      BY <2>1, <2>2 DEF TypeInv
    <3>2. stores' \in [0..MaxGen -> StoreType]
      BY <1>2, <1>4
    <3> QED BY <2>3, <3>1, <3>2, Begun
  <2>5. Shape'
    BY <2>1, <2>2, <2>3 DEF Shape
  <2>6. Len(script') = 1 + todo /\ script'[Len(script')] = todo /\ todo # Probe
    BY <2>1, <2>3 DEF Probe
  <2>7. Disk'
    BY <1>2, <1>4, <2>1, <2>2, <2>3, <2>6 DEF Disk
  <2>8. Reading'
    BY <2>3 DEF Reading
  <2>9. Answered'
    BY <2>1 DEF Answered, AnswersItsStatement, InsideTheGraph, AnsweredFromPromised
  <2> QED BY <2>4, <2>5, <2>7, <2>8, <2>9
<1> QED BY <1>1, <1>3, <1>4 DEF Remove

\* The shell has run a statement: what it printed is behind what was printed
\* before, and a statement that did not do its work printed an error, if it
\* came to its marker at all.
LEMMA RunStatementStep == ASSUME IInv, RunStatement PROVE IInv'
<1> USE DEF IInv
<1>0. PICK n, stmt : n = ran + 1 /\ stmt = script[n]
  OBVIOUS
<1>1. PICK kind \in Kinds :
        /\ kind = "rows" => (stmt = Use => stores[path].graph)
        /\ stores' = IF kind = "rows" THEN Effect(stmt) ELSE [stores EXCEPT ![path].there = TRUE]
        /\ inside' = (inside \/ (stmt = Use /\ kind = "rows"))
        /\ \E printed \in Printed(kind) : out' = out \o printed
  BY <1>0 DEF RunStatement, Kinds
<1>2. /\ pc = "run" /\ ran < Len(script) /\ ran' = ran + 1
      /\ UNCHANGED <<path, created, serial, pc, op, todo, script, base, pre, reps, cur,
                     loads, promised, answer, fatal>>
  BY DEF RunStatement, fields, call, exchange, reading, ghost
<1>3. /\ ran \in Nat /\ Len(script) \in Nat /\ n \in 1..Len(script) /\ stmt \in Int /\ Busy
      /\ inside \in BOOLEAN /\ path \in 0..MaxGen /\ stores \in [0..MaxGen -> StoreType]
      /\ loads \in Nat /\ stmt = script[n] /\ n = ran + 1
  BY <1>0, <1>2 DEF TypeInv, Busy
<1>4. /\ stores' \in [0..MaxGen -> StoreType]
      /\ \A g \in 0..MaxGen \ {path} : stores'[g] = stores[g]
      /\ stores[path].graph => stores'[path].graph
      /\ stores'[path].parts =
           IF kind = "rows" /\ inside /\ stmt \in Nat
           THEN stores[path].parts \cup {<<loads, stmt>>} ELSE stores[path].parts
  <2>1. stores[path] \in StoreType
    BY <1>3
  <2>2. CASE kind = "rows"
    <3> DEFINE new == [there |-> TRUE, graph |-> stores[path].graph \/ stmt = Create,
                       parts |-> IF inside /\ stmt \in Nat
                                 THEN stores[path].parts \cup {<<loads, stmt>>}
                                 ELSE stores[path].parts]
    <3>1. stores' = [stores EXCEPT ![path] = new]
      BY <1>1, <2>2 DEF Effect
    <3>2. new.parts \in SUBSET (Nat \X Nat)
      BY <1>3, <2>1 DEF StoreType
    <3>3. new \in StoreType
      BY <1>3, <2>1, <3>2 DEF StoreType
    <3>4. stores'[path] = new /\ stores' \in [0..MaxGen -> StoreType]
      BY <1>3, <3>1, <3>3
    <3> QED BY <1>3, <2>2, <3>1, <3>4
  <2>3. CASE kind # "rows"
    <3> DEFINE new == [stores[path] EXCEPT !.there = TRUE]
    <3>1. stores' = [stores EXCEPT ![path] = new]
      BY <1>1, <2>3
    <3>2. new \in StoreType /\ new.graph = stores[path].graph /\ new.parts = stores[path].parts
      BY <2>1 DEF StoreType
    <3>3. stores'[path] = new /\ stores' \in [0..MaxGen -> StoreType]
      BY <1>3, <3>1, <3>2
    <3> QED BY <1>3, <2>3, <3>1, <3>2, <3>3
  <2> QED BY <2>2, <2>3
<1>5. /\ out' \in Seq(LineType) /\ Len(out) \in Nat /\ Len(out') \in Nat /\ Len(out) <= Len(out')
      /\ \A i \in 1..Len(out) : out'[i] = out[i]
      /\ Len(out') <= Len(out) + 2
      /\ Len(out') >= Len(out) + 1 => out'[Len(out) + 1].of = n
      /\ Len(out') = Len(out) + 2 \/ (Len(out') >= Len(out) + 1 /\ kind # "rows") =>
           out'[Len(out) + 1].kind = kind
      /\ Len(out') = Len(out) + 2 => out'[Len(out) + 2] = [of |-> n, kind |-> "marker"]
  <2>1. PICK printed \in Printed(kind) : out' = out \o printed
    BY <1>1
  <2>2. out \in Seq(LineType)
    BY DEF TypeInv
  <2>3. Line(kind) \in LineType /\ Line("marker") \in LineType
    BY <1>1, <1>3 DEF Line, LineType, Kinds
  <2>4. /\ printed \in Seq(LineType) /\ Len(printed) \in 0..2
        /\ Len(printed) >= 1 => printed[1].of = n
        /\ Len(printed) = 2 \/ (Len(printed) >= 1 /\ kind # "rows") => printed[1].kind = kind
        /\ Len(printed) = 2 => printed[2] = Line("marker")
    <3>1. CASE printed = <<>>
      BY <3>1, EmptyBuffers
    <3>2. CASE printed = <<Line(kind)>>
      BY <1>3, <2>3, <3>2 DEF Line
    <3>3. CASE printed = <<Line(kind), Line("marker")>>
      BY <1>3, <2>3, <3>3 DEF Line
    <3>4. CASE printed = <<Line("marker")>> /\ kind = "rows"
      BY <1>3, <2>3, <3>4 DEF Line
    <3> QED BY <2>1, <3>1, <3>2, <3>3, <3>4 DEF Printed
  <2>5. /\ out' \in Seq(LineType) /\ Len(out') = Len(out) + Len(printed)
        /\ \A i \in 1 .. Len(out) + Len(printed) : out'[i] =
               IF i <= Len(out) THEN out[i] ELSE printed[i - Len(out)]
    BY <2>1, <2>2, <2>4, ConcatProperties
  <2>6. Len(out) \in Nat
    BY <2>2
  <2>7. Len(printed) >= 1 => out'[Len(out) + 1] = printed[1]
    BY <2>4, <2>5, <2>6
  <2>8. Len(printed) = 2 => out'[Len(out) + 2] = printed[2]
    BY <2>4, <2>5, <2>6
  <2>9. \A i \in 1..Len(out) : out'[i] = out[i]
    BY <2>4, <2>5, <2>6
  <2>10. /\ Len(out') \in Nat /\ Len(out) <= Len(out') /\ Len(out') <= Len(out) + 2
         /\ (Len(out') >= Len(out) + 1 <=> Len(printed) >= 1)
         /\ (Len(out') = Len(out) + 2 <=> Len(printed) = 2)
    BY <2>4, <2>5, <2>6
  <2>11. Line("marker") = [of |-> n, kind |-> "marker"]
    BY <1>3 DEF Line
  <2> QED BY <2>4, <2>5, <2>6, <2>7, <2>8, <2>9, <2>10, <2>11
<1> DEFINE old == 1..Len(out)
<1>6. /\ \A j \in 1..Len(out') : j \in old \/ j = Len(out) + 1 \/ j = Len(out) + 2
      /\ \A j \in 1..Len(out') : j \notin old => out'[j].of = n
  BY <1>1, <1>5 DEF Kinds
<1>7. Sorted /\ Ahead /\ InStep /\ reps = <<>> /\ cur = Blank
  BY <1>2 DEF Reading
<1>8. \A j \in old : out[j].of \in 1..ran
  BY <1>7 DEF Sorted
<1>9. Sorted'
  <2>1. \A i \in 1..Len(out') : out'[i].of \in 1..ran'
    <3> TAKE i \in 1..Len(out')
    <3>1. CASE i \in old
      <4>1. out'[i].of \in 1..ran
        BY <1>5, <1>8, <3>1
      <4> QED BY <1>2, <1>3, <4>1
    <3>2. CASE i \notin old
      BY <1>2, <1>3, <1>6, <3>2
    <3> QED BY <3>1, <3>2
  <2>2. ASSUME NEW i \in 1..Len(out'), NEW j \in 1..Len(out'), i < j
        PROVE  out'[i].of <= out'[j].of /\ (out'[i].kind = "marker" => out'[i].of < out'[j].of)
    <3>1. CASE j \in old
      <4>1. i \in old
        BY <1>5, <2>2, <3>1
      <4> QED BY <1>5, <1>7, <2>2, <3>1, <4>1 DEF Sorted
    <3>2. CASE j \notin old /\ i \in old
      <4>1. out'[j].of = n /\ out'[i].of \in 1..ran
        BY <1>5, <1>6, <1>8, <3>2
      <4> QED BY <1>3, <4>1
    <3>3. CASE j \notin old /\ i \notin old
      <4>1. out'[i].of = n /\ out'[j].of = n
        BY <1>6, <3>3
      <4>2. i = Len(out) + 1 /\ Len(out') = Len(out) + 2
        BY <1>5, <1>6, <2>2, <3>3
      <4>3. out'[i].kind # "marker"
        BY <1>1, <1>5, <4>2 DEF Kinds
      <4> QED BY <1>3, <4>1, <4>3
    <3> QED BY <3>1, <3>2, <3>3
  <2> QED BY <2>1, <2>2 DEF Sorted
<1>10. Ahead'
  <2>1. Len(reps') = 0
    BY <1>2, <1>7
  <2> QED BY <1>9, <2>1, <1>2, <1>3 DEF Sorted, Ahead
<1>11. \A i \in 1..ran : Bad(i)' => Bad(i)
  <2> SUFFICES ASSUME NEW i \in 1..ran, Bad(i)' PROVE Bad(i)
    OBVIOUS
  <2>1. script' = script /\ loads' = loads /\ path' = path
    BY <1>2
  <2>2. CASE script[i] = Use /\ ~inside'
    BY <1>1, <1>3, <2>2 DEF Bad
  <2>3. CASE script[i] \in Nat /\ inside' /\ <<loads, script[i]>> \notin stores'[path].parts
    <3>1. <<loads, script[i]>> \notin stores[path].parts
      BY <1>4, <2>3
    <3>2. inside
      <4>1. SUFFICES ASSUME ~inside PROVE FALSE
        OBVIOUS
      <4>2. stmt = Use
        BY <1>1, <2>3, <4>1
      <4>3. n = pre
        BY <1>3, <4>2 DEF Shape
      <4>4. i \in 1..pre
        BY <1>3, <4>3
      <4>5. script[i] \in {Create, Use}
        BY <1>3, <4>4 DEF Shape
      <4> QED BY <2>3, <4>5 DEF Create, Use
    <3> QED BY <2>3, <3>1, <3>2 DEF Bad
  <2> QED BY <2>1, <2>2, <2>3 DEF Bad
<1>12. \A i \in 1..ran : (Marked(i)' => Marked(i)) /\ (Blamed(i) => Blamed(i)')
  <2> TAKE i \in 1..ran
  <2>1. ASSUME Marked(i)' PROVE Marked(i)
    <3>1. PICK j \in 1..Len(out') : out'[j].of = i /\ out'[j].kind = "marker"
      BY <2>1 DEF Marked
    <3>2. j \in old
      BY <1>3, <1>6, <3>1
    <3> QED BY <1>5, <3>1, <3>2 DEF Marked
  <2>2. ASSUME Blamed(i) PROVE Blamed(i)'
    <3>1. PICK j \in old : out[j].of = i /\ out[j].kind \in {"exists", "error"}
      BY <2>2 DEF Blamed
    <3>2. j \in 1..Len(out') /\ out'[j] = out[j]
      BY <1>5
    <3> QED BY <3>1, <3>2 DEF Blamed
  <2> QED BY <2>1, <2>2
<1>13. Bad(n)' /\ Marked(n)' => Blamed(n)'
  <2> SUFFICES ASSUME Bad(n)', Marked(n)' PROVE Blamed(n)'
    OBVIOUS
  <2>1. PICK j \in 1..Len(out') : out'[j].of = n /\ out'[j].kind = "marker"
    BY DEF Marked
  <2>2. j \notin old
    BY SMTT(20), <1>3, <1>5, <1>8, <2>1
  <2>3. Len(out) + 1 \in 1..Len(out') /\ Len(out') >= Len(out) + 1 /\ out'[Len(out) + 1].of = n
    BY <1>5, <1>6, <2>1, <2>2
  <2>4. kind # "rows"
    <3>1. SUFFICES ASSUME kind = "rows" PROVE FALSE
      OBVIOUS
    <3>2. script'[n] = stmt /\ loads' = loads /\ path' = path
      BY <1>2, <1>3
    <3>3. CASE stmt = Use /\ ~inside'
      BY <1>1, <3>1, <3>3
    <3>4. CASE stmt \in Nat /\ inside' /\ <<loads, stmt>> \notin stores'[path].parts
      <4>1. stmt # Use
        BY <3>4 DEF Use
      <4>2. inside
        BY <1>1, <3>4, <4>1
      <4> QED BY <1>4, <3>1, <3>4, <4>2
    <3> QED BY <3>2, <3>3, <3>4 DEF Bad
  <2>5. kind \in {"exists", "error"}
    BY <2>4, <1>1 DEF Kinds
  <2>6. out'[Len(out) + 1].kind = kind
    BY <1>5, <2>3, <2>4
  <2> QED BY <2>3, <2>5, <2>6 DEF Blamed
<1>14. InStep'
  <2>1. reps' = <<>> /\ cur' = Blank /\ Len(reps') = 0 /\ Len(reps) = 0 /\ cur.errs = {} /\ cur.of = {}
    BY <1>2, <1>7 DEF Blank
  <2>2. \A i \in 1..ran' : Bad(i)' /\ Marked(i)' => Blamed(i)'
    <3> SUFFICES ASSUME NEW i \in 1..ran', Bad(i)', Marked(i)' PROVE Blamed(i)'
      OBVIOUS
    <3>1. CASE i = n
      BY <1>13, <3>1
    <3>2. CASE i # n
      <4>1. i \in 1..ran
        BY <1>2, <1>3, <3>2
      <4>2. Blamed(i)
        BY <1>7, <1>11, <1>12, <2>1, <4>1 DEF InStep
      <4> QED BY <1>12, <4>1, <4>2
    <3> QED BY <3>1, <3>2
  <2>3. cur'.of = {}
    BY <2>1, <1>2
  <2> QED BY <2>1, <2>2, <2>3 DEF InStep
<1>15. TypeInv'
  <2>1. inside' \in BOOLEAN
    BY <1>1, <1>3
  <2>2. ran' \in 0..Len(script')
    BY <1>2, <1>3
  <2> QED BY <1>2, <1>4, <1>5, <2>1, <2>2 DEF TypeInv
<1>16. Shape'
  BY <1>2 DEF Shape, Busy
<1>17. Disk'
  <2>1. Busy' /\ Busy
    BY <1>2, <1>3 DEF Busy
  <2>2. created' \/ (Busy' /\ inside') => stores'[path'].graph
    BY <1>1, <1>2, <1>3, <1>4 DEF Disk
  <2>3. \A g \in path' + 1 .. MaxGen : stores'[g] = Absent
    BY <1>2, <1>3, <1>4, LadybugAssumption DEF Disk
  <2>4. op \in {"none", "exec"} => stores'[path].parts = stores[path].parts
    <3>1. SUFFICES ASSUME op \in {"none", "exec"}, stmt \in Nat PROVE FALSE
      BY <1>4
    <3>2. op = "exec" /\ Len(script) = pre + 1 /\ script[Len(script)] = Stmt
      BY <1>2, <1>3, <3>1 DEF Shape, TypeInv
    <3>3. n \in 1..pre \/ n = Len(script)
      BY <1>3, <3>2 DEF TypeInv
    <3> QED BY <1>3, <3>1, <3>2, <3>3 DEF Shape, Stmt, Create, Use
  <2>5. ASSUME op \in {"reset", "load"}
        PROVE  stores'[path].parts \subseteq
                 IF script[Len(script)] = Probe THEN {} ELSE {<<loads, k>> : k \in 1..todo}
    <3>1. CASE stmt \notin Nat
      BY <1>3, <1>4, <2>5, <3>1 DEF Disk
    <3>2. CASE stmt \in Nat
      <4>1. n \notin 1..pre
        BY <1>3, <3>2 DEF Shape, Create, Use
      <4>2. pre \in Nat /\ n > pre
        BY <1>3, <4>1 DEF TypeInv
      <4>3. ~(Len(script) = pre + 1 /\ script[Len(script)] = Probe)
        BY <1>3, <3>2, <4>2 DEF Probe
      <4>4. /\ Len(script) = pre + todo /\ \A k \in 1..todo : script[pre + k] = k
            /\ todo > 0 /\ todo \in Nat
        BY <1>3, <2>5, <4>3 DEF Shape, TypeInv
      <4>5. n - pre \in 1..todo /\ stmt = n - pre /\ script[Len(script)] # Probe
        <5>1. n - pre \in 1..todo /\ pre + (n - pre) = n
          BY <1>3, <4>2, <4>4
        <5>2. todo \in 1..todo /\ Len(script) = pre + todo
          BY <4>4
        <5>3. script[pre + (n - pre)] = n - pre /\ script[pre + todo] = todo
          BY <4>4, <5>1, <5>2
        <5> QED BY <1>3, <4>4, <5>1, <5>2, <5>3 DEF Probe
      <4> QED BY <1>3, <1>4, <2>5, <4>5 DEF Disk
    <3> QED BY <3>1, <3>2
  <2> QED BY <1>2, <2>1, <2>2, <2>3, <2>4, <2>5 DEF Disk
<1>18. Reading'
  BY <1>2, <1>7, <1>9, <1>10, <1>14 DEF Reading
<1>19. Answered'
  BY <1>2 DEF Answered, AnswersItsStatement, InsideTheGraph, AnsweredFromPromised
<1> QED BY <1>15, <1>16, <1>17, <1>18, <1>19

\* What a turn of the loop that reads the output leaves alone.
LEMMA Onward ==
  ASSUME IInv, pc = "split", TypeInv', Sorted', Ahead', InStep' \/ Behind',
         UNCHANGED <<path, created, serial, pc, op, todo, script, base, pre, ran, inside,
                     stores, loads, promised, answer, fatal>>
  PROVE  IInv'
<1>1. Shape'
  BY DEF IInv, Shape, Busy
<1>2. Disk'
  BY DEF IInv, Disk, Busy
<1>3. Reading'
  BY DEF Reading
<1>4. Answered'
  BY DEF IInv, Answered, AnswersItsStatement, InsideTheGraph, AnsweredFromPromised
<1> QED BY <1>1, <1>2, <1>3, <1>4 DEF IInv

\* One line of the output has been read: the replies stay in step, or the
\* output will have ended before the last marker is found.
LEMMA ScanStep == ASSUME IInv, Scan PROVE IInv'
<1> USE DEF IInv
<1>1. PICK line, n : line = out[1] /\ n = Len(reps) + 1
  OBVIOUS
<1>2. /\ pc = "split" /\ Len(reps) < Len(script) /\ out # <<>> /\ out' = Tail(out)
      /\ UNCHANGED <<path, created, serial, pc, op, todo, script, base, pre, ran, inside,
                     stores, loads, promised, answer, fatal>>
  BY DEF Scan, fields, call, exchange, ghost
<1>3. /\ out \in Seq(LineType) /\ reps \in Seq(ReplyType) /\ cur \in ReplyType
      /\ ran \in Nat /\ Len(script) \in Nat /\ ran <= Len(script) /\ base \in Nat
      /\ base + Len(script) <= MaxSerial /\ MaxSerial \in Nat
  BY LadybugAssumption DEF TypeInv
<1>4. /\ out' \in Seq(LineType) /\ Len(out) \in Nat /\ Len(out) >= 1
      /\ Len(out') = Len(out) - 1 /\ 1 \in 1..Len(out) /\ line = Head(out) /\ line \in LineType
      /\ \A j \in 1..Len(out') : j + 1 \in 1..Len(out) /\ out'[j] = out[j + 1]
  BY <1>1, <1>2, <1>3
<1>5. /\ Len(reps) \in Nat /\ n \in 1..Len(script) /\ n = Len(reps) + 1
  BY <1>1, <1>2, <1>3
<1>6. Sorted /\ Ahead
  BY <1>2 DEF Reading
<1>7. line.of \in 1..ran /\ line.of >= n
  BY <1>1, <1>4, <1>5, <1>6 DEF Sorted, Ahead
<1>8. \A j \in 1..Len(out') :
        line.of <= out'[j].of /\ (line.kind = "marker" => line.of < out'[j].of)
  <2> TAKE j \in 1..Len(out')
  <2>1. j + 1 \in 1..Len(out) /\ 1 < j + 1 /\ out'[j] = out[j + 1]
    BY <1>4
  <2> QED BY <1>1, <1>4, <1>6, <2>1 DEF Sorted
<1>9. Sorted'
  <2>1. \A j \in 1..Len(out') : out'[j].of \in 1..ran'
    BY <1>2, <1>4, <1>6 DEF Sorted
  <2>2. ASSUME NEW i \in 1..Len(out'), NEW j \in 1..Len(out'), i < j
        PROVE  out'[i].of <= out'[j].of /\ (out'[i].kind = "marker" => out'[i].of < out'[j].of)
    <3>1. /\ i + 1 \in 1..Len(out) /\ j + 1 \in 1..Len(out) /\ i + 1 < j + 1
          /\ out'[i] = out[i + 1] /\ out'[j] = out[j + 1]
      BY <1>4, <2>2
    <3> QED BY <1>6, <3>1 DEF Sorted
  <2> QED BY <2>1, <2>2 DEF Sorted
<1>10. \A i \in Nat : (Bad(i)' <=> Bad(i)) /\ (Marked(i)' => Marked(i))
                      /\ (Blamed(i) /\ (i # line.of \/ line.kind \notin {"exists", "error"}) => Blamed(i)')
  <2> TAKE i \in Nat
  <2>1. Bad(i)' <=> Bad(i)
    BY <1>2 DEF Bad
  <2>2. Marked(i)' => Marked(i)
    BY <1>4 DEF Marked
  <2>3. ASSUME Blamed(i), i # line.of \/ line.kind \notin {"exists", "error"} PROVE Blamed(i)'
    <3>1. PICK j \in 1..Len(out) : out[j].of = i /\ out[j].kind \in {"exists", "error"}
      BY <2>3 DEF Blamed
    <3>2. j # 1
      BY <1>1, <2>3, <3>1
    <3>3. j - 1 \in 1..Len(out') /\ out'[j - 1] = out[j]
      <4>1. j - 1 \in 1..Len(out') /\ (j - 1) + 1 = j
        BY <1>4, <3>2
      <4> QED BY <1>4, <4>1
    <3> QED BY <3>1, <3>3 DEF Blamed
  <2> QED BY <2>1, <2>2, <2>3
<1>11. CASE Marks(line)
  <2>1. reps' = Append(reps, cur) /\ cur' = Blank /\ line.kind = "marker"
    BY <1>4, <1>11 DEF Scan, Marks, NextReply
  <2>2. /\ reps' \in Seq(ReplyType) /\ Len(reps') = n /\ reps'[n] = cur
        /\ \A i \in 1..Len(reps) : reps'[i] = reps[i]
        /\ \A i \in 1..n : i \in 1..Len(reps) \/ i = n
    BY <1>3, <1>5, <2>1
  <2>3. TypeInv'
    <3>1. cur' \in ReplyType
      BY <2>1, EmptyBuffers
    <3>2. Len(reps') <= Len(script')
      BY <1>2, <1>5, <2>2
    <3> QED BY <1>2, <1>4, <2>2, <3>1, <3>2 DEF TypeInv
  <2>4. Ahead'
    <3>1. \A j \in 1..Len(out') : out'[j].of > line.of /\ out'[j].of \in Nat
      BY <1>4, <1>7, <1>8, <1>9, <2>1 DEF Sorted
    <3> QED BY <1>5, <1>7, <2>2, <3>1 DEF Ahead
  <2>5. CASE InStep /\ line.of = n
    <3>1. Marked(n) /\ n \in n..ran
      BY <1>1, <1>4, <1>5, <1>7, <2>1, <2>5 DEF Marked
    <3>2. ~Blamed(n)
      <4>1. SUFFICES ASSUME NEW j \in 1..Len(out), out[j].of = n, out[j].kind \in {"exists", "error"}
            PROVE  FALSE
        BY DEF Blamed
      <4>2. j # 1 /\ 1 < j
        BY <1>1, <1>4, <2>1, <4>1
      <4>3. out[1].of < out[j].of
        BY <1>1, <1>4, <1>6, <2>1, <4>2 DEF Sorted
      <4> QED BY <1>1, <1>5, <2>5, <4>1, <4>3
    <3>3. Bad(n) => cur.errs # {}
      BY <1>5, <2>5, <3>1, <3>2 DEF InStep
    <3>4. cur.of \subseteq {n}
      BY <1>5, <2>5 DEF InStep
    <3>5. \A i \in 1..Len(reps') : reps'[i].of \subseteq {i} /\ (Bad(i)' => reps'[i].errs # {})
      <4> TAKE i \in 1..Len(reps')
      <4>1. CASE i = n
        BY <1>5, <1>10, <2>2, <3>3, <3>4, <4>1
      <4>2. CASE i \in 1..Len(reps)
        BY <1>10, <2>2, <2>5, <4>2 DEF InStep
      <4> QED BY <2>2, <4>1, <4>2
    <3>6. \A i \in Len(reps') + 1 .. ran' : Bad(i)' /\ Marked(i)' => Blamed(i)'
      <4> TAKE i \in Len(reps') + 1 .. ran'
      <4>1. i \in Len(reps) + 1 .. ran /\ i # n /\ i \in Nat
        BY <1>2, <1>3, <1>5, <2>2
      <4>2. Bad(i) /\ Marked(i) => Blamed(i)
        BY <1>5, <2>5, <4>1 DEF InStep
      <4> QED BY <1>10, <2>5, <4>1, <4>2
    <3>7. cur'.of = {}
      BY <2>1 DEF Blank
    <3>8. InStep'
      BY <3>5, <3>6, <3>7 DEF InStep
    <3> QED BY <1>2, <1>9, <2>3, <2>4, <3>8, Onward
  <2>6. CASE line.of > n \/ Behind
    <3>1. line.of > n
      BY <1>1, <1>4, <1>5, <2>6 DEF Behind
    <3>2. Len(reps') < Len(script')
      BY <1>2, <1>3, <1>5, <1>7, <2>2, <3>1
    <3>3. \A j \in 1..Len(out') : out'[j].of > line.of /\ out'[j].of \in Nat
      BY <1>4, <1>7, <1>8, <1>9, <2>1 DEF Sorted
    <3>4. \A j \in 1..Len(out') : out'[j].of > Len(reps') + 1
      BY <1>5, <1>7, <2>2, <3>1, <3>3
    <3>5. Behind'
      BY <3>2, <3>4 DEF Behind
    <3> QED BY <1>2, <1>9, <2>3, <2>4, <3>5, Onward
  <2>7. InStep \/ Behind
    BY <1>2 DEF Reading
  <2>8. line.of = n \/ line.of > n
    BY <1>5, <1>7
  <2> QED BY <2>5, <2>6, <2>7, <2>8
<1>12. CASE ~Marks(line)
  <2>1. /\ reps' = reps
        /\ cur' = [of |-> cur.of \cup {line.of}, errs |-> cur.errs \cup ({line.kind} \ {"rows", "marker"})]
    BY <1>4, <1>12 DEF Scan
  <2>2. TypeInv'
    <3>1. line.of \in Nat /\ {line.kind} \ {"rows", "marker"} \in SUBSET Kinds
      BY <1>4 DEF LineType, Kinds
    <3>2. cur' \in ReplyType
      BY <1>3, <2>1, <3>1 DEF ReplyType
    <3> QED BY <1>2, <1>4, <2>1, <3>2 DEF TypeInv
  <2>3. Ahead'
    BY <1>4, <1>6, <2>1 DEF Ahead
  <2>4. CASE InStep /\ line.of = n
    <3>1. line.kind # "marker"
      <4>1. base + n \in 1..MaxSerial
        BY <1>3, <1>5
      <4>2. Occurs(base + n, base + n)
        BY <4>1, LadybugAssumption
      <4>3. base + Len(reps) + 1 = base + n
        BY <1>3, <1>5
      <4> QED BY <1>12, <2>4, <4>2, <4>3 DEF Marks
    <3>2. cur'.of \subseteq {Len(reps') + 1}
      BY <1>5, <2>1, <2>4 DEF InStep
    <3>3. ASSUME NEW i \in Len(reps') + 1 .. ran', Bad(i)', Marked(i)'
          PROVE  Blamed(i)' \/ (i = Len(reps') + 1 /\ cur'.errs # {})
      <4>1. i \in Len(reps) + 1 .. ran /\ i \in Nat
        BY <1>2, <1>3, <1>5, <2>1
      <4>2. Blamed(i) \/ (i = n /\ cur.errs # {})
        BY <1>5, <1>10, <2>4, <3>3, <4>1 DEF InStep
      <4>3. CASE i = n /\ cur.errs # {}
        BY <1>5, <2>1, <4>3
      <4>4. CASE Blamed(i) /\ (i # line.of \/ line.kind \notin {"exists", "error"})
        BY <1>10, <4>1, <4>4
      <4>5. CASE i = line.of /\ line.kind \in {"exists", "error"}
        <5>1. line.kind \in cur'.errs
          BY <2>1, <4>5
        <5> QED BY <1>5, <2>1, <2>4, <4>5, <5>1
      <4> QED BY <4>2, <4>3, <4>4, <4>5
    <3>4. \A i \in 1..Len(reps') : reps'[i].of \subseteq {i} /\ (Bad(i)' => reps'[i].errs # {})
      BY <1>10, <2>1, <2>4 DEF InStep
    <3>5. InStep'
      BY <3>2, <3>3, <3>4 DEF InStep
    <3> QED BY <1>2, <1>9, <2>2, <2>3, <3>5, Onward
  <2>5. CASE line.of > n \/ Behind
    <3>1. line.of > n
      BY <1>1, <1>4, <1>5, <2>5 DEF Behind
    <3>2. \A j \in 1..Len(out') : out'[j].of >= line.of /\ out'[j].of \in Nat
      BY <1>4, <1>7, <1>8, <1>9 DEF Sorted
    <3>3. \A j \in 1..Len(out') : out'[j].of > Len(reps') + 1
      BY <1>5, <1>7, <2>1, <3>1, <3>2
    <3>4. Behind'
      BY <1>2, <2>1, <3>3 DEF Behind
    <3> QED BY <1>2, <1>9, <2>2, <2>3, <3>4, Onward
  <2>6. InStep \/ Behind
    BY <1>2 DEF Reading
  <2>7. line.of = n \/ line.of > n
    BY <1>5, <1>7
  <2> QED BY <2>4, <2>5, <2>6, <2>7
<1> QED BY <1>11, <1>12

-----------------------------------------------------------------------------
(***************************************************************************)
(* The theorems                                                            *)
(***************************************************************************)

\* A step in which nothing happens.
LEMMA StutterStep == ASSUME IInv, UNCHANGED vars PROVE IInv'
<1> USE DEF IInv
<1>1. UNCHANGED <<path, created, serial, pc, op, todo, script, base, pre, ran, inside, out,
                  reps, cur, stores, loads, promised, answer, fatal>>
  BY DEF vars, fields, call, exchange, shell, reading, ghost
<1>2. TypeInv'
  BY <1>1 DEF TypeInv
<1>3. Shape' /\ Disk'
  BY <1>1 DEF Shape, Disk, Busy
<1>4. (Sorted' <=> Sorted) /\ (Ahead' <=> Ahead) /\ (Behind' <=> Behind)
  BY <1>1 DEF Sorted, Ahead, Behind
<1>5. \A i : (Bad(i)' <=> Bad(i)) /\ (Marked(i)' <=> Marked(i)) /\ (Blamed(i)' <=> Blamed(i))
  BY <1>1 DEF Bad, Marked, Blamed
<1>6. InStep => InStep'
  BY <1>1, <1>5 DEF InStep
<1>7. Reading'
  BY <1>1, <1>4, <1>6 DEF Reading
<1>8. Answered'
  BY <1>1 DEF Answered, AnswersItsStatement, InsideTheGraph, AnsweredFromPromised
<1> QED BY <1>2, <1>3, <1>7, <1>8

\* The invariant is kept by every step.
LEMMA Inductive == ASSUME IInv, [Next]_vars PROVE IInv'
<1>1. CASE Exec
  BY <1>1, ExecStep
<1>2. CASE Reset
  BY <1>2, ResetStep
<1>3. CASE Start
  BY <1>3, StartStep
<1>4. CASE RunStatement
  BY <1>4, RunStatementStep
<1>5. CASE End
  BY <1>5, EndStep
<1>6. CASE Scan
  BY <1>6, ScanStep
<1>7. CASE Kill \/ Truncated \/ PreludeFailed
  BY <1>7, GivingUpStep
<1>8. CASE Answer
  BY <1>8, AnswerStep
<1>9. CASE Opened
  BY <1>9, OpenedStep
<1>10. CASE Remove
  BY <1>10, RemoveStep
<1>11. CASE Loaded
  BY <1>11, LoadedStep
<1>12. CASE UNCHANGED vars
  BY <1>12, StutterStep
<1> QED
  BY <1>1, <1>2, <1>3, <1>4, <1>5, <1>6, <1>7, <1>8, <1>9, <1>10, <1>11, <1>12
  DEF Next, Caller, Shell, Reader

\* Where a session's calls can bring it (session, runLocked, split).
THEOREM Invariance == Spec => []IInv
  BY Initially, Inductive, PTL DEF Spec

\* The fields of the session keep to their values through every failure, a
\* graph it believes in is in its store, and no store is ahead of it.
THEOREM TypeCorrect == Spec => []TypeOK
<1>1. IInv => TypeOK
  BY DEF IInv, TypeInv, Disk, TypeOK
<1> QED BY <1>1, Invariance, PTL

\* split: whatever part of the output was lost, and whatever markers are part
\* of one another, a reply returned is that of the statement asked.
THEOREM ReplyIsOfStatement == Spec => []AnswersItsStatement
<1>1. IInv => AnswersItsStatement
  BY DEF IInv, Answered
<1> QED BY <1>1, Invariance, PTL

\* batchLocked: no statement is answered from the graph a shell opens with.
THEOREM AnsweredInGraph == Spec => []InsideTheGraph
<1>1. IInv => InsideTheGraph
  BY DEF IInv, Answered
<1> QED BY <1>1, Invariance, PTL

\* Load and Reset: what they return without an error has made is what the
\* statements after it are put to.
THEOREM PromiseKept == Spec => []AnsweredFromPromised
<1>1. IInv => AnsweredFromPromised
  BY DEF IInv, Answered
<1> QED BY <1>1, Invariance, PTL
=============================================================================
