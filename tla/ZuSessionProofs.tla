--------------------------- MODULE ZuSessionProofs ---------------------------
(***************************************************************************)
(* Whose answer is whose and which graph it is from, for any number of     *)
(* statements, restarts and loads.                                         *)
(***************************************************************************)
EXTENDS ZuSession, TLAPS

\* At most one line is under way, the one that is waited for.
OneLine(line) ==
  \/ todo = <<line>> /\ pipe = <<>> /\ chan \in {NoLine, Eof}
  \/ todo = <<>> /\ pipe = <<line>> /\ chan \in {NoLine, Eof}
  \/ todo = <<>> /\ pipe = <<>> /\ chan \in {NoLine, Eof, line}
InFlight ==
  /\ pc \notin {"greet", "await"} => todo = <<>> /\ pipe = <<>>
  /\ pc = "greet" => OneLine(Hello)
  /\ pc = "await" => OneLine(ask)

\* Where a call is, and what is running then.
Control ==
  /\ pc \in {"greet", "write", "await"} => cmd # Nil
  /\ pc \in {"stage", "convert", "start"} => cmd = Nil
  /\ load # Nil <=> pc = "convert"
  /\ pc \in {"stage", "convert"} => op = "load"
  /\ pc \in {"write", "await", "idle"} => op # "load"
  /\ pc \in {"start", "greet"} /\ op = "load" => file = loads
  /\ op = "load" => promised = Any
  /\ pc = "await" => ask > 0
  /\ closed => pc = "idle" /\ cmd = Nil

\* A shell serves what a new one would, and that is what was promised.
Promise ==
  /\ cmd # Nil => serving = Served /\ (onFile <=> file # NoFile)
  /\ promised # Any => Served = promised

IInv ==
  /\ TypeOK /\ InFlight /\ Control /\ OneProcess /\ Promise
  /\ AnswersItsQuestion /\ AnsweredFromPromised

\* A sequence of at most one line is one.
LEMMA ShortSeq ==
  ASSUME NEW n \in Nat, NEW line \in 0..n
  PROVE  <<>> \in Seq(0..n) /\ <<line>> \in Seq(0..n)
OBVIOUS

\* Before the first call nothing is running and nothing is promised but the
\* empty graph.
LEMMA InitInv == Init => IInv
<1> SUFFICES ASSUME Init PROVE IInv OBVIOUS
<1>1. TypeOK
  <2>1. <<>> \in Seq(0..ask) /\ 0..0 = {0} OBVIOUS
  <2>2. ask = 0 /\ born = 0 /\ loads = 0 /\ todo = <<>> /\ pipe = <<>> BY DEF Init
  <2>3. closed \in BOOLEAN /\ onFile \in BOOLEAN /\ panicked \in BOOLEAN /\ polling \in BOOLEAN
    BY DEF Init
  <2> QED BY <2>1, <2>2, <2>3 DEF Init, TypeOK, Nil, Empty
<1>2. InFlight BY DEF Init, InFlight
<1>3. Control BY DEF Init, Control
<1>4. OneProcess BY DEF Init, OneProcess
<1>5. Promise BY DEF Init, Promise, Served
<1>6. AnswersItsQuestion /\ AnsweredFromPromised
  BY DEF Init, AnswersItsQuestion, AnsweredFromPromised
<1> QED BY <1>1, <1>2, <1>3, <1>4, <1>5, <1>6 DEF IInv

\* Every step keeps the invariant.
LEMMA NextInv == IInv /\ [Next]_vars => IInv'
<1> SUFFICES ASSUME IInv, [Next]_vars PROVE IInv' OBVIOUS
<1> USE DEF IInv
<1>1. CASE Call
  <2>1. InFlight'
    BY <1>1 DEF Call, InFlight, process
  <2>2. TypeOK'
    BY <1>1 DEF Call, reading, TypeOK, Empty, Broken, Any, fields, process
  <2>3. Control'
    BY <1>1 DEF Call, Control, fields
  <2>4. OneProcess'
    BY <1>1 DEF Call, OneProcess, fields, process
  <2>5. Promise'
    BY <1>1 DEF Call, Promise, Served, fields, process
  <2>6. AnswersItsQuestion'
    BY <1>1 DEF Call, AnswersItsQuestion
  <2>7. AnsweredFromPromised'
    BY <1>1 DEF Call, AnsweredFromPromised
  <2> QED BY <2>1, <2>2, <2>3, <2>4, <2>5, <2>6, <2>7
<1>2. CASE Load
  <2>1. InFlight'
    BY <1>2 DEF Load, StopForLoad, Stop, InFlight
  <2>2. TypeOK'
    BY <1>2 DEF Load, StopForLoad, Stop, reading, TypeOK, Nil
  <2>3. Control'
    BY <1>2 DEF Load, Stop, Control, StopForLoad
  <2>4. OneProcess'
    BY <1>2 DEF Load, Stop, OneProcess, StopForLoad
  <2>5. Promise'
    BY <1>2 DEF Load, StopForLoad, Stop, Promise
  <2>6. AnswersItsQuestion'
    BY <1>2 DEF Load, AnswersItsQuestion
  <2>7. AnsweredFromPromised'
    BY <1>2 DEF Load, AnsweredFromPromised
  <2> QED BY <2>1, <2>2, <2>3, <2>4, <2>5, <2>6, <2>7
<1>3. CASE Staged
  <2>1. InFlight'
    BY <1>3 DEF Staged, InFlight, Return
  <2>2. TypeOK'
    <3>0. ask' \in Nat BY <1>3 DEF Staged, reading, TypeOK
    <3>1. todo' \in Seq(0..ask') /\ pipe' \in Seq(0..ask')
      <4>1. /\ todo' \in {<<>>, <<0>>, <<ask'>>}
            /\ pipe' \in {<<>>, <<0>>, <<ask'>>}
        BY <2>1 DEF InFlight, OneLine, Hello
      <4>2. /\ <<>> \in Seq(0..ask') /\ <<0>> \in Seq(0..ask')
            /\ <<ask'>> \in Seq(0..ask')
        <5>1. 0 \in 0..ask' /\ ask' \in 0..ask' BY <3>0
        <5> QED BY <3>0, <5>1, ShortSeq
      <4> QED BY <4>1, <4>2
    <3>2. readers' \subseteq [ask : 1..ask', of : 1..born', out : 0..born']
      BY <1>3 DEF Staged, reading, TypeOK
    <3>3. /\ pc' \in {"idle", "stage", "start", "greet", "write", "await", "convert"}
          /\ op' \in {"none", "exec", "cut", "reset", "load"}
      BY <1>3 DEF Staged, Return, TypeOK
    <3>4. cmd' \in 0..born' /\ out' = cmd' /\ load' \in 0..born' /\ closed' \in BOOLEAN
      BY <1>3 DEF Staged, TypeOK
    <3>5. file' \in {NoFile, Broken} \cup (0..loads') /\ loads' \in Nat
      BY <1>3 DEF Staged, ghost, TypeOK
    <3>6. alive' \subseteq 1..born' /\ born' \in Nat
      <4>1. alive \subseteq 1..born /\ born \in Nat BY DEF TypeOK
      <4>2. CASE born' = born + 1 /\ alive' = alive \cup {born + 1} BY <4>1, <4>2
      <4>3. CASE UNCHANGED <<born, alive>> BY <4>1, <4>3
      <4> QED BY <1>3, <4>2, <4>3 DEF Staged
    <3>7. serving' \in {Broken} \cup (0..loads') /\ onFile' \in BOOLEAN
      BY <1>3 DEF Staged, ghost, TypeOK
    <3>8. chan' \in {NoLine, Eof} \cup (0..ask') /\ panicked' \in BOOLEAN /\ polling' \in BOOLEAN
      BY <1>3 DEF Staged, reading, TypeOK
    <3>9. promised' \in {Any} \cup (0..loads')
      BY <1>3 DEF Staged, ghost, TypeOK
    <3> QED BY <3>0, <3>1, <3>2, <3>3, <3>4, <3>5, <3>6, <3>7, <3>8, <3>9 DEF TypeOK
  <2>3. Control'
    BY <1>3 DEF Staged, ghost, Control, TypeOK, Return
  <2>4. OneProcess'
    <3>1. alive = {} /\ cmd = Nil /\ load = Nil /\ ~closed /\ born \in Nat
      BY <1>3 DEF Staged, OneProcess, Control, TypeOK
    <3> QED BY <1>3, <3>1 DEF Staged, OneProcess, Nil
  <2>5. Promise'
    BY <1>3 DEF Staged, ghost, Promise, Served
  <2>6. AnswersItsQuestion'
    BY <1>3 DEF Staged, ghost, AnswersItsQuestion
  <2>7. AnsweredFromPromised'
    BY <1>3 DEF Staged, ghost, AnsweredFromPromised
  <2> QED BY <2>1, <2>2, <2>3, <2>4, <2>5, <2>6, <2>7
<1>4. CASE Convert
  <2>1. InFlight'
    BY <1>4 DEF Convert, InFlight, Return
  <2>2. TypeOK'
    BY <1>4 DEF Convert, reading, ghost, TypeOK, Nil, Return
  <2>3. Control'
    BY <1>4 DEF Convert, ghost, Control, Return
  <2>4. OneProcess'
    BY <1>4 DEF Convert, OneProcess
  <2>5. Promise'
    BY <1>4 DEF Convert, ghost, Promise, Control
  <2>6. AnswersItsQuestion'
    BY <1>4 DEF Convert, ghost, AnswersItsQuestion
  <2>7. AnsweredFromPromised'
    BY <1>4 DEF Convert, ghost, AnsweredFromPromised
  <2> QED BY <2>1, <2>2, <2>3, <2>4, <2>5, <2>6, <2>7
<1>5. CASE Start
  <2>1. InFlight'
    BY <1>5 DEF Start, AskFor, Return, process, InFlight, OneLine
  <2>2. TypeOK'
    <3>0. ask' \in Nat BY <1>5 DEF Start, AskFor, reading, TypeOK
    <3>1. todo' \in Seq(0..ask') /\ pipe' \in Seq(0..ask')
      <4>1. /\ todo' \in {<<>>, <<0>>, <<ask'>>}
            /\ pipe' \in {<<>>, <<0>>, <<ask'>>}
        BY <2>1 DEF InFlight, OneLine, Hello
      <4>2. /\ <<>> \in Seq(0..ask') /\ <<0>> \in Seq(0..ask')
            /\ <<ask'>> \in Seq(0..ask')
        <5>1. 0 \in 0..ask' /\ ask' \in 0..ask' BY <3>0
        <5> QED BY <3>0, <5>1, ShortSeq
      <4> QED BY <4>1, <4>2
    <3>2. readers' \subseteq [ask : 1..ask', of : 1..born', out : 0..born']
      <4>1. CASE UNCHANGED <<process, reading>> BY <4>1 DEF TypeOK, process, reading
      <4>2. CASE AskFor /\ cmd' = born + 1 /\ born' = born + 1
        <5>1. [ask |-> ask + 1, of |-> born + 1, out |-> 0]
                \in [ask : 1..(ask + 1), of : 1..(born + 1), out : 0..(born + 1)]
          BY DEF TypeOK
        <5>2. [ask : 1..ask, of : 1..born, out : 0..born]
                \subseteq [ask : 1..(ask + 1), of : 1..(born + 1), out : 0..(born + 1)]
          BY DEF TypeOK
        <5> QED BY <4>2, <5>1, <5>2 DEF AskFor, TypeOK, Nil
      <4> QED BY <1>5, <4>1, <4>2 DEF Start
    <3>3. /\ pc' \in {"idle", "stage", "start", "greet", "write", "await", "convert"}
          /\ op' \in {"none", "exec", "cut", "reset", "load"}
      BY <1>5 DEF Start, TypeOK, Return
    <3>4. cmd' \in 0..born' /\ out' = cmd' /\ load' \in 0..born' /\ closed' \in BOOLEAN
      BY <1>5 DEF Start, process, TypeOK
    <3>5. file' \in {NoFile, Broken} \cup (0..loads') /\ loads' \in Nat
      BY <1>5 DEF Start, FallBack, TypeOK
    <3>6. alive' \subseteq 1..born' /\ born' \in Nat
      <4>1. alive \subseteq 1..born /\ born \in Nat BY DEF TypeOK
      <4>2. CASE born' = born + 1 /\ alive' = alive \cup {born + 1} BY <4>1, <4>2
      <4>3. CASE UNCHANGED process BY <4>1, <4>3 DEF process
      <4> QED BY <1>5, <4>2, <4>3 DEF Start
    <3>7. serving' \in {Broken} \cup (0..loads') /\ onFile' \in BOOLEAN
      <4>1. serving \in {Broken} \cup (0..loads) /\ onFile \in BOOLEAN /\ loads' = loads
        BY <1>5 DEF Start, TypeOK
      <4>2. CASE onFile' = (file # NoFile) /\ serving' = Served
        <5>1. Served \in {Broken} \cup (0..loads) BY DEF Served, TypeOK, Empty
        <5>2. onFile' \in BOOLEAN BY <4>2
        <5> QED BY <4>1, <4>2, <5>1, <5>2
      <4>3. CASE UNCHANGED process BY <4>1, <4>3 DEF process
      <4> QED BY <1>5, <4>2, <4>3 DEF Start
    <3>8. chan' \in {NoLine, Eof} \cup (0..ask') /\ panicked' \in BOOLEAN /\ polling' \in BOOLEAN
      BY <1>5 DEF Start, reading, TypeOK, AskFor
    <3>9. promised' \in {Any} \cup (0..loads')
      BY <1>5 DEF Start, FallBack, TypeOK, Empty
    <3> QED BY <3>0, <3>1, <3>2, <3>3, <3>4, <3>5, <3>6, <3>7, <3>8, <3>9 DEF TypeOK
  <2>3. Control'
    BY <1>5 DEF Start, Return, Control, TypeOK
  <2>4. OneProcess'
    <3>1. alive = {} /\ cmd = Nil /\ load = Nil /\ ~closed /\ born \in Nat
      BY <1>5 DEF Start, OneProcess, Control, TypeOK
    <3> QED BY <1>5, <3>1 DEF Start, OneProcess, Nil, process
  <2>5. Promise'
    BY <1>5 DEF Start, FallBack, Promise, Control, Served
  <2>6. AnswersItsQuestion'
    BY <1>5 DEF Start, AnswersItsQuestion
  <2>7. AnsweredFromPromised'
    BY <1>5 DEF Start, AnsweredFromPromised
  <2> QED BY <2>1, <2>2, <2>3, <2>4, <2>5, <2>6, <2>7
<1>6. CASE Greeted
  <2>1. InFlight'
    BY <1>6 DEF Greeted, Return, Recover, Stop, Untouched, InFlight, OneLine, Hello, Eof
  <2>2. TypeOK'
    <3>0. ask' \in Nat BY <1>6 DEF Greeted, reading, TypeOK
    <3>1. todo' \in Seq(0..ask') /\ pipe' \in Seq(0..ask')
      <4>1. /\ todo' \in {<<>>, <<0>>, <<ask'>>}
            /\ pipe' \in {<<>>, <<0>>, <<ask'>>}
        BY <2>1 DEF InFlight, OneLine, Hello
      <4>2. /\ <<>> \in Seq(0..ask') /\ <<0>> \in Seq(0..ask')
            /\ <<ask'>> \in Seq(0..ask')
        <5>1. 0 \in 0..ask' /\ ask' \in 0..ask' BY <3>0
        <5> QED BY <3>0, <5>1, ShortSeq
      <4> QED BY <4>1, <4>2
    <3>2. readers' \subseteq [ask : 1..ask', of : 1..born', out : 0..born']
      BY <1>6 DEF Greeted, reading, TypeOK
    <3>3. /\ pc' \in {"idle", "stage", "start", "greet", "write", "await", "convert"}
          /\ op' \in {"none", "exec", "cut", "reset", "load"}
      BY <1>6 DEF Greeted, TypeOK, Return
    <3>4. cmd' \in 0..born' /\ out' = cmd' /\ load' \in 0..born' /\ closed' \in BOOLEAN
      BY <1>6 DEF Greeted, Stop, Untouched, TypeOK, Nil, Recover
    <3>5. file' \in {NoFile, Broken} \cup (0..loads') /\ loads' \in Nat
      BY <1>6 DEF Greeted, FallBack, TypeOK
    <3>6. alive' \subseteq 1..born' /\ born' \in Nat
      BY <1>6 DEF Greeted, Stop, Untouched, TypeOK, Recover
    <3>7. serving' \in {Broken} \cup (0..loads') /\ onFile' \in BOOLEAN
      BY <1>6 DEF Greeted, TypeOK
    <3>8. chan' \in {NoLine, Eof} \cup (0..ask') /\ panicked' \in BOOLEAN /\ polling' \in BOOLEAN
      BY <1>6 DEF Greeted, reading, TypeOK
    <3>9. promised' \in {Any} \cup (0..loads')
      BY <1>6 DEF Greeted, FallBack, TypeOK, Empty
    <3> QED BY <3>0, <3>1, <3>2, <3>3, <3>4, <3>5, <3>6, <3>7, <3>8, <3>9 DEF TypeOK
  <2>3. Control'
    BY <1>6 DEF Greeted, Return, Untouched, Control
  <2>4. OneProcess'
    BY <1>6 DEF Greeted, Recover, Stop, Untouched, OneProcess
  <2>5. Promise'
    BY <1>6 DEF Greeted, NoFile, Recover, Stop, FallBack, Promise, Control, TypeOK, Served
  <2>6. AnswersItsQuestion'
    BY <1>6 DEF Greeted, AnswersItsQuestion
  <2>7. AnsweredFromPromised'
    BY <1>6 DEF Greeted, AnsweredFromPromised
  <2> QED BY <2>1, <2>2, <2>3, <2>4, <2>5, <2>6, <2>7
<1>7. CASE Write
  <2>1. InFlight'
    BY <1>7 DEF Write, AskFor, Stop, Return, InFlight, OneLine
  <2>2. TypeOK'
    <3>0. ask' \in Nat BY <1>7 DEF Write, AskFor, reading, TypeOK
    <3>1. todo' \in Seq(0..ask') /\ pipe' \in Seq(0..ask')
      <4>1. /\ todo' \in {<<>>, <<0>>, <<ask'>>}
            /\ pipe' \in {<<>>, <<0>>, <<ask'>>}
        BY <2>1 DEF InFlight, OneLine, Hello
      <4>2. /\ <<>> \in Seq(0..ask') /\ <<0>> \in Seq(0..ask')
            /\ <<ask'>> \in Seq(0..ask')
        <5>1. 0 \in 0..ask' /\ ask' \in 0..ask' BY <3>0
        <5> QED BY <3>0, <5>1, ShortSeq
      <4> QED BY <4>1, <4>2
    <3>2. readers' \subseteq [ask : 1..ask', of : 1..born', out : 0..born']
      <4>1. CASE UNCHANGED reading BY <1>7, <4>1 DEF Write, TypeOK, reading
      <4>2. CASE AskFor /\ cmd' = cmd
        <5>1. cmd \in 1..born BY <1>7 DEF Write, Control, TypeOK, Nil
        <5>2. [ask |-> ask + 1, of |-> cmd, out |-> 0]
                \in [ask : 1..(ask + 1), of : 1..born, out : 0..born]
          BY <5>1 DEF TypeOK
        <5>3. [ask : 1..ask, of : 1..born, out : 0..born]
                \subseteq [ask : 1..(ask + 1), of : 1..born, out : 0..born]
          BY DEF TypeOK
        <5> QED BY <1>7, <4>2, <5>2, <5>3 DEF Write, AskFor, TypeOK, Nil
      <4> QED BY <1>7, <4>1, <4>2 DEF Write
    <3>3. /\ pc' \in {"idle", "stage", "start", "greet", "write", "await", "convert"}
          /\ op' \in {"none", "exec", "cut", "reset", "load"}
      BY <1>7 DEF Write, TypeOK, Return
    <3>4. cmd' \in 0..born' /\ out' = cmd' /\ load' \in 0..born' /\ closed' \in BOOLEAN
      BY <1>7 DEF Write, TypeOK, Nil, Stop
    <3>5. file' \in {NoFile, Broken} \cup (0..loads') /\ loads' \in Nat
      BY <1>7 DEF Write, TypeOK, FallBack
    <3>6. alive' \subseteq 1..born' /\ born' \in Nat
      BY <1>7 DEF Write, TypeOK, Stop
    <3>7. serving' \in {Broken} \cup (0..loads') /\ onFile' \in BOOLEAN
      BY <1>7 DEF Write, TypeOK
    <3>8. chan' \in {NoLine, Eof} \cup (0..ask') /\ panicked' \in BOOLEAN /\ polling' \in BOOLEAN
      <4>1. CASE AskFor BY <1>7, <4>1 DEF Write, AskFor, TypeOK
      <4>2. CASE UNCHANGED reading BY <1>7, <4>2 DEF Write, reading, TypeOK
      <4> QED BY <1>7, <4>1, <4>2 DEF Write
    <3>9. promised' \in {Any} \cup (0..loads')
      BY <1>7 DEF Write, TypeOK, Empty, FallBack
    <3> QED BY <3>0, <3>1, <3>2, <3>3, <3>4, <3>5, <3>6, <3>7, <3>8, <3>9 DEF TypeOK
  <2>3. Control'
    BY <1>7 DEF Write, AskFor, Return, Control, TypeOK
  <2>4. OneProcess'
    BY <1>7 DEF Write, Stop, OneProcess
  <2>5. Promise'
    BY <1>7 DEF Write, Stop, FallBack, Promise, Served
  <2>6. AnswersItsQuestion'
    BY <1>7 DEF Write, AnswersItsQuestion
  <2>7. AnsweredFromPromised'
    BY <1>7 DEF Write, AnsweredFromPromised
  <2> QED BY <2>1, <2>2, <2>3, <2>4, <2>5, <2>6, <2>7
<1>8. CASE Answered
  <2>1. InFlight'
    BY <1>8 DEF Answered, Return, Untouched, StopForReset, Stop, InFlight, OneLine
  <2>2. TypeOK'
    <3>0. ask' \in Nat BY <1>8 DEF Answered, reading, TypeOK
    <3>1. todo' \in Seq(0..ask') /\ pipe' \in Seq(0..ask')
      <4>1. /\ todo' \in {<<>>, <<0>>, <<ask'>>}
            /\ pipe' \in {<<>>, <<0>>, <<ask'>>}
        BY <2>1 DEF InFlight, OneLine, Hello
      <4>2. /\ <<>> \in Seq(0..ask') /\ <<0>> \in Seq(0..ask')
            /\ <<ask'>> \in Seq(0..ask')
        <5>1. 0 \in 0..ask' /\ ask' \in 0..ask' BY <3>0
        <5> QED BY <3>0, <5>1, ShortSeq
      <4> QED BY <4>1, <4>2
    <3>2. readers' \subseteq [ask : 1..ask', of : 1..born', out : 0..born']
      BY <1>8 DEF Answered, reading, TypeOK
    <3>3. /\ pc' \in {"idle", "stage", "start", "greet", "write", "await", "convert"}
          /\ op' \in {"none", "exec", "cut", "reset", "load"}
      BY <1>8 DEF Answered, Return
    <3>4. cmd' \in 0..born' /\ out' = cmd' /\ load' \in 0..born' /\ closed' \in BOOLEAN
      BY <1>8 DEF Answered, Stop, TypeOK, Nil, Untouched, StopForReset
    <3>5. file' \in {NoFile, Broken} \cup (0..loads') /\ loads' \in Nat
      BY <1>8 DEF Answered, TypeOK, Empty
    <3>6. alive' \subseteq 1..born' /\ born' \in Nat
      BY <1>8 DEF Answered, Stop, TypeOK, Untouched, StopForReset
    <3>7. serving' \in {Broken} \cup (0..loads') /\ onFile' \in BOOLEAN
      BY <1>8 DEF Answered, TypeOK, Empty
    <3>8. chan' \in {NoLine, Eof} \cup (0..ask') /\ panicked' \in BOOLEAN /\ polling' \in BOOLEAN
      BY <1>8 DEF Answered, reading, TypeOK
    <3>9. promised' \in {Any} \cup (0..loads')
      BY <1>8 DEF Answered, TypeOK, Empty
    <3> QED BY <3>0, <3>1, <3>2, <3>3, <3>4, <3>5, <3>6, <3>7, <3>8, <3>9 DEF TypeOK
  <2>3. Control'
    BY <1>8 DEF Answered, Return, Control
  <2>4. OneProcess'
    BY <1>8 DEF Answered, Untouched, StopForReset, Stop, OneProcess
  <2>5. Promise'
    <3>1. cmd # Nil /\ serving = Served /\ (onFile <=> file # NoFile)
      BY <1>8 DEF Answered, Control, Promise
    <3>2. CASE op = "exec" /\ Untouched /\ UNCHANGED <<file, serving, promised>>
      BY <1>8, <3>2 DEF Answered, Untouched, Promise, Served
    <3>3. CASE /\ Untouched /\ serving' = Empty /\ promised' = Empty
               /\ file' = IF onFile THEN Empty ELSE file
      <4>1. Served' = Empty /\ (file' # NoFile <=> file # NoFile)
        BY <3>1, <3>3 DEF Served, Empty, NoFile
      <4>2. onFile' = onFile BY <1>8 DEF Answered
      <4> QED BY <3>1, <3>3, <4>1, <4>2 DEF Promise
    <3>4. CASE StopForReset /\ file' = NoFile /\ promised' = Empty
      BY <3>4 DEF StopForReset, Stop, Promise, Served
    <3> QED BY <1>8, <3>2, <3>3, <3>4 DEF Answered
  <2>6. AnswersItsQuestion'
    BY <1>8 DEF Answered, AnswersItsQuestion, InFlight, OneLine
  <2>7. AnsweredFromPromised'
    BY <1>8 DEF Answered, AnsweredFromPromised, Promise, Control
  <2> QED BY <2>1, <2>2, <2>3, <2>4, <2>5, <2>6, <2>7
<1>9. CASE GiveUp
  <2>1. InFlight'
    BY <1>9 DEF GiveUp, Recover, Stop, Return, InFlight
  <2>2. TypeOK'
    BY <1>9 DEF GiveUp, Recover, Stop, Return, FallBack, reading, TypeOK, Nil, Empty
  <2>3. Control'
    BY <1>9 DEF GiveUp, Return, Control
  <2>4. OneProcess'
    BY <1>9 DEF GiveUp, Recover, Stop, OneProcess
  <2>5. Promise'
    BY <1>9 DEF GiveUp, Recover, Stop, FallBack, Promise, Served
  <2>6. AnswersItsQuestion'
    BY <1>9 DEF GiveUp, AnswersItsQuestion
  <2>7. AnsweredFromPromised'
    BY <1>9 DEF GiveUp, AnsweredFromPromised
  <2> QED BY <2>1, <2>2, <2>3, <2>4, <2>5, <2>6, <2>7
<1>10. CASE Close
  <2>1. InFlight'
    BY <1>10 DEF Close, InFlight, Stop
  <2>2. TypeOK'
    BY <1>10 DEF Close, reading, ghost, TypeOK, Nil, Stop
  <2>3. Control'
    BY <1>10 DEF Close, Control, Stop
  <2>4. OneProcess'
    BY <1>10 DEF Close, OneProcess, Control, Stop
  <2>5. Promise'
    BY <1>10 DEF Close, ghost, Promise, Served, Stop
  <2>6. AnswersItsQuestion'
    BY <1>10 DEF Close, ghost, AnswersItsQuestion
  <2>7. AnsweredFromPromised'
    BY <1>10 DEF Close, ghost, AnsweredFromPromised
  <2> QED BY <2>1, <2>2, <2>3, <2>4, <2>5, <2>6, <2>7
<1>11. CASE Reply
  <2>1. InFlight'
    <3>1. /\ UNCHANGED <<pc, ask, chan>>
          /\ pipe' = Append(pipe, Head(todo)) /\ todo' = Tail(todo) /\ todo # <<>>
      BY <1>11 DEF Reply, reading
    <3>2. ASSUME NEW line, OneLine(line) PROVE OneLine(line)'
      <4>1. todo = <<line>> /\ pipe = <<>> /\ chan \in {NoLine, Eof} BY <3>1, <3>2
        DEF OneLine
      <4>2. pipe' = <<line>> /\ todo' = <<>> BY <3>1, <4>1
      <4> QED BY <3>1, <4>1, <4>2 DEF OneLine
    <3> QED BY <3>1, <3>2 DEF InFlight
  <2>2. TypeOK'
    BY <1>11 DEF Reply, reading, ghost, TypeOK, fields
  <2>3. Control'
    BY <1>11 DEF Reply, ghost, Control, fields, reading
  <2>4. OneProcess'
    BY <1>11 DEF Reply, OneProcess, fields
  <2>5. Promise'
    BY <1>11 DEF Reply, ghost, Promise, Served, fields
  <2>6. AnswersItsQuestion'
    BY <1>11 DEF Reply, ghost, AnswersItsQuestion
  <2>7. AnsweredFromPromised'
    BY <1>11 DEF Reply, ghost, AnsweredFromPromised
  <2> QED BY <2>1, <2>2, <2>3, <2>4, <2>5, <2>6, <2>7
<1>12. CASE Die
  <2>1. InFlight'
    BY <1>12 DEF Die, reading, InFlight, OneLine
  <2>2. TypeOK'
    BY <1>12 DEF Die, reading, ghost, TypeOK, fields
  <2>3. Control'
    BY <1>12 DEF Die, ghost, Control, fields, reading
  <2>4. OneProcess'
    BY <1>12 DEF Die, OneProcess, fields
  <2>5. Promise'
    BY <1>12 DEF Die, ghost, Promise, Served, fields
  <2>6. AnswersItsQuestion'
    BY <1>12 DEF Die, ghost, AnswersItsQuestion
  <2>7. AnsweredFromPromised'
    BY <1>12 DEF Die, ghost, AnsweredFromPromised
  <2> QED BY <2>1, <2>2, <2>3, <2>4, <2>5, <2>6, <2>7
<1>13. CASE RunReader
  <2>1. InFlight'
    BY <1>13 DEF RunReader, InFlight, OneLine, process
  <2>2. TypeOK'
    <3>0. ask' \in Nat BY <1>13 DEF RunReader, TypeOK
    <3>1. todo' \in Seq(0..ask') /\ pipe' \in Seq(0..ask')
      <4>1. /\ todo' \in {<<>>, <<0>>, <<ask'>>}
            /\ pipe' \in {<<>>, <<0>>, <<ask'>>}
        BY <2>1 DEF InFlight, OneLine, Hello
      <4>2. /\ <<>> \in Seq(0..ask') /\ <<0>> \in Seq(0..ask')
            /\ <<ask'>> \in Seq(0..ask')
        <5>1. 0 \in 0..ask' /\ ask' \in 0..ask' BY <3>0
        <5> QED BY <3>0, <5>1, ShortSeq
      <4> QED BY <4>1, <4>2
    <3>2. readers' \subseteq [ask : 1..ask', of : 1..born', out : 0..born']
      <4>1. PICK r \in readers : readers' = (readers \ {r}) \cup {[r EXCEPT !.out = out]}
        BY <1>13 DEF RunReader
      <4>2. r \in [ask : 1..ask, of : 1..born, out : 0..born] /\ out \in 0..born
        BY DEF TypeOK
      <4>3. [r EXCEPT !.out = out] \in [ask : 1..ask, of : 1..born, out : 0..born]
        BY <4>2
      <4>4. readers \subseteq [ask : 1..ask, of : 1..born, out : 0..born] BY DEF TypeOK
      <4>5. ask' = ask /\ born' = born BY <1>13 DEF RunReader, process
      <4> QED BY <4>1, <4>3, <4>4, <4>5
    <3> QED
      BY <1>13, <3>1, <3>2 DEF RunReader, fields, process, ghost, TypeOK
  <2>3. Control'
    BY <1>13 DEF RunReader, ghost, Control, fields
  <2>4. OneProcess'
    BY <1>13 DEF RunReader, OneProcess, fields, process
  <2>5. Promise'
    BY <1>13 DEF RunReader, ghost, Promise, Served, fields, process
  <2>6. AnswersItsQuestion'
    BY <1>13 DEF RunReader, ghost, AnswersItsQuestion
  <2>7. AnsweredFromPromised'
    BY <1>13 DEF RunReader, ghost, AnsweredFromPromised
  <2> QED BY <2>1, <2>2, <2>3, <2>4, <2>5, <2>6, <2>7
<1>14. CASE Read
  <2>1. InFlight'
    <3>1. /\ UNCHANGED <<pc, ask, todo>>
          /\ \/ pipe # <<>> /\ pipe' = Tail(pipe) /\ chan' \in {Head(pipe), chan}
             \/ chan' \in {Eof, chan} /\ UNCHANGED pipe
      BY <1>14 DEF Read
    <3>2. ASSUME NEW line, OneLine(line) PROVE OneLine(line)'
      <4>1. CASE pipe # <<>> /\ pipe' = Tail(pipe) /\ chan' \in {Head(pipe), chan}
        <5>1. todo = <<>> /\ pipe = <<line>> /\ chan \in {NoLine, Eof}
          BY <3>2, <4>1 DEF OneLine
        <5>2. pipe' = <<>> /\ Head(pipe) = line BY <4>1, <5>1
        <5> QED BY <3>1, <4>1, <5>1, <5>2 DEF OneLine
      <4>2. CASE chan' \in {Eof, chan} /\ UNCHANGED pipe
        BY <3>1, <3>2, <4>2 DEF OneLine
      <4> QED BY <3>1, <4>1, <4>2
    <3> QED BY <3>1, <3>2 DEF InFlight
  <2>2. TypeOK'
    <3>0. ask' \in Nat BY <1>14 DEF Read, TypeOK
    <3>1. todo' \in Seq(0..ask') /\ pipe' \in Seq(0..ask')
      <4>1. /\ todo' \in {<<>>, <<0>>, <<ask'>>}
            /\ pipe' \in {<<>>, <<0>>, <<ask'>>}
        BY <2>1 DEF InFlight, OneLine, Hello
      <4>2. /\ <<>> \in Seq(0..ask') /\ <<0>> \in Seq(0..ask')
            /\ <<ask'>> \in Seq(0..ask')
        <5>1. 0 \in 0..ask' /\ ask' \in 0..ask' BY <3>0
        <5> QED BY <3>0, <5>1, ShortSeq
      <4> QED BY <4>1, <4>2
    <3>2. readers' \subseteq [ask : 1..ask', of : 1..born', out : 0..born']
      BY <1>14 DEF Read, TypeOK
    <3> QED
      <4>1. chan' \in {NoLine, Eof} \cup (0..ask')
        <5>1. pipe # <<>> => Head(pipe) \in 0..ask BY DEF TypeOK
        <5> QED BY <1>14, <5>1 DEF Read, TypeOK
      <4> QED BY <1>14, <3>1, <3>2, <4>1 DEF Read, fields, ghost, TypeOK
  <2>3. Control'
    BY <1>14 DEF Read, ghost, Control, fields
  <2>4. OneProcess'
    BY <1>14 DEF Read, OneProcess, fields
  <2>5. Promise'
    BY <1>14 DEF Read, ghost, Promise, Served, fields
  <2>6. AnswersItsQuestion'
    BY <1>14 DEF Read, ghost, AnswersItsQuestion
  <2>7. AnsweredFromPromised'
    BY <1>14 DEF Read, ghost, AnsweredFromPromised
  <2> QED BY <2>1, <2>2, <2>3, <2>4, <2>5, <2>6, <2>7
<1>15. CASE Poll
  <2>1. InFlight'
    BY <1>15 DEF Poll, reading, InFlight, OneLine, process
  <2>2. TypeOK'
    BY <1>15 DEF Poll, reading, ghost, TypeOK, fields, process
  <2>3. Control'
    BY <1>15 DEF Poll, ghost, Control, fields, reading
  <2>4. OneProcess'
    BY <1>15 DEF Poll, OneProcess, fields, process
  <2>5. Promise'
    BY <1>15 DEF Poll, ghost, Promise, Served, fields, process
  <2>6. AnswersItsQuestion'
    BY <1>15 DEF Poll, ghost, AnswersItsQuestion
  <2>7. AnsweredFromPromised'
    BY <1>15 DEF Poll, ghost, AnsweredFromPromised
  <2> QED BY <2>1, <2>2, <2>3, <2>4, <2>5, <2>6, <2>7
<1>16. CASE UNCHANGED vars
  BY <1>16
    DEF vars, fields, process, reading, ghost, TypeOK, InFlight, OneLine, Control,
        OneProcess, Promise, Served, AnswersItsQuestion, AnsweredFromPromised
<1> QED
  BY <1>1, <1>2, <1>3, <1>4, <1>5, <1>6, <1>7, <1>8, <1>9, <1>10, <1>11, <1>12, <1>13,
     <1>14, <1>15, <1>16
    DEF Next, Runner

\* The strengthened invariant holds of every behaviour.
THEOREM Invariance == Spec => []IInv
<1>1. Init => IInv BY InitInv
<1>2. IInv /\ [Next]_vars => IInv' BY NextInv
<1> QED BY <1>1, <1>2, PTL DEF Spec

\* The session's fields, its processes and what is on the pipe stay typed.
THEOREM TypeCorrect == Spec => []TypeOK
BY Invariance, PTL DEF IInv

\* No statement is ever answered with another one's line, however many time out
\* and however many shells have been replaced.
THEOREM OwnAnswer == Spec => []AnswersItsQuestion
BY Invariance, PTL DEF IInv

\* Statements are answered from the graph the last load or reset left, whatever
\* shell it is that answers.
THEOREM PromisedGraph == Spec => []AnsweredFromPromised
BY Invariance, PTL DEF IInv

\* No shell loses the file it serves.
THEOREM FileKept == Spec => []FileUnderShell
<1>1. IInv => FileUnderShell
  BY DEF IInv, Promise, Served, FileUnderShell
<1> QED BY <1>1, Invariance, PTL

\* At most one engine process runs, and the session knows of it.
THEOREM SingleProcess == Spec => []OneProcess
BY Invariance, PTL DEF IInv
=============================================================================
