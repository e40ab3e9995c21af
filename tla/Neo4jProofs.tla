----------------------------- MODULE Neo4jProofs -----------------------------
(***************************************************************************)
(* The session of adapter/neo4j for any label sets, edge types, fixtures   *)
(* and numbers of calls: what Exec reports, and what a statement was put   *)
(* to.                                                                     *)
(***************************************************************************)
EXTENDS Neo4jSession, TLAPS

\* What the call in hand has still to send.
Pending == UNION {todo[k] : k \in 1..Len(todo)}

Steps(f) == <<{"reset"}, {"index"}, f \cap LabelSets, f \cap Types>>

\* A call sends its statements in their order: what is left of a load is the
\* end of its steps, the first of them begun.
TodoInv ==
  /\ op = "none" => todo = <<>>
  /\ op = "exec" => Len(todo) = 1 /\ todo[1] \subseteq {"exec"}
  /\ op = "reset" => Len(todo) = 1 /\ todo[1] \subseteq {"reset"} /\ promised.parts = {}
  /\ op = "load" =>
       /\ Len(todo) \in 1..4
       /\ \A k \in 1..Len(todo) :
            /\ todo[k] \subseteq Steps(promised.parts)[4 - Len(todo) + k]
            /\ k > 1 => todo[k] = Steps(promised.parts)[4 - Len(todo) + k]

CallInv ==
  /\ op # "none" <=> pc \in {"next", "run", "collect"}
  /\ pc = "collect" => op = "exec" /\ conn.at \in {"accepted", "done", "failed"}
  /\ pc \in {"run", "collect"} => conn.at # "none" /\ conn.call = calls
  /\ op \in {"load", "reset"} => promised # NoPromise /\ promised.by = calls
  /\ op = "exec" => promised.by < calls
  /\ promised # NoPromise => promised.by \in 1..calls /\ promised.parts \in Fixtures \cup {{}}

\* The statement on the connection is one of a call.
ConnInv ==
  /\ conn.call <= calls /\ (conn.at = "none" => conn = None)
  /\ conn.at # "none" => conn.call >= 1 /\ conn.part \in Batches \cup Others
  /\ conn.at = "sent" => pc = "run"
  /\ op = "exec" /\ conn.call = calls /\ conn.at # "none" => conn.part = "exec"
  /\ Running /\ conn.part = "exec" => op = "exec" /\ conn.call = calls
  /\ \A s \in late : s.call <= calls

\* If it is one of the call that promised, then the promised batches are still
\* to come when it is the reset, and those of the nodes are gone when it is one of
\* edges; it is of an earlier call only as long as the reset is not sent.
PromiserInv ==
  promised # NoPromise /\ conn.at # "none" =>
    /\ conn.call < promised.by => "reset" \in Pending
    /\ conn.call = promised.by =>
         /\ conn.part \in promised.parts \cup {"reset", "index"}
         /\ conn.at = "refused" => pc = "run"
         /\ conn.at = "failed" => doubtful
         /\ conn.part = "reset" => promised.parts \subseteq Pending
         /\ conn.part \in Types => promised.parts \cap LabelSets \cap Pending = {}
    /\ conn.call > promised.by => conn.part = "exec"

\* What is known of the fate of the statement of an Exec.
FateInv ==
  /\ op # "none" => answer = NoAnswer
  /\ op = "exec" => /\ \A s \in late : s.call < calls
                    /\ pc = "next" => fate = {} /\ conn.call < calls /\ todo = <<{"exec"}>>
                    /\ pc \in {"run", "collect"} =>
                         /\ conn.at \in {"sent", "accepted"} => fate = {}
                         /\ conn.at = "done" => fate = {"committed"}
                         /\ conn.at \in {"refused", "failed"} => fate = {"refused"}
  /\ answer.outcome = "ok" => "committed" \in fate
  /\ answer.outcome = "coded" => /\ fate = {"refused"} /\ \A s \in late : s.call < calls
                                 /\ Running => conn.call < calls

Kept == promised # NoPromise /\ ~doubtful
Awaited(b) == /\ conn.call = promised.by /\ conn.part = b
              /\ conn.at \in {"sent", "accepted", "refused"}

\* Nothing is in g but batches of the promise p and later statements.
Only(g, p) ==
  \A x \in g : \/ x[1] = p.by /\ x[2] \in p.parts
               \/ x[1] > p.by /\ x[2] = "exec"
Whole(g, p) == (\A b \in p.parts : <<p.by, b>> \in g) /\ Only(g, p)

\* Once the reset is through, a promised batch is in the graph, or on its way.
BuiltInv ==
  Kept =>
    /\ \A s \in late : s.part = "exec" /\ s.call > promised.by
    /\ "reset" \notin Pending /\ ~Awaited("reset") =>
         /\ Only(graph, promised)
         /\ \A b \in promised.parts :
              b \in Pending \/ Awaited(b) \/ <<promised.by, b>> \in graph

\* An Exec that was committed has read all of it.
SeenInv ==
  Kept /\ op = "exec" /\ pc \in {"run", "collect"} /\ conn.at = "done" =>
    Whole(conn.seen, promised)

IInv == /\ TypeOK /\ TodoInv /\ CallInv /\ ConnInv /\ PromiserInv /\ FateInv
        /\ BuiltInv /\ SeenInv /\ AnsweredFromFixture

------------------------------------------------------------------------------
(* What a load sends. *)

LEMMA Names ==
  /\ \A o \in Others : o \notin Batches
  /\ \A l \in LabelSets : l \notin Types
  /\ \A f \in Fixtures \cup {{}} :
       /\ f \subseteq Batches /\ f = (f \cap LabelSets) \cup (f \cap Types)
       /\ \A t \in f \cap Types : Ends[t] \subseteq f \cap LabelSets
  /\ NoPromise.by = 0 /\ NoPromise.parts = {}
<1>1. NoPromise.by = 0 /\ NoPromise.parts = {} BY DEF NoPromise
<1>2. ASSUME NEW f \in Fixtures \cup {{}}
      PROVE  /\ f \subseteq Batches /\ f = (f \cap LabelSets) \cup (f \cap Types)
             /\ \A t \in f \cap Types : Ends[t] \subseteq f \cap LabelSets
  <2>1. f \subseteq LabelSets \cup Types BY Neo4jAssumption
  <2>2. ASSUME NEW t \in f \cap Types PROVE Ends[t] \subseteq f \cap LabelSets
    BY Neo4jAssumption, <2>1
  <2> QED BY <2>1, <2>2 DEF Batches
<1> QED BY <1>1, <1>2, Neo4jAssumption DEF Batches, Others

\* The numbers and the names of a typed state.
LEMMA Typed ==
  ASSUME TypeOK
  PROVE  /\ MaxCalls \in Nat /\ calls \in Nat /\ calls <= MaxCalls
         /\ conn.call \in Nat /\ conn.call <= MaxCalls
         /\ conn.part \in Batches \cup Others \cup {"none"}
         /\ conn.at \in {"none", "sent", "accepted", "refused", "done", "failed"}
         /\ promised.by \in Nat /\ promised.parts \in SUBSET Batches
         /\ \A s \in late : s.call \in Nat
<1>1. conn \in [call : 0..MaxCalls, part : Batches \cup Others \cup {"none"},
               at : {"none", "sent", "accepted", "refused", "done", "failed"},
               seen : SUBSET Items]
  BY DEF TypeOK
<1>2. promised \in [by : 0..MaxCalls, parts : SUBSET Batches] BY DEF TypeOK, Promise
<1>3. \A s \in late : s \in Statements BY DEF TypeOK
<1>4. MaxCalls \in Nat /\ calls \in 0..MaxCalls BY Neo4jAssumption DEF TypeOK
<1> QED BY <1>1, <1>2, <1>3, <1>4 DEF Statements

LEMMA StepsOf ==
  ASSUME NEW f
  PROVE  /\ Steps(f)[1] = {"reset"} /\ Steps(f)[2] = {"index"}
         /\ Steps(f)[3] = f \cap LabelSets /\ Steps(f)[4] = f \cap Types
BY DEF Steps

LEMMA Quadruple ==
  ASSUME NEW S, NEW a \in S, NEW b \in S, NEW c \in S, NEW d \in S,
         NEW q, q = <<a>> \o <<b, c, d>>
  PROVE  q \in Seq(S) /\ Len(q) = 4 /\ q[1] = a /\ q[2] = b /\ q[3] = c /\ q[4] = d
OBVIOUS

LEMMA LoadSteps ==
  ASSUME NEW f \in Fixtures, NEW q
  PROVE  q = <<{"reset"}>> \o Parts(f) =>
         /\ q \in Seq(SUBSET (Batches \cup Others)) /\ Len(q) = 4
         /\ \A k \in 1..4 : q[k] = Steps(f)[k]
         /\ q[1] = {"reset"}
<1>1. PICK a : a = {"reset"} OBVIOUS
<1>2. PICK b : b = {"index"} OBVIOUS
<1>3. PICK c : c = f \cap LabelSets OBVIOUS
<1>4. PICK d : d = f \cap Types OBVIOUS
<1>5. q = <<{"reset"}>> \o Parts(f) => q = <<a>> \o <<b, c, d>>
  BY <1>1, <1>2, <1>3, <1>4, Zenon DEF Parts
<1> DEFINE S == SUBSET (Batches \cup Others)
<1>6. a \in S /\ b \in S /\ c \in S /\ d \in S
  BY <1>1, <1>2, <1>3, <1>4 DEF Batches, Others
<1> HIDE DEF S
<1>7. q = <<a>> \o <<b, c, d>> =>
        q \in Seq(S) /\ Len(q) = 4 /\ q[1] = a /\ q[2] = b /\ q[3] = c /\ q[4] = d
  BY <1>6, Quadruple
<1>8. \A k \in 1..4 : k = 1 \/ k = 2 \/ k = 3 \/ k = 4 OBVIOUS
<1>9. /\ Steps(f)[1] = a /\ Steps(f)[2] = b /\ Steps(f)[3] = c /\ Steps(f)[4] = d
  BY <1>1, <1>2, <1>3, <1>4, StepsOf
<1>10. q[1] = a /\ q[2] = b /\ q[3] = c /\ q[4] = d => \A k \in 1..4 : q[k] = Steps(f)[k]
  BY <1>8, <1>9
<1> QED BY <1>1, <1>5, <1>7, <1>10, Zenon DEF S

LEMMA SamePending == ASSUME todo' = todo PROVE Pending' = Pending
BY DEF Pending

LEMMA NothingPending == ASSUME todo = <<>> PROVE Pending = {}
<1>1. Len(todo) = 0 BY Zenon, <<>> = <<>>
<1> QED BY <1>1 DEF Pending

\* The statement that is issued is one of the call's, and the first of its kind
\* that the call has still to send.
LEMMA Sends ==
  ASSUME TypeOK, TodoInv, CallInv, pc = "next", NEW s \in Head(todo)
  PROVE  /\ op = "exec" => s = "exec"
         /\ op # "exec" =>
              /\ s \in promised.parts \cup {"reset", "index"}
              /\ s = "reset" => promised.parts \subseteq Pending
              /\ s \in Types => promised.parts \cap LabelSets \cap Pending = {}
<1> DEFINE f == promised.parts
<1>1. op \in {"load", "reset", "exec"} BY DEF TypeOK, CallInv
<1>2. todo \in Seq(SUBSET (Batches \cup Others)) BY DEF TypeOK
<1>3. CASE op = "exec"
  <2>1. Len(todo) = 1 /\ todo[1] \subseteq {"exec"} BY <1>3 DEF TodoInv
  <2> QED BY <1>2, <1>3, <2>1
<1>4. CASE op = "reset"
  <2>1. Len(todo) = 1 /\ todo[1] \subseteq {"reset"} /\ f = {} BY <1>4 DEF TodoInv
  <2>2. s = "reset" BY <1>2, <2>1
  <2> QED BY <1>4, <2>1, <2>2, Names DEF Others, Batches
<1>5. CASE op = "load"
  <2>1. /\ f \in Fixtures \cup {{}} /\ Len(todo) \in 1..4
        /\ todo[1] \subseteq Steps(f)[5 - Len(todo)]
        /\ \A k \in 1..Len(todo) : k > 1 => todo[k] = Steps(f)[4 - Len(todo) + k]
    <3>1. f \in Fixtures \cup {{}} BY <1>5 DEF CallInv
    <3>2. /\ Len(todo) \in 1..4
          /\ \A k \in 1..Len(todo) :
               /\ todo[k] \subseteq Steps(f)[4 - Len(todo) + k]
               /\ k > 1 => todo[k] = Steps(f)[4 - Len(todo) + k]
      BY <1>5 DEF TodoInv
    <3>3. todo[1] \subseteq Steps(f)[4 - Len(todo) + 1] BY <3>2
    <3>4. 4 - Len(todo) + 1 = 5 - Len(todo) BY <3>2
    <3> QED BY <3>1, <3>2, <3>3, <3>4
  <2>2. s \in todo[1] BY <1>2, <2>1
  <2>3. CASE Len(todo) = 4
    <3>1. /\ todo[3] = f \cap LabelSets /\ todo[4] = f \cap Types /\ s = "reset"
      BY <2>1, <2>2, <2>3, StepsOf
    <3>2. todo[3] \subseteq Pending /\ todo[4] \subseteq Pending BY <2>3 DEF Pending
    <3> QED BY <1>5, <2>1, <3>1, <3>2, Names DEF Others, Batches
  <2>4. CASE Len(todo) = 3
    <3>1. s = "index" BY <2>1, <2>2, <2>4, StepsOf
    <3> QED BY <1>5, <3>1, Names DEF Others, Batches
  <2>5. CASE Len(todo) = 2
    <3>1. s \in f \cap LabelSets BY <2>1, <2>2, <2>5, StepsOf
    <3> QED BY <1>5, <2>1, <3>1, Names DEF Others, Batches
  <2>6. CASE Len(todo) = 1
    <3>1. todo[1] \subseteq f \cap Types BY <2>1, <2>6, StepsOf
    <3>2. Pending \subseteq Types BY <2>6, <3>1 DEF Pending
    <3> QED BY <1>5, <2>1, <2>2, <3>1, <3>2, Names DEF Others, Batches
  <2> QED BY <2>1, <2>3, <2>4, <2>5, <2>6
<1> QED BY <1>1, <1>3, <1>4, <1>5

\* The statements of a call that are not issued yet, when one of them is.
LEMMA IssuedPending ==
  ASSUME todo \in Seq(SUBSET (Batches \cup Others)), todo # <<>>, NEW s \in Head(todo),
         todo' = [todo EXCEPT ![1] = @ \ {s}]
  PROVE  /\ todo' \in Seq(SUBSET (Batches \cup Others)) /\ Len(todo') = Len(todo)
         /\ todo'[1] = todo[1] \ {s} /\ \A k \in 2..Len(todo) : todo'[k] = todo[k]
         /\ Pending' \subseteq Pending /\ Pending \subseteq Pending' \cup {s}
<1>1. /\ todo' \in Seq(SUBSET (Batches \cup Others)) /\ Len(todo') = Len(todo) /\ Len(todo) >= 1
      /\ todo'[1] = todo[1] \ {s} /\ \A k \in 2..Len(todo) : todo'[k] = todo[k]
  OBVIOUS
<1>2. \A k \in 1..Len(todo) : todo'[k] \subseteq todo[k] /\ todo[k] \subseteq todo'[k] \cup {s}
  <2> SUFFICES ASSUME NEW k \in 1..Len(todo)
               PROVE  todo'[k] \subseteq todo[k] /\ todo[k] \subseteq todo'[k] \cup {s}
    OBVIOUS
  <2>1. k = 1 \/ k \in 2..Len(todo) BY <1>1
  <2> QED BY <1>1, <2>1
<1> QED BY <1>1, <1>2 DEF Pending

\* One step of a load is through.
LEMMA NextPending ==
  ASSUME todo \in Seq(SUBSET (Batches \cup Others)), Len(todo) > 1, Head(todo) = {},
         todo' = Tail(todo)
  PROVE  /\ todo' \in Seq(SUBSET (Batches \cup Others)) /\ Len(todo') = Len(todo) - 1
         /\ \A k \in 1..(Len(todo) - 1) : todo'[k] = todo[k + 1]
         /\ Pending' = Pending
<1>1. /\ todo' \in Seq(SUBSET (Batches \cup Others)) /\ Len(todo') = Len(todo) - 1
      /\ \A k \in 1..(Len(todo) - 1) : todo'[k] = todo[k + 1]
      /\ todo[1] = {} /\ Len(todo) \in Nat
  OBVIOUS
<1>2. Pending' \subseteq Pending
  <2> SUFFICES ASSUME NEW k \in 1..Len(todo'), NEW x \in todo'[k] PROVE x \in Pending
    BY DEF Pending
  <2>1. k + 1 \in 1..Len(todo) /\ x \in todo[k + 1] BY <1>1
  <2> QED BY <2>1 DEF Pending
<1>3. Pending \subseteq Pending'
  <2> SUFFICES ASSUME NEW k \in 1..Len(todo), NEW x \in todo[k] PROVE x \in Pending'
    BY DEF Pending
  <2>1. k # 1 BY <1>1
  <2>2. k - 1 \in 1..Len(todo') /\ todo'[k - 1] = todo[(k - 1) + 1] /\ (k - 1) + 1 = k BY <1>1, <2>1
  <2> QED BY <2>2 DEF Pending
<1> QED BY <1>1, <1>2, <1>3

------------------------------------------------------------------------------
(* The calls. *)

LEMMA InitInv == Init => IInv
<1> SUFFICES ASSUME Init PROVE IInv OBVIOUS
<1>1. TypeOK
  <2>1. 0 \in 0..MaxCalls /\ {} \subseteq Items BY Neo4jAssumption
  <2>2. /\ open = FALSE /\ pc = "unasked" /\ op = "none" /\ todo = <<>> /\ calls = 0
        /\ conn = None /\ late = {} /\ graph = {} /\ fate = {}
        /\ promised = NoPromise /\ doubtful = FALSE /\ answer = NoAnswer
    BY DEF Init
  <2>3. NoPromise \in Promise BY <2>1 DEF NoPromise, Promise
  <2>4. NoAnswer \in
          [call : 0..MaxCalls, outcome : {"none", "ok", "coded", "plain", "timeout"},
           seen : SUBSET Items, promised : Promise, doubtful : BOOLEAN]
    BY <2>1, <2>3 DEF NoAnswer
  <2>5. None \in [call : 0..MaxCalls, part : Batches \cup Others \cup {"none"},
               at : {"none", "sent", "accepted", "refused", "done", "failed"},
               seen : SUBSET Items]
    BY <2>1 DEF None
  <2>6. <<>> \in Seq(SUBSET (Batches \cup Others)) OBVIOUS
  <2> QED BY <2>1, <2>2, <2>3, <2>4, <2>5, <2>6 DEF TypeOK
<1>2. TodoInv BY DEF Init, TodoInv
<1>3. CallInv BY DEF Init, CallInv
<1>4. ConnInv BY DEF Init, ConnInv, None, Running
<1>5. PromiserInv BY DEF Init, PromiserInv
<1>6. FateInv BY DEF Init, FateInv, NoAnswer
<1>7. BuiltInv BY DEF Init, BuiltInv, Kept
<1>8. SeenInv BY DEF Init, SeenInv, Kept
<1>9. AnsweredFromFixture BY DEF Init, AnsweredFromFixture, NoAnswer
<1> QED BY <1>1, <1>2, <1>3, <1>4, <1>5, <1>6, <1>7, <1>8, <1>9 DEF IInv

\* A call begins, and a load or a reset promises what it is to leave.
LEMMA RebuildStep ==
  ASSUME IInv, NEW which \in {"load", "reset"}, NEW steps, NEW f \in Fixtures \cup {{}},
         Begin(which, steps), Rebuild(f), steps \in Seq(SUBSET (Batches \cup Others)),
         Len(steps) >= 1, steps[1] = {"reset"},
         which = "reset" => Len(steps) = 1 /\ f = {},
         which = "load" => Len(steps) = 4 /\ \A k \in 1..4 : steps[k] = Steps(f)[k]
  PROVE  IInv'
<1>1. /\ pc = "idle" /\ calls < MaxCalls /\ pc' = "next" /\ op' = which /\ todo' = steps
      /\ calls' = calls + 1 /\ answer' = NoAnswer /\ fate' = {}
      /\ open' = open /\ conn' = conn /\ late' = late /\ graph' = graph
      /\ promised' = [by |-> calls + 1, parts |-> f] /\ doubtful' = (late # {})
  BY DEF Begin, Rebuild
<1>2. /\ calls \in 0..MaxCalls /\ MaxCalls \in Nat /\ op = "none" /\ todo = <<>>
      /\ conn.call \in 0..MaxCalls
  BY <1>1, Neo4jAssumption DEF IInv, TypeOK, CallInv, TodoInv
<1>3. /\ promised'.by = calls + 1 /\ promised'.parts = f /\ promised' # NoPromise
  BY <1>1, <1>2, Names
<1>4. TypeOK'
  <2>1. f \subseteq Batches BY Names
  <2>2. promised' \in Promise BY <1>1, <1>2, <2>1 DEF Promise
  <2>3. NoAnswer' = NoAnswer /\ answer' \in
          [call : 0..MaxCalls, outcome : {"none", "ok", "coded", "plain", "timeout"},
           seen : SUBSET Items, promised : Promise, doubtful : BOOLEAN]
    BY <1>1, <1>2 DEF NoAnswer, Promise, NoPromise
  <2> QED BY <1>1, <1>2, <2>2, <2>3 DEF IInv, TypeOK
<1>5. TodoInv'
  <2>1. CASE which = "reset"
    <3>1. op' = "reset" /\ Len(todo') = 1 /\ todo'[1] = {"reset"} /\ promised'.parts = {}
      BY <1>1, <1>3, <2>1
    <3> QED BY <3>1 DEF TodoInv
  <2>2. CASE which = "load"
    <3>1. op' = "load" /\ Len(todo') = 4 /\ \A k \in 1..4 : todo'[k] = Steps(f)[k]
      BY <1>1, <2>2
    <3>2. \A k \in 1..4 : 4 - Len(todo') + k = k BY <3>1
    <3> HIDE DEF Steps
    <3> QED BY <1>3, <3>1, <3>2 DEF TodoInv
  <2> QED BY <2>1, <2>2
<1>6. CallInv' BY <1>1, <1>2, <1>3 DEF CallInv
<1>7. ConnInv'
  BY <1>1, <1>2 DEF IInv, ConnInv, Running, CallInv, TypeOK, Statements
<1>8. PromiserInv'
  <2>1. "reset" \in Pending' BY <1>1 DEF Pending
  <2>2. conn'.call < promised'.by BY <1>1, <1>2, <1>3 DEF IInv, ConnInv
  <2> QED BY <1>2, <1>1, <1>3, <2>1, <2>2 DEF PromiserInv
<1>9. FateInv' BY <1>1 DEF FateInv, NoAnswer
<1>10. BuiltInv'
  <2>1. "reset" \in Pending' BY <1>1 DEF Pending
  <2> QED BY <1>1, <2>1 DEF BuiltInv, Kept
<1>11. SeenInv' BY <1>1 DEF SeenInv
<1>12. AnsweredFromFixture' BY <1>1 DEF AnsweredFromFixture, NoAnswer
<1> QED BY <1>4, <1>5, <1>6, <1>7, <1>8, <1>9, <1>10, <1>11, <1>12 DEF IInv

LEMMA BeginStep == IInv /\ ((\E f \in Fixtures : Load(f)) \/ Reset) => IInv'
<1>1. ASSUME IInv, NEW f \in Fixtures, Load(f) PROVE IInv'
  <2>1. PICK steps : steps = <<{"reset"}>> \o Parts(f) OBVIOUS
  <2>2. /\ steps \in Seq(SUBSET (Batches \cup Others)) /\ Len(steps) = 4
        /\ \A k \in 1..4 : steps[k] = Steps(f)[k]
        /\ steps[1] = {"reset"}
    BY <2>1, LoadSteps, ZenonT(30)
  <2>3. Begin("load", steps) /\ Rebuild(f) BY <1>1, <2>1, Zenon DEF Load
  <2> QED BY <1>1, <2>2, <2>3, RebuildStep
<1>2. ASSUME IInv, Reset PROVE IInv'
  <2>1. PICK steps : steps = <<{"reset"}>> OBVIOUS
  <2>2. /\ steps \in Seq(SUBSET (Batches \cup Others)) /\ Len(steps) = 1
        /\ steps[1] = {"reset"}
    BY <2>1 DEF Others
  <2>3. Begin("reset", steps) /\ Rebuild({}) BY <1>2, <2>1, Zenon DEF Reset
  <2> QED BY <1>2, <2>2, <2>3, RebuildStep
<1> QED BY <1>1, <1>2

LEMMA ExecStep == IInv /\ Exec => IInv'
<1> SUFFICES ASSUME IInv, Exec PROVE IInv' OBVIOUS
<1>1. /\ pc = "idle" /\ calls < MaxCalls /\ pc' = "next" /\ op' = "exec" /\ todo' = <<{"exec"}>>
      /\ calls' = calls + 1 /\ answer' = NoAnswer /\ fate' = {}
      /\ open' = open /\ conn' = conn /\ late' = late /\ graph' = graph
      /\ promised' = promised /\ doubtful' = doubtful
  BY DEF Exec, Begin
<1>2. /\ calls \in 0..MaxCalls /\ MaxCalls \in Nat /\ op = "none" /\ todo = <<>>
      /\ conn.call \in 0..MaxCalls /\ conn.call <= calls /\ promised.by \in 0..MaxCalls
  BY <1>1, Neo4jAssumption DEF IInv, TypeOK, CallInv, TodoInv, ConnInv, Promise
<1>3. Pending = {} /\ Pending' = {"exec"} /\ "exec" \notin Batches
  <2>1. Pending = {} BY <1>2, NothingPending
  <2>2. Pending' = {"exec"} BY <1>1 DEF Pending
  <2> QED BY <2>1, <2>2, Names DEF Others
<1>4. TypeOK'
  <2>1. answer' \in
          [call : 0..MaxCalls, outcome : {"none", "ok", "coded", "plain", "timeout"},
           seen : SUBSET Items, promised : Promise, doubtful : BOOLEAN]
    BY <1>1, <1>2 DEF NoAnswer, Promise, NoPromise
  <2>2. todo' \in Seq(SUBSET (Batches \cup Others)) BY <1>1 DEF Others
  <2> QED BY <1>1, <1>2, <2>1, <2>2 DEF IInv, TypeOK
<1>5. TodoInv' BY <1>1 DEF TodoInv
<1>6. CallInv'
  <2>1. promised.by <= calls
    <3>1. CASE promised = NoPromise BY <1>2, <3>1, Names
    <3>2. CASE promised # NoPromise BY <1>2, <3>2 DEF IInv, CallInv
    <3> QED BY <3>1, <3>2
  <2> QED BY <1>1, <1>2, <2>1 DEF IInv, CallInv
<1>7. ConnInv' BY <1>1, <1>2 DEF IInv, ConnInv, Running, CallInv, TypeOK, Statements
<1>8. PromiserInv'
  <2>1. PromiserInv BY DEF IInv
  <2>2. promised # NoPromise => promised.parts \subseteq Batches BY Names DEF IInv, CallInv
  <2> QED BY <1>1, <1>3, <2>1, <2>2 DEF PromiserInv
<1>9. FateInv'
  <2>1. \A s \in late : s.call < calls' BY <1>1, <1>2 DEF IInv, ConnInv, TypeOK, Statements
  <2> QED BY <1>1, <1>2, <2>1 DEF FateInv, NoAnswer, Running
<1>10. BuiltInv'
  <2>1. BuiltInv BY DEF IInv
  <2>2. \A b : Awaited(b)' = Awaited(b) BY <1>1 DEF Awaited
  <2>3. Kept' = Kept /\ graph' = graph /\ late' = late BY <1>1 DEF Kept
  <2> QED BY <1>1, <1>3, <2>1, <2>2, <2>3 DEF BuiltInv
<1>11. SeenInv' BY <1>1 DEF SeenInv
<1>12. AnsweredFromFixture' BY <1>1 DEF AnsweredFromFixture, NoAnswer
<1> QED BY <1>4, <1>5, <1>6, <1>7, <1>8, <1>9, <1>10, <1>11, <1>12 DEF IInv

------------------------------------------------------------------------------
(* The statements of a call. *)

\* No statement of the promise is in doubt between two statements.
LEMMA NoneAwaited ==
  ASSUME IInv, ~Running, pc # "run", promised # NoPromise
  PROVE  \A b : ~Awaited(b)
<1>1. conn.at \notin {"sent", "accepted"} BY DEF Running
<1>2. conn.call = promised.by /\ conn.at # "none" => conn.at # "refused"
  BY DEF IInv, PromiserInv
<1> QED BY <1>1, <1>2 DEF Awaited

LEMMA IssueStep == IInv /\ Issue => IInv'
<1> SUFFICES ASSUME IInv, Issue PROVE IInv' OBVIOUS
<1>1. PICK s \in Head(todo) :
        /\ conn' = [call |-> calls, part |-> s, at |-> "sent", seen |-> {}]
        /\ todo' = [todo EXCEPT ![1] = @ \ {s}]
  BY DEF Issue
<1>2. /\ pc = "next" /\ ~Running /\ pc' = "run" /\ op' = op /\ calls' = calls
      /\ late' = late /\ graph' = graph /\ fate' = fate /\ open' = TRUE
      /\ promised' = promised /\ doubtful' = doubtful /\ answer' = answer
  BY DEF Issue, ghost
<1>3. /\ TypeOK /\ TodoInv /\ CallInv /\ ConnInv /\ PromiserInv /\ FateInv /\ BuiltInv
      /\ op \in {"load", "reset", "exec"} /\ calls \in 0..MaxCalls /\ MaxCalls \in Nat
      /\ promised.by \in 0..MaxCalls
  BY <1>2, Neo4jAssumption DEF IInv, CallInv, TypeOK, Promise
<1>4. /\ todo \in Seq(SUBSET (Batches \cup Others)) /\ todo # <<>>
      /\ s \in Batches \cup Others
  <2>1. todo \in Seq(SUBSET (Batches \cup Others)) BY <1>3 DEF TypeOK
  <2>2. Len(todo) >= 1 BY <1>3, <2>1 DEF TodoInv
  <2> QED BY <1>1, <2>1, <2>2
<1>5. /\ todo' \in Seq(SUBSET (Batches \cup Others)) /\ Len(todo') = Len(todo)
      /\ todo'[1] = todo[1] \ {s} /\ \A k \in 2..Len(todo) : todo'[k] = todo[k]
      /\ Pending' \subseteq Pending /\ Pending \subseteq Pending' \cup {s}
  BY <1>1, <1>4, IssuedPending
<1>6. /\ op = "exec" => s = "exec"
      /\ op # "exec" =>
              /\ s \in promised.parts \cup {"reset", "index"}
              /\ s = "reset" => promised.parts \subseteq Pending
              /\ s \in Types => promised.parts \cap LabelSets \cap Pending = {}
  BY <1>1, <1>2, <1>3, Sends
<1>7. /\ conn'.call = calls /\ conn'.part = s /\ conn'.at = "sent"
  BY <1>1
<1>8. promised # NoPromise =>
        promised.parts \subseteq Batches /\ "reset" \notin promised.parts /\ "exec" \notin Batches
  BY <1>3, Names DEF CallInv, Others
<1>9. TypeOK'
  <2>1. conn' \in [call : 0..MaxCalls, part : Batches \cup Others \cup {"none"},
               at : {"none", "sent", "accepted", "refused", "done", "failed"},
               seen : SUBSET Items]
    BY <1>1, <1>3, <1>4
  <2> QED BY <1>2, <1>3, <1>5, <2>1 DEF TypeOK
<1>10. TodoInv'
  <2>1. CASE op \in {"exec", "reset"}
    <3>1. todo'[1] \subseteq todo[1] BY <1>5
    <3> QED BY <1>2, <1>3, <1>5, <2>1, <3>1 DEF TodoInv
  <2>2. CASE op = "load"
    <3>1. \A k \in 1..Len(todo) : todo'[k] \subseteq todo[k] /\ (k > 1 => todo'[k] = todo[k])
      <4>1. \A k \in 1..Len(todo) : k = 1 \/ k \in 2..Len(todo) BY <1>4
      <4> QED BY <1>5, <4>1
    <3> QED BY <1>2, <1>3, <1>5, <2>2, <3>1 DEF TodoInv
  <2> QED BY <1>3, <2>1, <2>2
<1>11. CallInv' BY <1>2, <1>3, <1>7 DEF CallInv
<1>12. ConnInv'
  <2>1. calls >= 1
    <3>1. CASE op = "exec" BY <1>3, <3>1, Typed DEF CallInv
    <3>2. CASE op # "exec" BY <1>3, <3>2 DEF CallInv
    <3> QED BY <3>1, <3>2
  <2>2. s = "exec" => op = "exec"
    <3>1. CASE op = "exec" BY <1>6, <3>1
    <3>2. CASE op # "exec"
      <4>1. promised # NoPromise BY <1>3, <3>2 DEF CallInv
      <4>2. s # "exec" BY <1>6, <1>8, <3>2, <4>1
      <4> QED BY <4>2
    <3> QED BY <3>1, <3>2
  <2>3. op = "exec" => s = "exec" BY <1>6
  <2> QED BY <1>2, <1>3, <1>4, <1>7, <2>1, <2>2, <2>3 DEF ConnInv, Running
<1>13. PromiserInv'
  <2> SUFFICES ASSUME promised # NoPromise PROVE PromiserInv' BY <1>2 DEF PromiserInv
  <2>1. promised.by <= calls BY <1>3 DEF CallInv
  <2>2. op = "exec" => promised.by < calls BY <1>3 DEF CallInv
  <2>3. op # "exec" => promised.by = calls BY <1>3 DEF CallInv
  <2>4. CASE op = "exec" BY <1>2, <1>3, <1>6, <1>7, <2>2, <2>4 DEF PromiserInv
  <2>5. CASE op # "exec" BY <1>2, <1>3, <1>5, <1>6, <1>7, <1>8, <2>3, <2>5 DEF PromiserInv
  <2> QED BY <2>4, <2>5
<1>14. FateInv' BY <1>2, <1>3, <1>7 DEF FateInv, NoAnswer
<1>15. BuiltInv'
  <2> SUFFICES ASSUME Kept, "reset" \notin Pending', ~Awaited("reset")'
               PROVE  /\ Only(graph, promised)
                      /\ \A b \in promised.parts :
                           b \in Pending' \/ Awaited(b)' \/ <<promised.by, b>> \in graph
    BY <1>2, <1>3 DEF BuiltInv, Kept, Only
  <2>1. promised # NoPromise /\ (\A b : ~Awaited(b)) BY <1>2, NoneAwaited DEF Kept
  <2>2. s # "reset"
    <3>1. CASE op = "exec" BY <1>6, <3>1
    <3>2. CASE op # "exec"
      <4>1. promised.by = calls BY <1>3, <3>2 DEF CallInv
      <4> QED BY <1>2, <1>7, <4>1 DEF Awaited
    <3> QED BY <3>1, <3>2
  <2>3. "reset" \notin Pending BY <1>5, <2>2
  <2>4. /\ Only(graph, promised)
        /\ \A b \in promised.parts : b \in Pending \/ <<promised.by, b>> \in graph
    BY <1>3, <2>1, <2>3 DEF BuiltInv
  <2>5. s \in promised.parts => Awaited(s)'
    <3>1. s \in promised.parts => op # "exec" BY <1>6, <1>8, <2>1
    <3>2. op # "exec" => promised.by = calls BY <1>3 DEF CallInv
    <3> QED BY <1>2, <1>7, <3>1, <3>2 DEF Awaited
  <2> QED BY <1>5, <2>4, <2>5
<1>16. SeenInv' BY <1>7 DEF SeenInv
<1>17. AnsweredFromFixture' BY <1>2 DEF IInv, AnsweredFromFixture
<1> QED BY <1>9, <1>10, <1>11, <1>12, <1>13, <1>14, <1>15, <1>16, <1>17 DEF IInv

\* What follows a change of neither the connection, nor what is still to be sent, nor the
\* graph and the promise.
LEMMA Unmoved ==
  ASSUME IInv, Pending' = Pending, UNCHANGED <<conn, late, graph, promised, doubtful>>
  PROVE  /\ BuiltInv'
         /\ (conn.at = "refused" => pc' = pc) => PromiserInv'
<1>1. \A b : Awaited(b)' = Awaited(b) BY DEF Awaited
<1>2. Kept' = Kept BY DEF Kept
<1>3. BuiltInv' BY <1>1, <1>2 DEF IInv, BuiltInv, Only
<1>4. (conn.at = "refused" => pc' = pc) => PromiserInv' BY DEF IInv, PromiserInv
<1> QED BY <1>3, <1>4

LEMMA NextPartStep == IInv /\ NextPart => IInv'
<1> SUFFICES ASSUME IInv, NextPart PROVE IInv' OBVIOUS
<1>1. /\ pc = "next" /\ Len(todo) > 1 /\ Head(todo) = {} /\ todo' = Tail(todo)
      /\ pc' = pc /\ op' = op /\ calls' = calls /\ conn' = conn
      /\ late' = late /\ graph' = graph /\ fate' = fate /\ open' = open
      /\ promised' = promised /\ doubtful' = doubtful /\ answer' = answer
  BY DEF NextPart, server, ghost
<1>2. /\ TypeOK /\ TodoInv /\ CallInv /\ ConnInv /\ FateInv /\ op \in {"load", "reset", "exec"}
      /\ todo \in Seq(SUBSET (Batches \cup Others))
  BY <1>1 DEF IInv, CallInv, TypeOK
<1>3. /\ todo' \in Seq(SUBSET (Batches \cup Others)) /\ Len(todo') = Len(todo) - 1
      /\ \A k \in 1..(Len(todo) - 1) : todo'[k] = todo[k + 1]
      /\ Pending' = Pending
  BY <1>1, <1>2, NextPending
<1>4. op = "load" BY <1>1, <1>2 DEF TodoInv
<1>5. TypeOK' BY <1>1, <1>2, <1>3 DEF TypeOK
<1>6. TodoInv'
  <2>1. /\ Len(todo) \in 2..4
        /\ \A k \in 2..Len(todo) : todo[k] = Steps(promised.parts)[4 - Len(todo) + k]
    BY <1>1, <1>2, <1>4 DEF TodoInv
  <2>2. ASSUME NEW k \in 1..Len(todo')
        PROVE  todo'[k] = Steps(promised.parts)[4 - Len(todo') + k]
    <3>1. k + 1 \in 2..Len(todo) /\ 4 - Len(todo) + (k + 1) = 4 - Len(todo') + k
      BY <1>3, <2>1
    <3>2. todo'[k] = todo[k + 1] BY <1>3, <2>1
    <3>3. todo[k + 1] = Steps(promised.parts)[4 - Len(todo) + (k + 1)] BY <2>1, <3>1
    <3> QED BY <3>1, <3>2, <3>3
  <2>3. Len(todo') \in 1..4 BY <1>3, <2>1
  <2> QED BY <1>1, <1>4, <2>2, <2>3 DEF TodoInv
<1>7. CallInv' BY <1>1, <1>2 DEF CallInv
<1>8. ConnInv' BY <1>1, <1>2 DEF ConnInv, Running
<1>9. PromiserInv' /\ BuiltInv' BY <1>1, <1>3, Unmoved
<1>10. FateInv' BY <1>1, <1>2, <1>4 DEF FateInv, Running, NoAnswer
<1>11. SeenInv' BY <1>1 DEF SeenInv
<1>12. AnsweredFromFixture' BY <1>1 DEF IInv, AnsweredFromFixture
<1> QED BY <1>5, <1>6, <1>7, <1>8, <1>9, <1>10, <1>11, <1>12 DEF IInv

LEMMA DoneStep == IInv /\ Done => IInv'
<1> SUFFICES ASSUME IInv, Done PROVE IInv' OBVIOUS
<1>1. /\ pc = "next" /\ todo = <<{}>> /\ todo' = <<>> /\ pc' = "idle" /\ op' = "none"
      /\ calls' = calls /\ conn' = conn
      /\ late' = late /\ graph' = graph /\ fate' = fate /\ open' = open
      /\ promised' = promised /\ doubtful' = doubtful /\ answer' = answer
  BY DEF Done, server, ghost
<1>2. /\ TypeOK /\ TodoInv /\ CallInv /\ ConnInv /\ FateInv /\ op \in {"load", "reset"}
      /\ answer = NoAnswer
  <2>1. op \in {"load", "reset", "exec"} /\ answer = NoAnswer
    BY <1>1 DEF IInv, CallInv, TypeOK, FateInv
  <2>2. op # "exec"
    <3>1. <<{}>>[1] # <<{"exec"}>>[1] OBVIOUS
    <3> QED BY <1>1, <3>1 DEF IInv, FateInv
  <2> QED BY <2>1, <2>2 DEF IInv
<1>3. Pending' = Pending
  <2>1. Pending = {} BY <1>1 DEF Pending
  <2>2. Pending' = {} BY <1>1 DEF Pending
  <2> QED BY <2>1, <2>2
<1>4. TypeOK'
  <2>1. <<>> \in Seq(SUBSET (Batches \cup Others)) OBVIOUS
  <2> QED BY <1>1, <1>2, <2>1 DEF TypeOK
<1>5. TodoInv' BY <1>1 DEF TodoInv
<1>6. CallInv' BY <1>1, <1>2 DEF CallInv
<1>7. ConnInv' BY <1>1, <1>2 DEF ConnInv, Running
<1>8. BuiltInv' BY <1>1, <1>3, Unmoved
<1>9. PromiserInv' BY <1>1, <1>2, <1>3 DEF IInv, PromiserInv
<1>10. FateInv' BY <1>1, <1>2 DEF FateInv, NoAnswer
<1>11. SeenInv' BY <1>1 DEF SeenInv
<1>12. AnsweredFromFixture' BY <1>1 DEF IInv, AnsweredFromFixture
<1> QED BY <1>4, <1>5, <1>6, <1>7, <1>8, <1>9, <1>10, <1>11, <1>12 DEF IInv

LEMMA RunReturnsStep == IInv /\ RunReturns => IInv'
<1> SUFFICES ASSUME IInv, RunReturns PROVE IInv' OBVIOUS
<1>1. /\ pc = "run" /\ conn.at \in {"accepted", "done", "failed"}
      /\ pc' = IF op = "exec" THEN "collect" ELSE "next"
      /\ todo' = todo /\ op' = op /\ calls' = calls /\ conn' = conn
      /\ late' = late /\ graph' = graph /\ fate' = fate /\ open' = open
      /\ promised' = promised /\ doubtful' = doubtful /\ answer' = answer
  BY DEF RunReturns, server, ghost
<1>2. TypeOK /\ TodoInv /\ CallInv /\ ConnInv /\ FateInv BY DEF IInv
<1>3. Pending' = Pending BY <1>1, SamePending
<1>4. TypeOK' BY <1>1, <1>2 DEF TypeOK
<1>5. TodoInv' BY <1>1, <1>2 DEF TodoInv
<1>6. CallInv' BY <1>1, <1>2 DEF CallInv
<1>7. ConnInv' BY <1>1, <1>2 DEF ConnInv, Running
<1>8. PromiserInv' /\ BuiltInv' BY <1>1, <1>3, Unmoved
<1>9. FateInv' BY <1>1, <1>2 DEF FateInv, Running, NoAnswer
<1>10. SeenInv' BY <1>1 DEF IInv, SeenInv, Kept, Whole, Only
<1>11. AnsweredFromFixture' BY <1>1 DEF IInv, AnsweredFromFixture
<1> QED BY <1>4, <1>5, <1>6, <1>7, <1>8, <1>9, <1>10, <1>11 DEF IInv

------------------------------------------------------------------------------
(* The ends of a call. *)

LEMMA ReturnTypes ==
  ASSUME IInv, NEW outcome \in {"ok", "coded", "plain", "timeout"}, Return(outcome)
  PROVE  /\ pc' = "idle" /\ op' = "none" /\ todo' = <<>> /\ Pending' = {}
         /\ open' = open /\ calls' = calls
         /\ TodoInv' /\ (op = "exec" => promised' = promised)
         /\ (op # "exec" => promised' = NoPromise /\ answer' = answer)
         /\ todo' \in Seq(SUBSET (Batches \cup Others)) /\ promised' \in Promise
         /\ answer' \in
              [call : 0..MaxCalls, outcome : {"none", "ok", "coded", "plain", "timeout"},
               seen : SUBSET Items, promised : Promise, doubtful : BOOLEAN]
         /\ op = "exec" => /\ answer'.outcome = outcome /\ answer'.seen = conn.seen
                           /\ answer'.promised = promised /\ answer'.doubtful = doubtful
<1>1. /\ pc' = "idle" /\ op' = "none" /\ todo' = <<>> /\ open' = open /\ calls' = calls
      /\ op = "exec" =>
           /\ answer' = [call |-> calls, outcome |-> outcome, seen |-> conn.seen,
                         promised |-> promised, doubtful |-> doubtful]
           /\ promised' = promised
      /\ op # "exec" => promised' = NoPromise /\ answer' = answer
  BY DEF Return
<1>2. Pending' = {} BY <1>1 DEF Pending
<1>3. TodoInv' BY <1>1 DEF TodoInv
<1>4. /\ calls \in 0..MaxCalls /\ conn.seen \in SUBSET Items /\ promised \in Promise
      /\ doubtful \in BOOLEAN /\ NoPromise \in Promise
      /\ answer \in
              [call : 0..MaxCalls, outcome : {"none", "ok", "coded", "plain", "timeout"},
               seen : SUBSET Items, promised : Promise, doubtful : BOOLEAN]
  <2>1. NoPromise \in Promise BY Neo4jAssumption DEF Promise, NoPromise
  <2> QED BY <2>1 DEF IInv, TypeOK
<1>5. answer' \in
              [call : 0..MaxCalls, outcome : {"none", "ok", "coded", "plain", "timeout"},
               seen : SUBSET Items, promised : Promise, doubtful : BOOLEAN]
  BY <1>1, <1>4
<1>6. <<>> \in Seq(SUBSET (Batches \cup Others)) OBVIOUS
<1> QED BY <1>1, <1>2, <1>3, <1>4, <1>5, <1>6

\* An Exec has no batch to send.
LEMMA ExecPending ==
  ASSUME IInv, op = "exec"
  PROVE  "reset" \notin Pending /\ Pending \cap Batches = {}
<1>1. Len(todo) = 1 /\ todo[1] \subseteq {"exec"} BY DEF IInv, TodoInv
<1>2. Pending \subseteq {"exec"} BY <1>1 DEF Pending
<1>3. "exec" \notin Batches BY Names DEF Others
<1> QED BY <1>2, <1>3

\* The server or the values ended it.
LEMMA QuietReturn ==
  ASSUME IInv, NEW outcome \in {"ok", "coded", "plain"}, Return(outcome),
         UNCHANGED <<server, doubtful>>, pc \in {"next", "run", "collect"},
         op = "exec" /\ outcome = "ok" => pc = "collect" /\ conn.at = "done",
         op = "exec" /\ outcome = "coded" =>
           pc \in {"run", "collect"} /\ conn.at \in {"refused", "failed"},
         op = "exec" => pc # "next" /\ outcome # "plain", conn.at # "sent"
  PROVE  IInv'
<1>1. /\ pc' = "idle" /\ op' = "none" /\ todo' = <<>> /\ Pending' = {}
      /\ open' = open /\ calls' = calls
      /\ TodoInv' /\ (op = "exec" => promised' = promised)
      /\ (op # "exec" => promised' = NoPromise /\ answer' = answer)
      /\ todo' \in Seq(SUBSET (Batches \cup Others)) /\ promised' \in Promise
      /\ answer' \in
              [call : 0..MaxCalls, outcome : {"none", "ok", "coded", "plain", "timeout"},
               seen : SUBSET Items, promised : Promise, doubtful : BOOLEAN]
      /\ op = "exec" => /\ answer'.outcome = outcome /\ answer'.seen = conn.seen
                        /\ answer'.promised = promised /\ answer'.doubtful = doubtful
  BY ReturnTypes
<1>2. /\ conn' = conn /\ late' = late /\ graph' = graph /\ fate' = fate
      /\ doubtful' = doubtful
  BY DEF server
<1>3. /\ TypeOK /\ CallInv /\ ConnInv /\ PromiserInv /\ FateInv /\ BuiltInv /\ SeenInv
      /\ op \in {"load", "reset", "exec"}
  BY DEF IInv, CallInv, TypeOK
<1>4. TypeOK' BY <1>1, <1>2, <1>3 DEF TypeOK
<1>5. CallInv' BY <1>1, <1>2, <1>3 DEF CallInv
<1>6. ConnInv'
  <2>1. Running /\ conn.part = "exec" => op = "exec" /\ conn.call = calls BY <1>3 DEF ConnInv
  <2>2. op = "exec" => ~Running
    BY DEF Running
  <2> QED BY <1>1, <1>2, <1>3, <2>1, <2>2 DEF ConnInv, Running
<1>7. PromiserInv'
  <2>1. CASE op # "exec" BY <1>1, <2>1 DEF PromiserInv
  <2>2. CASE op = "exec"
    <3>1. "reset" \notin Pending /\ Pending \cap Batches = {} BY <2>2, ExecPending
    <3>2. promised # NoPromise => promised.parts \subseteq Batches BY <1>3, Names DEF CallInv
    <3>3. promised # NoPromise => (conn.call = promised.by => conn.call # calls)
      <4>1. promised.by \in Nat /\ calls \in Nat /\ promised.by < calls
        BY <1>3, <2>2, Typed DEF CallInv
      <4> QED BY <4>1
    <3>4. pc \in {"run", "collect"} => conn.call = calls BY <1>3 DEF CallInv
    <3> QED BY <1>1, <1>2, <1>3, <2>2, <3>1, <3>2, <3>3, <3>4 DEF PromiserInv
  <2> QED BY <2>1, <2>2
<1>8. FateInv'
  <2>1. CASE op # "exec" BY <1>1, <1>2, <1>3, <2>1 DEF FateInv, NoAnswer
  <2>2. CASE op = "exec"
    <3>1. outcome = "ok" => fate = {"committed"} BY <1>3, <2>2 DEF FateInv
    <3>2. outcome = "coded" => fate = {"refused"} /\ ~Running BY <1>3, <2>2 DEF FateInv, Running
    <3>3. \A s \in late : s.call < calls BY <1>3, <2>2 DEF FateInv
    <3> QED BY <1>1, <1>2, <2>2, <3>1, <3>2, <3>3 DEF FateInv, Running
  <2> QED BY <2>1, <2>2
<1>9. BuiltInv'
  <2>1. CASE op # "exec" BY <1>1, <2>1 DEF BuiltInv, Kept
  <2>2. CASE op = "exec"
    <3>1. "reset" \notin Pending /\ Pending \cap Batches = {} BY <2>2, ExecPending
    <3>2. promised # NoPromise => promised.parts \subseteq Batches BY <1>3, Names DEF CallInv
    <3>3. promised' = promised /\ \A b : Awaited(b)' = Awaited(b) BY <1>1, <1>2, <2>2 DEF Awaited
    <3> QED BY <1>1, <1>2, <1>3, <3>1, <3>2, <3>3 DEF BuiltInv, Kept, Only
  <2> QED BY <2>1, <2>2
<1>10. SeenInv' BY <1>1 DEF SeenInv
<1>11. AnsweredFromFixture'
  <2>1. CASE op # "exec" BY <1>1, <2>1 DEF IInv, AnsweredFromFixture
  <2>2. CASE op = "exec"
    <3>1. outcome = "ok" /\ promised # NoPromise /\ ~doubtful => Whole(conn.seen, promised)
      BY <1>3, <2>2 DEF SeenInv, Kept
    <3> QED BY <1>1, <2>2, <3>1 DEF AnsweredFromFixture, Whole, Only
  <2> QED BY <2>1, <2>2
<1> QED BY <1>1, <1>4, <1>5, <1>6, <1>7, <1>8, <1>9, <1>10, <1>11 DEF IInv

LEMMA ReturnStep == IInv /\ (RunRefused \/ Unconvertible \/ Collect) => IInv'
<1>1. ASSUME IInv, RunRefused PROVE IInv'
  <2>1. pc = "run" /\ conn.at = "refused" /\ Return("coded") /\ UNCHANGED <<server, doubtful>>
    BY <1>1 DEF RunRefused
  <2> QED BY <1>1, <2>1, QuietReturn
<1>2. ASSUME IInv, Unconvertible PROVE IInv'
  <2>1. pc = "next" /\ op = "load" /\ Return("plain") /\ UNCHANGED <<server, doubtful>>
    BY <1>2 DEF Unconvertible
  <2>2. conn.at # "sent" BY <1>2, <2>1 DEF IInv, ConnInv
  <2> QED BY <1>2, <2>1, <2>2, QuietReturn
<1>3. ASSUME IInv, Collect PROVE IInv'
  <2>1. /\ pc = "collect" /\ UNCHANGED <<server, doubtful>>
        /\ (conn.at = "done" /\ Return("ok")) \/ (conn.at = "failed" /\ Return("coded"))
    BY <1>3 DEF Collect, Collected
  <2> QED BY <1>3, <2>1, QuietReturn
<1> QED BY <1>1, <1>2, <1>3

\* Every connection that is given up in the middle of a batch leaves a doubt, and in the
\* middle of an Exec the Exec's statement, which comes after what was promised.
LEMMA GivenUp ==
  ASSUME IInv, GiveUp
  PROVE  /\ conn' = None /\ graph' = graph /\ fate' = fate /\ late' \subseteq Statements
         /\ late \subseteq late' /\ doubtful' \in BOOLEAN /\ (doubtful => doubtful')
         /\ \A s \in late' : s.call <= calls
         /\ Running /\ ~(op = "exec" /\ conn.call = calls) => doubtful'
         /\ \A s \in late' : s \in late \/ (Running /\ s.call = conn.call /\ s.part = conn.part)
<1>1. /\ conn' = None /\ graph' = graph /\ fate' = fate
      /\ late' = IF Running /\ Cardinality(late) < MaxLate
             THEN late \cup {[call |-> conn.call, part |-> conn.part]} ELSE late
      /\ doubtful' = (doubtful \/ (Running /\ conn.part # "exec"))
  BY DEF GiveUp
<1>2. /\ TypeOK /\ ConnInv /\ doubtful \in BOOLEAN /\ late \subseteq Statements
  BY DEF IInv, TypeOK
<1>3. Running => conn.call \in 1..MaxCalls /\ conn.part \in Batches \cup Others
  BY <1>2, Typed DEF ConnInv, Running
<1>4. late' \subseteq late \cup {s \in Statements : Running /\ s.call = conn.call /\ s.part = conn.part}
  <2>1. Running => [call |-> conn.call, part |-> conn.part] \in Statements
    BY <1>3 DEF Statements
  <2> QED BY <1>1, <2>1
<1>5. late \subseteq late' BY <1>1
<1>6. conn.call <= calls /\ \A s \in late : s.call <= calls BY <1>2 DEF ConnInv
<1>7. Running /\ conn.part = "exec" => op = "exec" /\ conn.call = calls BY <1>2 DEF ConnInv
<1> QED BY <1>1, <1>2, <1>4, <1>5, <1>6, <1>7

\* The connection of an Exec that is sending is that of its statement.
LEMMA OfExec ==
  ASSUME IInv, op = "exec", pc \in {"run", "collect"}
  PROVE  /\ conn.call = calls /\ conn.part = "exec" /\ promised.by < calls
         /\ \A b : ~Awaited(b)
<1>1. conn.call = calls /\ conn.at # "none" /\ promised.by < calls BY DEF IInv, CallInv
<1>2. conn.part = "exec" BY <1>1 DEF IInv, ConnInv
<1>3. promised.by \in Nat /\ calls \in Nat BY Typed DEF IInv
<1>4. conn.call # promised.by BY <1>1, <1>3
<1> QED BY <1>1, <1>2, <1>4 DEF Awaited

LEMMA GiveUpReturn ==
  ASSUME IInv, GiveUp, NEW outcome \in {"plain", "timeout"}, Return(outcome),
         pc \in {"next", "run", "collect"}, pc = "next" => Running
  PROVE  IInv'
<1>1. /\ pc' = "idle" /\ op' = "none" /\ todo' = <<>> /\ Pending' = {}
      /\ open' = open /\ calls' = calls
      /\ TodoInv' /\ (op = "exec" => promised' = promised)
      /\ (op # "exec" => promised' = NoPromise /\ answer' = answer)
      /\ todo' \in Seq(SUBSET (Batches \cup Others)) /\ promised' \in Promise
      /\ answer' \in
              [call : 0..MaxCalls, outcome : {"none", "ok", "coded", "plain", "timeout"},
               seen : SUBSET Items, promised : Promise, doubtful : BOOLEAN]
      /\ op = "exec" => answer'.outcome = outcome
  BY ReturnTypes
<1>2. /\ conn' = None /\ graph' = graph /\ fate' = fate /\ late' \subseteq Statements
      /\ doubtful' \in BOOLEAN /\ (doubtful => doubtful')
      /\ \A s \in late' : s.call <= calls
      /\ Running /\ ~(op = "exec" /\ conn.call = calls) => doubtful'
      /\ \A s \in late' : s \in late \/ (Running /\ s.call = conn.call /\ s.part = conn.part)
  BY GivenUp
<1>3. /\ TypeOK /\ CallInv /\ ConnInv /\ FateInv /\ BuiltInv
      /\ op \in {"load", "reset", "exec"} /\ answer.outcome = "none"
      /\ None.call = 0 /\ None.at = "none"
  <2>1. TypeOK /\ CallInv /\ ConnInv /\ FateInv /\ BuiltInv BY DEF IInv
  <2>2. op # "none" BY <2>1 DEF CallInv
  <2>3. op \in {"load", "reset", "exec"} BY <2>1, <2>2 DEF TypeOK
  <2>4. answer.outcome = "none" BY <2>1, <2>2 DEF FateInv, NoAnswer
  <2> QED BY <2>1, <2>3, <2>4 DEF None
<1>4. TypeOK'
  <2>1. None \in [call : 0..MaxCalls, part : Batches \cup Others \cup {"none"},
               at : {"none", "sent", "accepted", "refused", "done", "failed"},
               seen : SUBSET Items]
    BY Neo4jAssumption DEF None
  <2> QED BY <1>1, <1>2, <1>3, <2>1 DEF TypeOK
<1>5. CallInv' BY <1>1, <1>3 DEF CallInv
<1>6. ConnInv'
  <2>1. calls \in Nat /\ None' = None BY <1>3, Typed DEF None
  <2> QED BY <1>1, <1>2, <1>3, <2>1 DEF ConnInv, Running
<1>7. PromiserInv' BY <1>2, <1>3 DEF PromiserInv
<1>8. FateInv' BY <1>1, <1>3 DEF FateInv
<1>9. BuiltInv'
  <2>1. CASE op # "exec" BY <1>1, <2>1 DEF BuiltInv, Kept
  <2>2. CASE op = "exec"
    <3> SUFFICES ASSUME Kept' PROVE BuiltInv' BY DEF BuiltInv
    <3>1. promised' = promised /\ Kept BY <1>1, <1>2, <2>2 DEF Kept
    <3>2. pc # "next"
      <4>1. pc = "next" => Running /\ conn.call < calls BY <1>3, <2>2 DEF FateInv
      <4>2. conn.call < calls => conn.call # calls BY <1>3, Typed
      <4> QED BY <1>2, <4>1, <4>2 DEF Kept
    <3>3. /\ conn.call = calls /\ conn.part = "exec" /\ promised.by < calls
          /\ \A b : ~Awaited(b)
      BY <2>2, <3>2, OfExec
    <3>4. "reset" \notin Pending /\ Pending \cap Batches = {} BY <2>2, ExecPending
    <3>5. promised.parts \subseteq Batches BY <1>3, Typed
    <3>6. Only(graph, promised) /\ \A b \in promised.parts : <<promised.by, b>> \in graph
      BY <1>3, <3>1, <3>3, <3>4, <3>5 DEF BuiltInv
    <3>7. \A s \in late' : s.part = "exec" /\ s.call > promised.by
      <4>1. \A s \in late : s.part = "exec" /\ s.call > promised.by BY <1>3, <3>1 DEF BuiltInv
      <4>2. calls > promised.by BY <1>3, <3>3, Typed
      <4> QED BY <1>2, <3>3, <4>1, <4>2
    <3> QED BY <1>2, <3>1, <3>6, <3>7 DEF BuiltInv, Only
  <2> QED BY <2>1, <2>2
<1>10. SeenInv' BY <1>1 DEF SeenInv
<1>11. AnsweredFromFixture' BY <1>1, <1>3 DEF AnsweredFromFixture
<1> QED BY <1>1, <1>4, <1>5, <1>6, <1>7, <1>8, <1>9, <1>10, <1>11 DEF IInv

LEMMA EndingStep == IInv /\ (Deadline \/ Lose) => IInv'
<1>1. ASSUME IInv, Deadline PROVE IInv'
  <2>1. pc \in {"next", "run", "collect"} /\ (pc = "next" => Running)
        /\ GiveUp /\ Return("timeout")
    BY <1>1 DEF Deadline, Waits
  <2> QED BY <1>1, <2>1, GiveUpReturn
<1>2. ASSUME IInv, Lose PROVE IInv'
  <2>1. pc \in {"run", "collect"} /\ GiveUp /\ Return("plain") BY <1>2 DEF Lose
  <2> QED BY <1>2, <2>1, GiveUpReturn
<1> QED BY <1>1, <1>2

------------------------------------------------------------------------------
(* Beside the calls. *)

LEMMA LoseUnreadStep == IInv /\ LoseUnread => IInv'
<1> SUFFICES ASSUME IInv, LoseUnread PROVE IInv' OBVIOUS
<1>1. /\ pc \in {"next", "idle", "closing"} /\ Running /\ GiveUp
      /\ pc' = (IF pc = "closing" THEN "idle" ELSE pc)
      /\ open' = (IF pc = "closing" THEN FALSE ELSE open)
      /\ op' = op /\ todo' = todo /\ calls' = calls /\ promised' = promised /\ answer' = answer
  BY DEF LoseUnread
<1>2. /\ conn' = None /\ graph' = graph /\ fate' = fate /\ late' \subseteq Statements
      /\ doubtful' \in BOOLEAN /\ (doubtful => doubtful')
      /\ \A s \in late' : s.call <= calls
      /\ Running /\ ~(op = "exec" /\ conn.call = calls) => doubtful'
      /\ \A s \in late' : s \in late \/ (Running /\ s.call = conn.call /\ s.part = conn.part)
  BY <1>1, GivenUp
<1>3. /\ TypeOK /\ TodoInv /\ CallInv /\ ConnInv /\ FateInv
      /\ None.call = 0 /\ None.at = "none" /\ calls \in Nat /\ conn.call \in Nat
  BY Typed DEF IInv, None
<1>4. doubtful'
  <2>1. op = "exec" => conn.call < calls BY <1>1, <1>3 DEF CallInv, FateInv
  <2> QED BY <1>1, <1>2, <1>3, <2>1
<1>5. TypeOK'
  <2>1. None \in [call : 0..MaxCalls, part : Batches \cup Others \cup {"none"},
               at : {"none", "sent", "accepted", "refused", "done", "failed"},
               seen : SUBSET Items]
    BY Neo4jAssumption DEF None
  <2> QED BY <1>1, <1>2, <1>3, <2>1 DEF TypeOK
<1>6. TodoInv' BY <1>1, <1>3 DEF TodoInv
<1>7. CallInv' BY <1>1, <1>3 DEF CallInv
<1>8. ConnInv' BY <1>1, <1>2, <1>3 DEF ConnInv, Running, None
<1>9. PromiserInv' BY <1>2, <1>3 DEF PromiserInv
<1>10. FateInv'
  <2>1. op = "exec" => pc = "next" /\ conn.call < calls /\ \A s \in late : s.call < calls
    BY <1>1, <1>3 DEF CallInv, FateInv
  <2>2. answer.outcome = "coded" => conn.call < calls /\ \A s \in late : s.call < calls
    BY <1>1, <1>3 DEF FateInv
  <2>3. ~Running' BY <1>2, <1>3 DEF Running
  <2>4. conn.call < calls /\ (\A s \in late : s.call < calls) => \A s \in late' : s.call < calls
    BY <1>2
  <2>5. op = "exec" => fate = {} /\ todo = <<{"exec"}>> /\ 0 < calls
    BY <1>3, <2>1 DEF FateInv
  <2> QED BY <1>1, <1>2, <1>3, <2>1, <2>2, <2>3, <2>4, <2>5 DEF FateInv, NoAnswer
<1>11. BuiltInv' BY <1>4 DEF BuiltInv, Kept
<1>12. SeenInv' BY <1>4 DEF SeenInv, Kept
<1>13. AnsweredFromFixture' BY <1>1 DEF IInv, AnsweredFromFixture
<1> QED BY <1>5, <1>6, <1>7, <1>8, <1>9, <1>10, <1>11, <1>12, <1>13 DEF IInv

\* Before the first call, and when the session is closed.
LEMMA OutsideStep == IInv /\ (Version \/ Close \/ Closed) => IInv'
<1> SUFFICES ASSUME IInv, Version \/ Close \/ Closed PROVE IInv' OBVIOUS
<1>1. /\ pc \in {"unasked", "idle", "closing"}
      /\ pc' \in {"idle", "turned away", "closing"} /\ open' \in BOOLEAN
      /\ op' = op /\ todo' = todo /\ calls' = calls /\ late' = late /\ graph' = graph
      /\ fate' = fate /\ promised' = promised /\ doubtful' = doubtful /\ answer' = answer
      /\ conn' = conn \/ (conn' = None /\ ~Running)
  BY DEF Version, Close, Closed, server, ghost, IInv, TypeOK
<1>2. /\ TypeOK /\ TodoInv /\ CallInv /\ ConnInv /\ FateInv /\ PromiserInv /\ op = "none"
      /\ None.call = 0 /\ None.at = "none" /\ calls \in Nat
  BY <1>1, Typed DEF IInv, CallInv, None
<1>3. Pending' = Pending BY <1>1, SamePending
<1>4. TypeOK'
  <2>1. None \in [call : 0..MaxCalls, part : Batches \cup Others \cup {"none"},
               at : {"none", "sent", "accepted", "refused", "done", "failed"},
               seen : SUBSET Items]
    BY Neo4jAssumption DEF None
  <2> QED BY <1>1, <1>2, <2>1 DEF TypeOK
<1>5. TodoInv' BY <1>1, <1>2 DEF TodoInv
<1>6. CallInv' BY <1>1, <1>2 DEF CallInv
<1>7. ConnInv'
  <2>1. conn.at # "sent" BY <1>1, <1>2 DEF ConnInv
  <2>2. ~(Running /\ conn.part = "exec") BY <1>2 DEF ConnInv
  <2>3. CASE conn' = conn BY <1>1, <1>2, <2>1, <2>2, <2>3 DEF ConnInv, Running
  <2>4. CASE conn' = None
    <3>1. conn'.at = "none" /\ conn'.call = 0 /\ conn'.at # "sent" /\ ~Running' BY <1>2, <2>4 DEF Running
    <3>2. op' = "none" /\ \A s \in late' : s.call <= calls' BY <1>1, <1>2 DEF ConnInv
    <3>3. conn'.call <= calls'
      <4>1. calls' = calls /\ calls \in Nat BY <1>1, <1>2
      <4>2. conn'.call = 0 BY <3>1
      <4> QED BY <4>1, <4>2
    <3>4. conn' = None' BY <2>4
    <3> QED BY <3>1, <3>2, <3>3, <3>4, Zenon DEF ConnInv
  <2> QED BY <1>1, <2>3, <2>4
<1>8. PromiserInv'
  <2>1. CASE conn' = conn BY <1>1, <1>2, <1>3, <2>1 DEF PromiserInv
  <2>2. CASE conn' = None BY <1>2, <2>2 DEF PromiserInv
  <2> QED BY <1>1, <2>1, <2>2
<1>9. FateInv' BY <1>1, <1>2 DEF FateInv, Running
<1>10. BuiltInv'
  <2>1. promised # NoPromise => \A b : Awaited(b)' = Awaited(b)
    <3>1. CASE conn' = conn BY <1>1, <3>1 DEF Awaited
    <3>2. CASE conn' = None /\ ~Running
      <4>1. promised # NoPromise => \A b : ~Awaited(b) BY <1>1, <3>2, NoneAwaited
      <4>2. \A b : ~Awaited(b)' BY <1>2, <3>2 DEF Awaited
      <4> SUFFICES ASSUME promised # NoPromise, NEW b PROVE Awaited(b)' = Awaited(b)
        OBVIOUS
      <4>3. ~Awaited(b) /\ ~Awaited(b)' BY <4>1, <4>2
      <4> QED BY <4>3 DEF Awaited
    <3> QED BY <1>1, <3>1, <3>2
  <2> QED BY <1>1, <1>3, <2>1 DEF IInv, BuiltInv, Kept, Only
<1>11. SeenInv' BY <1>1, <1>2 DEF SeenInv
<1>12. AnsweredFromFixture' BY <1>1 DEF IInv, AnsweredFromFixture
<1> QED BY <1>4, <1>5, <1>6, <1>7, <1>8, <1>9, <1>10, <1>11, <1>12 DEF IInv

------------------------------------------------------------------------------
(* The server. *)

LEMMA EffectOf ==
  ASSUME NEW s
  PROVE  /\ Effect(s) \subseteq graph \cup {<<s.call, s.part>>}
         /\ s.part = "reset" => Effect(s) = {}
         /\ s.part = "index" => Effect(s) = graph
         /\ s.part \notin Types \cup {"reset", "index"} =>
              Effect(s) = graph \cup {<<s.call, s.part>>}
         /\ s.part \in Types /\ (\A b \in Ends[s.part] : \E c \in 1..MaxCalls : <<c, b>> \in graph) =>
              Effect(s) = graph \cup {<<s.call, s.part>>}
<1> DEFINE ends == \A b \in Ends[s.part] : \E c \in 1..MaxCalls : <<c, b>> \in graph
<1>1. Effect(s) = CASE s.part = "reset" -> {}
    [] s.part = "index" -> graph
    [] s.part \in Types /\ ~ends -> graph
    [] OTHER -> graph \cup {<<s.call, s.part>>}
  BY DEF Effect
<1>2. s.part \in Types => s.part # "reset" /\ s.part # "index" BY Names DEF Others, Batches
<1> HIDE DEF ends
<1>3. /\ Effect(s) \subseteq graph \cup {<<s.call, s.part>>}
      /\ s.part = "reset" => Effect(s) = {}
      /\ s.part = "index" => Effect(s) = graph
      /\ s.part \notin Types \cup {"reset", "index"} => Effect(s) = graph \cup {<<s.call, s.part>>}
      /\ s.part \in Types /\ ends => Effect(s) = graph \cup {<<s.call, s.part>>}
  BY <1>1, <1>2
<1> QED BY <1>3 DEF ends

LEMMA EffectTypes ==
  ASSUME TypeOK, NEW s, s.call \in 1..MaxCalls, s.part \in Batches \cup Others
  PROVE  Effect(s) \subseteq Items
<1>1. graph \subseteq Items BY DEF TypeOK
<1>2. CASE s.part \in {"reset", "index"} BY <1>1, <1>2, EffectOf
<1>3. CASE s.part \in Batches \cup {"exec"}
  <2>1. <<s.call, s.part>> \in Items BY <1>3 DEF Items
  <2> QED BY <1>1, <2>1, EffectOf
<1> QED BY <1>2, <1>3 DEF Others

LEMMA FateOf ==
  ASSUME NEW s, NEW what
  PROVE  /\ s.call = calls => Fate(s, what) = fate \cup {what}
         /\ s.call # calls => Fate(s, what) = fate
BY DEF Fate

\* The statement on the connection goes on; what of its call is still to be sent stays.
LEMMA AcceptStep == IInv /\ Accept => IInv'
<1> SUFFICES ASSUME IInv, Accept PROVE IInv' OBVIOUS
<1>1. /\ conn.at = "sent" /\ open' = open /\ pc' = pc /\ op' = op /\ todo' = todo
      /\ calls' = calls /\ late' = late /\ graph' = graph
      /\ promised' = promised /\ doubtful' = doubtful /\ answer' = answer
      /\ \/ conn' = [conn EXCEPT !.at = "accepted"] /\ fate' = fate
         \/ conn' = [conn EXCEPT !.at = "refused"] /\ fate' = Fate(conn, "refused")
  BY DEF Accept, call, ghost
<1>2. /\ TypeOK /\ TodoInv /\ CallInv /\ ConnInv /\ FateInv /\ PromiserInv /\ BuiltInv
      /\ pc = "run" /\ op # "none" /\ conn.call = calls /\ calls \in Nat
      /\ answer = NoAnswer
  BY <1>1, Typed DEF IInv, ConnInv, CallInv, FateInv
<1>3. /\ conn' \in [call : 0..MaxCalls, part : Batches \cup Others \cup {"none"},
               at : {"none", "sent", "accepted", "refused", "done", "failed"},
               seen : SUBSET Items]
      /\ conn'.call = conn.call /\ conn'.part = conn.part
      /\ \/ conn'.at = "accepted" /\ fate' = fate
         \/ conn'.at = "refused" /\ fate' = fate \cup {"refused"}
  <2>1. conn \in [call : 0..MaxCalls, part : Batches \cup Others \cup {"none"},
               at : {"none", "sent", "accepted", "refused", "done", "failed"},
               seen : SUBSET Items]
    BY <1>2 DEF TypeOK
  <2> QED BY <1>1, <1>2, <2>1, FateOf
<1>4. TypeOK' BY <1>1, <1>2, <1>3 DEF TypeOK
<1>5. TodoInv' BY <1>1, <1>2 DEF TodoInv
<1>6. CallInv' BY <1>1, <1>2, <1>3 DEF CallInv
<1>7. ConnInv' BY <1>1, <1>2, <1>3 DEF ConnInv, Running
<1>8. Pending' = Pending BY <1>1, SamePending
<1>9. PromiserInv' BY <1>1, <1>2, <1>3, <1>8 DEF PromiserInv
<1>10. FateInv' BY <1>1, <1>2, <1>3 DEF FateInv, NoAnswer
<1>11. BuiltInv'
  <2>1. \A b : Awaited(b)' <=> Awaited(b) BY <1>1, <1>3 DEF Awaited
  <2> QED BY <1>1, <1>2, <1>8, <2>1 DEF BuiltInv, Kept, Only
<1>12. SeenInv' BY <1>3 DEF SeenInv
<1>13. AnsweredFromFixture' BY <1>1 DEF IInv, AnsweredFromFixture
<1> QED BY <1>4, <1>5, <1>6, <1>7, <1>9, <1>10, <1>11, <1>12, <1>13 DEF IInv

LEMMA AbortStep == IInv /\ Abort => IInv'
<1> SUFFICES ASSUME IInv, Abort PROVE IInv' OBVIOUS
<1>1. /\ conn.at = "accepted" /\ open' = open /\ pc' = pc /\ op' = op /\ todo' = todo
      /\ calls' = calls /\ late' = late /\ graph' = graph
      /\ promised' = promised /\ answer' = answer
      /\ conn' = [conn EXCEPT !.at = "failed"] /\ fate' = Fate(conn, "refused")
      /\ doubtful' = (doubtful \/ conn.call = promised.by)
  BY DEF Abort, call
<1>2. /\ TypeOK /\ TodoInv /\ CallInv /\ ConnInv /\ FateInv /\ PromiserInv /\ BuiltInv
      /\ calls \in Nat /\ conn.call \in Nat /\ doubtful \in BOOLEAN /\ Running
  BY <1>1, Typed DEF IInv, TypeOK, Running
<1>3. /\ conn' \in [call : 0..MaxCalls, part : Batches \cup Others \cup {"none"},
               at : {"none", "sent", "accepted", "refused", "done", "failed"},
               seen : SUBSET Items]
      /\ conn'.call = conn.call /\ conn'.part = conn.part /\ conn'.at = "failed"
  <2>1. conn \in [call : 0..MaxCalls, part : Batches \cup Others \cup {"none"},
               at : {"none", "sent", "accepted", "refused", "done", "failed"},
               seen : SUBSET Items]
    BY <1>2 DEF TypeOK
  <2> QED BY <1>1, <2>1
<1>4. /\ conn.call = calls => fate' = fate \cup {"refused"}
      /\ conn.call # calls => fate' = fate
  BY <1>1, FateOf
<1>5. TypeOK' BY <1>1, <1>2, <1>3, <1>4 DEF TypeOK
<1>6. TodoInv' BY <1>1, <1>2 DEF TodoInv
<1>7. CallInv' BY <1>1, <1>2, <1>3 DEF CallInv
<1>8. ConnInv' BY <1>1, <1>2, <1>3 DEF ConnInv, Running
<1>9. Pending' = Pending BY <1>1, SamePending
<1>10. PromiserInv' BY <1>1, <1>2, <1>3, <1>9 DEF PromiserInv
<1>11. FateInv'
  <2>1. op = "exec" /\ pc \in {"run", "collect"} => conn.call = calls BY <1>2 DEF CallInv
  <2>2. CASE op = "exec" /\ pc = "next"
    <3>1. conn.call # calls BY <1>2, <2>2 DEF FateInv
    <3> QED BY <1>1, <1>2, <1>3, <1>4, <2>2, <3>1 DEF FateInv, NoAnswer
  <2>3. CASE op = "exec" /\ pc \in {"run", "collect"}
    BY <1>1, <1>2, <1>3, <1>4, <2>1, <2>3 DEF FateInv, NoAnswer
  <2>4. CASE op # "exec"
    <3>1. answer.outcome = "coded" => conn.call # calls BY <1>2 DEF FateInv
    <3> QED BY <1>1, <1>2, <1>3, <1>4, <2>4, <3>1 DEF FateInv, NoAnswer, Running
  <2>5. op = "exec" => pc \in {"next", "run", "collect"} BY <1>2 DEF CallInv
  <2> QED BY <2>2, <2>3, <2>4, <2>5
<1>12. BuiltInv'
  <2> SUFFICES ASSUME Kept' PROVE BuiltInv' BY DEF BuiltInv
  <2>1. Kept /\ conn.call # promised.by BY <1>1 DEF Kept
  <2>2. \A b : ~Awaited(b) /\ ~Awaited(b)' BY <1>1, <1>3, <2>1 DEF Awaited
  <2> QED BY <1>1, <1>2, <1>9, <2>1, <2>2 DEF BuiltInv, Only
<1>13. SeenInv' BY <1>3 DEF SeenInv
<1>14. AnsweredFromFixture' BY <1>1 DEF IInv, AnsweredFromFixture
<1> QED BY <1>5, <1>6, <1>7, <1>8, <1>10, <1>11, <1>12, <1>13, <1>14 DEF IInv

\* What the statement does, when it is the promise's: the reset empties the
\* graph before any batch, and a batch of edges finds the nodes.
LEMMA CommitBuilds ==
  ASSUME IInv, conn.at = "accepted", conn.call \in 1..MaxCalls, graph' = Effect(conn),
         promised' = promised, doubtful' = doubtful, late' = late, Pending' = Pending,
         conn'.call = conn.call, conn'.part = conn.part, conn'.at = "done"
  PROVE  BuiltInv'
<1> SUFFICES ASSUME Kept, "reset" \notin Pending
             PROVE  /\ Only(graph', promised)
                    /\ \A b \in promised.parts :
                         b \in Pending \/ Awaited(b)' \/ <<promised.by, b>> \in graph'
  BY DEF IInv, BuiltInv, Kept, Only
<1>1. /\ PromiserInv /\ promised # NoPromise /\ promised.by \in Nat /\ conn.call \in Nat
      /\ promised.parts \in Fixtures \cup {{}} /\ promised.by \in 1..MaxCalls
  BY Typed DEF IInv, Kept, CallInv
<1>2. conn.call >= promised.by BY <1>1 DEF PromiserInv
<1>3. /\ ~Awaited("reset") =>
           /\ Only(graph, promised)
           /\ \A b \in promised.parts :
                b \in Pending \/ Awaited(b) \/ <<promised.by, b>> \in graph
  BY DEF IInv, BuiltInv
<1>4. CASE conn.call > promised.by
  <2>1. conn.part = "exec" /\ "exec" \notin Types \cup {"reset", "index"}
    BY <1>1, <1>4, Names DEF PromiserInv, Others, Batches
  <2>2. graph' = graph \cup {<<conn.call, "exec">>} BY <2>1, EffectOf
  <2>3. \A b : ~Awaited(b) BY <1>1, <1>4 DEF Awaited
  <2> QED BY <1>1, <1>3, <1>4, <2>2, <2>3 DEF Only
<1>5. CASE conn.call = promised.by /\ conn.part = "reset"
  <2>1. graph' = {} BY <1>5, EffectOf
  <2>2. promised.parts \subseteq Pending BY <1>1, <1>5 DEF PromiserInv
  <2> QED BY <2>1, <2>2 DEF Only
<1>6. CASE conn.call = promised.by /\ conn.part # "reset"
  <2>1. ~Awaited("reset") /\ \A b : Awaited(b) => b = conn.part BY <1>6 DEF Awaited
  <2>2. conn.part \in promised.parts \cup {"index"}
    BY <1>1, <1>6 DEF PromiserInv
  <2>3. CASE conn.part = "index"
    <3>1. graph' = graph BY <2>3, EffectOf
    <3>2. "index" \notin promised.parts BY <1>1, Names DEF Others, Batches
    <3> QED BY <1>3, <2>1, <2>3, <3>1, <3>2
  <2>4. CASE conn.part \in promised.parts
    <3>1. conn.part \in Batches /\ conn.part \notin {"reset", "index"}
      BY <1>1, <2>4, Names DEF Others
    <3>2. graph' = graph \cup {<<conn.call, conn.part>>}
      <4>1. CASE conn.part \notin Types BY <3>1, <4>1, EffectOf
      <4>2. CASE conn.part \in Types
        <5>1. \A b \in Ends[conn.part] : b \in promised.parts \cap LabelSets
          BY <1>1, <2>4, <4>2, Names
        <5>2. promised.parts \cap LabelSets \cap Pending = {}
          BY <1>1, <1>6, <4>2 DEF PromiserInv
        <5>3. \A b \in Ends[conn.part] : b # conn.part BY <4>2, <5>1, Names
        <5>4. \A b \in Ends[conn.part] : <<promised.by, b>> \in graph
          BY <1>3, <2>1, <5>1, <5>2, <5>3
        <5> QED BY <1>1, <4>2, <5>4, EffectOf
      <4> QED BY <4>1, <4>2
    <3>3. Only(graph', promised) BY <1>3, <1>6, <2>1, <2>4, <3>2 DEF Only
    <3>4. \A b \in promised.parts : b \in Pending \/ <<promised.by, b>> \in graph'
      BY <1>3, <1>6, <2>1, <3>2
    <3> QED BY <3>3, <3>4
  <2> QED BY <2>2, <2>3, <2>4
<1> QED BY <1>1, <1>2, <1>4, <1>5, <1>6

LEMMA CommitStep == IInv /\ Commit => IInv'
<1> SUFFICES ASSUME IInv, Commit PROVE IInv' OBVIOUS
<1>1. /\ conn.at = "accepted" /\ open' = open /\ pc' = pc /\ op' = op /\ todo' = todo
      /\ calls' = calls /\ late' = late /\ graph' = Effect(conn)
      /\ promised' = promised /\ doubtful' = doubtful /\ answer' = answer
      /\ conn' = [conn EXCEPT !.at = "done", !.seen = graph]
      /\ fate' = Fate(conn, "committed")
  BY DEF Commit, call, ghost
<1>2. /\ TypeOK /\ TodoInv /\ CallInv /\ ConnInv /\ FateInv /\ PromiserInv /\ BuiltInv
      /\ calls \in Nat /\ conn.call \in 1..MaxCalls /\ Running /\ graph \subseteq Items
      /\ conn.part \in Batches \cup Others
  <2>1. /\ TypeOK /\ TodoInv /\ CallInv /\ ConnInv /\ FateInv /\ PromiserInv /\ BuiltInv
    BY DEF IInv
  <2>2. /\ calls \in Nat /\ conn.call \in Nat /\ conn.call <= MaxCalls /\ MaxCalls \in Nat
    BY <2>1, Typed
  <2>3. conn.call >= 1 /\ conn.part \in Batches \cup Others BY <1>1, <2>1 DEF ConnInv
  <2>4. graph \subseteq Items BY <2>1 DEF TypeOK
  <2>5. Running BY <1>1 DEF Running
  <2> QED BY <2>1, <2>2, <2>3, <2>4, <2>5
<1>3. /\ conn' \in [call : 0..MaxCalls, part : Batches \cup Others \cup {"none"},
               at : {"none", "sent", "accepted", "refused", "done", "failed"},
               seen : SUBSET Items]
      /\ conn'.call = conn.call /\ conn'.part = conn.part /\ conn'.at = "done"
      /\ conn'.seen = graph
  <2>1. conn \in [call : 0..MaxCalls, part : Batches \cup Others \cup {"none"},
               at : {"none", "sent", "accepted", "refused", "done", "failed"},
               seen : SUBSET Items]
    BY <1>2 DEF TypeOK
  <2> QED BY <1>1, <1>2, <2>1
<1>4. /\ conn.call = calls => fate' = fate \cup {"committed"}
      /\ conn.call # calls => fate' = fate
  BY <1>1, FateOf
<1>5. TypeOK'
  <2>1. graph' \subseteq Items BY <1>1, <1>2, EffectTypes
  <2> QED BY ZenonT(30), <1>1, <1>2, <1>3, <1>4, <2>1 DEF TypeOK
<1>6. TodoInv' BY <1>1, <1>2 DEF TodoInv
<1>7. CallInv' BY <1>1, <1>2, <1>3 DEF CallInv
<1>8. ConnInv' BY <1>1, <1>2, <1>3 DEF ConnInv, Running
<1>9. Pending' = Pending BY <1>1, SamePending
<1>10. PromiserInv' BY <1>1, <1>2, <1>3, <1>9 DEF PromiserInv
<1>11. FateInv'
  <2>1. op = "exec" /\ pc \in {"run", "collect"} => conn.call = calls BY <1>2 DEF CallInv
  <2>2. CASE op = "exec" /\ pc = "next"
    <3>1. conn.call # calls BY <1>2, <2>2 DEF FateInv
    <3> QED BY <1>1, <1>2, <1>3, <1>4, <2>2, <3>1 DEF FateInv, NoAnswer
  <2>3. CASE op = "exec" /\ pc \in {"run", "collect"}
    BY <1>1, <1>2, <1>3, <1>4, <2>1, <2>3 DEF FateInv, NoAnswer
  <2>4. CASE op # "exec"
    <3>1. answer.outcome = "coded" => conn.call # calls BY <1>2 DEF FateInv
    <3> QED BY <1>1, <1>2, <1>3, <1>4, <2>4, <3>1 DEF FateInv, NoAnswer, Running
  <2>5. op = "exec" => pc \in {"next", "run", "collect"} BY <1>2 DEF CallInv
  <2> QED BY <2>2, <2>3, <2>4, <2>5
<1>12. BuiltInv' BY <1>1, <1>2, <1>3, <1>9, CommitBuilds
<1>13. SeenInv'
  <2> SUFFICES ASSUME Kept, op = "exec", pc \in {"run", "collect"}
               PROVE  Whole(graph, promised)
    BY <1>1, <1>3 DEF SeenInv, Kept, Whole, Only
  <2>1. /\ "reset" \notin Pending /\ \A b \in promised.parts : b \notin Pending
    <3>1. "reset" \notin Pending /\ Pending \cap Batches = {} BY ExecPending
    <3>2. promised.parts \subseteq Batches BY <1>2, Typed
    <3> QED BY <3>1, <3>2
  <2>2. \A b : ~Awaited(b) BY <1>2, OfExec DEF Awaited
  <2> QED BY <1>2, <2>1, <2>2 DEF BuiltInv, Whole
<1>14. AnsweredFromFixture' BY <1>1 DEF IInv, AnsweredFromFixture
<1> QED BY <1>5, <1>6, <1>7, <1>8, <1>10, <1>11, <1>12, <1>13, <1>14 DEF IInv

LEMMA LateStep == IInv /\ Late => IInv'
<1> SUFFICES ASSUME IInv, NEW s \in late, late' = late \ {s},
                    \/ graph' = Effect(s) /\ fate' = Fate(s, "committed")
                    \/ UNCHANGED <<graph, fate>>,
                    UNCHANGED <<call, conn, ghost>>
             PROVE  IInv'
  BY DEF Late
<1>1. /\ open' = open /\ pc' = pc /\ op' = op /\ todo' = todo /\ calls' = calls /\ conn' = conn
      /\ promised' = promised /\ doubtful' = doubtful /\ answer' = answer
  BY DEF call, ghost
<1>2. /\ TypeOK /\ TodoInv /\ CallInv /\ ConnInv /\ FateInv /\ PromiserInv /\ BuiltInv
      /\ calls \in Nat
  BY Typed DEF IInv
<1>3. /\ s.call \in 1..MaxCalls /\ s.part \in Batches \cup Others BY <1>2 DEF TypeOK, Statements
<1>4. /\ graph' = graph \/ graph' = Effect(s)
      /\ fate' = fate \/ fate' = fate \cup {"committed"}
      /\ s.call # calls => fate' = fate
  BY FateOf
<1>5. TypeOK'
  <2>1. graph' \subseteq Items
    <3>1. graph \subseteq Items BY <1>2 DEF TypeOK
    <3>2. Effect(s) \subseteq Items BY <1>2, <1>3, EffectTypes
    <3> QED BY <1>4, <3>1, <3>2
  <2>2. late' \subseteq Statements /\ fate' \subseteq {"committed", "refused"}
    BY <1>2, <1>4 DEF TypeOK
  <2> QED BY ZenonT(30), <1>1, <1>2, <2>1, <2>2 DEF TypeOK
<1>6. TodoInv' BY <1>1, <1>2 DEF TodoInv
<1>7. CallInv' BY <1>1, <1>2 DEF CallInv
<1>8. ConnInv' BY <1>1, <1>2 DEF ConnInv, Running
<1>9. Pending' = Pending BY <1>1, SamePending
<1>10. PromiserInv' BY <1>1, <1>2, <1>9 DEF PromiserInv
<1>11. FateInv'
  <2>1. op = "exec" \/ answer.outcome = "coded" => fate' = fate
    BY <1>2, <1>3, <1>4 DEF FateInv
  <2> QED BY <1>1, <1>2, <1>4, <2>1 DEF FateInv, Running, NoAnswer
<1>12. BuiltInv'
  <2>1. \A b : Awaited(b)' <=> Awaited(b) BY <1>1 DEF Awaited
  <2> SUFFICES ASSUME Kept PROVE BuiltInv' BY <1>1 DEF BuiltInv, Kept
  <2>2. s.part = "exec" /\ s.call > promised.by BY <1>2 DEF BuiltInv
  <2>3. s.part \notin Types \cup {"reset", "index"} BY <2>2, Names DEF Others, Batches
  <2>4. graph' = graph \/ graph' = graph \cup {<<s.call, "exec">>} BY <1>4, <2>2, <2>3, EffectOf
  <2>5. Only(graph, promised) => Only(graph', promised) BY <2>2, <2>4 DEF Only
  <2> QED BY <1>1, <1>2, <1>9, <2>1, <2>4, <2>5 DEF BuiltInv, Only
<1>13. SeenInv' BY <1>1 DEF IInv, SeenInv, Kept, Whole, Only
<1>14. AnsweredFromFixture' BY <1>1 DEF IInv, AnsweredFromFixture
<1> QED BY <1>5, <1>6, <1>7, <1>8, <1>10, <1>11, <1>12, <1>13, <1>14 DEF IInv

LEMMA Stutter == IInv /\ UNCHANGED vars => IInv'
<1> SUFFICES ASSUME IInv, UNCHANGED vars PROVE IInv' OBVIOUS
<1>1. /\ open' = open /\ pc' = pc /\ op' = op /\ todo' = todo /\ calls' = calls /\ conn' = conn
      /\ late' = late /\ graph' = graph /\ fate' = fate
      /\ promised' = promised /\ doubtful' = doubtful /\ answer' = answer
  BY DEF vars, call, server, ghost
<1>2. Pending' = Pending BY <1>1, SamePending
<1>3. TypeOK' /\ TodoInv' /\ CallInv'
  <2>1. TypeOK'
    <3>1. TypeOK BY DEF IInv
    <3>2. /\ open' \in BOOLEAN /\ doubtful' \in BOOLEAN /\ calls' \in 0..MaxCalls
          /\ pc' \in {"unasked", "turned away", "idle", "next", "run", "collect", "closing"}
          /\ op' \in {"none", "load", "reset", "exec"}
          /\ fate' \subseteq {"committed", "refused"}
      BY <1>1, <3>1 DEF TypeOK
    <3>3. todo' \in Seq(SUBSET (Batches \cup Others)) BY <1>1, <3>1 DEF TypeOK
    <3>4. conn' \in [call : 0..MaxCalls, part : Batches \cup Others \cup {"none"},
               at : {"none", "sent", "accepted", "refused", "done", "failed"},
               seen : SUBSET Items]
      BY <1>1, <3>1 DEF TypeOK
    <3>5. /\ late' \subseteq Statements /\ graph' \subseteq Items /\ promised' \in Promise
      BY <1>1, <3>1 DEF TypeOK
    <3>6. answer' \in
          [call : 0..MaxCalls, outcome : {"none", "ok", "coded", "plain", "timeout"},
           seen : SUBSET Items, promised : Promise, doubtful : BOOLEAN]
      BY <1>1, <3>1 DEF TypeOK
    <3> QED BY <3>2, <3>3, <3>4, <3>5, <3>6 DEF TypeOK
  <2>2. TodoInv' BY <1>1 DEF IInv, TodoInv
  <2>3. CallInv' BY <1>1 DEF IInv, CallInv
  <2> QED BY <2>1, <2>2, <2>3
<1>4. ConnInv' BY <1>1 DEF IInv, ConnInv, Running
<1>5. PromiserInv' BY <1>1, <1>2 DEF IInv, PromiserInv
<1>6. FateInv' BY <1>1 DEF IInv, FateInv, Running
<1>7. BuiltInv'
  <2>1. \A b : Awaited(b)' <=> Awaited(b) BY <1>1 DEF Awaited
  <2> QED BY <1>1, <1>2, <2>1 DEF IInv, BuiltInv, Kept, Only
<1>8. SeenInv' BY <1>1 DEF IInv, SeenInv, Kept, Whole, Only
<1>9. AnsweredFromFixture' BY <1>1 DEF IInv, AnsweredFromFixture
<1> QED BY <1>3, <1>4, <1>5, <1>6, <1>7, <1>8, <1>9 DEF IInv

------------------------------------------------------------------------------
(* The theorems. *)

LEMMA NextInv == IInv /\ [Next]_vars => IInv'
<1> SUFFICES ASSUME IInv, [Next]_vars PROVE IInv' OBVIOUS
<1>1. CASE Caller BY <1>1, OutsideStep, BeginStep, ExecStep DEF Caller
<1>2. CASE Session
  BY <1>2, IssueStep, NextPartStep, DoneStep, RunReturnsStep, ReturnStep, OutsideStep DEF Session
<1>3. CASE Deadline \/ Network BY <1>3, EndingStep, LoseUnreadStep DEF Network
<1>4. CASE Server BY <1>4, AcceptStep, CommitStep, AbortStep, LateStep DEF Server
<1>5. CASE UNCHANGED vars BY <1>5, Stutter
<1> QED BY <1>1, <1>2, <1>3, <1>4, <1>5 DEF Next

\* What is known of the calls, the connection and the graph is kept by every
\* step of Load, Reset, Exec, Close, the server and the network.
THEOREM Invariance == Spec => []IInv
BY InitInv, NextInv, PTL DEF Spec

\* The state has its type.
THEOREM TypeCorrect == Spec => []TypeOK
<1>1. IInv => TypeOK BY DEF IInv
<1> QED BY <1>1, Invariance, PTL

\* What Exec reports is what the server did with this statement: a success is
\* a transaction that was committed, a refusal with a code is one that left
\* nothing behind and that no connection given up earlier carries out later.
THEOREM ExecReportsTheServer == Spec => []ReportsTheServer
<1>1. IInv => ReportsTheServer BY DEF IInv, FateInv, ReportsTheServer
<1> QED BY <1>1, Invariance, PTL

\* A statement that is answered was put to the fixture of the last load that
\* returned without an error, whole, and to what later statements wrote.
THEOREM PutToTheFixture == Spec => []AnsweredFromFixture
<1>1. IInv => AnsweredFromFixture BY DEF IInv
<1> QED BY <1>1, Invariance, PTL
=============================================================================
