--------------------------- MODULE ExecutorProofs ---------------------------
(***************************************************************************)
(* IInv of ExecutorInvariant is inductive, and the safety properties of    *)
(* Executor follow from it, for every suite, fixture set, budget, bound    *)
(* and kind of engine ExecutorAssumption allows.                           *)
(***************************************************************************)
EXTENDS ExecutorInvariant, TLAPS

\* The fields of a piece of work; only a mutating one has setup statements,
\* and a case never carries the name of no fixture among the fixtures.
LEMMA WorkFields ==
  /\ NoFixture \notin Fixtures
  /\ \A c \in Work :
       /\ c.fixture \in Fixtures \cup {NoFixture}
       /\ c.mutating \in BOOLEAN /\ c.setup \in BOOLEAN
       /\ c.failing \in BOOLEAN /\ c.parses \in BOOLEAN
       /\ c.shape \in Shapes /\ c.repeat \in Nat
       /\ c.setup => c.mutating
<1>1. NoFixture \notin Fixtures
  BY PlanAssumption
<1>2. ASSUME NEW c \in Cases
      PROVE  /\ c.fixture \in Fixtures \cup {NoFixture}
             /\ c.mutating \in BOOLEAN /\ c.setup \in BOOLEAN
             /\ c.failing \in BOOLEAN /\ c.parses \in BOOLEAN
             /\ c.shape \in Shapes /\ c.repeat \in Nat
             /\ c.setup => c.mutating
  <2>1. c \in CaseType /\ WellFormed(c)
    BY ExecutorAssumption
  <2> QED BY <2>1 DEF CaseType, WellFormed
<1>3. ASSUME NEW f \in Fixtures \cup {NoFixture}, NEW c, c = Reading(f)
      PROVE  /\ c.fixture \in Fixtures \cup {NoFixture}
             /\ c.mutating \in BOOLEAN /\ c.setup \in BOOLEAN
             /\ c.failing \in BOOLEAN /\ c.parses \in BOOLEAN
             /\ c.shape \in Shapes /\ c.repeat \in Nat
             /\ c.setup => c.mutating
  BY <1>3 DEF Reading, Shapes
<1>4. /\ Walked.fixture = NoFixture /\ Walked.mutating \in BOOLEAN
      /\ Walked.setup \in BOOLEAN /\ Walked.failing \in BOOLEAN
      /\ Walked.parses \in BOOLEAN /\ Walked.shape \in Shapes
      /\ Walked.repeat \in Nat /\ (Walked.setup => Walked.mutating)
  BY DEF Walked, Reading, Shapes
<1>5. ASSUME NEW c \in Work
      PROVE  c \in Cases \/ (\E f \in Fixtures \cup {NoFixture} : c = Reading(f))
               \/ c = Walked
  BY DEF Work
<1>6. ASSUME NEW c \in Work
      PROVE  /\ c.fixture \in Fixtures \cup {NoFixture}
             /\ c.mutating \in BOOLEAN /\ c.setup \in BOOLEAN
             /\ c.failing \in BOOLEAN /\ c.parses \in BOOLEAN
             /\ c.shape \in Shapes /\ c.repeat \in Nat
             /\ c.setup => c.mutating
  <2>1. CASE c \in Cases
    BY <2>1, <1>2
  <2>2. CASE \E f \in Fixtures \cup {NoFixture} : c = Reading(f)
    BY <2>2, <1>3
  <2>3. CASE c = Walked
    BY <2>3, <1>4
  <2> QED BY <2>1, <2>2, <2>3, <1>5
<1> QED BY <1>1, <1>6

\* The warmups of a case are a number, and none for a mutating one.
LEMMA WarmupsBounded ==
  \A c \in Work : WarmupsOf(c) \in Nat /\ (c.mutating => WarmupsOf(c) = 0)
BY PlanAssumption, WorkFields DEF WarmupsOf

\* What is put in place of a Reading: it writes nothing and is not set up.
LEMMA ReadingFields ==
  \A f \in Fixtures \cup {NoFixture} :
    /\ Reading(f) \in Work /\ Reading(f).fixture = f
    /\ ~Reading(f).mutating /\ ~Reading(f).setup
BY DEF Work, Reading

\* Neither does what is put in place while the catalogue is walked: no fixture.
LEMMA WalkedFields ==
  /\ Walked \in Work /\ Walked.fixture = NoFixture
  /\ ~Walked.mutating /\ ~Walked.setup
BY DEF Work, Reading, Walked

\* plan returns a number of executions and a treatment, and restores between
\* executions only what writes to a fixture.
LEMMA TreatmentOf ==
  ASSUME NEW c \in Work, NEW load \in LoadCosts
  PROVE  /\ Treatment(c, load) \in [repeats : Nat, timing : Timings]
         /\ Treatment(c, load).timing = "restored" =>
              c.mutating /\ c.fixture # NoFixture
<1> DEFINE want == Wanted(c)
           most == Affordable(load, want)
<1>1. want \in Nat /\ RepeatsOf(c) \in Nat
  BY PlanAssumption, WorkFields DEF Wanted, RepeatsOf
<1>2. load \in Nat /\ Budget \in Int
  BY PlanAssumption, ExecutorAssumption
<1>3. most \in Int
  <2>1. CASE load = 0
    BY <2>1, <1>1 DEF Affordable
  <2>2. CASE load # 0
    BY <2>2, <1>2 DEF Affordable
  <2> QED BY <2>1, <2>2
<1>4. most > 1 /\ want > 1 => Least(want, most) \in Nat
  BY <1>1, <1>3 DEF Least
<1> HIDE DEF want, most
<1>5. PlanFor(c, load) \in
        { [repeats |-> RepeatsOf(c), timing |-> "series"],
          [repeats |-> RepeatsOf(c), timing |-> "cold-once"] }
      \/ /\ PlanFor(c, load) = [repeats |-> Least(want, most), timing |-> "restored"]
         /\ most > 1 /\ want > 1
         /\ c.mutating /\ c.fixture # NoFixture
  BY <1>1, <1>3, WorkFields DEF PlanFor, Restores, want, most
<1>6. PlanFor(c, load) \in [repeats : Nat, timing : Timings]
  BY <1>1, <1>4, <1>5 DEF Timings
<1> QED
  BY <1>5, <1>6 DEF Treatment, Timings

\* What a call hears leaves the engine sound, dead or killed.
LEMMA HeardTypes ==
  ASSUME TypeOK, NEW a, Heard(a)
  PROVE  health' \in {"sound", "dead", "killed"}
BY DEF TypeOK, ControlTyped, HoldingTyped, EngineTyped, Heard

\* discard leaves the handle nil and every field of the executor in its type.
LEMMA DiscardTypes ==
  ASSUME TypeOK, Discard
  PROVE  /\ sess' \in Nat /\ seq' \in Nat /\ open' \subseteq Nat
         /\ loaded' \in Fixtures \cup {NoFixture} /\ dirty' \in BOOLEAN
BY DEF TypeOK, ControlTyped, HoldingTyped, EngineTyped, Discard, Nil

\* So does a discard that only some errors bring about.
LEMMA DiscardIfTypes ==
  ASSUME TypeOK, NEW cond, DiscardIf(cond)
  PROVE  /\ sess' \in Nat /\ seq' \in Nat /\ open' \subseteq Nat
         /\ loaded' \in Fixtures \cup {NoFixture} /\ dirty' \in BOOLEAN
BY DiscardTypes DEF TypeOK, ControlTyped, HoldingTyped, EngineTyped, DiscardIf, holding

\* A handle from session, new or kept, is a session of the engine.
LEMMA SessionTypes ==
  ASSUME TypeOK, Session PROVE HoldingTyped' /\ EngineTyped'
<1>1. CASE Open
  <2>0. seq + 1 \in Nat /\ open \subseteq Nat
    BY DEF TypeOK, ControlTyped, HoldingTyped, EngineTyped
  <2>4. open' \subseteq Nat
    BY <1>1, <2>0 DEF Open
  <2>1. HoldingTyped'
    BY <1>1, <2>0 DEF Open, HoldingTyped
  <2>2. base' \in Fixtures \cup {"empty", "partial"} /\ residue' \in BOOLEAN
    BY <1>1 DEF TypeOK, ControlTyped, HoldingTyped, EngineTyped, Open, graph
  <2>3. prepared' \in Nat /\ applied' \in Nat
    BY <1>1 DEF TypeOK, ControlTyped, HoldingTyped, EngineTyped, Open, graph
  <2> QED BY <1>1, <2>1, <2>2, <2>3, <2>4 DEF Open, EngineTyped
<1>2. CASE handle' = sess /\ UNCHANGED <<holding, engine>>
  BY <1>2 DEF TypeOK, ControlTyped, HoldingTyped, EngineTyped, holding, engine, graph
<1> QED BY <1>1, <1>2 DEF Session

\* An Open that fails leaves what was there.
LEMMA NoSessionTypes ==
  ASSUME TypeOK, NoSession PROVE HoldingTyped' /\ EngineTyped'
  BY DEF TypeOK, ControlTyped, HoldingTyped, EngineTyped, NoSession, engine, graph

\* Going on to the next call of a case keeps the control in its type.
LEMMA GotoTypes ==
  ASSUME TypeOK, NEW step \in Steps, Goto(step), tries' \in Nat
  PROVE  ControlTyped'
BY DEF TypeOK, ControlTyped, HoldingTyped, EngineTyped, Goto

\* Entering the next phase of the run does too.
LEMMA EnterTypes ==
  ASSUME TypeOK, NEW next \in Phases, Enter(next)
  PROVE  ControlTyped'
BY DEF TypeOK, ControlTyped, HoldingTyped, EngineTyped, Enter, Steps

\* What follows a loaded fixture is a step of its phase.
LEMMA ReadyTypes ==
  ASSUME TypeOK, Ready PROVE ControlTyped'
<1>1. CASE phase = "empty"
  BY <1>1, EnterTypes DEF Ready, Phases
<1>2. CASE phase # "empty"
  <2> DEFINE step == IF phase = "roundtrip" THEN "ask"
               ELSE IF phase = "probes" THEN "probe"
               ELSE IF tries > 0 THEN Resume ELSE "plan"
  <2>1. step \in Steps
    BY DEF Steps, Resume
  <2>2. Goto(step) /\ tries' \in Nat
    BY <1>2 DEF Ready, TypeOK, ControlTyped
  <2> HIDE DEF step
  <2> QED BY <2>1, <2>2, GotoTypes
<1> QED BY <1>1, <1>2

\* What follows a fixture given up is one too.
LEMMA GiveUpTypes ==
  ASSUME TypeOK, GiveUp PROVE ControlTyped'
<1>1. CASE phase = "empty" \/ phase = "roundtrip"
  BY <1>1, EnterTypes DEF GiveUp, Phases
<1>2. CASE ~(phase = "empty" \/ phase = "roundtrip")
  <2> DEFINE step == IF tries > 0 THEN "explain" ELSE "start"
  <2>1. step \in Steps
    BY DEF Steps
  <2>2. Goto(step) /\ tries' \in Nat
    BY <1>2 DEF GiveUp, TypeOK, ControlTyped
  <2> HIDE DEF step
  <2> QED BY <2>1, <2>2, GotoTypes
<1> QED BY <1>1, <1>2

\* Every step keeps the types.
LEMMA TypeStep == TypeOK /\ WorkInv /\ [Next]_vars => TypeOK'
<1> SUFFICES ASSUME TypeOK, WorkInv, [Next]_vars PROVE TypeOK'
  OBVIOUS
<1> USE DEF TypeOK, ControlTyped, HoldingTyped, MemoryTyped, EngineTyped,
            holding, memory, graph, engine, Phases, Steps
<1>1. CASE Cancel
  BY <1>1 DEF Cancel
<1>2. CASE MeasureEmpty
  BY <1>2, ReadingFields, ExecutorAssumption DEF MeasureEmpty, Begin, Enter
<1>3. CASE MeasureRoundTrip
  BY <1>3, ReadingFields DEF MeasureRoundTrip, Begin
<1>4. CASE RunCase
  BY <1>4 DEF RunCase, Begin, Work
<1>5. CASE EndCases
  BY <1>5 DEF EndCases, Enter
<1>6. CASE Walk
  BY <1>6, WalkedFields DEF Walk, Begin
<1>7. CASE EndWalk
  BY <1>7 DEF EndWalk, Enter
<1>8. CASE Observe
  BY <1>8, ReadingFields, ExecutorAssumption DEF Observe, Begin
<1>9. CASE Close
  BY <1>9 DEF Close, Enter, Nil
<1>10. CASE GetSession
  BY <1>10, SessionTypes, NoSessionTypes, ReadyTypes, GiveUpTypes
     DEF GetSession, Goto
<1>11. CASE EnsureLoaded
  <2>1. HoldingTyped' /\ EngineTyped' /\ MemoryTyped'
    BY <1>11, DiscardTypes DEF EnsureLoaded
  <2>2. ControlTyped'
    BY <1>11, ReadyTypes, GiveUpTypes DEF EnsureLoaded, Goto, ToIngest
  <2> QED BY <2>1, <2>2
<1>12. CASE Reopen
  BY <1>12, SessionTypes, NoSessionTypes, GiveUpTypes DEF Reopen, Goto, ToIngest
<1>13. CASE MeasureFloor
  <2>1. cur.fixture \in Fixtures
    BY <1>13, WorkFields DEF WorkInv, Loading, MeasureFloor
  <2>2. CASE ~SchemaLoader
    <3>1. HoldingTyped' /\ EngineTyped' /\ MemoryTyped'
      BY <1>13, <2>1, <2>2 DEF MeasureFloor
    <3>2. ControlTyped'
      BY <1>13, <2>2 DEF MeasureFloor, Goto
    <3> QED BY <3>1, <3>2
  <2>3. CASE SchemaLoader
    BY <1>13, <2>3, DiscardTypes DEF MeasureFloor, Goto, DropShape
  <2> QED BY <2>2, <2>3
<1>14. CASE Refresh
  <2>1. cur.fixture \in Fixtures
    BY <1>14, WorkFields DEF WorkInv, Loading, Refresh
  <2>2. MemoryTyped'
    BY <1>14, <2>1 DEF Refresh
  <2>3. HoldingTyped' /\ EngineTyped'
    BY <1>14, SessionTypes, NoSessionTypes DEF Refresh
  <2>4. ControlTyped'
    BY <1>14, GiveUpTypes DEF Refresh, Goto
  <2> QED BY <2>2, <2>3, <2>4
<1>15. CASE Ingest
  <2>1. cur.fixture \in Fixtures
    BY <1>15, WorkFields DEF WorkInv, Loading, Ingest
  <2>2. MemoryTyped'
    BY <1>15, <2>1 DEF Ingest
  <2>3. HoldingTyped'
    BY <1>15, <2>1, DiscardTypes DEF Ingest
  <2>4. EngineTyped'
    <3>1. open' \subseteq Nat /\ UNCHANGED health /\ store' = "graph"
      BY <1>15, DiscardTypes DEF Ingest
    <3>2. /\ base' \in Fixtures \cup {"empty", "partial"} /\ residue' \in BOOLEAN
          /\ prepared' = 0 /\ applied' = 0
      BY <1>15, <2>1 DEF Ingest, Replaced
    <3> QED BY <3>1, <3>2
  <2>5. ControlTyped'
    BY <1>15, ReadyTypes, GiveUpTypes DEF Ingest
  <2> QED BY <2>2, <2>3, <2>4, <2>5
<1>16. CASE MakePlan
  BY <1>16, TreatmentOf DEF MakePlan
<1>17. CASE Setup
  BY <1>17, HeardTypes, DiscardIfTypes DEF Setup, AfterSetup, Goto
<1>18. CASE Warm
  BY <1>18, WarmupsBounded, HeardTypes DEF Warm, Warmed, Goto
<1>19. CASE Exec
  BY <1>19, HeardTypes, DiscardIfTypes DEF Exec, Goto
<1>20. CASE Restore
  BY <1>20 DEF Restore, DirtyForRestore, Goto
<1>21. CASE Explain
  <2>1. ControlTyped' /\ MemoryTyped'
    BY <1>21 DEF Explain, Goto
  <2>2. HoldingTyped' /\ EngineTyped'
    BY <1>21, HeardTypes, DiscardIfTypes DEF Explain
  <2> QED BY <2>1, <2>2
<1>22. CASE CheckParses
  <2>1. ControlTyped' /\ MemoryTyped'
    BY <1>22 DEF CheckParses, Goto
  <2>2. HoldingTyped' /\ EngineTyped'
    <3>1. HoldingTyped' /\ open' \subseteq Nat /\ health' \in {"sound", "dead", "killed"}
      BY <1>22, HeardTypes, DiscardIfTypes DEF CheckParses
    <3>2. applied' \in Nat
      BY <1>22 DEF CheckParses
    <3> QED BY <1>22, <3>1, <3>2 DEF CheckParses
  <2> QED BY <2>1, <2>2
<1>23. CASE Cut
  BY <1>23, DiscardTypes DEF Cut, Goto
<1>24. CASE Closing
  BY <1>24, HeardTypes, DiscardTypes DEF Closing, Goto
<1>25. CASE Finish
  BY <1>25, WorkFields DEF Finish, Goto, DirtyAfterCase
<1>26. CASE Ask
  <2>1. ControlTyped' /\ MemoryTyped'
    BY <1>26, PlanAssumption DEF Ask, Goto, Enter
  <2>2. HoldingTyped' /\ EngineTyped'
    BY <1>26, HeardTypes, DiscardIfTypes DEF Ask
  <2> QED BY <2>1, <2>2
<1>27. CASE Reduce
  <2>1. ControlTyped' /\ MemoryTyped'
    BY <1>27 DEF Reduce, Tried, Goto
  <2>2. HoldingTyped' /\ EngineTyped'
    BY <1>27, SessionTypes, NoSessionTypes DEF Reduce
  <2> QED BY <2>1, <2>2
<1>28. CASE SyntaxError
  <2>1. ControlTyped' /\ MemoryTyped'
    BY <1>28 DEF SyntaxError, Tried, Goto
  <2>2. HoldingTyped' /\ EngineTyped'
    BY <1>28, HeardTypes, DiscardIfTypes DEF SyntaxError
  <2> QED BY <2>1, <2>2
<1>29. CASE Probe
  BY <1>29, HeardTypes, DiscardIfTypes DEF Probe, Goto
<1>30. CASE UNCHANGED vars
  BY <1>30 DEF vars, control
<1> QED
  BY <1>1, <1>2, <1>3, <1>4, <1>5, <1>6, <1>7, <1>8, <1>9, <1>10, <1>11, <1>12,
     <1>13, <1>14, <1>15, <1>16, <1>17, <1>18, <1>19, <1>20, <1>21, <1>22, <1>23,
     <1>24, <1>25, <1>26, <1>27, <1>28, <1>29, <1>30
  DEF Next, Step, PhaseStep, LoadStep, CaseStep

\* The handle and the set of open sessions: every way through session, discard
\* and measureFloor leaves the handle on the one session that is open.
LEMMA HandleStep == TypeOK /\ HandleInv /\ WorkInv /\ [Next]_vars => HandleInv'
<1> SUFFICES ASSUME TypeOK /\ HandleInv /\ WorkInv, [Next]_vars
    PROVE  HandleInv'
  OBVIOUS
<1> USE DEF TypeOK, HoldingTyped, HandleInv, Bound, Nil, holding, memory,
            graph, engine
<1>1. CASE Cancel
  BY <1>1 DEF Cancel
<1>2. CASE MeasureEmpty
  BY <1>2, ReadingFields, ExecutorAssumption DEF MeasureEmpty, Begin, Enter
<1>3. CASE MeasureRoundTrip
  BY <1>3, ReadingFields DEF MeasureRoundTrip, Begin
<1>4. CASE RunCase
  BY <1>4, WorkFields DEF RunCase, Begin
<1>5. CASE EndCases
  BY <1>5 DEF EndCases, Enter
<1>6. CASE Walk
  BY <1>6, WalkedFields DEF Walk, Begin
<1>7. CASE EndWalk
  BY <1>7 DEF EndWalk, Enter
<1>8. CASE Observe
  BY <1>8, ReadingFields, ExecutorAssumption DEF Observe, Begin
<1>9. CASE Close
  BY <1>9 DEF Close, Enter
<1>10. CASE GetSession
  <2>1. CASE Session
    <3>1. pc' \notin {"reopen", "refresh"}
      BY <1>10, <2>1 DEF GetSession, Ready, GiveUp, Goto, Enter, Resume
    <3>2. handle' = sess' /\ sess' # Nil /\ open' = {sess'}
      BY <2>1 DEF Session, Open
    <3> QED BY <3>1, <3>2
  <2>2. CASE NoSession /\ GiveUp
    BY <1>10, <2>2 DEF NoSession, GiveUp, Goto, Enter
  <2> QED BY <1>10, <2>1, <2>2 DEF GetSession
<1>11. CASE EnsureLoaded
  BY <1>11
     DEF EnsureLoaded, Ready, GiveUp, Goto, Enter, Discard, ToIngest, Resume
<1>12. CASE Reopen
  BY <1>12 DEF Reopen, Session, NoSession, Open, GiveUp, Goto, Enter, ToIngest
<1>13. CASE MeasureFloor
  BY <1>13 DEF MeasureFloor, Goto, Discard, DropShape
<1>14. CASE Refresh
  BY <1>14 DEF Refresh, Session, NoSession, Open, GiveUp, Goto, Enter
<1>15. CASE Ingest
  BY <1>15 DEF Ingest, Ready, Resume, GiveUp, Goto, Enter, Discard
<1>16. CASE MakePlan
  BY <1>16, TreatmentOf DEF MakePlan
<1>17. CASE Setup
  BY <1>17 DEF Setup, AfterSetup, Goto, DiscardIf, Discard, Fatal, Kills
<1>18. CASE Warm
  BY <1>18, WarmupsBounded DEF Warm, Goto
<1>19. CASE Exec
  BY <1>19 DEF Exec, DiscardIf, Discard, Goto
<1>20. CASE Restore
  BY <1>20 DEF Restore, Goto
<1>21. CASE Explain
  BY <1>21 DEF Explain, Goto, DiscardIf, Discard
<1>22. CASE CheckParses
  BY <1>22 DEF CheckParses, Goto, DiscardIf, Discard
<1>23. CASE Cut
  BY <1>23 DEF Cut, Goto, Discard
<1>24. CASE Closing
  BY <1>24 DEF Closing, Goto, Discard
<1>25. CASE Finish
  BY <1>25 DEF Finish, Goto
<1>26. CASE Ask
  BY <1>26 DEF Ask, Goto, Enter, Kills, Fatal, DiscardIf, Discard
<1>27. CASE Reduce
  BY <1>27 DEF Reduce, Tried, Session, NoSession, Open, Goto
<1>28. CASE SyntaxError
  BY <1>28 DEF SyntaxError, Tried, Goto, DiscardIf, Discard
<1>29. CASE Probe
  BY <1>29 DEF Probe, Goto, DiscardIf, Discard
<1>30. CASE UNCHANGED vars
  BY <1>30 DEF vars, control
<1> QED
  BY <1>1, <1>2, <1>3, <1>4, <1>5, <1>6, <1>7, <1>8, <1>9, <1>10, <1>11, <1>12,
     <1>13, <1>14, <1>15, <1>16, <1>17, <1>18, <1>19, <1>20, <1>21, <1>22,
     <1>23, <1>24, <1>25, <1>26, <1>27, <1>28, <1>29, <1>30
  DEF Next, Step, PhaseStep, LoadStep, CaseStep

\* The phase, the call and the work in hand keep agreeing.
LEMMA WorkStep == TypeOK /\ WorkInv /\ RestoringInv /\ [Next]_vars => WorkInv'
<1> SUFFICES ASSUME TypeOK /\ WorkInv /\ RestoringInv, [Next]_vars
    PROVE  WorkInv'
  OBVIOUS
<1> USE DEF TypeOK, ControlTyped, WorkInv, RestoringInv, Restorable, Preparing,
            Midway, Loading, Phases
<1>1. CASE Cancel
  BY <1>1 DEF Cancel
<1>2. CASE MeasureEmpty
  BY <1>2, ReadingFields, ExecutorAssumption DEF MeasureEmpty, Begin, Enter
<1>3. CASE MeasureRoundTrip
  BY <1>3, ReadingFields DEF MeasureRoundTrip, Begin
<1>4. CASE RunCase
  BY <1>4, WorkFields DEF RunCase, Begin
<1>5. CASE EndCases
  BY <1>5 DEF EndCases, Enter
<1>6. CASE Walk
  BY <1>6, WalkedFields DEF Walk, Begin
<1>7. CASE EndWalk
  BY <1>7 DEF EndWalk, Enter
<1>8. CASE Observe
  BY <1>8, ReadingFields, ExecutorAssumption DEF Observe, Begin
<1>9. CASE Close
  BY <1>9 DEF Close, Enter
<1>10. CASE GetSession
  BY <1>10 DEF GetSession, GiveUp, Ready, Goto, Enter
<1>11. CASE EnsureLoaded
  BY <1>11 DEF EnsureLoaded, Ready, GiveUp, Goto, Enter, ToIngest, UpToDate
<1>12. CASE Reopen
  BY <1>12 DEF Reopen, GiveUp, Goto, Enter, ToIngest
<1>13. CASE MeasureFloor
  BY <1>13 DEF MeasureFloor, Goto
<1>14. CASE Refresh
  BY <1>14 DEF Refresh, GiveUp, Goto, Enter
<1>15. CASE Ingest
  BY <1>15 DEF Ingest, Ready, Resume, GiveUp, Goto, Enter
<1>16. CASE MakePlan
  BY <1>16, TreatmentOf DEF MakePlan
<1>17. CASE Setup
  BY <1>17 DEF Setup, AfterSetup, Goto
<1>18. CASE Warm
  BY <1>18, WarmupsBounded DEF Warm, Goto
<1>19. CASE Exec
  BY <1>19 DEF Exec, Goto
<1>20. CASE Restore
  BY <1>20 DEF Restore, Goto
<1>21. CASE Explain
  BY <1>21 DEF Explain, Goto
<1>22. CASE CheckParses
  BY <1>22 DEF CheckParses, Goto
<1>23. CASE Cut
  BY <1>23 DEF Cut, Goto
<1>24. CASE Closing
  BY <1>24 DEF Closing, Goto
<1>25. CASE Finish
  BY <1>25 DEF Finish, Goto
<1>26. CASE Ask
  BY <1>26 DEF Ask, Goto, Enter
<1>27. CASE Reduce
  BY <1>27 DEF Reduce, Tried, Goto
<1>28. CASE SyntaxError
  BY <1>28 DEF SyntaxError, Tried, Goto
<1>29. CASE Probe
  BY <1>29 DEF Probe, Goto
<1>30. CASE UNCHANGED vars
  BY <1>30 DEF vars, control
<1> QED
  BY <1>1, <1>2, <1>3, <1>4, <1>5, <1>6, <1>7, <1>8, <1>9, <1>10, <1>11, <1>12,
     <1>13, <1>14, <1>15, <1>16, <1>17, <1>18, <1>19, <1>20, <1>21, <1>22,
     <1>23, <1>24, <1>25, <1>26, <1>27, <1>28, <1>29, <1>30
  DEF Next, Step, PhaseStep, LoadStep, CaseStep

\* loaded and dirty keep meaning what ensureLoaded takes them to mean.
LEMMA LoadedStep ==
  TypeOK /\ HandleInv /\ WorkInv /\ LoadedInv /\ UnresetInv /\ [Next]_vars => LoadedInv'
<1> SUFFICES ASSUME TypeOK /\ HandleInv /\ WorkInv /\ LoadedInv /\ UnresetInv,
             [Next]_vars
    PROVE  LoadedInv'
  OBVIOUS
<1> USE DEF TypeOK, ControlTyped, HoldingTyped, EngineTyped, LoadedInv, Clean,
            Midway, holding, memory, graph, engine
<1>1. CASE Cancel
  BY <1>1 DEF Cancel
<1>2. CASE MeasureEmpty
  BY <1>2, ReadingFields, ExecutorAssumption DEF MeasureEmpty
<1>3. CASE MeasureRoundTrip
  BY <1>3, ReadingFields DEF MeasureRoundTrip
<1>4. CASE RunCase
  BY <1>4, WorkFields DEF RunCase
<1>5. CASE EndCases
  BY <1>5 DEF EndCases
<1>6. CASE Walk
  BY <1>6, WalkedFields DEF Walk, Begin
<1>7. CASE EndWalk
  BY <1>7 DEF EndWalk
<1>8. CASE Observe
  BY <1>8, ReadingFields, ExecutorAssumption DEF Observe
<1>9. CASE Close
  BY <1>9 DEF Close
<1>10. CASE GetSession
  BY <1>10 DEF GetSession, Session, NoSession, Open, GiveUp, Ready, Goto
<1>11. CASE EnsureLoaded
  BY <1>11 DEF EnsureLoaded, Ready, Goto, Discard
<1>12. CASE Reopen
  BY <1>12 DEF Reopen, Session, NoSession, Open, GiveUp, Goto
<1>13. CASE MeasureFloor
  BY <1>13 DEF MeasureFloor, Goto, Discard, DropShape
<1>14. CASE Refresh
  BY <1>14 DEF Refresh, Session, NoSession, Open, GiveUp, Goto
<1>15. CASE Ingest
  <2>1. CASE loaded' = NoFixture
    BY <2>1
  <2>2. CASE loaded' # NoFixture
    <3>1. base' = loaded' /\ prepared' = 0 /\ applied' = 0
      BY <1>15, <2>2 DEF Ingest, Replaced, Discard
    <3>2. phase # "walk" /\ sess # Nil
      BY <1>15 DEF Ingest, WorkInv, Loading, HandleInv, Bound
    <3>3. ~Isolated => ~residue /\ ~(prepared > 0) /\ ~(applied > 0)
      BY <1>15, <3>2 DEF Ingest, UnresetInv
    <3>4. ~residue'
      BY <1>15, <3>3 DEF Ingest, Replaced
    <3> QED BY <3>1, <3>4
  <2> QED BY <2>1, <2>2
<1>16. CASE MakePlan
  BY <1>16, TreatmentOf DEF MakePlan
<1>17. CASE Setup
  <2>1. cur.setup => cur.mutating
    BY WorkFields
  <2>2. CASE loaded' # NoFixture /\ ~dirty'
    <3>1. UNCHANGED <<loaded, dirty, base, residue, applied, phase, cur>>
      BY <1>17, <2>2 DEF Setup, Goto, DiscardIf, Discard
    <3>2. pc' \in Midway
      BY <1>17 DEF Setup, Goto, AfterSetup
    <3>3. pc \in Midway /\ ((prepared' > 0 /\ cur.mutating) \/ prepared' = prepared)
      BY <1>17, <2>1 DEF Setup
    <3> QED BY <2>2, <3>1, <3>2, <3>3
  <2> QED BY <2>2
<1>18. CASE Warm
  BY <1>18, WarmupsBounded DEF Warm, Writes, Goto
<1>19. CASE Exec
  BY <1>19 DEF Exec, DiscardIf, Discard, Writes, Goto
<1>20. CASE Restore
  BY <1>20 DEF Restore, DirtyForRestore
<1>21. CASE Explain
  BY <1>21 DEF Explain, Goto, DiscardIf, Discard
<1>22. CASE CheckParses
  BY <1>22 DEF CheckParses, Goto, DiscardIf, Discard, Writes
<1>23. CASE Cut
  BY <1>23 DEF Cut, Discard
<1>24. CASE Closing
  BY <1>24 DEF Closing, Discard
<1>25. CASE Finish
  BY <1>25 DEF Finish, Goto, DirtyAfterCase
<1>26. CASE Ask
  <2>1. phase' \in {phase, "cases"} /\ phase = "roundtrip"
    BY <1>26 DEF Ask, WorkInv, Goto, Enter
  <2>2. UNCHANGED graph /\ (loaded' = NoFixture \/ UNCHANGED <<loaded, dirty>>)
    BY <1>26 DEF Ask, DiscardIf, Discard
  <2> QED BY <1>26, <2>1, <2>2 DEF Ask
<1>27. CASE Reduce
  BY <1>27 DEF Reduce, Tried, Session, NoSession, Open, Goto
<1>28. CASE SyntaxError
  <2>1. phase' = "walk"
    BY <1>28 DEF SyntaxError, Tried, WorkInv, Goto
  <2> QED BY <2>1
<1>29. CASE Probe
  BY <1>29 DEF Probe, Goto, DiscardIf, Discard
<1>30. CASE UNCHANGED vars
  BY <1>30 DEF vars, control
<1> QED
  BY <1>1, <1>2, <1>3, <1>4, <1>5, <1>6, <1>7, <1>8, <1>9, <1>10, <1>11, <1>12,
     <1>13, <1>14, <1>15, <1>16, <1>17, <1>18, <1>19, <1>20, <1>21, <1>22,
     <1>23, <1>24, <1>25, <1>26, <1>27, <1>28, <1>29, <1>30
  DEF Next, Step, PhaseStep, LoadStep, CaseStep

\* An engine without a reset is reopened before it is loaded into again.
LEMMA UnresetStep ==
  TypeOK /\ HandleInv /\ WorkInv /\ UnresetInv /\ [Next]_vars => UnresetInv'
<1> SUFFICES ASSUME TypeOK /\ HandleInv /\ WorkInv /\ UnresetInv, [Next]_vars
    PROVE  UnresetInv'
  OBVIOUS
<1>0. ~Isolated => ~ServerSide
  BY ExecutorAssumption
<1> USE DEF UnresetInv, Clean, Midway, holding, memory, graph, engine
<1>1. CASE Cancel
  BY <1>1 DEF Cancel
<1>2. CASE MeasureEmpty
  BY <1>2, ReadingFields, ExecutorAssumption DEF MeasureEmpty, Begin, Enter
<1>3. CASE MeasureRoundTrip
  BY <1>3, ReadingFields DEF MeasureRoundTrip, Begin
<1>4. CASE RunCase
  BY <1>4, WorkFields DEF RunCase, Begin
<1>5. CASE EndCases
  BY <1>5 DEF EndCases, Enter
<1>6. CASE Walk
  BY <1>6, WalkedFields DEF Walk, Begin
<1>7. CASE EndWalk
  BY <1>7 DEF EndWalk, Enter
<1>8. CASE Observe
  BY <1>8, ReadingFields, ExecutorAssumption DEF Observe, Begin
<1>9. CASE Close
  BY <1>9 DEF Close, Enter
<1>10. CASE GetSession
  <2>1. CASE Open
    BY <1>10, <2>1, <1>0 DEF Open
  <2>2. CASE ~Open
    BY <1>10, <2>2
       DEF GetSession, Session, NoSession, Ready, Resume, GiveUp, Goto, Enter
  <2> QED BY <2>1, <2>2
<1>11. CASE EnsureLoaded
  BY <1>11 DEF EnsureLoaded, Ready, Goto, Discard, UpToDate, NeedsReopen
<1>12. CASE Reopen
  <2>1. CASE Open
    BY <1>12, <2>1, <1>0 DEF Open
  <2>2. CASE ~Open
    BY <1>12, <2>2
       DEF Reopen, Session, NoSession, GiveUp, Goto, Enter, HandleInv
  <2> QED BY <2>1, <2>2
<1>13. CASE MeasureFloor
  BY <1>13 DEF MeasureFloor, Goto, Discard, DropShape
<1>14. CASE Refresh
  <2>1. CASE Open
    BY <1>14, <2>1, <1>0 DEF Open
  <2>2. CASE ~Open
    BY <1>14, <2>2
       DEF Refresh, Session, NoSession, GiveUp, Goto, Enter, HandleInv
  <2> QED BY <2>1, <2>2
<1>15. CASE Ingest
  <2>1. pc' \notin {"floor", "ingest"}
    BY <1>15 DEF Ingest, Ready, Resume, GiveUp, Goto, Enter
  <2>2. CASE ~Isolated /\ sess' # Nil
    <3>1. prepared' = 0 /\ applied' = 0
      BY <1>15 DEF Ingest, Replaced
    <3>2. phase # "walk" /\ sess # Nil
      BY <1>15 DEF Ingest, WorkInv, Loading, HandleInv, Bound
    <3>3. ~residue /\ ~(prepared > 0) /\ ~(applied > 0)
      BY <1>15, <2>2, <3>2 DEF Ingest
    <3>4. ~residue'
      BY <1>15, <3>3 DEF Ingest, Replaced
    <3> QED BY <2>1, <3>1, <3>4
  <2> QED BY <2>1, <2>2
<1>16. CASE MakePlan
  BY <1>16, TreatmentOf DEF MakePlan
<1>17. CASE Setup
  <2>1. cur.setup => cur.mutating
    BY WorkFields DEF TypeOK, ControlTyped
  <2>2. CASE sess' # Nil /\ ~dirty'
    <3>1. UNCHANGED <<sess, dirty, residue, applied, phase, cur>>
      BY <1>17, <2>2 DEF Setup, Goto, DiscardIf, Discard
    <3>2. pc' \in Midway
      BY <1>17 DEF Setup, Goto, AfterSetup
    <3>3. pc \in Midway /\ (cur.mutating \/ prepared' = prepared)
      BY <1>17, <2>1 DEF Setup
    <3> QED BY <2>2, <3>1, <3>2, <3>3
  <2>3. pc' \notin {"floor", "ingest"}
    BY <1>17 DEF Setup, Goto, AfterSetup
  <2> QED BY <2>2, <2>3
<1>18. CASE Warm
  BY <1>18, WarmupsBounded DEF Warm, Writes, Goto
<1>19. CASE Exec
  BY <1>19 DEF Exec, DiscardIf, Discard, Writes, Goto
<1>20. CASE Restore
  BY <1>20 DEF Restore, DirtyForRestore, Goto
<1>21. CASE Explain
  BY <1>21 DEF Explain, Goto, DiscardIf, Discard
<1>22. CASE CheckParses
  BY <1>22 DEF CheckParses, Goto, DiscardIf, Discard, Writes
<1>23. CASE Cut
  BY <1>23 DEF Cut, Discard
<1>24. CASE Closing
  BY <1>24 DEF Closing, Discard
<1>25. CASE Finish
  <2>1. prepared' = 0 /\ applied' = 0 /\ pc' \notin {"floor", "ingest"}
    BY <1>25 DEF Finish, Goto
  <2>2. CASE ~Isolated /\ sess' # Nil /\ ~dirty' /\ phase' # "walk"
    <3>1. Clean /\ ~cur.mutating
      BY <1>25, <2>2 DEF Finish, Goto, DirtyAfterCase
    <3>2. ~residue /\ ~(prepared > 0) /\ ~(applied > 0)
      BY <3>1
    <3>3. ~residue'
      BY <1>25, <3>2 DEF Finish
    <3> QED BY <2>1, <3>3
  <2> QED BY <2>1, <2>2
<1>26. CASE Ask
  <2>1. phase' \in {phase, "cases"} /\ phase = "roundtrip"
    BY <1>26 DEF Ask, WorkInv, Goto, Enter
  <2>2. UNCHANGED graph /\ (sess' = Nil \/ UNCHANGED <<sess, dirty>>)
    BY <1>26 DEF Ask, DiscardIf, Discard
  <2>3. pc' \in {"ask", "start"}
    BY <1>26 DEF Ask, Goto, Enter
  <2> QED BY <1>26, <2>1, <2>2, <2>3 DEF Ask
<1>27. CASE Reduce
  <2>1. CASE Open
    BY <1>27, <2>1, <1>0 DEF Open
  <2>2. CASE ~Open
    BY <1>27, <2>2 DEF Reduce, Tried, Session, NoSession, Goto
  <2> QED BY <2>1, <2>2
<1>28. CASE SyntaxError
  <2>1. phase' = "walk" /\ pc' = "reduce"
    BY <1>28 DEF SyntaxError, Tried, WorkInv, Goto
  <2> QED BY <2>1
<1>29. CASE Probe
  BY <1>29 DEF Probe, Goto, DiscardIf, Discard
<1>30. CASE UNCHANGED vars
  BY <1>30 DEF vars, control
<1> QED
  BY <1>1, <1>2, <1>3, <1>4, <1>5, <1>6, <1>7, <1>8, <1>9, <1>10, <1>11, <1>12,
     <1>13, <1>14, <1>15, <1>16, <1>17, <1>18, <1>19, <1>20, <1>21, <1>22,
     <1>23, <1>24, <1>25, <1>26, <1>27, <1>28, <1>29, <1>30
  DEF Next, Step, PhaseStep, LoadStep, CaseStep

\* The fixture of a case stays in the session while the case is executed.
LEMMA SettledStep ==
  TypeOK /\ WorkInv /\ SettledInv /\ [Next]_vars => SettledInv'
<1> SUFFICES ASSUME TypeOK /\ WorkInv /\ SettledInv, [Next]_vars
    PROVE  SettledInv'
  OBVIOUS
<1> USE DEF SettledInv, Settled, holding, memory, graph, engine
<1>1. CASE Cancel
  BY <1>1 DEF Cancel
<1>2. CASE MeasureEmpty
  BY <1>2, ReadingFields, ExecutorAssumption DEF MeasureEmpty, Begin, Enter
<1>3. CASE MeasureRoundTrip
  BY <1>3, ReadingFields DEF MeasureRoundTrip, Begin
<1>4. CASE RunCase
  BY <1>4, WorkFields DEF RunCase, Begin
<1>5. CASE EndCases
  BY <1>5 DEF EndCases, Enter
<1>6. CASE Walk
  BY <1>6, WalkedFields DEF Walk, Begin
<1>7. CASE EndWalk
  BY <1>7 DEF EndWalk, Enter
<1>8. CASE Observe
  BY <1>8, ReadingFields, ExecutorAssumption DEF Observe, Begin
<1>9. CASE Close
  BY <1>9 DEF Close, Enter
<1>10. CASE GetSession
  BY <1>10 DEF GetSession, GiveUp, Ready, Goto, Enter
<1>11. CASE EnsureLoaded
  BY <1>11 DEF EnsureLoaded, Ready, GiveUp, Goto, Enter, ToIngest, UpToDate
<1>12. CASE Reopen
  BY <1>12 DEF Reopen, GiveUp, Goto, Enter, ToIngest
<1>13. CASE MeasureFloor
  BY <1>13 DEF MeasureFloor, Goto
<1>14. CASE Refresh
  BY <1>14 DEF Refresh, GiveUp, Goto, Enter
<1>15. CASE Ingest
  BY <1>15 DEF Ingest, Ready, GiveUp, Goto, Enter
<1>16. CASE MakePlan
  BY <1>16, TreatmentOf DEF MakePlan
<1>17. CASE Setup
  BY <1>17 DEF Setup, Goto, DiscardIf, Fatal, Kills
<1>18. CASE Warm
  BY <1>18, WarmupsBounded DEF Warm, Goto
<1>19. CASE Exec
  BY <1>19 DEF Exec, DiscardIf, Goto
<1>20. CASE Restore
  BY <1>20 DEF Restore, Goto
<1>21. CASE Explain
  BY <1>21 DEF Explain, Goto
<1>22. CASE CheckParses
  BY <1>22 DEF CheckParses, Goto
<1>23. CASE Cut
  BY <1>23 DEF Cut, Goto
<1>24. CASE Closing
  BY <1>24 DEF Closing, Goto
<1>25. CASE Finish
  BY <1>25 DEF Finish, Goto
<1>26. CASE Ask
  BY <1>26 DEF Ask, Goto, Enter
<1>27. CASE Reduce
  BY <1>27 DEF Reduce, Tried, Goto
<1>28. CASE SyntaxError
  BY <1>28 DEF SyntaxError, Tried, Goto
<1>29. CASE Probe
  BY <1>29 DEF Probe, Goto
<1>30. CASE UNCHANGED vars
  BY <1>30 DEF vars, control
<1> QED
  BY <1>1, <1>2, <1>3, <1>4, <1>5, <1>6, <1>7, <1>8, <1>9, <1>10, <1>11, <1>12,
     <1>13, <1>14, <1>15, <1>16, <1>17, <1>18, <1>19, <1>20, <1>21, <1>22,
     <1>23, <1>24, <1>25, <1>26, <1>27, <1>28, <1>29, <1>30
  DEF Next, Step, PhaseStep, LoadStep, CaseStep

\* A fixture the engine refused is not loaded again.
LEMMA FailedStep == TypeOK /\ WorkInv /\ FailedInv /\ [Next]_vars => FailedInv'
<1> SUFFICES ASSUME TypeOK /\ WorkInv /\ FailedInv, [Next]_vars
    PROVE  FailedInv'
  OBVIOUS
<1>0. NoFixture \notin failedLoads
  BY PlanAssumption DEF TypeOK, MemoryTyped
<1> USE DEF FailedInv, Loading, holding, memory, graph, engine
<1>1. CASE Cancel
  BY <1>1 DEF Cancel
<1>2. CASE MeasureEmpty
  BY <1>2, ReadingFields, ExecutorAssumption DEF MeasureEmpty, Begin, Enter
<1>3. CASE MeasureRoundTrip
  BY <1>3, ReadingFields DEF MeasureRoundTrip, Begin
<1>4. CASE RunCase
  BY <1>4, WorkFields DEF RunCase, Begin
<1>5. CASE EndCases
  BY <1>5 DEF EndCases, Enter
<1>6. CASE Walk
  BY <1>6, WalkedFields DEF Walk, Begin
<1>7. CASE EndWalk
  BY <1>7 DEF EndWalk, Enter
<1>8. CASE Observe
  BY <1>8, ReadingFields, ExecutorAssumption DEF Observe, Begin
<1>9. CASE Close
  BY <1>9 DEF Close, Enter
<1>10. CASE GetSession
  BY <1>10, <1>0
     DEF GetSession, Session, NoSession, Open, GiveUp, Ready, Goto, Enter
<1>11. CASE EnsureLoaded
  BY <1>0, <1>11
     DEF EnsureLoaded, Ready, GiveUp, Goto, Enter, Discard, UpToDate, Refused
<1>12. CASE Reopen
  BY <1>0, <1>12 DEF Reopen, Session, NoSession, Open, GiveUp, Goto, Enter
<1>13. CASE MeasureFloor
  BY <1>0, <1>13 DEF MeasureFloor, Goto, Discard, DropShape
<1>14. CASE Refresh
  BY <1>0, <1>14 DEF Refresh, Session, NoSession, Open, GiveUp, Goto, Enter
<1>15. CASE Ingest
  <2>1. cur.fixture # NoFixture /\ cur.fixture \notin failedLoads
    BY <1>0, <1>15 DEF Ingest, WorkInv
  <2>2. pc' \notin Loading
    BY <1>0, <1>15 DEF Ingest, Ready, Resume, GiveUp, Goto, Enter
  <2>3. loaded' \notin failedLoads'
    BY <1>15, <1>0, <2>1 DEF Ingest, Discard
  <2> QED BY <2>2, <2>3
<1>16. CASE MakePlan
  BY <1>16, TreatmentOf DEF MakePlan
<1>17. CASE Setup
  BY <1>0, <1>17 DEF Setup, AfterSetup, Goto, DiscardIf, Discard
<1>18. CASE Warm
  BY <1>18, WarmupsBounded DEF Warm, Goto
<1>19. CASE Exec
  BY <1>0, <1>19 DEF Exec, DiscardIf, Discard, Goto
<1>20. CASE Restore
  BY <1>20 DEF Restore, Goto
<1>21. CASE Explain
  BY <1>0, <1>21 DEF Explain, Goto, DiscardIf, Discard
<1>22. CASE CheckParses
  BY <1>0, <1>22 DEF CheckParses, Goto, DiscardIf, Discard
<1>23. CASE Cut
  BY <1>0, <1>23 DEF Cut, Goto, Discard
<1>24. CASE Closing
  BY <1>0, <1>24 DEF Closing, Goto, Discard
<1>25. CASE Finish
  BY <1>25 DEF Finish, Goto
<1>26. CASE Ask
  BY <1>0, <1>26 DEF Ask, Goto, Enter, DiscardIf, Discard
<1>27. CASE Reduce
  BY <1>0, <1>27 DEF Reduce, Tried, Session, NoSession, Open, Goto
<1>28. CASE SyntaxError
  BY <1>0, <1>28 DEF SyntaxError, Tried, Goto, DiscardIf, Discard
<1>29. CASE Probe
  BY <1>0, <1>29 DEF Probe, Goto, DiscardIf, Discard
<1>30. CASE UNCHANGED vars
  BY <1>30 DEF vars, control
<1> QED
  BY <1>1, <1>2, <1>3, <1>4, <1>5, <1>6, <1>7, <1>8, <1>9, <1>10, <1>11, <1>12,
     <1>13, <1>14, <1>15, <1>16, <1>17, <1>18, <1>19, <1>20, <1>21, <1>22,
     <1>23, <1>24, <1>25, <1>26, <1>27, <1>28, <1>29, <1>30
  DEF Next, Step, PhaseStep, LoadStep, CaseStep

\* The shape a floor was measured with goes with its session.
LEMMA StoreStep == TypeOK /\ HandleInv /\ StoreInv /\ [Next]_vars => StoreInv'
<1> SUFFICES ASSUME TypeOK /\ HandleInv /\ StoreInv, [Next]_vars
    PROVE  StoreInv'
  OBVIOUS
<1> USE DEF StoreInv, holding, memory, graph, engine
<1>1. CASE Cancel
  BY <1>1 DEF Cancel
<1>2. CASE MeasureEmpty
  BY <1>2, ReadingFields, ExecutorAssumption DEF MeasureEmpty, Begin, Enter
<1>3. CASE MeasureRoundTrip
  BY <1>3, ReadingFields DEF MeasureRoundTrip, Begin
<1>4. CASE RunCase
  BY <1>4, WorkFields DEF RunCase, Begin
<1>5. CASE EndCases
  BY <1>5 DEF EndCases, Enter
<1>6. CASE Walk
  BY <1>6, WalkedFields DEF Walk, Begin
<1>7. CASE EndWalk
  BY <1>7 DEF EndWalk, Enter
<1>8. CASE Observe
  BY <1>8, ReadingFields, ExecutorAssumption DEF Observe, Begin
<1>9. CASE Close
  BY <1>9 DEF Close, Enter
<1>10. CASE GetSession
  BY <1>10 DEF GetSession, Session, NoSession, Open, GiveUp, Goto, Enter
<1>11. CASE EnsureLoaded
  <2>1. sess # Nil
    BY <1>11 DEF EnsureLoaded, HandleInv, Bound
  <2> QED BY <1>11, <2>1 DEF EnsureLoaded, Discard
<1>12. CASE Reopen
  BY <1>12 DEF Reopen, Session, NoSession, Open, GiveUp, Goto, Enter
<1>13. CASE MeasureFloor
  <2>1. sess # Nil
    BY <1>13 DEF MeasureFloor, HandleInv, Bound
  <2> QED BY <1>13, <2>1 DEF MeasureFloor, DropShape, Discard, Goto
<1>14. CASE Refresh
  BY <1>14 DEF Refresh, Session, NoSession, Open, GiveUp, Goto, Enter
<1>15. CASE Ingest
  BY <1>15 DEF Ingest
<1>16. CASE MakePlan
  BY <1>16, TreatmentOf DEF MakePlan
<1>17. CASE Setup
  BY <1>17 DEF Setup, AfterSetup, Goto, DiscardIf, Discard
<1>18. CASE Warm
  BY <1>18, WarmupsBounded DEF Warm, Goto
<1>19. CASE Exec
  BY <1>19 DEF Exec, DiscardIf, Discard, Goto
<1>20. CASE Restore
  BY <1>20 DEF Restore, Goto
<1>21. CASE Explain
  BY <1>21 DEF Explain, Goto
<1>22. CASE CheckParses
  BY <1>22 DEF CheckParses, Goto
<1>23. CASE Cut
  BY <1>23 DEF Cut, Goto, Discard
<1>24. CASE Closing
  BY <1>24 DEF Closing, Goto, Discard
<1>25. CASE Finish
  BY <1>25 DEF Finish, Goto
<1>26. CASE Ask
  BY <1>26 DEF Ask, Goto, Enter, DiscardIf, Discard
<1>27. CASE Reduce
  BY <1>27 DEF Reduce, Tried, Session, NoSession, Open, Goto
<1>28. CASE SyntaxError
  BY <1>28 DEF SyntaxError, Tried, Goto, DiscardIf, Discard
<1>29. CASE Probe
  BY <1>29 DEF Probe, Goto, DiscardIf, Discard
<1>30. CASE UNCHANGED vars
  BY <1>30 DEF vars, control
<1> QED
  BY <1>1, <1>2, <1>3, <1>4, <1>5, <1>6, <1>7, <1>8, <1>9, <1>10, <1>11, <1>12,
     <1>13, <1>14, <1>15, <1>16, <1>17, <1>18, <1>19, <1>20, <1>21, <1>22,
     <1>23, <1>24, <1>25, <1>26, <1>27, <1>28, <1>29, <1>30
  DEF Next, Step, PhaseStep, LoadStep, CaseStep

\* Only a case whose timing is restored comes back to have its fixture loaded.
LEMMA RestoringStep ==
  TypeOK /\ HandleInv /\ WorkInv /\ RestoringInv /\ [Next]_vars => RestoringInv'
<1> SUFFICES ASSUME TypeOK /\ HandleInv /\ WorkInv /\ RestoringInv, [Next]_vars
    PROVE  RestoringInv'
  OBVIOUS
<1> USE DEF RestoringInv, Restorable, Preparing, Midway, Loading, holding,
            memory, graph, engine
<1>1. CASE Cancel
  BY <1>1 DEF Cancel
<1>2. CASE MeasureEmpty
  BY <1>2, ReadingFields, ExecutorAssumption DEF MeasureEmpty, Begin, Enter
<1>3. CASE MeasureRoundTrip
  BY <1>3, ReadingFields DEF MeasureRoundTrip, Begin
<1>4. CASE RunCase
  BY <1>4, WorkFields DEF RunCase, Begin
<1>5. CASE EndCases
  BY <1>5 DEF EndCases, Enter
<1>6. CASE Walk
  BY <1>6, WalkedFields DEF Walk, Begin
<1>7. CASE EndWalk
  BY <1>7 DEF EndWalk, Enter
<1>8. CASE Observe
  BY <1>8, ReadingFields, ExecutorAssumption DEF Observe, Begin
<1>9. CASE Close
  BY <1>9 DEF Close, Enter
<1>10. CASE GetSession
  <2>1. pc' \in {"start", "ask", "probe", "setup", "plan", "load", "explain"}
    BY <1>10 DEF GetSession, GiveUp, Ready, Goto, Enter
  <2>2. CASE tries > 0
    <3>1. /\ Restorable /\ plan.timing = "restored" /\ dirty /\ sess # Nil
      BY <1>10, <2>2 DEF GetSession
    <3>2. handle' = sess /\ UNCHANGED <<holding, engine>>
      BY <1>10, <3>1 DEF GetSession, Session, NoSession
    <3>3. Goto("load") /\ UNCHANGED tries
      BY <1>10, <3>1 DEF GetSession, NoSession
    <3>4. /\ pc' = "load"
          /\ UNCHANGED <<phase, plan, cur, tries, dirty, sess, applied,
               prepared>>
      BY <3>2, <3>3 DEF Goto
    <3> QED BY <2>2, <3>1, <3>4
  <2>3. CASE ~(tries > 0)
    <3>1. ~(applied > 0) /\ ~(prepared > 0)
      BY <1>10, <2>3 DEF GetSession
    <3>2. ~(applied' > 0) /\ ~(prepared' > 0)
      <4>1. CASE Open
        BY <4>1, <3>1 DEF Open
      <4>2. CASE ~Open
        BY <1>10, <4>2, <3>1 DEF GetSession, Session, NoSession
      <4> QED BY <4>1, <4>2
    <3>3. pc' \notin {"setup", "explain"} /\ ~(tries' > 0) /\ (pc' = "plan" =>
         tries' = 0)
      BY <1>10, <2>3
         DEF GetSession, GiveUp, Ready, Goto, Enter, TypeOK, ControlTyped
    <3> QED BY <2>1, <3>2, <3>3
  <2> QED BY <2>2, <2>3
<1>11. CASE EnsureLoaded
  <2>1. pc' \in {"start", "ask", "probe", "setup", "plan", "explain", "reopen",
       "floor", "ingest"}
    BY <1>11 DEF EnsureLoaded, GiveUp, Ready, Resume, Goto, Enter, ToIngest
  <2>2. UNCHANGED <<applied, prepared, plan, cur>>
    BY <1>11 DEF EnsureLoaded, GiveUp, Ready, Goto, Enter
  <2>3. CASE tries > 0
    <3>1. Restorable /\ plan.timing = "restored" /\ ~UpToDate
      BY <1>11, <2>3 DEF EnsureLoaded, UpToDate
    <3>2. UNCHANGED <<phase, tries>> /\ pc' \in {"explain", "reopen", "floor",
         "ingest"}
      BY <1>11, <2>3, <3>1 DEF EnsureLoaded, GiveUp, Goto, ToIngest
    <3> QED BY <2>2, <2>3, <3>1, <3>2
  <2>4. CASE ~(tries > 0)
    <3>1. ~(applied > 0) /\ ~(prepared > 0)
      BY <1>11, <2>4 DEF EnsureLoaded
    <3>2. pc' \notin {"setup", "explain"} /\ ~(tries' > 0) /\ (pc' = "plan" =>
         tries' = 0)
      BY <1>11, <2>4
         DEF EnsureLoaded, GiveUp, Ready, Goto, Enter, TypeOK, ControlTyped,
             ToIngest
    <3> QED BY <2>1, <2>2, <3>1, <3>2
  <2> QED BY <2>3, <2>4
<1>12. CASE Reopen
  BY <1>12 DEF Reopen, Session, NoSession, Open, GiveUp, Goto, Enter, ToIngest
<1>13. CASE MeasureFloor
  BY <1>13 DEF MeasureFloor, Goto
<1>14. CASE Refresh
  BY <1>14 DEF Refresh, Session, NoSession, Open, GiveUp, Goto, Enter
<1>15. CASE Ingest
  <2>1. ~(applied' > 0) /\ ~(prepared' > 0) /\ UNCHANGED plan
    BY <1>15 DEF Ingest, Replaced, GiveUp, Ready, Goto, Enter
  <2>2. CASE tries > 0
    <3>1. Restorable /\ plan.timing = "restored"
      BY <1>15, <2>2 DEF Ingest
    <3>2. UNCHANGED <<phase, tries, cur>> /\ pc' \in {"explain", "setup"}
      BY <1>15, <2>2, <3>1 DEF Ingest, GiveUp, Ready, Resume, Goto
    <3> QED BY <2>1, <3>1, <3>2
  <2>3. CASE ~(tries > 0)
    <3>1. pc' \in {"start", "ask", "probe", "plan"} /\ ~(tries' > 0)
          /\ (pc' = "plan" => tries' = 0)
      BY <1>15, <2>3
         DEF Ingest, GiveUp, Ready, Goto, Enter, TypeOK, ControlTyped
    <3> QED BY <2>1, <3>1
  <2> QED BY <2>2, <2>3
<1>16. CASE MakePlan
  <2>1. plan'.timing = "restored" => cur.mutating /\ cur.fixture # NoFixture
    BY <1>16, TreatmentOf DEF MakePlan, TypeOK, ControlTyped
  <2>2. phase \in {"cases", "walk"} /\ (phase = "walk" => cur.fixture =
       NoFixture)
    BY <1>16 DEF MakePlan, WorkInv
  <2>3. pc' \in {"setup", "finish"} /\ UNCHANGED <<tries, applied, prepared,
       phase, cur>>
    BY <1>16 DEF MakePlan
  <2>4. ~(applied > 0) /\ ~(prepared > 0)
    BY <1>16 DEF MakePlan
  <2> QED BY <2>1, <2>2, <2>3, <2>4
<1>17. CASE Setup
  BY <1>17 DEF Setup, AfterSetup, Goto
<1>18. CASE Warm
  BY <1>18, WarmupsBounded DEF Warm, Goto
<1>19. CASE Exec
  <2>1. pc' \in {"explain", "restore", "exec"} /\ UNCHANGED <<plan, phase, cur,
       prepared>>
    BY <1>19 DEF Exec, Goto
  <2>2. pc' = "restore" => plan.timing = "restored"
    BY <1>19 DEF Exec, Goto
  <2>3. tries' > 0
    BY <1>19 DEF Exec, TypeOK, ControlTyped
  <2> QED BY <1>19, <2>1, <2>2, <2>3 DEF Exec
<1>20. CASE Restore
  BY <1>20 DEF HandleInv, Bound, Restore, DirtyForRestore, Goto
<1>21. CASE Explain
  BY <1>21 DEF Explain, Goto
<1>22. CASE CheckParses
  BY <1>22 DEF CheckParses, Goto
<1>23. CASE Cut
  BY <1>23 DEF Cut, Goto
<1>24. CASE Closing
  BY <1>24 DEF Closing, Goto
<1>25. CASE Finish
  BY <1>25 DEF Finish, Goto
<1>26. CASE Ask
  BY <1>26 DEF Ask, Goto, Enter
<1>27. CASE Reduce
  BY <1>27 DEF Reduce, Tried, Session, NoSession, Open, Goto
<1>28. CASE SyntaxError
  BY <1>28 DEF SyntaxError, Tried, Goto
<1>29. CASE Probe
  BY <1>29 DEF Probe, Goto
<1>30. CASE UNCHANGED vars
  BY <1>30 DEF vars, control
<1> QED
  BY <1>1, <1>2, <1>3, <1>4, <1>5, <1>6, <1>7, <1>8, <1>9, <1>10, <1>11, <1>12,
     <1>13, <1>14, <1>15, <1>16, <1>17, <1>18, <1>19, <1>20, <1>21, <1>22,
     <1>23, <1>24, <1>25, <1>26, <1>27, <1>28, <1>29, <1>30
  DEF Next, Step, PhaseStep, LoadStep, CaseStep

\* The setup and the statement of a mutating case take effect as counted.
LEMMA AppliedStep ==
  TypeOK /\ WorkInv /\ RestoringInv /\ AppliedInv /\ [Next]_vars => AppliedInv'
<1> SUFFICES ASSUME TypeOK /\ WorkInv /\ RestoringInv /\ AppliedInv,
             [Next]_vars
    PROVE  AppliedInv'
  OBVIOUS
<1> USE DEF AppliedInv, FirstApplication, SetupInPlace, holding, memory, graph,
            engine
<1>1. CASE Cancel
  BY <1>1 DEF Cancel
<1>2. CASE MeasureEmpty
  BY <1>2, ReadingFields, ExecutorAssumption DEF MeasureEmpty, Begin, Enter
<1>3. CASE MeasureRoundTrip
  BY <1>3, ReadingFields DEF MeasureRoundTrip, Begin
<1>4. CASE RunCase
  BY <1>4, WorkFields DEF RunCase, Begin
<1>5. CASE EndCases
  BY <1>5 DEF EndCases, Enter
<1>6. CASE Walk
  BY <1>6, WalkedFields DEF Walk, Begin
<1>7. CASE EndWalk
  BY <1>7 DEF EndWalk, Enter
<1>8. CASE Observe
  BY <1>8, ReadingFields, ExecutorAssumption DEF Observe, Begin
<1>9. CASE Close
  BY <1>9 DEF Close, Enter
<1>10. CASE GetSession
  <2>1. tries > 0 => cur.fixture # NoFixture
    BY <1>10 DEF GetSession, RestoringInv, Preparing, Restorable
  <2>2. pc' \in {"start", "ask", "probe", "plan", "load", "explain"}
    BY <1>10, <2>1 DEF GetSession, GiveUp, Ready, Goto, Enter
  <2> QED BY <2>2
<1>11. CASE EnsureLoaded
  <2>1. tries > 0 => ~UpToDate
    BY <1>11 DEF EnsureLoaded, UpToDate, RestoringInv
  <2>2. pc' \in {"start", "ask", "probe", "plan", "explain", "reopen", "floor",
       "ingest"}
    BY <1>11, <2>1 DEF EnsureLoaded, GiveUp, Ready, Goto, Enter, ToIngest
  <2> QED BY <2>2
<1>12. CASE Reopen
  BY <1>12 DEF Reopen, GiveUp, Goto, Enter, ToIngest
<1>13. CASE MeasureFloor
  BY <1>13 DEF MeasureFloor, Goto
<1>14. CASE Refresh
  BY <1>14 DEF Refresh, GiveUp, Goto, Enter
<1>15. CASE Ingest
  BY <1>15 DEF Ingest, Replaced, Ready, Resume, GiveUp, Goto, Enter
<1>16. CASE MakePlan
  <2>1. pc' \in {"setup", "finish"} /\ UNCHANGED <<cur, applied, prepared>>
    BY <1>16 DEF MakePlan
  <2>2. applied = 0 /\ prepared = 0
    BY <1>16 DEF MakePlan, RestoringInv, Midway, TypeOK, EngineTyped
  <2> QED BY <2>1, <2>2
<1>17. CASE Setup
  <2>1. cur.setup => cur.mutating
    BY WorkFields DEF TypeOK, ControlTyped
  <2>2. /\ pc' \in {"warm", "exec", "cut", "closing", "finish"}
        /\ pc' = "warm" => tries = 0
        /\ UNCHANGED <<cur, tries, applied>>
    BY <1>17 DEF Setup, AfterSetup, Goto, TypeOK, ControlTyped
  <2>3. cur.mutating => applied = 0 /\ prepared = 0
    BY <1>17 DEF Setup
  <2>4. cur.setup /\ pc' # "finish" => prepared' = prepared + 1
    BY <1>17 DEF Setup, Goto
  <2> QED BY <2>1, <2>2, <2>3, <2>4
<1>18. CASE Warm
  <2>1. UNCHANGED <<cur, prepared>> /\ pc' \in {"warm", "exec"}
    BY <1>18 DEF Warm, Goto
  <2>2. cur.mutating => pc' = "exec" /\ applied' = 0
    <3>1. cur.mutating => ~(tries < WarmupsOf(cur)) /\ applied = 0
      BY <1>18, WarmupsBounded DEF Warm, TypeOK, ControlTyped
    <3> QED BY <1>18, <3>1 DEF Warm, Goto
  <2> QED BY <1>18, <2>1, <2>2 DEF Warm
<1>19. CASE Exec
  <2>1. pc' \in {"explain", "restore", "exec"} /\ UNCHANGED <<plan, cur,
       prepared>>
    BY <1>19 DEF Exec, Goto
  <2>2. pc' = "exec" => tries' > 0 /\ tries' # 0 /\ plan.timing # "restored"
    BY <1>19 DEF Exec, Goto, TypeOK, ControlTyped
  <2> QED BY <1>19, <2>1, <2>2 DEF Exec
<1>20. CASE Restore
  BY <1>20 DEF Restore, Goto
<1>21. CASE Explain
  BY <1>21 DEF Explain, Goto
<1>22. CASE CheckParses
  BY <1>22 DEF CheckParses, Goto
<1>23. CASE Cut
  BY <1>23 DEF Cut, Goto
<1>24. CASE Closing
  BY <1>24 DEF Closing, Goto
<1>25. CASE Finish
  BY <1>25 DEF Finish, Goto
<1>26. CASE Ask
  BY <1>26 DEF Ask, Goto, Enter
<1>27. CASE Reduce
  BY <1>27 DEF Reduce, Tried, Goto
<1>28. CASE SyntaxError
  BY <1>28 DEF SyntaxError, Tried, Goto
<1>29. CASE Probe
  BY <1>29 DEF Probe, Goto
<1>30. CASE UNCHANGED vars
  BY <1>30 DEF vars, control
<1> QED
  BY <1>1, <1>2, <1>3, <1>4, <1>5, <1>6, <1>7, <1>8, <1>9, <1>10, <1>11, <1>12,
     <1>13, <1>14, <1>15, <1>16, <1>17, <1>18, <1>19, <1>20, <1>21, <1>22,
     <1>23, <1>24, <1>25, <1>26, <1>27, <1>28, <1>29, <1>30
  DEF Next, Step, PhaseStep, LoadStep, CaseStep

-----------------------------------------------------------------------------
\* The executor starts with no session, nothing loaded and nothing in hand.
LEMMA InitInv == Init => IInv
<1> SUFFICES ASSUME Init PROVE IInv
  OBVIOUS
<1>1. TypeOK
  BY ReadingFields DEF Init, TypeOK, ControlTyped, HoldingTyped, MemoryTyped,
     EngineTyped, Phases, Steps, Timings, Nil
<1>2. HandleInv /\ WorkInv /\ SettledInv /\ StoreInv
  BY DEF Init, HandleInv, WorkInv, SettledInv, StoreInv, Nil, Bound, Midway,
     Loading, Settled
<1>3. LoadedInv /\ UnresetInv
  BY DEF Init, LoadedInv, UnresetInv, Nil
<1>4. FailedInv
  BY DEF Init, FailedInv
<1>5. RestoringInv /\ AppliedInv
  BY DEF Init, RestoringInv, AppliedInv, FirstApplication, SetupInPlace,
     Preparing, Loading, Midway
<1> QED BY <1>1, <1>2, <1>3, <1>4, <1>5 DEF IInv

\* Every step keeps every part, each from the parts its lemma names.
LEMMA NextInv == IInv /\ [Next]_vars => IInv'
BY TypeStep, HandleStep, WorkStep, LoadedStep, UnresetStep, SettledStep,
   FailedStep, StoreStep, RestoringStep, AppliedStep DEF IInv

\* The invariant the executor's trust in loaded and dirty rests on.
THEOREM Invariance == Spec => []IInv
BY InitInv, NextInv, PTL DEF Spec

\* The parts of the invariant that are properties on their own.
LEMMA InvGives ==
  IInv => /\ TypeOK /\ FixtureIsolation /\ FirstApplication /\ SetupInPlace
          /\ HandleIsLive /\ NoLeakedSession /\ RefusedFixtureNotUsed
          /\ FloorNotUnderIngest
<1> SUFFICES ASSUME IInv
             PROVE  /\ FixtureIsolation /\ HandleIsLive /\ NoLeakedSession
                    /\ RefusedFixtureNotUsed /\ FloorNotUnderIngest
  BY DEF IInv, AppliedInv
<1>1. ASSUME Executing, cur.fixture # NoFixture
      PROVE  base = cur.fixture /\ ~residue /\ cur.fixture \notin failedLoads
  <2>1. loaded = cur.fixture /\ ~dirty
    BY <1>1 DEF IInv, SettledInv, Settled, Executing
  <2>2. phase # "walk"
    BY <1>1 DEF IInv, WorkInv, Executing
  <2> QED BY <1>1, <2>1, <2>2 DEF IInv, LoadedInv, Clean, FailedInv
<1>2. FixtureIsolation /\ RefusedFixtureNotUsed
  BY <1>1 DEF FixtureIsolation, RefusedFixtureNotUsed
<1>3. HandleIsLive
  BY DEF IInv, HandleInv, HandleIsLive, Calling, Executing, Bound
<1>4. NoLeakedSession
  BY DEF IInv, HandleInv, NoLeakedSession
<1>5. FloorNotUnderIngest
  BY DEF IInv, StoreInv, FloorNotUnderIngest
<1> QED BY <1>2, <1>3, <1>4, <1>5

\* The Go fields and the engine keep to their values.
THEOREM TypeCorrect == Spec => []TypeOK
BY Invariance, InvGives, PTL

\* A case that names a fixture is put to that fixture, loaded completely and
\* with no earlier case's writes in it, whatever kind of engine it is.
THEOREM Isolation == Spec => []FixtureIsolation
BY Invariance, InvGives, PTL

\* A first or restored execution of a mutating case is its first application.
THEOREM FirstOnly == Spec => []FirstApplication
BY Invariance, InvGives, PTL

\* The setup is in the graph exactly once when the statement is executed.
THEOREM SetupOnce == Spec => []SetupInPlace
BY Invariance, InvGives, PTL

\* Every call goes to the session that is open.
THEOREM LiveHandle == Spec => []HandleIsLive
BY Invariance, InvGives, PTL

\* At most one session is open, the one the executor holds.
THEOREM OneSession == Spec => []NoLeakedSession
BY Invariance, InvGives, PTL

\* A fixture that failed to load is not executed against.
THEOREM RefusedForGood == Spec => []RefusedFixtureNotUsed
BY Invariance, InvGives, PTL

\* The shape a floor was measured with is gone before the fixture is loaded.
THEOREM FloorGone == Spec => []FloorNotUnderIngest
BY Invariance, InvGives, PTL

-----------------------------------------------------------------------------
(***************************************************************************)
(* A killed session                                                        *)
(***************************************************************************)

\* The executor holds a session whose engine a fatal failure has killed.
KilledHeld == sess # Nil /\ health = "killed"

\* The step is one untimed execution: of a case, or of the round trip.
Warming ==
  \/ pc = "warm" /\ tries < WarmupsOf(cur)
  \/ pc = "ask" /\ tries < CfgWarmups

\* Whatever the executor hears outside a warmup, it discards what was killed.
LEMMA KilledStep == [Next]_vars /\ KilledHeld' => KilledHeld \/ Warming
<1>0. SUFFICES ASSUME [Next]_vars, KilledHeld', ~KilledHeld PROVE Warming
  OBVIOUS
<1> USE DEF KilledHeld, Nil, holding, engine
<1>1. CASE Cancel
  BY <1>0, <1>1 DEF Cancel, engine, holding
<1>2. CASE MeasureEmpty
  BY <1>0, <1>2 DEF MeasureEmpty
<1>3. CASE MeasureRoundTrip
  BY <1>0, <1>3 DEF MeasureRoundTrip
<1>4. CASE RunCase
  BY <1>0, <1>4 DEF RunCase
<1>5. CASE EndCases
  BY <1>0, <1>5 DEF EndCases
<1>6. CASE Walk
  BY <1>0, <1>6 DEF Walk
<1>7. CASE EndWalk
  BY <1>0, <1>7 DEF EndWalk
<1>8. CASE Observe
  BY <1>0, <1>8 DEF Observe
<1>9. CASE Close
  BY <1>0, <1>9 DEF Close
<1>10. CASE GetSession
  BY <1>0, <1>10 DEF GetSession, Session, NoSession, Open
<1>11. CASE EnsureLoaded
  BY <1>0, <1>11 DEF EnsureLoaded, Discard
<1>12. CASE Reopen
  BY <1>0, <1>12 DEF Reopen, Session, NoSession, Open
<1>13. CASE MeasureFloor
  BY <1>0, <1>13 DEF MeasureFloor, DropShape, Discard
<1>14. CASE Refresh
  BY <1>0, <1>14 DEF Refresh, Session, NoSession, Open
<1>15. CASE Ingest
  BY <1>0, <1>15 DEF Ingest, Discard
<1>16. CASE MakePlan
  BY <1>0, <1>16 DEF MakePlan
<1>17. CASE Setup
  BY <1>0, <1>17 DEF Setup, DiscardIf, Discard, Heard, Fatal
<1>18. CASE Warm
  BY <1>0, <1>18 DEF Warm, Warming
<1>19. CASE Exec
  BY <1>0, <1>19 DEF Exec, DiscardIf, Discard, Heard, Fatal
<1>20. CASE Restore
  BY <1>0, <1>20 DEF Restore
<1>21. CASE Explain
  BY <1>0, <1>21 DEF Explain, DiscardIf, Discard, Heard, Fatal
<1>22. CASE CheckParses
  BY <1>0, <1>22 DEF CheckParses, DiscardIf, Discard, Heard, Fatal
<1>23. CASE Cut
  BY <1>0, <1>23 DEF Cut, Discard
<1>24. CASE Closing
  BY <1>0, <1>24 DEF Closing, Discard
<1>25. CASE Finish
  BY <1>0, <1>25 DEF Finish
<1>26. CASE Ask
  BY <1>0, <1>26 DEF Ask, DiscardIf, Discard, Heard, Fatal, Warming
<1>27. CASE Reduce
  BY <1>0, <1>27 DEF Reduce, Session, NoSession, Open
<1>28. CASE SyntaxError
  BY <1>0, <1>28 DEF SyntaxError, DiscardIf, Discard, Heard, Fatal
<1>29. CASE Probe
  BY <1>0, <1>29 DEF Probe, DiscardIf, Discard, Heard, Fatal
<1>30. CASE UNCHANGED vars
  BY <1>0, <1>30 DEF vars
<1> QED
  BY <1>0, <1>1, <1>2, <1>3, <1>4, <1>5, <1>6, <1>7, <1>8, <1>9, <1>10, <1>11, <1>12,
     <1>13, <1>14, <1>15, <1>16, <1>17, <1>18, <1>19, <1>20, <1>21, <1>22,
     <1>23, <1>24, <1>25, <1>26, <1>27, <1>28, <1>29, <1>30
  DEF Next, Step, PhaseStep, LoadStep, CaseStep

\* For any number of warmups, a session that a fatal failure killed is held
\* only if a warmup heard of it: every other call discards it.
THEOREM OnlyWarmupsKeepKilled == Spec => [][KilledHeld' => KilledHeld \/ Warming]_vars
BY KilledStep, PTL DEF Spec

\* In a run without warmups no killed session is held at all, so none is when
\* the next piece of work starts.
THEOREM Rebuilt ==
  ASSUME CfgWarmups = 0
  PROVE  Spec => []RebuiltAfterFatal
<1> DEFINE Inv == TypeOK /\ ~KilledHeld
<1>1. Init /\ TypeOK => Inv
  BY DEF Init, KilledHeld
<1>2. ASSUME TypeOK PROVE ~Warming
  <2>1. tries \in Nat /\ cur \in Work
    BY <1>2 DEF TypeOK, ControlTyped
  <2>2. WarmupsOf(cur) \in {0, CfgWarmups}
    BY DEF WarmupsOf
  <2> QED BY <2>1, <2>2, CfgWarmups = 0 DEF Warming
<1>3. TypeOK /\ TypeOK' /\ Inv /\ [Next]_vars => Inv'
  BY <1>2, KilledStep
<1>4. Inv => RebuiltAfterFatal
  BY DEF RebuiltAfterFatal, KilledHeld
<1> QED BY <1>1, <1>3, <1>4, TypeCorrect, PTL DEF Spec

-----------------------------------------------------------------------------
(***************************************************************************)
(* The executor implements PristineGraph: the property ImplementsPristine  *)
(* of Executor, proved for every value of the constants.                   *)
(***************************************************************************)

\* The calls that come after the first one of an execution.
Under == {"warm", "exec", "cut", "closing"}

\* Only an execution that is under way already goes on to them.
LEMMA GoingOn ==
  [Next]_vars /\ pc' \in Under => pc \in {"setup"} \cup Under /\ cur' = cur
<1> SUFFICES ASSUME [Next]_vars, pc' \in Under
             PROVE  pc \in {"setup"} \cup Under /\ cur' = cur
  OBVIOUS
<1> USE DEF Under
<1>1. CASE Cancel
  BY <1>1 DEF Cancel
<1>2. CASE MeasureEmpty
  BY <1>2 DEF MeasureEmpty, Begin, Enter
<1>3. CASE MeasureRoundTrip
  BY <1>3 DEF MeasureRoundTrip, Begin
<1>4. CASE RunCase
  BY <1>4 DEF RunCase, Begin
<1>5. CASE EndCases
  BY <1>5 DEF EndCases, Enter
<1>6. CASE Walk
  BY <1>6 DEF Walk, Begin
<1>7. CASE EndWalk
  BY <1>7 DEF EndWalk, Enter
<1>8. CASE Observe
  BY <1>8 DEF Observe, Begin
<1>9. CASE Close
  BY <1>9 DEF Close, Enter
<1>10. CASE GetSession
  BY <1>10 DEF GetSession, GiveUp, Ready, Resume, Goto, Enter
<1>11. CASE EnsureLoaded
  BY <1>11 DEF EnsureLoaded, Ready, GiveUp, Goto, Enter, ToIngest, Resume
<1>12. CASE Reopen
  BY <1>12 DEF Reopen, GiveUp, Goto, Enter, ToIngest
<1>13. CASE MeasureFloor
  BY <1>13 DEF MeasureFloor, Goto
<1>14. CASE Refresh
  BY <1>14 DEF Refresh, GiveUp, Goto, Enter
<1>15. CASE Ingest
  BY <1>15 DEF Ingest, Ready, Resume, GiveUp, Goto, Enter
<1>16. CASE MakePlan
  BY <1>16 DEF MakePlan
<1>17. CASE Setup
  BY <1>17 DEF Setup, AfterSetup, Goto
<1>18. CASE Warm
  BY <1>18 DEF Warm, Goto
<1>19. CASE Exec
  BY <1>19 DEF Exec, Goto
<1>20. CASE Restore
  BY <1>20 DEF Restore, Goto
<1>21. CASE Explain
  BY <1>21 DEF Explain, Goto
<1>22. CASE CheckParses
  BY <1>22 DEF CheckParses, Goto
<1>23. CASE Cut
  BY <1>23 DEF Cut, Goto
<1>24. CASE Closing
  BY <1>24 DEF Closing, Goto
<1>25. CASE Finish
  BY <1>25 DEF Finish, Goto
<1>26. CASE Ask
  BY <1>26 DEF Ask, Goto, Enter
<1>27. CASE Reduce
  BY <1>27 DEF Reduce, Tried, Goto
<1>28. CASE SyntaxError
  BY <1>28 DEF SyntaxError, Tried, Goto
<1>29. CASE Probe
  BY <1>29 DEF Probe, Goto
<1>30. CASE UNCHANGED vars
  BY <1>30 DEF vars, control
<1> QED
  BY <1>1, <1>2, <1>3, <1>4, <1>5, <1>6, <1>7, <1>8, <1>9, <1>10, <1>11, <1>12,
     <1>13, <1>14, <1>15, <1>16, <1>17, <1>18, <1>19, <1>20, <1>21, <1>22, <1>23,
     <1>24, <1>25, <1>26, <1>27, <1>28, <1>29, <1>30
  DEF Next, Step, PhaseStep, LoadStep, CaseStep

\* From one call of an execution to another there are three steps.
LEMMA WithinExecution ==
  [Next]_vars /\ Executing /\ Executing' =>
    Setup \/ Warm \/ Exec \/ UNCHANGED <<pc, cur, plan, graph>>
<1> SUFFICES ASSUME [Next]_vars, Executing, Executing'
             PROVE  Setup \/ Warm \/ Exec \/ UNCHANGED <<pc, cur, plan, graph>>
  OBVIOUS
<1> USE DEF Executing
<1>1. CASE Cancel
  BY <1>1 DEF Cancel, engine
<1>2. CASE UNCHANGED vars
  BY <1>2 DEF vars, control, engine
<1>3. CASE Cut \/ Closing \/ Probe
  BY <1>3 DEF Cut, Closing, Probe, Goto
<1>4. CASE PhaseStep
  BY <1>4 DEF PhaseStep, MeasureEmpty, MeasureRoundTrip, RunCase, EndCases, Walk,
              EndWalk, Observe, Close
<1>5. CASE LoadStep
  BY <1>5 DEF LoadStep, GetSession, EnsureLoaded, Reopen, MeasureFloor, Refresh,
              Ingest
<1>6. CASE MakePlan \/ Restore \/ Explain \/ CheckParses \/ Finish
  BY <1>6 DEF MakePlan, Restore, Explain, CheckParses, Finish
<1>7. CASE Ask \/ Reduce \/ SyntaxError
  BY <1>7 DEF Ask, Reduce, SyntaxError
<1> QED
  BY <1>1, <1>2, <1>3, <1>4, <1>5, <1>6, <1>7 DEF Next, Step, CaseStep

\* With no case in hand the view is that of an idle graph.
LEMMA Idle ==
  ASSUME ~Holding
  PROVE  Pristine!Unheld
BY DEF Pristine!Unheld, IfHolding

\* The same of the next state.
LEMMA IdleNext ==
  ASSUME ~Holding'
  PROVE  Pristine!Unheld'
BY DEF Pristine!Unheld, IfHolding

\* The held graph is the fixture of the work in hand.
LEMMA Held ==
  ASSUME IInv, Holding
  PROVE  /\ ~residue /\ base = cur.fixture /\ cur.fixture \in Fixtures
         /\ cur.setup \in BOOLEAN
BY InvGives, WorkFields
   DEF IInv, TypeOK, ControlTyped, Holding, FixtureIsolation

\* The held graph of the next state.
LEMMA HeldNext ==
  ASSUME IInv', Holding'
  PROVE  /\ ~residue' /\ base' = cur'.fixture /\ cur'.fixture \in Fixtures
         /\ cur'.setup \in BOOLEAN
<1>1. FixtureIsolation'
  BY InvGives, PTL
<1> QED
  BY <1>1, WorkFields DEF IInv, TypeOK, ControlTyped, Holding, FixtureIsolation

\* What taking a graph finds: nothing of this piece of work is in it yet.
LEMMA Taken ==
  ASSUME IInv, IInv', [Next]_vars, ~Holding, Holding'
  PROVE  prepared' = 0 /\ applied' = 0
<1>1. pc' \in {"setup", "probe"} \cup Under
  BY DEF Holding, Executing, Under
<1>2. pc' \notin Under
  BY GoingOn DEF Holding, Executing, Under
<1>3. CASE pc' = "setup"
  BY <1>3 DEF IInv, AppliedInv
<1>4. CASE pc' = "probe"
  BY <1>4 DEF IInv, RestoringInv, Midway, Preparing, Loading, TypeOK, EngineTyped
<1> QED BY <1>1, <1>2, <1>3, <1>4

\* One step of an execution is one step of the promise or none.
LEMMA HeldStep ==
  ASSUME IInv, IInv', [Next]_vars, Holding, Holding'
  PROVE  Pristine!Prepare \/ Pristine!Apply \/ UNCHANGED Pristine!view
<1>1. /\ ~residue /\ base = cur.fixture /\ cur.fixture \in Fixtures
      /\ cur.setup \in BOOLEAN
  BY Held
<1>2. cur.fixture # NoFixture
  BY DEF Holding
<1>3. CASE UNCHANGED <<pc, cur, plan, graph>>
  BY <1>3 DEF Pristine!view, IfHolding, graph
<1>4. CASE Setup
  <2>1. UNCHANGED <<cur, plan, base, residue, applied>> /\ pc = "setup"
    BY <1>4 DEF Setup, Goto
  <2>2. pc' # "probe" /\ pc' # "finish"
    BY <1>4 DEF Setup, Goto, AfterSetup, Holding, Executing
  <2>3. prepared = 0 /\ applied = 0
    BY <2>1 DEF IInv, AppliedInv
  <2>4. CASE ~cur.setup
    BY <1>4, <2>1, <2>2, <2>4 DEF Setup, Pristine!view, IfHolding
  <2>5. CASE cur.setup
    <3>1. prepared' = 1
      BY <1>4, <2>2, <2>3, <2>5 DEF Setup, Goto
    <3> QED
      BY <1>1, <1>2, <2>1, <2>2, <2>3, <2>5, <3>1 DEF Pristine!Prepare, IfHolding
  <2> QED BY <2>4, <2>5
<1>5. CASE Warm \/ Exec
  <2>1. UNCHANGED <<cur, plan, base, residue, prepared>> /\ pc \in {"warm", "exec"}
    BY <1>5 DEF Warm, Exec, Goto, graph
  <2>2. pc' \in {"warm", "exec"}
    BY <1>5 DEF Warm, Exec, Goto, Holding, Executing
  <2>3. applied' = applied \/ applied' = applied + 1
    BY <1>5 DEF Warm, Exec, graph
  <2>4. CASE applied' = applied
    BY <2>1, <2>2, <2>4 DEF Pristine!view, IfHolding
  <2>5. CASE applied' = applied + 1
    <3>1. cur.setup => prepared = 1
      BY <2>1 DEF IInv, AppliedInv, SetupInPlace
    <3>2. plan.timing = "restored" => cur.mutating
      BY <2>1 DEF IInv, RestoringInv, Restorable, Midway
    <3>3. plan.timing = "restored" => applied = 0
      BY <2>1, <3>2 DEF IInv, AppliedInv, FirstApplication
    <3> QED
      BY <1>1, <1>2, <2>1, <2>2, <2>5, <3>1, <3>3
      DEF Pristine!Apply, IfHolding
  <2> QED BY <2>3, <2>4, <2>5
<1> QED
  BY <1>3, <1>4, <1>5, WithinExecution DEF Holding

\* A step takes a graph, prepares it, applies to it, releases it or is unseen.
LEMMA RefinementStep ==
  IInv /\ IInv' /\ [Next]_vars => [Pristine!Next]_(Pristine!view)
<1> SUFFICES ASSUME IInv, IInv', [Next]_vars
             PROVE  Pristine!Next \/ UNCHANGED Pristine!view
  BY DEF Pristine!view
<1>1. CASE ~Holding /\ ~Holding'
  BY <1>1 DEF Pristine!view, IfHolding
<1>2. CASE ~Holding /\ Holding'
  <2>1. prepared' = 0 /\ applied' = 0
    BY <1>2, Taken
  <2>2. /\ ~residue' /\ base' = cur'.fixture /\ cur'.fixture \in Fixtures
        /\ cur'.setup \in BOOLEAN
    BY <1>2, HeldNext
  <2>3. Pristine!Take
    BY <1>2, <2>1, <2>2 DEF Pristine!Take, IfHolding
  <2> QED BY <2>3 DEF Pristine!Next
<1>3. CASE Holding /\ ~Holding'
  <2>1. Pristine!Unheld'
    BY <1>3, IdleNext
  <2>2. ~residue /\ base # NoFixture
    BY <1>3, Held, PlanAssumption
  <2>3. Pristine!Release
    BY <1>3, <2>1, <2>2 DEF Pristine!Release, IfHolding
  <2> QED BY <2>3 DEF Pristine!Next
<1>4. CASE Holding /\ Holding'
  BY <1>4, HeldStep DEF Pristine!Next
<1> QED BY <1>1, <1>2, <1>3, <1>4

\* Sharing an ingest between cases, reopening, restoring and giving up are
\* invisible to a case: the executor keeps the promise of PristineGraph.
THEOREM Refinement == Spec => ImplementsPristine
<1>1. Init => Pristine!Init
  BY Idle DEF Init, Pristine!Init, Holding, Executing
<1>2. IInv /\ IInv' /\ [Next]_vars => [Pristine!Next]_(Pristine!view)
  BY RefinementStep
<1> QED
  BY <1>1, <1>2, Invariance, PTL DEF Spec, ImplementsPristine, Pristine!Spec
=============================================================================
