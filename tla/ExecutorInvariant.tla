-------------------------- MODULE ExecutorInvariant --------------------------
(***************************************************************************)
(* The inductive invariant behind the safety properties of Executor.  The  *)
(* executor trusts two fields, loaded and dirty; the invariant says when   *)
(* that trust is deserved, and the properties follow from it.              *)
(***************************************************************************)
EXTENDS Executor

\* The local session variable has been taken from the executor and every call
\* since then has left the session standing.
Bound == {"load", "floor", "ingest", "plan", "setup", "warm", "exec", "restore",
          "cut", "closing", "ask", "probe", "try"}

\* The fixture of the work in hand has been found or put in the session.
Settled == {"plan", "setup", "warm", "exec", "restore", "cut", "closing", "probe"}

\* A case is being executed, so its own writes may be in the graph.
Midway == {"setup", "warm", "exec", "restore", "explain", "parses", "finish",
           "cut", "closing"}

\* ensureLoaded has found that the fixture must be ingested.
Loading == {"reopen", "floor", "refresh", "ingest"}

HandleInv ==
  /\ open = IF sess = Nil THEN {} ELSE {sess}
  /\ pc \in Bound => handle = sess /\ sess # Nil
  /\ pc \in {"explain", "parses"} => sess \in {Nil, handle}
  /\ pc \in {"reopen", "refresh"} => sess = Nil

\* Where the control is tells which work is in hand.
WorkInv ==
  /\ phase = "empty" /\ pc # "start" => cur = Reading(Blank)
  /\ phase = "roundtrip" => pc \in {"start", "session", "ask"}
  /\ phase = "done" => pc = "start"
  /\ phase \in {"roundtrip", "walk"} /\ pc # "start" => cur.fixture = NoFixture
  /\ phase = "probes" => ~cur.mutating \/ pc = "start"
  /\ pc \in Midway \cup {"plan"} => phase \in {"cases", "walk"}
  /\ pc \in Loading \cup {"load"} => cur.fixture # NoFixture
  /\ pc = "ask" => phase = "roundtrip"
  /\ pc = "probe" => phase = "probes"
  /\ pc \in {"reduce", "try"} => phase = "walk"

\* A graph that has been written to by the case being executed, or not at all.
Clean ==
  /\ ~residue
  /\ applied > 0 \/ prepared > 0 => pc \in Midway /\ cur.mutating

\* What loaded and dirty mean: the graph is the loaded fixture, and the only
\* writes in it are those of the mutating case being executed.  The walk is
\* the exception, and marks the graph when it ends.
LoadedInv ==
  loaded # NoFixture /\ ~dirty /\ phase # "walk" => base = loaded /\ Clean

\* An engine without a reset is never loaded into again once it was written
\* to, so a session of its own that is not dirty is clean, loaded or not.
UnresetInv ==
  ~Isolated =>
    /\ sess # Nil /\ ~dirty /\ phase # "walk" => Clean
    /\ pc \in {"floor", "ingest"} => ~dirty

SettledInv ==
  pc \in Settled /\ cur.fixture # NoFixture => loaded = cur.fixture /\ ~dirty

FailedInv ==
  /\ loaded \notin failedLoads
  /\ pc \in Loading => cur.fixture \notin failedLoads

StoreInv ==
  /\ pc = "ingest" => store # "shape"
  /\ sess # Nil => store # "shape"

\* Between taking the session and having the fixture in it.
Preparing == {"session", "load"} \cup Loading

Restorable == phase = "cases" /\ cur.mutating /\ cur.fixture # NoFixture

\* A case comes back there only to have its fixture restored, and only then
\* does it carry its own writes with it.
RestoringInv ==
  /\ plan.timing = "restored" /\ pc \in Midway => Restorable
  /\ pc \in Preparing /\ tries > 0 => Restorable /\ plan.timing = "restored"
  /\ pc \in {"session", "load"} /\ tries > 0 => dirty /\ sess # Nil
  /\ applied > 0 \/ prepared > 0 =>
       pc \in Midway \/ (pc \in Preparing /\ tries > 0)
  /\ pc = "restore" => tries > 0 /\ plan.timing = "restored"
  /\ pc = "plan" => tries = 0

\* How often the setup and the statement of a case have taken effect
\* at each point of its execution.
AppliedInv ==
  /\ pc = "setup" => applied = 0 /\ prepared = 0
  /\ cur.mutating /\ pc = "warm" => applied = 0 /\ tries = 0
  /\ FirstApplication
  /\ SetupInPlace

IInv ==
  /\ TypeOK /\ HandleInv /\ WorkInv /\ LoadedInv /\ UnresetInv /\ SettledInv
  /\ FailedInv /\ StoreInv /\ RestoringInv /\ AppliedInv
=============================================================================
