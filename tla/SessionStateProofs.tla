------------------------- MODULE SessionStateProofs -------------------------
(***************************************************************************)
(* What a session remembers, for every number of sessions, calls and       *)
(* workers: the engine guard of a process, the working set in Redis, and   *)
(* the chain of snapshots that carries the state from turn to turn.        *)
(***************************************************************************)
EXTENDS CoordinatorProofs

----------------------------------------------------------------------------
(* The engine guard, under every fault *)

\* A step in which q neither enters nor leaves the graph
Outside(q) ==
  /\ pc'[q] = "graph" <=> pc[q] = "graph"
  /\ pc[q] = "graph" => call'[q] = call[q]

LEMMA FlightKept ==
  ASSUME TypeOK, SingleFlight, UNCHANGED busy, \A q \in Request : Outside(q)
  PROVE  SingleFlight'
<1>1. \A q \in Request : pc[q] = "graph" => call'[q].worker = call[q].worker
  BY DEF Outside
<1>2. \A q \in Request : pc'[q] = "graph" <=> pc[q] = "graph"
  BY DEF Outside
<1>3. "graph" \in Live
  BY DEF Live, PC
<1>4. ASSUME NEW w \in Worker
      PROVE  busy'[w] <=> \E q \in Running(w)' : pc'[q] = "graph"
  <2>1. (\E q \in Running(w)' : pc'[q] = "graph")
          <=> \E q \in Request : pc'[q] = "graph" /\ call'[q].worker = w
    BY <1>3 DEF Running
  <2>2. (\E q \in Running(w) : pc[q] = "graph")
          <=> \E q \in Request : pc[q] = "graph" /\ call[q].worker = w
    BY <1>3 DEF Running
  <2>3. (\E q \in Request : pc'[q] = "graph" /\ call'[q].worker = w)
          <=> \E q \in Request : pc[q] = "graph" /\ call[q].worker = w
    BY <1>1, <1>2
  <2>4. busy[w] <=> \E q \in Running(w) : pc[q] = "graph"
    BY DEF SingleFlight
  <2>5. QED
    BY <2>1, <2>2, <2>3, <2>4
<1>5. QED
  BY <1>1, <1>2, <1>4 DEF SingleFlight

\* r enters the graph, with the guard down and put up.
LEMMA FlightStarts ==
  ASSUME TypeOK, SingleFlight, NEW r \in Request, EngineStart(r)
  PROVE  SingleFlight'
<1> USE DEF store, locals
<1>1. CASE UNCHANGED busy
  <2>1. \A q \in Request : Outside(q)
    BY <1>1 DEF EngineStart, Outside, Proceed, Fail, Leave, Goto, TypeOK, Call
  <2>2. QED
    BY <1>1, <2>1, FlightKept
<1>2. CASE ~ UNCHANGED busy
  <2>1. PICK v \in Worker : v = call[r].worker
    BY DEF TypeOK, Call, EngineStart
  <2>2. /\ busy[v] = FALSE /\ busy' = [busy EXCEPT ![v] = TRUE]
        /\ pc' = [pc EXCEPT ![r] = "graph"] /\ call' = call /\ pc[r] = "engine"
    BY <1>2, <2>1 DEF EngineStart, Proceed, Goto, TypeOK
  <2>3. \A q \in Request : pc'[q] = "graph" <=> q = r \/ pc[q] = "graph"
    BY <2>2 DEF TypeOK
  <2>4. \A q \in Request : pc[q] = "graph" => call[q].worker # v
    BY <2>2 DEF SingleFlight, Running, Live, PC
  <2>5. "graph" \in Live
    BY DEF Live, PC
  <2>6. ASSUME NEW w \in Worker
        PROVE  busy'[w] <=> \E q \in Running(w)' : pc'[q] = "graph"
    <3>1. CASE w = v
      BY <2>1, <2>2, <2>3, <2>5, <3>1 DEF Running, TypeOK
    <3>2. CASE w # v
      <4>1. busy'[w] = busy[w]
        BY <2>2, <3>2 DEF TypeOK
      <4>2. (\E q \in Running(w)' : pc'[q] = "graph") <=> \E q \in Running(w) : pc[q] = "graph"
        BY <2>1, <2>2, <2>3, <2>5, <3>2 DEF Running
      <4>3. busy[w] <=> \E q \in Running(w) : pc[q] = "graph"
        BY DEF SingleFlight
      <4>4. QED
        BY <4>1, <4>2, <4>3
    <3>3. QED
      BY <3>1, <3>2
  <2>7. QED
    BY <2>1, <2>2, <2>3, <2>4, <2>6 DEF SingleFlight
<1>3. QED
  BY <1>1, <1>2

\* All calls of a process leave the graph, and its guard goes down.
LEMMA FlightEnds ==
  ASSUME TypeOK, SingleFlight, NEW v \in Worker, busy' = [busy EXCEPT ![v] = FALSE],
         \A q \in Request : (pc'[q] = "graph" <=> pc[q] = "graph" /\ call[q].worker # v),
         UNCHANGED call
  PROVE  SingleFlight'
<1>1. "graph" \in Live
  BY DEF Live, PC
<1>2. ASSUME NEW w \in Worker
      PROVE  busy'[w] <=> \E q \in Running(w)' : pc'[q] = "graph"
  <2>1. CASE w = v
    BY <1>1, <2>1 DEF Running, TypeOK
  <2>2. CASE w # v
    <3>1. busy'[w] = busy[w]
      BY <2>2 DEF TypeOK
    <3>2. (\E q \in Running(w)' : pc'[q] = "graph") <=> \E q \in Running(w) : pc[q] = "graph"
      BY <1>1, <2>2 DEF Running
    <3>3. busy[w] <=> \E q \in Running(w) : pc[q] = "graph"
      BY DEF SingleFlight
    <3>4. QED
      BY <3>1, <3>2, <3>3
  <2>3. QED
    BY <2>1, <2>2
<1>3. QED
  BY <1>2 DEF SingleFlight

LEMMA FlightStep ==
  ASSUME TypeOK, SingleFlight, [Next]_vars
  PROVE  SingleFlight'
<1> USE DEF store, locals
<1>1. CASE \/ UNCHANGED vars
           \/ \E s \in Session, p \in Principal : CreateSession(s, p)
           \/ \E s \in Session : ExpireLock(s) \/ EvictDoc(s)
  <2>1. UNCHANGED <<busy, pc, call>>
    BY <1>1 DEF vars, CreateSession, ExpireLock, EvictDoc
  <2>2. QED
    BY <2>1, FlightKept DEF Outside
<1>2. ASSUME NEW r \in Request, Submit(r)
      PROVE  SingleFlight'
  <2>1. /\ pc[r] = "idle" /\ pc'[r] = "ping" /\ UNCHANGED busy
        /\ \A q \in Request \ {r} : pc'[q] = pc[q] /\ call'[q] = call[q]
    BY <1>2 DEF Submit, Goto, TypeOK
  <2>2. \A q \in Request : Outside(q)
    BY <2>1 DEF Outside
  <2>3. QED
    BY <2>1, <2>2, FlightKept
<1>3. ASSUME NEW w \in Worker, Crash(w)
      PROVE  SingleFlight'
  <2>1. \A q \in Request : pc'[q] = "graph" <=> pc[q] = "graph" /\ call[q].worker # w
    BY <1>3 DEF Crash, Running, Live, PC, TypeOK
  <2>2. QED
    BY <1>3, <2>1, FlightEnds DEF Crash
<1>4. ASSUME NEW r \in Request, EngineEnd(r)
      PROVE  SingleFlight'
  <2>1. PICK v \in Worker : v = call[r].worker
    BY <1>4 DEF TypeOK, Call, EngineEnd
  <2>2. /\ pc[r] = "graph" /\ pc'[r] # "graph" /\ \A q \in Request \ {r} : pc'[q] = pc[q]
        /\ busy' = [busy EXCEPT ![v] = FALSE] /\ UNCHANGED call
    BY <1>4, <2>1 DEF EngineEnd, Proceed, Fail, Leave, Goto, TypeOK
  <2>3. \A q \in Request : pc[q] = "graph" /\ call[q].worker = v => q = r
    BY <2>1, <2>2 DEF SingleFlight
  <2>4. \A q \in Request : pc'[q] = "graph" <=> pc[q] = "graph" /\ call[q].worker # v
    BY <2>1, <2>2, <2>3
  <2>5. QED
    BY <2>2, <2>4, FlightEnds
<1>5. ASSUME NEW r \in Request,
             \/ Ping(r) \/ CheckOwner(r) \/ Acquire(r) \/ LockTimeout(r) \/ FindPrior(r)
             \/ GetReplay(r) \/ ReadSnapshot(r) \/ ReadDoc(r) \/ ReloadDoc(r) \/ ReadIndex(r)
             \/ AppendUser(r) \/ ClassifyTurn(r) \/ AppendAssistant(r) \/ SaveSnapshot(r)
             \/ SetDoc(r) \/ ReleaseGet(r) \/ ReleaseDelete(r) \/ Raise(r) \/ ReleaseRaises(r)
      PROVE  SingleFlight'
  <2>1. UNCHANGED <<busy, call>>
    BY <1>5 DEF Ping, CheckOwner, Acquire, LockTimeout, FindPrior, GetReplay, ReadSnapshot,
                ReadDoc, ReloadDoc, ReadIndex, AppendUser, ClassifyTurn, AppendAssistant,
                SaveSnapshot, SetDoc, ReleaseGet, ReleaseDelete, Raise, ReleaseRaises
  <2>2. pc[r] # "graph"
    BY <1>5 DEF Ping, CheckOwner, Acquire, LockTimeout, FindPrior, GetReplay, ReadSnapshot,
                ReadDoc, ReloadDoc, ReadIndex, AppendUser, ClassifyTurn, AppendAssistant,
                SaveSnapshot, SetDoc, ReleaseGet, ReleaseDelete, Raise, ReleaseRaises,
                MysqlStep, RedisStep
  <2>3. (\E step \in PC \ {"graph"} : Goto(r, step))
    BY <1>5 DEF Ping, CheckOwner, Acquire, LockTimeout, FindPrior, GetReplay, ReadSnapshot,
                ReadDoc, ReloadDoc, ReadIndex, AppendUser, ClassifyTurn, AppendAssistant,
                SaveSnapshot, SetDoc, ReleaseGet, ReleaseDelete, Raise, ReleaseRaises,
                AppendTurn, Proceed, Fail, Leave, PC, MysqlStep, RedisStep
  <2>4. \A q \in Request : Outside(q)
    BY <2>1, <2>2, <2>3 DEF Outside, Goto, TypeOK
  <2>5. QED
    BY <2>1, <2>4, FlightKept
<1>6. QED
  BY <1>1, <1>2, <1>3, <1>4, <1>5, FlightStarts DEF Next, Step

\* The engine guard is up exactly while a call of its process is in the graph,
\* after failures, timeouts and restarts too, and one call at most is.
THEOREM SingleFlightAlways == Spec => []SingleFlight
<1>1. Init => SingleFlight
  BY DEF Init, SingleFlight, Running, Live
<1>2. TypeOK /\ SingleFlight /\ [Next]_vars => SingleFlight'
  BY FlightStep
<1>3. QED
  BY <1>1, <1>2, TypeCorrect, PTL DEF Spec

----------------------------------------------------------------------------
(* Where the state of a call comes from and goes to, under every fault *)

IsBase(r, w) == w.at = base[r].at /\ w.blob = base[r].blob

IdleBase == \A r \in Request : pc[r] = "idle" => base[r] = NoBase

BaseFromSnaps ==
  \A r \in Request : base[r] = NoBase \/ \E w \in SnapsOf(SessionOf(r)) : IsBase(r, w)

SaveHasPlan == \A r \in Request : pc[r] = "save" => Plan(r) # "clarify_only"

SavedBeforeDoc ==
  \A r \in Request : pc[r] = "set_doc" /\ Plan(r) # "clarify_only" =>
    \E w \in SnapsOf(SessionOf(r)) : w.by = r /\ w.blob = NewBlob(r)

AnsweredSaved ==
  \A r \in Request :
    /\ reply[r].status = "ok" /\ reply[r].by = r /\ reply[r].intent # "needs_clarification"
    => \E w \in SnapsOf(SessionOf(r)) : w.by = r

StateInv == IdleBase /\ BaseFromSnaps /\ SaveHasPlan /\ SavedBeforeDoc /\ AnsweredSaved

\* A step that brings q no new obligation
SteadyState(q) ==
  /\ call'[q] = call[q] \/ pc[q] = "idle"
  /\ pc[q] # "idle" => pc'[q] # "idle"
  /\ base'[q] = base[q]
  /\ reply'[q] = reply[q] \/ reply'[q].status # "ok" \/ reply'[q].by # q
  /\ pc'[q] \notin {"save", "set_doc"} \/ (pc'[q] = pc[q] /\ verdict'[q] = verdict[q])

LEMMA StateSteady ==
  ASSUME TypeOK, EvidenceInv, StateInv, snaps \subseteq snaps',
         NEW q \in Request, SteadyState(q)
  PROVE  /\ pc'[q] = "idle" => base'[q] = NoBase
         /\ base'[q] = NoBase \/ \E w \in SnapsOf(SessionOf(q))' : IsBase(q, w)'
         /\ pc'[q] = "save" => Plan(q)' # "clarify_only"
         /\ pc'[q] = "set_doc" /\ Plan(q)' # "clarify_only" =>
              \E w \in SnapsOf(SessionOf(q))' : w.by = q /\ w.blob = NewBlob(q)'
         /\ reply'[q].status = "ok" /\ reply'[q].by = q
              /\ reply'[q].intent # "needs_clarification" =>
              \E w \in SnapsOf(SessionOf(q))' : w.by = q
<1>1. call'[q] = call[q] => \A w \in SnapsOf(SessionOf(q)) : w \in SnapsOf(SessionOf(q))'
  BY DEF SnapsOf, SessionOf
<1>2. base'[q] = NoBase \/ \E w \in SnapsOf(SessionOf(q))' : IsBase(q, w)'
  <2>1. CASE pc[q] = "idle"
    BY <2>1 DEF SteadyState, StateInv, IdleBase
  <2>2. CASE pc[q] # "idle"
    <3>1. base[q] = NoBase \/ \E w \in SnapsOf(SessionOf(q)) : IsBase(q, w)
      BY DEF StateInv, BaseFromSnaps
    <3>2. QED
      BY <1>1, <2>2, <3>1 DEF SteadyState, IsBase
  <2>3. QED
    BY <2>1, <2>2
<1>3. pc'[q] \in {"save", "set_doc"} =>
        /\ pc[q] = pc'[q] /\ call'[q] = call[q]
        /\ Plan(q)' = Plan(q) /\ NewBlob(q)' = NewBlob(q)
  BY DEF SteadyState, Plan, NewBlob
<1>4. pc'[q] = "save" => Plan(q)' # "clarify_only"
  BY <1>3 DEF StateInv, SaveHasPlan
<1>5. pc'[q] = "set_doc" /\ Plan(q)' # "clarify_only" =>
        \E w \in SnapsOf(SessionOf(q))' : w.by = q /\ w.blob = NewBlob(q)'
  BY <1>1, <1>3 DEF StateInv, SavedBeforeDoc
<1>6. reply'[q].status = "ok" /\ reply'[q].by = q
        /\ reply'[q].intent # "needs_clarification" =>
        \E w \in SnapsOf(SessionOf(q))' : w.by = q
  <2> SUFFICES ASSUME reply'[q].status = "ok", reply'[q].by = q,
                      reply'[q].intent # "needs_clarification"
               PROVE  \E w \in SnapsOf(SessionOf(q))' : w.by = q
    OBVIOUS
  <2>1. reply'[q] = reply[q]
    BY DEF SteadyState
  <2>2. pc[q] # "idle"
    BY <2>1 DEF EvidenceInv, OkHasEvidence, Evidence
  <2>3. \E w \in SnapsOf(SessionOf(q)) : w.by = q
    BY <2>1 DEF StateInv, AnsweredSaved
  <2>4. QED
    BY <1>1, <2>2, <2>3 DEF SteadyState
<1>7. QED
  BY <1>2, <1>4, <1>5, <1>6 DEF SteadyState, StateInv, IdleBase

LEMMA StateKept ==
  ASSUME TypeOK, EvidenceInv, StateInv, UNCHANGED snaps,
         \A q \in Request : SteadyState(q)
  PROVE  StateInv'
BY StateSteady DEF StateInv, IdleBase, BaseFromSnaps, SaveHasPlan, SavedBeforeDoc, AnsweredSaved

\* Only r has a new obligation, and meets it.
LEMMA StateOf ==
  ASSUME TypeOK, EvidenceInv, StateInv, snaps \subseteq snaps',
         NEW r \in Request, \A q \in Request \ {r} : SteadyState(q), pc'[r] # "idle",
         base'[r] = NoBase \/ \E w \in SnapsOf(SessionOf(r))' : IsBase(r, w)',
         pc'[r] = "save" => Plan(r)' # "clarify_only",
         pc'[r] = "set_doc" /\ Plan(r)' # "clarify_only" =>
           \E w \in SnapsOf(SessionOf(r))' : w.by = r /\ w.blob = NewBlob(r)',
         reply'[r].status = "ok" /\ reply'[r].by = r
           /\ reply'[r].intent # "needs_clarification" =>
           \E w \in SnapsOf(SessionOf(r))' : w.by = r
  PROVE  StateInv'
BY StateSteady DEF StateInv, IdleBase, BaseFromSnaps, SaveHasPlan, SavedBeforeDoc, AnsweredSaved

\* How a step of r moves the others
LEMMA OthersSteady ==
  ASSUME TypeOK, NEW r \in Request,
         \A q \in Request \ {r} :
           /\ pc'[q] = pc[q] /\ reply'[q] = reply[q] /\ call'[q] = call[q]
           /\ base'[q] = base[q] /\ verdict'[q] = verdict[q]
  PROVE  \A q \in Request \ {r} : SteadyState(q)
BY DEF SteadyState

LEMMA ReadSnapshotState ==
  ASSUME TypeOK, EvidenceInv, StateInv, NEW r \in Request, ReadSnapshot(r)
  PROVE  StateInv'
<1> USE DEF store, locals
<1>1. /\ pc[r] = "snapshot" /\ pc'[r] = "doc" /\ reply' = reply /\ call' = call
      /\ snaps' = snaps /\ verdict' = verdict
      /\ \A q \in Request \ {r} : pc'[q] = pc[q] /\ base'[q] = base[q]
  BY DEF ReadSnapshot, Proceed, Goto, TypeOK
<1>2. \A q \in Request \ {r} : SteadyState(q)
  BY <1>1, OthersSteady
<1>3. base'[r] = NoBase \/ \E w \in SnapsOf(SessionOf(r))' : IsBase(r, w)'
  <2>1. CASE base' = [base EXCEPT ![r] = NoBase]
    BY <2>1 DEF TypeOK
  <2>2. CASE \E w \in LatestSnaps(SessionOf(r)) :
               base' = [base EXCEPT ![r] = [at |-> w.at, blob |-> w.blob]]
    <3>1. PICK w \in SnapsOf(SessionOf(r)) :
               base' = [base EXCEPT ![r] = [at |-> w.at, blob |-> w.blob]]
      BY <2>2 DEF LatestSnaps
    <3>2. base'[r].at = w.at /\ base'[r].blob = w.blob
      BY <3>1 DEF TypeOK
    <3>3. w \in SnapsOf(SessionOf(r))'
      BY <1>1 DEF SnapsOf, SessionOf
    <3>4. QED
      BY <3>2, <3>3 DEF IsBase
  <2>3. QED
    BY <2>1, <2>2 DEF ReadSnapshot
<1>4. reply'[r].status = "ok" /\ reply'[r].by = r
        /\ reply'[r].intent # "needs_clarification" =>
        \E w \in SnapsOf(SessionOf(r))' : w.by = r
  BY <1>1 DEF StateInv, AnsweredSaved, SnapsOf, SessionOf
<1>5. QED
  BY <1>1, <1>2, <1>3, <1>4, StateOf

LEMMA AppendAssistantState ==
  ASSUME TypeOK, EvidenceInv, StateInv, NEW r \in Request, AppendAssistant(r)
  PROVE  StateInv'
<1> USE DEF store, locals
<1>1. /\ pc'[r] \in {"save", "set_doc", "release"}
      /\ pc'[r] = "save" => Plan(r) # "clarify_only"
      /\ pc'[r] = "set_doc" => Plan(r) = "clarify_only"
      /\ reply'[r] = reply[r] \/ reply'[r].status # "ok"
      /\ UNCHANGED <<snaps, base, call, verdict>>
      /\ \A q \in Request \ {r} : pc'[q] = pc[q] /\ reply'[q] = reply[q]
  BY DEF AppendAssistant, AppendTurn, Proceed, Fail, Leave, Goto, TypeOK, Holding, PC, MysqlStep
<1>2. Plan(r)' = Plan(r)
  BY <1>1 DEF Plan
<1>3. \A q \in Request \ {r} : SteadyState(q)
  BY <1>1, OthersSteady
<1>4. base'[r] = NoBase \/ \E w \in SnapsOf(SessionOf(r))' : IsBase(r, w)'
  BY <1>1 DEF StateInv, BaseFromSnaps, IsBase, SnapsOf, SessionOf
<1>5. reply'[r].status = "ok" /\ reply'[r].by = r
        /\ reply'[r].intent # "needs_clarification" =>
        \E w \in SnapsOf(SessionOf(r))' : w.by = r
  BY <1>1 DEF StateInv, AnsweredSaved, SnapsOf, SessionOf
<1>6. QED
  BY <1>1, <1>2, <1>3, <1>4, <1>5, StateOf

\* What save_snapshot inserts
SavedRow(r) == [session |-> SessionOf(r), at |-> ti[r] + 1, by |-> r, blob |-> NewBlob(r)]

LEMMA SavedRowFields ==
  ASSUME NEW r \in Request
  PROVE  /\ SavedRow(r).session = SessionOf(r) /\ SavedRow(r).at = ti[r] + 1
         /\ SavedRow(r).by = r /\ SavedRow(r).blob = NewBlob(r)
BY DEF SavedRow

LEMMA SaveSnapshotMoves ==
  ASSUME TypeOK, NEW r \in Request, SaveSnapshot(r)
  PROVE  /\ pc[r] = "save" /\ pc'[r] \in {"set_doc", "release"}
         /\ reply'[r] = reply[r] \/ reply'[r].status # "ok"
         /\ UNCHANGED <<turns, base, call, verdict, ti, doc>>
         /\ snaps' = snaps \cup {SavedRow(r)}
         /\ \A q \in Request \ {r} : pc'[q] = pc[q] /\ reply'[q] = reply[q]
BY DEF SaveSnapshot, SavedRow, Proceed, Fail, Leave, Goto, TypeOK, Holding, PC, MysqlStep,
       locals

LEMMA SaveSnapshotState ==
  ASSUME TypeOK, EvidenceInv, StateInv, NEW r \in Request, SaveSnapshot(r)
  PROVE  StateInv'
<1>1. /\ pc'[r] \in {"set_doc", "release"}
      /\ reply'[r] = reply[r] \/ reply'[r].status # "ok"
      /\ UNCHANGED <<base, call, verdict>>
      /\ snaps' = snaps \cup {SavedRow(r)}
      /\ \A q \in Request \ {r} : pc'[q] = pc[q] /\ reply'[q] = reply[q]
  BY SaveSnapshotMoves
<1>2. NewBlob(r)' = NewBlob(r) /\ SessionOf(r)' = SessionOf(r)
  BY <1>1 DEF Plan, NewBlob, SessionOf
<1>3. \A q \in Request \ {r} : SteadyState(q)
  BY <1>1, OthersSteady
<1>4. \E w \in SnapsOf(SessionOf(r))' : w.by = r /\ w.blob = NewBlob(r)'
  BY <1>1, <1>2, SavedRowFields DEF SnapsOf
<1>5. base'[r] = NoBase \/ \E w \in SnapsOf(SessionOf(r))' : IsBase(r, w)'
  BY <1>1, <1>2 DEF StateInv, BaseFromSnaps, IsBase, SnapsOf
<1>6. QED
  BY <1>1, <1>3, <1>4, <1>5, StateOf

LEMMA SetDocState ==
  ASSUME TypeOK, EvidenceInv, StateInv, NEW r \in Request, SetDoc(r)
  PROVE  StateInv'
<1> USE DEF store, locals
<1>1. /\ pc[r] = "set_doc" /\ pc'[r] = "release"
      /\ UNCHANGED <<snaps, base, call, verdict>>
      /\ \A q \in Request \ {r} : pc'[q] = pc[q] /\ reply'[q] = reply[q]
      /\ \/ reply'[r].intent = AssistantRow(r).intent
         \/ reply'[r].status = "error"
  BY DEF SetDoc, Fail, Leave, Goto, TypeOK, Holding, PC, RedisStep
<1>2. AssistantRow(r).intent # "needs_clarification" => Plan(r) # "clarify_only"
  BY DEF AssistantRow
<1>3. \A q \in Request \ {r} : SteadyState(q)
  BY <1>1, OthersSteady
<1>4. base'[r] = NoBase \/ \E w \in SnapsOf(SessionOf(r))' : IsBase(r, w)'
  BY <1>1 DEF StateInv, BaseFromSnaps, IsBase, SnapsOf, SessionOf
<1>5. Plan(r) # "clarify_only" => \E w \in SnapsOf(SessionOf(r))' : w.by = r
  BY <1>1 DEF StateInv, SavedBeforeDoc, SnapsOf, SessionOf
<1>6. QED
  BY <1>1, <1>2, <1>3, <1>4, <1>5, StateOf

LEMMA GetReplayState ==
  ASSUME TypeOK, LogInv, EvidenceInv, StateInv, NEW r \in Request, GetReplay(r)
  PROVE  StateInv'
<1> USE DEF store, locals
<1>1. /\ pc[r] = "replay" /\ pc'[r] \in {"snapshot", "release"}
      /\ UNCHANGED <<snaps, base, call, verdict>>
      /\ \A q \in Request \ {r} : pc'[q] = pc[q] /\ reply'[q] = reply[q]
      /\ reply'[r] = reply[r] \/ \E t \in turns : reply'[r].by = t.by
  BY DEF GetReplay, Proceed, Leave, Goto, TypeOK, Holding, PC, MysqlStep
<1>2. \A t \in turns : t.by # r
  BY <1>1 DEF LogInv, RowOfPhase, BeforeAsk
<1>3. SteadyState(r)
  BY <1>1, <1>2 DEF SteadyState
<1>4. \A q \in Request \ {r} : SteadyState(q)
  BY <1>1, OthersSteady
<1>5. QED
  BY <1>1, <1>3, <1>4, StateKept

LEMMA StateOwnStep ==
  ASSUME TypeOK, LogInv, EvidenceInv, StateInv, NEW r \in Request,
         Step(r) \/ Raise(r) \/ ReleaseRaises(r)
  PROVE  StateInv'
<1> USE DEF store, locals
<1>1. CASE \/ Ping(r) \/ CheckOwner(r) \/ Acquire(r) \/ LockTimeout(r) \/ FindPrior(r)
           \/ ReadDoc(r) \/ ReloadDoc(r) \/ ReadIndex(r) \/ AppendUser(r)
           \/ EngineStart(r) \/ EngineEnd(r)
           \/ ReleaseGet(r) \/ ReleaseDelete(r) \/ Raise(r) \/ ReleaseRaises(r)
  <2>1. UNCHANGED <<snaps, base, call, verdict>>
    BY <1>1 DEF Ping, CheckOwner, Acquire, LockTimeout, FindPrior, ReadDoc, ReloadDoc,
                ReadIndex, AppendUser, EngineStart, EngineEnd, ReleaseGet, ReleaseDelete,
                Raise, ReleaseRaises
  <2>2. \E step \in PC \ {"idle", "save", "set_doc"} : Goto(r, step)
    BY <1>1 DEF Ping, CheckOwner, Acquire, LockTimeout, FindPrior, ReadDoc, ReloadDoc,
                ReadIndex, AppendUser, AppendTurn, EngineStart, EngineEnd, ReleaseGet,
                ReleaseDelete, Raise, ReleaseRaises, Proceed, Fail, Leave,
                PC, MysqlStep, RedisStep
  <2>3. /\ \A q \in Request \ {r} : reply'[q] = reply[q]
        /\ reply'[r] = reply[r] \/ reply'[r].status # "ok"
    BY <1>1 DEF Ping, CheckOwner, Acquire, LockTimeout, FindPrior, ReadDoc, ReloadDoc,
                ReadIndex, AppendUser, AppendTurn, EngineStart, EngineEnd, ReleaseGet,
                ReleaseDelete, Raise, ReleaseRaises, Proceed, Fail, Leave, TypeOK
  <2>4. /\ pc'[r] \notin {"idle", "save", "set_doc"}
        /\ \A q \in Request \ {r} : pc'[q] = pc[q]
    BY <2>2 DEF Goto, TypeOK
  <2>5. SteadyState(r)
    BY <2>1, <2>3, <2>4 DEF SteadyState
  <2>6. \A q \in Request \ {r} : SteadyState(q)
    BY <2>1, <2>3, <2>4, OthersSteady
  <2>7. QED
    BY <2>1, <2>5, <2>6, StateKept
<1>2. CASE ClassifyTurn(r)
  <2>1. /\ UNCHANGED <<snaps, base, call, reply>>
        /\ pc'[r] \in {"append_assistant", "engine"}
        /\ \A q \in Request \ {r} : pc'[q] = pc[q] /\ verdict'[q] = verdict[q]
    BY <1>2 DEF ClassifyTurn, Proceed, Goto, TypeOK
  <2>2. SteadyState(r)
    BY <2>1 DEF SteadyState
  <2>3. \A q \in Request \ {r} : SteadyState(q)
    BY <2>1, OthersSteady
  <2>4. QED
    BY <2>1, <2>2, <2>3, StateKept
<1>3. QED
  BY <1>1, <1>2, ReadSnapshotState, GetReplayState, AppendAssistantState, SaveSnapshotState,
     SetDocState DEF Step

LEMMA StateStep ==
  ASSUME TypeOK, LogInv, EvidenceInv, StateInv, [Next]_vars
  PROVE  StateInv'
<1> USE DEF store, locals
<1>1. CASE \/ UNCHANGED vars
           \/ \E s \in Session, p \in Principal : CreateSession(s, p)
           \/ \E s \in Session : ExpireLock(s) \/ EvictDoc(s)
  <2>1. UNCHANGED <<snaps, call, base, verdict, pc, reply>>
    BY <1>1 DEF vars, CreateSession, ExpireLock, EvictDoc
  <2>2. \A q \in Request : SteadyState(q)
    BY <2>1 DEF SteadyState
  <2>3. QED
    BY <2>1, <2>2, StateKept
<1>2. ASSUME NEW r \in Request, Submit(r)
      PROVE  StateInv'
  <2>1. /\ pc[r] = "idle" /\ pc'[r] = "ping" /\ UNCHANGED <<snaps, base, verdict, reply>>
        /\ \A q \in Request \ {r} : pc'[q] = pc[q] /\ call'[q] = call[q]
    BY <1>2 DEF Submit, Goto, TypeOK
  <2>2. \A q \in Request : SteadyState(q)
    BY <2>1 DEF SteadyState
  <2>3. QED
    BY <2>1, <2>2, StateKept
<1>3. ASSUME NEW w \in Worker, Crash(w)
      PROVE  StateInv'
  <2>1. /\ \A q \in Request : pc'[q] = pc[q] \/ (pc'[q] = "dead" /\ pc[q] # "idle")
        /\ UNCHANGED <<snaps, call, base, verdict, reply>>
    BY <1>3 DEF Crash, Running, Live, TypeOK
  <2>2. \A q \in Request : SteadyState(q)
    BY <2>1 DEF SteadyState
  <2>3. QED
    BY <2>1, <2>2, StateKept
<1>4. QED
  BY <1>1, <1>2, <1>3, StateOwnStep DEF Next

LEMMA StateInit == Init => StateInv
BY DEF Init, StateInv, IdleBase, BaseFromSnaps, SaveHasPlan, SavedBeforeDoc, AnsweredSaved

THEOREM StateInvariant == Spec => [](TypeOK /\ LogInv /\ EvidenceInv /\ StateInv)
<1>1. Init => StateInv
  BY StateInit
<1>2. TypeOK /\ LogInv /\ EvidenceInv /\ StateInv /\ [Next]_vars => StateInv'
  BY StateStep
<1>3. QED
  BY <1>1, <1>2, EvidenceInvariant, PTL DEF Spec

----------------------------------------------------------------------------
(* The working set in Redis, under every fault *)

\* A blob that MySQL has for s, or the empty one
Stored(s) == {<<>>} \cup {w.blob : w \in SnapsOf(s)}

LEMMA CacheKept ==
  ASSUME TypeOK, CacheBehindStore, snaps \subseteq snaps', NEW u \in Session, NEW b,
         doc' = [doc EXCEPT ![u] = b], b = NoDoc \/ b \in Stored(u)
  PROVE  CacheBehindStore'
<1>1. \A s : Stored(s) \subseteq Stored(s)'
  BY DEF Stored, SnapsOf
<1>2. ASSUME NEW s \in Session PROVE doc'[s] = NoDoc \/ doc'[s] \in Stored(s)
  BY DEF TypeOK, CacheBehindStore, Stored
<1>3. QED
  BY <1>1, <1>2 DEF CacheBehindStore, Stored

LEMMA CacheSame ==
  ASSUME CacheBehindStore, snaps \subseteq snaps', UNCHANGED doc
  PROVE  CacheBehindStore'
BY DEF CacheBehindStore, SnapsOf

LEMMA BaseStored ==
  ASSUME StateInv, NEW r \in Request
  PROVE  base[r].blob \in Stored(SessionOf(r))
BY DEF StateInv, BaseFromSnaps, NoBase, IsBase, Stored

LEMMA CacheStep ==
  ASSUME TypeOK, StateInv, CacheBehindStore, [Next]_vars
  PROVE  CacheBehindStore'
<1> USE DEF store, locals
<1>1. CASE UNCHANGED <<doc, snaps>>
  BY <1>1, CacheSame
<1>2. ASSUME NEW s \in Session, NEW p \in Principal, CreateSession(s, p)
      PROVE  CacheBehindStore'
  <2>1. PICK b : b = <<>>
    OBVIOUS
  <2>2. doc' = [doc EXCEPT ![s] = b] /\ snaps \subseteq snaps' /\ b \in Stored(s)
    BY <1>2, <2>1 DEF CreateSession, Stored
  <2>3. QED
    BY <2>2, CacheKept
<1>3. ASSUME NEW s \in Session, EvictDoc(s)
      PROVE  CacheBehindStore'
  BY <1>3, CacheKept DEF EvictDoc
<1>4. ASSUME NEW r \in Request, ReloadDoc(r)
      PROVE  CacheBehindStore'
  <2>1. SessionOf(r) \in Session
    BY <1>4 DEF ReloadDoc, TypeOK, SessionOf, Call
  <2>2. QED
    BY <1>4, <2>1, BaseStored, CacheKept DEF ReloadDoc
<1>5. ASSUME NEW r \in Request, SetDoc(r)
      PROVE  CacheBehindStore'
  <2>1. SessionOf(r) \in Session
    BY <1>5 DEF SetDoc, TypeOK, SessionOf, Call
  <2>2. NewBlob(r) \in Stored(SessionOf(r))
    <3>1. CASE Plan(r) = "clarify_only"
      BY <3>1, BaseStored DEF NewBlob
    <3>2. CASE Plan(r) # "clarify_only"
      BY <1>5, <3>2 DEF SetDoc, StateInv, SavedBeforeDoc, Stored
    <3>3. QED
      BY <3>1, <3>2
  <2>3. QED
    BY <1>5, <2>1, <2>2, CacheKept DEF SetDoc
<1>6. ASSUME NEW r \in Request, SaveSnapshot(r)
      PROVE  CacheBehindStore'
  BY <1>6, SaveSnapshotMoves, CacheSame
<1>7. ASSUME NEW r \in Request,
             \/ Submit(r)
             \/ Ping(r) \/ CheckOwner(r) \/ Acquire(r) \/ LockTimeout(r) \/ FindPrior(r)
             \/ GetReplay(r) \/ ReadSnapshot(r) \/ ReadDoc(r) \/ ReadIndex(r)
             \/ AppendUser(r) \/ ClassifyTurn(r) \/ EngineStart(r) \/ EngineEnd(r)
             \/ AppendAssistant(r) \/ ReleaseGet(r) \/ ReleaseDelete(r)
             \/ Raise(r) \/ ReleaseRaises(r)
      PROVE  UNCHANGED <<doc, snaps>>
  BY <1>7 DEF Submit, Ping, CheckOwner, Acquire, LockTimeout, FindPrior, GetReplay,
              ReadSnapshot, ReadDoc, ReadIndex, AppendUser, ClassifyTurn, EngineStart,
              EngineEnd, AppendAssistant, ReleaseGet, ReleaseDelete, Raise, ReleaseRaises
<1>8. ASSUME \/ UNCHANGED vars
             \/ \E s \in Session : ExpireLock(s)
             \/ \E w \in Worker : Crash(w)
      PROVE  UNCHANGED <<doc, snaps>>
  BY <1>8 DEF vars, ExpireLock, Crash
<1>9. QED
  BY <1>1, <1>2, <1>3, <1>4, <1>5, <1>6, <1>7, <1>8 DEF Next, Step

\* Whatever fails or is evicted, the working set holds a state that MySQL has,
\* or none.
THEOREM CacheBehindStoreAlways == Spec => []CacheBehindStore
<1>1. Init => CacheBehindStore
  BY DEF Init, CacheBehindStore
<1>2. TypeOK /\ StateInv /\ CacheBehindStore /\ [Next]_vars => CacheBehindStore'
  BY CacheStep
<1>3. QED
  BY <1>1, <1>2, StateInvariant, PTL DEF Spec

----------------------------------------------------------------------------
(* The chain of snapshots, while the turn lock outlives the turn *)

\* The steps at which a call carries the state it read
BaseStep == {"doc", "reload", "index", "append_user", "save"} \cup AskedStep
TurnStep == BaseStep \cup {"set_doc"}

Elements(b) == {b[i] : i \in 1 .. Len(b)}

\* The state a call works on is still the session's latest.
FreshBase ==
  \A r \in Request : pc[r] \in BaseStep =>
    \/ SnapsOf(SessionOf(r)) = {} /\ base[r] = NoBase
    \/ \E w \in LatestSnaps(SessionOf(r)) : IsBase(r, w)

\* No row of its session was written behind its own.
TopRow ==
  \A r \in Request : \A t \in turns : t.session = SessionOf(r) =>
    /\ pc[r] = "append_user" => t.index < ti[r]
    /\ pc[r] \in AskedStep => t.index <= ti[r]
    /\ pc[r] \in AnsweredStep => t.index <= ti[r] + 1

LatestExists == \A s \in Session : SnapsOf(s) # {} => LatestSnaps(s) # {}

Grown ==
  \A v, w \in snaps : v.session = w.session /\ v.at <= w.at => v.by \in Elements(w.blob)

TurnInv ==
  /\ FreshBase
  /\ TopRow
  /\ LatestExists
  /\ Grown
  /\ NoLostUpdate

LEMMA OneHolder ==
  ASSUME OwnLock, NEW r \in Request, NEW q \in Request, pc[r] \in TurnStep, pc[q] \in TurnStep,
         SessionOf(r) = SessionOf(q)
  PROVE  r = q
<1>1. TurnStep \subseteq Holding
  BY DEF TurnStep, BaseStep, AskedStep, Holding, PC, MysqlStep, RedisStep
<1>2. QED
  BY <1>1 DEF OwnLock

\* A step in which q keeps the state it works on
SteadyTurn(q) ==
  /\ pc'[q] \in BaseStep => pc[q] \in BaseStep /\ base'[q] = base[q] /\ call'[q] = call[q]
  /\ pc'[q] \in TurnStep => pc[q] \in TurnStep /\ call'[q] = call[q]
  /\ \/ pc'[q] \notin TurnStep
     \/ pc'[q] = pc[q] /\ ti'[q] = ti[q]
     \/ pc'[q] \in {"doc", "reload", "index"}
     \/ pc'[q] = "append_user" /\ ti'[q] = NextTurnIndex(SessionOf(q))
     \/ pc[q] \in AskedStep /\ pc'[q] \in AskedStep /\ ti'[q] = ti[q]

LEMMA BaseKept ==
  ASSUME TypeOK, FreshBase, UNCHANGED snaps, NEW q \in Request, pc'[q] \in BaseStep,
         pc[q] \in BaseStep, base'[q] = base[q], call'[q] = call[q]
  PROVE  \/ SnapsOf(SessionOf(q))' = {} /\ base'[q] = NoBase
         \/ \E w \in LatestSnaps(SessionOf(q))' : IsBase(q, w)'
<1>1. SnapsOf(SessionOf(q))' = SnapsOf(SessionOf(q))
  BY DEF SnapsOf, SessionOf
<1>2. LatestSnaps(SessionOf(q))' = LatestSnaps(SessionOf(q))
  BY <1>1 DEF LatestSnaps
<1>3. QED
  BY <1>1, <1>2 DEF FreshBase, IsBase

LEMMA SnapsSame ==
  ASSUME LatestExists, Grown, NoLostUpdate, UNCHANGED snaps
  PROVE  LatestExists' /\ Grown' /\ NoLostUpdate'
<1>1. \A s : SnapsOf(s)' = SnapsOf(s)
  BY DEF SnapsOf
<1>2. \A s : LatestSnaps(s)' = LatestSnaps(s)
  BY <1>1 DEF LatestSnaps
<1>3. QED
  BY <1>1, <1>2 DEF LatestExists, Grown, NoLostUpdate

LEMMA BelowNext ==
  ASSUME TypeOK, LogInv, NEW s \in Session, NEW t \in turns, t.session = s
  PROVE  t.index < NextTurnIndex(s)
<1>1. PICK n \in Nat : Indexes(s) = 0 .. n - 1
  BY DEF LogInv, Dense
<1>2. NextTurnIndex(s) = n
  BY <1>1, NextIndexOfDense
<1>3. t.index \in 0 .. n - 1
  BY <1>1 DEF Indexes
<1>4. QED
  BY <1>2, <1>3

LEMMA TopKept ==
  ASSUME TypeOK, LogInv, TopRow, UNCHANGED turns, NEW q \in Request, SteadyTurn(q),
         NEW t \in turns, t.session = SessionOf(q)'
  PROVE  /\ pc'[q] = "append_user" => t.index < ti'[q]
         /\ pc'[q] \in AskedStep => t.index <= ti'[q]
         /\ pc'[q] \in AnsweredStep => t.index <= ti'[q] + 1
<1> SUFFICES ASSUME pc'[q] \in TurnStep
             PROVE  /\ pc'[q] = "append_user" => t.index < ti'[q]
                    /\ pc'[q] \in AskedStep => t.index <= ti'[q]
                    /\ pc'[q] \in AnsweredStep => t.index <= ti'[q] + 1
  BY DEF TurnStep, BaseStep, AnsweredStep
<1>1. pc[q] \in TurnStep /\ SessionOf(q)' = SessionOf(q)
  BY DEF SteadyTurn, SessionOf
<1>2. SessionOf(q) \in Session
  BY <1>1 DEF TypeOK, SessionOf, Call, TurnStep, BaseStep, AskedStep
<1>3. t.index < NextTurnIndex(SessionOf(q))
  BY <1>1, <1>2, BelowNext
<1>4. /\ pc[q] = "append_user" => t.index < ti[q]
      /\ pc[q] \in AskedStep => t.index <= ti[q]
      /\ pc[q] \in AnsweredStep => t.index <= ti[q] + 1
  BY <1>1 DEF TopRow
<1>5. QED
  BY <1>3, <1>4 DEF SteadyTurn, AskedStep, AnsweredStep

LEMMA TurnKept ==
  ASSUME TypeOK, LogInv, TurnInv, UNCHANGED <<snaps, turns>>,
         \A q \in Request : SteadyTurn(q)
  PROVE  TurnInv'
<1>1. FreshBase'
  BY BaseKept DEF TurnInv, FreshBase, SteadyTurn
<1>2. TopRow'
  BY TopKept DEF TurnInv, TopRow
<1>3. QED
  BY <1>1, <1>2, SnapsSame DEF TurnInv

LEMMA ReadSnapshotTurn ==
  ASSUME TypeOK, LogInv, TurnInv, NEW r \in Request, ReadSnapshot(r)
  PROVE  TurnInv'
<1> USE DEF store, locals
<1>1. /\ pc'[r] = "doc" /\ UNCHANGED <<snaps, turns, call, ti>>
      /\ \A q \in Request \ {r} : pc'[q] = pc[q] /\ base'[q] = base[q]
  BY DEF ReadSnapshot, Proceed, Goto, TypeOK
<1>2. \A q \in Request \ {r} : SteadyTurn(q)
  BY <1>1 DEF SteadyTurn
<1>3. /\ SnapsOf(SessionOf(r))' = SnapsOf(SessionOf(r))
      /\ LatestSnaps(SessionOf(r))' = LatestSnaps(SessionOf(r))
  BY <1>1 DEF SnapsOf, LatestSnaps, SessionOf
<1>4. \/ SnapsOf(SessionOf(r))' = {} /\ base'[r] = NoBase
      \/ \E w \in LatestSnaps(SessionOf(r))' : IsBase(r, w)'
  <2>1. CASE SnapsOf(SessionOf(r)) = {} /\ base' = [base EXCEPT ![r] = NoBase]
    BY <1>3, <2>1 DEF TypeOK
  <2>2. CASE \E w \in LatestSnaps(SessionOf(r)) :
               base' = [base EXCEPT ![r] = [at |-> w.at, blob |-> w.blob]]
    <3>1. PICK w \in LatestSnaps(SessionOf(r)) :
               base' = [base EXCEPT ![r] = [at |-> w.at, blob |-> w.blob]]
      BY <2>2
    <3>2. base'[r].at = w.at /\ base'[r].blob = w.blob
      BY <3>1 DEF TypeOK
    <3>3. QED
      BY <1>3, <3>2 DEF IsBase
  <2>3. QED
    BY <2>1, <2>2 DEF ReadSnapshot
<1>5. \A q \in Request \ {r} : pc'[q] \in BaseStep =>
        \/ SnapsOf(SessionOf(q))' = {} /\ base'[q] = NoBase
        \/ \E w \in LatestSnaps(SessionOf(q))' : IsBase(q, w)'
  BY <1>1, <1>2, BaseKept DEF TurnInv, SteadyTurn
<1>6. FreshBase'
  BY <1>4, <1>5 DEF FreshBase
<1>7. TopRow'
  <2>1. pc'[r] # "append_user" /\ pc'[r] \notin AskedStep \cup AnsweredStep
    BY <1>1 DEF AskedStep, AnsweredStep
  <2>2. QED
    BY <1>1, <1>2, <2>1, TopKept DEF TurnInv, TopRow
<1>8. QED
  BY <1>1, <1>6, <1>7, SnapsSame DEF TurnInv

\* r appends a row; the rows of the other calls in a turn are in other sessions.
LEMMA AppendTurnInv ==
  ASSUME TypeOK, LogInv, OwnLock, TurnInv, NEW r \in Request, NEW row \in TurnRow,
         row.session = SessionOf(r), turns' = turns \cup {row},
         UNCHANGED <<snaps, base, call, ti>>,
         \A q \in Request \ {r} : pc'[q] = pc[q],
         \/ pc[r] = "append_user" /\ row.index = ti[r] /\ pc'[r] \in {"classify", "release"}
         \/ /\ pc[r] = "append_assistant" /\ row.index = ti[r] + 1
            /\ pc'[r] \in {"save", "set_doc", "release"}
  PROVE  TurnInv'
<1>1. \A q \in Request : pc'[q] \in BaseStep => pc[q] \in BaseStep
  BY DEF BaseStep, AskedStep
<1>2. FreshBase'
  BY <1>1, BaseKept DEF TurnInv, FreshBase
<1>3. TopRow'
  <2> SUFFICES ASSUME NEW q \in Request, NEW t \in turns', t.session = SessionOf(q)
               PROVE  /\ pc'[q] = "append_user" => t.index < ti[q]
                      /\ pc'[q] \in AskedStep => t.index <= ti[q]
                      /\ pc'[q] \in AnsweredStep => t.index <= ti[q] + 1
    BY DEF TopRow, SessionOf
  <2>0. ti[r] \in Nat /\ row.index \in Nat /\ \A u \in turns : u.index \in Nat
    BY DEF TypeOK, TurnRow
  <2>1. CASE q = r
    <3>1. t \in turns => /\ pc[r] = "append_user" => t.index < ti[r]
                         /\ pc[r] = "append_assistant" => t.index <= ti[r]
      BY <2>1 DEF TurnInv, TopRow, AskedStep
    <3>2. QED
      BY <2>0, <2>1, <3>1 DEF AskedStep, AnsweredStep
  <2>2. CASE q # r /\ pc[q] \in TurnStep
    <3>1. pc[r] \in TurnStep
      BY DEF TurnStep, BaseStep, AskedStep
    <3>2. t \in turns
      BY <2>2, <3>1, OneHolder
    <3>3. QED
      BY <2>2, <3>2 DEF TurnInv, TopRow
  <2>3. CASE q # r /\ pc[q] \notin TurnStep
    BY <2>3 DEF TurnStep, BaseStep, AnsweredStep
  <2>4. QED
    BY <2>1, <2>2, <2>3
<1>4. QED
  BY <1>2, <1>3, SnapsSame DEF TurnInv

----------------------------------------------------------------------------

LEMMA ElementsOfAppend ==
  ASSUME NEW b \in Seq(Request), NEW r \in Request
  PROVE  Elements(Append(b, r)) = Elements(b) \cup {r}
<1>1. Len(Append(b, r)) = Len(b) + 1 /\ Len(b) \in Nat
  OBVIOUS
<1>2. /\ \A i \in 1 .. Len(b) : Append(b, r)[i] = b[i]
      /\ Append(b, r)[Len(b) + 1] = r
  OBVIOUS
<1>3. 1 .. Len(b) + 1 = 1 .. Len(b) \cup {Len(b) + 1}
  BY <1>1
<1>4. QED
  BY <1>1, <1>2, <1>3 DEF Elements

\* The snapshot r saves is behind every other of its session.
LEMMA SavedIsLast ==
  ASSUME TypeOK, LogInv, EvidenceInv, TopRow, NEW r \in Request, pc[r] = "save",
         NEW w \in SnapsOf(SessionOf(r))
  PROVE  w.at < ti[r] + 1
<1>1. w \in snaps /\ w.session = SessionOf(r) /\ w.by # r
  BY DEF SnapsOf, EvidenceInv, SnapsOfPhase, LateStep, QuitStep
<1>2. PICK t \in turns : t.session = SessionOf(r) /\ t.index = w.at /\ t.by = w.by
  BY <1>1 DEF EvidenceInv, SnapsHaveAnswers, IsRow
<1>3. PICK u \in turns : u.session = SessionOf(r) /\ u.index = ti[r] + 1 /\ u.by = r
  BY DEF LogInv, OwnRows, AnsweredStep, IsRow
<1>4. t.index # u.index
  BY <1>1, <1>2, <1>3 DEF LogInv, UniqueIndex
<1>5. t.index <= ti[r] + 1
  BY <1>2 DEF TopRow, AnsweredStep
<1>6. t.index \in Nat /\ ti[r] \in Nat
  BY DEF TypeOK, TurnRow
<1>7. QED
  BY <1>2, <1>3, <1>4, <1>5, <1>6

LEMMA SavedIsLatest ==
  ASSUME TypeOK, LogInv, EvidenceInv, StateInv, TurnInv, NEW r \in Request, SaveSnapshot(r),
         NEW S, S = SessionOf(r), NEW x, x = SavedRow(r)
  PROVE  /\ x.session = S /\ x.at = ti[r] + 1 /\ x.by = r
         /\ x.blob = Append(base[r].blob, r)
         /\ \A w \in SnapsOf(S) : w.at < x.at
         /\ SnapsOf(S)' = SnapsOf(S) \cup {x} /\ LatestSnaps(S)' = {x}
         /\ \A s : s # S => SnapsOf(s)' = SnapsOf(s) /\ LatestSnaps(s)' = LatestSnaps(s)
<1>1. pc[r] = "save" /\ snaps' = snaps \cup {x} /\ UNCHANGED call
  BY SaveSnapshotMoves
<1>2. /\ x.session = S /\ x.at = ti[r] + 1 /\ x.by = r /\ x.blob = Append(base[r].blob, r)
  BY <1>1, SavedRowFields DEF NewBlob, StateInv, SaveHasPlan
<1>3. \A w \in SnapsOf(S) : w.at < x.at
  BY <1>1, <1>2, SavedIsLast DEF TurnInv
<1>4. /\ SnapsOf(S)' = SnapsOf(S) \cup {x}
      /\ \A s : s # S => SnapsOf(s)' = SnapsOf(s)
  BY <1>1, <1>2 DEF SnapsOf, SessionOf
<1>5. \A s : s # S => LatestSnaps(s)' = LatestSnaps(s)
  BY <1>4 DEF LatestSnaps
<1>6. x.at \in Nat /\ \A w \in SnapsOf(S) : w.at \in Nat
  BY <1>2 DEF TypeOK, SnapRow, SnapsOf
<1>7. LatestSnaps(S)' = {x}
  BY <1>3, <1>4, <1>6 DEF LatestSnaps
<1>8. QED
  BY <1>2, <1>3, <1>4, <1>5, <1>7

LEMMA SaveSnapshotTurn ==
  ASSUME TypeOK, LogInv, EvidenceInv, StateInv, OwnLock, TurnInv, NEW r \in Request,
         SaveSnapshot(r)
  PROVE  TurnInv'
<1> DEFINE x == SavedRow(r)
<1> PICK S : S = SessionOf(r)
  OBVIOUS
<1>1. /\ pc[r] = "save" /\ pc'[r] \in {"set_doc", "release"}
      /\ UNCHANGED <<turns, base, call, ti>>
      /\ snaps' = snaps \cup {x}
      /\ \A q \in Request \ {r} : pc'[q] = pc[q]
  BY SaveSnapshotMoves
<1>2. /\ x.session = S /\ x.at = ti[r] + 1 /\ x.by = r /\ x.blob = Append(base[r].blob, r)
  BY SavedIsLatest
<1>3. \A w \in SnapsOf(S) : w.at < x.at
  BY SavedIsLatest
<1>4. \A w \in snaps : w.at \in Nat
  BY DEF TypeOK, SnapRow
<1>5. x.at \in Nat /\ base[r].blob \in Seq(Request)
  BY <1>2 DEF TypeOK, Base, Blob
<1>6. /\ SnapsOf(S)' = SnapsOf(S) \cup {x}
      /\ \A s : s # S => SnapsOf(s)' = SnapsOf(s)
  BY SavedIsLatest
<1>7. \A s : s # S => LatestSnaps(s)' = LatestSnaps(s)
  BY SavedIsLatest
<1>8. LatestSnaps(S)' = {x}
  BY SavedIsLatest
<1> HIDE DEF x
<1>9. \/ SnapsOf(S) = {} /\ base[r] = NoBase
      \/ \E w \in LatestSnaps(S) : IsBase(r, w)
  BY <1>1 DEF TurnInv, FreshBase, BaseStep
<1>10. FreshBase'
  <2> SUFFICES ASSUME NEW q \in Request, pc'[q] \in BaseStep
               PROVE  \/ SnapsOf(SessionOf(q))' = {} /\ base'[q] = NoBase
                      \/ \E w \in LatestSnaps(SessionOf(q))' : IsBase(q, w)'
    BY DEF FreshBase
  <2>1. q # r
    BY <1>1 DEF BaseStep, AskedStep
  <2>2. pc[q] \in TurnStep /\ pc[q] \in BaseStep /\ pc[r] \in TurnStep
    BY <1>1, <2>1 DEF TurnStep, BaseStep
  <2>3. SessionOf(q) # S
    BY <2>1, <2>2, OneHolder
  <2>4. SessionOf(q)' = SessionOf(q)
    BY <1>1 DEF SessionOf
  <2>5. \/ SnapsOf(SessionOf(q)) = {} /\ base[q] = NoBase
        \/ \E w \in LatestSnaps(SessionOf(q)) : IsBase(q, w)
    BY <2>2 DEF TurnInv, FreshBase
  <2>6. /\ SnapsOf(SessionOf(q))' = SnapsOf(SessionOf(q))
        /\ LatestSnaps(SessionOf(q))' = LatestSnaps(SessionOf(q))
    BY <1>6, <1>7, <2>3, <2>4 DEF SnapsOf, LatestSnaps
  <2>7. QED
    BY <1>1, <2>5, <2>6 DEF IsBase
<1>11. TopRow'
  BY <1>1 DEF TurnInv, TopRow, SessionOf, AskedStep, AnsweredStep
<1>12. LatestExists'
  <2>1. ASSUME NEW s \in Session, SnapsOf(s)' # {} PROVE LatestSnaps(s)' # {}
    <3>1. CASE s = S
      BY <1>8, <3>1
    <3>2. CASE s # S
      BY <1>6, <1>7, <2>1, <3>2 DEF TurnInv, LatestExists
    <3>3. QED
      BY <3>1, <3>2
  <2>2. QED
    BY <2>1 DEF LatestExists
<1>13. Elements(x.blob) = Elements(base[r].blob) \cup {r}
  BY <1>2, <1>5, ElementsOfAppend
<1>14. ASSUME NEW v \in SnapsOf(S) PROVE v.by \in Elements(x.blob)
  <2>1. PICK l \in LatestSnaps(S) : IsBase(r, l)
    BY <1>9
  <2>2. l \in snaps /\ v \in snaps /\ v.session = l.session /\ v.at <= l.at
    BY <2>1 DEF LatestSnaps, SnapsOf
  <2>3. v.by \in Elements(l.blob)
    BY <2>2 DEF TurnInv, Grown
  <2>4. QED
    BY <1>13, <2>1, <2>3 DEF IsBase
<1>15. Grown'
  <2> SUFFICES ASSUME NEW v \in snaps', NEW w \in snaps', v.session = w.session, v.at <= w.at
               PROVE  v.by \in Elements(w.blob)
    BY DEF Grown
  <2>1. CASE v \in snaps /\ w \in snaps
    BY <2>1 DEF TurnInv, Grown
  <2>2. CASE v \in snaps /\ w = x
    BY <1>2, <1>14, <2>2 DEF SnapsOf
  <2>3. CASE v = x /\ w = x
    BY <1>2, <1>13, <2>3
  <2>4. CASE v = x /\ w \in snaps
    <3>1. w \in SnapsOf(S)
      BY <1>2, <2>4 DEF SnapsOf
    <3>2. QED
      BY <1>3, <1>4, <1>5, <2>4, <3>1
  <2>5. QED
    BY <1>1, <2>1, <2>2, <2>3, <2>4
<1>16. NoLostUpdate'
  <2> DEFINE Earlier(w) == {v \in SnapsOf(w.session) : v.at < w.at}
  <2>1. ASSUME NEW w \in snaps'
        PROVE  \/ Earlier(w)' = {} /\ w.blob = <<w.by>>
               \/ \E v \in Earlier(w)' :
                    /\ \A u \in Earlier(w)' : u.at <= v.at
                    /\ w.blob = Append(v.blob, w.by)
    <3>1. CASE w = x
      <4>1. {v \in SnapsOf(w.session)' : v.at < w.at} = SnapsOf(S)
        <5>1. SnapsOf(w.session)' = SnapsOf(S)'
          BY <1>1, <1>2, <3>1 DEF SnapsOf, SessionOf
        <5>2. QED
          BY <1>3, <1>5, <1>6, <3>1, <5>1
      <4>2. CASE SnapsOf(S) = {} /\ base[r] = NoBase
        <5>1. w.blob = Append(<<>>, r)
          BY <1>2, <3>1, <4>2 DEF NoBase
        <5>2. QED
          BY <1>2, <3>1, <4>1, <4>2, <5>1
      <4>3. CASE \E l \in LatestSnaps(S) : IsBase(r, l)
        <5>1. PICK l \in LatestSnaps(S) : IsBase(r, l)
          BY <4>3
        <5>2. l \in SnapsOf(S) /\ (\A u \in SnapsOf(S) : u.at <= l.at)
              /\ w.blob = Append(l.blob, w.by)
          BY <1>2, <3>1, <5>1 DEF LatestSnaps, IsBase
        <5>3. QED
          BY <4>1, <5>2
      <4>4. QED
        BY <1>9, <4>2, <4>3
    <3>2. CASE w \in snaps
      <4>1. {v \in SnapsOf(w.session)' : v.at < w.at} = Earlier(w)
        <5>1. SnapsOf(w.session)' = {v \in snaps' : v.session = w.session}
          BY DEF SnapsOf
        <5>2. w.session = S => w.at < x.at
          BY <1>3, <3>2 DEF SnapsOf
        <5>3. x.session = w.session => ~ (x.at < w.at)
          BY <1>2, <1>4, <1>5, <3>2, <5>2
        <5>4. QED
          BY <1>1, <5>1, <5>3 DEF SnapsOf
      <4>2. \/ Earlier(w) = {} /\ w.blob = <<w.by>>
            \/ \E v \in Earlier(w) :
                 /\ \A u \in Earlier(w) : u.at <= v.at
                 /\ w.blob = Append(v.blob, w.by)
        BY <3>2 DEF TurnInv, NoLostUpdate
      <4>3. QED
        BY <4>1, <4>2
    <3>3. QED
      BY <1>1, <3>1, <3>2
  <2>2. QED
    BY <2>1 DEF NoLostUpdate
<1>17. QED
  BY <1>10, <1>11, <1>12, <1>15, <1>16 DEF TurnInv

LEMMA AppendsTurn ==
  ASSUME TypeOK, LogInv, OwnLock, TurnInv, NEW r \in Request, AppendUser(r) \/ AppendAssistant(r)
  PROVE  TurnInv'
<1> USE DEF store, locals
<1>1. /\ pc[r] # "idle" /\ UNCHANGED <<snaps, base, call, ti>>
      /\ \A q \in Request \ {r} : pc'[q] = pc[q]
  BY DEF AppendUser, AppendAssistant, AppendTurn, Proceed, Fail, Leave, Goto, TypeOK
<1>2. CASE UNCHANGED turns /\ Fail(r, "integrity")
  <2>1. pc'[r] \notin TurnStep
    BY <1>2 DEF Fail, Leave, Goto, TypeOK, TurnStep, BaseStep, AskedStep
  <2>2. \A q \in Request : SteadyTurn(q)
    BY <1>1, <1>2, <2>1 DEF SteadyTurn, TurnStep
  <2>3. QED
    BY <1>1, <1>2, <2>2, TurnKept
<1>3. CASE AppendUser(r) /\ turns' = turns \cup {UserRow(r)}
  <2>1. pc[r] = "append_user" /\ pc'[r] \in {"classify", "release"}
    BY <1>3 DEF AppendUser, AppendTurn, Proceed, Fail, Leave, Goto, TypeOK, Holding, PC,
                MysqlStep
  <2>2. UserRow(r).session = SessionOf(r) /\ UserRow(r).index = ti[r]
    BY DEF UserRow
  <2>3. UserRow(r) \in TurnRow
    BY <1>1, RowTypes
  <2>4. QED
    BY <1>1, <1>3, <2>1, <2>2, <2>3, AppendTurnInv
<1>4. CASE AppendAssistant(r) /\ turns' = turns \cup {AssistantRow(r)}
  <2>1. pc[r] = "append_assistant" /\ pc'[r] \in {"save", "set_doc", "release"}
    BY <1>4 DEF AppendAssistant, AppendTurn, Proceed, Fail, Leave, Goto, TypeOK, Holding, PC,
                MysqlStep
  <2>2. AssistantRow(r).session = SessionOf(r) /\ AssistantRow(r).index = ti[r] + 1
    BY DEF AssistantRow
  <2>3. AssistantRow(r) \in TurnRow
    BY <1>1, RowTypes
  <2>4. QED
    BY <1>1, <1>4, <2>1, <2>2, <2>3, AppendTurnInv
<1>5. QED
  BY <1>2, <1>3, <1>4 DEF AppendUser, AppendAssistant, AppendTurn

LEMMA TurnInvOwnStep ==
  ASSUME TypeOK, LogInv, EvidenceInv, StateInv, OwnLock, TurnInv, NEW r \in Request,
         Step(r) \/ Raise(r) \/ ReleaseRaises(r)
  PROVE  TurnInv'
<1> USE DEF store, locals
<1>1. CASE \/ Ping(r) \/ CheckOwner(r) \/ Acquire(r) \/ LockTimeout(r) \/ FindPrior(r)
           \/ GetReplay(r) \/ SetDoc(r) \/ ReleaseGet(r) \/ ReleaseDelete(r)
           \/ Raise(r) \/ ReleaseRaises(r)
  <2>1. UNCHANGED <<snaps, turns, base, call, ti>>
    BY <1>1 DEF Ping, CheckOwner, Acquire, LockTimeout, FindPrior, GetReplay, SetDoc,
                ReleaseGet, ReleaseDelete, Raise, ReleaseRaises
  <2>2. \E step \in PC \ TurnStep : Goto(r, step)
    BY <1>1 DEF Ping, CheckOwner, Acquire, LockTimeout, FindPrior, GetReplay, SetDoc,
                ReleaseGet, ReleaseDelete, Raise, ReleaseRaises, Proceed, Fail, Leave,
                PC, MysqlStep, RedisStep, TurnStep, BaseStep, AskedStep
  <2>3. pc'[r] \notin TurnStep /\ \A q \in Request \ {r} : pc'[q] = pc[q]
    BY <2>2 DEF Goto, TypeOK
  <2>4. \A q \in Request : SteadyTurn(q)
    BY <2>1, <2>3 DEF SteadyTurn, TurnStep
  <2>5. QED
    BY <2>1, <2>4, TurnKept
<1>2. CASE ReadDoc(r) \/ ReloadDoc(r) \/ ReadIndex(r)
  <2>1. /\ UNCHANGED <<snaps, turns, base, call>> /\ pc[r] \in BaseStep
        /\ \A q \in Request \ {r} : pc'[q] = pc[q] /\ ti'[q] = ti[q]
    BY <1>2 DEF ReadDoc, ReloadDoc, ReadIndex, Proceed, Fail, Leave, Goto, TypeOK, BaseStep
  <2>2. \/ pc'[r] \in {"reload", "index", "release"}
        \/ pc'[r] = "append_user" /\ ti'[r] = NextTurnIndex(SessionOf(r))
    BY <1>2 DEF ReadDoc, ReloadDoc, ReadIndex, Proceed, Fail, Leave, Goto, TypeOK,
                Holding, PC, RedisStep
  <2>3. SteadyTurn(r)
    BY <2>1, <2>2 DEF SteadyTurn, TurnStep, BaseStep, AskedStep
  <2>4. \A q \in Request \ {r} : SteadyTurn(q)
    BY <2>1 DEF SteadyTurn
  <2>5. QED
    BY <2>1, <2>3, <2>4, TurnKept
<1>3. CASE ClassifyTurn(r) \/ EngineStart(r) \/ EngineEnd(r)
  <2>1. /\ UNCHANGED <<snaps, turns, base, call, ti>> /\ pc[r] \in AskedStep
        /\ \A q \in Request \ {r} : pc'[q] = pc[q]
        /\ pc'[r] \in AskedStep \cup {"release"}
    BY <1>3 DEF ClassifyTurn, EngineStart, EngineEnd, Proceed, Fail, Leave, Goto, TypeOK,
                AskedStep, Holding, PC
  <2>2. \A q \in Request : SteadyTurn(q)
    BY <2>1 DEF SteadyTurn, TurnStep, BaseStep, AskedStep
  <2>3. QED
    BY <2>1, <2>2, TurnKept
<1>4. QED
  BY <1>1, <1>2, <1>3, ReadSnapshotTurn, AppendsTurn, SaveSnapshotTurn DEF Step

LEMMA TurnInvStep ==
  ASSUME TypeOK, LogInv, EvidenceInv, StateInv, OwnLock, TurnInv, [Next]_vars
  PROVE  TurnInv'
<1> USE DEF store, locals
<1>1. CASE \/ UNCHANGED vars
           \/ \E s \in Session, p \in Principal : CreateSession(s, p)
           \/ \E s \in Session : ExpireLock(s) \/ EvictDoc(s)
  <2>1. UNCHANGED <<snaps, turns, call, base, ti, pc>>
    BY <1>1 DEF vars, CreateSession, ExpireLock, EvictDoc
  <2>2. \A q \in Request : SteadyTurn(q)
    BY <2>1 DEF SteadyTurn
  <2>3. QED
    BY <2>1, <2>2, TurnKept
<1>2. ASSUME NEW r \in Request, Submit(r)
      PROVE  TurnInv'
  <2>1. /\ pc'[r] = "ping" /\ UNCHANGED <<snaps, turns, base, ti>>
        /\ \A q \in Request \ {r} : pc'[q] = pc[q] /\ call'[q] = call[q]
    BY <1>2 DEF Submit, Goto, TypeOK
  <2>2. \A q \in Request : SteadyTurn(q)
    BY <2>1 DEF SteadyTurn, TurnStep, BaseStep, AskedStep
  <2>3. QED
    BY <2>1, <2>2, TurnKept
<1>3. ASSUME NEW w \in Worker, Crash(w)
      PROVE  TurnInv'
  <2>1. /\ \A q \in Request : pc'[q] = pc[q] \/ pc'[q] = "dead"
        /\ UNCHANGED <<snaps, turns, call, base, ti>>
    BY <1>3 DEF Crash, TypeOK
  <2>2. \A q \in Request : SteadyTurn(q)
    BY <2>1 DEF SteadyTurn, TurnStep, BaseStep, AskedStep
  <2>3. QED
    BY <2>1, <2>2, TurnKept
<1>4. QED
  BY <1>1, <1>2, <1>3, TurnInvOwnStep DEF Next

LEMMA TurnInit == Init => OwnLock /\ TurnInv
<1> SUFFICES ASSUME Init PROVE OwnLock /\ TurnInv
  OBVIOUS
<1>1. \A r \in Request : pc[r] = "idle"
  BY DEF Init
<1>2. OwnLock /\ FreshBase /\ TopRow
  BY <1>1 DEF OwnLock, Holding, FreshBase, TopRow, BaseStep, AskedStep, AnsweredStep
<1>3. LatestExists /\ Grown /\ NoLostUpdate
  BY DEF Init, LatestExists, Grown, NoLostUpdate, SnapsOf
<1>4. QED
  BY <1>2, <1>3 DEF TurnInv

THEOREM TurnInvariant ==
  ASSUME "slow_turn" \notin Faults
  PROVE  Spec => [](TypeOK /\ LogInv /\ EvidenceInv /\ StateInv /\ OwnLock /\ TurnInv)
<1>1. Init => OwnLock /\ TurnInv
  BY TurnInit
<1>2. TypeOK /\ OwnLock /\ [Next]_vars => OwnLock'
  BY OwnLockStep
<1>3. TypeOK /\ LogInv /\ EvidenceInv /\ StateInv /\ OwnLock /\ TurnInv /\ [Next]_vars
        => TurnInv'
  BY TurnInvStep
<1>4. QED
  BY <1>1, <1>2, <1>3, StateInvariant, PTL DEF Spec

\* With a TTL no turn outlives, every snapshot extends the one before it in its
\* session: no turn is computed from a state another turn has replaced.
THEOREM NoLostUpdateAlways ==
  ASSUME "slow_turn" \notin Faults
  PROVE  Spec => []NoLostUpdate
<1>1. TurnInv => NoLostUpdate
  BY DEF TurnInv
<1>2. QED
  BY <1>1, TurnInvariant, PTL

LEMMA OwnAnswerRemembered ==
  ASSUME TypeOK, EvidenceInv, StateInv, TurnInv, NEW r \in Request, reply[r].status = "ok",
         reply[r].by = r, reply[r].intent # "needs_clarification"
  PROVE  SessionOf(r) \in Session /\ Remembers(SessionOf(r), r)
<1>1. PICK w \in SnapsOf(SessionOf(r)) : w.by = r
  BY DEF StateInv, AnsweredSaved
<1>2. SessionOf(r) \in Session
  <2>1. pc[r] # "idle"
    BY DEF EvidenceInv, OkHasEvidence, Evidence
  <2>2. QED
    BY <2>1 DEF TypeOK, SessionOf, Call
<1>3. PICK l \in LatestSnaps(SessionOf(r)) : TRUE
  BY <1>1, <1>2 DEF TurnInv, LatestExists
<1>4. /\ l \in snaps /\ w \in snaps /\ w.at <= l.at
      /\ w.session = SessionOf(r) /\ l.session = SessionOf(r)
  BY <1>1, <1>3 DEF LatestSnaps, SnapsOf
<1>5. r \in Elements(l.blob)
  BY <1>1, <1>4 DEF TurnInv, Grown
<1>6. QED
  BY <1>2, <1>3, <1>5 DEF Remembers, Elements

LEMMA AnsweredIsRemembered ==
  ASSUME TypeOK, EvidenceInv, StateInv, TurnInv
  PROVE  AnswersRemembered
BY OwnAnswerRemembered DEF AnswersRemembered, Researched, Answered

\* With a TTL no turn outlives, a researched answer the caller has is part of
\* the state every later turn of its session starts from.
THEOREM AnswersRememberedAlways ==
  ASSUME "slow_turn" \notin Faults
  PROVE  Spec => []AnswersRemembered
<1>1. TypeOK /\ EvidenceInv /\ StateInv /\ TurnInv => AnswersRemembered
  BY AnsweredIsRemembered
<1>2. QED
  BY <1>1, TurnInvariant, PTL

----------------------------------------------------------------------------
(* Refusals by a unique index, while the turn lock outlives the turn *)

Ended == {"done", "dead"}

\* The steps between looking for the key and using it
KeyStep == {"snapshot", "doc", "reload", "index", "append_user"}

Spent(r, q) == q # r /\ SameCall(r, q) /\ HalfTurn(q)

\* A call that goes on with a key that is in the log has found a half turn.
Obliged(r) ==
  /\ reply[r].status = "integrity" => pc[r] # "idle" /\ \E q \in Request : Spent(r, q)
  /\ pc[r] \in KeyStep =>
       \A t \in turns : t.session = SessionOf(r) /\ t.key = call[r].key /\ t.key # NoKey =>
         Spent(r, t.by)

RefusalInv == \A r \in Request : Obliged(r)

\* What every step does
Onward ==
  /\ \A q \in Request : call'[q] = call[q] \/ pc[q] = "idle"
  /\ \A q \in Request : pc[q] # "idle" => pc'[q] # "idle"
  /\ \A q \in Request : pc[q] \in Ended => pc'[q] \in Ended
  /\ turns \subseteq turns'
  /\ \A t \in turns' : t \in turns \/ pc[t.by] \notin Ended

LEMMA OnwardOwnStep ==
  ASSUME TypeOK, NEW r \in Request, Step(r) \/ Raise(r) \/ ReleaseRaises(r)
  PROVE  Onward /\ \A q \in Request \ {r} : pc'[q] = pc[q] /\ reply'[q] = reply[q]
<1> USE DEF store, locals
<1>1. CASE \/ Ping(r) \/ CheckOwner(r) \/ Acquire(r) \/ LockTimeout(r) \/ FindPrior(r)
           \/ GetReplay(r) \/ ReadSnapshot(r) \/ ReadDoc(r) \/ ReloadDoc(r) \/ ReadIndex(r)
           \/ ClassifyTurn(r) \/ EngineStart(r) \/ EngineEnd(r) \/ SaveSnapshot(r)
           \/ SetDoc(r) \/ ReleaseGet(r) \/ ReleaseDelete(r) \/ Raise(r) \/ ReleaseRaises(r)
  <2>1. UNCHANGED <<turns, call>> /\ pc[r] \notin Ended \cup {"idle"}
    BY <1>1 DEF Ping, CheckOwner, Acquire, LockTimeout, FindPrior, GetReplay, ReadSnapshot,
                ReadDoc, ReloadDoc, ReadIndex, ClassifyTurn, EngineStart, EngineEnd,
                SaveSnapshot, SetDoc, ReleaseGet, ReleaseDelete, Raise, ReleaseRaises,
                MysqlStep, RedisStep, Ended
  <2>2. /\ \E step \in PC \ {"idle"} : Goto(r, step)
        /\ reply' = reply \/ \E a : reply' = [reply EXCEPT ![r] = a]
    BY <1>1 DEF Ping, CheckOwner, Acquire, LockTimeout, FindPrior, GetReplay, ReadSnapshot,
                ReadDoc, ReloadDoc, ReadIndex, ClassifyTurn, EngineStart, EngineEnd,
                SaveSnapshot, SetDoc, ReleaseGet, ReleaseDelete, Raise, ReleaseRaises,
                Proceed, Fail, Leave, PC, MysqlStep, RedisStep
  <2>3. pc'[r] # "idle" /\ \A q \in Request \ {r} : pc'[q] = pc[q] /\ reply'[q] = reply[q]
    BY <2>2 DEF Goto, TypeOK
  <2>4. QED
    BY <2>1, <2>3 DEF Onward
<1>2. CASE AppendUser(r) \/ AppendAssistant(r)
  <2>1. /\ pc[r] \in {"append_user", "append_assistant"} /\ UNCHANGED call
        /\ turns' = turns \/ turns' = turns \cup {UserRow(r)}
             \/ turns' = turns \cup {AssistantRow(r)}
    BY <1>2 DEF AppendUser, AppendAssistant, AppendTurn
  <2>2. /\ \E step \in PC \ {"idle"} : Goto(r, step)
        /\ reply' = reply \/ \E a : reply' = [reply EXCEPT ![r] = a]
    BY <1>2 DEF AppendUser, AppendAssistant, AppendTurn, Proceed, Fail, Leave, PC,
                MysqlStep, RedisStep
  <2>3. pc'[r] # "idle" /\ \A q \in Request \ {r} : pc'[q] = pc[q] /\ reply'[q] = reply[q]
    BY <2>2 DEF Goto, TypeOK
  <2>4. UserRow(r).by = r /\ AssistantRow(r).by = r
    BY DEF UserRow, AssistantRow
  <2>5. QED
    BY <2>1, <2>3, <2>4 DEF Onward, Ended
<1>3. QED
  BY <1>1, <1>2 DEF Step

\* A half turn stays one.
LEMMA SpentKept ==
  ASSUME TypeOK, LogInv, Onward, NEW r \in Request, NEW q \in Request, pc[r] # "idle",
         Spent(r, q)
  PROVE  Spent(r, q)'
<1>1. pc[q] # "idle" /\ pc[q] \in Ended
  BY DEF Spent, HalfTurn, Ended
<1>2. call'[r] = call[r] /\ call'[q] = call[q] /\ pc'[q] \in Ended
  BY <1>1 DEF Onward
<1>3. SameCall(r, q)'
  BY <1>2 DEF Spent, SameCall, SessionOf
<1>4. HalfTurn(q)'
  BY <1>1, <1>2 DEF Spent, HalfTurn, Onward, Ended
<1>5. QED
  BY <1>3, <1>4 DEF Spent

\* A step after which r owes nothing new
Calm(r) ==
  /\ pc'[r] \in KeyStep => /\ pc[r] \in KeyStep
                           /\ \A t \in turns' : t \in turns \/ t.session # SessionOf(r)
  /\ reply'[r].status = "integrity" => reply[r].status = "integrity"

LEMMA CalmStays ==
  ASSUME TypeOK, LogInv, RefusalInv, Onward, NEW r \in Request, Calm(r)
  PROVE  Obliged(r)'
<1>1. reply'[r].status = "integrity" => pc'[r] # "idle" /\ \E q \in Request : Spent(r, q)'
  BY SpentKept DEF Calm, RefusalInv, Obliged, Onward
<1>2. ASSUME pc'[r] \in KeyStep, NEW t \in turns', t.session = SessionOf(r)',
             t.key = call'[r].key, t.key # NoKey
      PROVE  Spent(r, t.by)'
  <2>1. pc[r] \in KeyStep /\ pc[r] # "idle" /\ call'[r] = call[r]
    BY <1>2 DEF Calm, KeyStep, Onward
  <2>2. t \in turns /\ t.session = SessionOf(r)
    BY <1>2, <2>1 DEF Calm, SessionOf
  <2>3. Spent(r, t.by) /\ t.by \in Request
    BY <1>2, <2>1, <2>2, RowsAreOfStartedCalls DEF RefusalInv, Obliged
  <2>4. QED
    BY <2>1, <2>3, SpentKept
<1>3. QED
  BY <1>1, <1>2 DEF Obliged

\* A key without an answer: the first attempt is over, because this call is in
\* the region that the lock protects, and its answer would be where it is looked for.
LEMMA GetReplaySpent ==
  ASSUME TypeOK, LogInv, EvidenceInv, OwnLock, RefusalInv, NEW r \in Request, GetReplay(r),
         Onward
  PROVE  Obliged(r)'
<1> USE DEF store, locals
<1>1. reply'[r].status = "integrity" => reply[r].status = "integrity"
  BY DEF GetReplay, Proceed, Leave, Goto, TypeOK
<1>2. CASE pc'[r] \notin KeyStep
  BY <1>1, <1>2, CalmStays DEF Calm, GetReplay, Proceed, Leave, TypeOK
<1>3. CASE pc'[r] \in KeyStep
  <2>1. pc[r] = "replay" /\ UNCHANGED <<turns, call, reply>>
    BY <1>3 DEF GetReplay, Proceed, Leave, Goto, TypeOK, Holding, KeyStep, PC, MysqlStep
  <2>2. \A t \in turns : ~ (/\ t.session = SessionOf(r) /\ t.index = prior[r] + 1
                            /\ t.role = "assistant")
    BY <1>3 DEF GetReplay, Proceed, Leave, Goto, TypeOK, Holding, KeyStep, PC, MysqlStep
  <2>3. PICK u \in turns : /\ u.session = SessionOf(r) /\ u.index = prior[r]
                           /\ u.role = "user" /\ SameCall(r, u.by)
    BY <2>1 DEF EvidenceInv, PriorIsRow
  <2>4. u.by \in Request /\ u.by # r /\ pc[u.by] \notin BeforeAsk /\ pc[u.by] \in PC
    BY <2>1, RowsAreOfStartedCalls DEF LogInv, RowOfPhase, BeforeAsk, TypeOK
  <2>5. pc[u.by] \notin Holding
    <3>1. pc[r] \in Holding
      BY <2>1 DEF Holding, PC, MysqlStep
    <3>2. SessionOf(u.by) = SessionOf(r)
      BY <2>3 DEF SameCall
    <3>3. QED
      BY <2>4, <3>1, <3>2 DEF OwnLock
  <2>6. pc[u.by] \in Ended
    BY <2>4, <2>5 DEF Holding, BeforeAsk, Ended
  <2>7. ASSUME NEW t \in turns, t.by = u.by
        PROVE  t.role = "user"
    <3>1. SUFFICES ASSUME t.role = "assistant" PROVE FALSE
      BY DEF TypeOK, TurnRow
    <3>2. PICK v \in turns : /\ v.session = t.session /\ v.index = t.index - 1
                             /\ v.role = "user" /\ v.by = u.by
      BY <2>7, <3>1 DEF LogInv, AnswerFollowsQuestion, IsRow
    <3>3. v = u
      BY <2>3, <3>2 DEF LogInv, OneRowPerRole
    <3>4. t.index \in Nat /\ t.index = prior[r] + 1 /\ t.session = SessionOf(r)
      <4>1. t.index \in Nat /\ u.index = t.index - 1
        BY <3>2, <3>3 DEF TypeOK, TurnRow
      <4>2. QED
        BY <2>3, <3>2, <3>3, <4>1
    <3>5. QED
      BY <2>2, <3>1, <3>4
  <2>8. Spent(r, u.by)
    BY <2>3, <2>4, <2>6, <2>7 DEF Spent, HalfTurn, Ended
  <2>9. ASSUME NEW t \in turns, t.session = SessionOf(r), t.key = call[r].key, t.key # NoKey
        PROVE  Spent(r, t.by)
    <3>1. u.key = call[r].key
      BY <2>3 DEF LogInv, RowOfCall, SameCall
    <3>2. t = u
      BY <2>3, <2>9, <3>1 DEF LogInv, UniqueKey
    <3>3. QED
      BY <2>8, <3>2
  <2>10. \A t \in turns' :
           t.session = SessionOf(r)' /\ t.key = call'[r].key /\ t.key # NoKey =>
             Spent(r, t.by)'
    <3>1. pc[r] # "idle"
      BY <2>1
    <3>2. QED
      BY <2>1, <2>9, <3>1, SpentKept, RowsAreOfStartedCalls DEF SessionOf
  <2>11. reply'[r].status = "integrity" => pc'[r] # "idle" /\ \E q \in Request : Spent(r, q)'
    BY <2>1, SpentKept DEF RefusalInv, Obliged, Onward
  <2>12. QED
    BY <2>10, <2>11 DEF Obliged
<1>4. QED
  BY <1>2, <1>3

\* The user row is refused only for its key: no row has its index (TopRow).
LEMMA AppendUserSpent ==
  ASSUME TypeOK, LogInv, TurnInv, RefusalInv, NEW r \in Request, AppendUser(r), Onward
  PROVE  Obliged(r)'
<1> USE DEF store, locals
<1>1. pc[r] = "append_user" /\ UNCHANGED call /\ pc'[r] \notin KeyStep
  BY DEF AppendUser, AppendTurn, Proceed, Fail, Leave, Goto, TypeOK, Holding, PC, MysqlStep,
         KeyStep
<1>2. CASE ~ Clashes(UserRow(r))
  <2>1. reply'[r].status = "integrity" => reply[r].status = "integrity"
    BY <1>2 DEF AppendUser, AppendTurn, Proceed, Fail, Leave, TypeOK
  <2>2. QED
    BY <1>1, <2>1, CalmStays DEF Calm
<1>3. CASE Clashes(UserRow(r))
  <2>1. PICK t \in turns : /\ t.session = SessionOf(r)
                           /\ t.index = ti[r] \/ (t.key = call[r].key /\ call[r].key # NoKey)
    BY <1>3 DEF Clashes, UserRow
  <2>2. t.index < ti[r] /\ t.index \in Nat /\ ti[r] \in Nat
    BY <1>1, <2>1 DEF TurnInv, TopRow, TypeOK, TurnRow
  <2>3. Spent(r, t.by) /\ t.by \in Request
    BY <1>1, <2>1, <2>2, RowsAreOfStartedCalls DEF RefusalInv, Obliged, KeyStep
  <2>4. Spent(r, t.by)'
    BY <1>1, <2>3, SpentKept
  <2>5. QED
    BY <1>1, <2>3, <2>4 DEF Obliged, Onward
<1>4. QED
  BY <1>2, <1>3

\* The assistant row is never refused: it has no key, and an index of its own.
LEMMA AppendAssistantPasses ==
  ASSUME TypeOK, TurnInv, NEW r \in Request, AppendAssistant(r)
  PROVE  /\ pc'[r] \notin KeyStep
         /\ reply'[r].status = "integrity" => reply[r].status = "integrity"
<1>1. pc[r] = "append_assistant" /\ pc[r] \in AskedStep /\ pc'[r] \notin KeyStep
  BY DEF AppendAssistant, AppendTurn, Proceed, Fail, Leave, Goto, TypeOK, Holding, PC,
         MysqlStep, KeyStep, AskedStep
<1>2. ~ Clashes(AssistantRow(r))
  <2>1. SUFFICES ASSUME NEW t \in turns, t.session = SessionOf(r), t.index = ti[r] + 1
                 PROVE  FALSE
    BY DEF Clashes, AssistantRow
  <2>2. t.index <= ti[r] /\ t.index \in Nat /\ ti[r] \in Nat
    BY <1>1, <2>1 DEF TurnInv, TopRow, TypeOK, TurnRow
  <2>3. QED
    BY <2>1, <2>2
<1>3. QED
  BY <1>1, <1>2 DEF AppendAssistant, AppendTurn, Proceed, Fail, Leave, TypeOK

LEMMA RefusalOwnStep ==
  ASSUME TypeOK, LogInv, EvidenceInv, OwnLock, TurnInv, RefusalInv, NEW r \in Request,
         Step(r) \/ Raise(r) \/ ReleaseRaises(r)
  PROVE  RefusalInv'
<1> USE DEF store, locals
<1>1. Onward /\ \A q \in Request \ {r} : pc'[q] = pc[q] /\ reply'[q] = reply[q]
  BY OnwardOwnStep
<1>2. ASSUME NEW q \in Request \ {r}
      PROVE  Obliged(q)'
  <2>1. ASSUME pc[q] \in KeyStep, NEW t \in turns'
        PROVE  t \in turns \/ t.session # SessionOf(q)
    <3>1. SUFFICES ASSUME t \notin turns
                   PROVE  t.session # SessionOf(q)
      OBVIOUS
    <3>2. AppendUser(r) \/ AppendAssistant(r)
      BY <2>1, <3>1 DEF Step, Ping, CheckOwner, Acquire, LockTimeout, FindPrior, GetReplay,
           ReadSnapshot, ReadDoc, ReloadDoc, ReadIndex, ClassifyTurn, EngineStart, EngineEnd,
           SaveSnapshot, SetDoc, ReleaseGet, ReleaseDelete, Raise, ReleaseRaises
    <3>3. t.session = SessionOf(r) /\ pc[r] \in {"append_user", "append_assistant"}
      BY <2>1, <3>1, <3>2 DEF AppendUser, AppendAssistant, AppendTurn, UserRow, AssistantRow
    <3>4. pc[r] \in Holding /\ pc[q] \in Holding
      BY <2>1, <3>3 DEF Holding, KeyStep, PC, MysqlStep, RedisStep
    <3>5. QED
      BY <3>3, <3>4 DEF OwnLock
  <2>2. Calm(q)
    BY <1>1, <2>1 DEF Calm
  <2>3. QED
    BY <1>1, <2>2, CalmStays
<1>3. Obliged(r)'
  <2>1. CASE \/ Ping(r) \/ CheckOwner(r) \/ LockTimeout(r)
             \/ ReadSnapshot(r) \/ ReadDoc(r) \/ ReloadDoc(r) \/ ReadIndex(r)
             \/ ClassifyTurn(r) \/ EngineStart(r) \/ EngineEnd(r) \/ SaveSnapshot(r)
             \/ SetDoc(r) \/ ReleaseGet(r) \/ ReleaseDelete(r) \/ Raise(r) \/ ReleaseRaises(r)
    <3>1. UNCHANGED turns /\ (pc'[r] \in KeyStep => pc[r] \in KeyStep)
      BY <2>1 DEF Ping, CheckOwner, LockTimeout, ReadSnapshot, ReadDoc, ReloadDoc, ReadIndex,
           ClassifyTurn, EngineStart, EngineEnd, SaveSnapshot, SetDoc, ReleaseGet,
           ReleaseDelete, Raise, ReleaseRaises, Proceed, Fail, Leave, Goto, TypeOK, KeyStep
    <3>2. reply'[r].status = "integrity" => reply[r].status = "integrity"
      BY <2>1 DEF Ping, CheckOwner, LockTimeout, ReadSnapshot, ReadDoc, ReloadDoc, ReadIndex,
           ClassifyTurn, EngineStart, EngineEnd, SaveSnapshot, SetDoc, ReleaseGet,
           ReleaseDelete, Raise, ReleaseRaises, Proceed, Fail, Leave, TypeOK
    <3>3. QED
      BY <1>1, <3>1, <3>2, CalmStays DEF Calm
  <2>2. CASE Acquire(r) \/ FindPrior(r)
    <3>1. /\ UNCHANGED <<turns, call>> /\ pc[r] # "idle" /\ pc'[r] # "idle"
          /\ reply'[r].status = "integrity" => reply[r].status = "integrity"
      BY <2>2 DEF Acquire, FindPrior, Proceed, Fail, Leave, Goto, TypeOK
    <3>2. ASSUME pc'[r] \in KeyStep, NEW t \in turns, t.session = SessionOf(r),
                 t.key = call[r].key, t.key # NoKey
          PROVE  FALSE
      <4>1. CASE Acquire(r)
        BY <3>2, <4>1 DEF Acquire, Proceed, Fail, Leave, Goto, TypeOK, KeyStep
      <4>2. CASE FindPrior(r)
        BY <3>2, <4>2 DEF FindPrior, Proceed, Fail, Leave, Goto, TypeOK, KeyStep
      <4>3. QED
        BY <2>2, <4>1, <4>2
    <3>3. reply'[r].status = "integrity" => \E q \in Request : Spent(r, q)'
      BY <1>1, <3>1, SpentKept DEF RefusalInv, Obliged
    <3>4. QED
      BY <3>1, <3>2, <3>3 DEF Obliged, SessionOf
  <2>3. CASE AppendAssistant(r)
    BY <1>1, <2>3, AppendAssistantPasses, CalmStays DEF Calm
  <2>4. QED
    BY <1>1, <2>1, <2>2, <2>3, GetReplaySpent, AppendUserSpent DEF Step
<1>4. QED
  BY <1>2, <1>3 DEF RefusalInv

LEMMA RefusalStep ==
  ASSUME TypeOK, LogInv, EvidenceInv, OwnLock, TurnInv, RefusalInv, [Next]_vars
  PROVE  RefusalInv'
<1> USE DEF store, locals
<1>1. CASE \/ UNCHANGED vars
           \/ \E s \in Session, p \in Principal : CreateSession(s, p)
           \/ \E s \in Session : ExpireLock(s) \/ EvictDoc(s)
  <2>1. UNCHANGED <<turns, call, pc, reply>>
    BY <1>1 DEF vars, CreateSession, ExpireLock, EvictDoc
  <2>2. Onward /\ \A q \in Request : Calm(q)
    BY <2>1 DEF Onward, Calm
  <2>3. QED
    BY <2>2, CalmStays DEF RefusalInv
<1>2. ASSUME NEW r \in Request, Submit(r)
      PROVE  RefusalInv'
  <2>1. /\ pc[r] = "idle" /\ pc'[r] = "ping" /\ UNCHANGED <<turns, reply>>
        /\ \A q \in Request \ {r} : pc'[q] = pc[q] /\ call'[q] = call[q]
    BY <1>2 DEF Submit, Goto, TypeOK
  <2>2. Onward /\ \A q \in Request : Calm(q)
    BY <2>1 DEF Onward, Calm, Ended, KeyStep
  <2>3. QED
    BY <2>2, CalmStays DEF RefusalInv
<1>3. ASSUME NEW w \in Worker, Crash(w)
      PROVE  RefusalInv'
  <2>1. /\ \A q \in Request : pc'[q] = pc[q] \/ (pc'[q] = "dead" /\ pc[q] # "idle")
        /\ UNCHANGED <<turns, call, reply>>
    BY <1>3 DEF Crash, Running, Live, TypeOK
  <2>2. Onward /\ \A q \in Request : Calm(q)
    BY <2>1 DEF Onward, Calm, Ended, KeyStep
  <2>3. QED
    BY <2>2, CalmStays DEF RefusalInv
<1>4. QED
  BY <1>1, <1>2, <1>3, RefusalOwnStep DEF Next

THEOREM RefusalInvariant ==
  ASSUME "slow_turn" \notin Faults
  PROVE  Spec => []RefusalInv
<1>1. Init => RefusalInv
  BY DEF Init, RefusalInv, Obliged, KeyStep
<1>2. TypeOK /\ LogInv /\ EvidenceInv /\ OwnLock /\ TurnInv /\ RefusalInv /\ [Next]_vars
        => RefusalInv'
  BY RefusalStep
<1>3. QED
  BY <1>1, <1>2, TurnInvariant, PTL DEF Spec

\* With a TTL no turn outlives, a unique index refuses a turn for one reason only:
\* an earlier call with its key and body has ended between question and answer.
THEOREM RefusedByHalfTurnAlways ==
  ASSUME "slow_turn" \notin Faults
  PROVE  Spec => []RefusedByHalfTurn
<1>1. RefusalInv => RefusedByHalfTurn
  BY DEF RefusalInv, Obliged, Spent, RefusedByHalfTurn
<1>2. QED
  BY <1>1, RefusalInvariant, PTL

----------------------------------------------------------------------------
(* The implementation of TurnMemory.tla, while the turn lock outlives the turn *)

\* The three variables of TurnMemory
MemoryView == [s \in Session |-> Memory(s)]
TurnView == [r \in Request |-> Turn(r)]
ToldOwn == {r \in Request : Researched(r)}

LEMMA TurnIs ==
  ASSUME NEW r \in Request
  PROVE  /\ pc[r] \in BeforeTurn => Turn(r) = TM!Before
         /\ pc[r] \in InTurn => Turn(r) = TM!On(SessionOf(r), base[r].blob)
         /\ pc[r] \notin BeforeTurn \cup InTurn => Turn(r) = TM!Over
BY DEF Turn, BeforeTurn, InTurn, TM!Before, TM!On, TM!Over

LEMMA TurnIsAfter ==
  ASSUME NEW r \in Request
  PROVE  /\ pc'[r] \in BeforeTurn => Turn(r)' = TM!Before
         /\ pc'[r] \in InTurn => Turn(r)' = TM!On(call'[r].session, base'[r].blob)
         /\ pc'[r] \notin BeforeTurn \cup InTurn => Turn(r)' = TM!Over
BY DEF Turn, BeforeTurn, InTurn, SessionOf, TM!Before, TM!On, TM!Over

\* A session has one latest snapshot: ORDER BY ... LIMIT 1 leaves no choice.
LEMMA OneLatest ==
  ASSUME TypeOK, LogInv, EvidenceInv, NEW s \in Session, NEW w \in LatestSnaps(s)
  PROVE  Memory(s) = w.blob
<1>1. w \in snaps /\ w.session = s /\ SnapsOf(s) # {}
  BY DEF LatestSnaps, SnapsOf
<1> DEFINE v == CHOOSE v \in LatestSnaps(s) : TRUE
<1>2. v \in LatestSnaps(s) /\ Memory(s) = v.blob
  BY <1>1 DEF Memory
<1> HIDE DEF v
<1>3. v \in snaps /\ v.session = s /\ v.at <= w.at /\ w.at <= v.at
  BY <1>2 DEF LatestSnaps, SnapsOf
<1>4. v.at = w.at
  <2>1. v.at \in Nat /\ w.at \in Nat
    BY <1>1, <1>3 DEF TypeOK, SnapRow
  <2>2. QED
    BY <1>3, <2>1
<1>5. v.by = w.by
  <2>1. /\ IsRow(v.session, v.at, "assistant", v.by)
        /\ IsRow(w.session, w.at, "assistant", w.by)
    BY <1>1, <1>3 DEF EvidenceInv, SnapsHaveAnswers
  <2>2. QED
    BY <1>1, <1>3, <1>4, <2>1 DEF IsRow, LogInv, UniqueIndex
<1>6. v = w
  BY <1>1, <1>3, <1>5 DEF EvidenceInv, OneSnapPerCall
<1>7. QED
  BY <1>2, <1>6

LEMMA MemoryKept ==
  ASSUME UNCHANGED snaps
  PROVE  MemoryView' = MemoryView
<1>1. ASSUME NEW s \in Session
      PROVE  Memory(s)' = Memory(s)
  <2>1. SnapsOf(s)' = SnapsOf(s)
    BY DEF SnapsOf
  <2>2. LatestSnaps(s)' = LatestSnaps(s)
    BY <2>1 DEF LatestSnaps
  <2>3. QED
    BY <2>1, <2>2 DEF Memory
<1>2. QED
  BY <1>1 DEF MemoryView

\* A call works on what its session remembers.
LEMMA BaseIsMemory ==
  ASSUME TypeOK, LogInv, EvidenceInv, FreshBase, NEW r \in Request, pc[r] \in BaseStep
  PROVE  SessionOf(r) \in Session /\ base[r].blob = Memory(SessionOf(r))
<1>1. SessionOf(r) \in Session
  BY DEF BaseStep, AskedStep, TypeOK, SessionOf, Call
<1>2. CASE SnapsOf(SessionOf(r)) = {} /\ base[r] = NoBase
  BY <1>1, <1>2 DEF Memory, NoBase
<1>3. CASE \E w \in LatestSnaps(SessionOf(r)) : IsBase(r, w)
  BY <1>1, <1>3, OneLatest DEF IsBase
<1>4. QED
  BY <1>1, <1>2, <1>3 DEF FreshBase

\* A step that begins no turn, saves nothing and tells nobody ends some turns at most.
Passes(q) ==
  /\ pc'[q] \in BeforeTurn => pc[q] \in BeforeTurn
  /\ pc'[q] \in InTurn => /\ pc[q] \in InTurn
                          /\ call'[q] = call[q] /\ base'[q] = base[q]
  /\ Researched(q)' <=> Researched(q)

LEMMA PassesStop ==
  ASSUME UNCHANGED snaps, \A q \in Request : Passes(q)
  PROVE  TM!Next
<1> DEFINE S == {q \in Request : Turn(q)' = TM!Over}
<1>1. MemoryView' = MemoryView
  BY MemoryKept
<1>2. ToldOwn' = ToldOwn
  BY DEF ToldOwn, Passes
<1>3. \A q \in Request : Turn(q)' = IF q \in S THEN TM!Over ELSE TurnView[q]
  <2> SUFFICES ASSUME NEW q \in Request, q \notin S
               PROVE  Turn(q)' = Turn(q)
    BY DEF TurnView
  <2>1. pc'[q] \in BeforeTurn \cup InTurn
    BY TurnIsAfter
  <2>2. CASE pc'[q] \in BeforeTurn
    BY <2>2, TurnIs, TurnIsAfter DEF Passes
  <2>3. CASE pc'[q] \in InTurn
    BY <2>3, TurnIs, TurnIsAfter DEF Passes, SessionOf
  <2>4. QED
    BY <2>1, <2>2, <2>3
<1>4. S \in SUBSET Request
  OBVIOUS
<1> HIDE DEF S
<1>5. TM!Stop(S)
  BY <1>1, <1>2, <1>3 DEF TM!Stop, MemoryView, TurnView, ToldOwn
<1>6. QED
  BY <1>4, <1>5 DEF TM!Next

LEMMA ReadSnapshotStarts ==
  ASSUME TypeOK, LogInv, EvidenceInv, OwnLock, NEW r \in Request, ReadSnapshot(r)
  PROVE  TM!Start(r)
<1> USE DEF store, locals
<1> DEFINE s == SessionOf(r)
<1>1. /\ pc[r] = "snapshot" /\ pc' = [pc EXCEPT ![r] = "doc"]
      /\ UNCHANGED <<snaps, call, reply>>
      /\ \A q \in Request \ {r} : base'[q] = base[q]
  BY DEF ReadSnapshot, Proceed, Goto, TypeOK
<1>2. s \in Session
  BY <1>1 DEF TypeOK, SessionOf, Call
<1>3. base'[r].blob = Memory(s)
  <2>1. CASE SnapsOf(s) = {} /\ base' = [base EXCEPT ![r] = NoBase]
    BY <2>1 DEF Memory, NoBase, TypeOK
  <2>2. CASE \E w \in LatestSnaps(s) :
               base' = [base EXCEPT ![r] = [at |-> w.at, blob |-> w.blob]]
    <3>1. PICK w \in LatestSnaps(s) :
                 base' = [base EXCEPT ![r] = [at |-> w.at, blob |-> w.blob]]
      BY <2>2
    <3>2. base'[r].blob = w.blob
      BY <3>1 DEF TypeOK
    <3>3. QED
      BY <1>2, <3>1, <3>2, OneLatest
  <2>3. QED
    BY <2>1, <2>2 DEF ReadSnapshot
<1>4. TurnView[r] = TM!Before
  BY <1>1, TurnIs DEF TurnView, BeforeTurn
<1>5. \A q \in Request : TurnView[q].stage = "running" => TurnView[q].session # s
  <2> SUFFICES ASSUME NEW q \in Request, Turn(q).stage = "running"
               PROVE  Turn(q).session # s
    BY DEF TurnView
  <2>1. pc[q] \in InTurn /\ Turn(q).session = SessionOf(q)
    BY TurnIs DEF TM!Before, TM!Over, TM!On
  <2>2. pc[q] \in Holding /\ pc[r] \in Holding /\ q # r
    BY <1>1, <2>1 DEF InTurn, Holding, PC, MysqlStep, RedisStep
  <2>3. QED
    BY <2>1, <2>2 DEF OwnLock
<1>6. TurnView' = [TurnView EXCEPT ![r] = TM!On(s, MemoryView[s])]
  <2>1. Turn(r)' = TM!On(s, MemoryView[s])
    BY <1>1, <1>2, <1>3, TurnIsAfter DEF InTurn, TypeOK, SessionOf, MemoryView
  <2>2. \A q \in Request \ {r} : Turn(q)' = Turn(q)
    BY <1>1 DEF Turn, SessionOf, TypeOK
  <2>3. QED
    BY <2>1, <2>2 DEF TurnView
<1>7. MemoryView' = MemoryView
  BY <1>1, MemoryKept
<1>8. ToldOwn' = ToldOwn
  BY <1>1 DEF ToldOwn, Researched, Answered, TypeOK
<1> HIDE DEF s
<1>9. QED
  BY <1>2, <1>4, <1>5, <1>6, <1>7, <1>8
     DEF TM!Start, TM!Running, MemoryView, TurnView, ToldOwn

LEMMA SaveSnapshotRemembers ==
  ASSUME TypeOK, LogInv, EvidenceInv, StateInv, OwnLock, TurnInv, NEW r \in Request,
         SaveSnapshot(r)
  PROVE  TM!Remember(r)
<1> USE DEF store, locals
<1> PICK s : s = SessionOf(r)
  OBVIOUS
<1> PICK x : x = SavedRow(r)
  OBVIOUS
<1>1. /\ pc[r] = "save" /\ pc'[r] \in {"set_doc", "release"} /\ UNCHANGED <<base, call>>
      /\ \A q \in Request \ {r} : pc'[q] = pc[q]
  BY SaveSnapshotMoves
<1>2. s \in Session /\ base[r].blob = Memory(s)
  BY <1>1, BaseIsMemory DEF TurnInv, BaseStep
<1>3. /\ x.blob = Append(base[r].blob, r)
      /\ SnapsOf(s)' = SnapsOf(s) \cup {x} /\ LatestSnaps(s)' = {x}
      /\ \A z : z # s => SnapsOf(z)' = SnapsOf(z) /\ LatestSnaps(z)' = LatestSnaps(z)
  BY SavedIsLatest
<1>4. MemoryView' = [MemoryView EXCEPT ![s] = Append(@, r)]
  <2>1. Memory(s)' = Append(Memory(s), r)
    <3>1. SnapsOf(s)' # {} /\ (CHOOSE w \in LatestSnaps(s)' : TRUE) = x
      BY <1>3
    <3>2. QED
      BY <1>2, <1>3, <3>1 DEF Memory
  <2>2. ASSUME NEW z \in Session, z # s
        PROVE  Memory(z)' = Memory(z)
    <3>1. SnapsOf(z)' = SnapsOf(z) /\ LatestSnaps(z)' = LatestSnaps(z)
      BY <1>3, <2>2
    <3>2. QED
      BY <3>1 DEF Memory
  <2>3. QED
    BY <1>2, <2>1, <2>2 DEF MemoryView
<1>5. TurnView[r] = TM!On(s, MemoryView[s])
  BY <1>1, <1>2, TurnIs DEF TurnView, MemoryView, InTurn
<1>6. TurnView' = [TurnView EXCEPT ![r] = TM!Over]
  <2>1. Turn(r)' = TM!Over
    BY <1>1, TurnIsAfter DEF BeforeTurn, InTurn
  <2>2. \A q \in Request \ {r} : Turn(q)' = Turn(q)
    BY <1>1 DEF Turn, SessionOf
  <2>3. QED
    BY <2>1, <2>2 DEF TurnView
<1>7. ToldOwn' = ToldOwn
  <2>1. \A q \in Request \ {r} : reply'[q] = reply[q]
    BY DEF SaveSnapshot, Proceed, Fail, Leave, TypeOK
  <2>2. QED
    BY <1>1, <2>1 DEF ToldOwn, Researched, Answered
<1>8. TurnView[r].stage = "running" /\ TurnView[r].session = s
      /\ TurnView[r].given = MemoryView[s]
  BY <1>5 DEF TM!On
<1>9. QED
  BY <1>4, <1>6, <1>7, <1>8
     DEF TM!Remember, TM!Running, MemoryView, TurnView, ToldOwn

LEMMA ReleaseTellsOwn ==
  ASSUME TypeOK, LogInv, EvidenceInv, StateInv, TurnInv, NEW r \in Request,
         pc[r] \in {"release", "delete"}, pc' = [pc EXCEPT ![r] = "done"],
         UNCHANGED <<snaps, call, base, reply>>, Researched(r)'
  PROVE  TM!Tell(r)
<1>1. reply[r].status = "ok" /\ reply[r].by = r /\ reply[r].intent # "needs_clarification"
  BY DEF Researched, Answered
<1>2. SessionOf(r) \in Session /\ Remembers(SessionOf(r), r)
  BY <1>1, OwnAnswerRemembered
<1>3. \E s \in Session : \E i \in 1 .. Len(MemoryView[s]) : MemoryView[s][i] = r
  <2>1. PICK w \in LatestSnaps(SessionOf(r)) : \E i \in 1 .. Len(w.blob) : w.blob[i] = r
    BY <1>2 DEF Remembers
  <2>2. MemoryView[SessionOf(r)] = w.blob
    BY <1>2, <2>1, OneLatest DEF MemoryView
  <2>3. QED
    BY <1>2, <2>1, <2>2
<1>4. MemoryView' = MemoryView
  BY MemoryKept
<1>5. TurnView' = TurnView
  <2>1. Turn(r)' = Turn(r)
    BY TurnIs, TurnIsAfter DEF BeforeTurn, InTurn, TypeOK
  <2>2. \A q \in Request \ {r} : Turn(q)' = Turn(q)
    BY DEF Turn, SessionOf, TypeOK
  <2>3. QED
    BY <2>1, <2>2 DEF TurnView
<1>6. ToldOwn' = ToldOwn \cup {r}
  <2>1. \A q \in Request \ {r} : Researched(q)' <=> Researched(q)
    BY DEF Researched, Answered, TypeOK
  <2>2. QED
    BY <2>1 DEF ToldOwn
<1>7. QED
  BY <1>3, <1>4, <1>5, <1>6 DEF TM!Tell, TM!Remembered, MemoryView, TurnView, ToldOwn

\* A call's own step begins its turn, saves it, tells the caller or ends it.
LEMMA TurnOwnStepSimulates ==
  ASSUME TypeOK, LogInv, EvidenceInv, StateInv, OwnLock, TurnInv, NEW r \in Request,
         Step(r) \/ Raise(r) \/ ReleaseRaises(r)
  PROVE  TM!Next
<1> USE DEF store, locals
<1>1. CASE ReadSnapshot(r)
  BY <1>1, ReadSnapshotStarts DEF TM!Next
<1>2. CASE SaveSnapshot(r)
  BY <1>2, SaveSnapshotRemembers DEF TM!Next
<1>3. CASE ReleaseGet(r) \/ ReleaseDelete(r)
  <2>1. /\ UNCHANGED <<snaps, call, base>> /\ pc[r] \in {"release", "delete"}
        /\ pc'[r] \in {"delete", "done"}
        /\ \A q \in Request \ {r} : pc'[q] = pc[q] /\ reply'[q] = reply[q]
    BY <1>3 DEF ReleaseGet, ReleaseDelete, Proceed, Goto, TypeOK
  <2>2. CASE Researched(r)'
    <3>1. pc' = [pc EXCEPT ![r] = "done"] /\ UNCHANGED reply
      BY <1>3, <2>2 DEF ReleaseGet, ReleaseDelete, Proceed, Goto, TypeOK, Researched, Answered
    <3>2. QED
      BY <2>1, <2>2, <3>1, ReleaseTellsOwn DEF TM!Next
  <2>3. CASE ~ Researched(r)'
    <3>1. Passes(r)
      BY <2>1, <2>3 DEF Passes, BeforeTurn, InTurn, Researched, Answered
    <3>2. \A q \in Request \ {r} : Passes(q)
      BY <2>1 DEF Passes, Researched, Answered
    <3>3. QED
      BY <2>1, <3>1, <3>2, PassesStop
  <2>4. QED
    BY <2>2, <2>3
<1>4. ASSUME /\ UNCHANGED <<snaps, call, base>>
             /\ pc[r] # "done" /\ (pc'[r] # "done" \/ reply'[r].status # "ok")
             /\ pc'[r] \in BeforeTurn => pc[r] \in BeforeTurn
             /\ pc'[r] \in InTurn => pc[r] \in InTurn
             /\ \A q \in Request \ {r} : pc'[q] = pc[q] /\ reply'[q] = reply[q]
      PROVE  TM!Next
  <2>1. Passes(r)
    BY <1>4 DEF Passes, Researched, Answered
  <2>2. \A q \in Request \ {r} : Passes(q)
    BY <1>4 DEF Passes, Researched, Answered
  <2>3. QED
    BY <1>4, <2>1, <2>2, PassesStop
<1>5. CASE Ping(r) \/ CheckOwner(r) \/ Acquire(r) \/ LockTimeout(r)
  BY <1>4, <1>5 DEF Ping, CheckOwner, Acquire, LockTimeout, Proceed, Fail, Leave, Goto, TypeOK,
     BeforeTurn, InTurn, Holding
<1>6. CASE FindPrior(r) \/ GetReplay(r) \/ ReadDoc(r) \/ ReloadDoc(r) \/ ReadIndex(r)
  BY <1>4, <1>6 DEF FindPrior, GetReplay, ReadDoc, ReloadDoc, ReadIndex, Proceed, Fail, Leave,
     Goto, TypeOK, BeforeTurn, InTurn, Holding, PC, MysqlStep, RedisStep
<1>7. CASE ClassifyTurn(r) \/ EngineStart(r) \/ EngineEnd(r) \/ SetDoc(r)
  BY <1>4, <1>7 DEF ClassifyTurn, EngineStart, EngineEnd, SetDoc, Proceed, Fail, Leave,
     Goto, TypeOK, BeforeTurn, InTurn, Holding, PC, MysqlStep, RedisStep
<1>8. CASE AppendUser(r) \/ AppendAssistant(r)
  BY <1>4, <1>8 DEF AppendUser, AppendAssistant, AppendTurn, Proceed, Fail, Leave,
     Goto, TypeOK, BeforeTurn, InTurn, Holding, PC, MysqlStep
<1>9. CASE Raise(r) \/ ReleaseRaises(r)
  BY <1>4, <1>9 DEF Raise, ReleaseRaises, Fail, Leave, Goto, TypeOK, BeforeTurn, InTurn,
     MysqlStep, RedisStep
<1>10. QED
  BY <1>1, <1>2, <1>3, <1>5, <1>6, <1>7, <1>8, <1>9 DEF Step

LEMMA TurnStepSimulates ==
  ASSUME TypeOK, LogInv, EvidenceInv, StateInv, OwnLock, TurnInv, [Next]_vars
  PROVE  TM!Next
<1> USE DEF store, locals
<1>1. CASE \/ UNCHANGED vars
           \/ \E s \in Session, p \in Principal : CreateSession(s, p)
           \/ \E s \in Session : ExpireLock(s) \/ EvictDoc(s)
  <2>1. UNCHANGED <<snaps, call, base, pc, reply>>
    BY <1>1 DEF vars, CreateSession, ExpireLock, EvictDoc
  <2>2. \A q \in Request : Passes(q)
    BY <2>1 DEF Passes, Researched, Answered
  <2>3. QED
    BY <2>1, <2>2, PassesStop
<1>2. ASSUME NEW r \in Request, Submit(r)
      PROVE  TM!Next
  <2>1. /\ pc[r] = "idle" /\ pc'[r] = "ping" /\ UNCHANGED <<snaps, base, reply>>
        /\ \A q \in Request \ {r} : pc'[q] = pc[q] /\ call'[q] = call[q]
    BY <1>2 DEF Submit, Goto, TypeOK
  <2>2. \A q \in Request : Passes(q)
    BY <2>1 DEF Passes, BeforeTurn, InTurn, Researched, Answered
  <2>3. QED
    BY <2>1, <2>2, PassesStop
<1>3. ASSUME NEW w \in Worker, Crash(w)
      PROVE  TM!Next
  <2>1. /\ \A q \in Request : pc'[q] = pc[q] \/ (pc'[q] = "dead" /\ pc[q] # "done")
        /\ UNCHANGED <<snaps, call, base, reply>>
    BY <1>3 DEF Crash, Running, Live, TypeOK
  <2>2. \A q \in Request : Passes(q)
    BY <2>1 DEF Passes, BeforeTurn, InTurn, Researched, Answered
  <2>3. QED
    BY <2>1, <2>2, PassesStop
<1>4. QED
  BY <1>1, <1>2, <1>3, TurnOwnStepSimulates DEF Next

\* With a TTL no turn outlives, run_turn implements the memory of TurnMemory.tla
\* under every fault: turns of a session take effect one after the other, each on
\* the memory the one before it has left, and a researched answer is told after it
\* is remembered.
THEOREM ImplementsTurnMemoryAlways ==
  ASSUME "slow_turn" \notin Faults
  PROVE  Spec => ImplementsTurnMemory
<1>1. Init => TM!Init
  <2> SUFFICES ASSUME Init PROVE TM!Init
    OBVIOUS
  <2>1. \A s : SnapsOf(s) = {}
    BY DEF Init, SnapsOf
  <2>2. \A s \in Session : Memory(s) = <<>>
    BY <2>1 DEF Memory
  <2>3. \A r \in Request : Turn(r) = TM!Before /\ ~ Researched(r)
    BY TurnIs DEF Init, BeforeTurn, Researched, Answered
  <2>4. QED
    BY <2>2, <2>3 DEF TM!Init
<1>2. TypeOK /\ LogInv /\ EvidenceInv /\ StateInv /\ OwnLock /\ TurnInv /\ [Next]_vars
        => [TM!Next]_(TM!vars)
  BY TurnStepSimulates
<1>3. QED
  BY <1>1, <1>2, TurnInvariant, PTL DEF Spec, ImplementsTurnMemory, TM!Spec
=============================================================================
