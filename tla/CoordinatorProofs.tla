------------------------- MODULE CoordinatorProofs -------------------------
(***************************************************************************)
(* Proofs about Coordinator.tla for every number of sessions, calls, keys, *)
(* bodies and workers, and every set of faults.                            *)
(***************************************************************************)
EXTENDS CoordinatorProperties, TLAPS

----------------------------------------------------------------------------
(* Operators *)

\* Every raw verdict is classified within its types (intent.py), so that the
\* plan always names a mode.
LEMMA ClassifyType ==
  ASSUME NEW raw \in RawVerdict
  PROVE  Classify(raw) \in Verdict
BY DEF Classify, RawVerdict, Verdict, RawIntent, Intent

\* plan_route is total.
LEMMA PlanRouteType ==
  ASSUME NEW intent, NEW conf, NEW has
  PROVE  PlanRoute(intent, conf, has) \in Mode
BY DEF PlanRoute, Mode

\* A failure status is a reply.
LEMMA FailureIsReply ==
  ASSUME NEW status \in Failure
  PROVE  [status |-> status] \in Reply
BY DEF Reply

\* Whatever a call does next, it goes to a step of run_turn with a reply of
\* the right type, and no other call moves.
Moves(r) ==
  \/ \E step \in PC \ {"idle"} : Proceed(r, step)
  \/ \E a \in Reply : Leave(r, a)

LEMMA MoveType ==
  ASSUME TypeOK, NEW r \in Request, Moves(r)
  PROVE  /\ pc' \in [Request -> PC]
         /\ reply' \in [Request -> Reply]
         /\ pc'[r] # "idle"
         /\ \A q \in Request \ {r} : pc'[q] = pc[q] /\ reply'[q] = reply[q]
BY DEF TypeOK, Moves, Proceed, Leave, Goto, PC

LEMMA FailMoves ==
  ASSUME NEW r \in Request, NEW status \in Failure, Fail(r, status)
  PROVE  Moves(r)
BY FailureIsReply DEF Moves, Fail

LEMMA ProceedMoves ==
  ASSUME NEW r \in Request, NEW step \in PC \ {"idle"}, Proceed(r, step)
  PROVE  Moves(r)
BY DEF Moves

\* The store a call may change, when it is the only thing that changes besides
\* pc and reply.
LEMMA QuietType ==
  ASSUME TypeOK, NEW r \in Request, pc[r] # "idle", Moves(r),
         UNCHANGED <<store, lock, doc, busy, locals>>
  PROVE  TypeOK'
<1>1. /\ pc' \in [Request -> PC]
      /\ reply' \in [Request -> Reply]
      /\ \A q \in Request : pc'[q] # "idle" => pc[q] # "idle"
  BY MoveType
<1>2. QED
  BY <1>1 DEF TypeOK, store, locals

----------------------------------------------------------------------------
(* Type correctness *)

LEMMA TypeInit == Init => TypeOK
BY ConfidenceAssumption
   DEF Init, TypeOK, Base, NoBase, Blob, PC, Reply, Failure, Verdict, Intent,
       Confidence

LEMMA PingType ==
  ASSUME TypeOK, NEW r \in Request, Ping(r)
  PROVE  TypeOK'
<1>1. Moves(r)
  BY FailMoves, ProceedMoves DEF Ping, PC, MysqlStep, Failure
<1>2. QED
  BY <1>1, QuietType DEF Ping

LEMMA CheckOwnerType ==
  ASSUME TypeOK, NEW r \in Request, CheckOwner(r)
  PROVE  TypeOK'
<1>1. Moves(r)
  BY FailMoves, ProceedMoves DEF CheckOwner, PC, RedisStep, Failure
<1>2. QED
  BY <1>1, QuietType DEF CheckOwner

LEMMA AcquireType ==
  ASSUME TypeOK, NEW r \in Request, Acquire(r)
  PROVE  TypeOK'
<1>1. Moves(r)
  BY FailMoves, ProceedMoves DEF Acquire, PC, MysqlStep, Failure
<1>2. /\ pc' \in [Request -> PC]
      /\ reply' \in [Request -> Reply]
      /\ \A q \in Request : pc'[q] # "idle" => pc[q] # "idle"
  BY <1>1, MoveType DEF Acquire
<1>3. lock' \in [Session -> Request \cup {NoOne}]
  BY DEF Acquire, TypeOK
<1>4. QED
  BY <1>2, <1>3 DEF Acquire, TypeOK, store, locals

LEMMA LockTimeoutType ==
  ASSUME TypeOK, NEW r \in Request, LockTimeout(r)
  PROVE  TypeOK'
<1>1. Moves(r)
  BY FailMoves DEF LockTimeout, Failure
<1>2. QED
  BY <1>1, QuietType DEF LockTimeout

LEMMA FindPriorType ==
  ASSUME TypeOK, NEW r \in Request, FindPrior(r)
  PROVE  TypeOK'
<1>1. Moves(r)
  BY FailMoves, ProceedMoves DEF FindPrior, PC, MysqlStep, Failure
<1>2. /\ pc' \in [Request -> PC]
      /\ reply' \in [Request -> Reply]
      /\ \A q \in Request : pc'[q] # "idle" => pc[q] # "idle"
  BY <1>1, MoveType DEF FindPrior
<1>3. prior' \in [Request -> Nat \cup {-1}]
  BY DEF FindPrior, TypeOK, TurnRow
<1>4. QED
  BY <1>2, <1>3 DEF FindPrior, TypeOK, store

LEMMA GetReplayType ==
  ASSUME TypeOK, NEW r \in Request, GetReplay(r)
  PROVE  TypeOK'
<1>1. CASE Proceed(r, "snapshot")
  <2>1. Moves(r)
    BY <1>1, ProceedMoves DEF PC, MysqlStep
  <2>2. QED
    BY <2>1, QuietType DEF GetReplay
<1>2. CASE ~ Proceed(r, "snapshot")
  <2>1. PICK t \in turns :
          Leave(r, [status |-> "ok", turn |-> prior[r], by |-> t.by,
                    intent |-> t.intent, conf |-> ReplayConf(t.conf),
                    mode |-> "none"])
    BY <1>2 DEF GetReplay
  <2>2. /\ t.by \in Request /\ t.intent \in Intent \cup {"none"}
        /\ ReplayConf(t.conf) \in Confidence
    BY ConfidenceAssumption DEF TypeOK, TurnRow, ReplayConf, Confidence
  <2>3. [status |-> "ok", turn |-> prior[r], by |-> t.by,
         intent |-> t.intent, conf |-> ReplayConf(t.conf),
         mode |-> "none"] \in Reply
    BY <2>2 DEF TypeOK, Reply, Answer
  <2>4. Moves(r)
    BY <2>1, <2>3 DEF Moves
  <2>5. QED
    BY <2>4, QuietType DEF GetReplay
<1>3. QED
  BY <1>1, <1>2

LEMMA ReadSnapshotType ==
  ASSUME TypeOK, NEW r \in Request, ReadSnapshot(r)
  PROVE  TypeOK'
<1>1. Moves(r)
  BY ProceedMoves DEF ReadSnapshot, PC, RedisStep
<1>2. /\ pc' \in [Request -> PC]
      /\ reply' \in [Request -> Reply]
      /\ \A q \in Request : pc'[q] # "idle" => pc[q] # "idle"
  BY <1>1, MoveType DEF ReadSnapshot
<1>3. NoBase \in Base
  BY DEF NoBase, Base, Blob
<1>4. ASSUME NEW w \in LatestSnaps(SessionOf(r))
      PROVE  [at |-> w.at, blob |-> w.blob] \in Base
  <2>1. w \in SnapRow
    BY DEF LatestSnaps, SnapsOf, TypeOK
  <2>2. QED
    BY <2>1 DEF SnapRow, Base
<1>5. base' \in [Request -> Base]
  BY <1>3, <1>4 DEF ReadSnapshot, TypeOK
<1>6. QED
  BY <1>2, <1>5 DEF ReadSnapshot, TypeOK, store

LEMMA ReadDocType ==
  ASSUME TypeOK, NEW r \in Request, ReadDoc(r)
  PROVE  TypeOK'
<1>1. Moves(r)
  BY ProceedMoves DEF ReadDoc, PC, RedisStep, MysqlStep
<1>2. QED
  BY <1>1, QuietType DEF ReadDoc

LEMMA ReloadDocType ==
  ASSUME TypeOK, NEW r \in Request, ReloadDoc(r)
  PROVE  TypeOK'
<1>1. Moves(r)
  BY FailMoves, ProceedMoves DEF ReloadDoc, PC, MysqlStep, Failure
<1>2. /\ pc' \in [Request -> PC]
      /\ reply' \in [Request -> Reply]
      /\ \A q \in Request : pc'[q] # "idle" => pc[q] # "idle"
  BY <1>1, MoveType DEF ReloadDoc
<1>3. doc' \in [Session -> Blob \cup {NoDoc}]
  BY DEF ReloadDoc, TypeOK, Base
<1>4. QED
  BY <1>2, <1>3 DEF ReloadDoc, TypeOK, store, locals

\* coalesce(max(turn_index), -1) + 1 is the number of rows of a dense log.
Dense == \A s \in Session : \E n \in Nat : Indexes(s) = 0 .. n - 1

LEMMA NextIndexOfDense ==
  ASSUME NEW s \in Session, NEW n \in Nat, Indexes(s) = 0 .. n - 1
  PROVE  NextTurnIndex(s) = n
<1>1. PICK m \in Indexes(s) \cup {-1} :
        /\ \A i \in Indexes(s) : i <= m
        /\ NextTurnIndex(s) = 1 + m
  <2>1. \E m \in Indexes(s) \cup {-1} : \A i \in Indexes(s) : i <= m
    <3>1. n - 1 \in Indexes(s) \cup {-1} /\ \A i \in Indexes(s) : i <= n - 1
      OBVIOUS
    <3>2. QED
      BY <3>1
  <2>2. QED
    BY <2>1 DEF NextTurnIndex
<1>2. QED
  BY <1>1

LEMMA ReadIndexType ==
  ASSUME TypeOK, Dense, NEW r \in Request, ReadIndex(r)
  PROVE  TypeOK'
<1>1. Moves(r)
  BY ProceedMoves DEF ReadIndex, PC, MysqlStep
<1>2. /\ pc' \in [Request -> PC]
      /\ reply' \in [Request -> Reply]
      /\ \A q \in Request : pc'[q] # "idle" => pc[q] # "idle"
  BY <1>1, MoveType DEF ReadIndex
<1>3. SessionOf(r) \in Session
  BY DEF ReadIndex, TypeOK, SessionOf, Call
<1>4. NextTurnIndex(SessionOf(r)) \in Nat
  BY <1>3, NextIndexOfDense DEF Dense
<1>5. QED
  BY <1>2, <1>4 DEF ReadIndex, TypeOK, store

\* A row is appended with its types, or nothing is.
LEMMA AppendTurnType ==
  ASSUME TypeOK, NEW r \in Request, NEW row \in TurnRow, NEW next \in PC \ {"idle"},
         AppendTurn(r, row, next)
  PROVE  Moves(r) /\ turns' \subseteq TurnRow
<1>1. Moves(r)
  BY FailMoves, ProceedMoves DEF AppendTurn, Failure
<1>2. turns' \subseteq TurnRow
  BY DEF AppendTurn, TypeOK
<1>3. QED
  BY <1>1, <1>2

LEMMA AppendedType ==
  ASSUME TypeOK, NEW r \in Request, pc[r] # "idle", Moves(r),
         turns' \subseteq TurnRow,
         UNCHANGED <<owner, snaps, lock, doc, busy, locals>>
  PROVE  TypeOK'
<1>1. /\ pc' \in [Request -> PC]
      /\ reply' \in [Request -> Reply]
      /\ \A q \in Request : pc'[q] # "idle" => pc[q] # "idle"
  BY MoveType
<1>2. QED
  BY <1>1 DEF TypeOK, locals

LEMMA RowTypes ==
  ASSUME TypeOK, NEW r \in Request, pc[r] # "idle"
  PROVE  UserRow(r) \in TurnRow /\ AssistantRow(r) \in TurnRow
<1>1. /\ call[r] \in Call /\ ti[r] \in Nat /\ verdict[r] \in Verdict
      /\ 0 \in Confidence
  BY ConfidenceAssumption DEF TypeOK, Confidence
<1>2. /\ SessionOf(r) \in Session /\ call[r].key \in Key \cup {NoKey}
      /\ call[r].body \in Body
  BY <1>1 DEF SessionOf, Call
<1>3. UserRow(r) \in TurnRow
  BY <1>1, <1>2 DEF UserRow, TurnRow
<1>4. (IF Plan(r) = "clarify_only" THEN "needs_clarification"
       ELSE verdict[r].intent) \in Intent
  BY <1>1 DEF Verdict, Intent
<1>5. verdict[r].conf \in Confidence
  BY <1>1 DEF Verdict
<1>6. AssistantRow(r) \in TurnRow
  BY <1>1, <1>2, <1>4, <1>5 DEF AssistantRow, TurnRow
<1>7. QED
  BY <1>3, <1>6

LEMMA AppendUserType ==
  ASSUME TypeOK, NEW r \in Request, AppendUser(r)
  PROVE  TypeOK'
<1>1. Moves(r) /\ turns' \subseteq TurnRow
  BY RowTypes, AppendTurnType DEF AppendUser, PC
<1>2. QED
  BY <1>1, AppendedType DEF AppendUser

LEMMA AppendAssistantType ==
  ASSUME TypeOK, NEW r \in Request, AppendAssistant(r)
  PROVE  TypeOK'
<1>1. (IF Plan(r) = "clarify_only" THEN "set_doc" ELSE "save") \in PC \ {"idle"}
  BY DEF PC, MysqlStep, RedisStep
<1>2. Moves(r) /\ turns' \subseteq TurnRow
  BY <1>1, RowTypes, AppendTurnType DEF AppendAssistant
<1>3. QED
  BY <1>2, AppendedType DEF AppendAssistant

LEMMA ClassifyTurnType ==
  ASSUME TypeOK, NEW r \in Request, ClassifyTurn(r)
  PROVE  TypeOK'
<1>1. Moves(r)
  BY FailMoves, ProceedMoves DEF ClassifyTurn, PC, MysqlStep
<1>2. /\ pc' \in [Request -> PC]
      /\ reply' \in [Request -> Reply]
      /\ \A q \in Request : pc'[q] # "idle" => pc[q] # "idle"
  BY <1>1, MoveType DEF ClassifyTurn
<1>3. verdict' \in [Request -> Verdict]
  BY ClassifyType, CoordinatorAssumption DEF ClassifyTurn, TypeOK
<1>4. QED
  BY <1>2, <1>3 DEF ClassifyTurn, TypeOK, store

LEMMA EngineStartType ==
  ASSUME TypeOK, NEW r \in Request, EngineStart(r)
  PROVE  TypeOK'
<1>1. Moves(r)
  BY FailMoves, ProceedMoves DEF EngineStart, PC, Failure
<1>2. /\ pc' \in [Request -> PC]
      /\ reply' \in [Request -> Reply]
      /\ \A q \in Request : pc'[q] # "idle" => pc[q] # "idle"
  BY <1>1, MoveType DEF EngineStart
<1>3. busy' \in [Worker -> BOOLEAN]
  BY DEF EngineStart, TypeOK
<1>4. QED
  BY <1>2, <1>3 DEF EngineStart, TypeOK, store, locals

LEMMA EngineEndType ==
  ASSUME TypeOK, NEW r \in Request, EngineEnd(r)
  PROVE  TypeOK'
<1>1. Moves(r)
  BY FailMoves, ProceedMoves DEF EngineEnd, PC, MysqlStep, Failure
<1>2. /\ pc' \in [Request -> PC]
      /\ reply' \in [Request -> Reply]
      /\ \A q \in Request : pc'[q] # "idle" => pc[q] # "idle"
  BY <1>1, MoveType DEF EngineEnd
<1>3. busy' \in [Worker -> BOOLEAN]
  BY DEF EngineEnd, TypeOK
<1>4. QED
  BY <1>2, <1>3 DEF EngineEnd, TypeOK, store, locals

LEMMA NewBlobType ==
  ASSUME TypeOK, NEW r \in Request
  PROVE  NewBlob(r) \in Blob
<1>1. base[r].blob \in Seq(Request)
  BY DEF TypeOK, Base, Blob
<1>2. QED
  BY <1>1 DEF NewBlob, Blob

LEMMA SaveSnapshotType ==
  ASSUME TypeOK, NEW r \in Request, SaveSnapshot(r)
  PROVE  TypeOK'
<1>1. Moves(r)
  BY FailMoves, ProceedMoves DEF SaveSnapshot, PC, RedisStep, Failure
<1>2. /\ pc' \in [Request -> PC]
      /\ reply' \in [Request -> Reply]
      /\ \A q \in Request : pc'[q] # "idle" => pc[q] # "idle"
  BY <1>1, MoveType DEF SaveSnapshot
<1>3. snaps' \subseteq SnapRow
  <2>1. SessionOf(r) \in Session /\ ti[r] + 1 \in Nat
    BY DEF SaveSnapshot, TypeOK, SessionOf, Call
  <2>2. [session |-> SessionOf(r), at |-> ti[r] + 1, by |-> r, blob |-> NewBlob(r)]
          \in SnapRow
    BY <2>1, NewBlobType DEF SnapRow
  <2>3. QED
    BY <2>2 DEF SaveSnapshot, TypeOK
<1>4. QED
  BY <1>2, <1>3 DEF SaveSnapshot, TypeOK, locals

LEMMA SetDocType ==
  ASSUME TypeOK, NEW r \in Request, SetDoc(r)
  PROVE  TypeOK'
<1>1. AssistantRow(r).intent \in Intent \cup {"none"}
  BY RowTypes DEF SetDoc, TurnRow
<1>2. verdict[r].conf \in Confidence /\ Plan(r) \in Mode
  BY PlanRouteType DEF TypeOK, Verdict, Plan
<1>3. [status |-> "ok", turn |-> ti[r], by |-> r,
       intent |-> AssistantRow(r).intent, conf |-> verdict[r].conf,
       mode |-> Plan(r)] \in Reply
  BY <1>1, <1>2 DEF TypeOK, Reply, Answer
<1>4. Moves(r)
  BY <1>3, FailMoves DEF SetDoc, Moves, Failure
<1>5. /\ pc' \in [Request -> PC]
      /\ reply' \in [Request -> Reply]
      /\ \A q \in Request : pc'[q] # "idle" => pc[q] # "idle"
  BY <1>4, MoveType DEF SetDoc
<1>6. doc' \in [Session -> Blob \cup {NoDoc}]
  BY NewBlobType DEF SetDoc, TypeOK
<1>7. QED
  BY <1>5, <1>6 DEF SetDoc, TypeOK, store, locals

LEMMA ReleaseGetType ==
  ASSUME TypeOK, NEW r \in Request, ReleaseGet(r)
  PROVE  TypeOK'
<1>1. Moves(r)
  BY ProceedMoves DEF ReleaseGet, PC
<1>2. QED
  BY <1>1, QuietType DEF ReleaseGet

LEMMA ReleaseDeleteType ==
  ASSUME TypeOK, NEW r \in Request, ReleaseDelete(r)
  PROVE  TypeOK'
<1>1. [status |-> "error"] \in Reply
  BY FailureIsReply DEF Failure
<1>2. /\ pc' \in [Request -> PC]
      /\ reply' \in [Request -> Reply]
      /\ \A q \in Request : pc'[q] # "idle" => pc[q] # "idle"
  BY <1>1 DEF ReleaseDelete, Proceed, Goto, TypeOK, PC
<1>3. lock' \in [Session -> Request \cup {NoOne}]
  BY DEF ReleaseDelete, TypeOK
<1>4. QED
  BY <1>2, <1>3 DEF ReleaseDelete, TypeOK, store, locals

LEMMA RaiseType ==
  ASSUME TypeOK, NEW r \in Request, Raise(r)
  PROVE  TypeOK'
<1>1. Moves(r) /\ pc[r] # "idle"
  BY FailMoves DEF Raise, Failure, MysqlStep, RedisStep
<1>2. QED
  BY <1>1, QuietType DEF Raise

LEMMA ReleaseRaisesType ==
  ASSUME TypeOK, NEW r \in Request, ReleaseRaises(r)
  PROVE  TypeOK'
<1>1. [status |-> "error"] \in Reply
  BY FailureIsReply DEF Failure
<1>2. QED
  BY <1>1 DEF ReleaseRaises, Goto, TypeOK, PC, store, locals

\* The actions of the environment and of the two other handlers.
LEMMA OthersType ==
  ASSUME TypeOK,
         \/ \E s \in Session, p \in Principal : CreateSession(s, p)
         \/ \E r \in Request : Submit(r)
         \/ \E s \in Session : ExpireLock(s) \/ EvictDoc(s)
         \/ \E w \in Worker : Crash(w)
  PROVE  TypeOK'
<1>1. ASSUME NEW s \in Session, NEW p \in Principal, CreateSession(s, p)
      PROVE  TypeOK'
  BY <1>1 DEF CreateSession, TypeOK, locals, Blob
<1>2. ASSUME NEW r \in Request, Submit(r)
      PROVE  TypeOK'
  <2>1. /\ call' \in [Request -> Call \cup {Nothing}]
        /\ pc' \in [Request -> PC]
        /\ \A q \in Request : pc'[q] # "idle" => call'[q] \in Call
    BY <1>2 DEF Submit, Goto, TypeOK, PC
  <2>2. QED
    BY <1>2, <2>1 DEF Submit, TypeOK, store
<1>3. ASSUME NEW s \in Session, ExpireLock(s)
      PROVE  TypeOK'
  BY <1>3 DEF ExpireLock, TypeOK, store, locals
<1>4. ASSUME NEW s \in Session, EvictDoc(s)
      PROVE  TypeOK'
  BY <1>4 DEF EvictDoc, TypeOK, store, locals
<1>5. ASSUME NEW w \in Worker, Crash(w)
      PROVE  TypeOK'
  <2>1. /\ pc' \in [Request -> PC]
        /\ \A q \in Request : pc'[q] # "idle" => pc[q] # "idle"
    BY <1>5 DEF Crash, Running, Live, TypeOK, PC
  <2>2. busy' \in [Worker -> BOOLEAN]
    BY <1>5 DEF Crash, TypeOK
  <2>3. QED
    BY <1>5, <2>1, <2>2 DEF Crash, TypeOK, store, locals
<1>6. QED
  BY <1>1, <1>2, <1>3, <1>4, <1>5

LEMMA TypeStep ==
  ASSUME TypeOK, Dense, [Next]_vars
  PROVE  TypeOK'
<1>1. CASE UNCHANGED vars
  BY <1>1 DEF vars, store, locals, TypeOK
<1>2. ASSUME NEW r \in Request, Step(r) \/ Raise(r) \/ ReleaseRaises(r)
      PROVE  TypeOK'
  BY <1>2, PingType, CheckOwnerType, AcquireType, LockTimeoutType, FindPriorType,
     GetReplayType, ReadSnapshotType, ReadDocType, ReloadDocType, ReadIndexType,
     AppendUserType, ClassifyTurnType, EngineStartType, EngineEndType,
     AppendAssistantType, SaveSnapshotType, SetDocType, ReleaseGetType,
     ReleaseDeleteType, RaiseType, ReleaseRaisesType
  DEF Step
<1>3. QED
  BY <1>1, <1>2, OthersType DEF Next

----------------------------------------------------------------------------
(* The conversation log, under every fault.                                *)
(*                                                                         *)
(* LogInv is inductive: it ties the rows of a call to where the call       *)
(* stands, so that an INSERT that passes the unique indexes can only be    *)
(* the next row of the session.                                            *)

BeforeAsk == {"idle", "ping", "owner", "acquire", "find", "replay", "snapshot",
              "doc", "reload", "index", "append_user"}
AskedStep == {"classify", "engine", "graph", "append_assistant"}
AnsweredStep == {"save", "set_doc"}
QuitStep == {"release", "delete", "done", "dead"}

UniqueIndex ==
  \A t, u \in turns : t.session = u.session /\ t.index = u.index => t = u

UniqueKey ==
  \A t, u \in turns :
    t.session = u.session /\ t.key = u.key /\ t.key # NoKey => t = u

RowOfCall ==
  \A t \in turns :
    /\ t.session = SessionOf(t.by)
    /\ t.role = "user" => t.key = call[t.by].key /\ t.body = call[t.by].body
    /\ t.role = "assistant" => t.key = NoKey

RowOfPhase ==
  \A t \in turns :
    /\ pc[t.by] \notin BeforeAsk
    /\ pc[t.by] \in AskedStep => t.role = "user"

OneRowPerRole ==
  \A t, u \in turns : t.by = u.by /\ t.role = u.role => t = u

OwnRows ==
  \A r \in Request :
    /\ pc[r] \in AskedStep \cup AnsweredStep => IsRow(SessionOf(r), ti[r], "user", r)
    /\ pc[r] \in AnsweredStep => IsRow(SessionOf(r), ti[r] + 1, "assistant", r)

NoGapBelow ==
  \A r \in Request : pc[r] = "append_user" =>
    \A i \in 0 .. ti[r] - 1 : i \in Indexes(SessionOf(r))

LogInv ==
  /\ UniqueIndex
  /\ UniqueKey
  /\ RowOfCall
  /\ RowOfPhase
  /\ OneRowPerRole
  /\ OwnRows
  /\ NoGapBelow
  /\ Dense
  /\ AnswerFollowsQuestion

\* How a call may move in a step that inserts no row.
Drifts(r) ==
  /\ call'[r] = call[r] \/ pc[r] = "idle"
  /\ \/ pc'[r] = pc[r] /\ ti'[r] = ti[r]
     \/ pc[r] \in BeforeAsk /\ pc'[r] \in (BeforeAsk \ {"append_user"}) \cup QuitStep
     \/ /\ pc[r] = "index" /\ pc'[r] = "append_user"
        /\ ti'[r] = NextTurnIndex(SessionOf(r))
     \/ pc[r] \in AskedStep /\ pc'[r] \in AskedStep \cup QuitStep /\ ti'[r] = ti[r]
     \/ pc[r] \in AnsweredStep /\ pc'[r] \in AnsweredStep \cup QuitStep /\ ti'[r] = ti[r]
     \/ pc[r] \in QuitStep /\ pc'[r] \in QuitStep

LEMMA LogDrift ==
  ASSUME TypeOK, LogInv, UNCHANGED turns, \A r \in Request : Drifts(r)
  PROVE  LogInv'
<1> USE DEF BeforeAsk, AskedStep, AnsweredStep, QuitStep
<1>1. UniqueIndex' /\ UniqueKey' /\ OneRowPerRole'
  BY DEF LogInv, UniqueIndex, UniqueKey, OneRowPerRole
<1>2. \A t \in turns : t.by \in Request
  BY DEF TypeOK, TurnRow
<1>3. \A t \in turns : pc[t.by] # "idle" /\ call'[t.by] = call[t.by]
  BY <1>2 DEF LogInv, RowOfPhase, Drifts
<1>4. RowOfCall'
  BY <1>3 DEF LogInv, RowOfCall, SessionOf
<1>5. RowOfPhase'
  BY <1>2 DEF LogInv, RowOfPhase, Drifts
<1>6. OwnRows'
  <2> SUFFICES ASSUME NEW r \in Request
               PROVE  /\ pc'[r] \in AskedStep \cup AnsweredStep =>
                           IsRow(SessionOf(r), ti[r], "user", r)'
                      /\ pc'[r] \in AnsweredStep =>
                           IsRow(SessionOf(r), ti[r] + 1, "assistant", r)'
    BY DEF OwnRows
  <2>1. CASE pc'[r] \notin AskedStep \cup AnsweredStep
    BY <2>1
  <2>2. CASE pc'[r] \in AskedStep \cup AnsweredStep
    <3>1. /\ pc[r] \in AskedStep \cup AnsweredStep
          /\ pc'[r] \in AnsweredStep => pc[r] \in AnsweredStep
          /\ ti'[r] = ti[r] /\ call'[r] = call[r]
      BY <2>2 DEF Drifts
    <3>2. QED
      BY <3>1 DEF LogInv, OwnRows, IsRow, SessionOf
  <2>3. QED
    BY <2>1, <2>2
<1>7. \A s : Indexes(s)' = Indexes(s)
  BY DEF Indexes
<1>8. Dense'
  BY <1>7 DEF LogInv, Dense
<1>9. NoGapBelow'
  <2> SUFFICES ASSUME NEW r \in Request, pc'[r] = "append_user",
                      NEW i \in 0 .. ti'[r] - 1
               PROVE  i \in Indexes(SessionOf(r))'
    BY DEF NoGapBelow
  <2>1. call'[r] = call[r] /\ pc[r] # "idle"
    BY DEF Drifts
  <2>2. SessionOf(r)' = SessionOf(r) /\ SessionOf(r) \in Session
    BY <2>1 DEF SessionOf, TypeOK, Call
  <2>3. CASE pc[r] = "append_user"
    BY <2>2, <2>3, <1>7 DEF LogInv, NoGapBelow, Drifts
  <2>4. CASE pc[r] # "append_user"
    <3>1. ti'[r] = NextTurnIndex(SessionOf(r))
      BY <2>4 DEF Drifts
    <3>2. PICK n \in Nat : Indexes(SessionOf(r)) = 0 .. n - 1
      BY <2>2 DEF LogInv, Dense
    <3>3. ti'[r] = n
      BY <2>2, <3>1, <3>2, NextIndexOfDense
    <3>4. QED
      BY <2>2, <3>2, <3>3, <1>7
  <2>5. QED
    BY <2>3, <2>4
<1>10. AnswerFollowsQuestion'
  BY DEF LogInv, AnswerFollowsQuestion, IsRow
<1>11. QED
  BY <1>1, <1>4, <1>5, <1>6, <1>8, <1>9, <1>10 DEF LogInv

\* A row that extends a dense log by one keeps it dense.
LEMMA AppendDense ==
  ASSUME TypeOK, Dense, NEW row \in TurnRow, turns' = turns \cup {row},
         row.index \notin Indexes(row.session),
         \A i \in 0 .. row.index - 1 : i \in Indexes(row.session)
  PROVE  /\ Dense'
         /\ \A s : Indexes(s) \subseteq Indexes(s)'
<1>1. \A s : s # row.session => Indexes(s)' = Indexes(s)
  BY DEF Indexes
<1>2. Indexes(row.session)' = Indexes(row.session) \cup {row.index}
  BY DEF Indexes
<1>3. row.index \in Nat /\ row.session \in Session
  BY DEF TurnRow
<1>4. PICK n \in Nat : Indexes(row.session) = 0 .. n - 1
  BY <1>3 DEF Dense
<1>5. row.index = n
  BY <1>3, <1>4
<1>6. Indexes(row.session)' = 0 .. (n + 1) - 1 /\ n + 1 \in Nat
  BY <1>2, <1>4, <1>5
<1>7. Dense'
  BY <1>1, <1>6 DEF Dense
<1>8. QED
  BY <1>1, <1>2, <1>7

\* The parts of LogInv that depend on the inserted row only through its columns.
LEMMA LogInsert ==
  ASSUME TypeOK, LogInv, NEW r \in Request, NEW row \in TurnRow,
         row.by = r, row.session = SessionOf(r),
         ~ Clashes(row), turns' = turns \cup {row},
         UNCHANGED <<call, ti>>,
         \A q \in Request \ {r} : pc'[q] = pc[q],
         pc'[r] # "append_user",
         \A i \in 0 .. row.index - 1 : i \in Indexes(row.session)
  PROVE  UniqueIndex' /\ UniqueKey' /\ Dense' /\ NoGapBelow'
<1>1. UniqueIndex' /\ UniqueKey'
  BY DEF LogInv, UniqueIndex, UniqueKey, Clashes
<1>2. row.index \notin Indexes(row.session)
  BY DEF Clashes, Indexes
<1>3. Dense' /\ \A s : Indexes(s) \subseteq Indexes(s)'
  BY <1>2, AppendDense DEF LogInv
<1>4. NoGapBelow'
  <2> SUFFICES ASSUME NEW q \in Request, pc'[q] = "append_user",
                      NEW i \in 0 .. ti'[q] - 1
               PROVE  i \in Indexes(SessionOf(q))'
    BY DEF NoGapBelow
  <2>1. q # r /\ pc[q] = "append_user" /\ ti'[q] = ti[q]
    OBVIOUS
  <2>2. i \in Indexes(SessionOf(q))
    BY <2>1 DEF LogInv, NoGapBelow
  <2>3. Indexes(SessionOf(q))' = {t.index : t \in {u \in turns' : u.session = SessionOf(q)}}
    BY DEF Indexes, SessionOf
  <2>4. QED
    BY <2>2, <2>3 DEF Indexes
<1>5. QED
  BY <1>1, <1>3, <1>4

LEMMA UserRowLog ==
  ASSUME TypeOK, LogInv, NEW r \in Request, pc[r] = "append_user",
         ~ Clashes(UserRow(r)), turns' = turns \cup {UserRow(r)},
         UNCHANGED <<call, ti>>,
         \A q \in Request \ {r} : pc'[q] = pc[q],
         pc'[r] \in {"classify", "release"}
  PROVE  LogInv'
<1> DEFINE row == UserRow(r)
<1>1. /\ row \in TurnRow /\ row.by = r /\ row.session = SessionOf(r)
      /\ row.index = ti[r] /\ row.role = "user"
      /\ row.key = call[r].key /\ row.body = call[r].body
  BY RowTypes DEF UserRow
<1>2. \A i \in 0 .. row.index - 1 : i \in Indexes(row.session)
  BY <1>1 DEF LogInv, NoGapBelow
<1>3. \A t \in turns : t.by \in Request \ {r}
  BY DEF TypeOK, TurnRow, LogInv, RowOfPhase, BeforeAsk
<1> HIDE DEF row
<1>4. turns' = turns \cup {row} /\ ~ Clashes(row)
  BY DEF row
<1>5. UniqueIndex' /\ UniqueKey' /\ Dense' /\ NoGapBelow'
  BY <1>1, <1>2, <1>4, LogInsert
<1>6. RowOfCall'
  BY <1>1, <1>4 DEF LogInv, RowOfCall, SessionOf
<1>7. RowOfPhase'
  BY <1>1, <1>3, <1>4 DEF LogInv, RowOfPhase, BeforeAsk, AskedStep
<1>8. OneRowPerRole'
  BY <1>1, <1>3, <1>4 DEF LogInv, OneRowPerRole
<1>9. OwnRows'
  <2> SUFFICES ASSUME NEW q \in Request
               PROVE  /\ pc'[q] \in AskedStep \cup AnsweredStep =>
                           IsRow(SessionOf(q), ti[q], "user", q)'
                      /\ pc'[q] \in AnsweredStep =>
                           IsRow(SessionOf(q), ti[q] + 1, "assistant", q)'
    BY DEF OwnRows
  <2>1. CASE q = r
    BY <2>1, <1>1, <1>4 DEF IsRow, SessionOf, AnsweredStep
  <2>2. CASE q # r
    BY <2>2, <1>4 DEF LogInv, OwnRows, IsRow, SessionOf
  <2>3. QED
    BY <2>1, <2>2
<1>10. AnswerFollowsQuestion'
  BY <1>1, <1>4 DEF LogInv, AnswerFollowsQuestion, IsRow
<1>11. QED
  BY <1>5, <1>6, <1>7, <1>8, <1>9, <1>10 DEF LogInv

LEMMA AssistantRowLog ==
  ASSUME TypeOK, LogInv, NEW r \in Request, pc[r] = "append_assistant",
         ~ Clashes(AssistantRow(r)), turns' = turns \cup {AssistantRow(r)},
         UNCHANGED <<call, ti>>,
         \A q \in Request \ {r} : pc'[q] = pc[q],
         pc'[r] \in {"save", "set_doc", "release"}
  PROVE  LogInv'
<1> DEFINE row == AssistantRow(r)
<1>1. /\ row \in TurnRow /\ row.by = r /\ row.session = SessionOf(r)
      /\ row.index = ti[r] + 1 /\ row.role = "assistant" /\ row.key = NoKey
  BY RowTypes DEF AssistantRow
<1>2. ti[r] \in Nat
  BY DEF TypeOK
<1>3. PICK t \in turns : /\ t.session = SessionOf(r) /\ t.index = ti[r]
                         /\ t.role = "user" /\ t.by = r
  BY DEF LogInv, OwnRows, IsRow, AskedStep
<1>4. \A i \in 0 .. row.index - 1 : i \in Indexes(row.session)
  <2>1. ti[r] \in Indexes(SessionOf(r)) /\ SessionOf(r) \in Session
    BY <1>3 DEF Indexes, TypeOK, TurnRow
  <2>2. PICK n \in Nat : Indexes(SessionOf(r)) = 0 .. n - 1
    BY <2>1 DEF LogInv, Dense
  <2>3. QED
    BY <1>1, <1>2, <2>1, <2>2
<1>5. \A u \in turns : u.by \in Request /\ (u.by = r => u.role = "user")
  BY DEF TypeOK, TurnRow, LogInv, RowOfPhase, AskedStep
<1> HIDE DEF row
<1>6. turns' = turns \cup {row} /\ ~ Clashes(row)
  BY DEF row
<1>7. UniqueIndex' /\ UniqueKey' /\ Dense' /\ NoGapBelow'
  BY <1>1, <1>4, <1>6, LogInsert
<1>8. RowOfCall'
  BY <1>1, <1>6 DEF LogInv, RowOfCall, SessionOf
<1>9. RowOfPhase'
  BY <1>1, <1>5, <1>6 DEF LogInv, RowOfPhase, BeforeAsk, AskedStep
<1>10. OneRowPerRole'
  BY <1>1, <1>5, <1>6 DEF LogInv, OneRowPerRole
<1>11. OwnRows'
  <2> SUFFICES ASSUME NEW q \in Request
               PROVE  /\ pc'[q] \in AskedStep \cup AnsweredStep =>
                           IsRow(SessionOf(q), ti[q], "user", q)'
                      /\ pc'[q] \in AnsweredStep =>
                           IsRow(SessionOf(q), ti[q] + 1, "assistant", q)'
    BY DEF OwnRows
  <2>1. CASE q = r
    BY <2>1, <1>1, <1>3, <1>6 DEF IsRow, SessionOf
  <2>2. CASE q # r
    BY <2>2, <1>6 DEF LogInv, OwnRows, IsRow, SessionOf
  <2>3. QED
    BY <2>1, <2>2
<1>12. AnswerFollowsQuestion'
  BY <1>1, <1>2, <1>3, <1>6 DEF LogInv, AnswerFollowsQuestion, IsRow
<1>13. QED
  BY <1>7, <1>8, <1>9, <1>10, <1>11, <1>12 DEF LogInv

\* Leaving the turn, normally or by an exception, drifts.
LEMMA LeaveDrifts ==
  ASSUME TypeOK, NEW r \in Request, NEW a, Leave(r, a), UNCHANGED <<call, ti>>,
         pc[r] # "idle"
  PROVE  \A q \in Request : Drifts(q)
<1>1. \A q \in Request \ {r} : pc'[q] = pc[q]
  BY DEF Leave, Goto, TypeOK
<1>2. pc'[r] \in {"release", "done"} /\ pc[r] \in PC
  BY DEF Leave, Goto, TypeOK
<1>3. pc[r] \in BeforeAsk \cup AskedStep \cup AnsweredStep \cup QuitStep
  BY <1>2 DEF PC, MysqlStep, RedisStep, BeforeAsk, AskedStep, AnsweredStep, QuitStep
<1>4. Drifts(r)
  BY <1>2, <1>3 DEF Drifts, BeforeAsk, QuitStep
<1>5. QED
  BY <1>1, <1>4 DEF Drifts

\* So does going to another step of the same phase.
LEMMA ProceedDrifts ==
  ASSUME TypeOK, NEW r \in Request, NEW step, Proceed(r, step), UNCHANGED <<call, ti>>,
         \/ pc[r] \in BeforeAsk /\ step \in BeforeAsk \ {"append_user"}
         \/ pc[r] \in AskedStep /\ step \in AskedStep
         \/ pc[r] \in AnsweredStep /\ step \in AnsweredStep
         \/ pc[r] \in QuitStep /\ step \in QuitStep
  PROVE  \A q \in Request : Drifts(q)
<1>1. \A q \in Request \ {r} : pc'[q] = pc[q]
  BY DEF Proceed, Goto, TypeOK
<1>2. pc'[r] = step
  BY DEF Proceed, Goto, TypeOK
<1>3. QED
  BY <1>1, <1>2 DEF Drifts

LEMMA AppendTurnLog ==
  ASSUME TypeOK, LogInv, NEW r \in Request, UNCHANGED <<call, ti>>,
         \/ /\ pc[r] = "append_user"
            /\ AppendTurn(r, UserRow(r), "classify")
         \/ /\ pc[r] = "append_assistant"
            /\ \E next \in AnsweredStep : AppendTurn(r, AssistantRow(r), next)
  PROVE  LogInv'
<1>1. CASE UNCHANGED turns /\ \E a : Leave(r, a)
  <2>1. pc[r] # "idle"
    OBVIOUS
  <2>2. QED
    BY <1>1, <2>1, LeaveDrifts, LogDrift
<1>2. CASE /\ pc[r] = "append_user"
           /\ ~ Clashes(UserRow(r)) /\ turns' = turns \cup {UserRow(r)}
           /\ Proceed(r, "classify") \/ Fail(r, "error")
  <2>1. /\ \A q \in Request \ {r} : pc'[q] = pc[q]
        /\ pc'[r] \in {"classify", "release"}
    BY <1>2 DEF Proceed, Fail, Leave, Goto, TypeOK, Holding, PC, MysqlStep
  <2>2. QED
    BY <1>2, <2>1, UserRowLog
<1>3. CASE /\ pc[r] = "append_assistant"
           /\ ~ Clashes(AssistantRow(r)) /\ turns' = turns \cup {AssistantRow(r)}
           /\ (\E next \in AnsweredStep : Proceed(r, next)) \/ Fail(r, "error")
  <2>1. /\ \A q \in Request \ {r} : pc'[q] = pc[q]
        /\ pc'[r] \in {"save", "set_doc", "release"}
    BY <1>3 DEF Proceed, Fail, Leave, Goto, TypeOK, Holding, PC, MysqlStep, AnsweredStep
  <2>2. QED
    BY <1>3, <2>1, AssistantRowLog
<1>4. QED
  BY <1>1, <1>2, <1>3 DEF AppendTurn, Fail

LEMMA LogInit == Init => LogInv
<1> SUFFICES ASSUME Init PROVE LogInv
  OBVIOUS
<1>1. turns = {} /\ \A r \in Request : pc[r] = "idle"
  BY DEF Init
<1>2. Dense
  <2>1. \A s : Indexes(s) = 0 .. 0 - 1
    BY <1>1 DEF Indexes
  <2>2. QED
    BY <2>1 DEF Dense
<1>3. OwnRows /\ NoGapBelow
  BY <1>1 DEF OwnRows, NoGapBelow, AskedStep, AnsweredStep
<1>4. QED
  BY <1>1, <1>2, <1>3
  DEF LogInv, UniqueIndex, UniqueKey, RowOfCall, RowOfPhase, OneRowPerRole,
      AnswerFollowsQuestion

\* One call's own step.
LEMMA LogOwnStep ==
  ASSUME TypeOK, LogInv, NEW r \in Request, Step(r) \/ Raise(r) \/ ReleaseRaises(r)
  PROVE  LogInv'
<1> USE DEF store, locals
<1>1. CASE Ping(r)
  <2>1. \A q \in Request : Drifts(q)
    BY <1>1, ProceedDrifts, LeaveDrifts DEF Ping, Fail, BeforeAsk
  <2>2. QED
    BY <1>1, <2>1, LogDrift DEF Ping
<1>2. CASE CheckOwner(r)
  <2>1. \A q \in Request : Drifts(q)
    BY <1>2, ProceedDrifts, LeaveDrifts DEF CheckOwner, Fail, BeforeAsk
  <2>2. QED
    BY <1>2, <2>1, LogDrift DEF CheckOwner
<1>3. CASE Acquire(r)
  <2>1. \A q \in Request : Drifts(q)
    BY <1>3, ProceedDrifts, LeaveDrifts DEF Acquire, Fail, BeforeAsk
  <2>2. QED
    BY <1>3, <2>1, LogDrift DEF Acquire
<1>4. CASE LockTimeout(r)
  <2>1. \A q \in Request : Drifts(q)
    BY <1>4, LeaveDrifts DEF LockTimeout, Fail
  <2>2. QED
    BY <1>4, <2>1, LogDrift DEF LockTimeout
<1>5. CASE FindPrior(r)
  <2>1. \A q \in Request : Drifts(q)
    BY <1>5, ProceedDrifts, LeaveDrifts DEF FindPrior, Fail, BeforeAsk
  <2>2. QED
    BY <1>5, <2>1, LogDrift DEF FindPrior
<1>6. CASE GetReplay(r)
  <2>1. \A q \in Request : Drifts(q)
    BY <1>6, ProceedDrifts, LeaveDrifts DEF GetReplay, BeforeAsk
  <2>2. QED
    BY <1>6, <2>1, LogDrift DEF GetReplay
<1>7. CASE ReadSnapshot(r)
  <2>1. \A q \in Request : Drifts(q)
    BY <1>7, ProceedDrifts DEF ReadSnapshot, BeforeAsk
  <2>2. QED
    BY <1>7, <2>1, LogDrift DEF ReadSnapshot
<1>8. CASE ReadDoc(r)
  <2>1. \A q \in Request : Drifts(q)
    BY <1>8, ProceedDrifts DEF ReadDoc, BeforeAsk
  <2>2. QED
    BY <1>8, <2>1, LogDrift DEF ReadDoc
<1>9. CASE ReloadDoc(r)
  <2>1. \A q \in Request : Drifts(q)
    BY <1>9, ProceedDrifts, LeaveDrifts DEF ReloadDoc, Fail, BeforeAsk
  <2>2. QED
    BY <1>9, <2>1, LogDrift DEF ReloadDoc
<1>10. CASE ReadIndex(r)
  <2>1. /\ pc'[r] = "append_user" /\ ti'[r] = NextTurnIndex(SessionOf(r))
        /\ \A q \in Request \ {r} : pc'[q] = pc[q] /\ ti'[q] = ti[q]
    BY <1>10 DEF ReadIndex, Proceed, Goto, TypeOK
  <2>2. \A q \in Request : Drifts(q)
    BY <1>10, <2>1 DEF ReadIndex, Drifts
  <2>3. QED
    BY <1>10, <2>2, LogDrift DEF ReadIndex
<1>11. CASE AppendUser(r)
  BY <1>11, AppendTurnLog DEF AppendUser
<1>12. CASE ClassifyTurn(r)
  <2>1. \A q \in Request : Drifts(q)
    BY <1>12, ProceedDrifts DEF ClassifyTurn, AskedStep
  <2>2. QED
    BY <1>12, <2>1, LogDrift DEF ClassifyTurn
<1>13. CASE EngineStart(r)
  <2>1. \A q \in Request : Drifts(q)
    BY <1>13, ProceedDrifts, LeaveDrifts DEF EngineStart, Fail, AskedStep
  <2>2. QED
    BY <1>13, <2>1, LogDrift DEF EngineStart
<1>14. CASE EngineEnd(r)
  <2>1. \A q \in Request : Drifts(q)
    BY <1>14, ProceedDrifts, LeaveDrifts DEF EngineEnd, Fail, AskedStep
  <2>2. QED
    BY <1>14, <2>1, LogDrift DEF EngineEnd
<1>15. CASE AppendAssistant(r)
  <2>1. (IF Plan(r) = "clarify_only" THEN "set_doc" ELSE "save") \in AnsweredStep
    BY DEF AnsweredStep
  <2>2. QED
    BY <1>15, <2>1, AppendTurnLog DEF AppendAssistant
<1>16. CASE SaveSnapshot(r)
  <2>1. \A q \in Request : Drifts(q)
    BY <1>16, ProceedDrifts, LeaveDrifts DEF SaveSnapshot, Fail, AnsweredStep
  <2>2. QED
    BY <1>16, <2>1, LogDrift DEF SaveSnapshot
<1>17. CASE SetDoc(r)
  <2>1. \A q \in Request : Drifts(q)
    BY <1>17, LeaveDrifts DEF SetDoc, Fail
  <2>2. QED
    BY <1>17, <2>1, LogDrift DEF SetDoc
<1>18. CASE ReleaseGet(r)
  <2>1. \A q \in Request : Drifts(q)
    BY <1>18, ProceedDrifts DEF ReleaseGet, QuitStep
  <2>2. QED
    BY <1>18, <2>1, LogDrift DEF ReleaseGet
<1>19. CASE ReleaseDelete(r)
  <2>1. \A q \in Request : Drifts(q)
    BY <1>19 DEF ReleaseDelete, Proceed, Goto, TypeOK, Drifts, QuitStep
  <2>2. QED
    BY <1>19, <2>1, LogDrift DEF ReleaseDelete
<1>20. CASE Raise(r)
  <2>1. pc[r] # "idle"
    BY <1>20 DEF Raise, MysqlStep, RedisStep
  <2>2. \A q \in Request : Drifts(q)
    BY <1>20, <2>1, LeaveDrifts DEF Raise, Fail
  <2>3. QED
    BY <1>20, <2>2, LogDrift DEF Raise
<1>21. CASE ReleaseRaises(r)
  <2>1. /\ pc'[r] = "done" /\ pc[r] \in QuitStep
        /\ \A q \in Request \ {r} : pc'[q] = pc[q]
    BY <1>21 DEF ReleaseRaises, Goto, TypeOK, QuitStep
  <2>2. \A q \in Request : Drifts(q)
    BY <1>21, <2>1 DEF ReleaseRaises, Drifts, QuitStep
  <2>3. QED
    BY <1>21, <2>2, LogDrift DEF ReleaseRaises
<1>22. QED
  BY <1>1, <1>2, <1>3, <1>4, <1>5, <1>6, <1>7, <1>8, <1>9, <1>10, <1>11, <1>12,
     <1>13, <1>14, <1>15, <1>16, <1>17, <1>18, <1>19, <1>20, <1>21 DEF Step

LEMMA LogStep ==
  ASSUME TypeOK, LogInv, [Next]_vars
  PROVE  LogInv'
<1> USE DEF store, locals
<1>1. CASE UNCHANGED vars
  <2>1. \A q \in Request : Drifts(q)
    BY <1>1 DEF vars, Drifts
  <2>2. QED
    BY <1>1, <2>1, LogDrift DEF vars
<1>2. ASSUME NEW s \in Session, NEW p \in Principal, CreateSession(s, p)
      PROVE  LogInv'
  <2>1. \A q \in Request : Drifts(q)
    BY <1>2 DEF CreateSession, Drifts
  <2>2. QED
    BY <1>2, <2>1, LogDrift DEF CreateSession
<1>3. ASSUME NEW r \in Request, Submit(r)
      PROVE  LogInv'
  <2>1. /\ pc[r] = "idle" /\ pc'[r] = "ping"
        /\ \A q \in Request \ {r} : pc'[q] = pc[q] /\ call'[q] = call[q]
    BY <1>3 DEF Submit, Goto, TypeOK
  <2>2. \A q \in Request : Drifts(q)
    BY <1>3, <2>1 DEF Submit, Drifts, BeforeAsk
  <2>3. QED
    BY <1>3, <2>2, LogDrift DEF Submit
<1>4. ASSUME NEW s \in Session, ExpireLock(s) \/ EvictDoc(s)
      PROVE  LogInv'
  <2>1. \A q \in Request : Drifts(q)
    BY <1>4 DEF ExpireLock, EvictDoc, Drifts
  <2>2. QED
    BY <1>4, <2>1, LogDrift DEF ExpireLock, EvictDoc
<1>5. ASSUME NEW w \in Worker, Crash(w)
      PROVE  LogInv'
  <2>1. \A q \in Request :
          pc'[q] = pc[q] \/ (pc'[q] = "dead" /\ pc[q] \in PC \ {"idle"})
    BY <1>5 DEF Crash, Running, Live, TypeOK
  <2>2. PC \ {"idle"} \subseteq BeforeAsk \cup AskedStep \cup AnsweredStep \cup QuitStep
    BY DEF PC, MysqlStep, RedisStep, BeforeAsk, AskedStep, AnsweredStep, QuitStep
  <2>3. call' = call /\ ti' = ti /\ "dead" \in QuitStep /\ "dead" # "append_user"
    BY <1>5 DEF Crash, QuitStep
  <2>4. \A q \in Request : Drifts(q)
    <3> SUFFICES ASSUME NEW q \in Request PROVE Drifts(q)
      OBVIOUS
    <3>1. CASE pc'[q] = pc[q]
      BY <3>1, <2>3 DEF Drifts
    <3>2. CASE pc'[q] = "dead" /\ pc[q] \in PC \ {"idle"}
      BY <3>2, <2>2, <2>3 DEF Drifts
    <3>3. QED
      BY <2>1, <3>1, <3>2
  <2>5. QED
    BY <1>5, <2>4, LogDrift DEF Crash
<1>6. QED
  BY <1>1, <1>2, <1>3, <1>4, <1>5, LogOwnStep DEF Next

THEOREM LogInvariant == Spec => [](TypeOK /\ LogInv)
<1>1. Init => TypeOK /\ LogInv
  BY TypeInit, LogInit
<1>2. TypeOK /\ LogInv /\ [Next]_vars => (TypeOK /\ LogInv)'
  BY TypeStep, LogStep DEF LogInv
<1>3. QED
  BY <1>1, <1>2, PTL DEF Spec

\* Every variable keeps its type, whatever the environment does: in particular
\* max(turn_index) always exists, so next_turn_index is a turn index.
THEOREM TypeCorrect == Spec => []TypeOK
BY LogInvariant, PTL

\* The transcript of every session is 0, 1, ..., n without a gap or a doubled
\* index: next_turn_index and append_turn race, the unique index decides.
THEOREM LogContiguousAlways == Spec => []LogContiguous
<1>1. TypeOK /\ LogInv => LogContiguous
  <2> SUFFICES ASSUME TypeOK, LogInv PROVE LogContiguous
    OBVIOUS
  <2>1. ASSUME NEW t \in turns, NEW i \in 0 .. t.index
        PROVE  i \in Indexes(t.session)
    <3>1. t.session \in Session /\ t.index \in Nat /\ t.index \in Indexes(t.session)
      BY DEF TypeOK, TurnRow, Indexes
    <3>2. PICK n \in Nat : Indexes(t.session) = 0 .. n - 1
      BY <3>1 DEF LogInv, Dense
    <3>3. QED
      BY <3>1, <3>2
  <2>2. QED
    BY <2>1 DEF LogContiguous, LogInv, UniqueIndex
<1>2. QED
  BY <1>1, LogInvariant, PTL

\* The assistant row behind a user row was written by the same call, so the
\* row get_turn(prior.turn_index + 1) finds is the answer to that question.
THEOREM AnswerFollowsQuestionAlways == Spec => []AnswerFollowsQuestion
<1>1. LogInv => AnswerFollowsQuestion
  BY DEF LogInv
<1>2. QED
  BY <1>1, LogInvariant, PTL

----------------------------------------------------------------------------
(* Replies and snapshots have their rows in the log.                       *)

LateStep == {"set_doc"} \cup QuitStep

KeyKnown == \A r \in Request : pc[r] \in {"find", "replay"} => call[r].key # NoKey

PriorIsRow ==
  \A r \in Request : pc[r] = "replay" =>
    \E t \in turns :
      /\ t.session = SessionOf(r) /\ t.index = prior[r] /\ t.role = "user"
      /\ SameCall(r, t.by)

Evidence(r) ==
  /\ pc[r] # "idle"
  /\ reply[r].by \in Request
  /\ reply[r].by = r \/ SameCall(r, reply[r].by)
  /\ IsRow(SessionOf(r), reply[r].turn, "user", reply[r].by)
  /\ IsRow(SessionOf(r), reply[r].turn + 1, "assistant", reply[r].by)

OkHasEvidence == \A r \in Request : reply[r].status = "ok" => Evidence(r)

SnapsHaveAnswers == \A w \in snaps : IsRow(w.session, w.at, "assistant", w.by)

SnapsOfPhase == \A w \in snaps : pc[w.by] \in LateStep

OneSnapPerCall == \A v, w \in snaps : v.by = w.by => v = w

EvidenceInv ==
  /\ KeyKnown
  /\ PriorIsRow
  /\ OkHasEvidence
  /\ SnapsHaveAnswers
  /\ SnapsOfPhase
  /\ OneSnapPerCall

\* A step after which call r is at no new obligation.
Inert(r) ==
  /\ call'[r] = call[r] \/ pc[r] = "idle"
  /\ pc[r] # "idle" => pc'[r] # "idle"
  /\ reply'[r] = reply[r] \/ reply'[r].status # "ok"
  /\ pc'[r] \notin {"find", "replay"} \/ (pc'[r] = pc[r] /\ prior'[r] = prior[r])
  /\ pc[r] \in LateStep => pc'[r] \in LateStep

LEMMA RowsAreOfStartedCalls ==
  ASSUME TypeOK, LogInv, NEW t \in turns
  PROVE  t.by \in Request /\ pc[t.by] # "idle"
BY DEF TypeOK, TurnRow, LogInv, RowOfPhase, BeforeAsk

\* Evidence about one call survives any step that keeps rows and calls.
LEMMA EvidenceKept ==
  ASSUME TypeOK, LogInv, turns \subseteq turns', NEW r \in Request, Evidence(r),
         reply'[r] = reply[r], pc'[r] # "idle",
         \A q \in Request : call'[q] = call[q] \/ pc[q] = "idle"
  PROVE  Evidence(r)'
<1>1. PICK t \in turns : t.session = SessionOf(r) /\ t.index = reply[r].turn
                         /\ t.role = "user" /\ t.by = reply[r].by
  BY DEF Evidence, IsRow
<1>2. call'[r] = call[r] /\ call'[reply[r].by] = call[reply[r].by]
  BY <1>1, RowsAreOfStartedCalls DEF Evidence
<1>3. QED
  BY <1>2 DEF Evidence, IsRow, SameCall, SessionOf

LEMMA EvidenceInert ==
  ASSUME TypeOK, LogInv, EvidenceInv, turns \subseteq turns', UNCHANGED snaps,
         \A r \in Request : Inert(r)
  PROVE  EvidenceInv'
<1>1. KeyKnown'
  BY DEF EvidenceInv, KeyKnown, Inert
<1>2. PriorIsRow'
  <2> SUFFICES ASSUME NEW r \in Request, pc'[r] = "replay"
               PROVE  \E t \in turns' :
                        /\ t.session = SessionOf(r)' /\ t.index = prior'[r]
                        /\ t.role = "user" /\ SameCall(r, t.by)'
    BY DEF PriorIsRow
  <2>1. pc[r] = "replay" /\ prior'[r] = prior[r] /\ call'[r] = call[r]
    BY DEF Inert
  <2>2. PICK t \in turns :
          /\ t.session = SessionOf(r) /\ t.index = prior[r] /\ t.role = "user"
          /\ SameCall(r, t.by)
    BY <2>1 DEF EvidenceInv, PriorIsRow
  <2>3. call'[t.by] = call[t.by]
    BY RowsAreOfStartedCalls DEF Inert
  <2>4. QED
    BY <2>1, <2>2, <2>3 DEF SameCall, SessionOf
<1>3. OkHasEvidence'
  <2> SUFFICES ASSUME NEW r \in Request, reply'[r].status = "ok"
               PROVE  Evidence(r)'
    BY DEF OkHasEvidence
  <2>1. reply'[r] = reply[r] /\ Evidence(r)
    BY DEF Inert, EvidenceInv, OkHasEvidence
  <2>2. QED
    BY <2>1, EvidenceKept DEF Inert, Evidence
<1>4. SnapsHaveAnswers' /\ OneSnapPerCall'
  BY DEF EvidenceInv, SnapsHaveAnswers, OneSnapPerCall, IsRow
<1>5. SnapsOfPhase'
  BY DEF EvidenceInv, SnapsOfPhase, Inert, TypeOK, SnapRow
<1>6. QED
  BY <1>1, <1>2, <1>3, <1>4, <1>5 DEF EvidenceInv

\* The five steps that do take on an obligation, each about one call r.
LEMMA AcquireEvidence ==
  ASSUME TypeOK, LogInv, EvidenceInv, NEW r \in Request, Acquire(r)
  PROVE  EvidenceInv'
<1> USE DEF store, locals
<1>1. /\ \A q \in Request \ {r} : pc'[q] = pc[q] /\ reply'[q] = reply[q]
      /\ pc'[r] \in {"snapshot", "find", "done"}
      /\ pc'[r] = "find" => call[r].key # NoKey
      /\ reply'[r] = reply[r] \/ reply'[r].status # "ok"
  BY DEF Acquire, Proceed, Fail, Leave, Goto, TypeOK, Holding
<1>2. CASE pc'[r] # "find"
  <2>1. \A q \in Request : Inert(q)
    BY <1>1, <1>2 DEF Acquire, Inert, LateStep, QuitStep
  <2>2. QED
    BY <2>1, EvidenceInert DEF Acquire
<1>3. CASE pc'[r] = "find"
  <2>1. KeyKnown'
    BY <1>1 DEF EvidenceInv, KeyKnown, Acquire
  <2>2. PriorIsRow'
    BY <1>1, <1>3 DEF EvidenceInv, PriorIsRow, Acquire, SameCall, SessionOf
  <2>3. OkHasEvidence'
    BY <1>1, <1>3 DEF EvidenceInv, OkHasEvidence, Evidence, Acquire, SameCall,
                      SessionOf, IsRow
  <2>4. SnapsHaveAnswers' /\ OneSnapPerCall'
    BY DEF EvidenceInv, SnapsHaveAnswers, OneSnapPerCall, IsRow, Acquire
  <2>5. SnapsOfPhase'
    BY <1>1 DEF EvidenceInv, SnapsOfPhase, Acquire, TypeOK, SnapRow, LateStep, QuitStep
  <2>6. QED
    BY <2>1, <2>2, <2>3, <2>4, <2>5 DEF EvidenceInv
<1>4. QED
  BY <1>2, <1>3

LEMMA FindPriorEvidence ==
  ASSUME TypeOK, LogInv, EvidenceInv, NEW r \in Request, FindPrior(r)
  PROVE  EvidenceInv'
<1>1. /\ \A q \in Request \ {r} :
           pc'[q] = pc[q] /\ reply'[q] = reply[q] /\ prior'[q] = prior[q]
      /\ pc'[r] \in {"snapshot", "replay", "release"}
      /\ reply'[r] = reply[r] \/ reply'[r].status # "ok"
      /\ call' = call /\ turns' = turns /\ snaps' = snaps /\ pc[r] = "find"
  BY DEF FindPrior, Proceed, Fail, Leave, Goto, TypeOK, Holding, PC, MysqlStep,
         RedisStep, store
<1>2. CASE pc'[r] # "replay"
  <2>1. \A q \in Request : Inert(q)
    BY <1>1, <1>2 DEF Inert, LateStep, QuitStep
  <2>2. QED
    BY <1>1, <2>1, EvidenceInert
<1>3. CASE pc'[r] = "replay"
  <2>1. PICK t \in turns :
          /\ t.session = SessionOf(r) /\ t.key = call[r].key /\ t.body = call[r].body
          /\ prior'[r] = t.index
          /\ reply' = reply
    BY <1>1, <1>3 DEF FindPrior, Proceed, Fail, Leave, Goto, TypeOK, Holding, PC,
                      MysqlStep, RedisStep
  <2>2. call[r].key # NoKey
    BY <1>1 DEF EvidenceInv, KeyKnown
  <2>3. t.role = "user" /\ SameCall(r, t.by)
    BY <2>1, <2>2 DEF LogInv, RowOfCall, TypeOK, TurnRow, SameCall
  <2>4. KeyKnown'
    BY <1>1, <2>2 DEF EvidenceInv, KeyKnown
  <2>5. PriorIsRow'
    <3> SUFFICES ASSUME NEW q \in Request, pc'[q] = "replay"
                 PROVE  \E u \in turns' :
                          /\ u.session = SessionOf(q)' /\ u.index = prior'[q]
                          /\ u.role = "user" /\ SameCall(q, u.by)'
      BY DEF PriorIsRow
    <3>1. CASE q = r
      BY <3>1, <1>1, <2>1, <2>3 DEF SameCall, SessionOf
    <3>2. CASE q # r
      BY <3>2, <1>1 DEF EvidenceInv, PriorIsRow, SameCall, SessionOf
    <3>3. QED
      BY <3>1, <3>2
  <2>6. OkHasEvidence'
    BY <1>1, <1>3, <2>1 DEF EvidenceInv, OkHasEvidence, Evidence, SameCall,
                            SessionOf, IsRow
  <2>7. SnapsHaveAnswers' /\ OneSnapPerCall'
    BY <1>1 DEF EvidenceInv, SnapsHaveAnswers, OneSnapPerCall, IsRow
  <2>8. SnapsOfPhase'
    BY <1>1 DEF EvidenceInv, SnapsOfPhase, TypeOK, SnapRow, LateStep, QuitStep
  <2>9. QED
    BY <2>4, <2>5, <2>6, <2>7, <2>8 DEF EvidenceInv
<1>4. QED
  BY <1>2, <1>3

\* What is needed of the other calls when call r gets its reply.
LEMMA EvidenceAnswer ==
  ASSUME TypeOK, LogInv, EvidenceInv, NEW r \in Request,
         UNCHANGED <<turns, snaps, call>>,
         \A q \in Request \ {r} :
           pc'[q] = pc[q] /\ reply'[q] = reply[q] /\ prior'[q] = prior[q],
         pc'[r] \in LateStep,
         Evidence(r)'
  PROVE  EvidenceInv'
<1>1. KeyKnown'
  BY DEF EvidenceInv, KeyKnown, LateStep, QuitStep
<1>2. PriorIsRow'
  BY DEF EvidenceInv, PriorIsRow, LateStep, QuitStep, SameCall, SessionOf
<1>3. OkHasEvidence'
  <2> SUFFICES ASSUME NEW q \in Request, q # r, reply'[q].status = "ok"
               PROVE  Evidence(q)'
    BY DEF OkHasEvidence
  <2>1. Evidence(q)
    BY DEF EvidenceInv, OkHasEvidence
  <2>2. QED
    BY <2>1, EvidenceKept DEF Evidence
<1>4. SnapsHaveAnswers' /\ OneSnapPerCall'
  BY DEF EvidenceInv, SnapsHaveAnswers, OneSnapPerCall, IsRow
<1>5. SnapsOfPhase'
  BY DEF EvidenceInv, SnapsOfPhase, TypeOK, SnapRow
<1>6. QED
  BY <1>1, <1>2, <1>3, <1>4, <1>5 DEF EvidenceInv

LEMMA GetReplayEvidence ==
  ASSUME TypeOK, LogInv, EvidenceInv, NEW r \in Request, GetReplay(r)
  PROVE  EvidenceInv'
<1> USE DEF store, locals
<1>1. CASE Proceed(r, "snapshot")
  <2>1. \A q \in Request : Inert(q)
    BY <1>1 DEF GetReplay, Proceed, Goto, TypeOK, Inert, LateStep, QuitStep
  <2>2. QED
    BY <2>1, EvidenceInert DEF GetReplay
<1>2. CASE ~ Proceed(r, "snapshot")
  <2>1. PICK t \in turns :
          /\ t.session = SessionOf(r) /\ t.index = prior[r] + 1 /\ t.role = "assistant"
          /\ Leave(r, [status |-> "ok", turn |-> prior[r], by |-> t.by,
                       intent |-> t.intent, conf |-> ReplayConf(t.conf),
                       mode |-> "none"])
    BY <1>2 DEF GetReplay
  <2>2. PICK u \in turns :
          /\ u.session = SessionOf(r) /\ u.index = prior[r] /\ u.role = "user"
          /\ SameCall(r, u.by)
    BY DEF EvidenceInv, PriorIsRow, GetReplay
  <2>3. IsRow(SessionOf(r), prior[r], "user", t.by)
    <3>1. IsRow(t.session, t.index - 1, "user", t.by)
      BY <2>1 DEF LogInv, AnswerFollowsQuestion
    <3>2. t.index - 1 = prior[r]
      BY <2>1, <2>2 DEF TypeOK, TurnRow
    <3>3. QED
      BY <2>1, <3>1, <3>2
  <2>4. t.by = u.by
    BY <2>2, <2>3 DEF LogInv, UniqueIndex, IsRow
  <2>5. /\ pc[r] = "replay" /\ pc'[r] = "release"
        /\ \A q \in Request \ {r} : pc'[q] = pc[q] /\ reply'[q] = reply[q]
        /\ reply'[r].turn = prior[r] /\ reply'[r].by = t.by
        /\ UNCHANGED <<turns, snaps, call, prior>>
    BY <2>1 DEF GetReplay, Leave, Goto, TypeOK, Holding, PC, MysqlStep
  <2>6. IsRow(SessionOf(r), prior[r] + 1, "assistant", t.by)
    BY <2>1 DEF IsRow
  <2>7. t.by \in Request
    BY RowsAreOfStartedCalls
  <2>8. Evidence(r)'
    BY <2>2, <2>3, <2>4, <2>5, <2>6, <2>7 DEF Evidence, IsRow, SameCall, SessionOf
  <2>9. QED
    BY <2>5, <2>8, EvidenceAnswer DEF LateStep, QuitStep
<1>3. QED
  BY <1>1, <1>2

LEMMA SaveSnapshotEvidence ==
  ASSUME TypeOK, LogInv, EvidenceInv, NEW r \in Request, SaveSnapshot(r)
  PROVE  EvidenceInv'
<1> USE DEF store, locals
<1>1. /\ pc[r] = "save" /\ pc'[r] \in {"set_doc", "release"}
      /\ \A q \in Request \ {r} : pc'[q] = pc[q] /\ reply'[q] = reply[q]
      /\ reply'[r] = reply[r] \/ reply'[r].status # "ok"
      /\ UNCHANGED <<turns, call, prior>>
  BY DEF SaveSnapshot, Proceed, Fail, Leave, Goto, TypeOK, Holding, PC, MysqlStep
<1> DEFINE w == [session |-> SessionOf(r), at |-> ti[r] + 1,
                 by |-> r, blob |-> NewBlob(r)]
<1>2. /\ snaps' = snaps \cup {w}
      /\ w.session = SessionOf(r) /\ w.at = ti[r] + 1 /\ w.by = r
  BY DEF SaveSnapshot
<1> HIDE DEF w
<1>3. KeyKnown' /\ PriorIsRow'
  BY <1>1 DEF EvidenceInv, KeyKnown, PriorIsRow, SameCall, SessionOf
<1>4. OkHasEvidence'
  BY <1>1 DEF EvidenceInv, OkHasEvidence, Evidence, SameCall, SessionOf, IsRow
<1>5. SnapsHaveAnswers'
  <2>1. IsRow(SessionOf(r), ti[r] + 1, "assistant", r)
    BY <1>1 DEF LogInv, OwnRows, AnsweredStep
  <2>2. QED
    BY <1>1, <1>2, <2>1 DEF EvidenceInv, SnapsHaveAnswers, IsRow
<1>6. \A v \in snaps : v.by \in Request \ {r}
  BY <1>1 DEF EvidenceInv, SnapsOfPhase, LateStep, QuitStep, TypeOK, SnapRow
<1>7. SnapsOfPhase' /\ OneSnapPerCall'
  BY <1>1, <1>2, <1>6 DEF EvidenceInv, SnapsOfPhase, OneSnapPerCall, LateStep, QuitStep
<1>8. QED
  BY <1>3, <1>4, <1>5, <1>7 DEF EvidenceInv

LEMMA SetDocEvidence ==
  ASSUME TypeOK, LogInv, EvidenceInv, NEW r \in Request, SetDoc(r)
  PROVE  EvidenceInv'
<1> USE DEF store, locals
<1>1. /\ pc[r] = "set_doc" /\ pc'[r] = "release"
      /\ \A q \in Request \ {r} : pc'[q] = pc[q] /\ reply'[q] = reply[q]
      /\ UNCHANGED <<turns, snaps, call, prior>>
  BY DEF SetDoc, Fail, Leave, Goto, TypeOK, Holding, PC, RedisStep
<1>2. /\ IsRow(SessionOf(r), ti[r], "user", r)
      /\ IsRow(SessionOf(r), ti[r] + 1, "assistant", r)
  BY <1>1 DEF LogInv, OwnRows, AnsweredStep
<1>3. CASE reply'[r].turn = ti[r] /\ reply'[r].by = r
  <2>1. Evidence(r)'
    BY <1>1, <1>2, <1>3 DEF Evidence, IsRow, SessionOf
  <2>2. QED
    BY <1>1, <2>1, EvidenceAnswer DEF LateStep, QuitStep
<1>4. CASE reply'[r].status = "error"
  <2>1. \A q \in Request : Inert(q)
    BY <1>1, <1>4 DEF Inert, LateStep, QuitStep
  <2>2. QED
    BY <1>1, <2>1, EvidenceInert
<1>5. QED
  BY <1>3, <1>4 DEF SetDoc, Fail, Leave, TypeOK

LEMMA EvidenceInit == Init => EvidenceInv
BY DEF Init, EvidenceInv, KeyKnown, PriorIsRow, OkHasEvidence, SnapsHaveAnswers,
       SnapsOfPhase, OneSnapPerCall

LEMMA AppendTurnEvidence ==
  ASSUME TypeOK, LogInv, EvidenceInv, NEW r \in Request, NEW row,
         NEW next \in {"classify", "save", "set_doc"},
         AppendTurn(r, row, next), pc[r] \in {"append_user", "append_assistant"},
         UNCHANGED <<snaps, locals>>
  PROVE  EvidenceInv'
<1>1. /\ \A q \in Request \ {r} : pc'[q] = pc[q] /\ reply'[q] = reply[q]
      /\ pc'[r] \in {"classify", "save", "set_doc", "release"}
      /\ reply'[r] = reply[r] \/ reply'[r].status # "ok"
      /\ turns \subseteq turns'
  BY DEF AppendTurn, Proceed, Fail, Leave, Goto, TypeOK, Holding, PC, MysqlStep
<1>2. \A q \in Request : Inert(q)
  BY <1>1 DEF Inert, LateStep, QuitStep, locals
<1>3. QED
  BY <1>1, <1>2, EvidenceInert

LEMMA EvidenceOwnStep ==
  ASSUME TypeOK, LogInv, EvidenceInv, NEW r \in Request,
         Step(r) \/ Raise(r) \/ ReleaseRaises(r)
  PROVE  EvidenceInv'
<1> USE DEF store, locals
<1>1. CASE Ping(r) \/ CheckOwner(r) \/ LockTimeout(r) \/ ReadSnapshot(r)
           \/ ReadDoc(r) \/ ReloadDoc(r) \/ ReadIndex(r)
  <2>1. /\ \A q \in Request \ {r} :
             pc'[q] = pc[q] /\ reply'[q] = reply[q] /\ prior'[q] = prior[q]
        /\ pc[r] \in BeforeAsk \ {"idle"}
        /\ pc'[r] \notin {"idle", "find", "replay"}
        /\ reply'[r] = reply[r] \/ reply'[r].status # "ok"
        /\ UNCHANGED <<turns, snaps, call>>
    BY <1>1 DEF Ping, CheckOwner, LockTimeout, ReadSnapshot, ReadDoc, ReloadDoc, ReadIndex,
                Proceed, Fail, Leave, Goto, TypeOK, BeforeAsk
  <2>2. \A q \in Request : Inert(q)
    BY <2>1 DEF Inert, LateStep, QuitStep, BeforeAsk
  <2>3. QED
    BY <2>1, <2>2, EvidenceInert
<1>2. CASE ClassifyTurn(r) \/ EngineStart(r) \/ EngineEnd(r)
  <2>1. /\ \A q \in Request \ {r} : pc'[q] = pc[q] /\ reply'[q] = reply[q]
        /\ pc[r] \in AskedStep
        /\ pc'[r] \notin {"idle", "find", "replay"}
        /\ reply'[r] = reply[r] \/ reply'[r].status # "ok"
        /\ UNCHANGED <<turns, snaps, call, prior>>
    BY <1>2 DEF ClassifyTurn, EngineStart, EngineEnd, Proceed, Fail, Leave, Goto,
                TypeOK, AskedStep
  <2>2. \A q \in Request : Inert(q)
    BY <2>1 DEF Inert, LateStep, QuitStep, AskedStep
  <2>3. QED
    BY <2>1, <2>2, EvidenceInert
<1>3. CASE ReleaseGet(r) \/ ReleaseDelete(r) \/ ReleaseRaises(r)
  <2>1. /\ \A q \in Request \ {r} : pc'[q] = pc[q] /\ reply'[q] = reply[q]
        /\ pc'[r] \in QuitStep
        /\ reply'[r] = reply[r] \/ reply'[r].status # "ok"
        /\ UNCHANGED <<turns, snaps, call, prior>>
    BY <1>3 DEF ReleaseGet, ReleaseDelete, ReleaseRaises, Proceed, Goto, TypeOK, QuitStep
  <2>2. \A q \in Request : Inert(q)
    BY <2>1 DEF Inert, LateStep, QuitStep
  <2>3. QED
    BY <2>1, <2>2, EvidenceInert
<1>4. CASE Raise(r)
  <2>1. /\ \A q \in Request \ {r} : pc'[q] = pc[q] /\ reply'[q] = reply[q]
        /\ pc'[r] \in {"release", "done"} /\ reply'[r].status = "error"
        /\ UNCHANGED <<turns, snaps, call, prior>>
    BY <1>4 DEF Raise, Fail, Leave, Goto, TypeOK
  <2>2. \A q \in Request : Inert(q)
    BY <2>1 DEF Inert, LateStep, QuitStep
  <2>3. QED
    BY <2>1, <2>2, EvidenceInert
<1>5. CASE AppendUser(r)
  BY <1>5, AppendTurnEvidence DEF AppendUser
<1>6. CASE AppendAssistant(r)
  <2>1. (IF Plan(r) = "clarify_only" THEN "set_doc" ELSE "save")
          \in {"classify", "save", "set_doc"}
    OBVIOUS
  <2>2. QED
    BY <1>6, <2>1, AppendTurnEvidence DEF AppendAssistant
<1>7. QED
  BY <1>1, <1>2, <1>3, <1>4, <1>5, <1>6, AcquireEvidence, FindPriorEvidence,
     GetReplayEvidence, SaveSnapshotEvidence, SetDocEvidence DEF Step

LEMMA EvidenceStep ==
  ASSUME TypeOK, LogInv, EvidenceInv, [Next]_vars
  PROVE  EvidenceInv'
<1> USE DEF store, locals
<1>1. CASE \/ UNCHANGED vars
           \/ \E s \in Session, p \in Principal : CreateSession(s, p)
           \/ \E s \in Session : ExpireLock(s) \/ EvictDoc(s)
  <2>1. UNCHANGED <<turns, snaps, call, prior, pc, reply>>
    BY <1>1 DEF vars, CreateSession, ExpireLock, EvictDoc
  <2>2. \A q \in Request : Inert(q)
    BY <2>1 DEF Inert
  <2>3. QED
    BY <2>1, <2>2, EvidenceInert
<1>2. ASSUME NEW r \in Request, Submit(r)
      PROVE  EvidenceInv'
  <2>1. /\ pc[r] = "idle" /\ pc'[r] = "ping"
        /\ \A q \in Request \ {r} : pc'[q] = pc[q] /\ call'[q] = call[q]
        /\ UNCHANGED <<turns, snaps, prior, reply>>
    BY <1>2 DEF Submit, Goto, TypeOK
  <2>2. \A q \in Request : Inert(q)
    BY <2>1 DEF Inert, LateStep, QuitStep
  <2>3. QED
    BY <2>1, <2>2, EvidenceInert
<1>3. ASSUME NEW w \in Worker, Crash(w)
      PROVE  EvidenceInv'
  <2>1. /\ \A q \in Request : pc'[q] = pc[q] \/ (pc'[q] = "dead" /\ pc[q] # "idle")
        /\ UNCHANGED <<turns, snaps, call, prior, reply>>
    BY <1>3 DEF Crash, Running, Live, TypeOK
  <2>2. \A q \in Request : Inert(q)
    BY <2>1 DEF Inert, LateStep, QuitStep
  <2>3. QED
    BY <2>1, <2>2, EvidenceInert
<1>4. QED
  BY <1>1, <1>2, <1>3, EvidenceOwnStep DEF Next

THEOREM EvidenceInvariant == Spec => [](TypeOK /\ LogInv /\ EvidenceInv)
<1>1. Init => TypeOK /\ LogInv /\ EvidenceInv
  BY TypeInit, LogInit, EvidenceInit
<1>2. TypeOK /\ LogInv /\ EvidenceInv /\ [Next]_vars => (TypeOK /\ LogInv /\ EvidenceInv)'
  BY TypeStep, LogStep, EvidenceStep DEF LogInv
<1>3. QED
  BY <1>1, <1>2, PTL DEF Spec

\* A 200 answer, replayed or not, reports rows that are in the log, written for
\* the very same call: no fault makes run_turn invent or swap an answer.
THEOREM RepliesAreLoggedAlways == Spec => []RepliesAreLogged
<1>1. EvidenceInv => RepliesAreLogged
  BY DEF EvidenceInv, OkHasEvidence, Evidence, RepliesAreLogged, Answered
<1>2. QED
  BY <1>1, EvidenceInvariant, PTL

\* Retries, failures and crashes never apply a call or a key twice.
THEOREM AppliedOnceAlways == Spec => []AppliedOnce
<1>1. TypeOK /\ LogInv /\ EvidenceInv => AppliedOnce
  <2> SUFFICES ASSUME TypeOK, LogInv, EvidenceInv PROVE AppliedOnce
    OBVIOUS
  <2>1. ASSUME NEW t \in turns, NEW u \in turns, t.role = "user", u.role = "user",
               t.session = u.session, t.key = u.key, t.key # NoKey
        PROVE  t = u
    BY <2>1 DEF LogInv, UniqueKey
  <2>2. QED
    BY <2>1 DEF AppliedOnce, LogInv, OneRowPerRole, EvidenceInv, OneSnapPerCall
<1>2. QED
  BY <1>1, EvidenceInvariant, PTL

\* research_snapshot has no unique index, and still one snapshot per answer.
THEOREM SnapshotsMatchAnswersAlways == Spec => []SnapshotsMatchAnswers
<1>1. TypeOK /\ LogInv /\ EvidenceInv => SnapshotsMatchAnswers
  <2> SUFFICES ASSUME TypeOK, LogInv, EvidenceInv PROVE SnapshotsMatchAnswers
    OBVIOUS
  <2>1. ASSUME NEW v \in snaps, NEW w \in snaps, v.session = w.session, v.at = w.at
        PROVE  v = w
    <3>1. /\ IsRow(v.session, v.at, "assistant", v.by)
          /\ IsRow(w.session, w.at, "assistant", w.by)
      BY DEF EvidenceInv, SnapsHaveAnswers
    <3>2. v.by = w.by
      BY <2>1, <3>1 DEF IsRow, LogInv, UniqueIndex
    <3>3. QED
      BY <3>2 DEF EvidenceInv, OneSnapPerCall
  <2>2. QED
    BY <2>1 DEF SnapshotsMatchAnswers, EvidenceInv, SnapsHaveAnswers
<1>2. QED
  BY <1>1, EvidenceInvariant, PTL

----------------------------------------------------------------------------
(* Mutual exclusion, when the turn lock outlives the turn.                 *)

OwnLock == \A r \in Request : pc[r] \in Holding => lock[SessionOf(r)] = r

\* Only Acquire brings a call into the region, and only with the lock; a step
\* that takes the lock away from call r has r out of the region.
LEMMA OwnLockKept ==
  ASSUME TypeOK, OwnLock,
         \A r \in Request :
           pc'[r] \in Holding =>
             /\ pc[r] \in Holding /\ call'[r] = call[r]
             /\ lock'[SessionOf(r)] = lock[SessionOf(r)]
  PROVE  OwnLock'
BY DEF OwnLock, SessionOf

LEMMA HoldingStaysOrLeaves ==
  ASSUME TypeOK, NEW r \in Request, pc[r] \in Holding,
         (\E step : Proceed(r, step)) \/ (\E a : Leave(r, a)),
         UNCHANGED <<lock, call>>
  PROVE  \A q \in Request : pc'[q] \in Holding =>
             /\ pc[q] \in Holding /\ call'[q] = call[q]
             /\ lock'[SessionOf(q)] = lock[SessionOf(q)]
BY DEF Proceed, Leave, Goto, TypeOK

LEMMA OwnLockOwnStep ==
  ASSUME TypeOK, OwnLock, NEW r \in Request, Step(r) \/ Raise(r) \/ ReleaseRaises(r)
  PROVE  OwnLock'
<1> USE DEF store, locals
<1>1. CASE Ping(r) \/ CheckOwner(r) \/ LockTimeout(r)
  <2>1. /\ \A q \in Request \ {r} : pc'[q] = pc[q]
        /\ pc'[r] \notin Holding
        /\ UNCHANGED <<lock, call>>
    BY <1>1 DEF Ping, CheckOwner, LockTimeout, Proceed, Fail, Leave, Goto, TypeOK, Holding
  <2>2. QED
    BY <2>1, OwnLockKept
<1>2. CASE Acquire(r)
  <2>1. /\ \A q \in Request \ {r} : pc'[q] = pc[q]
        /\ SessionOf(r) \in Session /\ lock[SessionOf(r)] = NoOne
        /\ lock' = [lock EXCEPT ![SessionOf(r)] = r]
        /\ UNCHANGED call
    BY <1>2 DEF Acquire, Proceed, Fail, Leave, Goto, TypeOK, SessionOf, Call
  <2>2. \A q \in Request \ {r} : pc'[q] \in Holding => SessionOf(q) # SessionOf(r)
    BY <2>1, CoordinatorAssumption DEF OwnLock
  <2>3. QED
    BY <2>1, <2>2 DEF OwnLock, SessionOf, TypeOK
<1>3. CASE \/ FindPrior(r) \/ GetReplay(r) \/ ReadSnapshot(r) \/ ReadDoc(r)
           \/ ReloadDoc(r) \/ ReadIndex(r) \/ ClassifyTurn(r) \/ EngineStart(r)
           \/ EngineEnd(r) \/ SaveSnapshot(r) \/ SetDoc(r) \/ ReleaseGet(r)
  <2>1. /\ pc[r] \in Holding
        /\ (\E step : Proceed(r, step)) \/ (\E a : Leave(r, a))
        /\ UNCHANGED <<lock, call>>
    BY <1>3 DEF FindPrior, GetReplay, ReadSnapshot, ReadDoc, ReloadDoc, ReadIndex,
                ClassifyTurn, EngineStart, EngineEnd, SaveSnapshot, SetDoc, ReleaseGet,
                Fail, Holding, PC, MysqlStep, RedisStep
  <2>2. QED
    BY <2>1, HoldingStaysOrLeaves, OwnLockKept
<1>4. CASE AppendUser(r) \/ AppendAssistant(r)
  <2>1. /\ pc[r] \in Holding
        /\ (\E step : Proceed(r, step)) \/ (\E a : Leave(r, a))
        /\ UNCHANGED <<lock, call>>
    BY <1>4 DEF AppendUser, AppendAssistant, AppendTurn, Fail, Holding, PC, MysqlStep
  <2>2. QED
    BY <2>1, HoldingStaysOrLeaves, OwnLockKept
<1>5. CASE ReleaseDelete(r)
  <2>1. /\ \A q \in Request \ {r} : pc'[q] = pc[q]
        /\ pc'[r] \notin Holding /\ pc[r] \in Holding
        /\ lock' = [lock EXCEPT ![SessionOf(r)] = NoOne]
        /\ UNCHANGED call
    BY <1>5 DEF ReleaseDelete, Proceed, Goto, TypeOK, Holding, PC
  <2>2. \A q \in Request \ {r} : pc[q] \in Holding => SessionOf(q) # SessionOf(r)
    BY <2>1 DEF OwnLock
  <2>3. QED
    BY <2>1, <2>2, OwnLockKept DEF TypeOK
<1>6. CASE Raise(r)
  <2>1. CASE pc[r] \in Holding
    <3>1. (\E a : Leave(r, a)) /\ UNCHANGED <<lock, call>>
      BY <1>6 DEF Raise, Fail
    <3>2. QED
      BY <2>1, <3>1, HoldingStaysOrLeaves, OwnLockKept
  <2>2. CASE pc[r] \notin Holding
    <3>1. /\ \A q \in Request \ {r} : pc'[q] = pc[q]
          /\ pc'[r] \notin Holding
          /\ UNCHANGED <<lock, call>>
      BY <1>6, <2>2 DEF Raise, Fail, Leave, Goto, TypeOK, Holding
    <3>2. QED
      BY <3>1, OwnLockKept
  <2>3. QED
    BY <2>1, <2>2
<1>7. CASE ReleaseRaises(r)
  <2>1. /\ \A q \in Request \ {r} : pc'[q] = pc[q]
        /\ pc'[r] \notin Holding
        /\ UNCHANGED <<lock, call>>
    BY <1>7 DEF ReleaseRaises, Goto, TypeOK, Holding
  <2>2. QED
    BY <2>1, OwnLockKept
<1>8. QED
  BY <1>1, <1>2, <1>3, <1>4, <1>5, <1>6, <1>7 DEF Step

LEMMA OwnLockStep ==
  ASSUME "slow_turn" \notin Faults, TypeOK, OwnLock, [Next]_vars
  PROVE  OwnLock'
<1> USE DEF store, locals
<1>1. CASE \/ UNCHANGED vars
           \/ \E s \in Session, p \in Principal : CreateSession(s, p)
           \/ \E s \in Session : EvictDoc(s)
  <2>1. UNCHANGED <<lock, call, pc>>
    BY <1>1 DEF vars, CreateSession, EvictDoc
  <2>2. QED
    BY <2>1, OwnLockKept
<1>2. ASSUME NEW r \in Request, Submit(r)
      PROVE  OwnLock'
  <2>1. /\ \A q \in Request \ {r} : pc'[q] = pc[q] /\ call'[q] = call[q]
        /\ pc'[r] \notin Holding /\ UNCHANGED lock
    BY <1>2 DEF Submit, Goto, TypeOK, Holding
  <2>2. QED
    BY <2>1, OwnLockKept
<1>3. ASSUME NEW s \in Session, ExpireLock(s)
      PROVE  OwnLock'
  <2>1. /\ lock[s] \in Request /\ pc[lock[s]] \notin Holding
        /\ lock' = [lock EXCEPT ![s] = NoOne] /\ UNCHANGED <<pc, call>>
    BY <1>3 DEF ExpireLock, TypeOK
  <2>2. \A q \in Request : pc[q] \in Holding => SessionOf(q) # s
    BY <2>1 DEF OwnLock
  <2>3. QED
    BY <2>1, <2>2, OwnLockKept DEF TypeOK
<1>4. ASSUME NEW w \in Worker, Crash(w)
      PROVE  OwnLock'
  <2>1. /\ \A q \in Request : pc'[q] = pc[q] \/ pc'[q] = "dead"
        /\ "dead" \notin Holding /\ UNCHANGED <<lock, call>>
    BY <1>4 DEF Crash, TypeOK, Holding
  <2>2. QED
    BY <2>1, OwnLockKept
<1>5. QED
  BY <1>1, <1>2, <1>3, <1>4, OwnLockOwnStep DEF Next

\* With a TTL no turn outlives, the turns of a session run one at a time, and
\* GET-then-DELETE in release_turn_lock never removes another call's lock.
THEOREM OneTurnAtATimeAlways ==
  ASSUME "slow_turn" \notin Faults
  PROVE  Spec => []OneTurnAtATime
<1>1. Init => OwnLock
  BY DEF Init, OwnLock, Holding
<1>2. TypeOK /\ OwnLock /\ [Next]_vars => OwnLock'
  BY OwnLockStep
<1>3. OwnLock => OneTurnAtATime
  BY DEF OwnLock, OneTurnAtATime
<1>4. QED
  BY <1>1, <1>2, <1>3, TypeCorrect, PTL DEF Spec

----------------------------------------------------------------------------
(* The conversation log of TurnLog.tla, under every fault.                 *)

\* The transcript a set of rows makes, when it has the indexes 0 .. n - 1.
LogOf(rows, s, n) ==
  [i \in 1 .. n |->
     LET t == CHOOSE t \in rows : t.session = s /\ t.index = i - 1
     IN  [role |-> t.role, by |-> t.by]]

IndexesOf(rows, s) == {t.index : t \in {u \in rows : u.session = s}}

\* rows are the rows of dense transcripts, that of session s with n entries.
Transcript(rows, s, n) ==
  /\ rows \subseteq TurnRow
  /\ IndexesOf(rows, s) = 0 .. n - 1
  /\ \A t, u \in rows : t.session = u.session /\ t.index = u.index => t = u

EntryOf(t) == [role |-> t.role, by |-> t.by]

\* Every row is one entry, at its index, and every entry is a row.
Reads(log, rows, s, n) ==
  /\ log \in [1 .. n -> TL!Entry]
  /\ \A t \in rows : t.session = s =>
       t.index + 1 \in 1 .. n /\ log[t.index + 1] = EntryOf(t)
  /\ \A i \in 1 .. n : \E t \in rows :
       t.session = s /\ t.index + 1 = i /\ log[i] = EntryOf(t)

LEMMA LogOfRows ==
  ASSUME NEW rows, NEW s \in Session, NEW n \in Nat, Transcript(rows, s, n)
  PROVE  Reads(LogOf(rows, s, n), rows, s, n)
<1>1. \A t \in rows : t.session = s => t.index \in 0 .. n - 1 /\ t.index \in Nat
  BY DEF Transcript, IndexesOf, TurnRow
<1>2. ASSUME NEW i \in 1 .. n
      PROVE  \E t \in rows : t.session = s /\ t.index + 1 = i /\ LogOf(rows, s, n)[i] = EntryOf(t)
  <2> DEFINE t == CHOOSE u \in rows : u.session = s /\ u.index = i - 1
  <2>1. i - 1 \in IndexesOf(rows, s)
    BY DEF Transcript
  <2>2. \E u \in rows : u.session = s /\ u.index = i - 1
    BY <2>1 DEF IndexesOf
  <2>3. t \in rows /\ t.session = s /\ t.index = i - 1
    BY <2>2
  <2>4. LogOf(rows, s, n)[i] = EntryOf(t)
    BY DEF LogOf, EntryOf
  <2>5. t.index + 1 = i
    BY <2>3
  <2> HIDE DEF t
  <2>6. QED
    BY <2>3, <2>4, <2>5
<1>3. ASSUME NEW t \in rows, t.session = s
      PROVE  t.index + 1 \in 1 .. n /\ LogOf(rows, s, n)[t.index + 1] = EntryOf(t)
  <2>1. t.index + 1 \in 1 .. n
    BY <1>1, <1>3
  <2>2. PICK u \in rows : /\ u.session = s /\ u.index + 1 = t.index + 1
                          /\ LogOf(rows, s, n)[t.index + 1] = EntryOf(u)
    BY <1>2, <2>1
  <2>3. u.index = t.index
    BY <1>1, <1>3, <2>2
  <2>4. u = t
    BY <1>3, <2>2, <2>3 DEF Transcript
  <2>5. QED
    BY <2>1, <2>2, <2>4
<1>4. \A t \in rows : EntryOf(t) \in TL!Entry
  BY DEF Transcript, TurnRow, EntryOf, TL!Entry
<1>5. DOMAIN LogOf(rows, s, n) = 1 .. n /\ LogOf(rows, s, n) = [i \in 1 .. n |-> LogOf(rows, s, n)[i]]
  BY DEF LogOf
<1>6. \A i \in 1 .. n : LogOf(rows, s, n)[i] \in TL!Entry
  BY <1>2, <1>4
<1>7. LogOf(rows, s, n) \in [1 .. n -> TL!Entry]
  BY <1>5, <1>6
<1>8. QED
  BY <1>2, <1>3, <1>7 DEF Reads

\* A function on 1 .. n is a sequence.
LEMMA LogIsSeq ==
  ASSUME NEW n \in Nat, NEW E, NEW log \in [1 .. n -> E]
  PROVE  log \in Seq(E) /\ Len(log) = n
OBVIOUS

\* A row at the next index is one more entry at the end.
LEMMA LogGrows ==
  ASSUME NEW rows, NEW row \in TurnRow, NEW n \in Nat, row.index = n,
         Transcript(rows, row.session, n),
         Transcript(rows \cup {row}, row.session, n + 1)
  PROVE  LogOf(rows \cup {row}, row.session, n + 1) = Append(LogOf(rows, row.session, n), EntryOf(row))
<1> DEFINE s == row.session
           old == LogOf(rows, s, n)
           more == rows \cup {row}
           new == LogOf(more, s, n + 1)
<1>1. s \in Session
  BY DEF TurnRow
<1>2. Reads(old, rows, s, n)
  BY <1>1, LogOfRows
<1>3. Reads(new, more, s, n + 1)
  BY <1>1, LogOfRows
<1>4. row \in more /\ rows \subseteq more
  OBVIOUS
<1> HIDE DEF old, more, new, s
<1>5. \A i \in 1 .. n : new[i] = old[i]
  BY <1>2, <1>3, <1>4 DEF Reads
<1>6. new[n + 1] = EntryOf(row)
  BY <1>3, <1>4 DEF s, Reads
<1>7. EntryOf(row) \in TL!Entry
  BY DEF EntryOf, TurnRow, TL!Entry
<1>8. old \in Seq(TL!Entry) /\ Len(old) = n
  BY <1>2, LogIsSeq DEF Reads
<1>9. new = Append(old, EntryOf(row))
  <2> DEFINE longer == Append(old, EntryOf(row))
  <2>1. longer \in Seq(TL!Entry) /\ Len(longer) = n + 1
    BY <1>7, <1>8
  <2>2. (\A i \in 1 .. n : longer[i] = old[i]) /\ longer[n + 1] = EntryOf(row)
    BY <1>7, <1>8
  <2> HIDE DEF longer
  <2>3. longer \in [1 .. n + 1 -> TL!Entry]
    <3>1. longer \in [1 .. Len(longer) -> TL!Entry]
      BY <2>1
    <3>2. QED
      BY <2>1, <3>1
  <2>4. \A i \in 1 .. n + 1 : i \in 1 .. n \/ i = n + 1
    OBVIOUS
  <2>5. \A i \in 1 .. n + 1 : new[i] = longer[i]
    BY <1>5, <1>6, <2>2, <2>4
  <2>6. new = longer
    BY <1>3, <2>3, <2>5 DEF Reads
  <2>7. QED
    BY <2>6 DEF longer
<1>10. QED
  BY <1>9 DEF old, new, more, s

\* max + 1 of the indexes 0 .. n - 1 is n.
LEMMA NextOf ==
  ASSUME NEW S, NEW n \in Nat, S = 0 .. n - 1
  PROVE  1 + (CHOOSE m \in S \cup {-1} : \A i \in S : i <= m) = n
<1> DEFINE max == CHOOSE m \in S \cup {-1} : \A i \in S : i <= m
<1>1. \E m \in S \cup {-1} : \A i \in S : i <= m
  <2>1. n - 1 \in S \cup {-1} /\ \A i \in S : i <= n - 1
    OBVIOUS
  <2>2. QED
    BY <2>1
<1>2. max \in S \cup {-1} /\ \A i \in S : i <= max
  BY <1>1
<1> HIDE DEF max
<1>3. 1 + max = n
  BY <1>2
<1>4. QED
  BY <1>3 DEF max

\* What the transcript of a session is, before and after a step.
LEMMA EntriesAreRows ==
  ASSUME TypeOK, LogInv, NEW s \in Session
  PROVE  \E n \in Nat : Transcript(turns, s, n) /\ Entries(s) = LogOf(turns, s, n)
<1>1. PICK n \in Nat : Indexes(s) = 0 .. n - 1
  BY DEF LogInv, Dense
<1>2. NextTurnIndex(s) = n
  BY <1>1, NextOf DEF NextTurnIndex
<1>3. Transcript(turns, s, n)
  BY <1>1 DEF Transcript, IndexesOf, Indexes, TypeOK, LogInv, UniqueIndex
<1>4. QED
  BY <1>2, <1>3 DEF Entries, LogOf

LEMMA EntriesAreRowsAfter ==
  ASSUME TypeOK', LogInv', NEW s \in Session
  PROVE  \E n \in Nat : Transcript(turns', s, n) /\ Entries(s)' = LogOf(turns', s, n)
<1>1. PICK n \in Nat : Indexes(s)' = 0 .. n - 1
  BY DEF LogInv, Dense
<1>2. NextTurnIndex(s)' = n
  BY <1>1, NextOf DEF NextTurnIndex
<1>3. Transcript(turns', s, n)
  BY <1>1 DEF Transcript, IndexesOf, Indexes, TypeOK, LogInv, UniqueIndex
<1>4. QED
  BY <1>2, <1>3 DEF Entries, LogOf

\* The three variables of TurnLog
LogView == [s \in Session |-> Entries(s)]
SentView == [r \in Request |-> Sent(r)]
ToldView == [r \in Request |-> Told(r)]

LEMMA LogKept ==
  ASSUME TypeOK, LogInv, TypeOK', LogInv', UNCHANGED turns
  PROVE  LogView' = LogView
<1>1. ASSUME NEW s \in Session
      PROVE  Entries(s)' = Entries(s)
  <2>1. PICK n \in Nat : Transcript(turns, s, n) /\ Entries(s) = LogOf(turns, s, n)
    BY EntriesAreRows
  <2>2. PICK m \in Nat : Transcript(turns, s, m) /\ Entries(s)' = LogOf(turns, s, m)
    BY EntriesAreRowsAfter
  <2>3. 0 .. n - 1 = 0 .. m - 1
    BY <2>1, <2>2 DEF Transcript
  <2>4. n = m
    BY <2>3
  <2>5. QED
    BY <2>1, <2>2, <2>4
<1>2. QED
  BY <1>1 DEF LogView

\* Appending a row that clashes with none appends an entry.
LEMMA LogAppended ==
  ASSUME TypeOK, LogInv, TypeOK', LogInv', NEW row \in TurnRow,
         turns' = turns \cup {row}, ~ Clashes(row)
  PROVE  /\ LogView' = [LogView EXCEPT ![row.session] = Append(@, EntryOf(row))]
         /\ Entries(row.session) \in Seq(TL!Entry)
         /\ Len(Entries(row.session)) = row.index
<1>1. row.session \in Session /\ row.index \in Nat
  BY DEF TurnRow
<1>2. ASSUME NEW s \in Session, s # row.session
      PROVE  Entries(s)' = Entries(s)
  <2>1. Indexes(s)' = Indexes(s)
    BY <1>2 DEF Indexes
  <2>2. NextTurnIndex(s)' = NextTurnIndex(s)
    BY <2>1 DEF NextTurnIndex
  <2>3. PICK n \in Nat : Transcript(turns, s, n) /\ Entries(s) = LogOf(turns, s, n)
    BY EntriesAreRows
  <2>4. PICK m \in Nat : Transcript(turns', s, m) /\ Entries(s)' = LogOf(turns', s, m)
    BY EntriesAreRowsAfter
  <2>5. IndexesOf(turns', s) = IndexesOf(turns, s)
    BY <1>2 DEF IndexesOf
  <2>6. 0 .. n - 1 = 0 .. m - 1
    BY <2>3, <2>4, <2>5 DEF Transcript
  <2>7. n = m
    BY <2>6
  <2>8. Reads(LogOf(turns, s, n), turns, s, n) /\ Reads(LogOf(turns', s, n), turns', s, n)
    BY <2>3, <2>4, <2>7, LogOfRows
  <2>9. \A i \in 1 .. n : LogOf(turns', s, n)[i] = LogOf(turns, s, n)[i]
    BY <2>8, ZenonT(30) DEF Reads
  <2>10. LogOf(turns', s, n) = LogOf(turns, s, n)
    BY <2>9 DEF LogOf
  <2>11. QED
    BY <2>3, <2>4, <2>7, <2>10
<1>3. /\ Entries(row.session)' = Append(Entries(row.session), EntryOf(row))
      /\ Entries(row.session) \in Seq(TL!Entry)
      /\ Len(Entries(row.session)) = row.index
  <2> DEFINE s == row.session
  <2>1. PICK n \in Nat : Transcript(turns, s, n) /\ Entries(s) = LogOf(turns, s, n)
    BY <1>1, EntriesAreRows
  <2>2. PICK m \in Nat : Transcript(turns', s, m) /\ Entries(s)' = LogOf(turns', s, m)
    BY <1>1, EntriesAreRowsAfter
  <2>3. IndexesOf(turns', s) = IndexesOf(turns, s) \cup {row.index}
    BY DEF IndexesOf
  <2>4. row.index \notin IndexesOf(turns, s)
    BY DEF Clashes, IndexesOf
  <2>5. 0 .. m - 1 = (0 .. n - 1) \cup {row.index} /\ row.index \notin 0 .. n - 1
    BY <2>1, <2>2, <2>3, <2>4 DEF Transcript
  <2>6. row.index = n /\ m = n + 1
    <3>1. row.index >= n
      BY <1>1, <2>5
    <3>2. row.index \in 0 .. m - 1 /\ m > n
      BY <1>1, <2>5, <3>1
    <3>3. n \in 0 .. m - 1
      BY <3>2
    <3>4. row.index = n
      BY <2>5, <3>3
    <3>5. m = n + 1
      <4>1. CASE m > n + 1
        <5>1. n + 1 \in 0 .. m - 1
          BY <4>1
        <5>2. n + 1 \in 0 .. n - 1 \/ n + 1 = n
          BY <2>5, <3>4, <5>1
        <5>3. QED
          BY <5>2
      <4>2. QED
        BY <3>2, <4>1
    <3>6. QED
      BY <3>4, <3>5
  <2>7. Entries(s)' = Append(Entries(s), EntryOf(row))
    <3>1. Transcript(turns, s, n) /\ Transcript(turns \cup {row}, s, n + 1)
      BY <2>1, <2>2, <2>6
    <3>2. LogOf(turns \cup {row}, s, n + 1) = Append(LogOf(turns, s, n), EntryOf(row))
      BY <2>6, <3>1, LogGrows
    <3>3. Entries(s)' = LogOf(turns \cup {row}, s, n + 1)
      BY <2>2, <2>6
    <3>4. QED
      BY <2>1, <3>2, <3>3
  <2>8. Reads(LogOf(turns, s, n), turns, s, n)
    BY <1>1, <2>1, LogOfRows
  <2>9. LogOf(turns, s, n) \in Seq(TL!Entry) /\ Len(LogOf(turns, s, n)) = n
    BY <2>8, LogIsSeq DEF Reads
  <2>10. QED
    BY <2>1, <2>6, <2>7, <2>9
<1>4. QED
  BY <1>1, <1>2, <1>3 DEF LogView

\* A call that has not been made carries nothing.
IdleUnsent == \A r \in Request : pc[r] = "idle" => call[r] = Nothing

LEMMA IdleUnsentStep ==
  ASSUME TypeOK, IdleUnsent, [Next]_vars
  PROVE  IdleUnsent'
<1> USE DEF store, locals
<1>1. CASE \/ UNCHANGED vars
           \/ \E s \in Session, p \in Principal : CreateSession(s, p)
           \/ \E s \in Session : ExpireLock(s) \/ EvictDoc(s)
           \/ \E w \in Worker : Crash(w)
  <2>1. call' = call /\ \A q \in Request : pc'[q] = "idle" => pc[q] = "idle"
    BY <1>1 DEF vars, CreateSession, ExpireLock, EvictDoc, Crash, TypeOK
  <2>2. QED
    BY <2>1 DEF IdleUnsent
<1>2. ASSUME NEW r \in Request, Submit(r)
      PROVE  IdleUnsent'
  <2>1. /\ pc'[r] = "ping"
        /\ \A q \in Request \ {r} : pc'[q] = pc[q] /\ call'[q] = call[q]
    BY <1>2 DEF Submit, Goto, TypeOK
  <2>2. QED
    BY <2>1 DEF IdleUnsent
<1>3. ASSUME NEW r \in Request, Step(r) \/ Raise(r) \/ ReleaseRaises(r)
      PROVE  IdleUnsent'
  <2>1. call' = call /\ \A q \in Request : pc'[q] = "idle" => pc[q] = "idle"
    BY <1>3 DEF Step, Ping, CheckOwner, Acquire, LockTimeout, FindPrior, GetReplay, ReadSnapshot,
       ReadDoc, ReloadDoc, ReadIndex, AppendUser, AppendTurn, ClassifyTurn, EngineStart, EngineEnd,
       AppendAssistant, SaveSnapshot, SetDoc, ReleaseGet, ReleaseDelete, Raise, ReleaseRaises,
       Proceed, Fail, Leave, Goto, TypeOK
  <2>2. QED
    BY <2>1 DEF IdleUnsent
<1>4. QED
  BY <1>1, <1>2, <1>3 DEF Next

\* A step in which the log stays and no call becomes answered
Unseen == \A q \in Request : /\ Answered(q)' <=> Answered(q)
                             /\ Answered(q) => reply'[q].by = reply[q].by

LEMMA UnseenTold ==
  ASSUME Unseen
  PROVE  ToldView' = ToldView
<1>1. \A q \in Request : Told(q)' = Told(q)
  BY DEF Unseen, Told
<1>2. QED
  BY <1>1 DEF ToldView

LEMMA SentKept ==
  ASSUME UNCHANGED call
  PROVE  SentView' = SentView
BY DEF SentView, Sent

LEMMA Stutter ==
  ASSUME TypeOK, LogInv, TypeOK', LogInv', UNCHANGED <<turns, call>>, Unseen
  PROVE  UNCHANGED TL!vars
<1>1. UNCHANGED <<LogView, SentView, ToldView>>
  BY LogKept, UnseenTold, SentKept
<1>2. QED
  BY <1>1 DEF TL!vars, LogView, SentView, ToldView

\* What sent and Logged of TurnLog are
LEMMA SentIs ==
  ASSUME TypeOK, NEW r \in Request, pc[r] # "idle"
  PROVE  /\ SentView[r] = [session |-> call[r].session, key |-> call[r].key, body |-> call[r].body]
         /\ SentView[r].session = SessionOf(r) /\ SentView[r].key = call[r].key
        /\ SentView[r] # Nothing /\ SessionOf(r) \in Session
<1>1. call[r] \in Call /\ call[r] # Nothing
  BY CoordinatorAssumption DEF TypeOK, Call
<1>2. SentView[r] = [session |-> call[r].session, key |-> call[r].key, body |-> call[r].body]
  BY <1>1 DEF SentView, Sent
<1>3. QED
  BY <1>1, <1>2, CoordinatorAssumption DEF Call, SessionOf

LEMMA LoggedIsRow ==
  ASSUME TypeOK, LogInv, NEW r \in Request, pc[r] # "idle", NEW role
  PROVE  TL!Logged(role, r) <=> \E t \in turns : t.role = role /\ t.by = r
<1> DEFINE s == SessionOf(r)
<1>1. s \in Session /\ SentView[r].session = s
  BY SentIs
<1>2. PICK n \in Nat : Transcript(turns, s, n) /\ Entries(s) = LogOf(turns, s, n)
  BY <1>1, EntriesAreRows
<1>3. Reads(Entries(s), turns, s, n)
  BY <1>1, <1>2, LogOfRows
<1>4. Len(Entries(s)) = n
  BY <1>3, LogIsSeq DEF Reads
<1>5. TL!Logged(role, r) <=> \E i \in 1 .. n : Entries(s)[i] = [role |-> role, by |-> r]
  BY <1>1, <1>4 DEF TL!Logged, SentView
<1>6. \A t \in turns : t.by = r => t.session = s
  BY DEF LogInv, RowOfCall
<1> HIDE DEF s
<1>7. QED
  BY <1>3, <1>5, <1>6 DEF Reads, EntryOf

\* One step of the log for each step that is not a stutter
LEMMA SubmitSends ==
  ASSUME TypeOK, LogInv, TypeOK', LogInv', IdleUnsent, NEW r \in Request, Submit(r)
  PROVE  TL!Send(r)
<1> USE DEF store, locals
<1>1. /\ pc[r] = "idle" /\ pc'[r] = "ping" /\ UNCHANGED <<turns, reply>>
      /\ \A q \in Request \ {r} : pc'[q] = pc[q] /\ call'[q] = call[q]
  BY DEF Submit, Goto, TypeOK
<1>2. LogView' = LogView
  BY <1>1, LogKept
<1>3. ToldView' = ToldView
  BY <1>1, UnseenTold DEF Unseen, Answered
<1>4. SentView[r] = Nothing
  BY <1>1 DEF SentView, Sent, IdleUnsent
<1>5. PICK c \in Call : call' = [call EXCEPT ![r] = c]
  BY DEF Submit
<1> DEFINE d == [session |-> c.session, key |-> c.key, body |-> c.body]
<1>6. d \in TL!Call
  BY DEF Call, TL!Call
<1>7. SentView' = [SentView EXCEPT ![r] = d]
  <2>1. call'[r] = c /\ c # Nothing
    BY <1>5, CoordinatorAssumption DEF TypeOK, Call
  <2>2. QED
    BY <1>1, <2>1 DEF SentView, Sent
<1> HIDE DEF d
<1>8. QED
  BY <1>2, <1>3, <1>4, <1>6, <1>7 DEF TL!Send, LogView, SentView, ToldView

LEMMA AppendUserAsks ==
  ASSUME TypeOK, LogInv, TypeOK', LogInv', IdleUnsent, NEW r \in Request,
         pc[r] = "append_user",
         ~ Clashes(UserRow(r)), turns' = turns \cup {UserRow(r)}, UNCHANGED call, Unseen
  PROVE  TL!Ask(r)
<1> DEFINE row == UserRow(r)
<1>1. /\ row \in TurnRow /\ row.session = SessionOf(r) /\ row.key = call[r].key
      /\ EntryOf(row) = [role |-> "user", by |-> r]
  BY RowTypes DEF UserRow, EntryOf
<1>2. LogView' = [LogView EXCEPT ![SessionOf(r)] = Append(@, EntryOf(row))]
  BY <1>1, LogAppended
<1>3. SentView' = SentView /\ ToldView' = ToldView
  BY UnseenTold, SentKept
<1>4. SentView[r].session = SessionOf(r) /\ SentView[r].key = call[r].key /\ SentView[r] # Nothing
  BY SentIs
<1>5. ~ TL!Logged("user", r)
  <2>1. \A t \in turns : t.by # r
    BY DEF LogInv, RowOfPhase, BeforeAsk
  <2>2. QED
    BY <2>1, LoggedIsRow
<1>6. ASSUME NEW x \in Request, SentView[x] # Nothing, SentView[x].session = SentView[r].session,
             SentView[x].key = SentView[r].key, SentView[r].key # NoKey
      PROVE  ~ TL!Logged("user", x)
  <2>1. CASE pc[x] = "idle"
    BY <1>6, <2>1 DEF IdleUnsent, SentView, Sent
  <2>2. CASE pc[x] # "idle"
    <3>1. SessionOf(x) = SessionOf(r) /\ call[x].key = call[r].key /\ call[r].key # NoKey
      BY <1>4, <1>6, <2>2, SentIs
    <3>2. ASSUME NEW t \in turns, t.role = "user", t.by = x
          PROVE  FALSE
      <4>1. t.session = SessionOf(r) /\ t.key = call[r].key
        BY <3>1, <3>2 DEF LogInv, RowOfCall
      <4>2. QED
        BY <1>1, <3>1, <4>1 DEF Clashes
    <3>3. QED
      BY <2>2, <3>2, LoggedIsRow
  <2>3. QED
    BY <2>1, <2>2
<1>7. QED
  BY <1>1, <1>2, <1>3, <1>4, <1>5, <1>6 DEF TL!Ask, LogView, SentView, ToldView

LEMMA AppendAssistantAnswers ==
  ASSUME TypeOK, LogInv, TypeOK', LogInv', NEW r \in Request, pc[r] = "append_assistant",
         ~ Clashes(AssistantRow(r)), turns' = turns \cup {AssistantRow(r)},
         UNCHANGED call, Unseen
  PROVE  TL!Answer(r)
<1> DEFINE row == AssistantRow(r)
           s == SessionOf(r)
<1>1. /\ row \in TurnRow /\ row.session = s /\ row.index = ti[r] + 1
      /\ EntryOf(row) = [role |-> "assistant", by |-> r]
  BY RowTypes DEF AssistantRow, EntryOf
<1>2. /\ LogView' = [LogView EXCEPT ![s] = Append(@, EntryOf(row))]
      /\ Entries(s) \in Seq(TL!Entry) /\ Len(Entries(s)) = ti[r] + 1
  BY <1>1, LogAppended
<1>3. SentView' = SentView /\ ToldView' = ToldView
  BY UnseenTold, SentKept
<1>4. SentView[r].session = s /\ SentView[r] # Nothing /\ s \in Session
  BY SentIs
<1>5. Entries(s)[ti[r] + 1] = [role |-> "user", by |-> r]
  <2>1. PICK t \in turns : t.session = s /\ t.index = ti[r] /\ t.role = "user" /\ t.by = r
    BY DEF LogInv, OwnRows, AskedStep, IsRow
  <2>2. PICK n \in Nat : Transcript(turns, s, n) /\ Entries(s) = LogOf(turns, s, n)
    BY <1>4, EntriesAreRows
  <2>3. Reads(Entries(s), turns, s, n)
    BY <1>4, <2>2, LogOfRows
  <2>4. Entries(s)[t.index + 1] = EntryOf(t)
    BY <2>1, <2>3 DEF Reads
  <2>5. QED
    BY <2>1, <2>4 DEF EntryOf
<1>6. Entries(s) # <<>>
  <2>1. ti[r] \in Nat
    BY DEF TypeOK
  <2>2. QED
    BY <1>2, <2>1
<1> HIDE DEF row, s
<1>7. LogView[s] = Entries(s)
  BY <1>4 DEF LogView
<1>8. QED
  BY <1>1, <1>2, <1>3, <1>4, <1>5, <1>6, <1>7 DEF TL!Answer, LogView, SentView, ToldView

LEMMA ReleaseTells ==
  ASSUME TypeOK, LogInv, EvidenceInv, TypeOK', LogInv', NEW r \in Request,
         pc[r] \in {"release", "delete"}, pc' = [pc EXCEPT ![r] = "done"],
         UNCHANGED <<turns, call, reply>>, reply[r].status = "ok"
  PROVE  TL!Tell(r)
<1> DEFINE x == reply[r].by
<1>1. LogView' = LogView /\ SentView' = SentView
  BY LogKept, SentKept
<1>2. /\ x \in Request /\ (x = r \/ SameCall(r, x))
      /\ IsRow(SessionOf(r), reply[r].turn + 1, "assistant", x)
  BY DEF EvidenceInv, OkHasEvidence, Evidence
<1> HIDE DEF x
<1>3. PICK t \in turns : t.role = "assistant" /\ t.by = x
  BY <1>2 DEF IsRow
<1>4. pc[x] # "idle" /\ pc[r] # "idle"
  BY <1>3, RowsAreOfStartedCalls
<1>5. TL!Logged("assistant", x)
  BY <1>2, <1>3, <1>4, LoggedIsRow
<1>6. SentView[r] # Nothing /\ SentView[x] # Nothing
  BY <1>2, <1>4, SentIs
<1>7. x = r \/ (SentView[r].key # NoKey /\ SentView[r] = SentView[x])
  <2>1. CASE x = r
    BY <2>1
  <2>2. CASE SameCall(r, x)
    <3>1. call[r].key # NoKey /\ call[x].key = call[r].key /\ call[x].body = call[r].body
          /\ call[x].session = call[r].session
      BY <2>2 DEF SameCall, SessionOf
    <3>2. /\ SentView[r] = [session |-> call[r].session, key |-> call[r].key, body |-> call[r].body]
          /\ SentView[x] = [session |-> call[x].session, key |-> call[x].key, body |-> call[x].body]
          /\ SentView[r].key = call[r].key
      BY <1>2, <1>4, SentIs
    <3>3. QED
      BY <3>1, <3>2
  <2>3. QED
    BY <1>2, <2>1, <2>2
<1>8. ToldView[r] = Nothing
  BY DEF ToldView, Told, Answered
<1>9. ToldView' = [ToldView EXCEPT ![r] = x]
  <2>1. Told(r)' = x
    BY DEF Told, Answered, TypeOK, x
  <2>2. \A q \in Request \ {r} : Told(q)' = Told(q)
    BY DEF Told, Answered, TypeOK
  <2>3. QED
    BY <2>1, <2>2 DEF ToldView
<1>10. TL!SameCall(r, x) \/ x = r
  BY <1>2, <1>6, <1>7 DEF TL!SameCall, SentView
<1>11. QED
  BY <1>1, <1>2, <1>5, <1>6, <1>8, <1>9, <1>10 DEF TL!Tell, LogView, SentView, ToldView

\* A call's own step up to its end appends a row, tells the caller or does
\* nothing that a client can see.
LEMMA OwnStepSimulates ==
  ASSUME TypeOK, LogInv, EvidenceInv, IdleUnsent, TypeOK', LogInv', NEW r \in Request,
         Step(r) \/ Raise(r) \/ ReleaseRaises(r)
  PROVE  TL!Next \/ UNCHANGED TL!vars
<1> USE DEF store, locals
<1>1. CASE \/ Ping(r) \/ CheckOwner(r) \/ Acquire(r) \/ LockTimeout(r) \/ FindPrior(r)
           \/ GetReplay(r) \/ ReadSnapshot(r) \/ ReadDoc(r) \/ ReloadDoc(r) \/ ReadIndex(r)
           \/ ClassifyTurn(r) \/ EngineStart(r) \/ EngineEnd(r) \/ SaveSnapshot(r)
           \/ SetDoc(r) \/ Raise(r) \/ ReleaseRaises(r)
  <2>1. /\ UNCHANGED <<turns, call>> /\ pc[r] # "done"
        /\ \A q \in Request \ {r} : pc'[q] = pc[q] /\ reply'[q] = reply[q]
        /\ pc'[r] # "done" \/ reply'[r].status # "ok"
    <3>1. CASE Ping(r) \/ CheckOwner(r) \/ Acquire(r) \/ LockTimeout(r)
      BY <3>1 DEF Ping, CheckOwner, Acquire, LockTimeout, Proceed, Fail, Leave, Goto, TypeOK
    <3>2. CASE FindPrior(r) \/ GetReplay(r) \/ ReadSnapshot(r) \/ ReadDoc(r) \/ ReloadDoc(r)
               \/ ReadIndex(r)
      BY <3>2 DEF FindPrior, GetReplay, ReadSnapshot, ReadDoc, ReloadDoc, ReadIndex,
                  Proceed, Fail, Leave, Goto, TypeOK, Holding, PC, MysqlStep, RedisStep
    <3>3. CASE \/ ClassifyTurn(r) \/ EngineStart(r) \/ EngineEnd(r) \/ SaveSnapshot(r)
               \/ SetDoc(r)
      BY <3>3 DEF ClassifyTurn, EngineStart, EngineEnd, SaveSnapshot, SetDoc,
                  Proceed, Fail, Leave, Goto, TypeOK, Holding, PC, MysqlStep, RedisStep
    <3>4. CASE Raise(r) \/ ReleaseRaises(r)
      BY <3>4 DEF Raise, ReleaseRaises, MysqlStep, RedisStep, Fail, Leave, Goto, TypeOK
    <3>5. QED
      BY <1>1, <3>1, <3>2, <3>3, <3>4
  <2>2. Unseen
    BY <2>1 DEF Unseen, Answered
  <2>3. QED
    BY <2>1, <2>2, Stutter
<1>2. CASE AppendUser(r) \/ AppendAssistant(r)
  <2>1. /\ UNCHANGED call /\ pc[r] \in Holding
        /\ \A q \in Request \ {r} : pc'[q] = pc[q] /\ reply'[q] = reply[q]
        /\ pc'[r] # "done" /\ pc[r] # "done"
    BY <1>2 DEF AppendUser, AppendAssistant, AppendTurn, Proceed, Fail, Leave, Goto, TypeOK,
                Holding, PC, MysqlStep
  <2>2. Unseen
    BY <2>1 DEF Unseen, Answered
  <2>3. CASE UNCHANGED turns
    BY <2>1, <2>2, <2>3, Stutter
  <2>4. CASE /\ pc[r] = "append_user" /\ ~ Clashes(UserRow(r))
             /\ turns' = turns \cup {UserRow(r)}
    BY <2>1, <2>2, <2>4, AppendUserAsks DEF TL!Next
  <2>5. CASE /\ pc[r] = "append_assistant" /\ ~ Clashes(AssistantRow(r))
             /\ turns' = turns \cup {AssistantRow(r)}
    BY <2>1, <2>2, <2>5, AppendAssistantAnswers DEF TL!Next
  <2>6. QED
    BY <1>2, <2>3, <2>4, <2>5 DEF AppendUser, AppendAssistant, AppendTurn
<1>3. CASE ReleaseGet(r) \/ ReleaseDelete(r)
  <2>1. /\ UNCHANGED <<turns, call>> /\ pc[r] \in {"release", "delete"}
        /\ \A q \in Request \ {r} : pc'[q] = pc[q] /\ reply'[q] = reply[q]
    BY <1>3 DEF ReleaseGet, ReleaseDelete, Proceed, Goto, TypeOK
  <2>2. CASE pc'[r] # "done" \/ reply'[r].status # "ok"
    <3>1. Unseen
      BY <2>1, <2>2 DEF Unseen, Answered
    <3>2. QED
      BY <2>1, <3>1, Stutter
  <2>3. CASE pc'[r] = "done" /\ reply'[r].status = "ok"
    <3>1. pc' = [pc EXCEPT ![r] = "done"] /\ UNCHANGED reply
      BY <1>3, <2>3 DEF ReleaseGet, ReleaseDelete, Proceed, Goto, TypeOK
    <3>2. QED
      BY <2>1, <2>3, <3>1, ReleaseTells DEF TL!Next
  <2>4. QED
    BY <2>2, <2>3
<1>4. QED
  BY <1>1, <1>2, <1>3 DEF Step

LEMMA StepSimulates ==
  ASSUME TypeOK, LogInv, EvidenceInv, IdleUnsent, TypeOK', LogInv', [Next]_vars
  PROVE  TL!Next \/ UNCHANGED TL!vars
<1> USE DEF store, locals
<1>1. CASE \/ UNCHANGED vars
           \/ \E s \in Session, p \in Principal : CreateSession(s, p)
           \/ \E s \in Session : ExpireLock(s) \/ EvictDoc(s)
           \/ \E w \in Worker : Crash(w)
  <2>1. /\ UNCHANGED <<turns, call, reply>>
        /\ \A q \in Request : pc'[q] = pc[q] \/ (pc[q] # "done" /\ pc'[q] # "done")
    BY <1>1 DEF vars, CreateSession, ExpireLock, EvictDoc, Crash, Running, Live, TypeOK
  <2>2. Unseen
    BY <2>1 DEF Unseen, Answered
  <2>3. QED
    BY <2>1, <2>2, Stutter
<1>2. ASSUME NEW r \in Request, Submit(r)
      PROVE  TL!Next
  BY <1>2, SubmitSends DEF TL!Next
<1>3. QED
  BY <1>1, <1>2, OwnStepSimulates DEF Next

\* run_turn implements the conversation log of TurnLog.tla under every fault: to a
\* client, a session is a log in which a request asks once and is told its own
\* answer or that of the same request made before.
THEOREM ImplementsTurnLogAlways == Spec => ImplementsTurnLog
<1> DEFINE I == TypeOK /\ LogInv /\ EvidenceInv
<1>1. Init => IdleUnsent
  BY DEF Init, IdleUnsent
<1>2. TypeOK /\ IdleUnsent /\ [Next]_vars => IdleUnsent'
  BY IdleUnsentStep
<1>3. Init => TL!Init
  <2> SUFFICES ASSUME Init PROVE TL!Init
    OBVIOUS
  <2>1. \A s \in Session : Entries(s) = <<>>
    <3>1. turns = {}
      BY DEF Init
    <3>2. \A s : Indexes(s) = {}
      BY <3>1 DEF Indexes
    <3>3. \A s : NextTurnIndex(s) = 0
      <4>1. {} = 0 .. 0 - 1
        OBVIOUS
      <4>2. QED
        BY <3>2, <4>1, NextOf DEF NextTurnIndex
    <3>4. QED
      BY <3>3 DEF Entries
  <2>2. \A r \in Request : Sent(r) = Nothing /\ Told(r) = Nothing
    BY DEF Init, Sent, Told, Answered
  <2>3. QED
    BY <2>1, <2>2 DEF TL!Init
<1>4. TypeOK /\ LogInv /\ EvidenceInv /\ IdleUnsent /\ (TypeOK /\ LogInv)' /\ [Next]_vars
        => [TL!Next]_(TL!vars)
  BY StepSimulates
<1>5. QED
  BY <1>1, <1>2, <1>3, <1>4, EvidenceInvariant, PTL DEF Spec, ImplementsTurnLog, TL!Spec
============================================================================
