----------------------- MODULE CoordinatorProperties -----------------------
(***************************************************************************)
(* What Coordinator.tla is checked for.  The first group holds whatever    *)
(* the environment does, because the MySQL unique indexes carry it; the    *)
(* second group needs the turn lock to outlive the turn; the third group   *)
(* states what the documents promise and the code does not keep.           *)
(***************************************************************************)
EXTENDS Coordinator

Answered(r) == pc[r] = "done" /\ reply[r].status = "ok"

SameCall(r, q) ==
  /\ SessionOf(r) = SessionOf(q) /\ call[r].body = call[q].body
  /\ call[r].key = call[q].key /\ call[r].key # NoKey

IsRow(s, i, role, r) ==
  \E t \in turns : t.session = s /\ t.index = i /\ t.role = role /\ t.by = r

----------------------------------------------------------------------------
(* Under every fault *)

\* The transcript of a session has no gap and no doubled index, although
\* next_turn_index and append_turn are separate transactions and several calls
\* may run them at once.
LogContiguous ==
  /\ \A t \in turns : \A i \in 0 .. t.index : i \in Indexes(t.session)
  /\ \A t, u \in turns : t.session = u.session /\ t.index = u.index => t = u

\* An assistant row sits directly behind the user row of the very call that
\* wrote it: replay by prior.turn_index + 1 relies on it.
AnswerFollowsQuestion ==
  \A t \in turns : t.role = "assistant" =>
    t.index > 0 /\ IsRow(t.session, t.index - 1, "user", t.by)

\* However calls are retried or fail half way, one call leaves at most one user
\* row, one assistant row and one snapshot, and one Idempotency-Key at most one
\* turn in a session, with whatever bodies it is sent.
AppliedOnce ==
  /\ \A t, u \in turns :
       \/ t.by = u.by /\ t.role = u.role
       \/ /\ t.role = "user" /\ u.role = "user"
          /\ t.session = u.session /\ t.key = u.key /\ t.key # NoKey
       => t = u
  /\ \A v, w \in snaps : v.by = w.by => v = w

\* A call that is answered was answered from the log: the rows it reports are
\* there, written by itself or by the earlier call with its key and body.
RepliesAreLogged ==
  \A r \in Request : Answered(r) =>
    LET a == reply[r]
    IN  /\ a.by = r \/ SameCall(r, a.by)
        /\ IsRow(SessionOf(r), a.turn, "user", a.by)
        /\ IsRow(SessionOf(r), a.turn + 1, "assistant", a.by)

\* A snapshot belongs to an answer that is in the log, and there is one at most
\* per answer, without any unique index on research_snapshot.
SnapshotsMatchAnswers ==
  /\ \A w \in snaps : IsRow(w.session, w.at, "assistant", w.by)
  /\ \A v, w \in snaps : v.session = w.session /\ v.at = w.at => v = w

\* The Redis working set never holds state MySQL does not have.
CacheBehindStore ==
  \A s \in Session :
    doc[s] \in {NoDoc, <<>>} \cup {w.blob : w \in SnapsOf(s)}

\* The engine guard of a process is up exactly while one of its calls is in the
\* graph, after failures, timeouts and restarts too.
SingleFlight ==
  /\ \A w \in Worker :
       busy[w] <=> \E r \in Running(w) : pc[r] = "graph"
  /\ \A q, r \in Request :
       pc[q] = "graph" /\ pc[r] = "graph" /\ call[q].worker = call[r].worker
         => q = r

\* run_turn implements the conversation log of TurnLog.tla.
Entries(s) ==
  [i \in 1 .. NextTurnIndex(s) |->
     LET t == CHOOSE t \in turns : t.session = s /\ t.index = i - 1
     IN  [role |-> t.role, by |-> t.by]]

Sent(r) ==
  IF call[r] = Nothing THEN Nothing
  ELSE [session |-> call[r].session, key |-> call[r].key, body |-> call[r].body]

Told(r) == IF Answered(r) THEN reply[r].by ELSE Nothing

TL == INSTANCE TurnLog WITH
        log  <- [s \in Session |-> Entries(s)],
        sent <- [r \in Request |-> Sent(r)],
        told <- [r \in Request |-> Told(r)]

ImplementsTurnLog == TL!Spec

----------------------------------------------------------------------------
(* While the turn lock outlives the turn *)

\* At most one call per session is between taking its lock token and releasing
\* it, and the lock is its own.
OneTurnAtATime ==
  \A r \in Request : pc[r] \in Holding =>
    /\ lock[SessionOf(r)] = r
    /\ \A q \in Request : pc[q] \in Holding /\ SessionOf(q) = SessionOf(r) => q = r

\* Each snapshot extends the one before it in its session: no turn is computed
\* from a state that another turn has meanwhile replaced (FR-013).
NoLostUpdate ==
  \A w \in snaps :
    LET earlier == {v \in SnapsOf(w.session) : v.at < w.at}
    IN  \/ earlier = {} /\ w.blob = <<w.by>>
        \/ \E v \in earlier :
             /\ \A u \in earlier : u.at <= v.at
             /\ w.blob = Append(v.blob, w.by)

Researched(r) ==
  Answered(r) /\ reply[r].by = r /\ reply[r].intent # "needs_clarification"

\* A researched answer is part of the state every later turn starts from as soon
\* as the call that made it has returned it (SC-004).
Remembers(s, r) ==
  \E w \in LatestSnaps(s) : \E i \in 1 .. Len(w.blob) : w.blob[i] = r

AnswersRemembered ==
  \A r \in Request : Researched(r) => Remembers(SessionOf(r), r)

\* A turn is refused by a unique index for one reason only: an earlier call with
\* its key and body has ended between its question and its answer.  Two turns
\* never race for an index, although it is read in one transaction and used in
\* two others.
HalfTurn(q) ==
  /\ pc[q] \in {"done", "dead"}
  /\ \E t \in turns : t.by = q
  /\ \A t \in turns : t.by = q => t.role = "user"

RefusedByHalfTurn ==
  \A r \in Request : reply[r].status = "integrity" =>
    \E q \in Request \ {r} : SameCall(r, q) /\ HalfTurn(q)

\* run_turn implements the memory of TurnMemory.tla: turns of a session work one
\* after the other on what the one before has saved, and whoever has a researched
\* answer finds it remembered, whatever fails in between.
BeforeTurn == {"idle", "ping", "owner", "acquire", "find", "replay", "snapshot"}
InTurn == {"doc", "reload", "index", "append_user", "classify", "engine", "graph",
           "append_assistant", "save"}

Memory(s) ==
  IF SnapsOf(s) = {} THEN <<>> ELSE (CHOOSE w \in LatestSnaps(s) : TRUE).blob

Turn(r) ==
  CASE pc[r] \in BeforeTurn -> [stage |-> "before"]
    [] pc[r] \in InTurn -> [stage |-> "running", session |-> SessionOf(r),
                            given |-> base[r].blob]
    [] OTHER -> [stage |-> "over"]

TM == INSTANCE TurnMemory WITH
        memory <- [s \in Session |-> Memory(s)],
        turn   <- [r \in Request |-> Turn(r)],
        told   <- {r \in Request : Researched(r)}

ImplementsTurnMemory == TM!Spec

----------------------------------------------------------------------------
(* Under fair scheduling *)

\* Every accepted call is eventually answered, refused or lost with its worker:
\* waiting for a turn lock never lasts for ever.
CallsEnd == \A r \in Request : pc[r] = "ping" ~> pc[r] \in {"done", "dead"}

\* No failure and no crash leaves a session locked for ever.
LocksFreed == \A s \in Session : lock[s] # NoOne ~> lock[s] = NoOne

----------------------------------------------------------------------------
(* A promise of the documents that the code does not keep *)

\* contracts/session-api.md:38 - an Idempotency-Key "if repeated with same body,
\* returns same result": at the least, the retry is not refused because the
\* first attempt got as far as its user row.
RetryNotRefused ==
  \A r, q \in Request :
    reply[r].status = "integrity" /\ r # q /\ SameCall(r, q) =>
      \A t \in turns : t.by # q
============================================================================
