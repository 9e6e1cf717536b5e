---------------------------- MODULE Coordinator ----------------------------
(***************************************************************************)
(* conversation/coordinator.py: ConversationCoordinator.run_turn, with the *)
(* MySQL tables, the Redis lock and working set, and the single-flight     *)
(* engine guard it goes through.                                           *)
(*                                                                         *)
(* Every HTTP call is a process that advances from one await to the next.  *)
(* Each await on MySQL or Redis is one atomic access of the shared store   *)
(* (a transaction, a Redis command); between two of them any other call,   *)
(* in this or another worker process, may run.                             *)
(***************************************************************************)
EXTENDS Integers, Sequences, FiniteSets, Routing

CONSTANTS
  Session,      \* session ids
  Principal,    \* bearer principals
  Request,      \* identities of HTTP calls (their server-minted trace_id)
  Key, Body,    \* Idempotency-Key values, body fingerprints
  Worker,       \* server processes; the engine guard is per process
  LLMVerdict,   \* the raw classifier outputs considered
  Faults,       \* the faults of the environment that may happen
  NoOne, NoKey, NoDoc, Nothing

\* "redis"  a Redis command raises, before or after it took effect
\* "mysql"  a statement raises, or the refresh after a commit
\* "llm"    the classifier call raises
\* "engine" the graph refuses its input, raises or times out
\* "crash"  a worker process dies
\* "evict"  a working-set key expires
\* "slow_turn"  a turn runs longer than turn_lock_ttl_seconds (default 120 s,
\*              while one engine run alone may take graph_timeout_seconds, 180 s)
FaultKind == {"redis", "mysql", "llm", "engine", "crash", "evict", "slow_turn"}

ASSUME CoordinatorAssumption ==
  /\ Faults \subseteq FaultKind
  /\ LLMVerdict \subseteq RawVerdict
  /\ NoOne \notin Request /\ NoOne \notin Principal
  /\ NoKey \notin Key
  /\ NoDoc \notin Seq(Request)
  /\ Nothing \notin Request
  /\ Nothing \notin [session : Session, principal : Principal,
                     key : Key \cup {NoKey}, body : Body, worker : Worker]
  /\ Nothing \notin [session : Session, key : Key \cup {NoKey}, body : Body]

VARIABLES
  owner,    \* MySQL session: the owning principal of a session, NoOne if absent
  turns,    \* MySQL session_turn: the set of its rows
  snaps,    \* MySQL research_snapshot: the set of its rows
  lock,     \* Redis session:<id>:turn_lock: the call whose token it holds
  doc,      \* Redis session:<id>:doc: the cached state blob
  busy,     \* agents.graph._busy of each worker process
  pc,       \* where each call stands
  call,     \* what each call carries, Nothing before it is made
  prior,    \* local prior_user.turn_index, -1 if none
  base,     \* local snapshot_blob and its index, at = -1 if none
  ti,       \* local ti, the turn index of the user row
  verdict,  \* local intent
  reply     \* what the call returns or raises

store  == <<owner, turns, snaps>>
locals == <<call, prior, base, ti, verdict>>
vars   == <<store, lock, doc, busy, pc, locals, reply>>

----------------------------------------------------------------------------
(* Types *)

Call == [session : Session, principal : Principal,
         key : Key \cup {NoKey}, body : Body, worker : Worker]

\* A state blob is identified with the human messages it carries
\* (messages_serial), each named by the call that brought it.
Blob == Seq(Request)
Base == [at : Nat \cup {-1}, blob : Blob]
NoBase == [at |-> -1, blob |-> <<>>]

\* One row type for both roles: an assistant row has no key and no body_hash,
\* a user row no intent and no confidence.
TurnRow == [session : Session, index : Nat, role : {"user", "assistant"},
            by : Request, key : Key \cup {NoKey}, body : Body \cup {Nothing},
            intent : Intent \cup {"none"}, conf : Confidence]
SnapRow == [session : Session, at : Nat, by : Request, blob : Blob]

Failure == {"pending", "not_found", "mismatch", "degraded", "lock_timeout",
            "graph_timeout", "graph_busy", "integrity", "error"}
Answer == [status : {"ok"}, turn : Nat \cup {-1}, by : Request,
           intent : Intent \cup {"none"},
           conf : Confidence, mode : Mode \cup {"none"}]
Reply == Answer \cup [status : Failure]

\* The awaits of run_turn in program order.
MysqlStep == {"owner", "find", "replay", "snapshot", "index", "append_user",
              "append_assistant", "save"}
RedisStep == {"acquire", "doc", "reload", "set_doc"}
PC == MysqlStep \cup RedisStep \cup
      {"idle", "ping", "classify", "engine", "graph", "release", "delete",
       "done", "dead"}

\* Inside try/finally with a token: the region the turn lock protects.
Holding == PC \ {"idle", "ping", "owner", "acquire", "done", "dead"}
Live == PC \ {"idle", "done", "dead"}

TypeOK ==
  /\ owner \in [Session -> Principal \cup {NoOne}]
  /\ turns \subseteq TurnRow
  /\ snaps \subseteq SnapRow
  /\ lock \in [Session -> Request \cup {NoOne}]
  /\ doc \in [Session -> Blob \cup {NoDoc}]
  /\ busy \in [Worker -> BOOLEAN]
  /\ pc \in [Request -> PC]
  /\ call \in [Request -> Call \cup {Nothing}]
  /\ \A r \in Request : pc[r] # "idle" => call[r] \in Call
  /\ prior \in [Request -> Nat \cup {-1}]
  /\ base \in [Request -> Base]
  /\ ti \in [Request -> Nat]
  /\ verdict \in [Request -> Verdict]
  /\ reply \in [Request -> Reply]

----------------------------------------------------------------------------
(* Queries of the durable store *)

SessionOf(r) == call[r].session
Indexes(s) == {t.index : t \in {u \in turns : u.session = s}}

\* SELECT coalesce(max(turn_index), -1) + 1
NextTurnIndex(s) ==
  1 + CHOOSE m \in Indexes(s) \cup {-1} : \A i \in Indexes(s) : i <= m

SnapsOf(s) == {w \in snaps : w.session = s}

\* ORDER BY after_turn_index DESC LIMIT 1
LatestSnaps(s) == {w \in SnapsOf(s) : \A v \in SnapsOf(s) : v.at <= w.at}

ClashesMutantIndex(row) ==  \* no uq_session_turn_index
  \E t \in turns : t.session = row.session /\ t.key = row.key /\ row.key # NoKey

ClashesMutantKey(row) ==    \* no uq_session_turn_idempotency
  \E t \in turns : t.session = row.session /\ t.index = row.index

\* uq_session_turn_index and uq_session_turn_idempotency (NULLs do not clash).
Clashes(row) ==
  \E t \in turns :
    /\ t.session = row.session
    /\ t.index = row.index \/ (t.key = row.key /\ row.key # NoKey)

Plan(r) == PlanRoute(verdict[r].intent, verdict[r].conf, base[r].at # -1)

----------------------------------------------------------------------------
(* Control *)

Goto(r, step) == pc' = [pc EXCEPT ![r] = step]

\* return or raise: the finally block runs if the lock token was obtained.
Leave(r, answer) ==
  /\ reply' = [reply EXCEPT ![r] = answer]
  /\ Goto(r, IF pc[r] \in Holding THEN "release" ELSE "done")

Fail(r, status) == Leave(r, [status |-> status])

Proceed(r, step) == Goto(r, step) /\ UNCHANGED reply

\* POST /v1/sessions: create_session_row commits the row, then caches an empty
\* doc; the client learns the id only after both.
CreateSession(s, p) ==
  /\ owner[s] = NoOne
  /\ owner' = [owner EXCEPT ![s] = p]
  /\ doc' = [doc EXCEPT ![s] = <<>>]
  /\ UNCHANGED <<turns, snaps, lock, busy, pc, locals, reply>>

\* POST /v1/sessions/{id}/turns arrives at a worker.
Submit(r) ==
  /\ pc[r] = "idle"
  /\ \E c \in Call : call' = [call EXCEPT ![r] = c]
  /\ Goto(r, "ping")
  /\ UNCHANGED <<store, lock, doc, busy, prior, base, ti, verdict, reply>>

Ping(r) ==
  /\ pc[r] = "ping"
  /\ \/ Proceed(r, "owner")
     \/ "redis" \in Faults /\ Fail(r, "degraded")
  /\ UNCHANGED <<store, lock, doc, busy, locals>>

CheckOwner(r) ==
  /\ pc[r] = "owner"
  /\ IF owner[SessionOf(r)] = call[r].principal
       THEN Proceed(r, "acquire")
       ELSE Fail(r, "not_found")
  /\ UNCHANGED <<store, lock, doc, busy, locals>>

\* SET NX PX succeeds.  When its answer is lost the key is set, but the call
\* has no token and releases nothing.
Acquire(r) ==
  /\ pc[r] = "acquire"
  /\ lock[SessionOf(r)] = NoOne
  /\ lock' = [lock EXCEPT ![SessionOf(r)] = r]
  /\ \/ Proceed(r, IF call[r].key = NoKey THEN "snapshot" ELSE "find")
     \/ "redis" \in Faults /\ Fail(r, "error")
  /\ UNCHANGED <<store, doc, busy, locals>>

LockTimeoutMutant(r) ==     \* the turn goes on without a token
  /\ pc[r] = "acquire"
  /\ lock[SessionOf(r)] # NoOne
  /\ Proceed(r, "snapshot")
  /\ UNCHANGED <<store, lock, doc, busy, locals>>

\* The 200 polls, 20 ms apart, all found the key set: the last one does now.
LockTimeout(r) ==
  /\ pc[r] = "acquire"
  /\ lock[SessionOf(r)] # NoOne
  /\ Fail(r, "lock_timeout")
  /\ UNCHANGED <<store, lock, doc, busy, locals>>

FindPriorMutant(r) ==       \* body_hash is not compared
  /\ pc[r] = "find"
  /\ LET found == {t \in turns : t.session = SessionOf(r) /\ t.key = call[r].key}
     IN  \/ found = {} /\ Proceed(r, "snapshot") /\ UNCHANGED prior
         \/ \E t \in found : /\ prior' = [prior EXCEPT ![r] = t.index]
                             /\ Proceed(r, "replay")
  /\ UNCHANGED <<store, lock, doc, busy, call, base, ti, verdict>>

FindPrior(r) ==
  /\ pc[r] = "find"
  /\ LET found == {t \in turns : t.session = SessionOf(r) /\ t.key = call[r].key}
     IN  \/ /\ found = {}
            /\ Proceed(r, "snapshot")
            /\ UNCHANGED prior
         \/ \E t \in found :
              /\ t.body # call[r].body
              /\ Fail(r, "mismatch")
              /\ UNCHANGED prior
         \/ \E t \in found :
              /\ t.body = call[r].body
              /\ prior' = [prior EXCEPT ![r] = t.index]
              /\ Proceed(r, "replay")
  /\ UNCHANGED <<store, lock, doc, busy, call, base, ti, verdict>>

\* intent_confidence "or 1.0": a stored 0.0 comes back as 1.0.
ReplayConf(c) == IF c = 0 THEN Full ELSE c

GetReplay(r) ==
  /\ pc[r] = "replay"
  /\ LET asst == {t \in turns : /\ t.session = SessionOf(r)
                                /\ t.index = prior[r] + 1
                                /\ t.role = "assistant"}
     IN  \/ asst = {} /\ Proceed(r, "snapshot")
         \/ \E t \in asst :
              Leave(r, [status |-> "ok", turn |-> prior[r], by |-> t.by,
                        intent |-> t.intent, conf |-> ReplayConf(t.conf),
                        mode |-> "none"])
  /\ UNCHANGED <<store, lock, doc, busy, locals>>

ReadSnapshot(r) ==
  /\ pc[r] = "snapshot"
  /\ \/ /\ SnapsOf(SessionOf(r)) = {}
        /\ base' = [base EXCEPT ![r] = NoBase]
     \/ \E w \in LatestSnaps(SessionOf(r)) :
          base' = [base EXCEPT ![r] = [at |-> w.at, blob |-> w.blob]]
  /\ Proceed(r, "doc")
  /\ UNCHANGED <<store, lock, doc, busy, call, prior, ti, verdict>>

ReadDoc(r) ==
  /\ pc[r] = "doc"
  /\ Proceed(r, IF doc[SessionOf(r)] = NoDoc /\ base[r].at # -1
                  THEN "reload" ELSE "index")
  /\ UNCHANGED <<store, lock, doc, busy, locals>>

ReloadDoc(r) ==
  /\ pc[r] = "reload"
  /\ doc' = [doc EXCEPT ![SessionOf(r)] = base[r].blob]
  /\ Proceed(r, "index") \/ ("redis" \in Faults /\ Fail(r, "error"))
  /\ UNCHANGED <<store, lock, busy, locals>>

ReadIndex(r) ==
  /\ pc[r] = "index"
  /\ ti' = [ti EXCEPT ![r] = NextTurnIndex(SessionOf(r))]
  /\ Proceed(r, "append_user")
  /\ UNCHANGED <<store, lock, doc, busy, call, prior, base, verdict>>

AppendTurnMutantRetry(r, row, next) ==     \* IntegrityError: take a new index
  \/ Clashes(row) /\ Proceed(r, "index") /\ UNCHANGED turns
  \/ /\ ~ Clashes(row)
     /\ turns' = turns \cup {row}
     /\ Proceed(r, next) \/ ("mysql" \in Faults /\ Fail(r, "error"))

\* append_turn: INSERT and COMMIT in a transaction of its own.  A clash with a
\* unique index raises IntegrityError; the refresh after COMMIT can still fail.
AppendTurn(r, row, next) ==
  \/ /\ Clashes(row)
     /\ Fail(r, "integrity")
     /\ UNCHANGED turns
  \/ /\ ~ Clashes(row)
     /\ turns' = turns \cup {row}
     /\ Proceed(r, next) \/ ("mysql" \in Faults /\ Fail(r, "error"))

UserRow(r) ==
  [session |-> SessionOf(r), index |-> ti[r], role |-> "user", by |-> r,
   key |-> call[r].key, body |-> call[r].body, intent |-> "none", conf |-> 0]

AssistantRowMutant(r) ==    \* the index is read again instead of ti + 1
  [session |-> SessionOf(r), index |-> NextTurnIndex(SessionOf(r)),
   role |-> "assistant", by |-> r, key |-> NoKey, body |-> Nothing,
   intent |-> IF Plan(r) = "clarify_only" THEN "needs_clarification"
              ELSE verdict[r].intent,
   conf |-> verdict[r].conf]

AssistantRow(r) ==
  [session |-> SessionOf(r), index |-> ti[r] + 1, role |-> "assistant", by |-> r,
   key |-> NoKey, body |-> Nothing,
   intent |-> IF Plan(r) = "clarify_only" THEN "needs_clarification"
              ELSE verdict[r].intent,
   conf |-> verdict[r].conf]

AppendUser(r) ==
  /\ pc[r] = "append_user"
  /\ AppendTurn(r, UserRow(r), "classify")
  /\ UNCHANGED <<owner, snaps, lock, doc, busy, locals>>

ClassifyTurn(r) ==
  /\ pc[r] = "classify"
  /\ \E raw \in LLMVerdict :
       /\ verdict' = [verdict EXCEPT ![r] = Classify(raw)]
       /\ Proceed(r, IF PlanRoute(Classify(raw).intent, raw.conf,
                                  base[r].at # -1) = "clarify_only"
                       THEN "append_assistant" ELSE "engine")
  /\ UNCHANGED <<store, lock, doc, busy, call, prior, base, ti>>

\* The full and the synthesizer-only graph share the guard of their process;
\* an input that does not validate (a blank message) never gets to it.
EngineStart(r) ==
  /\ pc[r] = "engine"
  /\ \/ /\ "engine" \in Faults
        /\ Fail(r, "error")
        /\ UNCHANGED busy
     \/ /\ busy[call[r].worker]
        /\ Fail(r, "graph_busy")
        /\ UNCHANGED busy
     \/ /\ ~ busy[call[r].worker]
        /\ busy' = [busy EXCEPT ![call[r].worker] = TRUE]
        /\ Proceed(r, "graph")
  /\ UNCHANGED <<store, lock, doc, locals>>

EngineEndMutant(r) ==       \* no finally: a failing run leaves the guard up
  /\ pc[r] = "graph"
  /\ \/ /\ busy' = [busy EXCEPT ![call[r].worker] = FALSE]
        /\ Proceed(r, "append_assistant")
     \/ /\ "engine" \in Faults
        /\ \E status \in {"graph_timeout", "error"} : Fail(r, status)
        /\ UNCHANGED busy
  /\ UNCHANGED <<store, lock, doc, locals>>

EngineEnd(r) ==
  /\ pc[r] = "graph"
  /\ busy' = [busy EXCEPT ![call[r].worker] = FALSE]
  /\ \/ Proceed(r, "append_assistant")
     \/ /\ "engine" \in Faults
        /\ \E status \in {"graph_timeout", "error"} : Fail(r, status)
  /\ UNCHANGED <<store, lock, doc, locals>>

AppendAssistant(r) ==
  /\ pc[r] = "append_assistant"
  /\ AppendTurn(r, AssistantRow(r),
                IF Plan(r) = "clarify_only" THEN "set_doc" ELSE "save")
  /\ UNCHANGED <<owner, snaps, lock, doc, busy, locals>>

NewBlobMutant(r) ==         \* a synthesizer-only run keeps the old state
  IF Plan(r) = "full_graph" THEN Append(base[r].blob, r) ELSE base[r].blob

NewBlob(r) ==
  IF Plan(r) = "clarify_only" THEN base[r].blob ELSE Append(base[r].blob, r)

SaveSnapshotMutantIndex(r) ==   \* after_turn_index is the question's
  /\ pc[r] = "save"
  /\ snaps' = snaps \cup {[session |-> SessionOf(r), at |-> ti[r],
                           by |-> r, blob |-> NewBlob(r)]}
  /\ Proceed(r, "set_doc") \/ ("mysql" \in Faults /\ Fail(r, "error"))
  /\ UNCHANGED <<owner, turns, lock, doc, busy, locals>>

SaveSnapshotMutantSkip(r) ==    \* a failing save is logged and passed over
  /\ pc[r] = "save"
  /\ \/ snaps' = snaps \cup {[session |-> SessionOf(r), at |-> ti[r] + 1,
                              by |-> r, blob |-> NewBlob(r)]}
     \/ "mysql" \in Faults /\ UNCHANGED snaps
  /\ Proceed(r, "set_doc")
  /\ UNCHANGED <<owner, turns, lock, doc, busy, locals>>

SaveSnapshot(r) ==
  /\ pc[r] = "save"
  /\ snaps' = snaps \cup {[session |-> SessionOf(r), at |-> ti[r] + 1,
                           by |-> r, blob |-> NewBlob(r)]}
  /\ Proceed(r, "set_doc") \/ ("mysql" \in Faults /\ Fail(r, "error"))
  /\ UNCHANGED <<owner, turns, lock, doc, busy, locals>>

SetDoc(r) ==
  /\ pc[r] = "set_doc"
  /\ doc' = [doc EXCEPT ![SessionOf(r)] = NewBlob(r)]
  /\ \/ Leave(r, [status |-> "ok", turn |-> ti[r], by |-> r,
                  intent |-> AssistantRow(r).intent, conf |-> verdict[r].conf,
                  mode |-> Plan(r)])
     \/ "redis" \in Faults /\ Fail(r, "error")
  /\ UNCHANGED <<store, lock, busy, locals>>

\* release_turn_lock is GET, compare, DELETE: two commands.
ReleaseGet(r) ==
  /\ pc[r] = "release"
  /\ Proceed(r, IF lock[SessionOf(r)] = r THEN "delete" ELSE "done")
  /\ UNCHANGED <<store, lock, doc, busy, locals>>

ReleaseDelete(r) ==
  /\ pc[r] = "delete"
  /\ lock' = [lock EXCEPT ![SessionOf(r)] = NoOne]
  /\ \/ Proceed(r, "done")
     \/ /\ "redis" \in Faults
        /\ reply' = [reply EXCEPT ![r] = [status |-> "error"]]
        /\ Goto(r, "done")
  /\ UNCHANGED <<store, doc, busy, locals>>

----------------------------------------------------------------------------
(* The environment *)

\* An await raises and nothing was done.
Raise(r) ==
  /\ \/ "mysql" \in Faults /\ pc[r] \in MysqlStep
     \/ "redis" \in Faults /\ pc[r] \in RedisStep
     \/ "llm" \in Faults /\ pc[r] = "classify"
  /\ Fail(r, "error")
  /\ UNCHANGED <<store, lock, doc, busy, locals>>

\* An exception in the finally block replaces the result of the turn.
ReleaseRaises(r) ==
  /\ "redis" \in Faults
  /\ pc[r] \in {"release", "delete"}
  /\ reply' = [reply EXCEPT ![r] = [status |-> "error"]]
  /\ Goto(r, "done")
  /\ UNCHANGED <<store, lock, doc, busy, locals>>

ExpireLockMutant(s) ==      \* SET NX without PX
  FALSE

\* The lock key's TTL elapses: after its holder is gone, or, if turns may be
\* slower than the TTL, while the holder still runs.
ExpireLock(s) ==
  /\ lock[s] # NoOne
  /\ pc[lock[s]] \in Holding => "slow_turn" \in Faults
  /\ lock' = [lock EXCEPT ![s] = NoOne]
  /\ UNCHANGED <<store, doc, busy, pc, locals, reply>>

EvictDoc(s) ==
  /\ "evict" \in Faults
  /\ doc[s] # NoDoc
  /\ doc' = [doc EXCEPT ![s] = NoDoc]
  /\ UNCHANGED <<store, lock, busy, pc, locals, reply>>

Running(w) == {r \in Request : pc[r] \in Live /\ call[r].worker = w}

\* A worker process dies and is started again: its calls are lost, its module
\* globals are fresh, MySQL and Redis keep what they have.
Crash(w) ==
  /\ "crash" \in Faults
  /\ Running(w) # {}
  /\ pc' = [r \in Request |-> IF r \in Running(w) THEN "dead" ELSE pc[r]]
  /\ busy' = [busy EXCEPT ![w] = FALSE]
  /\ UNCHANGED <<store, lock, doc, locals, reply>>

----------------------------------------------------------------------------

Init ==
  /\ owner = [s \in Session |-> NoOne]
  /\ turns = {}
  /\ snaps = {}
  /\ lock = [s \in Session |-> NoOne]
  /\ doc = [s \in Session |-> NoDoc]
  /\ busy = [w \in Worker |-> FALSE]
  /\ pc = [r \in Request |-> "idle"]
  /\ call = [r \in Request |-> Nothing]
  /\ prior = [r \in Request |-> -1]
  /\ base = [r \in Request |-> NoBase]
  /\ ti = [r \in Request |-> 0]
  /\ verdict = [r \in Request |-> [intent |-> "new_query", conf |-> Full]]
  /\ reply = [r \in Request |-> [status |-> "pending"]]

\* What call r does by itself once it has been accepted.
Step(r) ==
  \/ Ping(r) \/ CheckOwner(r) \/ Acquire(r) \/ LockTimeout(r)
  \/ FindPrior(r) \/ GetReplay(r) \/ ReadSnapshot(r)
  \/ ReadDoc(r) \/ ReloadDoc(r) \/ ReadIndex(r) \/ AppendUser(r)
  \/ ClassifyTurn(r) \/ EngineStart(r) \/ EngineEnd(r)
  \/ AppendAssistant(r) \/ SaveSnapshot(r) \/ SetDoc(r)
  \/ ReleaseGet(r) \/ ReleaseDelete(r)

Next ==
  \/ \E s \in Session, p \in Principal : CreateSession(s, p)
  \/ \E r \in Request : Submit(r) \/ Step(r) \/ Raise(r) \/ ReleaseRaises(r)
  \/ \E s \in Session : ExpireLock(s) \/ EvictDoc(s)
  \/ \E w \in Worker : Crash(w)

Spec == Init /\ [][Next]_vars

\* The event loop runs every ready task, every await is bounded (client and
\* graph timeouts, 200 polls), and Redis expires a key whose TTL is over.
Fairness ==
  /\ \A r \in Request : WF_vars(Step(r))
  /\ \A s \in Session : WF_vars(ExpireLock(s))

FairSpec == Spec /\ Fairness
============================================================================
