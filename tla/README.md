# A verification project for researchSwarm

researchSwarm answers research questions in conversation sessions. A browser
talks to an HTTP service; the service keeps sessions in MySQL and Redis, decides
with a classifier what a message asks for, and runs a LangGraph loop of four
agents, which find tools in a registry service and invoke them. This directory
holds TLA+ models of that program, TLC configurations that check them, and
TLAPS proofs. Source paths below are relative to `src/`.

- [The system](#the-system): components, state, interactions, what is hard
- [Modules](#modules): which module models what, and how
- [Runs](#runs): what TLC checks, within which bounds and under which fairness
- [Proofs](#proofs): what TLAPS proves, and along which argument
- [Where code and documents disagree](#where-code-and-documents-disagree)
- [Not modelled](#not-modelled)

To check a run or a proof module, in this directory:

    tlc -config CoordinatorFaults.cfg MCCoordinator
    tlapm CoordinatorProofs.tla

## The system

| Component | Code | State it keeps | Operations |
|---|---|---|---|
| Conversation coordinator | `conversation/coordinator.py`, `authz.py`, `config.py` | locals of each call | `create_session_row`, `run_turn` |
| Session store | `conversation/persistence/mysql_store.py`, `mysql_models.py` | tables `session`, `session_turn`, `research_snapshot` | insert and query, one transaction each |
| Working set and turn lock | `conversation/persistence/redis_store.py` | `session:<id>:doc` (TTL one day), `session:<id>:turn_lock` (TTL 120 s) | get/set doc, acquire/release lock, ping |
| Classifier and routing | `conversation/intent.py`, `routing.py` | none | `classify`, `plan_route` |
| Engine input and state blob | `conversation/merge.py` | none | `build_engine_input`, `state_blob_from_graph_result` |
| HTTP surface | `conversation/api/routes.py` | none | `POST /v1/sessions`, `POST /v1/sessions/{id}/turns` |
| Research graph | `agents/graph.py`, `state.py`, `nodes/*` | module global `_busy`; `ResearchState` of a run | single-flight guard, researcher, analyst, critic, synthesizer |
| Tool discovery | `agents/tools/discovery.py` | locals of a pass | search, select, bind, invoke, fall back, record usage |
| Registry client | `agents/tools/registry_client.py` | one HTTP client | `search`, `bind`, `log_usage`, `invoke` |
| Tool registry | `registry/routers/*`, `search.py`, `models.py`, `database.py` | tables `tools`, `tool_capabilities`, `tool_usage_logs` | register, update, delete, health check, search, bind, usage log |
| Registry seed | `registry/seed.py` | none | one transaction over the tables |
| Registry statistics | `registry/routers/stats.py`, `stats_percentiles.py`, `usage.py` | rows of `tool_usage_logs` | usage posts, aggregate queries, percentiles |
| Web session | `web/src/lib/session-store.ts`, `hooks/useSession.tsx`, `components/chat/ChatView.tsx` | localStorage record; React state of a tab | bootstrap, send, new session, recover, retry |
| Web pages | the rest of `web/src/` | state of a page | catalogue and statistics views |
| Registry application, tracing, prompts, migrations | `registry/app.py`, `agents/tracing.py`, `agents/prompts/`, `alembic/` | none a decision reads | wiring, spans, texts, schema |

How they interact:

- **Browser → HTTP surface.** A tab creates a session under a random principal id
  and posts turns. Answers arrive in any order relative to clicks; several tabs
  share one localStorage record.
- **HTTP surface → coordinator.** One coroutine per call, several worker
  processes. Between two awaits any other call may run.
- **Coordinator → MySQL and Redis.** Every store call is a transaction of its
  own, or one Redis command: `next_turn_index` and `append_turn` are two
  transactions, acquiring, comparing and deleting the lock are three commands. The turn
  lock is polled (200 times), has a TTL that is never renewed, and is released
  in a `finally` block.
- **Coordinator → research graph.** A turn starts from the last snapshot and ends
  by writing the next. The guard `_busy` admits one run per process; a timeout
  cancels the run.
- **Researcher → discovery → registry.** A pass searches, lets an LLM choose,
  binds and invokes candidates in turn, and posts a usage row after each attempt,
  in a `finally` block that also runs on cancellation.
- **Statistics page → registry.** Every change of a filter field sends a request of
  its own; answers arrive in any order, while usage posts commit.
- **Operators, health checks and the seed script → registry.** Concurrent
  transactions on the same rows, each with an old snapshot of them.

What is hard about it, and what makes each part correct:

| Part | Hard behaviour | Correct if |
|---|---|---|
| Coordinator, stores | interleaved calls of a session, a lock that expires under its holder, retries after half a turn, crashes between three stores | the transcript has no gap, an answer follows its question, a call and a key are applied once, replies come from the log, snapshots are never lost or ahead of it; everyone who waits is served or refused |
| Research graph, merge | failing nodes inside a loop, state inherited from turn to turn, failed and cancelled turns in between | the loop ends below its limits, a verdict is about the findings at hand, questions do not mix, context and sources are complete |
| Discovery | an LLM that names tools twice or wrongly, tools that change under a pass, lost answers, cancellation | each tool is tried once, the answer is returned, the log has one row per attempt |
| Tool arguments | four stages that read one schema in four ways, written by whoever registered the tool | a request fits the schema, and a schema that says what its names say is never refused |
| Statistics | two queries over rows that are being written; late answers of earlier filters | an answer describes one moment, what was acknowledged is counted, the page never waits for nothing |
| Registry | transactions that read old rows, unique indexes, locks, rollback half way | nothing of a failed call stays, a call's capabilities stay together, fields a call leaves out keep their value, no deadlock |
| Web session | double effects, late answers of abandoned sessions, two tabs, storage that fails | page and store agree, a session goes with its principal, answers appear where they belong, there is always a way on |

`PROJECT.json` lists the hazards one by one, with the line where each bites and
the properties that would catch it.

## Modules

| Module | Contents |
|---|---|
| `TurnLog` | abstract specification: what a client is promised about a transcript |
| `TurnMemory` | abstract specification: what the turn lock is for, turns that take effect one after the other |
| `Routing` | `classify` and `plan_route`, over a confidence that is 0.0, below, or at least the threshold |
| `Coordinator` | `run_turn` and `create_session_row`, MySQL, Redis, the engine guard, the faults |
| `CoordinatorProperties` | its properties, and the refinement mappings to `TurnLog` and `TurnMemory` |
| `CoordinatorProofs` | theorems about the log, replies, the lock, and the implementation of `TurnLog` |
| `SessionStateProofs` | theorems about the engine guard, the cache, the chain of snapshots, refusals, and the implementation of `TurnMemory` |
| `ResearchGraph`, `ResearchGraphProofs` | the graph, its input and its snapshot over the turns of a session; theorems |
| `ToolDiscovery`, `ToolDiscoveryProofs` | one discovery pass after another, against a registry that changes; theorems |
| `ToolArguments`, `ToolArgumentsProofs` | from a question to the HTTP request of one attempt; theorems |
| `ToolRegistry`, `ToolRegistryProofs` | the registry's write handlers and the seed as MySQL transactions; theorems |
| `RegistryStatistics`, `RegistryStatisticsProofs` | usage posts, the statistics query and the page that shows it; theorems |
| `WebSession`, `WebSessionProofs` | SessionStore, SessionProvider and ChatView in several tabs; theorems |
| `MC*` | values and symmetry for TLC |

`Coordinator` and `ResearchGraph` both extend `Routing`. They meet in the
snapshot: `Coordinator` treats a state blob as the sequence of human messages it
carries and asks which turn's snapshot survives; `ResearchGraph` takes the turns
of a session one after the other, which is what the lock is for, and asks what a
blob contains. `ToolDiscovery` sees a registry handler as one atomic change,
`ToolRegistry` opens those handlers up; `ToolDiscovery` sees an invocation as one
await, `ToolArguments` opens up what is sent in it; `RegistryStatistics` reads the
usage rows that `ToolDiscovery` writes.

### Coordinator

Each HTTP call is a process. Its `pc` is the await of `run_turn` it stands
before, and each action is the await and the synchronous code up to the next one:

| Action | `run_turn` |
|---|---|
| `Submit`, `Ping`, `CheckOwner` | a call arrives; Redis ping (503 if down); owner check (404) |
| `Acquire`, `LockTimeout` | one poll of `SET NX PX`; 200 polls without success |
| `FindPrior`, `GetReplay` | idempotency lookup (409 on another body); the assistant row at `prior + 1` |
| `ReadSnapshot`, `ReadDoc`, `ReloadDoc` | last snapshot; working doc, rewritten from MySQL if missing |
| `ReadIndex`, `AppendUser` | `max + 1`; the user row with its key |
| `ClassifyTurn` | classifier, `plan_route`; clarification goes straight to the answer |
| `EngineStart`, `EngineEnd` | test and set of `_busy`; the graph returns or fails |
| `AppendAssistant`, `SaveSnapshot`, `SetDoc` | assistant row, snapshot, working doc |
| `ReleaseGet`, `ReleaseDelete` | the `finally` block: GET and compare, then DELETE |
| `Raise`, `ReleaseRaises` | an exception at any await, with the effect of a commit or a command whose answer was lost; an exception that leaves the `finally` block itself |
| `ExpireLock`, `EvictDoc`, `Crash` | TTLs; a worker process dies and its module globals are fresh |

`Faults` says which of these may happen, so that a run can ask what still holds
without one of them. `"slow_turn"` allows the lock to expire under a live holder;
without it the TTL only frees locks of calls that are gone. The two unique
indexes of `session_turn` are guards of the inserts. `lock[s]` names the call
whose token the key holds, because tokens are fresh uuids.

### ResearchGraph

One action per node outcome (`ResearcherFails`, `ResearcherFinds`, `Analyst`,
`CriticFails`, `CriticJudges`, `SynthesizerWrites`, `SynthesizerUnparsed`,
`SynthesizerFails`) with the conditional edges of the compiled graph, `Begin`
for `build_engine_input` and `Persist` for `state_blob_from_graph_result`,
`TimeOut` and `Lose` for a run that leaves no snapshot. Texts are named by what
they are about. `constraints`, messages, errors and token counts are left out;
no decision reads them.

### ToolDiscovery

`pc` follows `_arun`; LLM selections are arbitrary sequences of ids, also
unknown and repeated ones. Attempts and usage rows are recorded separately, so
that the log can be compared with what happened. A POST is answered after its commit
or given up (`GiveUp`: httpx timeout, dropped connection, cancellation). The
registry's handler does not hear of the latter: the row is in `late`, from where
`CommitLate` may append it at any time, after the rows of later attempts and passes.
No fairness makes it; a row that stays in `late` is one that was lost. `Cancel` is the
graph timeout at any await, with the `finally` block's own POST.

The candidate order is stated by what it must be (`OrderedCandidates`: the
selected ids, each where it is first mentioned, cut to the budget), not by the
loops that build it.

### ToolArguments

`Build` is `build_tool_payload` and the Wikipedia override of `_arun`; `Validate`
and `Refuse` are the pydantic model that `build_dynamic_tool` derives from the
schema; `Dispatch` and `UnsupportedMethod` are `RegistryClient.invoke` with its
URL template. A value is its JSON type and where it comes from (the question, the
caller's constraints, the gaps, a default, a fallback); wording is left out, but
every stage's own reading of the schema is kept: names that stand for the
question, properties that are not objects, types that are missing or lists, required
names without a property, defaults of any type. What pydantic accepts is modelled by
how the code depends on it: `Fits` always passes, `MayFit` passes for some values
("5" as an integer), everything else is refused, `null` included. Arguments that
were not given are passed with their default or left out, because that differs
between the versions of langchain-core the project admits. Names that pydantic or
LangChain keep for themselves are not considered.

### ToolRegistry

A call is a transaction: `Read` fixes the REPEATABLE READ snapshot at its first
SELECT, `Write` is a flush that waits for the row lock and may hit a unique
index, `Commit` makes the changes visible. Three facts about the libraries
matter and are modelled: SQLAlchemy's UPDATE has only the columns whose value
differs from the loaded one (`Column`); a capability row is deleted by its id,
so rows that a concurrent call inserted survive (`CapsAfter`); and the pinned
FastAPI finishes `get_db`, and so commits, after the response (`Respond`
before `Commit`). The seed inserts missing entries first, then synchronises the
others, one row lock after the other (`Rank` gives each row its turn in the run,
`NextTool` is the one it asks for next). The descriptive columns are
one value, named by who wrote it. Not modelled: a COMMIT whose answer is lost,
and the contents of a response.

### RegistryStatistics

A post of `create_usage_log` goes through `Look`, `Insert`, `Commit`: unlike the
other handlers it commits before it answers. A statistics call goes through
`QueryRows` and `QueryLatencies`, two queries of one transaction whose first SELECT
fixes the snapshot. `Report` is both queries and the percentiles: `Listed` is the
outer join with its filters, `Percentile` is `percentile_linear_sorted` in
twentieths, so that p95 is an integer. `ORDER BY latency_ms` is any ascending order
of the rows (`Ascending`); `Series` takes one of them. `Open`, `ChangeFilter`, `Retry`, `Deliver`,
`DeliverError` and `Leave` are StatsPage over `useApi`; what it shows is named by the
filter it answers. `passed` is a history of the contents the tables had while a
call was under way. The properties compare the answer with a definition of counts
and quantiles of their own, which knows no join, no sorting and no ranks. Averages, the
error rate, names and rounding are left out.

### WebSession

An action is a JavaScript task: a click, an effect, the arrival of an answer,
with its state updates and the re-render they cause. `Render` unmounts ChatView
when ChatPage shows something else, and empties the thread on another
`sessionId`. Flights remember the session they were sent in and whether their
ChatView is still mounted. `"dev"` runs the bootstrap effect twice (StrictMode
in `main.tsx`), `"private"` opens a tab without localStorage, `"quota"` makes a
`setItem` throw. The server follows the documented SSE contract. Not modelled:
stage labels, `sendError`, a user who clears site data, and a `getItem` that
throws after the probe succeeded.

## Runs

All runs say `CHECK_DEADLOCK FALSE`, because the systems really stop: calls,
passes and turns are bounded by the constants, and a finished system is quiet.
Symmetry is used over sets whose members no definition tells apart (calls, URLs,
tabs, sessions, principals), and only in runs without liveness properties.

| Run | Question | Bounds | States |
|---|---|---|---|
| `CoordinatorFaults` | What holds whatever fails, slow turns included? | 1 session, 2 calls, 2 workers, 1 key, 2 bodies, 3 verdicts, all seven faults | 1 486 927 |
| `CoordinatorLock` | What does the lock add, while it outlives the turn? | 1 session, 2 calls, 1 worker, 1 key, 1 body, faults without `slow_turn` and `llm`, fairness | 78 271 |
| `ResearchTurns` | Is state right from turn to turn, and does each run end? | 3 turns, budget 2, 1 URL, 1 gap and the default gap, fairness | 401 337 |
| `DiscoveryPasses` | Do fallback, result and log agree? | 2 tools and an unknown id, 2 attempts, 2 passes, all faults, fairness | 298 096 |
| `ToolArguments` | Does a request fit the schema, and does a sound schema get through? | 6 names, schemas of up to 3 properties, 5 endpoints, 5 constraints | 423 040 |
| `RegistryCalls` | What do concurrent transactions leave behind? | any 2 calls, 2 tools, 2 tags, aborts and crashes | 647 271 |
| `UsageStatistics` | Do answers describe what is in the tables, and does the page get them? | 2 tools, 3 old rows, 1 post, 2 requests, 3 latencies, 4 filters, 1 tick, both faults | 513 223 |
| `WebTabs` | Do store, page and server agree? | 2 tabs, 2 sessions, 2 principals, 2 requests of a kind in flight in all, 1 turn shown, all faults | 413 887 |
| `LostUpdate` | counterexample to `NoLostUpdate` | 2 calls, `slow_turn` | |
| `PoisonedKey` | counterexample to `RetryNotRefused` | 2 calls, `engine` | |
| `RetirementUndone` | counterexample to `RetirementLasts` | 2 calls, no faults | |
| `StaleFilter` | counterexample to `ShownIsFiltered` | as `UsageStatistics` | |

What the passing runs show:

- **`CoordinatorFaults`** `LogContiguous`, `AnswerFollowsQuestion`,
  `AppliedOnce`, `RepliesAreLogged`, `SnapshotsMatchAnswers`: the MySQL unique
  indexes alone carry the transcript and idempotency. Even if the lock fails, one of
  two interleaved calls dies on an index. `CacheBehindStore`: the working doc
  never holds what MySQL does not. `SingleFlight`: the guard of a process is up exactly
  while one of its calls is in the graph, also after failures and restarts. Two
  calls suffice for an interleaving, a retry or a key conflict; two bodies for a
  mismatch; two workers for a call that survives the other's crash.
- **`CoordinatorLock`** `OneTurnAtATime`; `RefusedByHalfTurn`: two turns never race
  for an index, so an IntegrityError always means that an earlier call with the same
  key and body ended between its question and its answer. `ImplementsTurnLog`:
  refinement with `INSTANCE TurnLog WITH`, where the log is the rows in index order
  and `told` is whose answer a call returned. `ImplementsTurnMemory`: the same with
  `TurnMemory`, where the memory of a session is the blob of its latest snapshot, a turn
  runs from `ReadSnapshot` to `SaveSnapshot` or to its failure, and `told` are the calls
  that returned a researched answer of their own; so each turn works on what the
  one before has saved, and whoever has an answer finds it remembered. `CallsEnd`,
  `LocksFreed`: nobody waits for ever. Larger numbers of calls, sessions and workers
  are the proofs' business: all of these except the two liveness properties are
  theorems.
- **`ResearchTurns`** `PassIsCurrent`, `RefusalNamesGaps`, `FindingsCited`,
  `QuestionsKeptApart`, `ContextIsHistory`, `LightKeepsResearch`, `LoopBounded`,
  `RunsEnd`. Three turns are needed to see a failed turn between two that build on
  each other; budget 2 to see a loop back. That the largest budget stays below
  LangGraph's 25 supersteps is a theorem for every budget.
- **`DiscoveryPasses`** `FallbackDiscipline`, `AnswerReturned`,
  `UsageMatchesAttempts`, `PassEnds`. Two passes, because the log outlives a pass, and
  a row of the first may be committed in the second. The order of the rows is
  promised only for a pass that gave up no POST: otherwise it is not the order of the
  attempts.
- **`ToolArguments`** `RequestFitsSchema`: nothing undeclared is sent, the Wikipedia
  override included, nothing twice, each argument with its type, and every declared
  required argument, except on a GET whose URL has placeholders: there the code drops
  all others (see the divergences), and the property asks only for those in the URL.
  `AgreeingToolIsCalled`: what the properties of a schema say and what their names
  say agree, then the tool is called, with the question and the caller's
  constraints where they belong. The names are one of each meaning, one synonym and
  three plain ones; every combination of type, default and requirement is an
  initial state.
- **`RegistryCalls`** `RefusedLeavesNothing`, `CapabilitiesWhole`,
  `LastReplaceHolds`, `OmittedFieldsKept`, `NoDeadlock`. Two calls of every kind
  and content, so that each pair of handlers meets at each statement; the seed has an
  inactive and an ordinary entry, present or missing at the start. `NoDeadlock` is about
  one exclusive lock per tool. InnoDB's gap and shared locks, and the locks on
  capability rows that a PUT takes before that on its tool (`register.py:103`), are not
  in the model: there MySQL may still find a deadlock and roll a call back, which
  `Abort` does at any statement. A call that fails at its COMMIT behind a 2xx counts as
  answered in `RefusedLeavesNothing`.
- **`UsageStatistics`** `AnswersAreSnapshots`, `CreatedIsCounted`, `OutcomeShown`.
  Three old rows put p50 on a value and, with a fourth, p50 and p95 between two; a
  second tool without rows shows what the outer join leaves out; one tick
  separates rows before `since` from those after.
- **`WebTabs`** `StoreFollowsTab` (for a tab that is alone, while it is open: it
  says nothing of the next visit), `PairOwned`, `ShownInItsSession`,
  `WaitsForSomething`, `WayOut` (a way out may be a click on Retry). Two requests of a
  kind overlap, two sessions make one of them stale.

Bounds besides the sets: `MaxTurns` (turns of a conversation in
`ResearchGraph`, turns a thread shows in `WebSession`), `Passes` and
`MaxAttempts` (the latter is the tool's `max_attempts`), `MaxInFlight`, `MaxTime`. A
double bootstrap in the development build may exceed `MaxInFlight`, because it
is one effect. `Coordinator` needs no counter bound: a call runs once.

**Fairness.** `Coordinator`: weak fairness of each call's `Step`, because the event
loop runs every ready task, awaits are bounded by client and graph timeouts, and
acquiring ends after 200 polls; weak fairness of `ExpireLock`, because Redis
expires keys. Faults, crashes and evictions are never forced. `Acquire` needs no
strong fairness: a call that never gets the lock leaves by `LockTimeout`.
`ResearchGraph`: weak fairness of `Run`; `RunsEnd` does not use the graph
timeout. `ToolDiscovery`: weak fairness of `Step`. The other runs assume none:
`OutcomeShown`, `WaitsForSomething` and `WayOut` say as invariants that whoever waits
has something under way, because nothing in the code bounds a `fetch` in a browser.

Every property of a passing run has a mutant in the modules, a definition whose
name contains `Mutant`: the change a plausible bug would make, under which TLC finds that
property violated.

## Proofs

The theorems hold for every value of the constants that meets the modules' named
assumptions. Those say that special values (`NoOne`, `NoKey`, `Nothing`, ...) are
not in the sets they are told apart from, that `Threshold` is a step of the confidence
scale, that the research budget is from 1 to 5 as `validate_graph_input` demands,
that the seed list names no tool twice, and that old usage rows are finitely many.
TLC evaluates each of them in the runs. Type correctness is a theorem
(`TypeCorrect`) of every proof module and therefore no invariant of a run.

| Module | Theorems about the runs' properties | Inductive invariant |
|---|---|---|
| `CoordinatorProofs` | `LogContiguousAlways`, `AnswerFollowsQuestionAlways`, `AppliedOnceAlways`, `RepliesAreLoggedAlways`, `SnapshotsMatchAnswersAlways`, `ImplementsTurnLogAlways` under every fault; `OneTurnAtATimeAlways` if `"slow_turn" \notin Faults` | `LogInv`, `EvidenceInv`, `IdleUnsent`, `OwnLock` |
| `SessionStateProofs` | `SingleFlightAlways`, `CacheBehindStoreAlways` under every fault; `NoLostUpdateAlways`, `AnswersRememberedAlways`, `RefusedByHalfTurnAlways`, `ImplementsTurnMemoryAlways` if `"slow_turn" \notin Faults` | `StateInv`, `TurnInv`, `RefusalInv` |
| `ResearchGraphProofs` | `LoopBoundedAlways`, `PassIsCurrentAlways`, `RefusalNamesGapsAlways`, `ContextIsHistoryAlways`, `FindingsCitedAlways`, `QuestionsKeptApartAlways`, `LightKeepsResearchAlways` | `LoopInv`, `VerdictInv`, `CitedInv`, `LightInv` |
| `ToolDiscoveryProofs` | `FallbackAlways`, `AnswerReturnedAlways`, `UsageMatchesAlways`; `CandidatesDetermined` | `Placed`, `Loop`, `LogInv` |
| `ToolArgumentsProofs` | `RequestFitsSchemaAlways`, `AgreeingToolIsCalledAlways` | `AttemptInv` |
| `ToolRegistryProofs` | `RefusedLeavesNothingAlways`, `CapabilitiesWholeAlways`, `LastReplaceHoldsAlways`, `OmittedFieldsKeptAlways`, `NoDeadlockAlways` | `IInv` |
| `RegistryStatisticsProofs` | `OutcomeShownAlways`, `CreatedIsCountedAlways`, `AnswersAreSnapshotsAlways`; `PercentilesInOrderAlways`; `SeriesInOrder`, `PercentileIsQuantile`, `PercentileInRange`, `PercentilesOrdered` | `StatsInv` |
| `WebSessionProofs` | `StoreFollowsTabAlways`, `PairOwnedAlways`, `ShownInItsSessionAlways`, `WaitsForSomethingAlways`, `WayOutAlways` | `IInv` |

*The log (`LogInv`).* `LogContiguous` is not inductive: from a state in which a call
stands before `append_user` with an index far above the rows, the insert leaves
a gap. `LogInv` adds what a call has written at each `pc` (`RowOfPhase`,
`RowOfCall`, `OneRowPerRole`, `OwnRows`), that below the index it read everything is in
use (`NoGapBelow`), that rows stay unique by index and by key (`UniqueIndex`,
`UniqueKey`), and that the indexes of a session are `0 .. n - 1` (`Dense`). Rows
are never deleted, so `NoGapBelow` survives all other calls; this is why no lock is
needed for it.

*Replies (`EvidenceInv`).* A reply is built from locals: the turn index a call
remembers, the prior row it found. The invariant says each of them is backed
by rows (`KeyKnown`, `PriorIsRow`, `OkHasEvidence`) and each snapshot by its
answer (`SnapsHaveAnswers`, `SnapsOfPhase`, `OneSnapPerCall`).

*The implementation of `TurnLog` (`ImplementsTurnLogAlways`).* Initial states map to
initial states, and each step maps to a step or a stutter: `Submit` is `Send`, a
user row that clashes with no index is `Ask`, an assistant row is `Answer`, the last
command of the `finally` block is `Tell` if the reply is a result, and everything
else is invisible to a client. `LogOfRows` and `LogGrows` turn rows into
sequences: in a dense log the next row is the next entry. `OwnRows` says why an
answer follows its own question, `EvidenceInv` why what is told is in the log.

*The lock (`OwnLock`).* Without slow turns a lock disappears only with its holder or
with a holder that is gone, so whoever is in the protected region owns the key;
a compared and not yet deleted lock (`ReleaseDelete`) is still its own.

*The state (`StateInv`, `TurnInv`).* `StateInv`, under every fault: the state a call
works on is `NoBase` or a stored snapshot, and a researched turn is answered only
after its own snapshot was saved. `TurnInv`, under the lock: the base of whoever is
between reading and saving is still the latest snapshot (`FreshBase`), no row lies
behind its own (`TopRow`), a session with snapshots has a latest one
(`LatestExists`), and a snapshot carries all before it (`Grown`). `NoLostUpdate`
alone does not survive a save: without `FreshBase` the saved state could extend an
older one. `NoLostUpdate` and `AnswersRemembered` are theorems under the lock;
without it the first is refuted by the run `LostUpdate`.

*The implementation of `TurnMemory` (`ImplementsTurnMemoryAlways`).* `ReadSnapshot` is
`Start`: no other turn of the session runs, because both would own its lock.
`SaveSnapshot` is `Remember`: the base still is what the session remembers
(`BaseIsMemory`, from `FreshBase`), and the saved row is the only latest one
(`SavedIsLatest`, from `TopRow`; `OneLatest` says that `ORDER BY ... LIMIT 1` leaves no
choice). The last command of the `finally` block is `Tell` if the reply is a
researched answer of its own, which the latest snapshot contains (`Grown`). Every other
step is `Stop` of the calls it ends, by a failure, a clarification, a replay or a crash;
mostly of none.

*Refusals (`RefusalInv`).* A call that is past the lookup of its key and has not
inserted its row either found no row with that key, and then none appears, since
whoever writes one would hold the same lock; or it found one without an answer behind
it. The call that wrote this row has ended, again because of the lock, so it stays a
half turn for ever (`SpentKept`). A clash of indexes is excluded by `TopRow`.

*Research.* `LoopInv`: `steps` is three per completed round plus the node's place in
it, which bounds it by the budget. `VerdictInv`, `CitedInv`: what is said of the
running turn also holds of what the next will be given. `LightInv`: in a light
turn the research part of the state is the snapshot's.

*Discovery.* `Loop` says where the fallback loop stands: the candidates before
`index` are those invoked or skipped, and all attempts but a successful last one
failed. `LogInv` says which attempts have their row at each await, that every row sent,
committed or late, reports an attempt of its pass (`Explained`), and that a late one is
owed once and not there yet (`Owed`), so that its commit doubles nothing (`LogLate`).
`CandidatesDetermined` is about `_ordered_candidates`: the description by what the list
must be has exactly one solution for every selection. One exists because the loop
builds it id by id (`ListingGrows`, `ListingExists`), and two that first differ at some
place would each have to mention the other's id later (`ListingsAgree`).

*Arguments.* `AttemptInv` keeps what each stage made: the payload that was built, the
arguments that are the fields of the model, their places in the request. The
properties follow stage by stage, without a case per schema.

*Registry.* `IInv` says of every snapshot a call works on what it says of the tables
(`WholeIn`), and of every lock whose it is (`LockOK`). Deadlock freedom: if every live
call waited, each locked row would be held by a seed run that waits for a row placed
after it (`Place`: missing entries of the list first, then present ones). A run may
rank a row it still waits for lower than its place, because it read the tables before
another run inserted it, never higher; so there would be no last row.

*Statistics.* `StatsInv`: the tables of now are among those every call under way has
passed, and its snapshot and answer are of one of these. That finitely many rows have
an ascending order at all (`AscendingExists`) is shown by a smallest set without one:
its fastest row in front of an order of the others would be one. All orders have the
same latency at each place (`NthOfOrder`), so the percentile does not depend on how the
database breaks ties, and it is the quantile the properties ask for
(`PercentileIsQuantile`). It stays between the smallest and largest value, and p50 is at
most p95, for lists of any length and in every answer (`PercentilesInOrderAlways`).

*Web session.* `IInv` ties each tab to its store (`Identity`, `Follows`), each pair to
the server (`Owned`, `RecordsOwned`), and each sign of waiting to a request
(`Waits`, `Thread`).

Only model-checked: the liveness properties `CallsEnd`, `LocksFreed`, `RunsEnd` and
`PassEnds`, which need fairness and `ENABLED`. Every invariant and every action or
refinement property of a passing run is a theorem.

## Where code and documents disagree

With a run:

- `NoLostUpdate` / `LostUpdate`: the lock's TTL (120 s, `conversation/config.py:40`) is
  shorter than one engine run may take (180 s) and is not renewed. Two turns
  start from one snapshot and the later save drops the other's turn.
- `RetryNotRefused` / `PoisonedKey`: after a failure behind `append_turn(user)`
  the key is taken, there is no answer to replay, and every retry fails on the unique
  index (`conversation/coordinator.py:156`).
- `RetirementLasts` / `RetirementUndone`: a seed run that started before a
  deletion, or a health check afterwards, puts a deprecated tool back into the
  search results (`registry/seed.py:283`, `registry/routers/health.py:69`).
- `ShownIsFiltered` / `StaleFilter`: the answer for a filter the operator has left may
  arrive while the request for the new one is still under way, and is then shown under
  the filter in the fields
  (`web/src/lib/hooks/useApi.ts:23`; `specs/006-operator-web-ui/spec.md:57`).

Met while modelling, modelled as the code does it, without a run of their own:

- Turns enter in the order the polls happen, not FIFO as
  `specs/005-conversational-session-layer/spec.md:111` says (`coordinator.py:113`).
- A replay is not quite the same result: a confidence of 0.0 is answered as 1.0
  (`coordinator.py:139`).
- After a crash or a failed save behind the assistant row, a retry is answered
  with a result the session has forgotten (`coordinator.py:240`; SC-004,
  spec 005:131).
- `GraphBusyError` ends as 500, not 429 (`routes.py:131`;
  `specs/002-agent-layer/spec.md:312`).
- The SSE path calls `run_turn_streaming`, which does not exist
  (`routes.py:79`): at this commit every streamed turn ends in `internal_error`.
- `coordinator_turn_complete` is logged without its ids, because the graph's `finally`
  has cleared the context variables (`coordinator.py:246`, `graph.py:170`;
  `specs/005-conversational-session-layer/contracts/session-api.md:112`).
- The fallback text of a synthesizer whose LLM fails has no limitations note
  (`synthesizer.py:51`; spec 002:257); a synthesis that does not parse is taken
  as text (`synthesizer.py:69`).
- A timeout drops partial results (`graph.py:154`; spec 002:269-271).
- An alternative tool is sought only among the ids the LLM named
  (`discovery.py:372`; spec 002:245), and a deprecated tool is still bound and
  invoked (`bind.py:21`; `register.py:124`).
- A required name without a readable property is filled in and then dropped, so the
  tool is called without it (`discovery.py:130`, `:182`), and enumerations and nested
  constraints of a schema are not validated (`specs/003-dynamic-tool-binding/spec.md:117`).
- A GET whose URL has placeholders drops every other argument
  (`registry_client.py:99`; spec 003:61).
- The Wikipedia override also replaces a `gsrlimit` below 5 that a caller asked for
  (`discovery.py:600`).
- With `since`, tools without usage vanish from the statistics instead of showing
  zeros (`stats.py:97`; `specs/001-tool-registry-service/spec.md:143`).
- Overlapping PUTs leave the union of their capabilities (`register.py:101`);
  the loser of two registrations gets 500 instead of 409 (`register.py:49`); a
  client may hold a 2xx of a change that was rolled back (`database.py:27`).
- A late 404 of an abandoned session's turn drops the session created meanwhile
  (`ChatView.tsx:102`); a second click on New Session switches sessions under
  the user; after a 404 ChatPage shows its own error page, so the overlay of
  ChatView appears only if a pending New Session succeeds, over a valid session; two
  tabs share one stored session.
- A write to localStorage that fails moves the tab to memory for good, and localStorage
  keeps what it had (`session-store.ts:80`). If it is `clearServerSession` that fails,
  or the write of a new session, the next visit resumes the older session, also one
  the operator was told is gone (`specs/006-operator-web-ui/spec.md:92`, FR-002, asks
  to persist the active one).

## Not modelled

`PROJECT.json` "components" has the reason for each part. In short:

- Tracing (`agents/tracing.py`, `context.py`): spans and log records sent to an
  external service; every failure is caught and no decision reads them.
- Prompts, page components, catalogue pages: texts and pure rendering. The catalogue
  uses the hook `RegistryStatistics` models, with one fixed fetcher.
- Migrations, start-up wiring, request validation patterns: no state changes while
  the system runs; the constraints they create are in the models.
- In discovery, reading titles, URLs and article texts out of a tool's answer is
  parsing of external formats.
- In the stores, `get_session_any_owner`, the inbox list and `delete_working_doc` have
  no caller; in the registry, embedding ranking and pagination choose and cut an
  order that the models leave open.
- In the registry, a COMMIT whose answer is lost.

Worth doing next: the SSE path once `run_turn_streaming` exists; the composition of
`ToolDiscovery` with the transactions of `ToolRegistry`, where a tool is bound while it
is being replaced.
