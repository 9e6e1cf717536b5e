------------------------- MODULE RegistryStatistics -------------------------
(***************************************************************************)
(* Usage statistics while they are written: registry/routers/usage.py      *)
(* (create_usage_log), routers/stats.py (get_stats, with                   *)
(* stats_percentiles.py) and the page that shows them (StatsPage.tsx over  *)
(* useApi.ts).                                                             *)
(*                                                                         *)
(* A post and a fetch are each one request, advancing from one SQL         *)
(* statement to the next; the page is a browser tab, advancing from one    *)
(* JavaScript task to the next.  Averages, names and rounding are left     *)
(* out; a status hides no tool from the statistics.                        *)
(***************************************************************************)
EXTENDS Integers, FiniteSets, SequencesExt

CONSTANTS
  Tool,       \* tool ids
  Post,       \* identities of POST /tools/usage-log calls
  Fetch,      \* identities of GET /tools/stats calls
  Latency,    \* latencies in ms
  Usage,      \* what the bodies of those posts report
  Earlier,    \* usage rows that may be in the table from before
  Filter,     \* what an operator may put into the page's two filter fields
  MaxTime,    \* bound: CURRENT_TIMESTAMP goes up to it
  Faults,     \* "mysql": a statement or the commit raises; "network": an
              \* answer does not reach the browser
  AnyTool, AnyTime,   \* a filter left empty
  Nothing

AnyFilter == [tool |-> AnyTool, since |-> AnyTime]

ASSUME StatisticsAssumption ==
  /\ Latency \subseteq Nat
  /\ Usage \subseteq [tool : Tool, latency : Latency, success : BOOLEAN]
  /\ MaxTime \in Nat
  /\ Faults \subseteq {"mysql", "network"}
  /\ Filter \subseteq [tool : Tool \cup {AnyTool}, since : (0 .. MaxTime) \cup {AnyTime}]
  /\ AnyTool \notin Tool
  /\ AnyTime \notin 0 .. MaxTime
  /\ AnyFilter \in Filter
  /\ Nothing \notin Filter

VARIABLES
  tools,      \* MySQL tools: ids of its rows (DELETE only sets a status)
  logs,       \* MySQL tool_usage_logs: the committed rows
  now,        \* CURRENT_TIMESTAMP
  post,       \* each usage post: where it stands and its row
  fetch,      \* each statistics call: where it stands, its filter, its snapshot
  answer,     \* what get_stats has returned to each of them
  page,       \* StatsPage: its filter fields and the state of useApi; data is
              \* named by the filter it answers
  passed      \* history: the contents the tables had while a fetch was under
              \* way, and the posts that were answered when it was sent

vars == <<tools, logs, now, post, fetch, answer, page, passed>>

----------------------------------------------------------------------------
(* Types *)

Time == 0 .. MaxTime
LogRow == [id : Post, tool : Tool, latency : Latency, success : BOOLEAN, at : Time]

ASSUME EarlierAssumption ==
  /\ IsFiniteSet(Earlier)
  /\ Earlier \subseteq [id : {e.id : e \in Earlier}, tool : Tool, latency : Latency,
                        success : BOOLEAN, at : {0}]
  /\ \A e \in Earlier : e.id \notin Post
  /\ Nothing \notin LogRow \cup Earlier

Rows == LogRow \cup Earlier
Tables == [tools : SUBSET Tool, logs : SUBSET Rows]

PostPC == {"idle", "insert", "commit", "created", "refused", "failed"}
FetchPC == {"idle", "rows", "latencies", "answered", "failed", "gone"}

TypeOK ==
  /\ tools \subseteq Tool
  /\ logs \subseteq Rows
  /\ now \in Time
  /\ post \in [Post -> [pc : PostPC, row : LogRow \cup {Nothing}]]
  /\ \A u \in Post : post[u].pc # "idle" => post[u].row \in LogRow
  /\ fetch \in [Fetch -> [pc : FetchPC, filter : Filter, view : Tables]]
  /\ DOMAIN answer = Fetch
  /\ \A f \in Fetch : DOMAIN answer[f] \subseteq Tool
  /\ page \in [open : BOOLEAN, filter : Filter, loading : BOOLEAN,
               error : BOOLEAN, data : Filter \cup {Nothing}]
  /\ passed \in [Fetch -> [tables : SUBSET Tables, created : SUBSET Post]]

----------------------------------------------------------------------------
(* The queries *)

\* WHERE tool_id = ... AND invoked_at >= ...; an empty filter adds no condition
Selects(filter, row) ==
  /\ filter.tool \in {AnyTool, row.tool}
  /\ filter.since = AnyTime \/ row.at >= filter.since

InFilter(filter, rows, tool) == {r \in rows : r.tool = tool /\ Selects(filter, r)}

\* The groups of tools LEFT JOIN tool_usage_logs.  A tool without usage is
\* joined with NULL, for which invoked_at >= since is not true.
Listed(filter, t, rows) ==
  {tool \in t : /\ filter.tool \in {AnyTool, tool}
                /\ \/ InFilter(filter, rows, tool) # {}
                   \/ filter.since = AnyTime}

\* ORDER BY latency_ms, in any order among rows of the same latency
Ascending(rows) ==
  {o \in Bijection(1 .. Cardinality(rows), rows) :
     \A i, j \in DOMAIN o : i <= j => o[i].latency <= o[j].latency}

Series(rows) ==
  LET order == CHOOSE o \in Ascending(rows) : TRUE
  IN  [i \in 1 .. Cardinality(rows) |-> order[i].latency]

\* percentile_linear_sorted(s, num / 20), in twentieths so that it is an integer
Percentile(s, num) ==
  LET rank == (Len(s) - 1) * num
      lo == rank \div 20
      frac == rank % 20
  IN  CASE s = <<>> -> 0
        [] Len(s) = 1 -> 20 * s[1]
        [] Len(s) > 1 /\ frac = 0 -> 20 * s[lo + 1]
        [] OTHER -> s[lo + 1] * (20 - frac) + s[lo + 2] * frac

MaxOf(S) == CHOOSE m \in S : \A x \in S : x <= m

\* One item per group of the first query, its percentiles from the second.
Report(filter, t, counted, timed) ==
  [tool \in Listed(filter, t, counted) |->
     LET rows == InFilter(filter, counted, tool)
         series == Series(InFilter(filter, timed, tool))
     IN  [invocations |-> Cardinality(rows),
          successes |-> Cardinality({r \in rows : r.success}),
          errors |-> Cardinality({r \in rows : ~ r.success}),
          p50 |-> Percentile(series, 10),
          p95 |-> Percentile(series, 19),
          last_invoked |-> IF rows = {} THEN Nothing ELSE MaxOf({r.at : r \in rows})]]

----------------------------------------------------------------------------
(* The tables, as other handlers and the clock change them *)

Unsent == [pc |-> "idle", filter |-> AnyFilter,
           view |-> [tools |-> {}, logs |-> {}]]

\* What the tables hold after a step is on record for every fetch under way.
UnderWay(f) == fetch[f].pc \in {"rows", "latencies"}

Change(t, l) ==
  /\ tools' = t
  /\ logs' = l
  /\ passed' = [f \in Fetch |->
       IF UnderWay(f)
         THEN [passed[f] EXCEPT !.tables = @ \cup {[tools |-> t, logs |-> l]}]
         ELSE passed[f]]

\* register_tool commits
Register(tool) ==
  /\ tool \notin tools
  /\ Change(tools \cup {tool}, logs)
  /\ UNCHANGED <<now, post, fetch, answer, page>>

Tick ==
  /\ now < MaxTime
  /\ now' = now + 1
  /\ UNCHANGED <<tools, logs, post, fetch, answer, page, passed>>

----------------------------------------------------------------------------
(* create_usage_log *)

PostAt(u, pc) == post' = [post EXCEPT ![u].pc = pc]

\* The client's request and SELECT ... FROM tools WHERE tool_id
Look(u) ==
  /\ post[u].pc = "idle"
  /\ \E q \in Usage :
       post' = [post EXCEPT ![u] =
         [pc |-> IF q.tool \in tools THEN "insert" ELSE "refused",
          row |-> [id |-> u, tool |-> q.tool, latency |-> q.latency,
                   success |-> q.success, at |-> now]]]
  /\ UNCHANGED <<tools, logs, now, fetch, answer, page, passed>>

\* The INSERT that commit() flushes; invoked_at is set by the server now.
Insert(u) ==
  /\ post[u].pc = "insert"
  /\ post' = [post EXCEPT ![u] = [pc |-> "commit", row |-> [@.row EXCEPT !.at = now]]]
  /\ UNCHANGED <<tools, logs, now, fetch, answer, page, passed>>

CommitMutant(u) ==   \* left to get_db, which commits after the response
  \/ /\ post[u].pc = "commit"
     /\ PostAt(u, "created")
     /\ UNCHANGED <<tools, logs, now, fetch, answer, page, passed>>
  \/ /\ post[u].pc = "created"
     /\ post[u].row \notin logs
     /\ Change(tools, logs \cup {post[u].row})
     /\ UNCHANGED <<now, post, fetch, answer, page>>

\* COMMIT, then 201; if its answer is lost, the row stays and the call fails.
Commit(u) ==
  /\ post[u].pc = "commit"
  /\ Change(tools, logs \cup {post[u].row})
  /\ \/ PostAt(u, "created")
     \/ "mysql" \in Faults /\ PostAt(u, "failed")
  /\ UNCHANGED <<now, fetch, answer, page>>

PostFails(u) ==
  /\ "mysql" \in Faults
  /\ post[u].pc \in {"insert", "commit"}
  /\ PostAt(u, "failed")
  /\ UNCHANGED <<tools, logs, now, fetch, answer, page, passed>>

----------------------------------------------------------------------------
(* get_stats: one transaction, whose first SELECT fixes what it reads *)

QueryRows(f) ==
  /\ fetch[f].pc = "rows"
  /\ fetch' = [fetch EXCEPT ![f].pc = "latencies",
                            ![f].view = [tools |-> tools, logs |-> logs]]
  /\ UNCHANGED <<tools, logs, now, post, answer, page, passed>>

QueryLatenciesMutant(f) ==   \* a second transaction for the second query
  /\ fetch[f].pc = "latencies"
  /\ LET view == fetch[f].view
     IN  answer' = [answer EXCEPT ![f] =
                      Report(fetch[f].filter, view.tools, view.logs, logs)]
  /\ fetch' = [fetch EXCEPT ![f].pc = "answered", ![f].view = Unsent.view]
  /\ UNCHANGED <<tools, logs, now, post, page, passed>>

QueryLatencies(f) ==
  /\ fetch[f].pc = "latencies"
  /\ LET view == fetch[f].view
     IN  answer' = [answer EXCEPT ![f] =
                      Report(fetch[f].filter, view.tools, view.logs, view.logs)]
  /\ fetch' = [fetch EXCEPT ![f].pc = "answered", ![f].view = Unsent.view]
  /\ UNCHANGED <<tools, logs, now, post, page, passed>>

QueryFails(f) ==
  /\ "mysql" \in Faults
  /\ UnderWay(f)
  /\ fetch' = [fetch EXCEPT ![f].pc = "failed"]
  /\ UNCHANGED <<tools, logs, now, post, answer, page, passed>>

----------------------------------------------------------------------------
(* StatsPage and useApi *)

Unseen == [tables |-> {}, created |-> {}]

Closed == [open |-> FALSE, filter |-> AnyFilter, loading |-> TRUE, error |-> FALSE,
           data |-> Nothing]

Outstanding(f) == fetch[f].pc \in {"rows", "latencies", "answered", "failed"}

\* refetch up to its await: loading, no error, a request.
Refetch(f, filter) ==
  /\ fetch[f].pc = "idle"
  /\ fetch' = [fetch EXCEPT ![f].pc = "rows", ![f].filter = filter]
  /\ passed' = [passed EXCEPT ![f] =
       [tables |-> {[tools |-> tools, logs |-> logs]},
        created |-> {u \in Post : post[u].pc = "created"}]]
  /\ UNCHANGED <<tools, logs, now, post, answer>>

\* The page is mounted, with fresh state; its effect calls refetch.
Open(f) ==
  /\ ~ page.open
  /\ page' = [Closed EXCEPT !.open = TRUE]
  /\ Refetch(f, AnyFilter)

\* A filter field changes: the next render has a new refetch, the effect calls it.
ChangeFilter(f, filter) ==
  /\ page.open
  /\ filter # page.filter
  /\ page' = [page EXCEPT !.filter = filter, !.loading = TRUE, !.error = FALSE]
  /\ Refetch(f, filter)

\* The button of the error banner
Retry(f) ==
  /\ page.open
  /\ page.error
  /\ page' = [page EXCEPT !.loading = TRUE, !.error = FALSE]
  /\ Refetch(f, page.filter)

Gone(S) ==
  /\ fetch' = [f \in Fetch |-> IF f \in S THEN [Unsent EXCEPT !.pc = "gone"] ELSE fetch[f]]
  /\ answer' = [f \in Fetch |-> IF f \in S THEN <<>> ELSE answer[f]]
  /\ passed' = [f \in Fetch |-> IF f \in S THEN Unseen ELSE passed[f]]
  /\ UNCHANGED <<tools, logs, now, post>>

\* An answer arrives, of whichever request: setData, then setLoading(false).
Deliver(f) ==
  /\ page.open
  /\ fetch[f].pc = "answered"
  /\ page' = [page EXCEPT !.data = fetch[f].filter, !.loading = FALSE]
  /\ Gone({f})

DeliverErrorMutant(f) ==  \* no finally
  /\ page.open
  /\ fetch[f].pc = "failed" \/ ("network" \in Faults /\ fetch[f].pc = "answered")
  /\ page' = [page EXCEPT !.error = TRUE]
  /\ Gone({f})

DeliverError(f) ==
  /\ page.open
  /\ fetch[f].pc = "failed" \/ ("network" \in Faults /\ fetch[f].pc = "answered")
  /\ page' = [page EXCEPT !.error = TRUE, !.loading = FALSE]
  /\ Gone({f})

\* Another page is shown: React drops the state, late answers set nothing.
Leave ==
  /\ page.open
  /\ page' = Closed
  /\ Gone({f \in Fetch : Outstanding(f)})

----------------------------------------------------------------------------

Init ==
  /\ tools \in SUBSET Tool
  /\ logs = {e \in Earlier : e.tool \in tools}
  /\ now = 0
  /\ post = [u \in Post |-> [pc |-> "idle", row |-> Nothing]]
  /\ fetch = [f \in Fetch |-> Unsent]
  /\ answer = [f \in Fetch |-> <<>>]
  /\ page = Closed
  /\ passed = [f \in Fetch |-> Unseen]

Serve(f) == QueryRows(f) \/ QueryLatencies(f) \/ QueryFails(f)
Receive(f) == Deliver(f) \/ DeliverError(f)

Next ==
  \/ Tick \/ Leave
  \/ \E tool \in Tool : Register(tool)
  \/ \E u \in Post : Look(u) \/ Insert(u) \/ Commit(u) \/ PostFails(u)
  \/ \E f \in Fetch : \/ Open(f) \/ Retry(f) \/ Serve(f) \/ Receive(f)
                      \/ \E filter \in Filter : ChangeFilter(f, filter)

Spec == Init /\ [][Next]_vars

----------------------------------------------------------------------------
(* Properties *)

\* What the numbers mean, without SQL and without ranks: a quantile lies on the
\* line through the latencies in their order, at even distances from 0 to 1.
Nth(rows, i) ==
  CHOOSE l \in Latency : /\ Cardinality({r \in rows : r.latency < l}) < i
                         /\ i <= Cardinality({r \in rows : r.latency <= l})

IsQuantile(v, rows, num) ==
  LET n == Cardinality(rows)
  IN  \/ n = 0 /\ v = 0
      \/ n = 1 /\ v = 20 * Nth(rows, 1)
      \/ \E i \in 1 .. n - 1 :
           LET over == (n - 1) * num - 20 * (i - 1)
           IN  /\ over \in 0 .. 20
               /\ v = Nth(rows, i) * (20 - over) + Nth(rows, i + 1) * over

Recent(filter, tables, tool) ==
  {r \in tables.logs : r.tool = tool /\ (filter.since = AnyTime \/ r.at >= filter.since)}

Counts(stats, filter, tables) ==
  /\ \A tool \in tables.tools : tool \in DOMAIN stats <=>
       /\ filter.tool \in {AnyTool, tool}
       /\ filter.since = AnyTime \/ Recent(filter, tables, tool) # {}
  /\ \A tool \in DOMAIN stats :
       /\ tool \in tables.tools
       /\ stats[tool].invocations = Cardinality(Recent(filter, tables, tool))
       /\ stats[tool].successes + stats[tool].errors = stats[tool].invocations

Describes(stats, filter, tables) ==
  /\ Counts(stats, filter, tables)
  /\ \A tool \in DOMAIN stats :
       LET rows == Recent(filter, tables, tool)
       IN  /\ IsQuantile(stats[tool].p50, rows, 10)
           /\ IsQuantile(stats[tool].p95, rows, 19)

Answered(f) == fetch[f].pc = "answered"

\* A statistics answer describes the tables at one moment between its request and
\* its response, although it is put together from two queries while usage posts
\* and registrations commit.
AnswersAreSnapshots ==
  \A f \in Fetch : Answered(f) =>
    \E tables \in passed[f].tables : Describes(answer[f], fetch[f].filter, tables)

\* A usage post that was answered 201 is counted in every statistics answer that
\* was asked for later, unless the filter leaves it out.
CreatedIsCounted ==
  \A f \in Fetch : Answered(f) =>
    \A tool \in Tool :
      LET known == InFilter(fetch[f].filter, {post[u].row : u \in passed[f].created}, tool)
      IN  known # {} => /\ tool \in DOMAIN answer[f]
                        /\ answer[f][tool].invocations >= Cardinality(known)

\* Once nothing is under way the page shows an answer or an error, and no answer
\* is overdue while it shows that it is loading.
OutcomeShown ==
  page.open =>
    \/ \E f \in Fetch : Outstanding(f)
    \/ ~ page.loading /\ (page.error \/ page.data # Nothing)

\* specs/006-operator-web-ui/spec.md:57 - when the operator filters, "statistics
\* update to reflect only the filtered scope": what is shown as current is the
\* answer for the filter in the fields.
ShownIsFiltered ==
  page.open /\ ~ page.loading /\ ~ page.error /\ page.data # Nothing
    => page.data = page.filter
============================================================================
