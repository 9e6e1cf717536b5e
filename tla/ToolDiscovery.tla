--------------------------- MODULE ToolDiscovery ---------------------------
(***************************************************************************)
(* agents/tools/discovery.py: ToolDiscoveryTool._arun, one pass of         *)
(* searching the registry, letting the LLM select tools, and binding,      *)
(* invoking and logging them until one succeeds; with the registry's tool  *)
(* and usage-log tables, which operators and health checks change          *)
(* meanwhile, and the graph timeout that may cancel a pass at any await.   *)
(***************************************************************************)
EXTENDS Naturals, Sequences, SequencesExt, Functions

CONSTANTS
  Tool,         \* tool ids that may be registered
  Ghost,        \* other ids an LLM may come up with
  MaxAttempts,  \* config.max_tool_fallback_attempts
  Passes,       \* bound: passes explored
  Faults        \* the faults that may happen

\* "registry" search or bind fails     "llm"    no usable selection
\* "tool"     an invocation fails or times out
\* "log"      the client gives up a usage-log POST, whose row may be committed
\*            later, even in a later pass, or never
\* "cancel"   the graph timeout cancels the pass
ASSUME DiscoveryAssumption ==
  /\ MaxAttempts \in 1 .. 10
  /\ Passes \in Nat
  /\ Tool \cap Ghost = {}
  /\ Faults \subseteq {"registry", "llm", "tool", "log", "cancel"}

VARIABLES
  status,      \* MySQL tools: the status of each tool
  usage,       \* MySQL tool_usage_logs: its rows in insertion order
  late,        \* rows of given-up POSTs that the registry may still commit
  pc,          \* the await the pass is at
  pass,        \* the number of the pass
  results,     \* local results: what the search returned
  candidates,  \* local candidates
  index,       \* position of the for loop in candidates
  attempts,    \* local attempts
  success,     \* ToolDiscoveryResult.success
  skipped,     \* history: candidates of this pass whose bind failed
  postLost     \* history: a usage-log POST of this pass failed

locals == <<results, candidates, index, attempts, success, skipped, postLost>>
vars == <<status, usage, late, pc, pass, locals>>

\* "active" stands for every status a search lists (active, healthy,
\* degraded), "unhealthy" for unhealthy and inactive.
Status == {"absent", "active", "unhealthy", "deprecated"}
Attempt == [tool : Tool, ok : BOOLEAN]
UsageRow == [pass : Nat, tool : Tool, ok : BOOLEAN]

\* ToolSelectionResponse: one to three ids, after strip().
Selection == BoundedSeq(Tool \cup Ghost, 3) \ {<<>>}

Awaiting == {"search", "select", "bind", "invoke", "log", "last_log"}

TypeOK ==
  /\ status \in [Tool -> Status]
  /\ usage \in Seq(UsageRow)
  /\ late \subseteq UsageRow
  /\ pc \in Awaiting \cup {"idle", "done", "cancelled"}
  /\ pass \in 0 .. Passes
  /\ results \subseteq Tool
  /\ candidates \in Seq(Tool \cup Ghost)
  /\ index \in Nat
  /\ attempts \in Seq(Attempt)
  /\ success \in BOOLEAN
  /\ skipped \subseteq Tool \cup Ghost
  /\ postLost \in BOOLEAN

----------------------------------------------------------------------------
(* The registry *)

SetStatus(t, new) ==
  /\ status' = [status EXCEPT ![t] = new]
  /\ UNCHANGED <<usage, late, pc, pass, locals>>

Registered == {t \in Tool : status[t] # "absent"}

RegisterTool(t) == t \notin Registered /\ SetStatus(t, "active")

UpdateTool(t) ==
  /\ t \in Registered
  /\ \E new \in Status \ {"absent"} : SetStatus(t, new)

DeleteTool(t) == t \in Registered /\ SetStatus(t, "deprecated")

CheckHealth(t) ==
  /\ t \in Registered
  /\ \E new \in {"active", "unhealthy"} : SetStatus(t, new)

\* search_tools
Listed == {t \in Registered : status[t] \notin {"unhealthy", "deprecated"}}

----------------------------------------------------------------------------
(* One pass *)

Return(ok) == success' = ok /\ pc' = "done"

StartPass ==
  /\ pc \in {"idle", "done", "cancelled"}
  /\ pass < Passes
  /\ pass' = pass + 1
  /\ pc' = "search"
  /\ results' = {} /\ candidates' = <<>> /\ index' = 1
  /\ attempts' = <<>> /\ success' = FALSE
  /\ skipped' = {} /\ postLost' = FALSE
  /\ UNCHANGED <<status, usage, late>>

\* The capability, the limit and _filter_results_by_constraints may narrow the
\* listed tools to any part of them.
Search ==
  /\ pc = "search"
  /\ \/ /\ \E found \in SUBSET Listed :
             /\ results' = found
             /\ IF found = {} THEN Return(FALSE)
                              ELSE pc' = "select" /\ UNCHANGED success
     \/ "registry" \in Faults /\ Return(FALSE) /\ UNCHANGED results
  /\ UNCHANGED <<status, usage, late, pass, candidates, index, attempts, skipped, postLost>>

Capped(ids) == SubSeq(ids, 1, IF Len(ids) < MaxAttempts THEN Len(ids) ELSE MaxAttempts)

OrderedCandidatesMutant(selected) == {Capped(selected)}   \* repeated ids are kept

FirstMention(t, selected) ==
  CHOOSE i \in DOMAIN selected :
    selected[i] = t /\ \A j \in DOMAIN selected : selected[j] = t => i <= j

\* The selected ids, each where it is mentioned first, capped; a set of one.
OrderedCandidates(selected) ==
  {Capped(ids) : ids \in
    {s \in Selection :
       /\ IsInjective(s)
       /\ ToSet(s) = ToSet(selected)
       /\ \A i, j \in DOMAIN s :
            i < j => FirstMention(s[i], selected) < FirstMention(s[j], selected)}}

\* The model's ids are not compared with the results.  Without a selection one
\* tool of the results is taken: every avg_latency_ms is 0.0, so it is any.
Select ==
  /\ pc = "select"
  /\ \/ \E selected \in Selection : candidates' \in OrderedCandidates(selected)
     \/ "llm" \in Faults /\ \E t \in results : candidates' = <<t>>
  /\ pc' = "bind"
  /\ UNCHANGED <<status, usage, late, pass, results, index, attempts, success, skipped, postLost>>

Candidate == candidates[index]

\* On to the next candidate, or out of the loop.
Continue ==
  IF index < Len(candidates)
    THEN index' = index + 1 /\ pc' = "bind" /\ UNCHANGED success
    ELSE Return(FALSE) /\ UNCHANGED index

BindMutant ==                          \* a failing bind is tried again
  /\ pc = "bind"
  /\ \/ /\ Candidate \in Registered
        /\ pc' = "invoke"
        /\ UNCHANGED skipped
     \/ /\ Candidate \notin Registered \/ "registry" \in Faults
        /\ skipped' = skipped \cup {Candidate}
        /\ UNCHANGED pc
  /\ UNCHANGED <<status, usage, late, pass, results, candidates, index, attempts, success,
                 postLost>>

\* bind_tool answers for a registered tool whatever its status.
Bind ==
  /\ pc = "bind"
  /\ \/ /\ Candidate \in Registered
        /\ pc' = "invoke"
        /\ UNCHANGED <<index, success, skipped>>
     \/ /\ Candidate \notin Registered \/ "registry" \in Faults
        /\ skipped' = skipped \cup {Candidate}
        /\ Continue
  /\ UNCHANGED <<status, usage, late, pass, results, candidates, attempts, postLost>>

Invoke ==
  /\ pc = "invoke"
  /\ \E ok \in {TRUE} \cup (IF "tool" \in Faults THEN {FALSE} ELSE {}) :
       attempts' = Append(attempts, [tool |-> Candidate, ok |-> ok])
  /\ pc' = "log"
  /\ UNCHANGED <<status, usage, late, pass, results, candidates, index, success, skipped, postLost>>

Row == [pass |-> pass, tool |-> Last(attempts).tool, ok |-> Last(attempts).ok]

GiveUp == late' = late \cup {Row} /\ postLost' = TRUE

PostUsageMutant ==                     \* a POST that is given up is repeated
  \/ usage' = Append(usage, Row) /\ UNCHANGED <<late, postLost>>
  \/ "log" \in Faults /\ GiveUp /\ usage' \in {usage, Append(usage, Row)}

\* log_usage: best effort, one POST, its failure is swallowed; a client that
\* stops waiting does not stop the registry's handler.
PostUsage ==
  \/ usage' = Append(usage, Row) /\ UNCHANGED <<late, postLost>>
  \/ "log" \in Faults /\ GiveUp /\ UNCHANGED usage

\* create_usage_log commits the row of a POST nobody waits for any more.
CommitLate ==
  /\ \E row \in late : usage' = Append(usage, row) /\ late' = late \ {row}
  /\ UNCHANGED <<status, pc, pass, locals>>

LogUsageMutantRaise ==                 \* a failing POST raises out of the loop
  /\ pc = "log"
  /\ PostUsage
  /\ IF postLost' THEN Return(FALSE) /\ UNCHANGED index
     ELSE IF Last(attempts).ok THEN Return(TRUE) /\ UNCHANGED index ELSE Continue
  /\ UNCHANGED <<status, pass, results, candidates, attempts, skipped>>

LogUsage ==
  /\ pc = "log"
  /\ PostUsage
  /\ IF Last(attempts).ok THEN Return(TRUE) /\ UNCHANGED index ELSE Continue
  /\ UNCHANGED <<status, pass, results, candidates, attempts, skipped>>

CancelElsewhere ==
  /\ \/ pc \in {"search", "select", "bind"} /\ UNCHANGED <<late, postLost>>
     \/ pc = "log" /\ GiveUp
  /\ UNCHANGED usage

\* CancelledError is no Exception: it leaves _arun from any await.  During an
\* invocation the finally block still records a failed attempt and posts it;
\* a POST under way is given up.
Cancel ==
  /\ "cancel" \in Faults
  /\ \/ CancelElsewhere /\ pc' = "cancelled" /\ UNCHANGED attempts
     \/ /\ pc = "invoke"
        /\ attempts' = Append(attempts, [tool |-> Candidate, ok |-> FALSE])
        /\ pc' = "last_log"
        /\ UNCHANGED <<usage, late, postLost>>
  /\ UNCHANGED <<status, pass, results, candidates, index, success, skipped>>

LastLog ==
  /\ pc = "last_log"
  /\ PostUsage
  /\ pc' = "cancelled"
  /\ UNCHANGED <<status, pass, results, candidates, index, attempts, success, skipped>>

----------------------------------------------------------------------------

Init ==
  /\ status \in [Tool -> Status]
  /\ usage = <<>> /\ late = {}
  /\ pc = "idle" /\ pass = 0
  /\ results = {} /\ candidates = <<>> /\ index = 1
  /\ attempts = <<>> /\ success = FALSE
  /\ skipped = {} /\ postLost = FALSE

Step == Search \/ Select \/ Bind \/ Invoke \/ LogUsage \/ LastLog

Next ==
  \/ StartPass \/ Step \/ Cancel \/ CommitLate
  \/ \E t \in Tool : RegisterTool(t) \/ UpdateTool(t) \/ DeleteTool(t) \/ CheckHealth(t)

Spec == Init /\ [][Next]_vars

\* Every await of a pass is bounded by an HTTP, LLM or tool timeout.
FairSpec == Spec /\ WF_vars(Step)

----------------------------------------------------------------------------
(* Properties *)

Tried == {attempts[i].tool : i \in DOMAIN attempts}

\* A row is of this pass and reports its attempt i; row n of the usage log does.
Reports(row, i) ==
  /\ row.pass = pass
  /\ row.tool = attempts[i].tool
  /\ row.ok = attempts[i].ok

Logs(n, i) == Reports(usage[n], i)

\* However often the LLM names a tool, a pass invokes it once, stays within its
\* budget, goes on only after a failure, and gives up only when each candidate
\* was invoked or could not be bound.
FallbackDiscipline ==
  /\ Len(attempts) <= MaxAttempts
  /\ \A i, j \in DOMAIN attempts : i < j =>
       attempts[i].tool # attempts[j].tool /\ ~ attempts[i].ok
  /\ pc = "done" /\ ~ success => ToSet(candidates) = Tried \cup skipped

\* A tool that answered is what the pass returns, whatever happens to its usage
\* log, and nothing else is.
AnswerReturned ==
  pc = "done" => (success <=> attempts # <<>> /\ Last(attempts).ok)

\* Rows of POSTs that were given up may be committed after those of later attempts
\* and later passes.  Still a row of the current pass reports one of its attempts,
\* no pass, current or past, has two rows for a tool, and as long as no POST of the
\* pass was given up its rows come in the order of the attempts and none is missing
\* in the end.
UsageMatchesAttempts ==
  /\ \A n \in DOMAIN usage : usage[n].pass = pass => \E i \in DOMAIN attempts : Logs(n, i)
  /\ \A m, n \in DOMAIN usage :
       usage[m].pass = usage[n].pass /\ usage[m].tool = usage[n].tool => m = n
  /\ ~ postLost =>
       /\ \A m, n \in DOMAIN usage : \A i, j \in DOMAIN attempts :
            m < n /\ Logs(m, i) /\ Logs(n, j) => i < j
       /\ pc \in {"done", "cancelled"} =>
            \A i \in DOMAIN attempts : \E n \in DOMAIN usage : Logs(n, i)

\* A pass always ends by itself.
PassEnds == pc = "search" ~> pc \in {"done", "cancelled"}
============================================================================
