---------------------------- MODULE ToolRegistry ----------------------------
(***************************************************************************)
(* The registry's write handlers (registry/routers/register.py, health.py) *)
(* and the seed script (registry/seed.py) as concurrent MySQL transactions *)
(* on the tables tools and tool_capabilities.                              *)
(*                                                                         *)
(* A transaction reads a snapshot, writes under row locks it keeps to its  *)
(* end, and becomes visible at COMMIT (REPEATABLE READ).  SQLAlchemy       *)
(* updates only columns whose value differs from the one that was loaded.  *)
(* get_db commits after the response has been sent.                        *)
(***************************************************************************)
EXTENDS Naturals, Sequences

CONSTANTS
  Tool,         \* tool ids
  Tag,          \* capability tags
  Request,      \* HTTP calls and runs of the seed script
  PutStatus,    \* the values of status an update may carry
  SeedList,     \* the ids of SEED_TOOLS, in order
  SeedInactive, \* those whose entry says "inactive"
  SeedTags,     \* the capabilities of an entry
  Faults,       \* the faults that may happen
  NoOne, NoRow, Unset, Nothing

Status == {"active", "healthy", "degraded", "unhealthy", "inactive", "deprecated"}

\* "abort"  MySQL rolls a transaction back: deadlock, lock wait timeout or a
\*          lost connection, at any statement and at COMMIT
\* "crash"  the process of a call dies
ASSUME RegistryAssumption ==
  /\ PutStatus \subseteq Status
  /\ SeedList \in Seq(Tool) /\ SeedList # <<>>
  /\ \A i, j \in DOMAIN SeedList : SeedList[i] = SeedList[j] => i = j
  /\ SeedInactive \subseteq Tool
  /\ SeedTags \subseteq Tag
  /\ Faults \subseteq {"abort", "crash"}
  /\ NoOne \notin Request
  /\ {"old", "seed", Unset} \cap Request = {}
  /\ Unset \notin Status \cup Tag \cup {"old", "seed"}

VARIABLES
  tools,    \* MySQL tools: the row of each tool, NoRow if absent
  caps,     \* MySQL tool_capabilities: its rows, named by tag and inserting call
  lock,     \* the transaction that holds the row of a tool locked
  pc,       \* where each call stands
  op,       \* what each call asks for
  seen,     \* the snapshot its transaction reads
  ping,     \* local new_status of a health check
  reply,    \* what the call was answered
  asked     \* history: the tags the last call that replaced them asked for

vars == <<tools, caps, lock, pc, op, seen, ping, reply, asked>>

\* text stands for the descriptive columns and is named by who wrote it.
Row == [status : Status, text : Request \cup {"old", "seed"}]
CapRow == [tool : Tool, tag : Tag, by : Request \cup {"old"}]

ASSUME RowAssumption == NoRow \notin Row

Snapshot == [tools : [Tool -> Row \cup {NoRow}], caps : SUBSET CapRow]

\* In place of a set of tags: capabilities was not in the payload.
NoTags == {Unset}

Op == [kind : {"register"}, tool : Tool, tags : (SUBSET Tag) \ {{}}]
 \cup [kind : {"update"}, tool : Tool, status : PutStatus \cup {Unset},
       text : BOOLEAN, tags : (SUBSET Tag) \cup {NoTags}]
 \cup [kind : {"delete", "health"}, tool : Tool]
 \cup [kind : {"seed"}]

\* ToolUpdateRequest.at_least_one_field
Valid(o) ==
  o.kind = "update" => o.status # Unset \/ o.text \/ o.tags # NoTags

Live == {"read", "ping", "write", "respond", "commit"}

TypeOK ==
  /\ tools \in [Tool -> Row \cup {NoRow}]
  /\ caps \subseteq CapRow
  /\ lock \in [Tool -> Request \cup {NoOne}]
  /\ pc \in [Request -> Live \cup {"idle", "done", "dead"}]
  /\ op \in [Request -> Op \cup {Nothing}]
  /\ seen \in [Request -> Snapshot \cup {Nothing}]
  /\ ping \in [Request -> Status \cup {Nothing}]
  /\ reply \in [Request -> {"none", "ok", "conflict", "missing", "error"}]
  /\ asked \in [Tool -> SUBSET Tag]

----------------------------------------------------------------------------
(* What a transaction writes *)

RowsOf(t) == {c \in caps : c.tool = t}
Tags(t) == {c.tag : c \in RowsOf(t)}
SeenRows(r, t) == {c \in seen[r].caps : c.tool = t}

IsSeed(r) == op[r].kind = "seed"

Inserts(r, t) == seen[r].tools[t] = NoRow

ToolsOf(r) ==
  IF IsSeed(r) THEN {SeedList[i] : i \in DOMAIN SeedList} ELSE {op[r].tool}

Position(t) == CHOOSE i \in DOMAIN SeedList : SeedList[i] = t

\* The order of the seed's statements: the entries missing from the snapshot
\* are inserted, then _sync_existing_tools goes through the others.
Rank(r, t) == IF Inserts(r, t) THEN Position(t) ELSE Len(SeedList) + Position(t)

\* The tools whose rows it has not flushed, and the one that is next.
Remaining(r) == {t \in ToolsOf(r) : lock[t] # r}

NextTool(r) ==
  IF IsSeed(r)
    THEN CHOOSE t \in Remaining(r) : \A u \in Remaining(r) : Rank(r, t) <= Rank(r, u)
    ELSE op[r].tool

\* The tags with which r replaces those of t, NoTags if it leaves them alone.
NewTags(r, t) ==
  CASE op[r].kind \in {"register", "update"} -> op[r].tags
    [] IsSeed(r) /\ Inserts(r, t) -> SeedTags
    [] OTHER -> NoTags

\* The status r asks for, Unset if it leaves it alone.
NewStatus(r, t) ==
  CASE op[r].kind = "update" -> op[r].status
    [] op[r].kind = "delete" -> "deprecated"
    [] op[r].kind = "health" -> ping[r]
    [] IsSeed(r) /\ t \in SeedInactive -> "inactive"
    [] IsSeed(r) /\ t \notin SeedInactive /\ ~ Inserts(r, t) ->
         IF seen[r].tools[t].status = "inactive" THEN "active" ELSE Unset
    [] OTHER -> Unset

NewText(r) ==
  CASE op[r].kind = "register" -> r
    [] op[r].kind = "update" /\ op[r].text -> r
    [] IsSeed(r) -> "seed"
    [] OTHER -> Unset

ColumnMutant(loaded, now, wanted) ==   \* UPDATE writes back what was loaded
  IF wanted = Unset THEN loaded ELSE wanted

\* A column is in the UPDATE only if its new value differs from the loaded one.
Column(loaded, now, wanted) ==
  IF wanted \in {Unset, loaded} THEN now ELSE wanted

RowAfter(r, t) ==
  IF Inserts(r, t)
    THEN [status |-> IF NewStatus(r, t) = Unset THEN "active" ELSE NewStatus(r, t),
          text |-> NewText(r)]
    ELSE LET old == seen[r].tools[t]
         IN  [status |-> Column(old.status, tools[t].status, NewStatus(r, t)),
              text |-> Column(old.text, tools[t].text, NewText(r))]

CapsAfterMutantDiff(r, t) ==   \* tags the tool had keep their rows
  IF NewTags(r, t) = NoTags THEN RowsOf(t)
  ELSE {c \in RowsOf(t) : c.tag \in NewTags(r, t)}
         \cup {[tool |-> t, tag |-> g, by |-> r] : g \in NewTags(r, t) \ Tags(t)}

CapsAfterMutantOrder(r, t) ==   \* INSERT IGNORE first, DELETE afterwards
  IF NewTags(r, t) = NoTags THEN RowsOf(t)
  ELSE (RowsOf(t) \cup {[tool |-> t, tag |-> g, by |-> r] : g \in NewTags(r, t) \ Tags(t)})
         \ SeenRows(r, t)

\* The rows in the snapshot are deleted one by one, rows of calls that
\* committed meanwhile are not.
CapsAfter(r, t) ==
  IF NewTags(r, t) = NoTags THEN RowsOf(t)
  ELSE (RowsOf(t) \ SeenRows(r, t))
         \cup {[tool |-> t, tag |-> g, by |-> r] : g \in NewTags(r, t)}

\* The primary key of tools, and uq_tool_capability.
Clashes(r, t) ==
  \/ Inserts(r, t) /\ tools[t] # NoRow
  \/ /\ NewTags(r, t) # NoTags
     /\ \E c \in RowsOf(t) \ SeenRows(r, t) : c.tag \in NewTags(r, t)

----------------------------------------------------------------------------
(* Transactions *)

Unlocked(r) == [t \in Tool |-> IF lock[t] = r THEN NoOne ELSE lock[t]]

Goto(r, step) == pc' = [pc EXCEPT ![r] = step]

\* The transaction of r is over; its session forgets what it loaded.
Close(r, step) ==
  /\ lock' = Unlocked(r)
  /\ seen' = [seen EXCEPT ![r] = Nothing]
  /\ Goto(r, step)

RollbackMutantLeak(r, answer) ==   \* no rollback: the session keeps its locks
  /\ reply' = [reply EXCEPT ![r] = IF @ = "none" THEN answer ELSE @]
  /\ seen' = [seen EXCEPT ![r] = Nothing]
  /\ Goto(r, "done")
  /\ UNCHANGED <<tools, caps, asked, op, ping, lock>>

Rollback(r, answer) ==
  /\ Close(r, "done")
  /\ reply' = [reply EXCEPT ![r] = IF @ = "none" THEN answer ELSE @]
  /\ UNCHANGED <<tools, caps, asked, op, ping>>

Submit(r) ==
  /\ pc[r] = "idle"
  /\ \E o \in Op : Valid(o) /\ op' = [op EXCEPT ![r] = o]
  /\ Goto(r, "read")
  /\ UNCHANGED <<tools, caps, lock, seen, ping, reply, asked>>

\* The first SELECT fixes the snapshot.  A refused call, and a health check of a
\* tool without a health_check, end without having written.
Read(r) ==
  /\ pc[r] = "read"
  /\ LET found == ~ IsSeed(r) /\ tools[op[r].tool] # NoRow
         absent == ~ IsSeed(r) /\ tools[op[r].tool] = NoRow
     IN  \/ found /\ op[r].kind = "register" /\ Rollback(r, "conflict")
         \/ found /\ op[r].kind = "health" /\ Rollback(r, "ok")
         \/ absent /\ op[r].kind # "register" /\ Rollback(r, "missing")
         \/ /\ found => op[r].kind # "register"
            /\ absent => op[r].kind = "register"
            /\ seen' = [seen EXCEPT ![r] = [tools |-> tools, caps |-> caps]]
            /\ Goto(r, IF op[r].kind = "health" THEN "ping" ELSE "write")
            /\ UNCHANGED <<tools, caps, lock, op, ping, reply, asked>>

\* The tool's health endpoint answers in time, answers badly or late, or not.
Ping(r) ==
  /\ pc[r] = "ping"
  /\ \E new \in {"healthy", "degraded", "unhealthy"} : ping' = [ping EXCEPT ![r] = new]
  /\ Goto(r, "write")
  /\ UNCHANGED <<tools, caps, lock, op, seen, reply, asked>>

\* A flush waits for the row lock and takes it; a unique index may refuse it.
Write(r) ==
  /\ pc[r] = "write"
  /\ LET t == NextTool(r)
         last == Remaining(r) = {t}
     IN  /\ lock[t] = NoOne
         /\ \/ Clashes(r, t) /\ Rollback(r, "error")
            \/ /\ ~ Clashes(r, t)
               /\ lock' = [lock EXCEPT ![t] = r]
               /\ Goto(r, IF ~ last THEN "write"
                          ELSE IF IsSeed(r) THEN "commit" ELSE "respond")
               /\ UNCHANGED <<tools, caps, op, seen, ping, reply, asked>>

Respond(r) ==
  /\ pc[r] = "respond"
  /\ reply' = [reply EXCEPT ![r] = "ok"]
  /\ Goto(r, "commit")
  /\ UNCHANGED <<tools, caps, lock, op, seen, ping, asked>>

\* tools, tool_capabilities and the history after COMMIT, for the tools in set.
Apply(r, set) ==
  /\ tools' = [t \in Tool |-> IF t \in set THEN RowAfter(r, t) ELSE tools[t]]
  /\ caps' = {c \in caps : c.tool \notin set} \cup UNION {CapsAfter(r, t) : t \in set}
  /\ asked' = [t \in Tool |-> IF t \in set /\ NewTags(r, t) # NoTags
                                THEN NewTags(r, t) ELSE asked[t]]

Commit(r) ==
  /\ pc[r] = "commit"
  /\ Apply(r, ToolsOf(r))
  /\ Close(r, "done")
  /\ reply' = [reply EXCEPT ![r] = "ok"]
  /\ UNCHANGED <<op, ping>>

AbortMutant(r) ==   \* get_db and seed commit what was flushed before the error
  /\ "abort" \in Faults
  /\ pc[r] \in {"write", "respond"}
  /\ Apply(r, {t \in Tool : lock[t] = r})
  /\ Close(r, "done")
  /\ reply' = [reply EXCEPT ![r] = "error"]
  /\ UNCHANGED <<op, ping>>

Abort(r) ==
  /\ "abort" \in Faults
  /\ pc[r] \in {"read", "write", "respond", "commit"}
  /\ Rollback(r, "error")

Crash(r) ==
  /\ "crash" \in Faults
  /\ pc[r] \in Live
  /\ Close(r, "dead")
  /\ UNCHANGED <<tools, caps, op, ping, reply, asked>>

----------------------------------------------------------------------------

\* A registry that was never seeded, or was when the list was shorter.
Init ==
  /\ tools \in [Tool -> [status : {"active", "inactive"}, text : {"old"}] \cup {NoRow}]
  /\ asked = [t \in Tool |-> IF tools[t] = NoRow THEN {} ELSE SeedTags]
  /\ caps = {c \in CapRow : c.by = "old" /\ c.tag \in asked[c.tool]}
  /\ lock = [t \in Tool |-> NoOne]
  /\ pc = [r \in Request |-> "idle"]
  /\ op = [r \in Request |-> Nothing]
  /\ seen = [r \in Request |-> Nothing]
  /\ ping = [r \in Request |-> Nothing]
  /\ reply = [r \in Request |-> "none"]

Step(r) == Read(r) \/ Ping(r) \/ Write(r) \/ Respond(r) \/ Commit(r)

Next == \E r \in Request : Submit(r) \/ Step(r) \/ Abort(r) \/ Crash(r)

Spec == Init /\ [][Next]_vars

----------------------------------------------------------------------------
(* Properties *)

Committed(r) == pc[r] = "done" /\ reply[r] = "ok"

\* Nothing in the tables comes from a call that was refused, failed or died,
\* whichever of its statements had already been executed: a seed run is all or
\* nothing.  A call aborted at its COMMIT, behind a 2xx, counts as answered.
RefusedLeavesNothing ==
  /\ \A t \in Tool : tools[t] # NoRow /\ tools[t].text \in Request
                       => Committed(tools[t].text)
  /\ \A c \in caps : c.by \in Request => Committed(c.by)

\* The capability rows one call gave a tool stay together: no search by
\* capability meets a tool half described, and no later call removes or keeps
\* some of them.
CapabilitiesWhole ==
  \A c \in caps : c.by \in Request =>
    LET mine == {d.tag : d \in {e \in RowsOf(c.tool) : e.by = c.by}}
    IN  mine = IF IsSeed(c.by) THEN SeedTags ELSE op[c.by].tags

\* A tool has each capability that the last committed call to replace them asked
\* for, whatever ran beside it.
LastReplaceHolds == \A t \in Tool : asked[t] \subseteq Tags(t)

\* specs/001-tool-registry-service/spec.md:181-182 - "Omitted optional fields
\* retain their current values", also when they changed between the SELECT and
\* the UPDATE of the call, half a second of health check included.
OmittedFieldsKept ==
  [][\A r \in Request : \A t \in Tool :
       pc[r] = "commit" /\ pc'[r] = "done" /\ tools[t] # NoRow =>
         /\ tools'[t].text # tools[t].text =>
              t \in ToolsOf(r) /\ NewText(r) # Unset
         /\ tools'[t].status # tools[t].status =>
              t \in ToolsOf(r) /\ NewStatus(r, t) # Unset]_vars

\* Calls that wait for row locks, seed runs that take one after the other too,
\* never all wait for each other or for a call that is gone.  A tool has one
\* exclusive lock here; InnoDB's gap and shared locks and those of the capability
\* rows, which a PUT takes first (register.py:103), are not in the model.
NoDeadlock ==
  LET waiting(r) == pc[r] = "write" /\ lock[NextTool(r)] # NoOne
  IN  (\E r \in Request : pc[r] \in Live) =>
        \E r \in Request : pc[r] \in Live /\ ~ waiting(r)

\* specs/001-tool-registry-service/data-model.md:130 - deprecated is "terminal,
\* manual only": only an operator's update puts a deprecated tool back into the
\* search results.
RetirementLasts ==
  [][\A t \in Tool :
       /\ tools[t] # NoRow /\ tools[t].status = "deprecated"
       /\ tools'[t].status \in {"active", "healthy", "degraded"}
       => \E r \in Request :
            pc[r] = "commit" /\ pc'[r] = "done" /\ op[r].kind = "update"]_vars
============================================================================
