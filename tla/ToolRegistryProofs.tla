------------------------- MODULE ToolRegistryProofs -------------------------
(***************************************************************************)
(* For any number of calls, tools and tags: types, and the properties the  *)
(* run RegistryCalls checks.                                               *)
(*                                                                         *)
(* Only Commit writes the tables; every other step leaves them alone and   *)
(* moves one call.  What Commit writes depends on a snapshot, so the       *)
(* invariant says of each snapshot what it says of the tables.             *)
(***************************************************************************)
EXTENDS ToolRegistry, SequenceTheorems, WellFoundedInduction, TLAPS

----------------------------------------------------------------------------
(* The inductive invariant *)

Loading == {"ping", "write", "respond", "commit"}
Writing == {"write", "respond", "commit"}

\* The tags of the capability rows that r inserts
Given(r) == IF IsSeed(r) THEN SeedTags ELSE op[r].tags

\* Rows of a call that committed, and all of them
WholeIn(rows) ==
  \A c \in rows : c.by \in Request =>
    /\ Committed(c.by)
    /\ c.tag \in Given(c.by)
    /\ \A g \in Given(c.by) : [tool |-> c.tool, tag |-> g, by |-> c.by] \in rows

WrittenByCommitted ==
  \A t \in Tool : tools[t] # NoRow /\ tools[t].text \in Request => Committed(tools[t].text)

\* A snapshot is older than the tables, from which no row disappears.
Loaded(r) ==
  /\ seen[r] \in Snapshot
  /\ \A t \in Tool : seen[r].tools[t] # NoRow => tools[t] # NoRow
  /\ WholeIn(seen[r].caps)
  /\ ~ IsSeed(r) => (Inserts(r, op[r].tool) <=> op[r].kind = "register")

CallOK(r) ==
  /\ pc[r] # "idle" => op[r] \in Op
  /\ pc[r] \in Loading => Loaded(r)
  /\ pc[r] \in Writing /\ op[r].kind = "health" => ping[r] \in Status
  /\ pc[r] = "write" => Remaining(r) # {}
  /\ pc[r] \in {"respond", "commit"} => Remaining(r) = {}

\* A locked row belongs to a call that is writing; a row to insert is still
\* absent; and the call locks only rows it ranks higher from now on.
LockOK(t) ==
  LET r == lock[t]
  IN  r # NoOne =>
        /\ pc[r] \in Writing
        /\ t \in ToolsOf(r)
        /\ Inserts(r, t) => tools[t] = NoRow
        /\ pc[r] = "write" =>
             IsSeed(r) /\ \A u \in Remaining(r) : Rank(r, t) < Rank(r, u)

IInv ==
  /\ TypeOK
  /\ WrittenByCommitted
  /\ WholeIn(caps)
  /\ LastReplaceHolds
  /\ \A r \in Request : CallOK(r)
  /\ \A t \in Tool : LockOK(t)

----------------------------------------------------------------------------
(* What a call asks for *)

LEMMA OpFields ==
  ASSUME NEW r \in Request, op[r] \in Op
  PROVE  /\ op[r].kind \in {"register", "update", "delete", "health", "seed"}
         /\ ~ IsSeed(r) => op[r].tool \in Tool
         /\ op[r].kind \in {"register", "update"} => op[r].tags \in (SUBSET Tag) \cup {NoTags}
         /\ op[r].kind = "register" => op[r].tags \in SUBSET Tag
         /\ op[r].kind = "update" => op[r].status \in Status \cup {Unset}
  <1>1. CASE op[r] \in [kind : {"register"}, tool : Tool, tags : (SUBSET Tag) \ {{}}]
    BY <1>1 DEF IsSeed
  <1>2. CASE op[r] \in [kind : {"update"}, tool : Tool, status : PutStatus \cup {Unset},
                        text : BOOLEAN, tags : (SUBSET Tag) \cup {NoTags}]
    <2>1. /\ op[r].kind = "update" /\ op[r].tool \in Tool /\ op[r].status \in PutStatus \cup {Unset}
          /\ op[r].tags \in (SUBSET Tag) \cup {NoTags}
      BY <1>2
    <2> QED
      BY <2>1, RegistryAssumption DEF IsSeed
  <1>3. CASE op[r] \in [kind : {"delete", "health"}, tool : Tool]
    BY <1>3 DEF IsSeed
  <1>4. CASE op[r] \in [kind : {"seed"}]
    BY <1>4 DEF IsSeed
  <1> QED
    BY <1>1, <1>2, <1>3, <1>4 DEF Op

LEMMA SeedTools ==
  /\ Len(SeedList) \in Nat \ {0} /\ DOMAIN SeedList = 1 .. Len(SeedList)
  /\ \A i \in DOMAIN SeedList : SeedList[i] \in Tool
  /\ \A i, j \in DOMAIN SeedList : SeedList[i] = SeedList[j] => i = j
  <1>1. /\ SeedList \in Seq(Tool) /\ SeedList # <<>>
        /\ \A i, j \in DOMAIN SeedList : SeedList[i] = SeedList[j] => i = j
    BY RegistryAssumption
  <1>2. Len(SeedList) \in Nat /\ DOMAIN SeedList = 1 .. Len(SeedList)
        /\ \A i \in DOMAIN SeedList : SeedList[i] \in Tool
    BY <1>1
  <1>3. Len(SeedList) # 0
    BY <1>1, EmptySeq, Zenon
  <1> QED
    BY <1>1, <1>2, <1>3

LEMMA SomeTools ==
  ASSUME NEW r \in Request, op[r] \in Op
  PROVE  ToolsOf(r) \subseteq Tool /\ ToolsOf(r) # {}
  <1>1. CASE IsSeed(r)
    <2>1. 1 \in DOMAIN SeedList
      BY SeedTools
    <2> QED
      BY <1>1, <2>1, SeedTools DEF ToolsOf
  <1>2. CASE ~ IsSeed(r)
    BY <1>2, OpFields DEF ToolsOf
  <1> QED
    BY <1>1, <1>2

\* A call replaces the tags of a tool by those it gives, or leaves them alone.
LEMMA TagsGiven ==
  ASSUME NEW r \in Request, op[r] \in Op, NEW t \in Tool
  PROVE  NewTags(r, t) # NoTags => NewTags(r, t) = Given(r) /\ Given(r) \subseteq Tag
  <1>1. SeedTags \subseteq Tag
    BY RegistryAssumption
  <1>2. CASE op[r].kind \in {"register", "update"}
    <2>1. NewTags(r, t) = op[r].tags /\ Given(r) = op[r].tags
      BY <1>2 DEF NewTags, Given, IsSeed
    <2>2. op[r].tags \in (SUBSET Tag) \cup {NoTags}
      BY <1>2, OpFields
    <2> QED
      BY <2>1, <2>2
  <1>3. CASE IsSeed(r)
    BY <1>1, <1>3 DEF NewTags, Given, IsSeed
  <1>4. CASE op[r].kind \notin {"register", "update"} /\ ~ IsSeed(r)
    BY <1>4 DEF NewTags
  <1> QED
    BY <1>2, <1>3, <1>4

LEMMA StatusAsked ==
  ASSUME NEW r \in Request, op[r] \in Op, op[r].kind = "health" => ping[r] \in Status,
         NEW t \in Tool
  PROVE  NewStatus(r, t) \in Status \cup {Unset}
  BY OpFields DEF NewStatus, IsSeed, Status

LEMMA TextAsked ==
  ASSUME NEW r \in Request, op[r] \in Op, NEW t \in Tool
  PROVE  /\ NewText(r) \in {r, "seed", Unset}
         /\ op[r].kind = "register" \/ IsSeed(r) => NewText(r) # Unset
  <1>1. Unset # r /\ Unset # "seed"
    BY RegistryAssumption
  <1> QED
    BY <1>1, OpFields DEF NewText, IsSeed

----------------------------------------------------------------------------
(* What Commit makes of a row *)

LEMMA RowParts ==
  ASSUME NEW row \in Row
  PROVE  row.status \in Status /\ row.text \in Request \cup {"old", "seed"} /\ row # NoRow
  BY RowAssumption DEF Row

LEMMA RowMade ==
  ASSUME NEW s \in Status, NEW x \in Request \cup {"old", "seed"}
  PROVE  /\ [status |-> s, text |-> x] \in Row
         /\ [status |-> s, text |-> x].status = s
         /\ [status |-> s, text |-> x].text = x
  BY DEF Row

\* A row of the tables after r: its text is r's, the seed's, or the one it had.
LEMMA RowWritten ==
  ASSUME NEW r \in Request, op[r] \in Op, op[r].kind = "health" => ping[r] \in Status,
         Loaded(r), NEW t \in ToolsOf(r), tools \in [Tool -> Row \cup {NoRow}]
  PROVE  /\ RowAfter(r, t) \in Row
         /\ RowAfter(r, t).text \in {r, "seed"} \/
              (tools[t] # NoRow /\ RowAfter(r, t).text = tools[t].text)
         /\ ~ Inserts(r, t) => /\ NewText(r) = Unset => RowAfter(r, t).text = tools[t].text
                               /\ NewStatus(r, t) = Unset => RowAfter(r, t).status = tools[t].status
  <1>1. t \in Tool
    BY SomeTools
  <1>2. NewStatus(r, t) \in Status \cup {Unset}
    BY <1>1, StatusAsked
  <1>3. /\ NewText(r) \in {r, "seed", Unset}
        /\ op[r].kind = "register" \/ IsSeed(r) => NewText(r) # Unset
    BY <1>1, TextAsked
  <1>4. CASE Inserts(r, t)
    <2>1. NewText(r) \in {r, "seed"}
      BY <1>3, <1>4 DEF Loaded, ToolsOf
    <2>2. PICK s \in Status : s = IF NewStatus(r, t) = Unset THEN "active" ELSE NewStatus(r, t)
      BY <1>2 DEF Status
    <2>3. RowAfter(r, t) = [status |-> s, text |-> NewText(r)]
      BY <1>4, <2>2 DEF RowAfter
    <2> QED
      BY <1>4, <2>1, <2>2, <2>3, RowMade
  <1>5. CASE ~ Inserts(r, t)
    <2>1. tools[t] # NoRow /\ tools[t] \in Row
      BY <1>1, <1>5 DEF Loaded, Inserts
    <2>2. tools[t].status \in Status /\ tools[t].text \in Request \cup {"old", "seed"}
      BY <2>1, RowParts
    <2>3. PICK s, x : /\ s = Column(seen[r].tools[t].status, tools[t].status, NewStatus(r, t))
                      /\ x = Column(seen[r].tools[t].text, tools[t].text, NewText(r))
      OBVIOUS
    <2>4. s \in Status /\ (NewStatus(r, t) = Unset => s = tools[t].status)
      BY <1>2, <2>2, <2>3 DEF Column
    <2>5. /\ x \in {r, "seed", tools[t].text}
          /\ NewText(r) = Unset => x = tools[t].text
      BY <1>3, <2>3 DEF Column
    <2>6. RowAfter(r, t) = [status |-> s, text |-> x]
      BY <1>5, <2>3 DEF RowAfter
    <2> QED
      BY <2>1, <2>2, <2>4, <2>5, <2>6, RowMade
  <1> QED
    BY <1>4, <1>5

----------------------------------------------------------------------------
(* What a step of one call leaves alone *)

\* The steps of r; op changes only when r is submitted.
Steps(r) ==
  /\ \A q \in Request \ {r} : /\ pc'[q] = pc[q] /\ op'[q] = op[q] /\ seen'[q] = seen[q]
                              /\ ping'[q] = ping[q] /\ reply'[q] = reply[q]
  /\ pc[r] = "idle" \/ op'[r] = op[r]
  /\ pc[r] # "done"

LocksOfOthersStay(r) ==
  \A t \in Tool : \A q \in Request \ {r} : lock'[t] = q <=> lock[t] = q

RowsStay == \A t \in Tool : tools[t] # NoRow => tools'[t] # NoRow

\* Steps that write no table
Quiet == UNCHANGED <<tools, caps, asked>>

LEMMA IInvParts ==
  ASSUME IInv
  PROVE  /\ TypeOK /\ WrittenByCommitted /\ WholeIn(caps) /\ LastReplaceHolds
         /\ \A r \in Request : CallOK(r)
         /\ \A t \in Tool : LockOK(t)
  BY Zenon DEF IInv

LEMMA CommittedStays ==
  ASSUME IInv, NEW r \in Request, Steps(r)
  PROVE  \A q \in Request : Committed(q) => /\ Committed(q)'
                                            /\ Given(q)' = Given(q)
  BY DEF Committed, Steps, Given, IsSeed

LEMMA WholeStays ==
  ASSUME IInv, NEW r \in Request, Steps(r), NEW rows, WholeIn(rows)
  PROVE  WholeIn(rows)'
  BY CommittedStays DEF WholeIn

LEMMA OtherCalls ==
  ASSUME IInv, NEW r \in Request, Steps(r), LocksOfOthersStay(r), RowsStay,
         NEW q \in Request \ {r}
  PROVE  CallOK(q)'
  <1>1. CallOK(q)
    BY IInvParts
  <1>2. /\ pc'[q] = pc[q] /\ op'[q] = op[q] /\ seen'[q] = seen[q]
        /\ ping'[q] = ping[q] /\ reply'[q] = reply[q]
    BY DEF Steps
  <1>3. IsSeed(q)' = IsSeed(q) /\ ToolsOf(q)' = ToolsOf(q)
    BY <1>2 DEF IsSeed, ToolsOf
  <1>4. pc[q] # "idle" => op'[q] \in Op /\ Remaining(q)' = Remaining(q)
    <2> SUFFICES ASSUME pc[q] # "idle" PROVE op'[q] \in Op /\ Remaining(q)' = Remaining(q)
      OBVIOUS
    <2>1. op[q] \in Op
      BY <1>1 DEF CallOK
    <2>2. ToolsOf(q) \subseteq Tool
      BY <2>1, SomeTools
    <2> QED
      BY <1>2, <1>3, <2>1, <2>2 DEF Remaining, LocksOfOthersStay
  <1>5. pc[q] \in Loading => Loaded(q)'
    <2> SUFFICES ASSUME pc[q] \in Loading PROVE Loaded(q)'
      OBVIOUS
    <2>1. Loaded(q)
      BY <1>1 DEF CallOK
    <2>2. PICK rows : rows = seen[q].caps
      OBVIOUS
    <2>3. WholeIn(rows)'
      BY <2>1, <2>2, WholeStays DEF Loaded
    <2>4. WholeIn(seen[q].caps)'
      BY <1>2, <2>2, <2>3 DEF WholeIn
    <2> QED
      BY <1>2, <1>3, <2>1, <2>4 DEF Loaded, RowsStay, Inserts
  <1>6. pc[q] \in Writing \cup {"write", "respond", "commit"} => pc[q] # "idle"
    BY DEF Writing
  <1> QED
    BY <1>1, <1>2, <1>4, <1>5, <1>6 DEF CallOK

\* A lock of another call, whose row no one has written meanwhile
LEMMA OtherLocks ==
  ASSUME IInv, NEW r \in Request, Steps(r), LocksOfOthersStay(r),
         NEW t \in Tool, lock[t] \in Request \ {r}, tools'[t] = tools[t]
  PROVE  LockOK(t)'
  <1> PICK q \in Request \ {r} : q = lock[t]
    OBVIOUS
  <1>1. lock'[t] = q
    BY DEF LocksOfOthersStay
  <1>2. /\ pc'[q] = pc[q] /\ op'[q] = op[q] /\ seen'[q] = seen[q]
    BY DEF Steps
  <1>3. LockOK(t) /\ CallOK(q) /\ q # NoOne
    BY IInvParts, RegistryAssumption
  <1>4. pc[q] \in Writing /\ op[q] \in Op
    BY <1>3 DEF LockOK, CallOK, Writing
  <1>5. ToolsOf(q) \subseteq Tool
    BY <1>4, SomeTools
  <1>6. IsSeed(q)' = IsSeed(q) /\ ToolsOf(q)' = ToolsOf(q) /\ \A u : Inserts(q, u)' = Inserts(q, u)
    BY <1>2 DEF IsSeed, ToolsOf, Inserts
  <1>7. \A u : Rank(q, u)' = Rank(q, u)
    BY <1>6, Zenon DEF Rank
  <1>8. Remaining(q)' = Remaining(q)
    BY <1>5, <1>6 DEF Remaining, LocksOfOthersStay
  <1> QED
    BY <1>1, <1>2, <1>3, <1>6, <1>7, <1>8 DEF LockOK

\* A call locks rows only while it writes.
LEMMA NoLockYet ==
  ASSUME IInv, NEW r \in Request, pc[r] \notin Writing, NEW t \in Tool
  PROVE  lock[t] # r
  BY IInvParts, RegistryAssumption DEF LockOK

----------------------------------------------------------------------------
(* The order in which a seed run takes the rows *)

LEMMA Least ==
  ASSUME NEW T, T \subseteq Nat, T # {}
  PROVE  \E x \in T : \A y \in T : x <= y
  <1> DEFINE R == OpToRel(<, Nat)
  <1>1. IsWellFoundedOn(R, Nat)
    BY NatLessThanWellFounded
  <1>2. \A x, y \in Nat : <<x, y>> \in R <=> x < y
    BY DEF OpToRel
  <1> HIDE DEF R
  <1>3. PICK x \in T : \A y \in T : ~ (<<y, x>> \in R)
    BY <1>1, WFMin
  <1>4. ASSUME NEW y \in T PROVE x <= y
    <2>1. x \in Nat /\ y \in Nat
      OBVIOUS
    <2>2. ~ (y < x)
      BY <1>2, <1>3, <2>1
    <2> QED
      BY <2>1, <2>2
  <1> QED
    BY <1>4

LEMMA Positions ==
  ASSUME NEW i \in DOMAIN SeedList
  PROVE  Position(SeedList[i]) = i
  <1>1. \A j \in DOMAIN SeedList : SeedList[j] = SeedList[i] => j = i
    BY SeedTools
  <1> QED
    BY <1>1 DEF Position

LEMMA Ranks ==
  ASSUME NEW r \in Request, IsSeed(r), NEW t \in ToolsOf(r), NEW u \in ToolsOf(r)
  PROVE  /\ Rank(r, t) \in Nat
         /\ Rank(r, t) = Rank(r, u) => t = u
         /\ Inserts(r, t) /\ ~ Inserts(r, u) => Rank(r, t) < Rank(r, u)
         /\ (Inserts(r, t) <=> Inserts(r, u)) =>
              (Rank(r, t) < Rank(r, u) <=> Position(t) < Position(u))
  <1>1. PICK i \in DOMAIN SeedList, j \in DOMAIN SeedList : t = SeedList[i] /\ u = SeedList[j]
    BY DEF ToolsOf
  <1>2. Position(t) = i /\ Position(u) = j
    BY <1>1, Positions
  <1>3. Len(SeedList) \in Nat /\ i \in 1 .. Len(SeedList) /\ j \in 1 .. Len(SeedList)
    BY SeedTools
  <1> QED
    BY <1>1, <1>2, <1>3 DEF Rank

\* The row a call flushes next is one it has not locked, and a seed run's is the
\* first of those.
LEMMA NextIsLeast ==
  ASSUME NEW r \in Request, op[r] \in Op, Remaining(r) # {}
  PROVE  /\ NextTool(r) \in Remaining(r)
         /\ IsSeed(r) => \A u \in Remaining(r) : Rank(r, NextTool(r)) <= Rank(r, u)
         /\ ~ IsSeed(r) => Remaining(r) = {NextTool(r)}
  <1>1. CASE ~ IsSeed(r)
    BY <1>1 DEF NextTool, Remaining, ToolsOf
  <1>2. CASE IsSeed(r)
    <2> DEFINE T == {Rank(r, t) : t \in Remaining(r)}
    <2>1. Remaining(r) \subseteq ToolsOf(r)
      BY DEF Remaining
    <2>2. T \subseteq Nat /\ T # {}
      BY <1>2, <2>1, Ranks
    <2>3. PICK x \in T : \A y \in T : x <= y
      BY <2>2, Least
    <2>4. \E t \in Remaining(r) : \A u \in Remaining(r) : Rank(r, t) <= Rank(r, u)
      BY <2>3
    <2> QED
      BY <1>2, <2>4 DEF NextTool
  <1> QED
    BY <1>1, <1>2

----------------------------------------------------------------------------
(* Steps that write no table *)

TablesT == /\ tools \in [Tool -> Row \cup {NoRow}]
           /\ caps \subseteq CapRow
           /\ asked \in [Tool -> SUBSET Tag]
Places  == Live \cup {"idle", "done", "dead"}
Replies == {"none", "ok", "conflict", "missing", "error"}
CallsT  == /\ lock \in [Tool -> Request \cup {NoOne}]
           /\ pc \in [Request -> Places]
           /\ op \in [Request -> Op \cup {Nothing}]
           /\ seen \in [Request -> Snapshot \cup {Nothing}]
           /\ ping \in [Request -> Status \cup {Nothing}]
           /\ reply \in [Request -> Replies]

LEMMA TypeParts == TypeOK <=> TablesT /\ CallsT
  BY DEF TypeOK, TablesT, CallsT, Places, Replies

LEMMA Assigned ==
  ASSUME NEW D, NEW S, NEW f \in [D -> S], NEW d \in D, NEW e \in S
  PROVE  /\ [f EXCEPT ![d] = e] \in [D -> S]
         /\ [f EXCEPT ![d] = e][d] = e
         /\ \A u \in D \ {d} : [f EXCEPT ![d] = e][u] = f[u]
  OBVIOUS

\* What such a step has to keep
LEMMA QuietKeeps ==
  ASSUME IInv, NEW r \in Request, Quiet, Steps(r), LocksOfOthersStay(r), CallsT', CallOK(r)',
         \A t \in Tool : lock'[t] = r => LockOK(t)'
  PROVE  IInv'
  <1> USE IInvParts
  <1>1. tools' = tools /\ caps' = caps /\ asked' = asked
    BY DEF Quiet
  <1>2. TypeOK'
    <2>1. TablesT'
      BY <1>1, TypeParts DEF TablesT
    <2> QED
      BY <2>1, Zenon DEF TypeOK, TablesT, CallsT, Places, Replies
  <1>3. WrittenByCommitted'
    <2>1. WrittenByCommitted
      OBVIOUS
    <2>2. \A q \in Request : Committed(q) => Committed(q)'
      BY CommittedStays
    <2> QED
      BY <1>1, <2>1, <2>2 DEF WrittenByCommitted
  <1>4. WholeIn(caps)'
    <2>1. PICK rows : rows = caps
      OBVIOUS
    <2>2. WholeIn(rows)'
      BY <2>1, WholeStays
    <2> QED
      BY <1>1, <2>1, <2>2 DEF WholeIn
  <1>5. LastReplaceHolds'
    <2>1. LastReplaceHolds
      OBVIOUS
    <2> QED
      BY <1>1, <2>1 DEF LastReplaceHolds, Tags, RowsOf
  <1>6. \A q \in Request : CallOK(q)'
    <2>1. RowsStay
      BY <1>1 DEF RowsStay
    <2> QED
      BY <2>1, OtherCalls
  <1>7. \A t \in Tool : LockOK(t)'
    <2> SUFFICES ASSUME NEW t \in Tool PROVE LockOK(t)'
      OBVIOUS
    <2>1. lock'[t] \in Request \cup {NoOne} /\ lock[t] \in Request \cup {NoOne}
      BY TypeParts DEF CallsT
    <2>2. CASE lock'[t] = r
      BY <2>2
    <2>3. CASE lock'[t] = NoOne
      BY <2>3 DEF LockOK
    <2>4. CASE lock'[t] \in Request \ {r}
      <3>1. lock[t] = lock'[t]
        BY <2>4 DEF LocksOfOthersStay
      <3> QED
        BY <1>1, <2>4, <3>1, OtherLocks
    <2> QED
      BY <2>1, <2>2, <2>3, <2>4
  <1> QED
    BY <1>2, <1>3, <1>4, <1>5, <1>6, <1>7, Zenon DEF IInv

LEMMA SubmitKeeps ==
  ASSUME IInv, NEW r \in Request, Submit(r)
  PROVE  IInv'
  <1> USE IInvParts
  <1>1. PICK o \in Op : op' = [op EXCEPT ![r] = o]
    BY Zenon DEF Submit
  <1>2. /\ pc[r] = "idle" /\ pc' = [pc EXCEPT ![r] = "read"]
        /\ UNCHANGED <<tools, caps, lock, seen, ping, reply, asked>>
    BY Zenon DEF Submit, Goto
  <1>3. CallsT /\ "read" \in Places
    BY TypeParts DEF Places, Live
  <1>4. /\ op' \in [Request -> Op \cup {Nothing}] /\ op'[r] = o
        /\ \A q \in Request \ {r} : op'[q] = op[q]
    BY <1>1, <1>3, Assigned DEF CallsT
  <1>5. /\ pc' \in [Request -> Places] /\ pc'[r] = "read"
        /\ \A q \in Request \ {r} : pc'[q] = pc[q]
    BY <1>2, <1>3, Assigned DEF CallsT
  <1>6. CallsT' /\ Steps(r) /\ LocksOfOthersStay(r) /\ Quiet
    BY <1>2, <1>3, <1>4, <1>5 DEF CallsT, Steps, LocksOfOthersStay, Quiet
  <1>7. CallOK(r)'
    BY <1>4, <1>5 DEF CallOK, Loading, Writing
  <1>8. \A t \in Tool : lock'[t] # r
    BY <1>2, NoLockYet DEF Writing
  <1> QED
    BY <1>6, <1>7, <1>8, QuietKeeps

\* A transaction ends without having written.
LEMMA ClosedKeeps ==
  ASSUME IInv, NEW r \in Request, pc[r] \in Live, NEW step \in {"done", "dead"}, Close(r, step),
         UNCHANGED <<tools, caps, asked, op, ping>>, NEW answer \in Replies,
         reply' = [reply EXCEPT ![r] = answer]
  PROVE  IInv'
  <1> USE IInvParts
  <1>1. /\ lock' = Unlocked(r) /\ seen' = [seen EXCEPT ![r] = Nothing]
        /\ pc' = [pc EXCEPT ![r] = step]
    BY DEF Close, Goto
  <1>2. CallsT /\ step \in Places
    BY TypeParts DEF Places
  <1>3. /\ lock' \in [Tool -> Request \cup {NoOne}]
        /\ \A t \in Tool : lock'[t] # r /\ (lock[t] # r => lock'[t] = lock[t])
        /\ \A t \in Tool : lock'[t] \in {NoOne, lock[t]}
    BY <1>1, <1>2, RegistryAssumption DEF CallsT, Unlocked
  <1>4. /\ seen' \in [Request -> Snapshot \cup {Nothing}]
        /\ \A q \in Request \ {r} : seen'[q] = seen[q]
    BY <1>1, <1>2, Assigned DEF CallsT
  <1>5. /\ pc' \in [Request -> Places] /\ pc'[r] = step
        /\ \A q \in Request \ {r} : pc'[q] = pc[q]
    BY <1>1, <1>2, Assigned DEF CallsT
  <1>6. /\ reply' \in [Request -> Replies]
        /\ \A q \in Request \ {r} : reply'[q] = reply[q]
    BY <1>2, Assigned DEF CallsT
  <1>7. CallsT' /\ Steps(r) /\ Quiet
    BY <1>2, <1>3, <1>4, <1>5, <1>6 DEF CallsT, Steps, Quiet, Live
  <1>8. LocksOfOthersStay(r)
    BY <1>3, RegistryAssumption DEF LocksOfOthersStay
  <1>9. CallOK(r)'
    <2>1. op[r] \in Op
      BY DEF CallOK, Live
    <2> QED
      BY <1>5, <2>1 DEF CallOK, Loading, Writing
  <1> QED
    BY <1>3, <1>7, <1>8, <1>9, QuietKeeps

LEMMA RollbackKeeps ==
  ASSUME IInv, NEW r \in Request, pc[r] \in Live, NEW answer \in Replies, Rollback(r, answer)
  PROVE  IInv'
  <1>1. PICK said : said = IF reply[r] = "none" THEN answer ELSE reply[r]
    OBVIOUS
  <1>2. said \in Replies
    BY <1>1, IInvParts, TypeParts DEF CallsT
  <1>3. reply' = [reply EXCEPT ![r] = said]
    BY <1>1 DEF Rollback
  <1> QED
    BY <1>2, <1>3, ClosedKeeps DEF Rollback

LEMMA AbortKeeps ==
  ASSUME IInv, NEW r \in Request, Abort(r)
  PROVE  IInv'
  BY RollbackKeeps DEF Abort, Live, Replies

LEMMA CrashKeeps ==
  ASSUME IInv, NEW r \in Request, Crash(r)
  PROVE  IInv'
  <1>1. CallsT
    BY IInvParts, TypeParts
  <1>2. PICK said \in Replies : said = reply[r]
    BY <1>1 DEF CallsT
  <1>3. reply' = [reply EXCEPT ![r] = said]
    BY <1>1, <1>2 DEF Crash, CallsT
  <1> QED
    BY <1>3, ClosedKeeps DEF Crash

\* The first SELECT: the snapshot is the tables as they are.
LEMMA ReadKeeps ==
  ASSUME IInv, NEW r \in Request, Read(r)
  PROVE  IInv'
  <1> USE IInvParts
  <1>1. pc[r] = "read" /\ pc[r] \in Live /\ op[r] \in Op
    BY DEF Read, CallOK, Live
  <1>2. CASE \E answer \in Replies : Rollback(r, answer)
    BY <1>1, <1>2, RollbackKeeps
  <1>3. CASE ~ \E answer \in Replies : Rollback(r, answer)
    <2>1. {"conflict", "ok", "missing"} \subseteq Replies
      BY DEF Replies
    <2>2. /\ ~ IsSeed(r) /\ tools[op[r].tool] # NoRow => op[r].kind # "register"
          /\ ~ IsSeed(r) /\ tools[op[r].tool] = NoRow => op[r].kind = "register"
          /\ seen' = [seen EXCEPT ![r] = [tools |-> tools, caps |-> caps]]
          /\ Goto(r, IF op[r].kind = "health" THEN "ping" ELSE "write")
          /\ UNCHANGED <<tools, caps, lock, op, ping, reply, asked>>
      BY <1>3, <2>1 DEF Read
    <2>3. PICK step \in {"ping", "write"} :
               step = IF op[r].kind = "health" THEN "ping" ELSE "write"
      OBVIOUS
    <2>4. CallsT /\ TablesT /\ step \in Places
      BY TypeParts DEF Places, Live
    <2>5. PICK snap : snap = [tools |-> tools, caps |-> caps]
      OBVIOUS
    <2>6. snap \in Snapshot /\ snap.tools = tools /\ snap.caps = caps
      BY <2>4, <2>5 DEF Snapshot, TablesT
    <2>7. /\ seen' \in [Request -> Snapshot \cup {Nothing}] /\ seen'[r] = snap
          /\ \A q \in Request \ {r} : seen'[q] = seen[q]
      BY <2>2, <2>4, <2>5, <2>6, Assigned DEF CallsT
    <2>8. /\ pc' \in [Request -> Places] /\ pc'[r] = step
          /\ \A q \in Request \ {r} : pc'[q] = pc[q]
      BY <2>2, <2>3, <2>4, Assigned DEF CallsT, Goto
    <2>9. CallsT' /\ Steps(r) /\ LocksOfOthersStay(r) /\ Quiet
      BY <1>1, <2>2, <2>4, <2>7, <2>8 DEF CallsT, Steps, LocksOfOthersStay, Quiet
    <2>10. \A t \in Tool : lock[t] # r /\ lock'[t] # r
      BY <1>1, <2>2, NoLockYet DEF Writing
    <2>11. Loaded(r)'
      <3>1. PICK rows : rows = caps
        OBVIOUS
      <3>2. WholeIn(rows)'
        BY <2>9, <3>1, WholeStays
      <3>3. WholeIn(seen[r].caps)'
        BY <2>6, <2>7, <3>1, <3>2 DEF WholeIn
      <3>4. ~ IsSeed(r)' => (Inserts(r, op[r].tool)' <=> op'[r].kind = "register")
        BY <2>2, <2>6, <2>7 DEF IsSeed, Inserts
      <3>5. \A t \in Tool : seen'[r].tools[t] # NoRow => tools'[t] # NoRow
        BY <2>2, <2>6, <2>7
      <3>6. (seen[r] \in Snapshot)'
        BY <2>6, <2>7
      <3> QED
        BY <3>3, <3>4, <3>5, <3>6, Zenon DEF Loaded
    <2>12. Remaining(r)' # {}
      <3>1. ToolsOf(r)' = ToolsOf(r)
        BY <2>2 DEF ToolsOf, IsSeed
      <3>2. Remaining(r)' = ToolsOf(r)
        BY <1>1, <2>10, <3>1, SomeTools DEF Remaining
      <3> QED
        BY <1>1, <3>2, SomeTools
    <2>13. CallOK(r)'
      BY <1>1, <2>2, <2>3, <2>8, <2>11, <2>12 DEF CallOK, Writing
    <2> QED
      BY <2>9, <2>10, <2>13, QuietKeeps
  <1> QED
    BY <1>2, <1>3

LEMMA PingKeeps ==
  ASSUME IInv, NEW r \in Request, Ping(r)
  PROVE  IInv'
  <1> USE IInvParts
  <1>1. /\ pc[r] = "ping" /\ pc' = [pc EXCEPT ![r] = "write"]
        /\ UNCHANGED <<tools, caps, lock, op, seen, reply, asked>>
    BY DEF Ping, Goto
  <1>2. PICK new \in {"healthy", "degraded", "unhealthy"} : ping' = [ping EXCEPT ![r] = new]
    BY DEF Ping
  <1>3. CallsT /\ "write" \in Places /\ new \in Status
    BY TypeParts DEF Places, Live, Status
  <1>4. /\ ping' \in [Request -> Status \cup {Nothing}] /\ ping'[r] = new
        /\ \A q \in Request \ {r} : ping'[q] = ping[q]
    BY <1>2, <1>3, Assigned DEF CallsT
  <1>5. /\ pc' \in [Request -> Places] /\ pc'[r] = "write"
        /\ \A q \in Request \ {r} : pc'[q] = pc[q]
    BY <1>1, <1>3, Assigned DEF CallsT
  <1>6. CallsT' /\ Steps(r) /\ LocksOfOthersStay(r) /\ Quiet
    BY <1>1, <1>3, <1>4, <1>5 DEF CallsT, Steps, LocksOfOthersStay, Quiet
  <1>7. \A t \in Tool : lock[t] # r /\ lock'[t] # r
    BY <1>1, NoLockYet DEF Writing
  <1>8. op[r] \in Op /\ Loaded(r)
    BY <1>1 DEF CallOK, Loading
  <1>9. Loaded(r)'
    <2>1. PICK rows : rows = seen[r].caps
      OBVIOUS
    <2>2. WholeIn(rows)'
      BY <1>6, <1>8, <2>1, WholeStays DEF Loaded
    <2>3. WholeIn(seen[r].caps)'
      BY <1>1, <2>1, <2>2 DEF WholeIn
    <2> QED
      BY <1>1, <1>8, <2>3 DEF Loaded, IsSeed, Inserts
  <1>10. Remaining(r)' # {}
    <2>1. Remaining(r)' = ToolsOf(r)
      BY <1>1, <1>7, <1>8, SomeTools DEF Remaining, ToolsOf, IsSeed
    <2> QED
      BY <1>8, <2>1, SomeTools
  <1>11. CallOK(r)'
    BY <1>1, <1>3, <1>4, <1>5, <1>8, <1>9, <1>10 DEF CallOK
  <1> QED
    BY <1>6, <1>7, <1>11, QuietKeeps

LEMMA RespondKeeps ==
  ASSUME IInv, NEW r \in Request, Respond(r)
  PROVE  IInv'
  <1> USE IInvParts
  <1>1. /\ pc[r] = "respond" /\ pc' = [pc EXCEPT ![r] = "commit"]
        /\ reply' = [reply EXCEPT ![r] = "ok"]
        /\ UNCHANGED <<tools, caps, lock, op, seen, ping, asked>>
    BY DEF Respond, Goto
  <1>2. CallsT /\ "commit" \in Places /\ "ok" \in Replies
    BY TypeParts DEF Places, Live, Replies
  <1>3. /\ reply' \in [Request -> Replies]
        /\ \A q \in Request \ {r} : reply'[q] = reply[q]
    BY <1>1, <1>2, Assigned DEF CallsT
  <1>4. /\ pc' \in [Request -> Places] /\ pc'[r] = "commit"
        /\ \A q \in Request \ {r} : pc'[q] = pc[q]
    BY <1>1, <1>2, Assigned DEF CallsT
  <1>5. CallsT' /\ Steps(r) /\ LocksOfOthersStay(r) /\ Quiet
    BY <1>1, <1>2, <1>3, <1>4 DEF CallsT, Steps, LocksOfOthersStay, Quiet
  <1>6. CallOK(r) /\ Loaded(r)
    BY <1>1 DEF CallOK, Loading
  <1>7. Loaded(r)'
    <2>1. PICK rows : rows = seen[r].caps
      OBVIOUS
    <2>2. WholeIn(rows)'
      BY <1>5, <1>6, <2>1, WholeStays DEF Loaded
    <2>3. WholeIn(seen[r].caps)'
      BY <1>1, <2>1, <2>2 DEF WholeIn
    <2> QED
      BY <1>1, <1>6, <2>3 DEF Loaded, IsSeed, Inserts
  <1>8. Remaining(r)' = Remaining(r)
    BY <1>1 DEF Remaining, ToolsOf, IsSeed
  <1>9. CallOK(r)'
    BY <1>1, <1>4, <1>6, <1>7, <1>8 DEF CallOK, Loading, Writing
  <1>10. ASSUME NEW t \in Tool, lock'[t] = r PROVE LockOK(t)'
    BY <1>1, <1>4, <1>10, RegistryAssumption DEF LockOK, Writing, ToolsOf, IsSeed, Inserts
  <1> QED
    BY <1>5, <1>9, <1>10, QuietKeeps

\* The row the call flushes is the first of those it still has to lock.
LEMMA WriteKeeps ==
  ASSUME IInv, NEW r \in Request, Write(r)
  PROVE  IInv'
  <1> USE IInvParts
  <1>1. pc[r] = "write" /\ pc[r] \in Live /\ op[r] \in Op /\ Loaded(r) /\ Remaining(r) # {}
    BY DEF Write, CallOK, Live, Loading
  <1>2. PICK t : t = NextTool(r)
    OBVIOUS
  <1>3. /\ t \in Remaining(r)
        /\ IsSeed(r) => \A u \in Remaining(r) : Rank(r, t) <= Rank(r, u)
        /\ ~ IsSeed(r) => Remaining(r) = {t}
    BY <1>1, <1>2, NextIsLeast
  <1>4. t \in ToolsOf(r) /\ t \in Tool /\ lock[t] # r
    BY <1>1, <1>3, SomeTools DEF Remaining
  <1>5. CASE Rollback(r, "error")
    BY <1>1, <1>5, RollbackKeeps DEF Replies
  <1>6. CASE ~ Rollback(r, "error")
    <2>1. PICK step : step = IF Remaining(r) # {t} THEN "write"
                             ELSE IF IsSeed(r) THEN "commit" ELSE "respond"
      OBVIOUS
    <2>2. /\ lock[t] = NoOne /\ ~ Clashes(r, t)
          /\ lock' = [lock EXCEPT ![t] = r] /\ pc' = [pc EXCEPT ![r] = step]
          /\ UNCHANGED <<tools, caps, op, seen, ping, reply, asked>>
      BY <1>2, <1>6, <2>1 DEF Write, Goto
    <2>3. CallsT /\ step \in Places /\ step \in Writing /\ r \in Request \cup {NoOne}
      BY <2>1, TypeParts DEF Places, Live, Writing
    <2>4. /\ lock' \in [Tool -> Request \cup {NoOne}] /\ lock'[t] = r
          /\ \A u \in Tool \ {t} : lock'[u] = lock[u]
      BY <1>4, <2>2, <2>3, Assigned DEF CallsT
    <2>5. /\ pc' \in [Request -> Places] /\ pc'[r] = step
          /\ \A q \in Request \ {r} : pc'[q] = pc[q]
      BY <2>2, <2>3, Assigned DEF CallsT
    <2>6. CallsT' /\ Steps(r) /\ Quiet
      BY <1>1, <2>2, <2>3, <2>4, <2>5 DEF CallsT, Steps, Quiet
    <2>7. LocksOfOthersStay(r)
      BY <2>2, <2>4, RegistryAssumption DEF LocksOfOthersStay
    <2>8. /\ IsSeed(r)' = IsSeed(r) /\ ToolsOf(r)' = ToolsOf(r)
          /\ \A u : Inserts(r, u)' = Inserts(r, u)
      BY <2>2 DEF IsSeed, ToolsOf, Inserts
    <2>9. \A u : Rank(r, u)' = Rank(r, u)
      BY <2>8, Zenon DEF Rank
    <2>10. Remaining(r)' = Remaining(r) \ {t}
      BY <1>1, <1>3, <1>4, <2>4, <2>8, SomeTools DEF Remaining
    <2>11. Loaded(r)'
      <3>1. PICK rows : rows = seen[r].caps
        OBVIOUS
      <3>2. WholeIn(rows)'
        BY <1>1, <2>6, <3>1, WholeStays DEF Loaded
      <3>3. WholeIn(seen[r].caps)'
        BY <2>2, <3>1, <3>2 DEF WholeIn
      <3> QED
        BY <1>1, <2>2, <2>8, <3>3 DEF Loaded
    <2>12. CallOK(r)'
      <3>1. step = "write" <=> Remaining(r)' # {}
        BY <1>3, <2>1, <2>10
      <3>2. op[r].kind = "health" => ping[r] \in Status
        BY <1>1 DEF CallOK, Writing
      <3> QED
        BY <1>1, <2>2, <2>3, <2>5, <2>11, <3>1, <3>2 DEF CallOK, Writing
    <2>13. ASSUME NEW u \in Tool, lock'[u] = r PROVE LockOK(u)'
      <3>1. pc'[r] \in Writing /\ u \in ToolsOf(r)' /\ r # NoOne
        <4>1. CASE u = t
          BY <1>4, <2>3, <2>5, <2>8, <4>1, RegistryAssumption
        <4>2. CASE u # t
          BY <2>3, <2>4, <2>5, <2>8, <2>13, <4>2, RegistryAssumption DEF LockOK
        <4> QED
          BY <4>1, <4>2
      <3>2. Inserts(r, u) => tools[u] = NoRow
        <4>1. CASE u = t
          BY <2>2, <4>1 DEF Clashes
        <4>2. CASE u # t
          BY <2>4, <2>13, <4>2, RegistryAssumption DEF LockOK
        <4> QED
          BY <4>1, <4>2
      <3>3. ASSUME step = "write" PROVE IsSeed(r) /\ \A v \in Remaining(r) \ {t} : Rank(r, u) < Rank(r, v)
        <4>1. IsSeed(r)
          BY <1>3, <2>1, <3>3
        <4>2. ASSUME NEW v \in Remaining(r) \ {t} PROVE Rank(r, u) < Rank(r, v)
          <5>1. v \in ToolsOf(r) /\ v \in Remaining(r) /\ v # t
            BY DEF Remaining
          <5>2. Rank(r, t) <= Rank(r, v) /\ Rank(r, t) \in Nat /\ Rank(r, v) \in Nat
            BY <1>3, <1>4, <4>1, <5>1, Ranks
          <5>3. Rank(r, t) # Rank(r, v)
            BY <1>4, <4>1, <5>1, Ranks
          <5>4. CASE u = t
            BY <5>2, <5>3, <5>4
          <5>5. CASE u # t
            BY <1>1, <2>4, <2>13, <5>1, <5>5, RegistryAssumption, ZenonT(30) DEF LockOK
          <5> QED
            BY <5>4, <5>5
        <4> QED
          BY <4>1, <4>2
      <3> QED
        BY <2>2, <2>5, <2>8, <2>9, <2>10, <2>13, <3>1, <3>2, <3>3 DEF LockOK
    <2> QED
      BY <2>6, <2>7, <2>12, <2>13, QuietKeeps
  <1> QED
    BY <1>5, <1>6

----------------------------------------------------------------------------
(* Commit *)

LEMMA CapParts ==
  ASSUME NEW c \in CapRow
  PROVE  /\ c.tool \in Tool /\ c.tag \in Tag /\ c.by \in Request \cup {"old"}
         /\ c = [tool |-> c.tool, tag |-> c.tag, by |-> c.by]
  BY DEF CapRow

LEMMA CapMade ==
  ASSUME NEW t \in Tool, NEW g \in Tag, NEW r \in Request
  PROVE  /\ [tool |-> t, tag |-> g, by |-> r] \in CapRow
         /\ [tool |-> t, tag |-> g, by |-> r].tool = t
         /\ [tool |-> t, tag |-> g, by |-> r].tag = g
         /\ [tool |-> t, tag |-> g, by |-> r].by = r
  BY DEF CapRow

\* At its commit a call holds the rows of all its tools.
LEMMA HoldsAll ==
  ASSUME IInv, NEW r \in Request, Commit(r)
  PROVE  /\ op[r] \in Op /\ Loaded(r) /\ (op[r].kind = "health" => ping[r] \in Status)
         /\ ToolsOf(r) \subseteq Tool
         /\ \A t \in ToolsOf(r) : lock[t] = r /\ (Inserts(r, t) => tools[t] = NoRow)
  <1> USE IInvParts
  <1>1. /\ op[r] \in Op /\ Loaded(r) /\ (op[r].kind = "health" => ping[r] \in Status)
        /\ Remaining(r) = {}
    BY DEF Commit, CallOK, Loading, Writing
  <1>2. ToolsOf(r) \subseteq Tool
    BY <1>1, SomeTools
  <1>3. \A t \in ToolsOf(r) : lock[t] = r
    BY <1>1 DEF Remaining
  <1> QED
    BY <1>1, <1>2, <1>3, RegistryAssumption DEF LockOK

\* What Commit does to the calls and the locks
LEMMA CommitMoves ==
  ASSUME IInv, NEW r \in Request, Commit(r)
  PROVE  /\ CallsT' /\ Steps(r) /\ LocksOfOthersStay(r) /\ Committed(r)' /\ CallOK(r)'
         /\ Given(r)' = Given(r)
         /\ \A t \in Tool : lock'[t] \in {NoOne, lock[t]} \ {r}
  <1> USE IInvParts
  <1>1. /\ pc[r] = "commit" /\ lock' = Unlocked(r) /\ seen' = [seen EXCEPT ![r] = Nothing]
        /\ pc' = [pc EXCEPT ![r] = "done"] /\ reply' = [reply EXCEPT ![r] = "ok"]
        /\ UNCHANGED <<op, ping>>
    BY DEF Commit, Close, Goto
  <1>2. CallsT /\ "done" \in Places /\ "ok" \in Replies
    BY TypeParts DEF Places, Replies
  <1>3. /\ lock' \in [Tool -> Request \cup {NoOne}]
        /\ \A t \in Tool : lock'[t] # r /\ (lock[t] # r => lock'[t] = lock[t])
        /\ \A t \in Tool : lock'[t] \in {NoOne, lock[t]}
    BY <1>1, <1>2, RegistryAssumption DEF CallsT, Unlocked
  <1>4. /\ seen' \in [Request -> Snapshot \cup {Nothing}]
        /\ \A q \in Request \ {r} : seen'[q] = seen[q]
    BY <1>1, <1>2, Assigned DEF CallsT
  <1>5. /\ pc' \in [Request -> Places] /\ pc'[r] = "done"
        /\ \A q \in Request \ {r} : pc'[q] = pc[q]
    BY <1>1, <1>2, Assigned DEF CallsT
  <1>6. /\ reply' \in [Request -> Replies] /\ reply'[r] = "ok"
        /\ \A q \in Request \ {r} : reply'[q] = reply[q]
    BY <1>1, <1>2, Assigned DEF CallsT
  <1>7. CallsT' /\ Steps(r)
    BY <1>1, <1>2, <1>3, <1>4, <1>5, <1>6 DEF CallsT, Steps
  <1>8. LocksOfOthersStay(r)
    BY <1>3, RegistryAssumption DEF LocksOfOthersStay
  <1>9. CallOK(r)'
    BY <1>1, <1>5, HoldsAll DEF CallOK, Loading, Writing
  <1>10. Committed(r)' /\ Given(r)' = Given(r)
    BY <1>1, <1>5, <1>6 DEF Committed, Given, IsSeed
  <1> QED
    BY <1>3, <1>7, <1>8, <1>9, <1>10

\* The rows of a tool after Commit: untouched, or some kept and some inserted.
LEMMA RowsWritten ==
  ASSUME IInv, NEW r \in Request, Commit(r)
  PROVE  /\ \A c \in caps : c.tool \notin ToolsOf(r) => c \in caps'
         /\ \A t \in ToolsOf(r) : NewTags(r, t) = NoTags =>
              \A c \in caps : c.tool = t => c \in caps'
         /\ \A t \in ToolsOf(r) : NewTags(r, t) # NoTags =>
              /\ \A c \in caps : c.tool = t /\ c \notin seen[r].caps => c \in caps'
              /\ \A g \in NewTags(r, t) : [tool |-> t, tag |-> g, by |-> r] \in caps'
         /\ \A c \in caps' :
              \/ c \in caps /\ c.tool \notin ToolsOf(r)
              \/ \E t \in ToolsOf(r) :
                   \/ NewTags(r, t) = NoTags /\ c \in caps /\ c.tool = t
                   \/ /\ NewTags(r, t) # NoTags
                      /\ \/ c \in caps /\ c.tool = t /\ c \notin seen[r].caps
                         \/ \E g \in NewTags(r, t) : c = [tool |-> t, tag |-> g, by |-> r]
  <1>1. caps' = {c \in caps : c.tool \notin ToolsOf(r)} \cup UNION {CapsAfter(r, t) : t \in ToolsOf(r)}
    BY DEF Commit, Apply
  <1>2. ASSUME NEW t \in ToolsOf(r)
        PROVE  /\ NewTags(r, t) = NoTags => CapsAfter(r, t) = {c \in caps : c.tool = t}
               /\ NewTags(r, t) # NoTags =>
                    CapsAfter(r, t) = {c \in caps : c.tool = t /\ c \notin seen[r].caps}
                      \cup {[tool |-> t, tag |-> g, by |-> r] : g \in NewTags(r, t)}
    BY DEF CapsAfter, RowsOf, SeenRows
  <1>3. \A c : c \in caps' <=> \/ c \in caps /\ c.tool \notin ToolsOf(r)
                               \/ \E t \in ToolsOf(r) : c \in CapsAfter(r, t)
    BY <1>1
  <1>4. ASSUME NEW t \in ToolsOf(r), NEW c
        PROVE  c \in CapsAfter(r, t) <=>
                   \/ NewTags(r, t) = NoTags /\ c \in caps /\ c.tool = t
                   \/ /\ NewTags(r, t) # NoTags
                      /\ \/ c \in caps /\ c.tool = t /\ c \notin seen[r].caps
                         \/ \E g \in NewTags(r, t) : c = [tool |-> t, tag |-> g, by |-> r]
    BY <1>2
  <1> QED
    BY <1>3, <1>4

LEMMA CommitTables ==
  ASSUME IInv, NEW r \in Request, Commit(r)
  PROVE  TablesT' /\ RowsStay /\ WrittenByCommitted'
  <1> USE IInvParts, HoldsAll
  <1>1. TablesT
    BY TypeParts
  <1>2. /\ tools' = [t \in Tool |-> IF t \in ToolsOf(r) THEN RowAfter(r, t) ELSE tools[t]]
        /\ asked' = [t \in Tool |-> IF t \in ToolsOf(r) /\ NewTags(r, t) # NoTags
                                      THEN NewTags(r, t) ELSE asked[t]]
    BY DEF Commit, Apply
  <1>3. ASSUME NEW t \in ToolsOf(r)
        PROVE  /\ RowAfter(r, t) \in Row
               /\ RowAfter(r, t).text \in {r, "seed"} \/
                    (tools[t] # NoRow /\ RowAfter(r, t).text = tools[t].text)
    BY <1>1, RowWritten DEF TablesT
  <1>4. tools' \in [Tool -> Row \cup {NoRow}]
    BY <1>1, <1>2, <1>3 DEF TablesT
  <1>5. asked' \in [Tool -> SUBSET Tag]
    BY <1>1, <1>2, TagsGiven DEF TablesT
  <1>6. ASSUME NEW c \in caps' PROVE c \in CapRow
    <2>1. CASE c \in caps
      BY <1>1, <2>1 DEF TablesT
    <2>2. CASE c \notin caps
      <3>1. PICK t \in ToolsOf(r) :
                 /\ NewTags(r, t) # NoTags
                 /\ \E g \in NewTags(r, t) : c = [tool |-> t, tag |-> g, by |-> r]
        BY <2>2, RowsWritten
      <3>2. PICK g \in NewTags(r, t) : c = [tool |-> t, tag |-> g, by |-> r]
        BY <3>1
      <3>3. t \in Tool /\ g \in Tag
        BY <3>1, TagsGiven
      <3> QED
        BY <3>2, <3>3, CapMade
    <2> QED
      BY <2>1, <2>2
  <1>7. RowsStay
    BY <1>2, <1>3, RowParts DEF RowsStay
  <1>8. ASSUME NEW t \in Tool, tools'[t] # NoRow, tools'[t].text \in Request
        PROVE  Committed(tools[t].text)'
    <2>1. Committed(r)' /\ "seed" \notin Request
      BY CommitMoves, RegistryAssumption
    <2>2. CASE tools'[t].text = r
      BY <2>1, <2>2 DEF Committed
    <2>3. CASE tools'[t].text # r
      <3>1. tools[t] # NoRow /\ tools'[t].text = tools[t].text
        BY <1>2, <1>3, <1>8, <2>1, <2>3
      <3>2. PICK q \in Request : q = tools[t].text
        BY <1>8, <3>1
      <3>3. Committed(q)
        BY <3>1, <3>2 DEF WrittenByCommitted
      <3>4. Committed(q)'
        BY <3>3, CommittedStays, CommitMoves
      <3> QED
        BY <3>1, <3>2, <3>4 DEF Committed
    <2> QED
      BY <2>2, <2>3
  <1>9. WrittenByCommitted'
    BY <1>8 DEF WrittenByCommitted
  <1> QED
    BY <1>4, <1>5, <1>6, <1>7, <1>9 DEF TablesT

\* A row of a call stays beside its siblings: when the call that now commits
\* deletes one it has seen all of them, because its snapshot was whole.
LEMMA CommitWhole ==
  ASSUME IInv, NEW r \in Request, Commit(r)
  PROVE  WholeIn(caps)'
  <1> USE IInvParts, HoldsAll
  <1>1. caps \subseteq CapRow /\ seen[r].caps \subseteq CapRow
    <2>1. seen[r] \in Snapshot
      BY DEF Loaded
    <2>2. TablesT
      BY TypeParts
    <2> QED
      BY <2>1, <2>2 DEF Snapshot, TablesT
  <1>2. ASSUME NEW c \in caps', c.by \in Request
        PROVE  /\ Committed(c.by)' /\ c.tag \in Given(c.by)'
               /\ \A g \in Given(c.by)' : [tool |-> c.tool, tag |-> g, by |-> c.by] \in caps'
    <2>1. ASSUME NEW rows, WholeIn(rows), c \in rows
          PROVE  /\ Committed(c.by)' /\ c.tag \in Given(c.by)'
                 /\ \A g \in Given(c.by)' : [tool |-> c.tool, tag |-> g, by |-> c.by] \in rows
      <3>1. PICK q \in Request : q = c.by
        BY <1>2
      <3>2. /\ Committed(q) /\ c.tag \in Given(q)
            /\ \A g \in Given(q) : [tool |-> c.tool, tag |-> g, by |-> q] \in rows
        BY <2>1, <3>1 DEF WholeIn
      <3>3. Committed(q)' /\ Given(q)' = Given(q)
        BY <3>2, CommittedStays, CommitMoves
      <3>4. Committed(c.by)' <=> Committed(q)'
        BY <3>1 DEF Committed
      <3>5. Given(c.by)' = Given(q)'
        BY <3>1 DEF Given, IsSeed
      <3> QED
        BY <3>1, <3>2, <3>3, <3>4, <3>5
    <2>2. CASE c \in caps
      <3>1. /\ Committed(c.by)' /\ c.tag \in Given(c.by)'
            /\ \A g \in Given(c.by)' : [tool |-> c.tool, tag |-> g, by |-> c.by] \in caps
        BY <2>1, <2>2
      <3>2. c \in CapRow
        BY <1>1, <2>2
      <3>3. ASSUME NEW d \in caps, d.tool = c.tool, d.by = c.by, d \notin caps'
            PROVE  FALSE
        <4>1. d \in seen[r].caps /\ c \notin seen[r].caps
          <5>1. c.by # r
            BY <2>2, <1>2 DEF WholeIn, Committed, Commit
          <5>2. \A t \in ToolsOf(r) : \A g \in NewTags(r, t) :
                  NewTags(r, t) # NoTags => c # [tool |-> t, tag |-> g, by |-> r]
            BY <5>1, CapMade, TagsGiven
          <5>3. PICK t \in ToolsOf(r) : d.tool = t /\ NewTags(r, t) # NoTags
            BY <3>3, RowsWritten
          <5>4. d \in seen[r].caps
            BY <3>3, <5>3, RowsWritten
          <5>5. PICK u \in ToolsOf(r) :
                     \/ NewTags(r, u) = NoTags /\ c \in caps /\ c.tool = u
                     \/ /\ NewTags(r, u) # NoTags
                        /\ \/ c \in caps /\ c.tool = u /\ c \notin seen[r].caps
                           \/ \E g \in NewTags(r, u) : c = [tool |-> u, tag |-> g, by |-> r]
            <6>1. c.tool \in ToolsOf(r)
              BY <3>3, <5>3
            <6> QED
              BY <6>1, RowsWritten
          <5>6. c \notin seen[r].caps
            BY <3>3, <5>2, <5>3, <5>5
          <5> QED
            BY <5>4, <5>6
        <4>2. PICK rows : rows = seen[r].caps
          OBVIOUS
        <4>3. WholeIn(rows)
          BY <4>2 DEF Loaded
        <4>4. PICK q \in Request : q = c.by
          BY <1>2
        <4>5. \A g \in Given(q) : [tool |-> c.tool, tag |-> g, by |-> q] \in rows
          BY <3>3, <4>1, <4>2, <4>3, <4>4 DEF WholeIn
        <4>6. c.tag \in Given(q)
          BY <2>2, <4>4 DEF WholeIn
        <4>7. c = [tool |-> c.tool, tag |-> c.tag, by |-> q]
          BY <3>2, <4>4, CapParts
        <4> QED
          BY <4>1, <4>2, <4>5, <4>6, <4>7
      <3>4. ASSUME NEW g \in Given(c.by)'
            PROVE  [tool |-> c.tool, tag |-> g, by |-> c.by] \in caps'
        <4>1. PICK d : d = [tool |-> c.tool, tag |-> g, by |-> c.by]
          OBVIOUS
        <4>2. d \in caps /\ d.tool = c.tool /\ d.by = c.by
          BY <3>1, <4>1
        <4> QED
          BY <3>3, <4>1, <4>2
      <3> QED
        BY <3>1, <3>4
    <2>3. CASE c \notin caps
      <3>1. PICK t \in ToolsOf(r) :
                 /\ NewTags(r, t) # NoTags
                 /\ \E g \in NewTags(r, t) : c = [tool |-> t, tag |-> g, by |-> r]
        BY <2>3, RowsWritten
      <3>2. PICK g \in NewTags(r, t) : c = [tool |-> t, tag |-> g, by |-> r]
        BY <3>1
      <3>3. t \in Tool /\ NewTags(r, t) = Given(r) /\ Given(r) \subseteq Tag
        BY <3>1, TagsGiven
      <3>4. c.tool = t /\ c.tag = g /\ c.by = r
        BY <3>2, <3>3, CapMade
      <3>5. \A h \in Given(r) : [tool |-> t, tag |-> h, by |-> r] \in caps'
        BY <3>1, <3>3, RowsWritten
      <3>6. Committed(r)' /\ Given(r)' = Given(r)
        BY CommitMoves
      <3>7. (Committed(c.by)' <=> Committed(r)') /\ Given(c.by)' = Given(r)'
        BY <3>4 DEF Committed, Given, IsSeed
      <3> QED
        BY <3>2, <3>3, <3>4, <3>5, <3>6, <3>7
    <2> QED
      BY <2>2, <2>3
  <1> QED
    BY <1>2 DEF WholeIn

LEMMA CommitReplaces ==
  ASSUME IInv, NEW r \in Request, Commit(r)
  PROVE  LastReplaceHolds'
  <1> USE IInvParts, HoldsAll
  <1>1. \A t \in Tool : asked'[t] = IF t \in ToolsOf(r) /\ NewTags(r, t) # NoTags
                                      THEN NewTags(r, t) ELSE asked[t]
    BY DEF Commit, Apply
  <1>2. ASSUME NEW t \in Tool, NEW g \in asked'[t]
        PROVE  \E c \in caps' : c.tool = t /\ c.tag = g
    <2>1. CASE t \in ToolsOf(r) /\ NewTags(r, t) # NoTags
      <3>1. g \in NewTags(r, t) /\ g \in Tag
        BY <1>1, <2>1, TagsGiven
      <3>2. [tool |-> t, tag |-> g, by |-> r] \in caps'
        BY <2>1, <3>1, RowsWritten
      <3> QED
        BY <3>1, <3>2, CapMade
    <2>2. CASE ~ (t \in ToolsOf(r) /\ NewTags(r, t) # NoTags)
      <3>1. PICK c \in caps : c.tool = t /\ c.tag = g
        BY <1>1, <2>2 DEF LastReplaceHolds, Tags, RowsOf
      <3>2. c \in caps'
        BY <2>2, <3>1, RowsWritten
      <3> QED
        BY <3>1, <3>2
    <2> QED
      BY <2>1, <2>2
  <1> QED
    BY <1>2 DEF LastReplaceHolds, Tags, RowsOf

LEMMA CommitKeeps ==
  ASSUME IInv, NEW r \in Request, Commit(r)
  PROVE  IInv'
  <1> USE IInvParts
  <1>1. /\ CallsT' /\ Steps(r) /\ LocksOfOthersStay(r) /\ CallOK(r)'
        /\ \A t \in Tool : lock'[t] \in {NoOne, lock[t]} \ {r}
    BY CommitMoves
  <1>2. TablesT' /\ RowsStay /\ WrittenByCommitted'
    BY CommitTables
  <1>3. TypeOK'
    BY <1>1, <1>2, Zenon DEF TypeOK, TablesT, CallsT, Places, Replies
  <1>4. \A q \in Request : CallOK(q)'
    BY <1>1, <1>2, OtherCalls
  <1>5. ASSUME NEW t \in Tool PROVE LockOK(t)'
    <2>1. CASE lock'[t] = NoOne
      BY <2>1 DEF LockOK
    <2>2. CASE lock'[t] # NoOne
      <3>1. lock[t] \in Request \ {r}
        <4>1. CallsT
          BY TypeParts
        <4> QED
          BY <1>1, <2>2, <4>1 DEF CallsT
      <3>2. t \notin ToolsOf(r)
        BY <3>1, HoldsAll
      <3>3. tools'[t] = tools[t]
        BY <3>2 DEF Commit, Apply
      <3> QED
        BY <1>1, <3>1, <3>3, OtherLocks
    <2> QED
      BY <2>1, <2>2
  <1> QED
    BY <1>2, <1>3, <1>4, <1>5, CommitWhole, CommitReplaces, Zenon DEF IInv

----------------------------------------------------------------------------
(* The invariant *)

LEMMA InitHolds ==
  ASSUME Init
  PROVE  IInv
  <1>0. SeedTags \subseteq Tag /\ NoOne \notin Request /\ {"old", "seed"} \cap Request = {}
    BY RegistryAssumption
  <1>1. TypeOK
    <2>1. tools \in [Tool -> Row \cup {NoRow}]
      BY DEF Init, Row, Status
    <2>2. asked \in [Tool -> SUBSET Tag] /\ caps \subseteq CapRow
      BY <1>0 DEF Init
    <2>3. CallsT
      BY DEF Init, CallsT, Places, Replies
    <2> QED
      BY <2>1, <2>2, <2>3, TypeParts DEF TablesT
  <1>2. WrittenByCommitted
    BY <1>0 DEF Init, WrittenByCommitted
  <1>3. WholeIn(caps)
    BY <1>0 DEF Init, WholeIn
  <1>4. LastReplaceHolds
    <2>1. ASSUME NEW t \in Tool, NEW g \in asked[t]
          PROVE  \E c \in caps : c.tool = t /\ c.tag = g
      <3>1. g \in Tag
        BY <1>0 DEF Init
      <3>2. PICK c : c = [tool |-> t, tag |-> g, by |-> "old"]
        OBVIOUS
      <3>3. c \in CapRow /\ c.tool = t /\ c.tag = g /\ c.by = "old"
        BY <3>1, <3>2 DEF CapRow
      <3> QED
        BY <3>3 DEF Init
    <2> QED
      BY <2>1 DEF LastReplaceHolds, Tags, RowsOf
  <1>5. \A r \in Request : CallOK(r)
    BY DEF Init, CallOK, Loading, Writing
  <1>6. \A t \in Tool : LockOK(t)
    BY DEF Init, LockOK
  <1> QED
    BY <1>1, <1>2, <1>3, <1>4, <1>5, <1>6, Zenon DEF IInv

LEMMA StutterKeeps ==
  ASSUME IInv, UNCHANGED vars
  PROVE  IInv'
  <1>1. /\ tools' = tools /\ caps' = caps /\ lock' = lock /\ pc' = pc /\ op' = op
        /\ seen' = seen /\ ping' = ping /\ reply' = reply /\ asked' = asked
    BY DEF vars
  <1>2. TypeOK'
    <2>1. TablesT' /\ CallsT'
      BY <1>1, IInvParts, TypeParts DEF TablesT, CallsT
    <2> QED
      BY <2>1, Zenon DEF TypeOK, TablesT, CallsT, Places, Replies
  <1>3. WrittenByCommitted' /\ LastReplaceHolds'
    BY <1>1, IInvParts DEF WrittenByCommitted, Committed, LastReplaceHolds, Tags, RowsOf
  <1>4. \A rows : WholeIn(rows) => WholeIn(rows)'
    BY <1>1 DEF WholeIn, Committed, Given, IsSeed
  <1>5. WholeIn(caps)'
    <2>1. PICK rows : rows = caps
      OBVIOUS
    <2>2. WholeIn(rows)'
      BY <1>4, <2>1, IInvParts
    <2> QED
      BY <1>1, <2>1, <2>2 DEF WholeIn
  <1>6. ASSUME NEW r \in Request
        PROVE  /\ IsSeed(r)' = IsSeed(r) /\ ToolsOf(r)' = ToolsOf(r)
               /\ Remaining(r)' = Remaining(r)
               /\ \A u : Inserts(r, u)' = Inserts(r, u)
    BY <1>1 DEF IsSeed, ToolsOf, Remaining, Inserts
  <1>7. ASSUME NEW r \in Request PROVE CallOK(r)'
    <2>1. ASSUME Loaded(r) PROVE Loaded(r)'
      <3>1. PICK rows : rows = seen[r].caps
        OBVIOUS
      <3>2. WholeIn(rows)'
        BY <1>4, <2>1, <3>1 DEF Loaded
      <3>3. WholeIn(seen[r].caps)'
        BY <1>1, <3>1, <3>2 DEF WholeIn
      <3> QED
        BY <1>1, <1>6, <2>1, <3>3 DEF Loaded
    <2> QED
      BY <1>1, <1>6, <2>1, IInvParts DEF CallOK
  <1>8. ASSUME NEW t \in Tool PROVE LockOK(t)'
    <2>1. CASE lock[t] = NoOne
      BY <1>1, <2>1 DEF LockOK
    <2>2. CASE lock[t] \in Request
      <3> PICK r \in Request : r = lock[t]
        BY <2>2
      <3>1. \A u : Rank(r, u)' = Rank(r, u)
        BY <1>6, Zenon DEF Rank
      <3>2. LockOK(t)
        BY IInvParts
      <3> QED
        BY <1>1, <1>6, <3>1, <3>2 DEF LockOK
    <2> QED
      BY <2>1, <2>2, IInvParts, TypeParts DEF CallsT
  <1> QED
    BY <1>2, <1>3, <1>5, <1>7, <1>8, Zenon DEF IInv

\* The strengthening of the properties below, kept by every step
THEOREM Invariant == Spec => []IInv
  <1>1. Init => IInv
    BY InitHolds
  <1>2. ASSUME IInv, [Next]_vars PROVE IInv'
    <2>1. CASE UNCHANGED vars
      BY <1>2, <2>1, StutterKeeps
    <2>2. CASE Next
      <3>1. PICK r \in Request : Submit(r) \/ Step(r) \/ Abort(r) \/ Crash(r)
        BY <2>2, Zenon DEF Next
      <3>2. \/ Submit(r) \/ Read(r) \/ Ping(r) \/ Write(r) \/ Respond(r) \/ Commit(r)
            \/ Abort(r) \/ Crash(r)
        BY <3>1, Zenon DEF Step
      <3> QED
        BY <1>2, <3>2, SubmitKeeps, ReadKeeps, PingKeeps, WriteKeeps, RespondKeeps, CommitKeeps,
           AbortKeeps, CrashKeeps, Zenon
    <2> QED
      BY <1>2, <2>1, <2>2, Zenon
  <1> QED
    BY <1>1, <1>2, PTL DEF Spec

----------------------------------------------------------------------------
(* The properties *)

\* Every variable keeps its type.
THEOREM TypeCorrect == Spec => []TypeOK
  <1>1. IInv => TypeOK
    BY IInvParts
  <1> QED
    BY <1>1, Invariant, PTL

\* A call that was refused, failed or died left nothing in the tables.
THEOREM RefusedLeavesNothingAlways == Spec => []RefusedLeavesNothing
  <1>1. ASSUME IInv PROVE RefusedLeavesNothing
    BY <1>1, IInvParts DEF RefusedLeavesNothing, WrittenByCommitted, WholeIn
  <1> QED
    BY <1>1, Invariant, PTL

\* The capability rows one call gave a tool are there all together or not at all.
THEOREM CapabilitiesWholeAlways == Spec => []CapabilitiesWhole
  <1>1. ASSUME IInv PROVE CapabilitiesWhole
    <2>1. WholeIn(caps)
      BY <1>1, IInvParts
    <2>2. ASSUME NEW c \in caps, c.by \in Request
          PROVE  {d.tag : d \in {e \in RowsOf(c.tool) : e.by = c.by}} = Given(c.by)
      <3>1. ASSUME NEW e \in RowsOf(c.tool), e.by = c.by PROVE e.tag \in Given(c.by)
        BY <2>1, <2>2, <3>1 DEF WholeIn, RowsOf
      <3>2. ASSUME NEW g \in Given(c.by)
            PROVE  \E e \in RowsOf(c.tool) : e.by = c.by /\ e.tag = g
        <4>1. [tool |-> c.tool, tag |-> g, by |-> c.by] \in caps
          BY <2>1, <2>2 DEF WholeIn
        <4> QED
          BY <4>1 DEF RowsOf
      <3> QED
        BY <3>1, <3>2
    <2> QED
      BY <2>2 DEF CapabilitiesWhole, Given
  <1> QED
    BY <1>1, Invariant, PTL

\* A tool has the capabilities the last call to replace them asked for.
THEOREM LastReplaceHoldsAlways == Spec => []LastReplaceHolds
  <1>1. IInv => LastReplaceHolds
    BY IInvParts
  <1> QED
    BY <1>1, Invariant, PTL

\* A committing call changes no column of an existing row that it did not ask
\* to change, whatever other calls committed since it loaded the row.
THEOREM OmittedFieldsKeptAlways == Spec => OmittedFieldsKept
  <1> DEFINE Kept(r, t) ==
        /\ tools'[t].text # tools[t].text => t \in ToolsOf(r) /\ NewText(r) # Unset
        /\ tools'[t].status # tools[t].status => t \in ToolsOf(r) /\ NewStatus(r, t) # Unset
  <1>1. ASSUME IInv, [Next]_vars, NEW r \in Request, NEW t \in Tool,
               pc[r] = "commit", pc'[r] = "done", tools[t] # NoRow
        PROVE  Kept(r, t)
    <2>1. CASE tools' = tools
      BY <2>1
    <2>2. CASE tools' # tools
      <3>1. PICK q \in Request : Submit(q) \/ Step(q) \/ Abort(q) \/ Crash(q)
        BY <1>1, <2>2, Zenon DEF Next, vars
      <3>2. Commit(q)
        BY <2>2, <3>1 DEF Submit, Step, Read, Ping, Write, Respond, Abort, Crash, Rollback
      <3>3. q = r
        BY <1>1, <3>2, CommitMoves DEF Steps
      <3>4. Commit(r)
        BY <3>2, <3>3
      <3>5. tools'[t] = IF t \in ToolsOf(r) THEN RowAfter(r, t) ELSE tools[t]
        BY <3>4 DEF Commit, Apply
      <3>6. CASE t \notin ToolsOf(r)
        BY <3>5, <3>6
      <3>7. CASE t \in ToolsOf(r)
        <4>1. ~ Inserts(r, t)
          BY <1>1, <3>4, <3>7, HoldsAll
        <4>2. tools \in [Tool -> Row \cup {NoRow}]
          BY <1>1, IInvParts, TypeParts DEF TablesT
        <4>3. /\ NewText(r) = Unset => RowAfter(r, t).text = tools[t].text
              /\ NewStatus(r, t) = Unset => RowAfter(r, t).status = tools[t].status
          BY <1>1, <3>4, <3>7, <4>1, <4>2, HoldsAll, RowWritten
        <4> QED
          BY <3>5, <3>7, <4>3
      <3> QED
        BY <3>6, <3>7
    <2> QED
      BY <2>1, <2>2
  <1>2. ASSUME IInv, [Next]_vars
        PROVE  [\A r \in Request : \A t \in Tool :
                  pc[r] = "commit" /\ pc'[r] = "done" /\ tools[t] # NoRow => Kept(r, t)]_vars
    BY <1>1, <1>2
  <1> QED
    BY <1>2, Invariant, PTL DEF Spec, OmittedFieldsKept

----------------------------------------------------------------------------
(* No deadlock *)

\* The place of a row in the order of every seed run: present rows come last.
\* A run may rank a row it waits for lower, never higher.
Place(t) == IF tools[t] = NoRow THEN Position(t) ELSE Len(SeedList) + Position(t)

LEMMA PlaceOfHeld ==
  ASSUME IInv, NEW r \in Request, IsSeed(r), pc[r] \in Writing, NEW t \in ToolsOf(r)
  PROVE  /\ Place(t) \in Nat /\ Place(t) <= 2 * Len(SeedList)
         /\ Rank(r, t) \in Nat /\ Rank(r, t) <= Place(t)
         /\ lock[t] = r => Rank(r, t) = Place(t)
  <1> USE IInvParts
  <1>1. PICK i \in DOMAIN SeedList : t = SeedList[i]
    BY DEF ToolsOf
  <1>2. Position(t) = i /\ t \in Tool
    BY <1>1, Positions, SeedTools
  <1>3. Len(SeedList) \in Nat /\ i \in 1 .. Len(SeedList)
    BY SeedTools
  <1>4. ~ Inserts(r, t) => tools[t] # NoRow
    BY <1>2 DEF CallOK, Loaded, Loading, Writing, Inserts
  <1>5. lock[t] = r /\ Inserts(r, t) => tools[t] = NoRow
    BY <1>2, RegistryAssumption DEF LockOK
  <1> QED
    BY <1>2, <1>3, <1>4, <1>5 DEF Rank, Place

\* Some live call does not wait for a tool's lock.  If all did, the holder of each locked
\* row would be a seed run that waits for a row placed after it: no row is last.
THEOREM NoDeadlockAlways == Spec => []NoDeadlock
  <1> DEFINE Waits(r) == pc[r] = "write" /\ lock[NextTool(r)] # NoOne
  <1>1. ASSUME IInv, NEW s \in Request, pc[s] \in Live,
               \A r \in Request : pc[r] \in Live => Waits(r)
        PROVE  FALSE
    <2> USE IInvParts, <1>1
    <2>1. CallsT
      BY TypeParts
    <2>2. ASSUME NEW r \in Request, pc[r] \in Live
          PROVE  /\ pc[r] = "write" /\ NextTool(r) \in Remaining(r)
                 /\ NextTool(r) \in ToolsOf(r) /\ NextTool(r) \in Tool
                 /\ lock[NextTool(r)] # NoOne
      <3>1. Waits(r) /\ op[r] \in Op /\ Remaining(r) # {}
        BY <2>2 DEF CallOK
      <3>2. NextTool(r) \in Remaining(r)
        BY <3>1, NextIsLeast
      <3> QED
        BY <3>1, <3>2, SomeTools DEF Remaining
    <2> DEFINE Held == {t \in Tool : lock[t] # NoOne}
               After == {2 * Len(SeedList) - Place(t) : t \in Held}
    <2>3. ASSUME NEW t \in Held
          PROVE  /\ Place(t) \in Nat /\ Place(t) <= 2 * Len(SeedList)
                 /\ \E u \in Held : Place(u) \in Nat /\ Place(t) < Place(u)
      <3>1. PICK r \in Request : r = lock[t]
        BY <2>1 DEF CallsT
      <3>2. pc[r] \in Live /\ pc[r] \in Writing /\ t \in ToolsOf(r) /\ r # NoOne
        BY <3>1 DEF LockOK, Writing, Live
      <3>3. pc[r] = "write"
        BY <2>2, <3>2
      <3>4. IsSeed(r) /\ \A u \in Remaining(r) : Rank(r, t) < Rank(r, u)
        BY <3>1, <3>2, <3>3 DEF LockOK
      <3>5. PICK u \in Tool : /\ u \in Remaining(r) /\ u \in ToolsOf(r) /\ lock[u] # NoOne
        BY <2>2, <3>2
      <3>6. /\ Place(t) \in Nat /\ Place(t) <= 2 * Len(SeedList) /\ Rank(r, t) = Place(t)
            /\ Place(u) \in Nat /\ Rank(r, u) \in Nat /\ Rank(r, u) <= Place(u)
        BY <3>1, <3>2, <3>4, <3>5, PlaceOfHeld
      <3>7. Rank(r, t) < Rank(r, u)
        BY <3>4, <3>5
      <3> QED
        BY <3>5, <3>6, <3>7
    <2>4. Held # {}
      BY <2>2
    <2>5. Len(SeedList) \in Nat
      BY SeedTools
    <2>6. After \subseteq Nat /\ After # {}
      <3>1. \A n, p \in Nat : p <= 2 * n => 2 * n - p \in Nat
        OBVIOUS
      <3>2. ASSUME NEW t \in Held
            PROVE  2 * Len(SeedList) - Place(t) \in Nat
        BY <2>3, <2>5, <3>1, Zenon
      <3>3. \A t \in Held : 2 * Len(SeedList) - Place(t) \in Nat
        BY <3>2, Zenon
      <3> QED
        BY <2>4, <3>3, Zenon
    <2>7. PICK x \in After : \A y \in After : x <= y
      BY <2>6, Least
    <2>8. PICK t \in Held : x = 2 * Len(SeedList) - Place(t)
      BY <2>7
    <2>9. PICK u \in Held : Place(u) \in Nat /\ Place(t) < Place(u)
      BY <2>3
    <2>10. x <= 2 * Len(SeedList) - Place(u)
      BY <2>7
    <2>11. Place(t) \in Nat
      BY <2>3
    <2> HIDE DEF Held, After
    <2> QED
      BY <2>5, <2>8, <2>9, <2>10, <2>11
  <1>2. IInv => NoDeadlock
    BY <1>1 DEF NoDeadlock
  <1> QED
    BY <1>2, Invariant, PTL

=============================================================================
