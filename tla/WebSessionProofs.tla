-------------------------- MODULE WebSessionProofs --------------------------
(***************************************************************************)
(* For any number of tabs, sessions, principals and requests in flight:    *)
(* types, and the properties the run WebTabs checks.                       *)
(*                                                                         *)
(* Every action works for one tab.  It changes the stores by at most one   *)
(* Set, the tab's provider by assignments, and its chat by one Render; a   *)
(* lemma for each of the three, and one for what other tabs see, carry the *)
(* invariant through the actions.                                          *)
(***************************************************************************)
EXTENDS WebSession, SequenceTheorems, TLAPS

----------------------------------------------------------------------------
(* The inductive invariant *)

\* The thread of a tab and its turns in flight, in session s.
Thread(list, busy, flights, s) ==
  /\ \A i \in DOMAIN list : list[i].session = s
  /\ \A i, j \in DOMAIN list : ~ list[i].answered /\ ~ list[j].answered => i = j
  /\ \A i \in DOMAIN list : ~ list[i].answered => busy
  /\ \A i, j \in DOMAIN flights : flights[i].here /\ flights[j].here => i = j
  /\ busy <=> \E i \in DOMAIN flights : flights[i].here

Closed(t) ==
  /\ sessionId[t] = NoId
  /\ creating[t] = <<>>
  /\ turns[t] = <<>> /\ asking[t] = <<>> /\ ~ sending[t]

\* An open tab has made its principal known to its store and creates only with it.
Identity(t) ==
  /\ status[t] = "open" => /\ principalId[t] \in Principal
                          /\ Get(t) # Nothing
                          /\ Get(t).principal = principalId[t]
  /\ status[t] # "open" => Closed(t)
  /\ \A i \in DOMAIN creating[t] : creating[t][i].principal = principalId[t]

Owned(t) ==
  /\ sessionId[t] # NoId => owner[sessionId[t]] = principalId[t]
  /\ \A i \in DOMAIN asking[t] : owner[asking[t][i].session] = asking[t][i].principal

OwnedRecord(rec) == rec # Nothing /\ rec.session # NoId => owner[rec.session] = rec.principal

Waits(t) ==
  /\ status[t] = "open" /\ ~ isReady[t] =>
       \E i \in DOMAIN creating[t] : creating[t][i].by = "bootstrap"
  /\ status[t] = "open" /\ sessionId[t] = NoId => creating[t] # <<>> \/ error[t] # "none"

Follows(t) == Open1(t) => Get(t).session = sessionId[t]

TabOK(t) ==
  /\ Identity(t)
  /\ Owned(t)
  /\ Waits(t)
  /\ Follows(t)
  /\ Thread(turns[t], sending[t], asking[t], sessionId[t])

RecordsOwned == OwnedRecord(storage) /\ \A t \in Tab : OwnedRecord(memory[t])

IInv == TypeOK /\ RecordsOwned /\ \A t \in Tab : TabOK(t)

----------------------------------------------------------------------------
(* Types in groups, as the actions change them *)

ServerT   == owner \in [Session -> Principal \cup {NoId}] /\ gone \subseteq Session
StoresT   == /\ storage \in Stored \cup {Nothing}
             /\ useMemory \in [Tab -> BOOLEAN]
             /\ memory \in [Tab -> Stored \cup {Nothing}]
Statuses  == {"never", "opening", "open", "closed"}
Errors    == {"none", "session_not_found", "other"}
StatusT   == status \in [Tab -> Statuses]
OnChatT   == onChat \in [Tab -> BOOLEAN]
SessionT  == sessionId \in [Tab -> Session \cup {NoId}]
PrincT    == principalId \in [Tab -> Principal \cup {NoId}]
ReadyT    == isReady \in [Tab -> BOOLEAN]
ErrorT    == error \in [Tab -> Errors]
CreatingT == creating \in [Tab -> Seq(Creation)]
ChatT     == /\ turns \in [Tab -> Seq(Turn)]
             /\ sending \in [Tab -> BOOLEAN]
             /\ asking \in [Tab -> Seq(Asking)]

ProviderT == SessionT /\ PrincT /\ ReadyT /\ ErrorT

LEMMA TypeParts ==
  TypeOK <=> /\ ServerT /\ StoresT /\ StatusT /\ OnChatT
             /\ ProviderT /\ CreatingT /\ ChatT
  BY DEF TypeOK, ServerT, StoresT, StatusT, OnChatT, ProviderT, SessionT, PrincT, ReadyT,
         ErrorT, CreatingT, ChatT, Statuses, Errors

\* Assigning to one tab's entry
LEMMA Assigned ==
  ASSUME NEW S, NEW f \in [Tab -> S], NEW t \in Tab, NEW e \in S
  PROVE  /\ [f EXCEPT ![t] = e] \in [Tab -> S]
         /\ [f EXCEPT ![t] = e][t] = e
         /\ \A u \in Tab \ {t} : [f EXCEPT ![t] = e][u] = f[u]
  OBVIOUS

LEMMA Appended ==
  ASSUME NEW S, NEW s \in Seq(S), NEW e \in S
  PROVE  /\ Append(s, e) \in Seq(S)
         /\ DOMAIN Append(s, e) = DOMAIN s \cup {Len(s) + 1}
         /\ Append(s, e)[Len(s) + 1] = e
         /\ \A i \in DOMAIN s : Append(s, e)[i] = s[i]
  BY SMT

LEMMA Removed ==
  ASSUME NEW S, NEW s \in Seq(S), NEW i \in DOMAIN s
  PROVE  /\ RemoveAt(s, i) \in Seq(S)
         /\ \A j \in DOMAIN RemoveAt(s, i) :
              /\ (IF j < i THEN j ELSE j + 1) \in DOMAIN s \ {i}
              /\ RemoveAt(s, i)[j] = s[IF j < i THEN j ELSE j + 1]
         /\ \A k \in DOMAIN s \ {i} :
              /\ (IF k < i THEN k ELSE k - 1) \in DOMAIN RemoveAt(s, i)
              /\ RemoveAt(s, i)[IF k < i THEN k ELSE k - 1] = s[k]
         /\ DOMAIN RemoveAt(s, i) \subseteq Nat
         /\ DOMAIN s \subseteq Nat
  <1> DEFINE a == SubSeq(s, 1, i - 1)
             b == SubSeq(s, i + 1, Len(s))
  <1>1. Len(s) \in Nat /\ i \in 1 .. Len(s) /\ DOMAIN s = 1 .. Len(s)
    BY SMT
  <1>2. a \in Seq(S) /\ Len(a) = i - 1 /\ \A j \in 1 .. i - 1 : a[j] = s[j]
    BY <1>1, SMT
  <1>3. b \in Seq(S) /\ Len(b) = Len(s) - i /\ \A j \in 1 .. Len(s) - i : b[j] = s[i + j]
    BY <1>1, SMT
  <1>4. RemoveAt(s, i) = a \o b
    BY DEF RemoveAt
  <1> HIDE DEF a, b
  <1>5. /\ a \o b \in Seq(S)
        /\ Len(a \o b) = Len(a) + Len(b)
        /\ \A j \in 1 .. Len(a) + Len(b) :
             (a \o b)[j] = IF j <= Len(a) THEN a[j] ELSE b[j - Len(a)]
    BY <1>2, <1>3, ConcatProperties
  <1>6. DOMAIN (a \o b) = 1 .. Len(s) - 1
    <2>1. Len(a \o b) = Len(s) - 1
      BY <1>1, <1>2, <1>3, <1>5, SMT
    <2> QED
      BY <1>5, <2>1, LenProperties
  <1>7. ASSUME NEW j \in 1 .. Len(s) - 1
        PROVE  (a \o b)[j] = s[IF j < i THEN j ELSE j + 1]
    <2>1. j \in 1 .. Len(a) + Len(b)
      BY <1>1, <1>2, <1>3, SMT
    <2>2. CASE j < i
      <3>1. j <= Len(a) /\ j \in 1 .. i - 1
        BY <1>1, <1>2, <2>2, SMT
      <3> QED
        BY <1>2, <1>5, <2>1, <2>2, <3>1
    <2>3. CASE ~ j < i
      <3>1. /\ ~ j <= Len(a)
            /\ j - Len(a) \in 1 .. Len(s) - i
            /\ i + (j - Len(a)) = j + 1
        BY <1>1, <1>2, <2>3, SMT
      <3> QED
        BY <1>3, <1>5, <2>1, <2>3, <3>1
    <2> QED
      BY <2>2, <2>3
  <1> QED
    <2>1. /\ RemoveAt(s, i) \in Seq(S)
          /\ DOMAIN RemoveAt(s, i) = 1 .. Len(s) - 1
          /\ \A j \in 1 .. Len(s) - 1 : RemoveAt(s, i)[j] = s[IF j < i THEN j ELSE j + 1]
      BY <1>4, <1>5, <1>6, <1>7
    <2>2. \A j \in 1 .. Len(s) - 1 : (IF j < i THEN j ELSE j + 1) \in DOMAIN s \ {i}
      BY <1>1, SMT
    <2>3. ASSUME NEW k \in DOMAIN s \ {i}
          PROVE  /\ (IF k < i THEN k ELSE k - 1) \in 1 .. Len(s) - 1
                 /\ RemoveAt(s, i)[IF k < i THEN k ELSE k - 1] = s[k]
      <3>1. CASE k < i
        <4>1. k \in 1 .. Len(s) - 1
          BY <1>1, <3>1, SMT
        <4> QED
          BY <2>1, <3>1, <4>1
      <3>2. CASE ~ k < i
        <4>1. k - 1 \in 1 .. Len(s) - 1 /\ ~ k - 1 < i /\ (k - 1) + 1 = k
          BY <1>1, <3>2, SMT
        <4> QED
          BY <2>1, <3>2, <4>1
      <3> QED
        BY <3>1, <3>2
    <2>4. 1 .. Len(s) - 1 \subseteq Nat /\ 1 .. Len(s) \subseteq Nat
      BY <1>1, SMT
    <2> QED
      BY <1>1, <2>1, <2>2, <2>3, <2>4

LEMMA Remaining ==
  ASSUME NEW S, NEW s \in Seq(S), NEW i \in DOMAIN s
  PROVE  /\ RemoveAt(s, i) \in Seq(S)
         /\ \A j \in DOMAIN RemoveAt(s, i) : \E o \in DOMAIN s \ {i} : RemoveAt(s, i)[j] = s[o]
         /\ \A k \in DOMAIN s \ {i} : \E j \in DOMAIN RemoveAt(s, i) : RemoveAt(s, i)[j] = s[k]
  <1> DEFINE rest == RemoveAt(s, i)
  <1>1. s \in Seq(S) /\ i \in DOMAIN s
    OBVIOUS
  <1>2. /\ rest \in Seq(S)
        /\ \A j \in DOMAIN rest : /\ (IF j < i THEN j ELSE j + 1) \in DOMAIN s \ {i}
                                 /\ rest[j] = s[IF j < i THEN j ELSE j + 1]
        /\ \A k \in DOMAIN s \ {i} : /\ (IF k < i THEN k ELSE k - 1) \in DOMAIN rest
                                     /\ rest[IF k < i THEN k ELSE k - 1] = s[k]
        /\ DOMAIN rest \subseteq Nat
        /\ DOMAIN s \subseteq Nat
    BY <1>1, Removed, Zenon
  <1> HIDE DEF rest
  <1>3. \A j \in DOMAIN rest : \E o \in DOMAIN s \ {i} : rest[j] = s[o]
    BY <1>2, Zenon
  <1>4. \A k \in DOMAIN s \ {i} : \E j \in DOMAIN rest : rest[j] = s[k]
    BY <1>2, Zenon
  <1> QED
    BY <1>2, <1>3, <1>4 DEF rest

----------------------------------------------------------------------------
(* Stores *)

LEMMA GetTyped ==
  ASSUME StoresT, NEW t \in Tab
  PROVE  Get(t) \in Stored \cup {Nothing}
  BY DEF StoresT, Get

LEMMA StoredFields ==
  ASSUME NEW rec \in Stored
  PROVE  rec.principal \in Principal /\ rec.session \in Session \cup {NoId} /\ rec # Nothing
  BY StoredAssumption DEF Stored

LEMMA NewRecord ==
  ASSUME NEW p \in Principal, NEW s \in Session \cup {NoId}
  PROVE  /\ [principal |-> p, session |-> s] \in Stored
         /\ [principal |-> p, session |-> s].principal = p
         /\ [principal |-> p, session |-> s].session = s
  BY DEF Stored

LEMMA ClearedRecord ==
  ASSUME NEW rec \in Stored
  PROVE  /\ [rec EXCEPT !.session = NoId] \in Stored
         /\ [rec EXCEPT !.session = NoId].principal = rec.principal
         /\ [rec EXCEPT !.session = NoId].session = NoId
  BY DEF Stored

\* No tab but t is affected otherwise than by a record of the same principal.
KeepsRecords(t) ==
  \A u \in Tab \ {t} : Get(u) # Nothing => Get(u)' # Nothing /\ Get(u)'.principal = Get(u).principal

OwnerGrows == \A s \in Session : owner[s] # NoId => owner'[s] = owner[s]

\* setItem, to localStorage or to the tab's memory
LEMMA SetResult ==
  ASSUME StoresT, NEW t \in Tab, NEW rec \in Stored, Set(t, rec)
  PROVE  /\ StoresT'
         /\ Get(t)' = rec
         /\ \A u \in Tab : Get(u)' = Get(u) \/ (Get(u) = Get(t) /\ Get(u)' = rec)
         /\ storage' \in {storage, rec}
         /\ \A u \in Tab : memory'[u] \in {memory[u], rec}
  <1>1. CASE ~ useMemory[t] /\ storage' = rec /\ UNCHANGED <<useMemory, memory>>
    BY <1>1 DEF StoresT, Get
  <1>2. CASE /\ memory' = [memory EXCEPT ![t] = rec]
             /\ useMemory' = [useMemory EXCEPT ![t] = TRUE]
             /\ UNCHANGED storage
    <2>1. /\ memory' \in [Tab -> Stored \cup {Nothing}] /\ memory'[t] = rec
          /\ \A u \in Tab \ {t} : memory'[u] = memory[u]
      BY <1>2 DEF StoresT
    <2>2. /\ useMemory' \in [Tab -> BOOLEAN] /\ useMemory'[t]
          /\ \A u \in Tab \ {t} : useMemory'[u] = useMemory[u]
      BY <1>2, Zenon DEF StoresT
    <2>3. Get(t)' = rec /\ \A u \in Tab \ {t} : Get(u)' = Get(u)
      BY <1>2, <2>1, <2>2 DEF Get
    <2> QED
      BY <1>2, <2>1, <2>2, <2>3 DEF StoresT
  <1> QED
    BY <1>1, <1>2 DEF Set

LEMMA SetKeeps ==
  ASSUME StoresT, NEW t \in Tab, NEW rec \in Stored, Set(t, rec),
         Get(t) # Nothing => rec.principal = Get(t).principal
  PROVE  KeepsRecords(t)
  BY SetResult, StoredFields DEF KeepsRecords

\* What was stored stays owned by its principal, and so is what is stored now.
LEMMA OwnedStays ==
  ASSUME NEW rec \in Stored \cup {Nothing}, OwnedRecord(rec), OwnerGrows, ServerT
  PROVE  OwnedRecord(rec)'
  <1> SUFFICES ASSUME rec # Nothing, rec.session # NoId PROVE owner'[rec.session] = rec.principal
    BY DEF OwnedRecord
  <1>1. rec.session \in Session /\ rec.principal \in Principal
    BY StoredFields
  <1>2. owner[rec.session] = rec.principal /\ rec.principal # NoId
    BY <1>1, WebAssumption DEF OwnedRecord
  <1> QED
    BY <1>1, <1>2 DEF OwnerGrows

LEMMA SetOwned ==
  ASSUME StoresT, ServerT, RecordsOwned, OwnerGrows, NEW t \in Tab, NEW rec \in Stored,
         Set(t, rec), rec.session # NoId => owner'[rec.session] = rec.principal
  PROVE  RecordsOwned'
  <1>1. storage' \in {storage, rec} /\ \A u \in Tab : memory'[u] \in {memory[u], rec}
    BY SetResult
  <1>2. \A r : r = rec => (r # Nothing /\ r.session # NoId => owner'[r.session] = r.principal)
    OBVIOUS
  <1>3. OwnedRecord(storage)'
    <2>1. CASE storage' = storage
      <3>1. OwnedRecord(storage) /\ storage \in Stored \cup {Nothing}
        BY DEF RecordsOwned, StoresT
      <3>2. \A r \in Stored \cup {Nothing} : OwnedRecord(r) =>
              (r # Nothing /\ r.session # NoId => owner'[r.session] = r.principal)
        BY OwnedStays DEF OwnedRecord
      <3> QED
        BY <2>1, <3>1, <3>2 DEF OwnedRecord
    <2>2. CASE storage' = rec
      BY <2>2, <1>2 DEF OwnedRecord
    <2> QED
      BY <1>1, <2>1, <2>2
  <1>4. ASSUME NEW u \in Tab PROVE OwnedRecord(memory[u])'
    <2>1. CASE memory'[u] = memory[u]
      <3>1. OwnedRecord(memory[u]) /\ memory[u] \in Stored \cup {Nothing}
        BY DEF RecordsOwned, StoresT
      <3>2. \A r \in Stored \cup {Nothing} : OwnedRecord(r) =>
              (r # Nothing /\ r.session # NoId => owner'[r.session] = r.principal)
        BY OwnedStays DEF OwnedRecord
      <3> QED
        BY <2>1, <3>1, <3>2 DEF OwnedRecord
    <2>2. CASE memory'[u] = rec
      BY <2>2, <1>2 DEF OwnedRecord
    <2> QED
      BY <1>1, <2>1, <2>2
  <1> QED
    BY <1>3, <1>4 DEF RecordsOwned

\* The stores are left alone.
LEMMA StoresStay ==
  ASSUME StoresT, ServerT, RecordsOwned, OwnerGrows, UNCHANGED stores
  PROVE  /\ StoresT' /\ RecordsOwned'
         /\ \A u \in Tab : Get(u)' = Get(u)
         /\ \A t \in Tab : KeepsRecords(t)
  <1>1. UNCHANGED <<storage, useMemory, memory>>
    BY DEF stores
  <1>2. StoresT' /\ \A u \in Tab : Get(u)' = Get(u)
    BY <1>1 DEF StoresT, Get
  <1>3. \A r \in Stored \cup {Nothing} : OwnedRecord(r) =>
          (r # Nothing /\ r.session # NoId => owner'[r.session] = r.principal)
    BY OwnedStays DEF OwnedRecord
  <1>4. RecordsOwned'
    BY <1>1, <1>3 DEF RecordsOwned, OwnedRecord, StoresT
  <1> QED
    BY <1>2, <1>4 DEF KeepsRecords

----------------------------------------------------------------------------
(* The chat of a tab *)

LEMMA Flight ==
  ASSUME NEW a \in Asking, NEW b \in BOOLEAN
  PROVE  /\ [a EXCEPT !.here = @ /\ b] \in Asking
         /\ [a EXCEPT !.here = @ /\ b].session = a.session
         /\ [a EXCEPT !.here = @ /\ b].principal = a.principal
         /\ [a EXCEPT !.here = @ /\ b].here <=> a.here /\ b
  <1> DEFINE h == a.here /\ b
  <1>1. h \in BOOLEAN
    OBVIOUS
  <1> HIDE DEF h
  <1>2. /\ [a EXCEPT !.here = h] \in Asking
        /\ [a EXCEPT !.here = h].session = a.session
        /\ [a EXCEPT !.here = h].principal = a.principal
        /\ [a EXCEPT !.here = h].here = h
    BY <1>1 DEF Asking
  <1> QED
    BY <1>2 DEF h

ChatOf(t) == Thread(turns[t], sending[t], asking[t], sessionId[t])

\* Rendering keeps a thread one, whether ChatView stays, goes, or gets a new session.
LEMMA Rendered ==
  ASSUME ChatT, NEW t \in Tab, NEW list \in Seq(Turn), NEW busy \in BOOLEAN,
         NEW flights \in Seq(Asking), Thread(list, busy, flights, sessionId[t]),
         Render(t, list, busy, flights)
  PROVE  /\ ChatT'
         /\ ChatOf(t)'
         /\ \A u \in Tab \ {t} :
              turns'[u] = turns[u] /\ sending'[u] = sending[u] /\ asking'[u] = asking[u]
         /\ DOMAIN asking'[t] = DOMAIN flights
         /\ \A i \in DOMAIN flights : /\ asking'[t][i].session = flights[i].session
                                      /\ asking'[t][i].principal = flights[i].principal
  <1>1. PICK m \in BOOLEAN : m <=> Mounted(t)'
    BY Zenon
  <1> DEFINE kept == [i \in DOMAIN flights |-> [flights[i] EXCEPT !.here = @ /\ m]]
             shown == IF m /\ sessionId'[t] = sessionId[t] THEN list ELSE <<>>
  <1>2. /\ turns' = [turns EXCEPT ![t] = shown]
        /\ asking' = [asking EXCEPT ![t] = kept]
    BY <1>1, Zenon DEF Render
  <1>3. sending' = [sending EXCEPT ![t] = m /\ busy]
    BY <1>1, Zenon DEF Render
  <1>4. DOMAIN flights = 1 .. Len(flights) /\ Len(flights) \in Nat
        /\ \A i \in DOMAIN flights : flights[i] \in Asking
    BY SMT
  <1>5. \A i \in DOMAIN flights : /\ kept[i] \in Asking
                                  /\ kept[i].session = flights[i].session
                                  /\ kept[i].principal = flights[i].principal
                                  /\ kept[i].here <=> flights[i].here /\ m
    BY <1>4, Flight, ZenonT(30)
  <1>6. kept \in Seq(Asking) /\ DOMAIN kept = DOMAIN flights
    <2>1. kept \in [1 .. Len(flights) -> Asking]
      BY <1>4, <1>5
    <2> QED
      BY <2>1, <1>4, SeqDef
  <1>7. shown \in Seq(Turn)
    BY EmptySeq
  <1> HIDE DEF kept
  <1>8. /\ turns' \in [Tab -> Seq(Turn)] /\ turns'[t] = shown
        /\ \A u \in Tab \ {t} : turns'[u] = turns[u]
    BY <1>2, <1>7, Assigned DEF ChatT
  <1>9. /\ asking' \in [Tab -> Seq(Asking)] /\ asking'[t] = kept
        /\ \A u \in Tab \ {t} : asking'[u] = asking[u]
    BY <1>2, <1>6, Assigned DEF ChatT
  <1>10. /\ sending' \in [Tab -> BOOLEAN] /\ sending'[t] = (m /\ busy)
         /\ \A u \in Tab \ {t} : sending'[u] = sending[u]
    <2>1. (m /\ busy) \in BOOLEAN
      BY Zenon
    <2> QED
      BY <2>1, <1>3, Assigned, Zenon DEF ChatT
  <1>11. Thread(shown, m /\ busy, kept, sessionId'[t])
    <2>1. \A i, j \in DOMAIN kept : kept[i].here /\ kept[j].here => i = j
      BY <1>5, <1>6 DEF Thread
    <2>2. m /\ busy <=> \E i \in DOMAIN kept : kept[i].here
      BY <1>5, <1>6 DEF Thread
    <2>3. CASE m /\ sessionId'[t] = sessionId[t]
      BY <2>1, <2>2, <2>3 DEF Thread
    <2>4. CASE ~ (m /\ sessionId'[t] = sessionId[t])
      <3>1. shown = <<>> /\ DOMAIN shown = {}
        BY <2>4, SMT
      <3> QED
        BY <2>1, <2>2, <3>1 DEF Thread
    <2> QED
      BY <2>3, <2>4
  <1>12. ChatOf(t)'
    BY <1>8, <1>9, <1>10, <1>11 DEF ChatOf
  <1> QED
    BY <1>5, <1>6, <1>8, <1>9, <1>10, <1>12 DEF ChatT

LEMMA ChatFields ==
  ASSUME ChatT, NEW t \in Tab
  PROVE  /\ turns[t] \in Seq(Turn)
         /\ sending[t] \in BOOLEAN
         /\ asking[t] \in Seq(Asking)
  BY DEF ChatT

\* One turn's entry is answered, or filtered out.
Answering(list) == [j \in DOMAIN list |-> [list[j] EXCEPT !.answered = TRUE]]

LEMMA AnsweredList ==
  ASSUME NEW list \in Seq(Turn), NEW s, \A i \in DOMAIN list : list[i].session = s
  PROVE  /\ Answering(list) \in Seq(Turn)
         /\ \A i \in DOMAIN Answering(list) :
              Answering(list)[i].session = s /\ Answering(list)[i].answered
  <1> DEFINE after == [j \in DOMAIN list |-> [list[j] EXCEPT !.answered = TRUE]]
  <1>1. /\ DOMAIN list = 1 .. Len(list) /\ Len(list) \in Nat
        /\ \A i \in DOMAIN list : list[i] \in Turn
    BY SMT
  <1>2. ASSUME NEW turn \in Turn
        PROVE  /\ [turn EXCEPT !.answered = TRUE] \in Turn
               /\ [turn EXCEPT !.answered = TRUE].session = turn.session
               /\ [turn EXCEPT !.answered = TRUE].answered = TRUE
    BY DEF Turn
  <1>3. \A i \in DOMAIN after :
          after[i] \in Turn /\ after[i].session = s /\ after[i].answered = TRUE
    BY <1>1, <1>2
  <1>4. after \in [1 .. Len(list) -> Turn]
    BY <1>1, <1>3
  <1> QED
    BY <1>1, <1>3, <1>4, SeqDef DEF Answering

LEMMA FilteredList ==
  ASSUME NEW list \in Seq(Turn), NEW s, \A i \in DOMAIN list : list[i].session = s,
         \A i, j \in DOMAIN list : ~ list[i].answered /\ ~ list[j].answered => i = j
  PROVE  /\ WithoutAwaiting(list) \in Seq(Turn)
         /\ \A i \in DOMAIN WithoutAwaiting(list) :
              /\ WithoutAwaiting(list)[i].session = s
              /\ WithoutAwaiting(list)[i].answered
  <1> DEFINE awaiting == {j \in DOMAIN list : ~ list[j].answered}
  <1>1. CASE awaiting = {}
    <2>1. WithoutAwaiting(list) = list
      BY <1>1 DEF WithoutAwaiting
    <2> QED
      BY <1>1, <2>1
  <1>2. CASE awaiting # {}
    <2>1. PICK k \in awaiting : WithoutAwaiting(list) = RemoveAt(list, k)
      BY <1>2 DEF WithoutAwaiting
    <2>2. \A j \in DOMAIN list \ {k} : list[j].answered
      BY <2>1
    <2>3. k \in DOMAIN list
      BY <2>1
    <2>4. /\ RemoveAt(list, k) \in Seq(Turn)
          /\ \A j \in DOMAIN RemoveAt(list, k) :
               \E o \in DOMAIN list \ {k} : RemoveAt(list, k)[j] = list[o]
      BY <2>3, Remaining
    <2> QED
      BY <2>1, <2>2, <2>4
  <1> QED
    BY <1>1, <1>2

\* A turn lands: its ChatView, if it is still there, stops sending and shows a
\* list in which nothing waits; any other ChatView is not concerned.
LEMMA LandedThread ==
  ASSUME NEW t \in Tab, ChatT, ChatOf(t), NEW i \in DOMAIN asking[t], NEW list \in Seq(Turn),
         \A k \in DOMAIN list : list[k].session = sessionId[t] /\ list[k].answered,
         Landed(t, i, list)
  PROVE  /\ ChatT'
         /\ ChatOf(t)'
         /\ \A u \in Tab \ {t} :
              turns'[u] = turns[u] /\ sending'[u] = sending[u] /\ asking'[u] = asking[u]
         /\ \A j \in DOMAIN asking'[t] : \E o \in DOMAIN asking[t] :
              /\ asking'[t][j].session = asking[t][o].session
              /\ asking'[t][j].principal = asking[t][o].principal
  <1> DEFINE rest == RemoveAt(asking[t], i)
             Old(j) == IF j < i THEN j ELSE j + 1
             shown == IF asking[t][i].here THEN list ELSE turns[t]
  <1>1. turns[t] \in Seq(Turn) /\ sending[t] \in BOOLEAN /\ asking[t] \in Seq(Asking)
    BY ChatFields
  <1>2. /\ rest \in Seq(Asking)
        /\ \A j \in DOMAIN rest : Old(j) \in DOMAIN asking[t] \ {i} /\ rest[j] = asking[t][Old(j)]
        /\ \A k \in DOMAIN asking[t] \ {i} : \E j \in DOMAIN rest : rest[j] = asking[t][k]
        /\ DOMAIN rest \subseteq Nat
        /\ DOMAIN asking[t] \subseteq Nat
    <2>1. /\ rest \in Seq(Asking)
          /\ \A j \in DOMAIN rest : Old(j) \in DOMAIN asking[t] \ {i} /\ rest[j] = asking[t][Old(j)]
          /\ \A k \in DOMAIN asking[t] \ {i} :
               /\ (IF k < i THEN k ELSE k - 1) \in DOMAIN rest
               /\ rest[IF k < i THEN k ELSE k - 1] = asking[t][k]
          /\ DOMAIN rest \subseteq Nat
          /\ DOMAIN asking[t] \subseteq Nat
      BY <1>1, Removed, Zenon
    <2> QED
      BY <2>1, Zenon
  <1>3. PICK busy \in BOOLEAN : busy <=> sending[t] /\ ~ asking[t][i].here
    BY Zenon
  <1>4. Render(t, shown, busy, rest)
    <2>1. busy = (sending[t] /\ ~ asking[t][i].here)
      BY <1>1, <1>3, Zenon
    <2> QED
      BY <2>1, Zenon DEF Landed
  <1>5. \A j, k \in DOMAIN rest : Old(j) = Old(k) => j = k
    BY <1>2, SMT
  <1> HIDE DEF rest
  <1>6. \A j, k \in DOMAIN rest : rest[j].here /\ rest[k].here => j = k
    <2> SUFFICES ASSUME NEW j \in DOMAIN rest, NEW k \in DOMAIN rest, rest[j].here, rest[k].here
                 PROVE  j = k
      OBVIOUS
    <2>1. /\ Old(j) \in DOMAIN asking[t] /\ asking[t][Old(j)].here
          /\ Old(k) \in DOMAIN asking[t] /\ asking[t][Old(k)].here
      BY <1>2
    <2>2. Old(j) = Old(k)
      BY <2>1 DEF ChatOf, Thread
    <2> QED
      BY <2>2, <1>5
  <1> HIDE DEF Old
  <1>7. busy <=> \E j \in DOMAIN rest : rest[j].here
    <2>1. ASSUME busy PROVE \E j \in DOMAIN rest : rest[j].here
      <3>1. sending[t] /\ ~ asking[t][i].here
        BY <2>1, <1>3
      <3>2. PICK k \in DOMAIN asking[t] : asking[t][k].here
        BY <3>1 DEF ChatOf, Thread
      <3>3. k # i
        BY <3>1, <3>2
      <3> QED
        BY <3>2, <3>3, <1>2
    <2>2. ASSUME NEW j \in DOMAIN rest, rest[j].here PROVE busy
      <3>1. /\ Old(j) \in DOMAIN asking[t] /\ Old(j) # i /\ asking[t][Old(j)].here
        BY <2>2, <1>2
      <3>2. sending[t]
        BY <3>1 DEF ChatOf, Thread
      <3>3. ~ asking[t][i].here
        BY <3>1 DEF ChatOf, Thread
      <3> QED
        BY <3>2, <3>3, <1>3
    <2> QED
      BY <2>1, <2>2
  <1>8. shown \in Seq(Turn)
    BY <1>1
  <1>9. Thread(shown, busy, rest, sessionId[t])
    <2>1. CASE asking[t][i].here
      BY <2>1, <1>6, <1>7 DEF Thread
    <2>2. CASE ~ asking[t][i].here
      <3>1. sending[t] => busy
        BY <2>2, <1>3
      <3> QED
        BY <2>2, <3>1, <1>6, <1>7 DEF Thread, ChatOf
    <2> QED
      BY <2>1, <2>2
  <1> HIDE DEF shown
  <1>10. /\ ChatT' /\ ChatOf(t)'
         /\ \A u \in Tab \ {t} :
              turns'[u] = turns[u] /\ sending'[u] = sending[u] /\ asking'[u] = asking[u]
         /\ DOMAIN asking'[t] = DOMAIN rest
         /\ \A j \in DOMAIN rest : /\ asking'[t][j].session = rest[j].session
                                   /\ asking'[t][j].principal = rest[j].principal
    BY <1>2, <1>4, <1>8, <1>9, Rendered
  <1>11. ASSUME NEW j \in DOMAIN asking'[t]
         PROVE  \E o \in DOMAIN asking[t] :
                  /\ asking'[t][j].session = asking[t][o].session
                  /\ asking'[t][j].principal = asking[t][o].principal
    <2>1. j \in DOMAIN rest
      BY <1>10
    <2>2. /\ Old(j) \in DOMAIN asking[t]
          /\ asking'[t][j].session = asking[t][Old(j)].session
          /\ asking'[t][j].principal = asking[t][Old(j)].principal
      BY <1>2, <1>10, <2>1
    <2> QED
      BY <2>2
  <1> QED
    BY <1>10, <1>11

----------------------------------------------------------------------------
(* Other tabs, and the tab that acts *)

\* A step of another tab leaves this one alone, up to what the two store.
Frame(u) ==
  /\ status'[u] = status[u]
  /\ sessionId'[u] = sessionId[u] /\ principalId'[u] = principalId[u]
  /\ isReady'[u] = isReady[u] /\ error'[u] = error[u]
  /\ creating'[u] = creating[u]
  /\ turns'[u] = turns[u] /\ sending'[u] = sending[u] /\ asking'[u] = asking[u]

FlightsOwned(t) == \A i \in DOMAIN asking[t] : owner[asking[t][i].session] = asking[t][i].principal

LEMMA IInvParts ==
  ASSUME IInv, NEW t \in Tab
  PROVE  /\ ServerT /\ StoresT /\ StatusT /\ OnChatT /\ ProviderT /\ CreatingT /\ ChatT
         /\ RecordsOwned
         /\ Identity(t) /\ Owned(t) /\ Waits(t) /\ Follows(t) /\ ChatOf(t) /\ FlightsOwned(t)
  <1>1. TypeOK /\ RecordsOwned /\ TabOK(t)
    BY Zenon DEF IInv
  <1>2. Identity(t) /\ Owned(t) /\ Waits(t) /\ Follows(t) /\ ChatOf(t)
    BY <1>1, Zenon DEF TabOK, ChatOf
  <1>3. FlightsOwned(t)
    BY <1>2, Zenon DEF Owned, FlightsOwned
  <1> QED
    BY <1>1, <1>2, <1>3, TypeParts

\* What a turn in flight belongs to does not change while it is in flight.
LEMMA FlightsStay ==
  ASSUME ServerT, ChatT, OwnerGrows, NEW t \in Tab, FlightsOwned(t),
         \A j \in DOMAIN asking'[t] : \E o \in DOMAIN asking[t] :
           /\ asking'[t][j].session = asking[t][o].session
           /\ asking'[t][j].principal = asking[t][o].principal
  PROVE  FlightsOwned(t)'
  <1> SUFFICES ASSUME NEW j \in DOMAIN asking'[t]
               PROVE  owner'[asking'[t][j].session] = asking'[t][j].principal
    BY DEF FlightsOwned
  <1>1. PICK o \in DOMAIN asking[t] : /\ asking'[t][j].session = asking[t][o].session
                                      /\ asking'[t][j].principal = asking[t][o].principal
    OBVIOUS
  <1>2. asking[t][o] \in Asking
    <2>1. asking[t] \in Seq(Asking)
      BY ChatFields
    <2> QED
      BY <2>1
  <1>3. asking[t][o].session \in Session /\ asking[t][o].principal \in Principal
    BY <1>2 DEF Asking
  <1>4. owner[asking[t][o].session] = asking[t][o].principal
    BY DEF FlightsOwned
  <1> QED
    BY <1>1, <1>3, <1>4, WebAssumption DEF OwnerGrows

LEMMA Others ==
  ASSUME IInv, NEW t \in Tab, NEW u \in Tab \ {t}, Frame(u),
         OwnerGrows, KeepsRecords(t), status'[t] # "never"
  PROVE  TabOK(u)'
  <1> USE IInvParts
  <1>1. Identity(u)'
    <2>1. Get(u) # Nothing => Get(u)' # Nothing /\ Get(u)'.principal = Get(u).principal
      BY DEF KeepsRecords
    <2>2. Identity(u)
      OBVIOUS
    <2> QED
      BY <2>1, <2>2 DEF Identity, Frame, Closed
  <1>2. Owned(u)'
    <2>1. FlightsOwned(u)'
      <3>1. \A j \in DOMAIN asking'[u] : \E o \in DOMAIN asking[u] :
              /\ asking'[u][j].session = asking[u][o].session
              /\ asking'[u][j].principal = asking[u][o].principal
        BY DEF Frame
      <3> QED
        BY <3>1, FlightsStay
    <2>2. ASSUME sessionId'[u] # NoId PROVE owner'[sessionId'[u]] = principalId'[u]
      <3>1. sessionId[u] # NoId /\ Identity(u) /\ Owned(u) /\ sessionId[u] \in Session
        BY <2>2 DEF Frame, ProviderT, SessionT
      <3>2. principalId[u] \in Principal
        BY <3>1 DEF Identity, Closed
      <3>3. owner[sessionId[u]] = principalId[u] /\ principalId[u] # NoId
        BY <3>1, <3>2, WebAssumption DEF Owned
      <3> QED
        BY <3>1, <3>3 DEF OwnerGrows, Frame
    <2> QED
      BY <2>1, <2>2 DEF Owned, FlightsOwned
  <1>3. Waits(u)'
    <2>1. Waits(u)
      OBVIOUS
    <2> QED
      BY <2>1 DEF Waits, Frame
  <1>4. Follows(u)'
    BY DEF Follows, Open1
  <1>5. ChatOf(u)'
    <2>1. ChatOf(u)
      OBVIOUS
    <2> QED
      BY <2>1 DEF ChatOf, Thread, Frame
  <1> QED
    BY <1>1, <1>2, <1>3, <1>4, <1>5, Zenon DEF TabOK, ChatOf

\* All that a step of tab t has to keep
LEMMA Together ==
  ASSUME IInv, NEW t \in Tab,
         ServerT', StoresT', StatusT', OnChatT', ProviderT', CreatingT', ChatT',
         OwnerGrows, RecordsOwned', KeepsRecords(t), status'[t] # "never",
         \A u \in Tab \ {t} : Frame(u),
         Identity(t)', Owned(t)', Waits(t)', Follows(t)', ChatOf(t)'
  PROVE  IInv'
  <1>1. TypeOK'
    BY Zenon, TypeParts DEF TypeOK, ServerT, StoresT, StatusT, OnChatT, ProviderT, SessionT,
       PrincT, ReadyT, ErrorT, CreatingT, ChatT, Statuses, Errors
  <1>2. TabOK(t)'
    BY Zenon DEF TabOK, ChatOf
  <1>3. \A u \in Tab \ {t} : TabOK(u)'
    BY Others
  <1>4. \A u \in Tab : TabOK(u)'
    BY <1>2, <1>3, Zenon
  <1> QED
    BY <1>1, <1>4, Zenon DEF IInv

\* The same for a tab that is open and stays so: its principal does not change.
LEMMA OpenStep ==
  ASSUME IInv, NEW t \in Tab, status[t] = "open", status' = status,
         ServerT', StoresT', OnChatT', ProviderT', CreatingT', ChatT',
         OwnerGrows, RecordsOwned', KeepsRecords(t),
         \A u \in Tab \ {t} : Frame(u),
         principalId'[t] = principalId[t],
         Get(t)' # Nothing, Get(t)'.principal = principalId[t],
         \A i \in DOMAIN creating'[t] : creating'[t][i].principal = principalId[t],
         sessionId'[t] # NoId => owner'[sessionId'[t]] = principalId[t],
         FlightsOwned(t)', Waits(t)', ChatOf(t)',
         Open1(t) => Get(t)'.session = sessionId'[t]
  PROVE  IInv'
  <1> USE IInvParts
  <1>1. StatusT'
    BY DEF StatusT
  <1>2. Identity(t)'
    <2>1. Identity(t)
      OBVIOUS
    <2> QED
      BY <2>1 DEF Identity
  <1>3. Owned(t)'
    BY Zenon DEF Owned, FlightsOwned
  <1>4. Follows(t)'
    BY DEF Follows, Open1
  <1>5. status'[t] # "never"
    OBVIOUS
  <1> QED
    BY <1>1, <1>2, <1>3, <1>4, <1>5, Together

----------------------------------------------------------------------------
(* What an open tab starts from *)

LEMMA OpenFacts ==
  ASSUME IInv, NEW t \in Tab, status[t] = "open"
  PROVE  /\ principalId[t] \in Principal
         /\ Get(t) \in Stored /\ Get(t) # Nothing
         /\ Get(t).principal = principalId[t]
         /\ OwnedRecord(Get(t))
         /\ \A i \in DOMAIN creating[t] : creating[t][i].principal = principalId[t]
         /\ sessionId[t] # NoId => sessionId[t] \in Session /\ owner[sessionId[t]] = principalId[t]
         /\ Open1(t) => Get(t).session = sessionId[t]
  <1> USE IInvParts
  <1>1. Identity(t) /\ Owned(t) /\ Follows(t) /\ RecordsOwned
    OBVIOUS
  <1>2. Get(t) \in Stored
    BY <1>1, GetTyped DEF Identity
  <1>3. OwnedRecord(Get(t))
    BY <1>1 DEF RecordsOwned, OwnedRecord, Get
  <1>4. sessionId[t] \in Session \cup {NoId}
    BY DEF ProviderT, SessionT
  <1> QED
    BY <1>1, <1>2, <1>3, <1>4 DEF Identity, Owned, Follows

\* The chats of the other tabs
OtherChats(t) ==
  \A u \in Tab \ {t} :
    turns'[u] = turns[u] /\ sending'[u] = sending[u] /\ asking'[u] = asking[u]

LEMMA Rerendered ==
  ASSUME IInv, NEW t \in Tab, OwnerGrows, Rerender(t)
  PROVE  ChatT' /\ ChatOf(t)' /\ FlightsOwned(t)' /\ OtherChats(t)
  <1> USE IInvParts
  <1>1. /\ turns[t] \in Seq(Turn) /\ sending[t] \in BOOLEAN /\ asking[t] \in Seq(Asking)
        /\ Thread(turns[t], sending[t], asking[t], sessionId[t])
        /\ Render(t, turns[t], sending[t], asking[t])
    BY ChatFields DEF Rerender, ChatOf
  <1>2. /\ ChatT' /\ ChatOf(t)'
        /\ \A u \in Tab \ {t} :
             turns'[u] = turns[u] /\ sending'[u] = sending[u] /\ asking'[u] = asking[u]
        /\ \A j \in DOMAIN asking'[t] : \E o \in DOMAIN asking[t] :
             /\ asking'[t][j].session = asking[t][o].session
             /\ asking'[t][j].principal = asking[t][o].principal
    BY <1>1, Rendered
  <1>3. FlightsOwned(t)'
    BY <1>2, FlightsStay
  <1> QED
    BY <1>2, <1>3 DEF OtherChats

LEMMA LandedFlight ==
  ASSUME IInv, NEW t \in Tab, OwnerGrows, NEW i \in DOMAIN asking[t], NEW list \in Seq(Turn),
         \A k \in DOMAIN list : list[k].session = sessionId[t] /\ list[k].answered,
         Landed(t, i, list)
  PROVE  ChatT' /\ ChatOf(t)' /\ FlightsOwned(t)' /\ OtherChats(t)
  <1> USE IInvParts
  <1>1. /\ ChatT' /\ ChatOf(t)'
        /\ \A u \in Tab \ {t} :
             turns'[u] = turns[u] /\ sending'[u] = sending[u] /\ asking'[u] = asking[u]
        /\ \A j \in DOMAIN asking'[t] : \E o \in DOMAIN asking[t] :
             /\ asking'[t][j].session = asking[t][o].session
             /\ asking'[t][j].principal = asking[t][o].principal
    BY LandedThread
  <1>2. FlightsOwned(t)'
    BY <1>1, FlightsStay
  <1> QED
    BY <1>1, <1>2 DEF OtherChats

\* The server's sessions stay as they are.
LEMMA ServerStays ==
  ASSUME ServerT, UNCHANGED server
  PROVE  ServerT' /\ OwnerGrows
  BY DEF ServerT, server, OwnerGrows

----------------------------------------------------------------------------
(* The actions of ChatView alone *)

LEMMA ChatStep ==
  ASSUME IInv, NEW t \in Tab, status[t] = "open",
         UNCHANGED <<server, stores, status, provider, creating>>,
         OnChatT', ChatT', ChatOf(t)', FlightsOwned(t)', OtherChats(t)
  PROVE  IInv'
  <1> USE IInvParts, OpenFacts
  <1>1. ServerT' /\ OwnerGrows
    BY ServerStays
  <1>2. StoresT' /\ RecordsOwned' /\ Get(t)' = Get(t) /\ KeepsRecords(t)
    BY <1>1, StoresStay
  <1>3. /\ sessionId' = sessionId /\ principalId' = principalId
        /\ isReady' = isReady /\ error' = error /\ creating' = creating /\ status' = status
    BY DEF provider
  <1>4. ProviderT' /\ CreatingT'
    BY <1>3 DEF ProviderT, SessionT, PrincT, ReadyT, ErrorT, CreatingT
  <1>5. \A u \in Tab \ {t} : Frame(u)
    BY <1>3 DEF Frame, OtherChats
  <1>6. Waits(t)'
    <2>1. Waits(t)
      OBVIOUS
    <2> QED
      BY <2>1, <1>3 DEF Waits
  <1>7. sessionId'[t] # NoId => owner'[sessionId'[t]] = principalId[t]
    BY <1>3 DEF server
  <1>8. /\ Get(t)' # Nothing /\ Get(t)'.principal = principalId[t]
        /\ Open1(t) => Get(t)'.session = sessionId'[t]
        /\ \A i \in DOMAIN creating'[t] : creating'[t][i].principal = principalId[t]
    BY <1>2, <1>3
  <1> QED
    BY <1>1, <1>2, <1>3, <1>4, <1>5, <1>6, <1>7, <1>8, OpenStep

LEMMA NavigateKeeps ==
  ASSUME IInv, NEW t \in Tab, Navigate(t)
  PROVE  IInv'
  <1> USE IInvParts
  <1>1. OnChatT'
    <2>1. onChat' = [onChat EXCEPT ![t] = ~ onChat[t]]
      BY Zenon DEF Navigate
    <2>2. (~ onChat[t]) \in BOOLEAN
      BY Zenon
    <2> QED
      BY <2>1, <2>2, Assigned, Zenon DEF OnChatT
  <1>2. ServerT' /\ OwnerGrows
    BY ServerStays DEF Navigate
  <1>3. ChatT' /\ ChatOf(t)' /\ FlightsOwned(t)' /\ OtherChats(t)
    BY <1>2, Rerendered DEF Navigate
  <1> QED
    BY <1>1, <1>3, ChatStep DEF Navigate

LEMMA SendKeeps ==
  ASSUME IInv, NEW t \in Tab, Send(t)
  PROVE  IInv'
  <1> USE IInvParts, OpenFacts
  <1> DEFINE turn == [session |-> sessionId[t], answered |-> FALSE]
             flight == [session |-> sessionId[t], principal |-> principalId[t], here |-> TRUE]
             list == Append(turns[t], turn)
             flights == Append(asking[t], flight)
  <1>1. /\ status[t] = "open" /\ sessionId[t] \in Session /\ ~ sending[t]
        /\ owner[sessionId[t]] = principalId[t] /\ principalId[t] \in Principal
    BY DEF Send, Mounted
  <1>2. /\ turns[t] \in Seq(Turn) /\ asking[t] \in Seq(Asking)
        /\ Thread(turns[t], sending[t], asking[t], sessionId[t])
    BY ChatFields DEF ChatOf
  <1>3. turn \in Turn /\ flight \in Asking
    BY <1>1 DEF Turn, Asking
  <1>4. Render(t, list, TRUE, flights)
    BY DEF Send
  <1>5. /\ turn.session = sessionId[t] /\ flight.session = sessionId[t]
        /\ flight.principal = principalId[t] /\ flight.here
    OBVIOUS
  <1> HIDE DEF turn, flight
  <1>6. /\ list \in Seq(Turn) /\ DOMAIN list = DOMAIN turns[t] \cup {Len(turns[t]) + 1}
        /\ list[Len(turns[t]) + 1] = turn
        /\ \A i \in DOMAIN turns[t] : list[i] = turns[t][i]
    BY <1>2, <1>3, Appended
  <1>7. /\ flights \in Seq(Asking) /\ DOMAIN flights = DOMAIN asking[t] \cup {Len(asking[t]) + 1}
        /\ flights[Len(asking[t]) + 1] = flight
        /\ \A i \in DOMAIN asking[t] : flights[i] = asking[t][i]
    BY <1>2, <1>3, Appended
  <1> HIDE DEF list, flights
  <1>8. Thread(list, TRUE, flights, sessionId[t])
    <2>1. \A i \in DOMAIN turns[t] : turns[t][i].answered /\ turns[t][i].session = sessionId[t]
      BY <1>1, <1>2 DEF Thread
    <2>2. \A i \in DOMAIN asking[t] : ~ asking[t][i].here
      BY <1>1, <1>2 DEF Thread
    <2> QED
      BY <1>5, <1>6, <1>7, <2>1, <2>2 DEF Thread
  <1>9. /\ ChatT' /\ ChatOf(t)'
        /\ \A u \in Tab \ {t} :
             turns'[u] = turns[u] /\ sending'[u] = sending[u] /\ asking'[u] = asking[u]
        /\ DOMAIN asking'[t] = DOMAIN flights
        /\ \A i \in DOMAIN flights : /\ asking'[t][i].session = flights[i].session
                                     /\ asking'[t][i].principal = flights[i].principal
    <2>1. TRUE \in BOOLEAN /\ ChatT
      BY Zenon
    <2>2. list \in Seq(Turn) /\ flights \in Seq(Asking)
      BY <1>6, <1>7
    <2> QED
      BY <1>4, <1>8, <2>1, <2>2, Rendered, ZenonT(30)
  <1>10. FlightsOwned(t)'
    <2>1. owner' = owner
      BY DEF Send, server
    <2>2. \A i \in DOMAIN flights : owner[flights[i].session] = flights[i].principal
      BY <1>1, <1>5, <1>7 DEF FlightsOwned
    <2> QED
      BY <1>9, <2>1, <2>2 DEF FlightsOwned
  <1>11. OnChatT'
    BY DEF Send, OnChatT
  <1> QED
    BY <1>1, <1>9, <1>10, <1>11, ChatStep DEF Send, OtherChats

LEMMA AskingOpen ==
  ASSUME IInv, NEW t \in Tab, NEW i \in DOMAIN asking[t]
  PROVE  status[t] = "open"
  <1>1. Identity(t)
    BY IInvParts
  <1>2. asking[t] # <<>>
    OBVIOUS
  <1> QED
    BY <1>1, <1>2 DEF Identity, Closed

LEMMA TurnAnsweredKeeps ==
  ASSUME IInv, NEW t \in Tab, TurnAnswered(t)
  PROVE  IInv'
  <1> USE IInvParts
  <1> DEFINE list == Answering(turns[t])
  <1>1. PICK i \in DOMAIN asking[t] :
          /\ UNCHANGED <<server, stores, status, onChat, provider, creating>>
          /\ Landed(t, i, list)
    BY Zenon DEF TurnAnswered, Answering
  <1>2. ServerT' /\ OwnerGrows
    BY <1>1, ServerStays
  <1>3. list \in Seq(Turn) /\ \A k \in DOMAIN list : list[k].session = sessionId[t] /\ list[k].answered
    <2>1. turns[t] \in Seq(Turn) /\ \A k \in DOMAIN turns[t] : turns[t][k].session = sessionId[t]
      BY ChatFields DEF ChatOf, Thread
    <2> QED
      BY <2>1, AnsweredList
  <1> HIDE DEF list
  <1>4. ChatT' /\ ChatOf(t)' /\ FlightsOwned(t)' /\ OtherChats(t)
    BY <1>1, <1>2, <1>3, LandedFlight
  <1>5. OnChatT' /\ status[t] = "open"
    BY <1>1, AskingOpen DEF OnChatT
  <1> QED
    BY <1>1, <1>4, <1>5, ChatStep

\* What is left of the thread once its awaiting entry is filtered out
LEMMA Filtered ==
  ASSUME IInv, NEW t \in Tab
  PROVE  /\ WithoutAwaiting(turns[t]) \in Seq(Turn)
         /\ \A k \in DOMAIN WithoutAwaiting(turns[t]) :
              /\ WithoutAwaiting(turns[t])[k].session = sessionId[t]
              /\ WithoutAwaiting(turns[t])[k].answered
  <1>1. /\ turns[t] \in Seq(Turn)
        /\ \A k \in DOMAIN turns[t] : turns[t][k].session = sessionId[t]
        /\ \A i, j \in DOMAIN turns[t] : ~ turns[t][i].answered /\ ~ turns[t][j].answered => i = j
    BY IInvParts, ChatFields DEF ChatOf, Thread
  <1> QED
    BY <1>1, FilteredList

LEMMA TurnFailsKeeps ==
  ASSUME IInv, NEW t \in Tab, TurnFails(t)
  PROVE  IInv'
  <1> USE IInvParts
  <1>1. PICK i \in DOMAIN asking[t] :
          /\ UNCHANGED <<server, stores, status, onChat, provider, creating>>
          /\ Landed(t, i, WithoutAwaiting(turns[t]))
    BY DEF TurnFails
  <1>2. ServerT' /\ OwnerGrows
    BY <1>1, ServerStays
  <1>3. ChatT' /\ ChatOf(t)' /\ FlightsOwned(t)' /\ OtherChats(t)
    BY <1>1, <1>2, Filtered, LandedFlight
  <1>4. OnChatT' /\ status[t] = "open"
    BY <1>1, AskingOpen DEF OnChatT
  <1> QED
    BY <1>1, <1>3, <1>4, ChatStep

----------------------------------------------------------------------------
(* The actions of SessionProvider *)

LEMMA SameEntry ==
  ASSUME NEW S, NEW f \in [Tab -> S], NEW t \in Tab
  PROVE  [f EXCEPT ![t] = f[t]] = f
  OBVIOUS

\* The provider of an open tab gets new values; its principal stays.
LEMMA ProviderStep ==
  ASSUME IInv, NEW t \in Tab, status[t] = "open", status' = status, onChat' = onChat,
         NEW sid \in Session \cup {NoId}, NEW r \in BOOLEAN, NEW e \in Errors,
         NEW cs \in Seq(Creation),
         sessionId' = [sessionId EXCEPT ![t] = sid], principalId' = principalId,
         isReady' = [isReady EXCEPT ![t] = r], error' = [error EXCEPT ![t] = e],
         creating' = [creating EXCEPT ![t] = cs],
         ServerT', StoresT', OwnerGrows, RecordsOwned', KeepsRecords(t),
         Get(t)' # Nothing, Get(t)'.principal = principalId[t],
         \A i \in DOMAIN cs : cs[i].principal = principalId[t],
         sid # NoId => owner'[sid] = principalId[t],
         ChatT', ChatOf(t)', FlightsOwned(t)', OtherChats(t),
         ~ r => \E i \in DOMAIN cs : cs[i].by = "bootstrap",
         sid = NoId => cs # <<>> \/ e # "none",
         Open1(t) => Get(t)'.session = sid
  PROVE  IInv'
  <1> USE IInvParts
  <1>1. OnChatT'
    BY DEF OnChatT
  <1>2. SessionT' /\ sessionId'[t] = sid /\ \A u \in Tab \ {t} : sessionId'[u] = sessionId[u]
    BY Assigned DEF ProviderT, SessionT
  <1>3. ErrorT' /\ error'[t] = e /\ \A u \in Tab \ {t} : error'[u] = error[u]
    BY Assigned DEF ProviderT, ErrorT
  <1>4. CreatingT' /\ creating'[t] = cs /\ \A u \in Tab \ {t} : creating'[u] = creating[u]
    BY Assigned DEF CreatingT
  <1>5. ReadyT' /\ isReady'[t] = r /\ \A u \in Tab \ {t} : isReady'[u] = isReady[u]
    BY Assigned, ZenonT(30) DEF ProviderT, ReadyT
  <1>6. PrincT'
    BY DEF ProviderT, PrincT
  <1>7. ProviderT'
    BY <1>2, <1>3, <1>5, <1>6, Zenon DEF ProviderT
  <1>8. \A u \in Tab \ {t} : Frame(u)
    BY <1>2, <1>3, <1>4, <1>5 DEF Frame, OtherChats
  <1>9. Waits(t)'
    BY <1>2, <1>3, <1>4, <1>5 DEF Waits
  <1>10. /\ principalId'[t] = principalId[t]
         /\ \A i \in DOMAIN creating'[t] : creating'[t][i].principal = principalId[t]
         /\ sessionId'[t] # NoId => owner'[sessionId'[t]] = principalId[t]
         /\ Open1(t) => Get(t)'.session = sessionId'[t]
    BY <1>2, <1>4
  <1> QED
    BY <1>1, <1>4, <1>7, <1>8, <1>9, <1>10, OpenStep

\* What the provider's fields hold now, for the ones a step leaves alone.
LEMMA ProviderNow ==
  ASSUME IInv, NEW t \in Tab
  PROVE  /\ sessionId[t] \in Session \cup {NoId}
         /\ isReady[t] \in BOOLEAN
         /\ error[t] \in Errors
         /\ creating[t] \in Seq(Creation)
         /\ [sessionId EXCEPT ![t] = sessionId[t]] = sessionId
         /\ [isReady EXCEPT ![t] = isReady[t]] = isReady
         /\ [error EXCEPT ![t] = error[t]] = error
         /\ [creating EXCEPT ![t] = creating[t]] = creating
         /\ [principalId EXCEPT ![t] = principalId[t]] = principalId
  <1> USE IInvParts
  <1>1. /\ sessionId \in [Tab -> Session \cup {NoId}] /\ error \in [Tab -> Errors]
        /\ isReady \in [Tab -> BOOLEAN] /\ creating \in [Tab -> Seq(Creation)]
        /\ principalId \in [Tab -> Principal \cup {NoId}]
    BY Zenon DEF ProviderT, SessionT, PrincT, ReadyT, ErrorT, CreatingT
  <1> QED
    BY <1>1, SameEntry, Zenon

\* One more POST /v1/sessions
LEMMA OneMore ==
  ASSUME IInv, NEW t \in Tab, status[t] = "open",
         NEW by \in {"bootstrap", "new", "recover"}
  PROVE  LET cs == Append(creating[t], [by |-> by, principal |-> principalId[t]])
         IN  /\ cs \in Seq(Creation) /\ cs # <<>>
             /\ \A i \in DOMAIN cs : cs[i].principal = principalId[t]
             /\ \A i \in DOMAIN creating[t] : i \in DOMAIN cs /\ cs[i] = creating[t][i]
             /\ \E i \in DOMAIN cs : cs[i].by = by
  <1> DEFINE c == [by |-> by, principal |-> principalId[t]]
  <1>1. c \in Creation /\ c.principal = principalId[t] /\ c.by = by
    BY OpenFacts DEF Creation
  <1>2. creating[t] \in Seq(Creation)
    BY ProviderNow
  <1>3. \A i \in DOMAIN creating[t] : creating[t][i].principal = principalId[t]
    BY OpenFacts
  <1> HIDE DEF c
  <1>4. /\ Append(creating[t], c) \in Seq(Creation)
        /\ DOMAIN Append(creating[t], c) = DOMAIN creating[t] \cup {Len(creating[t]) + 1}
        /\ Append(creating[t], c)[Len(creating[t]) + 1] = c
        /\ \A i \in DOMAIN creating[t] : Append(creating[t], c)[i] = creating[t][i]
    BY <1>1, <1>2, Appended
  <1>5. Append(creating[t], c) # <<>>
    BY <1>4
  <1>6. /\ Append(creating[t], c) \in Seq(Creation) /\ Append(creating[t], c) # <<>>
        /\ \A i \in DOMAIN Append(creating[t], c) : Append(creating[t], c)[i].principal = principalId[t]
        /\ \A i \in DOMAIN creating[t] : /\ i \in DOMAIN Append(creating[t], c)
                                         /\ Append(creating[t], c)[i] = creating[t][i]
        /\ \E i \in DOMAIN Append(creating[t], c) : Append(creating[t], c)[i].by = by
    BY <1>1, <1>3, <1>4, <1>5
  <1> QED
    BY <1>6, Zenon DEF c

LEMMA ClearSessionErrorKeeps ==
  ASSUME IInv, NEW t \in Tab, ClearSessionError(t)
  PROVE  IInv'
  <1> USE IInvParts
  <1>1. status[t] = "open" /\ isReady[t] /\ sessionId[t] # NoId
    BY DEF ClearSessionError, Mounted
  <1>2. /\ error' = [error EXCEPT ![t] = "none"]
        /\ UNCHANGED <<server, stores, status, onChat, sessionId, principalId, isReady, creating>>
        /\ Rerender(t)
    BY Zenon DEF ClearSessionError
  <1>3. ServerT' /\ OwnerGrows
    BY <1>2, ServerStays
  <1>4. StoresT' /\ RecordsOwned' /\ Get(t)' = Get(t) /\ KeepsRecords(t)
    BY <1>2, <1>3, StoresStay
  <1>5. ChatT' /\ ChatOf(t)' /\ FlightsOwned(t)' /\ OtherChats(t)
    BY <1>2, <1>3, Rerendered
  <1>6. /\ Get(t)' # Nothing /\ Get(t)'.principal = principalId[t]
        /\ \A i \in DOMAIN creating[t] : creating[t][i].principal = principalId[t]
        /\ sessionId[t] # NoId => owner'[sessionId[t]] = principalId[t]
        /\ Open1(t) => Get(t)'.session = sessionId[t]
    BY <1>1, <1>2, <1>4, OpenFacts DEF server
  <1>7. /\ sessionId' = [sessionId EXCEPT ![t] = sessionId[t]] /\ principalId' = principalId
        /\ isReady' = [isReady EXCEPT ![t] = isReady[t]]
        /\ creating' = [creating EXCEPT ![t] = creating[t]]
        /\ status' = status /\ onChat' = onChat
    BY <1>2, ProviderNow, Zenon
  <1>8. /\ sessionId[t] \in Session \cup {NoId} /\ isReady[t] \in BOOLEAN
        /\ "none" \in Errors /\ creating[t] \in Seq(Creation)
    BY ProviderNow, Zenon DEF Errors
  <1> QED
    BY <1>1, <1>2, <1>3, <1>4, <1>5, <1>6, <1>7, <1>8, ProviderStep, ZenonT(30)

LEMMA CreateNewSessionKeeps ==
  ASSUME IInv, NEW t \in Tab, CreateNewSession(t)
  PROVE  IInv'
  <1> USE IInvParts
  <1> DEFINE cs == Append(creating[t], [by |-> "new", principal |-> principalId[t]])
  <1>1. status[t] = "open" /\ isReady[t]
    BY DEF CreateNewSession, Mounted
  <1>2. /\ error' = [error EXCEPT ![t] = "none"]
        /\ creating' = [creating EXCEPT ![t] = cs]
        /\ UNCHANGED <<server, stores, status, onChat, sessionId, principalId, isReady>>
        /\ Render(t, <<>>, sending[t], asking[t])
    BY Zenon DEF CreateNewSession, Create
  <1>3. ServerT' /\ OwnerGrows
    BY <1>2, ServerStays
  <1>4. StoresT' /\ RecordsOwned' /\ Get(t)' = Get(t) /\ KeepsRecords(t)
    BY <1>2, <1>3, StoresStay
  <1>5. ChatT' /\ ChatOf(t)' /\ FlightsOwned(t)' /\ OtherChats(t)
    <2>1. PICK none \in Seq(Turn) : none = <<>>
      BY EmptySeq, Zenon
    <2>2. Thread(none, sending[t], asking[t], sessionId[t])
      BY <2>1 DEF ChatOf, Thread
    <2>3. sending[t] \in BOOLEAN /\ asking[t] \in Seq(Asking) /\ ChatT
      BY ChatFields
    <2>4. Render(t, none, sending[t], asking[t])
      BY <1>2, <2>1, Zenon
    <2>5. /\ ChatT' /\ ChatOf(t)'
          /\ \A u \in Tab \ {t} :
               turns'[u] = turns[u] /\ sending'[u] = sending[u] /\ asking'[u] = asking[u]
          /\ DOMAIN asking'[t] = DOMAIN asking[t]
          /\ \A i \in DOMAIN asking[t] : /\ asking'[t][i].session = asking[t][i].session
                                         /\ asking'[t][i].principal = asking[t][i].principal
      BY <2>2, <2>3, <2>4, Rendered
    <2>6. FlightsOwned(t)'
      BY <1>3, <2>5, FlightsStay
    <2> QED
      BY <2>5, <2>6 DEF OtherChats
  <1>6. /\ Get(t)' # Nothing /\ Get(t)'.principal = principalId[t]
        /\ sessionId[t] # NoId => owner'[sessionId[t]] = principalId[t]
        /\ Open1(t) => Get(t)'.session = sessionId[t]
    BY <1>1, <1>2, <1>4, OpenFacts DEF server
  <1>7. cs \in Seq(Creation) /\ cs # <<>> /\ \A i \in DOMAIN cs : cs[i].principal = principalId[t]
    BY <1>1, OneMore, Zenon
  <1> HIDE DEF cs
  <1>8. /\ sessionId' = [sessionId EXCEPT ![t] = sessionId[t]] /\ principalId' = principalId
        /\ isReady' = [isReady EXCEPT ![t] = isReady[t]]
        /\ status' = status /\ onChat' = onChat
    BY <1>2, ProviderNow, Zenon
  <1>9. sessionId[t] \in Session \cup {NoId} /\ isReady[t] \in BOOLEAN /\ "none" \in Errors
    BY ProviderNow, Zenon DEF Errors
  <1>10. /\ ~ isReady[t] => \E i \in DOMAIN cs : cs[i].by = "bootstrap"
         /\ sessionId[t] = NoId => cs # <<>> \/ "none" # "none"
    BY <1>1, <1>7, Zenon
  <1> QED
    BY <1>1, <1>2, <1>3, <1>4, <1>5, <1>6, <1>7, <1>8, <1>9, <1>10, ProviderStep, Zenon

\* clearServerSession in a tab that has a stored record
LEMMA Cleared ==
  ASSUME IInv, NEW t \in Tab, status[t] = "open", OwnerGrows, ClearServerSession(t)
  PROVE  /\ StoresT' /\ RecordsOwned' /\ KeepsRecords(t)
         /\ Get(t)' # Nothing /\ Get(t)'.principal = principalId[t] /\ Get(t)'.session = NoId
  <1> USE IInvParts, OpenFacts
  <1>1. PICK rec : rec = [Get(t) EXCEPT !.session = NoId]
    OBVIOUS
  <1>2. /\ rec \in Stored /\ rec # Nothing
        /\ rec.principal = Get(t).principal /\ rec.session = NoId
    BY <1>1, ClearedRecord, StoredFields
  <1>3. Set(t, rec)
    BY <1>1 DEF ClearServerSession
  <1>4. StoresT' /\ Get(t)' = rec
    BY <1>2, <1>3, SetResult
  <1>5. KeepsRecords(t)
    BY <1>2, <1>3, SetKeeps
  <1>6. RecordsOwned'
    BY <1>2, <1>3, SetOwned
  <1> QED
    BY <1>2, <1>4, <1>5, <1>6

LEMMA RecoverSessionKeeps ==
  ASSUME IInv, NEW t \in Tab, RecoverSession(t)
  PROVE  IInv'
  <1> USE IInvParts
  <1> DEFINE cs == Append(creating[t], [by |-> "recover", principal |-> principalId[t]])
  <1>1. status[t] = "open" /\ isReady[t]
    BY DEF RecoverSession, Mounted
  <1>2. Get(t).principal = principalId[t]
    BY <1>1, OpenFacts
  <1>3. /\ error' = [error EXCEPT ![t] = "none"]
        /\ sessionId' = [sessionId EXCEPT ![t] = NoId]
        /\ creating' = [creating EXCEPT ![t] = cs]
        /\ ClearServerSession(t)
        /\ UNCHANGED <<server, status, onChat, isReady>>
        /\ Rerender(t)
    BY <1>2, Zenon DEF RecoverSession, Create
  <1>4. principalId' = principalId
    BY <1>2, ProviderNow, Zenon DEF RecoverSession
  <1>5. ServerT' /\ OwnerGrows
    BY <1>3, ServerStays
  <1>6. /\ StoresT' /\ RecordsOwned' /\ KeepsRecords(t)
        /\ Get(t)' # Nothing /\ Get(t)'.principal = principalId[t] /\ Get(t)'.session = NoId
    BY <1>1, <1>3, <1>5, Cleared
  <1>7. ChatT' /\ ChatOf(t)' /\ FlightsOwned(t)' /\ OtherChats(t)
    BY <1>3, <1>5, Rerendered
  <1>8. cs \in Seq(Creation) /\ cs # <<>> /\ \A i \in DOMAIN cs : cs[i].principal = principalId[t]
    BY <1>1, OneMore, Zenon
  <1> HIDE DEF cs
  <1>9. /\ isReady' = [isReady EXCEPT ![t] = isReady[t]]
        /\ status' = status /\ onChat' = onChat
    BY <1>3, ProviderNow, Zenon
  <1>10. NoId \in Session \cup {NoId} /\ isReady[t] \in BOOLEAN /\ "none" \in Errors
    BY ProviderNow, Zenon DEF Errors
  <1>11. /\ sessionId' = [sessionId EXCEPT ![t] = NoId]
         /\ error' = [error EXCEPT ![t] = "none"]
         /\ creating' = [creating EXCEPT ![t] = cs]
    BY <1>3
  <1>12. ~ isReady[t] => \E i \in DOMAIN cs : cs[i].by = "bootstrap"
    BY <1>1
  <1> QED
    BY <1>1, <1>4, <1>5, <1>6, <1>7, <1>8, <1>9, <1>10, <1>11, <1>12, ProviderStep

LEMMA TurnNotFoundKeeps ==
  ASSUME IInv, NEW t \in Tab, TurnNotFound(t)
  PROVE  IInv'
  <1> USE IInvParts
  <1>1. PICK i \in DOMAIN asking[t] :
          /\ ClearServerSession(t)
          /\ sessionId' = [sessionId EXCEPT ![t] = NoId]
          /\ error' = [error EXCEPT ![t] = "session_not_found"]
          /\ UNCHANGED <<server, status, onChat, principalId, isReady, creating>>
          /\ Landed(t, i, WithoutAwaiting(turns[t]))
    BY Zenon DEF TurnNotFound
  <1>2. status[t] = "open"
    BY AskingOpen
  <1>3. ServerT' /\ OwnerGrows
    BY <1>1, ServerStays
  <1>4. /\ StoresT' /\ RecordsOwned' /\ KeepsRecords(t)
        /\ Get(t)' # Nothing /\ Get(t)'.principal = principalId[t] /\ Get(t)'.session = NoId
    BY <1>1, <1>2, <1>3, Cleared
  <1>5. ChatT' /\ ChatOf(t)' /\ FlightsOwned(t)' /\ OtherChats(t)
    BY <1>1, <1>3, Filtered, LandedFlight
  <1>6. \A c \in DOMAIN creating[t] : creating[t][c].principal = principalId[t]
    BY <1>2, OpenFacts
  <1>7. /\ isReady' = [isReady EXCEPT ![t] = isReady[t]] /\ principalId' = principalId
        /\ creating' = [creating EXCEPT ![t] = creating[t]]
        /\ status' = status /\ onChat' = onChat
    BY <1>1, ProviderNow, Zenon
  <1>8. /\ NoId \in Session \cup {NoId} /\ isReady[t] \in BOOLEAN
        /\ "session_not_found" \in Errors /\ creating[t] \in Seq(Creation)
    BY ProviderNow, Zenon DEF Errors
  <1>9. ~ isReady[t] => \E c \in DOMAIN creating[t] : creating[t][c].by = "bootstrap"
    <2>1. Waits(t)
      OBVIOUS
    <2> QED
      BY <1>2, <2>1 DEF Waits
  <1>10. PICK e \in Errors : e = "session_not_found" /\ e # "none"
    BY <1>8
  <1>11. /\ sessionId' = [sessionId EXCEPT ![t] = NoId]
         /\ error' = [error EXCEPT ![t] = e]
    BY <1>1, <1>10, Zenon
  <1> QED
    BY <1>2, <1>3, <1>4, <1>5, <1>6, <1>7, <1>8, <1>9, <1>10, <1>11, ProviderStep

\* One POST /v1/sessions less
LEMMA OneLess ==
  ASSUME IInv, NEW t \in Tab, NEW i \in DOMAIN creating[t]
  PROVE  /\ status[t] = "open"
         /\ creating[t][i] \in Creation /\ creating[t][i].principal = principalId[t]
         /\ RemoveAt(creating[t], i) \in Seq(Creation)
         /\ \A j \in DOMAIN RemoveAt(creating[t], i) :
              RemoveAt(creating[t], i)[j].principal = principalId[t]
         /\ ~ isReady[t] /\ creating[t][i].by # "bootstrap" =>
              \E j \in DOMAIN RemoveAt(creating[t], i) :
                RemoveAt(creating[t], i)[j].by = "bootstrap"
  <1>1. creating[t] \in Seq(Creation) /\ creating[t] # <<>>
    BY ProviderNow
  <1>2. Identity(t) /\ Waits(t)
    BY IInvParts
  <1>3. status[t] = "open"
    BY <1>1, <1>2 DEF Identity, Closed
  <1>4. \A j \in DOMAIN creating[t] : creating[t][j].principal = principalId[t]
    BY <1>2 DEF Identity
  <1> DEFINE rest == RemoveAt(creating[t], i)
  <1>5. /\ rest \in Seq(Creation)
        /\ \A j \in DOMAIN rest : \E o \in DOMAIN creating[t] \ {i} : rest[j] = creating[t][o]
        /\ \A k \in DOMAIN creating[t] \ {i} : \E j \in DOMAIN rest : rest[j] = creating[t][k]
    <2>1. creating[t] \in Seq(Creation) /\ i \in DOMAIN creating[t]
      BY <1>1
    <2>2. PICK s \in Seq(Creation) : s = creating[t]
      BY <2>1
    <2>3. i \in DOMAIN s
      BY <2>1, <2>2
    <2>4. /\ RemoveAt(s, i) \in Seq(Creation)
          /\ \A j \in DOMAIN RemoveAt(s, i) : \E o \in DOMAIN s \ {i} : RemoveAt(s, i)[j] = s[o]
          /\ \A k \in DOMAIN s \ {i} : \E j \in DOMAIN RemoveAt(s, i) : RemoveAt(s, i)[j] = s[k]
      BY <2>3, Remaining
    <2> QED
      BY <2>2, <2>4
  <1> HIDE DEF rest
  <1>6. \A j \in DOMAIN rest : rest[j].principal = principalId[t]
    BY <1>4, <1>5
  <1>7. ASSUME ~ isReady[t], creating[t][i].by # "bootstrap"
        PROVE  \E j \in DOMAIN rest : rest[j].by = "bootstrap"
    <2>1. PICK k \in DOMAIN creating[t] : creating[t][k].by = "bootstrap"
      BY <1>2, <1>3, <1>7 DEF Waits
    <2>2. k \in DOMAIN creating[t] \ {i}
      BY <1>7, <2>1
    <2> QED
      BY <1>5, <2>1, <2>2
  <1>8. creating[t][i] \in Creation
    BY <1>1
  <1> QED
    BY <1>3, <1>4, <1>5, <1>6, <1>7, <1>8 DEF rest

LEMMA CreateFailsKeeps ==
  ASSUME IInv, NEW t \in Tab, CreateFails(t)
  PROVE  IInv'
  <1> USE IInvParts
  <1>1. PICK i \in DOMAIN creating[t] :
          /\ error' = [error EXCEPT ![t] = "other"]
          /\ Ready(t, creating[t][i])
          /\ creating' = [creating EXCEPT ![t] = RemoveAt(creating[t], i)]
          /\ UNCHANGED <<server, stores, status, onChat, sessionId, principalId>>
          /\ Rerender(t)
    BY Zenon DEF CreateFails
  <1>2. PICK cs \in Seq(Creation) : cs = RemoveAt(creating[t], i)
    BY OneLess
  <1>3. /\ status[t] = "open"
        /\ \A j \in DOMAIN cs : cs[j].principal = principalId[t]
        /\ ~ isReady[t] /\ creating[t][i].by # "bootstrap" =>
             \E j \in DOMAIN cs : cs[j].by = "bootstrap"
    BY <1>2, OneLess
  <1>4. PICK r \in BOOLEAN : r = (isReady[t] \/ creating[t][i].by = "bootstrap")
    BY Zenon
  <1>5. isReady' = [isReady EXCEPT ![t] = r]
    BY <1>1, <1>4, Zenon DEF Ready
  <1>6. ServerT' /\ OwnerGrows
    BY <1>1, ServerStays
  <1>7. StoresT' /\ RecordsOwned' /\ Get(t)' = Get(t) /\ KeepsRecords(t)
    BY <1>1, <1>6, StoresStay
  <1>8. ChatT' /\ ChatOf(t)' /\ FlightsOwned(t)' /\ OtherChats(t)
    BY <1>1, <1>6, Rerendered
  <1>9. /\ Get(t)' # Nothing /\ Get(t)'.principal = principalId[t]
        /\ sessionId[t] # NoId => owner'[sessionId[t]] = principalId[t]
        /\ Open1(t) => Get(t)'.session = sessionId[t]
    BY <1>1, <1>3, <1>7, OpenFacts DEF server
  <1>10. /\ sessionId' = [sessionId EXCEPT ![t] = sessionId[t]] /\ principalId' = principalId
         /\ status' = status /\ onChat' = onChat
         /\ sessionId[t] \in Session \cup {NoId}
    BY <1>1, ProviderNow, Zenon
  <1>11. PICK e \in Errors : e = "other" /\ e # "none"
    BY DEF Errors
  <1>12. /\ error' = [error EXCEPT ![t] = e]
         /\ creating' = [creating EXCEPT ![t] = cs]
    BY <1>1, <1>2, <1>11, Zenon
  <1>13. ~ r => \E j \in DOMAIN cs : cs[j].by = "bootstrap"
    BY <1>3, <1>4
  <1> QED
    BY <1>3, <1>5, <1>6, <1>7, <1>8, <1>9, <1>10, <1>11, <1>12, <1>13, ProviderStep

LEMMA CreatedKeeps ==
  ASSUME IInv, NEW t \in Tab, Created(t)
  PROVE  IInv'
  <1> USE IInvParts
  <1> DEFINE C(i) == creating[t][i]
  <1>1. PICK i \in DOMAIN creating[t], s \in Session :
          /\ owner[s] = NoId
          /\ owner' = [owner EXCEPT ![s] = C(i).principal]
          /\ Set(t, [principal |-> C(i).principal, session |-> s])
          /\ sessionId' = [sessionId EXCEPT ![t] = s]
          /\ error' = [error EXCEPT ![t] = IF C(i).by = "bootstrap" THEN "none" ELSE error[t]]
          /\ Ready(t, C(i))
          /\ creating' = [creating EXCEPT ![t] = RemoveAt(creating[t], i)]
          /\ UNCHANGED <<gone, status, onChat, principalId>>
          /\ Rerender(t)
    BY Zenon DEF Created
  <1>2. PICK cs \in Seq(Creation) : cs = RemoveAt(creating[t], i)
    BY OneLess
  <1>3. /\ status[t] = "open"
        /\ C(i).principal = principalId[t]
        /\ \A j \in DOMAIN cs : cs[j].principal = principalId[t]
        /\ ~ isReady[t] /\ C(i).by # "bootstrap" => \E j \in DOMAIN cs : cs[j].by = "bootstrap"
    BY <1>2, OneLess
  <1>4. PICK r \in BOOLEAN : r = (isReady[t] \/ C(i).by = "bootstrap")
    BY Zenon
  <1>5. isReady' = [isReady EXCEPT ![t] = r]
    BY <1>1, <1>4, Zenon DEF Ready
  <1>6. PICK e \in Errors : e = IF C(i).by = "bootstrap" THEN "none" ELSE error[t]
    BY ProviderNow DEF Errors
  <1> HIDE DEF C
  <1>7. /\ principalId[t] \in Principal /\ Get(t) # Nothing
        /\ Get(t).principal = principalId[t]
    BY <1>3, OpenFacts
  <1>8. owner' = [owner EXCEPT ![s] = principalId[t]]
    BY <1>1, <1>3
  <1>9. ServerT' /\ OwnerGrows /\ owner'[s] = principalId[t]
    BY <1>1, <1>7, <1>8 DEF ServerT, OwnerGrows
  <1>10. PICK rec \in Stored : rec = [principal |-> principalId[t], session |-> s]
    BY <1>7, NewRecord
  <1>11. rec.principal = principalId[t] /\ rec.session = s /\ rec # Nothing
    BY <1>7, <1>10, NewRecord, StoredFields
  <1>12. Set(t, rec)
    BY <1>1, <1>3, <1>10
  <1>13. StoresT' /\ Get(t)' = rec
    BY <1>12, SetResult
  <1>14. KeepsRecords(t)
    BY <1>7, <1>11, <1>12, SetKeeps
  <1>15. RecordsOwned'
    BY <1>9, <1>11, <1>12, SetOwned
  <1>16. ChatT' /\ ChatOf(t)' /\ FlightsOwned(t)' /\ OtherChats(t)
    BY <1>1, <1>9, Rerendered
  <1>17. /\ Get(t)' # Nothing /\ Get(t)'.principal = principalId[t]
         /\ s # NoId /\ s \in Session \cup {NoId}
         /\ s # NoId => owner'[s] = principalId[t]
         /\ Open1(t) => Get(t)'.session = s
    BY <1>9, <1>11, <1>13, WebAssumption
  <1>18. /\ sessionId' = [sessionId EXCEPT ![t] = s] /\ principalId' = principalId
         /\ status' = status /\ onChat' = onChat
         /\ error' = [error EXCEPT ![t] = e]
         /\ creating' = [creating EXCEPT ![t] = cs]
    BY <1>1, <1>2, <1>6, Zenon
  <1>19. /\ ~ r => \E j \in DOMAIN cs : cs[j].by = "bootstrap"
         /\ s = NoId => cs # <<>> \/ e # "none"
    BY <1>3, <1>4, <1>17
  <1> QED
    BY <1>3, <1>5, <1>9, <1>13, <1>14, <1>15, <1>16, <1>17, <1>18, <1>19, ProviderStep

----------------------------------------------------------------------------
(* Bootstrap *)

\* ensurePrincipalId
LEMMA Ensured ==
  ASSUME IInv, NEW t \in Tab, NEW p \in Principal, ServerT', OwnerGrows, EnsurePrincipalId(t, p)
  PROVE  /\ StoresT' /\ RecordsOwned' /\ KeepsRecords(t)
         /\ Get(t)' # Nothing /\ Get(t)'.principal = p
         /\ Get(t) # Nothing => p = Get(t).principal /\ Get(t)'.session = Get(t).session
         /\ Get(t) = Nothing => Get(t)'.session = NoId
  <1> USE IInvParts
  <1>1. CASE Get(t) = Nothing
    <2>1. PICK rec \in Stored : rec = [principal |-> p, session |-> NoId]
      BY NewRecord
    <2>2. rec.principal = p /\ rec.session = NoId /\ rec # Nothing
      BY <2>1, NewRecord, StoredFields
    <2>3. Set(t, rec)
      BY <1>1, <2>1 DEF EnsurePrincipalId
    <2>4. StoresT' /\ Get(t)' = rec
      BY <2>3, SetResult
    <2>5. KeepsRecords(t)
      BY <1>1, <2>3, SetKeeps
    <2>6. RecordsOwned'
      BY <2>2, <2>3, SetOwned
    <2> QED
      BY <1>1, <2>2, <2>4, <2>5, <2>6
  <1>2. CASE Get(t) # Nothing
    <2>1. p = Get(t).principal /\ UNCHANGED stores
      BY <1>2 DEF EnsurePrincipalId
    <2>2. StoresT' /\ RecordsOwned' /\ KeepsRecords(t) /\ Get(t)' = Get(t)
      BY <2>1, StoresStay
    <2> QED
      BY <1>2, <2>1, <2>2
  <1> QED
    BY <1>1, <1>2

LEMMA StoredOwned ==
  ASSUME IInv, NEW t \in Tab, Get(t) # Nothing, Get(t).session # NoId
  PROVE  Get(t).session \in Session /\ owner[Get(t).session] = Get(t).principal
  <1>1. RecordsOwned /\ Get(t) \in Stored
    BY IInvParts, GetTyped
  <1>2. OwnedRecord(Get(t))
    BY <1>1 DEF RecordsOwned, OwnedRecord, Get
  <1> QED
    BY <1>1, <1>2, StoredFields DEF OwnedRecord

\* Requests made by a bootstrap, one or, when effects run twice, two
LEMMA Asked ==
  ASSUME NEW s \in Seq(Creation), NEW c \in Creation, c.by = "bootstrap",
         \A i \in DOMAIN s : s[i].principal = c.principal
  PROVE  /\ Append(s, c) \in Seq(Creation)
         /\ \A i \in DOMAIN Append(s, c) : Append(s, c)[i].principal = c.principal
         /\ \E i \in DOMAIN Append(s, c) : Append(s, c)[i].by = "bootstrap"
         /\ s \o <<c, c>> \in Seq(Creation)
         /\ \A i \in DOMAIN (s \o <<c, c>>) : (s \o <<c, c>>)[i].principal = c.principal
         /\ \E i \in DOMAIN (s \o <<c, c>>) : (s \o <<c, c>>)[i].by = "bootstrap"
  <1>1. /\ Append(s, c) \in Seq(Creation)
        /\ \A i \in DOMAIN Append(s, c) : Append(s, c)[i].principal = c.principal
        /\ \E i \in DOMAIN Append(s, c) : Append(s, c)[i].by = "bootstrap"
    BY Appended
  <1>2. /\ s \o <<c, c>> \in Seq(Creation)
        /\ \A i \in DOMAIN (s \o <<c, c>>) : (s \o <<c, c>>)[i].principal = c.principal
        /\ \E i \in DOMAIN (s \o <<c, c>>) : (s \o <<c, c>>)[i].by = "bootstrap"
    <2>1. /\ <<c, c>> \in Seq(Creation) /\ Len(<<c, c>>) = 2
          /\ <<c, c>>[1] = c /\ <<c, c>>[2] = c
      BY SMT
    <2>2. PICK d \in Seq(Creation) : d = <<c, c>>
      BY <2>1
    <2>3. /\ s \o d \in Seq(Creation) /\ Len(s \o d) = Len(s) + 2
          /\ \A i \in 1 .. Len(s) + 2 : (s \o d)[i] = IF i <= Len(s) THEN s[i] ELSE d[i - Len(s)]
      BY <2>1, <2>2, ConcatProperties
    <2>4. Len(s) \in Nat /\ DOMAIN s = 1 .. Len(s) /\ DOMAIN (s \o d) = 1 .. Len(s) + 2
      BY <2>3, LenProperties
    <2>5. ASSUME NEW i \in 1 .. Len(s) + 2
          PROVE  IF i <= Len(s) THEN (s \o d)[i] = s[i] /\ i \in DOMAIN s ELSE (s \o d)[i] = c
      <3>1. CASE i <= Len(s)
        <4>1. i \in 1 .. Len(s)
          BY <2>4, <3>1, SMT
        <4> QED
          BY <2>3, <2>4, <3>1, <4>1
      <3>2. CASE ~ i <= Len(s)
        <4>1. i - Len(s) = 1 \/ i - Len(s) = 2
          BY <2>4, <3>2, SMT
        <4>2. d[i - Len(s)] = c
          BY <4>1, <2>1, <2>2
        <4> QED
          BY <2>3, <3>2, <4>2
      <3> QED
        BY <3>1, <3>2
    <2>6. Len(s) + 1 \in 1 .. Len(s) + 2 /\ ~ Len(s) + 1 <= Len(s)
      BY <2>4, SMT
    <2>7. (s \o d)[Len(s) + 1] = c
      BY <2>5, <2>6
    <2>8. /\ \A i \in DOMAIN (s \o d) : (s \o d)[i].principal = c.principal
          /\ \E i \in DOMAIN (s \o d) : (s \o d)[i].by = "bootstrap"
      BY <2>4, <2>5, <2>6, <2>7
    <2> QED
      BY <2>2, <2>3, <2>8, Zenon
  <1> QED
    BY <1>1, <1>2, Zenon

\* What the effect of SessionProvider leaves in a tab that shows no session: it
\* resumes the stored one, or is creating one for its principal.
LEMMA Started ==
  ASSUME IInv, NEW t \in Tab, NEW p \in Principal, UNCHANGED server, StartBootstrap(t, p),
         sessionId[t] = NoId, \A i \in DOMAIN creating[t] : creating[t][i].principal = p
  PROVE  \E r \in BOOLEAN, sid \in Session \cup {NoId}, cs \in Seq(Creation) :
           /\ StoresT' /\ RecordsOwned' /\ KeepsRecords(t)
           /\ Get(t)' # Nothing /\ Get(t)'.principal = p /\ Get(t)'.session = sid
           /\ Get(t) # Nothing => p = Get(t).principal
           /\ principalId' = [principalId EXCEPT ![t] = p]
           /\ error' = [error EXCEPT ![t] = "none"]
           /\ sessionId' = [sessionId EXCEPT ![t] = sid]
           /\ isReady' = [isReady EXCEPT ![t] = r]
           /\ creating' = [creating EXCEPT ![t] = cs]
           /\ \A i \in DOMAIN cs : cs[i].principal = p
           /\ ~ r => \E i \in DOMAIN cs : cs[i].by = "bootstrap"
           /\ sid # NoId => owner'[sid] = p
           /\ sid = NoId => cs # <<>>
  <1> USE IInvParts
  <1>1. ServerT' /\ OwnerGrows /\ owner' = owner
    BY ServerStays DEF server
  <1>2. EnsurePrincipalId(t, p) /\ Bootstrap(t, p)
    BY DEF StartBootstrap, Bootstrap
  <1>3. /\ StoresT' /\ RecordsOwned' /\ KeepsRecords(t)
        /\ Get(t)' # Nothing /\ Get(t)'.principal = p
        /\ Get(t) # Nothing => p = Get(t).principal /\ Get(t)'.session = Get(t).session
        /\ Get(t) = Nothing => Get(t)'.session = NoId
    BY <1>1, <1>2, Ensured
  <1>4. PICK r \in BOOLEAN : r = (Get(t) # Nothing /\ Get(t).session # NoId)
    BY Zenon
  <1>5. /\ principalId' = [principalId EXCEPT ![t] = p]
        /\ error' = [error EXCEPT ![t] = "none"]
        /\ isReady' = [isReady EXCEPT ![t] = r]
        /\ IF r THEN sessionId' = [sessionId EXCEPT ![t] = Get(t).session]
                ELSE sessionId' = sessionId
    BY <1>2, <1>4, Zenon DEF Bootstrap
  <1>6. isReady'[t] = r
    BY <1>5, Assigned, Zenon DEF ProviderT, ReadyT
  <1>7. creating[t] \in Seq(Creation)
    BY ProviderNow
  <1>8. CASE r
    <2>1. creating' = [creating EXCEPT ![t] = creating[t]]
      <3>1. creating' = creating
        BY <1>6, <1>8, Zenon DEF StartBootstrap
      <3> QED
        BY <3>1, ProviderNow
    <2>2. PICK sid : sid = Get(t).session
      OBVIOUS
    <2>3. /\ sid \in Session /\ sid # NoId /\ owner'[sid] = p
          /\ Get(t)'.session = sid
      BY <1>1, <1>3, <1>4, <1>8, <2>2, StoredOwned
    <2>4. sessionId' = [sessionId EXCEPT ![t] = sid]
      BY <1>5, <1>8, <2>2
    <2> QED
      BY <1>3, <1>5, <1>7, <1>8, <2>1, <2>3, <2>4
  <1>9. CASE ~ r
    <2>1. PICK c : c = [by |-> "bootstrap", principal |-> p]
      OBVIOUS
    <2>2. PICK cs \in {Append(creating[t], c), creating[t] \o <<c, c>>} :
            creating' = [creating EXCEPT ![t] = cs]
      <3>1. \/ Create(t, "bootstrap", p)
            \/ creating' = [creating EXCEPT ![t] = @ \o
                 <<[by |-> "bootstrap", principal |-> p], [by |-> "bootstrap", principal |-> p]>>]
        BY <1>6, <1>9, Zenon DEF StartBootstrap
      <3> QED
        BY <2>1, <3>1, Zenon DEF Create
    <2>3. /\ cs \in Seq(Creation)
          /\ \A i \in DOMAIN cs : cs[i].principal = p
          /\ \E i \in DOMAIN cs : cs[i].by = "bootstrap"
      <3>1. PICK s \in Seq(Creation) : s = creating[t]
        BY <1>7
      <3>2. /\ cs = Append(s, c) \/ cs = s \o <<c, c>>
            /\ \A i \in DOMAIN s : s[i].principal = p
        BY <2>2, <3>1
      <3>3. c \in Creation /\ c.principal = p /\ c.by = "bootstrap"
        BY <2>1 DEF Creation
      <3>4. \A i \in DOMAIN s : s[i].principal = c.principal
        BY <3>2, <3>3
      <3>5. /\ Append(s, c) \in Seq(Creation)
            /\ \A i \in DOMAIN Append(s, c) : Append(s, c)[i].principal = c.principal
            /\ \E i \in DOMAIN Append(s, c) : Append(s, c)[i].by = "bootstrap"
            /\ s \o <<c, c>> \in Seq(Creation)
            /\ \A i \in DOMAIN (s \o <<c, c>>) : (s \o <<c, c>>)[i].principal = c.principal
            /\ \E i \in DOMAIN (s \o <<c, c>>) : (s \o <<c, c>>)[i].by = "bootstrap"
        BY <3>3, <3>4, Asked, Zenon
      <3>6. CASE cs = Append(s, c)
        BY <3>3, <3>5, <3>6, Zenon
      <3>7. CASE cs = s \o <<c, c>>
        BY <3>3, <3>5, <3>7, Zenon
      <3> QED
        BY <3>2, <3>6, <3>7, Zenon
    <2>4. cs # <<>>
      BY <2>3
    <2>5. Get(t)'.session = NoId
      BY <1>3, <1>4, <1>9
    <2>6. sessionId' = [sessionId EXCEPT ![t] = NoId] /\ NoId \in Session \cup {NoId}
      BY <1>5, <1>9, ProviderNow
    <2>7. PICK sid \in Session \cup {NoId} :
            sid = NoId /\ Get(t)'.session = sid /\ sessionId' = [sessionId EXCEPT ![t] = sid]
      BY <2>5, <2>6
    <2> QED
      BY <1>3, <1>5, <2>2, <2>3, <2>4, <2>7
  <1> QED
    BY <1>8, <1>9

LEMMA RetryBootstrapKeeps ==
  ASSUME IInv, NEW t \in Tab, RetryBootstrap(t)
  PROVE  IInv'
  <1> USE IInvParts
  <1>1. PICK p \in Principal : StartBootstrap(t, p)
    BY Zenon DEF RetryBootstrap
  <1>2. /\ status[t] = "open" /\ sessionId[t] = NoId
        /\ UNCHANGED <<server, status, onChat>>
        /\ Rerender(t)
    BY Zenon DEF RetryBootstrap
  <1>3. p = principalId[t]
    <2>1. EnsurePrincipalId(t, p)
      BY <1>1 DEF StartBootstrap, Bootstrap
    <2> QED
      BY <1>2, <2>1, OpenFacts DEF EnsurePrincipalId
  <1>4. \A i \in DOMAIN creating[t] : creating[t][i].principal = p
    BY <1>2, <1>3, OpenFacts
  <1>5. PICK r \in BOOLEAN, sid \in Session \cup {NoId}, cs \in Seq(Creation) :
          /\ StoresT' /\ RecordsOwned' /\ KeepsRecords(t)
          /\ Get(t)' # Nothing /\ Get(t)'.principal = p /\ Get(t)'.session = sid
          /\ Get(t) # Nothing => p = Get(t).principal
          /\ principalId' = [principalId EXCEPT ![t] = p]
          /\ error' = [error EXCEPT ![t] = "none"]
          /\ sessionId' = [sessionId EXCEPT ![t] = sid]
          /\ isReady' = [isReady EXCEPT ![t] = r]
          /\ creating' = [creating EXCEPT ![t] = cs]
          /\ \A i \in DOMAIN cs : cs[i].principal = p
          /\ ~ r => \E i \in DOMAIN cs : cs[i].by = "bootstrap"
          /\ sid # NoId => owner'[sid] = p
          /\ sid = NoId => cs # <<>>
    BY <1>1, <1>2, <1>4, Started
  <1>6. ServerT' /\ OwnerGrows
    BY <1>2, ServerStays
  <1>7. ChatT' /\ ChatOf(t)' /\ FlightsOwned(t)' /\ OtherChats(t)
    BY <1>2, <1>6, Rerendered
  <1>8. principalId' = principalId
    BY <1>3, <1>5, ProviderNow
  <1>9. PICK e \in Errors : e = "none"
    BY DEF Errors
  <1>10. /\ error' = [error EXCEPT ![t] = e]
         /\ sessionId' = [sessionId EXCEPT ![t] = sid]
         /\ isReady' = [isReady EXCEPT ![t] = r]
         /\ creating' = [creating EXCEPT ![t] = cs]
    BY <1>5, <1>9
  <1>11. /\ Get(t)' # Nothing /\ Get(t)'.principal = principalId[t]
         /\ \A i \in DOMAIN cs : cs[i].principal = principalId[t]
         /\ sid # NoId => owner'[sid] = principalId[t]
         /\ sid = NoId => cs # <<>> \/ e # "none"
         /\ Open1(t) => Get(t)'.session = sid
         /\ ~ r => \E i \in DOMAIN cs : cs[i].by = "bootstrap"
         /\ StoresT' /\ RecordsOwned' /\ KeepsRecords(t)
    BY <1>3, <1>5
  <1>12. status' = status /\ onChat' = onChat
    BY <1>2
  <1> QED
    BY <1>2, <1>6, <1>7, <1>8, <1>10, <1>11, <1>12, ProviderStep

----------------------------------------------------------------------------
(* A tab opens, mounts and closes *)

LEMMA OpenKeeps ==
  ASSUME IInv, NEW t \in Tab, Open(t)
  PROVE  IInv'
  <1> USE IInvParts
  <1>1. /\ status[t] \in {"never", "closed"}
        /\ status' = [status EXCEPT ![t] = "opening"]
        /\ UNCHANGED <<server, storage, memory, onChat, provider, creating, turns, sending, asking>>
    BY Zenon DEF Open
  <1>2. PICK private \in BOOLEAN : useMemory' = [useMemory EXCEPT ![t] = private]
    BY Zenon DEF Open
  <1>3. /\ sessionId' = sessionId /\ principalId' = principalId /\ isReady' = isReady
        /\ error' = error /\ creating' = creating /\ turns' = turns /\ sending' = sending
        /\ asking' = asking /\ storage' = storage /\ memory' = memory /\ onChat' = onChat
        /\ owner' = owner /\ gone' = gone
    BY <1>1 DEF server, provider
  <1>4. /\ StatusT' /\ status'[t] = "opening" /\ \A u \in Tab \ {t} : status'[u] = status[u]
    <2>1. "opening" \in Statuses
      BY DEF Statuses
    <2> QED
      BY <1>1, <2>1, Assigned DEF StatusT
  <1>5. /\ useMemory' \in [Tab -> BOOLEAN] /\ \A u \in Tab \ {t} : useMemory'[u] = useMemory[u]
    BY <1>2, Assigned, Zenon DEF StoresT
  <1>6. /\ ServerT' /\ StoresT' /\ OnChatT' /\ ProviderT' /\ CreatingT' /\ ChatT'
        /\ OwnerGrows /\ RecordsOwned'
    BY <1>3, <1>5 DEF ServerT, StoresT, OnChatT, ProviderT, SessionT, PrincT, ReadyT, ErrorT,
       CreatingT, ChatT, OwnerGrows, RecordsOwned, OwnedRecord
  <1>7. KeepsRecords(t)
    BY <1>3, <1>5 DEF KeepsRecords, Get
  <1>8. \A u \in Tab \ {t} : Frame(u)
    BY <1>3, <1>4 DEF Frame
  <1>9. Closed(t)
    <2>1. Identity(t) /\ status[t] # "open"
      BY <1>1
    <2> QED
      BY <2>1 DEF Identity
  <1>10. Identity(t)' /\ Waits(t)' /\ Follows(t)'
    BY <1>3, <1>4, <1>9 DEF Identity, Closed, Waits, Follows, Open1
  <1>11. Owned(t)' /\ ChatOf(t)'
    <2>1. Owned(t) /\ ChatOf(t)
      OBVIOUS
    <2> QED
      BY <2>1, <1>3 DEF Owned, ChatOf, Thread
  <1> QED
    BY <1>4, <1>6, <1>7, <1>8, <1>10, <1>11, Together

LEMMA MountKeeps ==
  ASSUME IInv, NEW t \in Tab, Mount(t)
  PROVE  IInv'
  <1> USE IInvParts
  <1>1. PICK p \in Principal : StartBootstrap(t, p)
    BY Zenon DEF Mount
  <1>2. /\ status[t] = "opening"
        /\ status' = [status EXCEPT ![t] = "open"]
        /\ UNCHANGED <<server, onChat, turns, sending, asking>>
    BY Zenon DEF Mount
  <1>3. Closed(t)
    <2>1. Identity(t) /\ status[t] # "open"
      BY <1>2
    <2> QED
      BY <2>1 DEF Identity
  <1>4. sessionId[t] = NoId /\ \A i \in DOMAIN creating[t] : creating[t][i].principal = p
    BY <1>3 DEF Closed
  <1>5. PICK r \in BOOLEAN, sid \in Session \cup {NoId}, cs \in Seq(Creation) :
          /\ StoresT' /\ RecordsOwned' /\ KeepsRecords(t)
          /\ Get(t)' # Nothing /\ Get(t)'.principal = p /\ Get(t)'.session = sid
          /\ Get(t) # Nothing => p = Get(t).principal
          /\ principalId' = [principalId EXCEPT ![t] = p]
          /\ error' = [error EXCEPT ![t] = "none"]
          /\ sessionId' = [sessionId EXCEPT ![t] = sid]
          /\ isReady' = [isReady EXCEPT ![t] = r]
          /\ creating' = [creating EXCEPT ![t] = cs]
          /\ \A i \in DOMAIN cs : cs[i].principal = p
          /\ ~ r => \E i \in DOMAIN cs : cs[i].by = "bootstrap"
          /\ sid # NoId => owner'[sid] = p
          /\ sid = NoId => cs # <<>>
    BY <1>1, <1>2, <1>4, Started
  <1>6. ServerT' /\ OwnerGrows
    BY <1>2, ServerStays
  <1>7. StatusT' /\ status'[t] = "open" /\ \A u \in Tab \ {t} : status'[u] = status[u]
    <2>1. "open" \in Statuses
      BY DEF Statuses
    <2> QED
      BY <1>2, <2>1, Assigned DEF StatusT
  <1>8. SessionT' /\ sessionId'[t] = sid /\ \A u \in Tab \ {t} : sessionId'[u] = sessionId[u]
    BY <1>5, Assigned DEF ProviderT, SessionT
  <1>9. PrincT' /\ principalId'[t] = p /\ \A u \in Tab \ {t} : principalId'[u] = principalId[u]
    <2>1. p \in Principal \cup {NoId}
      OBVIOUS
    <2> QED
      BY <1>5, <2>1, Assigned DEF ProviderT, PrincT
  <1>10. ErrorT' /\ \A u \in Tab \ {t} : error'[u] = error[u]
    <2>1. "none" \in Errors
      BY DEF Errors
    <2> QED
      BY <1>5, <2>1, Assigned DEF ProviderT, ErrorT
  <1>11. ReadyT' /\ isReady'[t] = r /\ \A u \in Tab \ {t} : isReady'[u] = isReady[u]
    BY <1>5, Assigned, ZenonT(30) DEF ProviderT, ReadyT
  <1>12. CreatingT' /\ creating'[t] = cs /\ \A u \in Tab \ {t} : creating'[u] = creating[u]
    BY <1>5, Assigned DEF CreatingT
  <1>13. turns' = turns /\ sending' = sending /\ asking' = asking /\ onChat' = onChat
    BY <1>2
  <1>14. ProviderT' /\ ChatT' /\ OnChatT'
    BY <1>8, <1>9, <1>10, <1>11, <1>13, Zenon DEF ProviderT, ChatT, OnChatT
  <1>15. \A u \in Tab \ {t} : Frame(u)
    BY <1>7, <1>8, <1>9, <1>10, <1>11, <1>12, <1>13 DEF Frame
  <1>16. Identity(t)'
    BY <1>5, <1>7, <1>9, <1>12 DEF Identity
  <1>17. turns'[t] = <<>> /\ asking'[t] = <<>> /\ ~ sending'[t]
    BY <1>3, <1>13 DEF Closed
  <1>18. Owned(t)'
    BY <1>5, <1>8, <1>9, <1>17 DEF Owned
  <1>19. Waits(t)'
    BY <1>5, <1>8, <1>11, <1>12 DEF Waits
  <1>20. Follows(t)'
    BY <1>5, <1>8 DEF Follows
  <1>21. ChatOf(t)'
    BY <1>17 DEF ChatOf, Thread
  <1>22. /\ ServerT' /\ StoresT' /\ RecordsOwned' /\ OwnerGrows /\ KeepsRecords(t)
         /\ status'[t] # "never"
    BY <1>5, <1>6, <1>7
  <1> QED
    BY <1>7, <1>12, <1>14, <1>15, <1>16, <1>18, <1>19, <1>20, <1>21, <1>22, Together

LEMMA CloseKeeps ==
  ASSUME IInv, NEW t \in Tab, Close(t)
  PROVE  IInv'
  <1> USE IInvParts
  <1>1. /\ status' = [status EXCEPT ![t] = "closed"]
        /\ memory' = [memory EXCEPT ![t] = Nothing]
        /\ sessionId' = [sessionId EXCEPT ![t] = NoId]
        /\ principalId' = [principalId EXCEPT ![t] = NoId]
        /\ error' = [error EXCEPT ![t] = "none"]
        /\ creating' = [creating EXCEPT ![t] = <<>>]
        /\ turns' = [turns EXCEPT ![t] = <<>>]
        /\ asking' = [asking EXCEPT ![t] = <<>>]
        /\ UNCHANGED <<server, storage, useMemory>>
    BY DEF Close, Reset
  <1>2. /\ onChat' = [onChat EXCEPT ![t] = TRUE]
        /\ isReady' = [isReady EXCEPT ![t] = FALSE]
        /\ sending' = [sending EXCEPT ![t] = FALSE]
    BY Zenon DEF Close, Reset
  <1>3. ServerT' /\ OwnerGrows
    BY <1>1, ServerStays
  <1>4. StatusT' /\ status'[t] = "closed" /\ \A u \in Tab \ {t} : status'[u] = status[u]
    <2>1. "closed" \in Statuses
      BY DEF Statuses
    <2> QED
      BY <1>1, <2>1, Assigned DEF StatusT
  <1>5. /\ memory' \in [Tab -> Stored \cup {Nothing}] /\ memory'[t] = Nothing
        /\ \A u \in Tab \ {t} : memory'[u] = memory[u]
    BY <1>1 DEF StoresT
  <1>6. SessionT' /\ sessionId'[t] = NoId /\ \A u \in Tab \ {t} : sessionId'[u] = sessionId[u]
    BY <1>1 DEF ProviderT, SessionT
  <1>7. PrincT' /\ \A u \in Tab \ {t} : principalId'[u] = principalId[u]
    BY <1>1 DEF ProviderT, PrincT
  <1>8. ErrorT' /\ \A u \in Tab \ {t} : error'[u] = error[u]
    BY <1>1 DEF ProviderT, ErrorT, Errors
  <1>9. ReadyT' /\ \A u \in Tab \ {t} : isReady'[u] = isReady[u]
    BY <1>2, Assigned, Zenon DEF ProviderT, ReadyT
  <1>10. CreatingT' /\ creating'[t] = <<>> /\ \A u \in Tab \ {t} : creating'[u] = creating[u]
    <2>1. PICK none \in Seq(Creation) : none = <<>>
      BY EmptySeq, Zenon
    <2> QED
      BY <1>1, <2>1, Assigned DEF CreatingT
  <1>11. /\ turns' \in [Tab -> Seq(Turn)] /\ turns'[t] = <<>>
         /\ \A u \in Tab \ {t} : turns'[u] = turns[u]
    <2>1. PICK none \in Seq(Turn) : none = <<>>
      BY EmptySeq, Zenon
    <2> QED
      BY <1>1, <2>1, Assigned DEF ChatT
  <1>12. /\ asking' \in [Tab -> Seq(Asking)] /\ asking'[t] = <<>>
         /\ \A u \in Tab \ {t} : asking'[u] = asking[u]
    <2>1. PICK none \in Seq(Asking) : none = <<>>
      BY EmptySeq, Zenon
    <2> QED
      BY <1>1, <2>1, Assigned DEF ChatT
  <1>13. /\ sending' \in [Tab -> BOOLEAN] /\ ~ sending'[t]
         /\ \A u \in Tab \ {t} : sending'[u] = sending[u]
    BY <1>2, Assigned, Zenon DEF ChatT
  <1>14. OnChatT'
    BY <1>2, Assigned, Zenon DEF OnChatT
  <1>15. ProviderT' /\ ChatT'
    BY <1>6, <1>7, <1>8, <1>9, <1>11, <1>12, <1>13, Zenon DEF ProviderT, ChatT
  <1>16. /\ StoresT' /\ KeepsRecords(t)
         /\ storage' = storage /\ owner' = owner
    BY <1>1, <1>5 DEF StoresT, KeepsRecords, Get, server
  <1>17. RecordsOwned'
    <2>1. RecordsOwned
      OBVIOUS
    <2> QED
      BY <2>1, <1>5, <1>16 DEF RecordsOwned, OwnedRecord
  <1>18. \A u \in Tab \ {t} : Frame(u)
    BY <1>4, <1>6, <1>7, <1>8, <1>9, <1>10, <1>11, <1>12, <1>13 DEF Frame
  <1>19. Identity(t)' /\ Waits(t)' /\ Follows(t)'
    BY <1>4, <1>6, <1>10, <1>11, <1>12, <1>13 DEF Identity, Closed, Waits, Follows, Open1
  <1>20. Owned(t)' /\ ChatOf(t)'
    BY <1>6, <1>11, <1>12, <1>13 DEF Owned, ChatOf, Thread
  <1>21. status'[t] # "never"
    BY <1>4
  <1> QED
    BY <1>3, <1>4, <1>10, <1>14, <1>15, <1>16, <1>17, <1>18, <1>19, <1>20, <1>21, Together

\* A step of the server that creates no session, or no step at all
LEMMA BrowserStays ==
  ASSUME IInv, gone' \subseteq Session,
         UNCHANGED <<owner, stores, status, onChat, provider, creating, turns, sending, asking>>
  PROVE  IInv'
  <1>1. /\ owner' = owner
        /\ storage' = storage /\ useMemory' = useMemory /\ memory' = memory
        /\ status' = status /\ onChat' = onChat /\ sessionId' = sessionId
        /\ principalId' = principalId /\ isReady' = isReady /\ error' = error
        /\ creating' = creating /\ turns' = turns /\ sending' = sending /\ asking' = asking
    BY DEF stores, provider
  <1>2. TypeOK /\ RecordsOwned /\ \A t \in Tab : TabOK(t)
    BY Zenon DEF IInv
  <1>3. TypeOK'
    BY <1>1, <1>2 DEF TypeOK
  <1>4. RecordsOwned'
    BY <1>1, <1>2 DEF RecordsOwned, OwnedRecord
  <1>5. ASSUME NEW t \in Tab PROVE TabOK(t)'
    <2>1. Identity(t) /\ Owned(t) /\ Waits(t) /\ Follows(t) /\ ChatOf(t)
      BY <1>2, Zenon DEF TabOK, ChatOf
    <2>2. Identity(t)' /\ Owned(t)' /\ Waits(t)' /\ Follows(t)'
      BY <1>1, <2>1 DEF Identity, Closed, Owned, Waits, Follows, Open1, Get
    <2>3. ChatOf(t)'
      BY <1>1, <2>1 DEF ChatOf, Thread
    <2> QED
      BY <2>2, <2>3, Zenon DEF TabOK, ChatOf
  <1> QED
    BY <1>3, <1>4, <1>5, Zenon DEF IInv

----------------------------------------------------------------------------
(* The invariant holds *)

LEMMA InitIInv == Init => IInv
  <1> SUFFICES ASSUME Init PROVE IInv
    OBVIOUS
  <1>1. TypeOK
    <2>1. /\ creating \in [Tab -> Seq(Creation)] /\ turns \in [Tab -> Seq(Turn)]
          /\ asking \in [Tab -> Seq(Asking)]
      <3>1. <<>> \in Seq(Creation) /\ <<>> \in Seq(Turn) /\ <<>> \in Seq(Asking)
        BY EmptySeq, Zenon
      <3> QED
        BY <3>1, Zenon DEF Init
    <2>2. /\ useMemory \in [Tab -> BOOLEAN] /\ onChat \in [Tab -> BOOLEAN]
          /\ isReady \in [Tab -> BOOLEAN] /\ sending \in [Tab -> BOOLEAN]
      BY Zenon DEF Init
    <2>3. /\ owner \in [Session -> Principal \cup {NoId}] /\ gone \subseteq Session
          /\ storage \in Stored \cup {Nothing} /\ memory \in [Tab -> Stored \cup {Nothing}]
          /\ status \in [Tab -> {"never", "opening", "open", "closed"}]
          /\ sessionId \in [Tab -> Session \cup {NoId}]
          /\ principalId \in [Tab -> Principal \cup {NoId}]
          /\ error \in [Tab -> {"none", "session_not_found", "other"}]
      BY DEF Init
    <2> QED
      BY <2>1, <2>2, <2>3, Zenon DEF TypeOK
  <1>2. RecordsOwned
    BY DEF Init, RecordsOwned, OwnedRecord
  <1>3. ASSUME NEW t \in Tab PROVE TabOK(t)
    <2>1. /\ status[t] = "never" /\ sessionId[t] = NoId /\ creating[t] = <<>>
          /\ turns[t] = <<>> /\ asking[t] = <<>>
      BY DEF Init
    <2>2. ~ sending[t]
      BY Zenon DEF Init
    <2>3. Identity(t) /\ Owned(t) /\ Waits(t) /\ Follows(t)
      BY <2>1, <2>2 DEF Identity, Closed, Owned, Waits, Follows, Open1
    <2>4. Thread(turns[t], sending[t], asking[t], sessionId[t])
      BY <2>1, <2>2 DEF Thread
    <2> QED
      BY <2>3, <2>4, Zenon DEF TabOK
  <1> QED
    BY <1>1, <1>2, <1>3, Zenon DEF IInv

LEMMA StutterIInv ==
  ASSUME IInv, UNCHANGED vars
  PROVE  IInv'
  <1>1. gone \subseteq Session
    BY DEF IInv, TypeOK
  <1> QED
    BY <1>1, BrowserStays DEF vars, server

LEMMA NextIInv ==
  ASSUME IInv, Next
  PROVE  IInv'
  <1>1. ASSUME NEW t \in Tab,
               \/ Open(t) \/ Mount(t) \/ Close(t) \/ Navigate(t)
               \/ RetryBootstrap(t) \/ CreateNewSession(t) \/ RecoverSession(t)
               \/ ClearSessionError(t) \/ Created(t) \/ CreateFails(t)
               \/ Send(t) \/ TurnAnswered(t) \/ TurnFails(t) \/ TurnNotFound(t)
        PROVE  IInv'
    <2>1. CASE Open(t) BY <2>1, OpenKeeps
    <2>2. CASE Mount(t) BY <2>2, MountKeeps
    <2>3. CASE Close(t) BY <2>3, CloseKeeps
    <2>4. CASE Navigate(t) BY <2>4, NavigateKeeps
    <2>5. CASE RetryBootstrap(t) BY <2>5, RetryBootstrapKeeps
    <2>6. CASE CreateNewSession(t) BY <2>6, CreateNewSessionKeeps
    <2>7. CASE RecoverSession(t) BY <2>7, RecoverSessionKeeps
    <2>8. CASE ClearSessionError(t) BY <2>8, ClearSessionErrorKeeps
    <2>9. CASE Created(t) BY <2>9, CreatedKeeps
    <2>10. CASE CreateFails(t) BY <2>10, CreateFailsKeeps
    <2>11. CASE Send(t) BY <2>11, SendKeeps
    <2>12. CASE TurnAnswered(t) BY <2>12, TurnAnsweredKeeps
    <2>13. CASE TurnFails(t) BY <2>13, TurnFailsKeeps
    <2>14. CASE TurnNotFound(t) BY <2>14, TurnNotFoundKeeps
    <2> QED
      BY <1>1, <2>1, <2>2, <2>3, <2>4, <2>5, <2>6, <2>7, <2>8, <2>9, <2>10, <2>11, <2>12,
         <2>13, <2>14, Zenon
  <1>2. ASSUME NEW s \in Session, Forget(s) PROVE IInv'
    <2>1. gone \subseteq Session
      BY DEF IInv, TypeOK
    <2> QED
      BY <1>2, <2>1, BrowserStays DEF Forget
  <1> QED
    BY <1>1, <1>2, Zenon DEF Next

THEOREM Invariant == Spec => []IInv
  <1>1. IInv /\ [Next]_vars => IInv'
    BY NextIInv, StutterIInv, Zenon
  <1> QED
    BY <1>1, InitIInv, PTL DEF Spec

----------------------------------------------------------------------------
(* What follows from it *)

\* Every variable of the browser, the stores and the server keeps its type.
THEOREM TypeCorrect == Spec => []TypeOK
  <1>1. IInv => TypeOK
    BY Zenon DEF IInv
  <1> QED
    BY <1>1, Invariant, PTL

\* SessionStore.setServerSession and clearServerSession (session-store.ts) keep
\* pace with SessionProvider: a lone open tab shows the session its store holds.
THEOREM StoreFollowsTabAlways == Spec => []StoreFollowsTab
  <1>1. IInv => StoreFollowsTab
    <2> SUFFICES ASSUME IInv, NEW t \in Tab, Open1(t)
                 PROVE  Get(t) # Nothing /\ Get(t).session = sessionId[t]
      BY DEF StoreFollowsTab
    <2>1. Identity(t) /\ Follows(t) /\ status[t] = "open"
      BY IInvParts DEF Open1
    <2> QED
      BY <2>1 DEF Identity, Follows
  <1> QED
    BY <1>1, Invariant, PTL

\* A session goes with the principal it was created for, in every tab, in every
\* record and in every turn in flight.
THEOREM PairOwnedAlways == Spec => []PairOwned
  <1>1. IInv => PairOwned
    <2> SUFFICES ASSUME IInv PROVE PairOwned
      OBVIOUS
    <2>1. \A t \in Tab : Owned(t) /\ RecordsOwned
      BY IInvParts
    <2>2. RecordsOwned
      BY Zenon DEF IInv
    <2>3. \A t \in Tab : sessionId[t] # NoId => owner[sessionId[t]] = principalId[t]
      BY <2>1 DEF Owned
    <2>4. \A t \in Tab : \A i \in DOMAIN asking[t] :
            owner[asking[t][i].session] = asking[t][i].principal
      BY <2>1 DEF Owned
    <2>5. \A rec \in {storage} \cup {memory[t] : t \in Tab} :
            rec # Nothing /\ rec.session # NoId => owner[rec.session] = rec.principal
      BY <2>2 DEF RecordsOwned, OwnedRecord
    <2> QED
      BY <2>3, <2>4, <2>5, Zenon DEF PairOwned
  <1> QED
    BY <1>1, Invariant, PTL

\* ChatView shows turns of the session in its header only.
THEOREM ShownInItsSessionAlways == Spec => []ShownInItsSession
  <1>1. IInv => ShownInItsSession
    <2> SUFFICES ASSUME IInv PROVE ShownInItsSession
      OBVIOUS
    <2>1. \A t \in Tab : ChatOf(t)
      BY IInvParts
    <2> QED
      BY <2>1 DEF ChatOf, Thread, ShownInItsSession
  <1> QED
    BY <1>1, Invariant, PTL

\* The skeleton, the disabled send button and an awaiting entry each stand for a
\* request that is under way.
THEOREM WaitsForSomethingAlways == Spec => []WaitsForSomething
  <1>1. IInv => WaitsForSomething
    <2> SUFFICES ASSUME IInv, NEW t \in Tab,
                        NEW mine, mine = {i \in DOMAIN asking[t] : asking[t][i].here}
                 PROVE  /\ status[t] = "open" /\ ~ isReady[t] =>
                             \E i \in DOMAIN creating[t] : creating[t][i].by = "bootstrap"
                        /\ sending[t] <=> mine # {}
                        /\ \A i, j \in mine : i = j
                        /\ (\E i \in DOMAIN turns[t] : ~ turns[t][i].answered) => sending[t]
      BY Zenon DEF WaitsForSomething
    <2>1. Waits(t) /\ ChatOf(t)
      BY IInvParts
    <2> QED
      BY <2>1 DEF Waits, ChatOf, Thread
  <1> QED
    BY <1>1, Invariant, PTL

\* A page without a session is getting one, or says that something went wrong.
THEOREM WayOutAlways == Spec => []WayOut
  <1>1. IInv => WayOut
    <2> SUFFICES ASSUME IInv PROVE WayOut
      OBVIOUS
    <2>1. \A t \in Tab : Waits(t)
      BY IInvParts
    <2> QED
      BY <2>1 DEF Waits, WayOut
  <1> QED
    BY <1>1, Invariant, PTL

=============================================================================
