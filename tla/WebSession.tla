----------------------------- MODULE WebSession -----------------------------
(***************************************************************************)
(* The session of the operator's browser: SessionStore over localStorage,  *)
(* SessionProvider (useSession.tsx) and ChatView, in one or more tabs,     *)
(* with any number of POST /v1/sessions and turns in flight.               *)
(*                                                                         *)
(* An action is one JavaScript task: a click, an effect, or the arrival of *)
(* an answer with the state updates and the re-render it causes.           *)
(***************************************************************************)
EXTENDS Naturals, Sequences, SequencesExt

CONSTANTS
  Tab,
  Session,      \* bound: sessions the server can hand out
  Principal,    \* the random principal ids
  MaxInFlight,  \* bound: requests of one kind in flight in all tabs
  MaxTurns,     \* bound: turns a tab shows
  Faults,       \* what may be wrong with the browser
  NoId,         \* null, and the empty sessionId of a stored record
  Nothing

\* "dev"      the development build: StrictMode mounts effects twice
\* "private"  localStorage cannot be used when a tab is opened
\* "quota"    a setItem throws
ASSUME WebAssumption ==
  /\ MaxInFlight \in Nat /\ MaxTurns \in Nat
  /\ Faults \subseteq {"dev", "private", "quota"}
  /\ NoId \notin Session \cup Principal

VARIABLES
  owner,      \* server: the principal of a session, NoId if not created
  gone,       \* server: sessions it no longer recognises
  storage,    \* localStorage, shared by the tabs
  useMemory,  \* SessionStore.useMemory of a tab
  memory,     \* the tab's substitute for localStorage
  status,     \* "never" opened, "opening" (before its effects), "open", "closed"
  onChat,     \* the tab shows the chat route
  sessionId, principalId, isReady, error,  \* state of SessionProvider
  creating,   \* its POST /v1/sessions in flight
  turns, sending,                          \* state of ChatView
  asking      \* the turns of a tab in flight

server   == <<owner, gone>>
stores   == <<storage, useMemory, memory>>
provider == <<sessionId, principalId, isReady, error>>
vars == <<server, stores, status, onChat, provider, creating, turns, sending, asking>>

Stored == [principal : Principal, session : Session \cup {NoId}]
Creation == [by : {"bootstrap", "new", "recover"}, principal : Principal]
Turn == [session : Session, answered : BOOLEAN]
\* here: the ChatView that sent it is still mounted
Asking == [session : Session, principal : Principal, here : BOOLEAN]

ASSUME StoredAssumption == Nothing \notin Stored

TypeOK ==
  /\ owner \in [Session -> Principal \cup {NoId}]
  /\ gone \subseteq Session
  /\ storage \in Stored \cup {Nothing}
  /\ useMemory \in [Tab -> BOOLEAN]
  /\ memory \in [Tab -> Stored \cup {Nothing}]
  /\ status \in [Tab -> {"never", "opening", "open", "closed"}]
  /\ onChat \in [Tab -> BOOLEAN]
  /\ sessionId \in [Tab -> Session \cup {NoId}]
  /\ principalId \in [Tab -> Principal \cup {NoId}]
  /\ isReady \in [Tab -> BOOLEAN]
  /\ error \in [Tab -> {"none", "session_not_found", "other"}]
  /\ creating \in [Tab -> Seq(Creation)]
  /\ turns \in [Tab -> Seq(Turn)]
  /\ sending \in [Tab -> BOOLEAN]
  /\ asking \in [Tab -> Seq(Asking)]

----------------------------------------------------------------------------
(* SessionStore *)

Get(t) == IF useMemory[t] THEN memory[t] ELSE storage

Set(t, rec) ==
  \/ /\ ~ useMemory[t]
     /\ storage' = rec
     /\ UNCHANGED <<useMemory, memory>>
  \/ /\ useMemory[t] \/ "quota" \in Faults
     /\ memory' = [memory EXCEPT ![t] = rec]
     /\ useMemory' = [useMemory EXCEPT ![t] = TRUE]
     /\ UNCHANGED storage

ClearServerSession(t) ==
  IF Get(t) = Nothing THEN UNCHANGED stores
  ELSE Set(t, [Get(t) EXCEPT !.session = NoId])

\* A random uuid is nobody's yet.
Fresh(p) ==
  /\ \A s \in Session : owner[s] # p
  /\ storage # Nothing => storage.principal # p
  /\ \A t \in Tab :
       /\ memory[t] # Nothing => memory[t].principal # p
       /\ principalId[t] # p

EnsurePrincipalIdMutant(t, p) ==   \* each visit makes up a new one
  /\ Fresh(p)
  /\ Set(t, [principal |-> p,
             session |-> IF Get(t) = Nothing THEN NoId ELSE Get(t).session])

EnsurePrincipalId(t, p) ==
  IF Get(t) = Nothing
    THEN Fresh(p) /\ Set(t, [principal |-> p, session |-> NoId])
    ELSE p = Get(t).principal /\ UNCHANGED stores

----------------------------------------------------------------------------
(* Rendering *)

\* ChatPage shows ChatView only when the session is ready and, if there is an
\* error, known.
Mounted(t) ==
  /\ status[t] = "open" /\ onChat[t] /\ isReady[t]
  /\ error[t] = "none" \/ sessionId[t] # NoId

RenderMutant(t, list, busy, flights) ==   \* turns outlive their session
  /\ turns' = [turns EXCEPT ![t] = IF Mounted(t)' THEN list ELSE <<>>]
  /\ sending' = [sending EXCEPT ![t] = Mounted(t)' /\ busy]
  /\ asking' = [asking EXCEPT ![t] =
       [i \in DOMAIN flights |-> [flights[i] EXCEPT !.here = @ /\ Mounted(t)']]]

\* After the updates of a task: an unmounted ChatView loses its state, another
\* sessionId empties the thread.
Render(t, list, busy, flights) ==
  /\ turns' = [turns EXCEPT ![t] =
       IF Mounted(t)' /\ sessionId'[t] = sessionId[t] THEN list ELSE <<>>]
  /\ sending' = [sending EXCEPT ![t] = Mounted(t)' /\ busy]
  /\ asking' = [asking EXCEPT ![t] =
       [i \in DOMAIN flights |-> [flights[i] EXCEPT !.here = @ /\ Mounted(t)']]]

Rerender(t) == Render(t, turns[t], sending[t], asking[t])

----------------------------------------------------------------------------
(* SessionProvider *)

InFlight(requests) == MapThenSumSet(LAMBDA t : Len(requests[t]), Tab)

Create(t, by, p) ==
  /\ InFlight(creating) < MaxInFlight
  /\ creating' = [creating EXCEPT ![t] = Append(@, [by |-> by, principal |-> p])]

\* bootstrap: resume the stored session, or ask for a new one.
Bootstrap(t, p) ==
  LET resumed == Get(t) # Nothing /\ Get(t).session # NoId
  IN  /\ EnsurePrincipalId(t, p)
      /\ principalId' = [principalId EXCEPT ![t] = p]
      /\ error' = [error EXCEPT ![t] = "none"]
      /\ isReady' = [isReady EXCEPT ![t] = resumed]
      /\ IF resumed THEN sessionId' = [sessionId EXCEPT ![t] = Get(t).session]
                    ELSE UNCHANGED sessionId

StartBootstrap(t, p) ==
  /\ Bootstrap(t, p)
  /\ IF isReady'[t] THEN UNCHANGED creating
     ELSE \/ Create(t, "bootstrap", p)
          \/ /\ "dev" \in Faults /\ status[t] = "opening"
             /\ creating' = [creating EXCEPT ![t] =
                  @ \o <<[by |-> "bootstrap", principal |-> p],
                         [by |-> "bootstrap", principal |-> p]>>]

\* The page loads: the constructor of SessionStore probes localStorage.
Open(t) ==
  /\ status[t] \in {"never", "closed"}
  /\ status' = [status EXCEPT ![t] = "opening"]
  /\ \E private \in {FALSE} \cup (IF "private" \in Faults THEN {TRUE} ELSE {}) :
       useMemory' = [useMemory EXCEPT ![t] = private]
  /\ UNCHANGED <<server, storage, memory, onChat, provider, creating, turns, sending, asking>>

\* The effect of SessionProvider.
Mount(t) ==
  /\ status[t] = "opening"
  /\ status' = [status EXCEPT ![t] = "open"]
  /\ \E p \in Principal : StartBootstrap(t, p)
  /\ UNCHANGED <<server, onChat, turns, sending, asking>>

Reset(var, t, value) == [var EXCEPT ![t] = value]

\* The tab is closed or reloaded; answers in flight find nobody.
Close(t) ==
  /\ status[t] = "open"
  /\ status' = Reset(status, t, "closed")
  /\ memory' = Reset(memory, t, Nothing)
  /\ onChat' = Reset(onChat, t, TRUE)
  /\ sessionId' = Reset(sessionId, t, NoId)
  /\ principalId' = Reset(principalId, t, NoId)
  /\ isReady' = Reset(isReady, t, FALSE)
  /\ error' = Reset(error, t, "none")
  /\ creating' = Reset(creating, t, <<>>)
  /\ turns' = Reset(turns, t, <<>>)
  /\ sending' = Reset(sending, t, FALSE)
  /\ asking' = Reset(asking, t, <<>>)
  /\ UNCHANGED <<server, storage, useMemory>>

\* Another page of the application and back; the provider stays.
Navigate(t) ==
  /\ status[t] = "open"
  /\ onChat' = [onChat EXCEPT ![t] = ~ @]
  /\ UNCHANGED <<server, stores, status, provider, creating>>
  /\ Rerender(t)

\* The button of the error page.
RetryBootstrap(t) ==
  /\ status[t] = "open" /\ onChat[t] /\ isReady[t]
  /\ error[t] # "none" /\ sessionId[t] = NoId
  /\ \E p \in Principal : StartBootstrap(t, p)
  /\ UNCHANGED <<server, status, onChat>>
  /\ Rerender(t)

\* "New Session"; principalId is known wherever the button is shown.
CreateNewSession(t) ==
  /\ Mounted(t)
  /\ error' = [error EXCEPT ![t] = "none"]
  /\ Create(t, "new", principalId[t])
  /\ UNCHANGED <<server, stores, status, onChat, sessionId, principalId, isReady>>
  /\ Render(t, <<>>, sending[t], asking[t])

\* "Start New Session" over an expired one.
RecoverSession(t) ==
  /\ Mounted(t) /\ error[t] = "session_not_found"
  /\ ClearServerSession(t)
  /\ error' = [error EXCEPT ![t] = "none"]
  /\ sessionId' = [sessionId EXCEPT ![t] = NoId]
  /\ principalId' = [principalId EXCEPT ![t] = Get(t).principal]
  /\ Create(t, "recover", Get(t).principal)
  /\ UNCHANGED <<server, status, onChat, isReady>>
  /\ Rerender(t)

ClearSessionError(t) ==
  /\ Mounted(t) /\ error[t] = "other"
  /\ error' = [error EXCEPT ![t] = "none"]
  /\ UNCHANGED <<server, stores, status, onChat, sessionId, principalId, isReady, creating>>
  /\ Rerender(t)

Ready(t, c) == isReady' = [isReady EXCEPT ![t] = @ \/ c.by = "bootstrap"]

\* persistNewSession succeeds, and what its caller does then.
Created(t) ==
  \E i \in DOMAIN creating[t], s \in Session :
    LET c == creating[t][i]
    IN  /\ owner[s] = NoId
        /\ owner' = [owner EXCEPT ![s] = c.principal]
        /\ Set(t, [principal |-> c.principal, session |-> s])
        /\ sessionId' = [sessionId EXCEPT ![t] = s]
        /\ error' = [error EXCEPT ![t] = IF c.by = "bootstrap" THEN "none" ELSE @]
        /\ Ready(t, c)
        /\ creating' = [creating EXCEPT ![t] = RemoveAt(@, i)]
        /\ UNCHANGED <<gone, status, onChat, principalId>>
        /\ Rerender(t)

CreateFailsMutant(t) ==   \* recoverSession does not catch
  \E i \in DOMAIN creating[t] :
    /\ error' = [error EXCEPT ![t] = IF creating[t][i].by = "recover" THEN @ ELSE "other"]
    /\ Ready(t, creating[t][i])
    /\ creating' = [creating EXCEPT ![t] = RemoveAt(@, i)]
    /\ UNCHANGED <<server, stores, status, onChat, sessionId, principalId>>
    /\ Rerender(t)

\* The server refuses, or its answer does not arrive.
CreateFails(t) ==
  \E i \in DOMAIN creating[t] :
    /\ error' = [error EXCEPT ![t] = "other"]
    /\ Ready(t, creating[t][i])
    /\ creating' = [creating EXCEPT ![t] = RemoveAt(@, i)]
    /\ UNCHANGED <<server, stores, status, onChat, sessionId, principalId>>
    /\ Rerender(t)

----------------------------------------------------------------------------
(* ChatView *)

Send(t) ==
  /\ Mounted(t) /\ sessionId[t] # NoId /\ error[t] # "session_not_found"
  /\ ~ sending[t]
  /\ InFlight(asking) < MaxInFlight /\ Len(turns[t]) < MaxTurns
  /\ UNCHANGED <<server, stores, status, onChat, provider, creating>>
  /\ Render(t, Append(turns[t], [session |-> sessionId[t], answered |-> FALSE]), TRUE,
            Append(asking[t], [session |-> sessionId[t], principal |-> principalId[t],
                               here |-> TRUE]))

\* What is left of a turn's flight i; only its own ChatView stops sending.
Landed(t, i, list) ==
  LET mine == asking[t][i].here
  IN  Render(t, IF mine THEN list ELSE turns[t], sending[t] /\ ~ mine,
             RemoveAt(asking[t], i))

\* The entry of the turn is filtered out, if it is still there.
WithoutAwaiting(list) ==
  LET awaiting == {j \in DOMAIN list : ~ list[j].answered}
  IN  IF awaiting = {} THEN list ELSE RemoveAt(list, CHOOSE j \in awaiting : TRUE)

Known(a) == a.session \notin gone /\ owner[a.session] = a.principal

\* The awaiting entry, if it is still there, becomes the answered one.
TurnAnswered(t) ==
  \E i \in DOMAIN asking[t] :
    /\ Known(asking[t][i])
    /\ UNCHANGED <<server, stores, status, onChat, provider, creating>>
    /\ Landed(t, i, [j \in DOMAIN turns[t] |-> [turns[t][j] EXCEPT !.answered = TRUE]])

TurnFailsMutant(t) ==   \* setSending(false) only after a result
  \E i \in DOMAIN asking[t] :
    /\ UNCHANGED <<server, stores, status, onChat, provider, creating>>
    /\ Render(t, IF asking[t][i].here THEN WithoutAwaiting(turns[t]) ELSE turns[t],
              sending[t], RemoveAt(asking[t], i))

TurnFails(t) ==
  \E i \in DOMAIN asking[t] :
    /\ UNCHANGED <<server, stores, status, onChat, provider, creating>>
    /\ Landed(t, i, WithoutAwaiting(turns[t]))

TurnNotFoundMutant(t) ==   \* the stored session is kept
  \E i \in DOMAIN asking[t] :
    /\ ~ Known(asking[t][i])
    /\ sessionId' = [sessionId EXCEPT ![t] = NoId]
    /\ error' = [error EXCEPT ![t] = "session_not_found"]
    /\ UNCHANGED <<server, stores, status, onChat, principalId, isReady, creating>>
    /\ Landed(t, i, WithoutAwaiting(turns[t]))

\* notifySessionNotFound, whichever session the turn was sent in
TurnNotFound(t) ==
  \E i \in DOMAIN asking[t] :
    /\ ~ Known(asking[t][i])
    /\ ClearServerSession(t)
    /\ sessionId' = [sessionId EXCEPT ![t] = NoId]
    /\ error' = [error EXCEPT ![t] = "session_not_found"]
    /\ UNCHANGED <<server, status, onChat, principalId, isReady, creating>>
    /\ Landed(t, i, WithoutAwaiting(turns[t]))

\* The server's database loses a session.
Forget(s) ==
  /\ owner[s] # NoId /\ s \notin gone
  /\ gone' = gone \cup {s}
  /\ UNCHANGED <<owner, stores, status, onChat, provider, creating, turns, sending, asking>>

----------------------------------------------------------------------------

Init ==
  /\ owner = [s \in Session |-> NoId]
  /\ gone = {}
  /\ storage = Nothing
  /\ useMemory = [t \in Tab |-> FALSE]
  /\ memory = [t \in Tab |-> Nothing]
  /\ status = [t \in Tab |-> "never"]
  /\ onChat = [t \in Tab |-> TRUE]
  /\ sessionId = [t \in Tab |-> NoId]
  /\ principalId = [t \in Tab |-> NoId]
  /\ isReady = [t \in Tab |-> FALSE]
  /\ error = [t \in Tab |-> "none"]
  /\ creating = [t \in Tab |-> <<>>]
  /\ turns = [t \in Tab |-> <<>>]
  /\ sending = [t \in Tab |-> FALSE]
  /\ asking = [t \in Tab |-> <<>>]

Next ==
  \/ \E t \in Tab :
       \/ Open(t) \/ Mount(t) \/ Close(t) \/ Navigate(t)
       \/ RetryBootstrap(t) \/ CreateNewSession(t) \/ RecoverSession(t)
       \/ ClearSessionError(t) \/ Created(t) \/ CreateFails(t)
       \/ Send(t) \/ TurnAnswered(t) \/ TurnFails(t) \/ TurnNotFound(t)
  \/ \E s \in Session : Forget(s)

Spec == Init /\ [][Next]_vars

----------------------------------------------------------------------------
(* Properties *)

Open1(t) == status[t] = "open" /\ \A u \in Tab \ {t} : status[u] = "never"

\* While a single tab is open, the session it shows and the one its store answers
\* with are the same, none included, whatever requests overlap, fail or answer
\* late: a request of this visit never takes up a session the page has left.  The
\* next visit reads localStorage: after a failed write that is an older record.
StoreFollowsTab ==
  \A t \in Tab : Open1(t) =>
    Get(t) # Nothing /\ Get(t).session = sessionId[t]

\* A session is stored, shown and sent only with the principal it was created
\* for, also by a tab that found another tab's session: no request is refused
\* because the two were mixed up.
PairOwned ==
  /\ \A t \in Tab : sessionId[t] # NoId => owner[sessionId[t]] = principalId[t]
  /\ \A rec \in {storage} \cup {memory[t] : t \in Tab} :
       rec # Nothing /\ rec.session # NoId => owner[rec.session] = rec.principal
  /\ \A t \in Tab : \A i \in DOMAIN asking[t] :
       owner[asking[t][i].session] = asking[t][i].principal

\* The thread shows only turns of the session in its header, with the answers of
\* abandoned sessions still arriving.
ShownInItsSession ==
  \A t \in Tab : \A i \in DOMAIN turns[t] : turns[t][i].session = sessionId[t]

\* The page waits only for something that is under way: the skeleton for a
\* bootstrap, the send button and an awaiting entry for the one turn of this
\* thread.
WaitsForSomething ==
  \A t \in Tab :
    LET mine == {i \in DOMAIN asking[t] : asking[t][i].here}
    IN  /\ status[t] = "open" /\ ~ isReady[t] =>
             \E i \in DOMAIN creating[t] : creating[t][i].by = "bootstrap"
        /\ sending[t] <=> mine # {}
        /\ \A i, j \in mine : i = j
        /\ (\E i \in DOMAIN turns[t] : ~ turns[t][i].answered) => sending[t]

\* specs/006-operator-web-ui/spec.md:130 (SC-006) - a working state can always be
\* reached: a page without a session is getting one or offers to try again.
WayOut ==
  \A t \in Tab :
    status[t] = "open" /\ sessionId[t] = NoId => creating[t] # <<>> \/ error[t] # "none"
============================================================================
