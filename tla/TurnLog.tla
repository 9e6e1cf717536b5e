------------------------------ MODULE TurnLog ------------------------------
(***************************************************************************)
(* What the conversation service promises a client about the transcript of *)
(* a session, with no lock, no cache, no engine and no failure in sight.   *)
(*                                                                         *)
(* A session is a sequence of entries.  A request asks at most once, is    *)
(* answered directly after its own question or never, and is told either   *)
(* its own answer or the answer of an earlier request that carried the     *)
(* same Idempotency-Key and the same body.  Coordinator.tla implements     *)
(* this specification with every fault of its environment.                 *)
(***************************************************************************)
EXTENDS Naturals, Sequences

CONSTANTS
  Session,    \* the conversation sessions
  Request,    \* request identities, one per HTTP call
  Key, Body,  \* Idempotency-Key values and message bodies
  NoKey,      \* the call carries no Idempotency-Key
  Nothing     \* not sent yet / not answered yet

VARIABLES
  log,        \* log[s]: the transcript of session s
  sent,       \* sent[r]: what call r carries, Nothing before it is made
  told        \* told[r]: the request whose answer r was given, or Nothing

vars == <<log, sent, told>>

Entry == [role : {"user", "assistant"}, by : Request]
Call  == [session : Session, key : Key \cup {NoKey}, body : Body]

TypeOK ==
  /\ log \in [Session -> Seq(Entry)]
  /\ sent \in [Request -> Call \cup {Nothing}]
  /\ told \in [Request -> Request \cup {Nothing}]

\* x and r are the same call made twice: same session, same key, same body.
SameCall(r, x) ==
  /\ sent[r] # Nothing /\ sent[x] # Nothing
  /\ sent[r].key # NoKey
  /\ sent[r] = sent[x]

Logged(role, r) ==
  \E i \in 1 .. Len(log[sent[r].session]) :
    log[sent[r].session][i] = [role |-> role, by |-> r]

Init ==
  /\ log = [s \in Session |-> <<>>]
  /\ sent = [r \in Request |-> Nothing]
  /\ told = [r \in Request |-> Nothing]

Send(r) ==
  /\ sent[r] = Nothing
  /\ \E c \in Call : sent' = [sent EXCEPT ![r] = c]
  /\ UNCHANGED <<log, told>>

\* A question enters the log once per request and once per key.
Ask(r) ==
  /\ sent[r] # Nothing
  /\ ~ Logged("user", r)
  /\ \A x \in Request :
       (/\ sent[x] # Nothing
        /\ sent[x].session = sent[r].session
        /\ sent[x].key = sent[r].key
        /\ sent[r].key # NoKey) => ~ Logged("user", x)
  /\ log' = [log EXCEPT ![sent[r].session] =
                 Append(@, [role |-> "user", by |-> r])]
  /\ UNCHANGED <<sent, told>>

\* An answer follows its own question immediately.
Answer(r) ==
  /\ sent[r] # Nothing
  /\ LET entries == log[sent[r].session]
     IN  /\ entries # <<>>
         /\ entries[Len(entries)] = [role |-> "user", by |-> r]
         /\ log' = [log EXCEPT ![sent[r].session] =
                        Append(@, [role |-> "assistant", by |-> r])]
  /\ UNCHANGED <<sent, told>>

Tell(r) ==
  /\ sent[r] # Nothing
  /\ told[r] = Nothing
  /\ \E x \in Request :
       /\ x = r \/ SameCall(r, x)
       /\ Logged("assistant", x)
       /\ told' = [told EXCEPT ![r] = x]
  /\ UNCHANGED <<log, sent>>

Next == \E r \in Request : Send(r) \/ Ask(r) \/ Answer(r) \/ Tell(r)

Spec == Init /\ [][Next]_vars
============================================================================
