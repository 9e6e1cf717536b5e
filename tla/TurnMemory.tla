----------------------------- MODULE TurnMemory -----------------------------
(***************************************************************************)
(* What the turn lock is for: the turns of a session take effect one after *)
(* the other, each on the memory that the one before it has left, and a    *)
(* caller who was given a researched answer finds it remembered.  There is *)
(* no lock, no store, no cache and no failure here.                        *)
(*                                                                         *)
(* A turn begins with the memory of its session, and ends by adding itself *)
(* to that same memory or without a trace.  Coordinator.tla implements     *)
(* this specification as long as no turn outlives the TTL of its lock.     *)
(***************************************************************************)
EXTENDS Naturals, Sequences

CONSTANTS
  Session,    \* the conversation sessions
  Request     \* request identities, one per HTTP call and turn

VARIABLES
  memory,     \* memory[s]: the turns session s remembers, in their order
  turn,       \* turn[r]: where the turn of r stands and what it was given
  told        \* the requests whose caller has a researched answer of their own

vars == <<memory, turn, told>>

Before == [stage |-> "before"]
Over == [stage |-> "over"]
On(s, given) == [stage |-> "running", session |-> s, given |-> given]

TypeOK ==
  /\ memory \in [Session -> Seq(Request)]
  /\ turn \in [Request -> {Before, Over} \cup
                          [stage : {"running"}, session : Session, given : Seq(Request)]]
  /\ told \subseteq Request

Running(r) == turn[r].stage = "running"

Remembered(s, r) == \E i \in 1 .. Len(memory[s]) : memory[s][i] = r

Init ==
  /\ memory = [s \in Session |-> <<>>]
  /\ turn = [r \in Request |-> Before]
  /\ told = {}

\* A turn begins when no other runs in its session, with all that it remembers.
Start(r) ==
  /\ turn[r] = Before
  /\ \E s \in Session :
       /\ \A q \in Request : Running(q) => turn[q].session # s
       /\ turn' = [turn EXCEPT ![r] = On(s, memory[s])]
  /\ UNCHANGED <<memory, told>>

\* It takes effect on the memory it was given.
Remember(r) ==
  /\ Running(r)
  /\ LET s == turn[r].session
     IN  /\ turn[r].given = memory[s]
         /\ memory' = [memory EXCEPT ![s] = Append(@, r)]
  /\ turn' = [turn EXCEPT ![r] = Over]
  /\ UNCHANGED told

\* Refused, failed, a question back to the user; a crash ends several at once.
Stop(S) ==
  /\ turn' = [r \in Request |-> IF r \in S THEN Over ELSE turn[r]]
  /\ UNCHANGED <<memory, told>>

Tell(r) ==
  /\ \E s \in Session : Remembered(s, r)
  /\ told' = told \cup {r}
  /\ UNCHANGED <<memory, turn>>

Next ==
  \/ \E r \in Request : Start(r) \/ Remember(r) \/ Tell(r)
  \/ \E S \in SUBSET Request : Stop(S)

Spec == Init /\ [][Next]_vars
============================================================================
