--------------------------- MODULE ResearchGraph ---------------------------
(***************************************************************************)
(* The research engine of one session, turn after turn: the graph of       *)
(* agents/graph.py (researcher -> analyst -> critic, back to the           *)
(* researcher while the critic is not satisfied, then the synthesizer),    *)
(* fed by conversation/merge.py from the last snapshot and persisted by it.*)
(*                                                                         *)
(* Texts are identified with what they are about: an analysis with the     *)
(* findings it covers, a critique with the findings it judged (both <<>>   *)
(* for an error notice), a synthesis with its turn and whether it notes    *)
(* limitations.  messages, errors, token_usage and constraints are left    *)
(* out: no decision of the graph reads them.                               *)
(***************************************************************************)
EXTENDS Integers, Sequences, FiniteSets, Routing

CONSTANTS
  Url,            \* where a tool's data comes from
  Gap,            \* gaps an LLM critic may name
  DefaultGap,     \* the critic node's own gap texts
  MaxIterations,  \* ResearchState.max_iterations
  MaxTurns,       \* bound: turns of the conversation
  NoText,         \* the empty string
  NoSnapshot

\* validate_graph_input admits 1 .. 5.
ASSUME ResearchAssumption ==
  /\ MaxIterations \in 1 .. 5
  /\ MaxTurns \in Nat
  /\ NoText \notin [turn : Nat, limits : BOOLEAN]

VARIABLES
  snapshot,  \* the session's latest state blob
  state,     \* ResearchState of the run
  node,      \* the node that runs next, "returned" after END, "idle" between turns
  turn,      \* number of the turn
  intent,    \* conversation_intent of the turn
  steps,     \* supersteps of the run
  answered   \* history: the non-empty syntheses persisted so far, in order

vars == <<snapshot, state, node, turn, intent, steps, answered>>

RecursionLimit == 25  \* supersteps LangGraph allows a run by default

----------------------------------------------------------------------------

Node == {"idle", "researcher", "analyst", "critic", "synthesizer", "returned"}

Finding == [url : Url, turn : Nat]
Source == [url : Url, turn : Nat]
Synthesis == [turn : Nat, limits : BOOLEAN]

ResearchState ==
  [accumulated_context : Seq(Synthesis), raw_findings : Seq(Finding),
   sources : SUBSET Source, analysis : Seq(Finding), critique : Seq(Finding),
   critique_pass : BOOLEAN, gaps : SUBSET (Gap \cup {DefaultGap}),
   synthesis : Synthesis \cup {NoText}, iteration_count : Nat]

ASSUME SnapshotAssumption == NoSnapshot \notin ResearchState

TypeOK ==
  /\ snapshot \in ResearchState \cup {NoSnapshot}
  /\ state \in ResearchState
  /\ node \in Node
  /\ turn \in Nat
  /\ intent \in Intent
  /\ steps \in Nat
  /\ answered \in Seq(Synthesis)

Empty ==
  [accumulated_context |-> <<>>, raw_findings |-> <<>>, sources |-> {},
   analysis |-> <<>>, critique |-> <<>>, critique_pass |-> FALSE, gaps |-> {},
   synthesis |-> NoText, iteration_count |-> 0]

\* snapshot or {}, with the defaults of merge_graph_continuation
Base == IF snapshot = NoSnapshot THEN Empty ELSE snapshot

Entry == PlanRoute(intent, Full, snapshot # NoSnapshot)
Light == Entry \in {"light_reformat", "light_meta"}

----------------------------------------------------------------------------
(* Helpers of the code *)

DedupeSourcesMutant(sources, source) ==   \* the lists are just concatenated
  sources \cup {source}

\* _dedupe_sources for the at most one source a researcher pass adds.  The
\* input of a run goes through it too: it has no doubled URL (FindingsCited).
DedupeSources(sources, source) ==
  IF \E s \in sources : s.url = source.url THEN sources ELSE sources \cup {source}

\* accumulated_context of the next run: the earlier answers and the last one
Context(snap) ==
  IF snap.synthesis = NoText THEN snap.accumulated_context
  ELSE Append(snap.accumulated_context, snap.synthesis)

BuildEngineInputMutantStale(i) ==   \* a new query keeps the old findings
  LET kept == IF i = "new_query"
                THEN [Empty EXCEPT !.raw_findings = Base.raw_findings] ELSE Base
  IN  [kept EXCEPT !.accumulated_context = Context(Base),
                   !.synthesis = Base.synthesis,
                   !.iteration_count = 0]

BuildEngineInputMutantContext(i) ==   \* the last answer is not added
  LET kept == IF i = "new_query" THEN Empty ELSE Base
  IN  [kept EXCEPT !.accumulated_context = Base.accumulated_context,
                   !.synthesis = Base.synthesis,
                   !.iteration_count = 0]

BuildEngineInputMutantLight(i) ==   \* only a refinement keeps the research
  LET kept == IF i = "refinement" THEN Base ELSE Empty
  IN  [kept EXCEPT !.accumulated_context = Context(Base),
                   !.synthesis = Base.synthesis,
                   !.iteration_count = 0]

BuildEngineInput(i) ==
  LET kept == IF i = "new_query" THEN Empty ELSE Base
  IN  [kept EXCEPT !.accumulated_context = Context(Base),
                   !.synthesis = Base.synthesis,
                   !.iteration_count = 0]

RouteAfterCriticMutant(s) ==   \* "<=": one round too many
  IF ~ s.critique_pass /\ s.iteration_count <= MaxIterations
    THEN "researcher" ELSE "synthesizer"

RouteAfterCritic(s) ==
  IF ~ s.critique_pass /\ s.iteration_count < MaxIterations
    THEN "researcher" ELSE "synthesizer"

----------------------------------------------------------------------------
(* A turn *)

\* The coordinator starts the graph the plan selects; a clarification does not.
Begin(i) ==
  /\ node = "idle"
  /\ turn < MaxTurns
  /\ turn' = turn + 1
  /\ intent' = i
  /\ state' = BuildEngineInput(i)
  /\ steps' = 0
  /\ LET plan == PlanRoute(i, Full, snapshot # NoSnapshot)
     IN  /\ plan # "clarify_only"
         /\ node' = IF plan = "full_graph" THEN "researcher" ELSE "synthesizer"
  /\ UNCHANGED <<snapshot, answered>>

\* A superstep; beyond the limit LangGraph raises instead (Lose).
Advance(from, to, s) ==
  /\ node = from
  /\ steps < RecursionLimit
  /\ node' = to
  /\ state' = s
  /\ steps' = steps + 1
  /\ UNCHANGED <<snapshot, turn, intent, answered>>

ResearcherFailsMutant ==   \* the failing paths do not count as a round
  Advance("researcher", "analyst", state)

\* Registry search or tool discovery fails, no tool fits, or every attempt fails.
ResearcherFails ==
  Advance("researcher", "analyst",
          [state EXCEPT !.iteration_count = @ + 1])

\* A tool answered: its data is a finding, and its URL a source.
ResearcherFinds(url) ==
  LET found == [url |-> url, turn |-> turn]
  IN  Advance("researcher", "analyst",
              [state EXCEPT !.iteration_count = @ + 1,
                            !.raw_findings = Append(@, found),
                            !.sources = DedupeSources(@, found)])

\* analysis is overwritten by the LLM's text about all findings, by an error
\* notice when the call fails, or by nothing when its output does not parse.
Analyst ==
  \E analysis \in {state.raw_findings, <<>>} :
    Advance("analyst", "critic", [state EXCEPT !.analysis = analysis])

CriticWrites(critique, pass, gaps) ==
  LET judged == [state EXCEPT !.critique = critique,
                              !.critique_pass = pass,
                              !.gaps = gaps]
  IN  Advance("critic", RouteAfterCritic(judged), judged)

CriticFailsMutant ==   \* the previous verdict stays
  CriticWrites(<<>>, state.critique_pass, {DefaultGap})

\* The LLM call fails or its output does not parse.
CriticFails == CriticWrites(<<>>, FALSE, {DefaultGap})

CriticJudgesMutant(pass, gaps) ==   \* no default gap
  CriticWrites(state.raw_findings, pass, gaps)

\* The critic's prompt carries the findings beside the analysis.
CriticJudges(pass, gaps) ==
  CriticWrites(state.raw_findings, pass,
               IF ~ pass /\ gaps = {} THEN {DefaultGap} ELSE gaps)

Synthesize(text) ==
  Advance("synthesizer", "returned", [state EXCEPT !.synthesis = text])

\* The LLM's text, which may speak of limitations by itself; if the verdict is
\* negative, they are appended to a text that does not.
SynthesizerWrites(own) ==
  Synthesize([turn |-> turn, limits |-> own \/ ~ state.critique_pass])

\* Structured output that does not parse counts as the empty text.
SynthesizerUnparsed ==
  Synthesize(IF state.critique_pass THEN NoText
             ELSE [turn |-> turn, limits |-> TRUE])

SynthesizerFails == Synthesize([turn |-> turn, limits |-> FALSE])

\* What a run held is gone after it.
EndRun ==
  /\ node' = "idle"
  /\ state' = Empty
  /\ steps' = 0
  /\ UNCHANGED <<turn, intent>>

\* state_blob_from_graph_result and save_snapshot
Persist ==
  /\ node = "returned"
  /\ snapshot' = state
  /\ answered' = IF state.synthesis = NoText THEN answered
                 ELSE Append(answered, state.synthesis)
  /\ EndRun

\* asyncio.wait_for cancels the graph between or inside nodes; what the run had
\* gathered goes with it.
TimeOut ==
  /\ node \in {"researcher", "analyst", "critic", "synthesizer"}
  /\ EndRun
  /\ UNCHANGED <<snapshot, answered>>

\* An exception of the run, a dying worker, or a store that fails after it: the
\* turn leaves no snapshot.
Lose ==
  /\ node # "idle"
  /\ EndRun
  /\ UNCHANGED <<snapshot, answered>>

----------------------------------------------------------------------------

Init ==
  /\ snapshot = NoSnapshot
  /\ state = Empty
  /\ node = "idle"
  /\ turn = 0
  /\ intent = "new_query"
  /\ steps = 0
  /\ answered = <<>>

Researcher == ResearcherFails \/ \E url \in Url : ResearcherFinds(url)

Critic ==
  CriticFails \/ \E pass \in BOOLEAN, gaps \in SUBSET Gap : CriticJudges(pass, gaps)

Synthesizer ==
  \/ \E own \in BOOLEAN : SynthesizerWrites(own)
  \/ SynthesizerUnparsed
  \/ SynthesizerFails

Run == Researcher \/ Analyst \/ Critic \/ Synthesizer \/ Persist

Next == (\E i \in Intent : Begin(i)) \/ Run \/ TimeOut \/ Lose

Spec == Init /\ [][Next]_vars

\* Every node's awaits are bounded by client timeouts, so the next superstep
\* comes; a timeout of the graph need not.
FairSpec == Spec /\ WF_vars(Run)

----------------------------------------------------------------------------
(* Properties *)

\* The critic loop never exceeds its budget, and with the largest budget that
\* validates it stays clear of LangGraph's recursion limit, which would end the
\* run with an exception instead of an answer.
LoopBounded ==
  /\ state.iteration_count <= MaxIterations
  /\ node \in {"researcher", "analyst", "critic", "synthesizer"} =>
       steps < RecursionLimit

\* A positive verdict that the synthesizer or a later turn relies on was given
\* on exactly the findings at hand: no failing critic, no new finding and no
\* other question leaves a stale one behind.
PassIsCurrent ==
  /\ node \in {"synthesizer", "returned"} /\ state.critique_pass =>
       state.critique = state.raw_findings
  /\ Base.critique_pass => Base.critique = Base.raw_findings

\* A loop back to the researcher always names what is missing (the refinement
\* prompt is used only if gaps is non-empty), and a negative verdict handed to
\* the synthesizer or to the next turn always says why.
RefusalNamesGaps ==
  /\ node = "researcher" /\ state.iteration_count > 0 => state.gaps # {}
  /\ node \in {"synthesizer", "returned"} /\ ~ state.critique_pass => state.gaps # {}

\* Each finding can be cited: its URL is among the sources exactly once, and no
\* source is left over from findings that were dropped.
FindingsCited ==
  \A s \in {state, Base} :
    /\ \A i \in 1 .. Len(s.raw_findings) :
         \E src \in s.sources : src.url = s.raw_findings[i].url
    /\ \A src \in s.sources :
         \E i \in 1 .. Len(s.raw_findings) : s.raw_findings[i] = src
    /\ \A p, q \in s.sources : p.url = q.url => p = q

\* A new question starts from nothing that was found for another one, and a
\* follow-up keeps everything that was found for the question it refines, in
\* whatever order turns fail, time out and succeed.
QuestionsKeptApart ==
  node # "idle" =>
    LET before == IF intent = "new_query" THEN <<>> ELSE Base.raw_findings
        now == state.raw_findings
    IN  /\ Len(before) <= Len(now)
        /\ \A i \in 1 .. Len(now) :
             IF i <= Len(before) THEN now[i] = before[i] ELSE now[i].turn = turn

\* The context handed to a run is the conversation so far: every non-empty
\* answer that was persisted, once, in order, and nothing from turns that failed.
ContextIsHistory ==
  /\ node # "idle" => state.accumulated_context = answered
  /\ Context(Base) = answered

\* A turn that only reformats or explains leaves the research it is about as it
\* was, down to the verdict.
LightKeepsResearch ==
  [][Persist /\ Light =>
       /\ snapshot'.raw_findings = snapshot.raw_findings
       /\ snapshot'.sources = snapshot.sources
       /\ snapshot'.analysis = snapshot.analysis
       /\ snapshot'.critique = snapshot.critique
       /\ snapshot'.critique_pass = snapshot.critique_pass
       /\ snapshot'.gaps = snapshot.gaps]_vars

\* Every run ends by itself, without its timeout: the critic cannot send the
\* researcher out for ever.
RunsEnd == node = "researcher" ~> node = "idle"
============================================================================
