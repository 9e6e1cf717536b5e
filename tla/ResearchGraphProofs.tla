------------------------ MODULE ResearchGraphProofs ------------------------
(***************************************************************************)
(* Proofs about ResearchGraph.tla, for every set of URLs and gaps, every   *)
(* budget from 1 to 5 rounds and any number of turns.                      *)
(*                                                                         *)
(* Every proof goes by the effect of an action on state and snapshot:      *)
(* Begin makes the state from the snapshot, a superstep (Advance) replaces *)
(* it, Persist makes it the snapshot, TimeOut and Lose drop it.            *)
(***************************************************************************)
EXTENDS ResearchGraph, TLAPS

USE DEF RecursionLimit

----------------------------------------------------------------------------
(* Types *)

LEMMA EmptyType == Empty \in ResearchState
BY DEF Empty, ResearchState

LEMMA BaseType ==
  ASSUME TypeOK
  PROVE  Base \in ResearchState
BY EmptyType DEF TypeOK, Base

LEMMA FieldTypes ==
  ASSUME NEW s \in ResearchState
  PROVE  /\ s.accumulated_context \in Seq(Synthesis)
         /\ s.raw_findings \in Seq(Finding)
         /\ s.sources \in SUBSET Source
         /\ s.critique_pass \in BOOLEAN
         /\ s.synthesis \in Synthesis \cup {NoText}
         /\ s.iteration_count \in Nat
         /\ s.iteration_count + 1 \in Nat
BY DEF ResearchState

LEMMA EngineInputType ==
  ASSUME TypeOK, NEW i \in Intent
  PROVE  BuildEngineInput(i) \in ResearchState
<1>1. Context(Base) \in Seq(Synthesis)
  BY BaseType, FieldTypes DEF Context
<1>2. PICK kept \in ResearchState : kept = IF i = "new_query" THEN Empty ELSE Base
  BY BaseType, EmptyType
<1>3. Base.synthesis \in Synthesis \cup {NoText}
  BY BaseType, FieldTypes
<1>4. [kept EXCEPT !.accumulated_context = Context(Base),
                   !.synthesis = Base.synthesis,
                   !.iteration_count = 0] \in ResearchState
  BY <1>1, <1>3 DEF ResearchState
<1>5. QED
  BY <1>2, <1>4 DEF BuildEngineInput

\* What a superstep writes is a ResearchState again.
LEMMA SuperstepType ==
  ASSUME TypeOK, Researcher \/ Analyst \/ Critic \/ Synthesizer
  PROVE  state' \in ResearchState /\ node' \in Node /\ steps' \in Nat
<1>a. state \in ResearchState /\ steps + 1 \in Nat
  BY DEF TypeOK
<1>b. ASSUME NEW s \in ResearchState, NEW from, NEW to \in Node, Advance(from, to, s)
      PROVE  state' \in ResearchState /\ node' \in Node /\ steps' \in Nat
  BY <1>a, <1>b DEF Advance
<1>1. CASE ResearcherFails
  <2>1. PICK n \in Nat : n = state.iteration_count + 1
    BY <1>a, FieldTypes
  <2>2. [state EXCEPT !.iteration_count = n] \in ResearchState
    BY <1>a DEF ResearchState
  <2>3. Advance("researcher", "analyst", [state EXCEPT !.iteration_count = n])
    BY <1>1, <2>1 DEF ResearcherFails
  <2>4. QED
    BY <1>b, <2>2, <2>3 DEF Node
<1>2. ASSUME NEW url \in Url, ResearcherFinds(url)
      PROVE  state' \in ResearchState /\ node' \in Node /\ steps' \in Nat
  <2> DEFINE found == [url |-> url, turn |-> turn]
  <2>1. found \in Finding /\ found \in Source
    BY DEF Finding, Source, TypeOK
  <2>f. PICK f \in Finding : f = found
    BY <2>1
  <2>2. PICK findings \in Seq(Finding) : findings = Append(state.raw_findings, found)
    <3>1. Append(state.raw_findings, f) \in Seq(Finding)
      BY <1>a, FieldTypes
    <3>2. QED
      BY <3>1, <2>f
  <2>3. PICK sources \in SUBSET Source : sources = DedupeSources(state.sources, found)
    BY <1>a, <2>1, FieldTypes DEF DedupeSources
  <2>4. PICK n \in Nat : n = state.iteration_count + 1
    BY <1>a, FieldTypes
  <2> DEFINE s == [state EXCEPT !.iteration_count = n, !.raw_findings = findings,
                                !.sources = sources]
  <2>5. s \in ResearchState
    BY <1>a DEF ResearchState
  <2>6. Advance("researcher", "analyst", s)
    BY <1>2, <2>2, <2>3, <2>4 DEF ResearcherFinds
  <2>7. QED
    BY <1>b, <2>5, <2>6 DEF Node
<1>3. CASE Analyst
  <2>1. PICK analysis \in Seq(Finding) :
          Advance("analyst", "critic", [state EXCEPT !.analysis = analysis])
    <3>1. {state.raw_findings, <<>>} \subseteq Seq(Finding)
      BY <1>a, FieldTypes
    <3>2. QED
      BY <1>3, <3>1 DEF Analyst
  <2>2. [state EXCEPT !.analysis = analysis] \in ResearchState
    BY <1>a DEF ResearchState
  <2>3. QED
    BY <1>b, <2>1, <2>2 DEF Node
<1>4. ASSUME NEW critique \in Seq(Finding), NEW pass \in BOOLEAN,
             NEW gaps \in SUBSET (Gap \cup {DefaultGap}),
             CriticWrites(critique, pass, gaps)
      PROVE  state' \in ResearchState /\ node' \in Node /\ steps' \in Nat
  <2> DEFINE judged == [state EXCEPT !.critique = critique, !.critique_pass = pass,
                                     !.gaps = gaps]
  <2>1. judged \in ResearchState
    BY <1>a DEF ResearchState
  <2>2. Advance("critic", RouteAfterCritic(judged), judged)
    BY <1>4 DEF CriticWrites
  <2>3. RouteAfterCritic(judged) \in Node
    BY DEF RouteAfterCritic, Node
  <2> HIDE DEF judged
  <2>4. QED
    BY <1>b, <2>1, <2>2, <2>3
<1>5. CASE CriticFails
  <2>1. <<>> \in Seq(Finding) /\ {DefaultGap} \in SUBSET (Gap \cup {DefaultGap})
    OBVIOUS
  <2>2. QED
    BY <1>4, <1>5, <2>1 DEF CriticFails
<1>6. ASSUME NEW pass \in BOOLEAN, NEW gaps \in SUBSET Gap, CriticJudges(pass, gaps)
      PROVE  state' \in ResearchState /\ node' \in Node /\ steps' \in Nat
  BY <1>4, <1>6, <1>a, FieldTypes DEF CriticJudges
<1>7. CASE Synthesizer
  <2>1. PICK text \in Synthesis \cup {NoText} : Synthesize(text)
    BY <1>7, <1>a, FieldTypes DEF Synthesizer, SynthesizerWrites, SynthesizerUnparsed,
                SynthesizerFails, Synthesis, TypeOK
  <2>2. [state EXCEPT !.synthesis = text] \in ResearchState
    BY <1>a DEF ResearchState
  <2>3. QED
    BY <1>b, <2>1, <2>2 DEF Synthesize, Node
<1>8. QED
  BY <1>1, <1>2, <1>3, <1>5, <1>6, <1>7 DEF Researcher, Critic

\* Only node, state and steps change in a superstep, and it starts at a node.
LEMMA SuperstepFrame ==
  ASSUME Researcher \/ Analyst \/ Critic \/ Synthesizer
  PROVE  /\ UNCHANGED <<snapshot, turn, intent, answered>>
         /\ node \in {"researcher", "analyst", "critic", "synthesizer"}
         /\ node' # "idle"
BY DEF Researcher, Analyst, Critic, Synthesizer, ResearcherFails, ResearcherFinds,
       CriticFails, CriticJudges, CriticWrites, RouteAfterCritic, SynthesizerWrites,
       SynthesizerUnparsed, SynthesizerFails, Synthesize, Advance

\* The engine's variables keep their types.
THEOREM TypeCorrect == Spec => []TypeOK
<1>1. Init => TypeOK
  BY EmptyType DEF Init, TypeOK, Node, Intent
<1>2. TypeOK /\ [Next]_vars => TypeOK'
  <2> SUFFICES ASSUME TypeOK, [Next]_vars PROVE TypeOK'
    OBVIOUS
  <2>1. ASSUME NEW i \in Intent, Begin(i) PROVE TypeOK'
    BY <2>1, EngineInputType DEF Begin, TypeOK, Node
  <2>2. CASE Researcher \/ Analyst \/ Critic \/ Synthesizer
    BY <2>2, SuperstepType, SuperstepFrame DEF TypeOK
  <2>3. CASE Persist
    <3>1. answered' \in Seq(Synthesis)
      BY <2>3 DEF Persist, TypeOK, ResearchState
    <3>2. QED
      BY <2>3, <3>1, EmptyType DEF Persist, EndRun, TypeOK, Node
  <2>4. CASE TimeOut \/ Lose
    BY <2>4, EmptyType DEF TimeOut, Lose, EndRun, TypeOK, Node
  <2>5. CASE UNCHANGED vars
    BY <2>5 DEF vars, TypeOK
  <2>6. QED
    BY <2>1, <2>2, <2>3, <2>4, <2>5 DEF Next, Run
<1>3. QED
  BY <1>1, <1>2, PTL DEF Spec

----------------------------------------------------------------------------
(* What each node changes, field by field *)

LEMMA ResearcherEffect ==
  ASSUME TypeOK, Researcher
  PROVE  /\ node = "researcher" /\ node' = "analyst" /\ steps' = steps + 1
         /\ state'.iteration_count = state.iteration_count + 1
         /\ state'.accumulated_context = state.accumulated_context
         /\ state'.analysis = state.analysis
         /\ state'.critique = state.critique
         /\ state'.critique_pass = state.critique_pass
         /\ state'.gaps = state.gaps
         /\ \/ /\ state'.raw_findings = state.raw_findings
               /\ state'.sources = state.sources
            \/ \E url \in Url :
                 LET found == [url |-> url, turn |-> turn]
                 IN  /\ state'.raw_findings = Append(state.raw_findings, found)
                     /\ state'.sources = DedupeSources(state.sources, found)
BY DEF Researcher, ResearcherFails, ResearcherFinds, Advance, TypeOK, ResearchState

LEMMA AnalystEffect ==
  ASSUME TypeOK, Analyst
  PROVE  /\ node = "analyst" /\ node' = "critic" /\ steps' = steps + 1
         /\ state'.iteration_count = state.iteration_count
         /\ state'.accumulated_context = state.accumulated_context
         /\ state'.raw_findings = state.raw_findings
         /\ state'.sources = state.sources
         /\ state'.critique = state.critique
         /\ state'.critique_pass = state.critique_pass
         /\ state'.gaps = state.gaps
BY DEF Analyst, Advance, TypeOK, ResearchState

LEMMA CriticWritesEffect ==
  ASSUME TypeOK, NEW critique, NEW pass, NEW gaps, CriticWrites(critique, pass, gaps)
  PROVE  /\ node = "critic" /\ steps' = steps + 1
         /\ node' = IF ~ pass /\ state.iteration_count < MaxIterations
                      THEN "researcher" ELSE "synthesizer"
         /\ state'.iteration_count = state.iteration_count
         /\ state'.accumulated_context = state.accumulated_context
         /\ state'.raw_findings = state.raw_findings
         /\ state'.sources = state.sources
         /\ state'.critique = critique
         /\ state'.critique_pass = pass
         /\ state'.gaps = gaps
BY DEF CriticWrites, RouteAfterCritic, Advance, TypeOK, ResearchState

LEMMA CriticEffect ==
  ASSUME TypeOK, Critic
  PROVE  /\ node = "critic" /\ steps' = steps + 1
         /\ node' = IF ~ state'.critique_pass /\ state.iteration_count < MaxIterations
                      THEN "researcher" ELSE "synthesizer"
         /\ state'.iteration_count = state.iteration_count
         /\ state'.accumulated_context = state.accumulated_context
         /\ state'.raw_findings = state.raw_findings
         /\ state'.sources = state.sources
         /\ state'.critique_pass \in BOOLEAN
         /\ state'.critique_pass => state'.critique = state.raw_findings
         /\ ~ state'.critique_pass => state'.gaps # {}
<1>1. CASE CriticFails
  <2>1. CriticWrites(<<>>, FALSE, {DefaultGap})
    BY <1>1 DEF CriticFails
  <2>2. state'.critique_pass = FALSE /\ state'.gaps = {DefaultGap}
    BY <2>1, CriticWritesEffect, Zenon
  <2>3. QED
    BY <2>1, <2>2, CriticWritesEffect
<1>2. ASSUME NEW pass \in BOOLEAN, NEW gaps \in SUBSET Gap, CriticJudges(pass, gaps)
      PROVE  /\ state'.critique_pass = pass
             /\ state'.critique = state.raw_findings
             /\ ~ pass => state'.gaps # {}
             /\ CriticWrites(state.raw_findings, pass,
                             IF ~ pass /\ gaps = {} THEN {DefaultGap} ELSE gaps)
  BY <1>2, CriticWritesEffect DEF CriticJudges
<1>3. QED
  BY <1>1, <1>2, CriticWritesEffect DEF Critic

LEMMA SynthesizerEffect ==
  ASSUME TypeOK, Synthesizer
  PROVE  /\ node = "synthesizer" /\ node' = "returned" /\ steps' = steps + 1
         /\ state'.iteration_count = state.iteration_count
         /\ state'.accumulated_context = state.accumulated_context
         /\ state'.raw_findings = state.raw_findings
         /\ state'.sources = state.sources
         /\ state'.analysis = state.analysis
         /\ state'.critique = state.critique
         /\ state'.critique_pass = state.critique_pass
         /\ state'.gaps = state.gaps
BY DEF Synthesizer, SynthesizerWrites, SynthesizerUnparsed, SynthesizerFails,
       Synthesize, Advance, TypeOK, ResearchState

LEMMA BeginEffect ==
  ASSUME TypeOK, NEW i \in Intent, Begin(i)
  PROVE  /\ node = "idle" /\ node' \in {"researcher", "synthesizer"} /\ steps' = 0
         /\ intent' = i /\ turn' = turn + 1
         /\ UNCHANGED <<snapshot, answered>> /\ Base' = Base
         /\ state'.iteration_count = 0
         /\ state'.accumulated_context = Context(Base)
         /\ LET kept == IF i = "new_query" THEN Empty ELSE Base
            IN  /\ state'.raw_findings = kept.raw_findings
                /\ state'.sources = kept.sources
                /\ state'.analysis = kept.analysis
                /\ state'.critique = kept.critique
                /\ state'.critique_pass = kept.critique_pass
                /\ state'.gaps = kept.gaps
         /\ node' = "synthesizer" => snapshot # NoSnapshot /\ i # "new_query"
BY BaseType, EmptyType
   DEF Begin, BuildEngineInput, ResearchState, PlanRoute, Base

LEMMA PersistEffect ==
  ASSUME Persist
  PROVE  /\ node = "returned" /\ node' = "idle" /\ state' = Empty /\ steps' = 0
         /\ UNCHANGED <<turn, intent>>
         /\ snapshot' = state
         /\ answered' = IF state.synthesis = NoText THEN answered
                        ELSE Append(answered, state.synthesis)
BY DEF Persist, EndRun

LEMMA DropEffect ==
  ASSUME TimeOut \/ Lose
  PROVE  /\ node' = "idle" /\ state' = Empty /\ steps' = 0
         /\ UNCHANGED <<snapshot, answered, turn, intent>> /\ Base' = Base
BY DEF TimeOut, Lose, EndRun, Base

\* The snapshot stands still in every superstep.
LEMMA SuperstepBase ==
  ASSUME Researcher \/ Analyst \/ Critic \/ Synthesizer
  PROVE  Base' = Base
BY SuperstepFrame DEF Base

----------------------------------------------------------------------------
(* The loop *)

\* Which superstep a run is in follows from its round: three supersteps a round.
LoopInv ==
  /\ state.iteration_count <= MaxIterations
  /\ node = "idle" => state.iteration_count = 0
  /\ node = "researcher" =>
       state.iteration_count < MaxIterations /\ steps = 3 * state.iteration_count
  /\ node = "analyst" => steps + 2 = 3 * state.iteration_count
  /\ node = "critic" => steps + 1 = 3 * state.iteration_count
  /\ node = "synthesizer" => steps = 3 * state.iteration_count

THEOREM LoopInvariant == Spec => []LoopInv
<1>1. Init => LoopInv
  BY ResearchAssumption DEF Init, LoopInv, Empty
<1>2. TypeOK /\ TypeOK' /\ LoopInv /\ [Next]_vars => LoopInv'
  <2> SUFFICES ASSUME TypeOK, TypeOK', LoopInv, [Next]_vars PROVE LoopInv'
    OBVIOUS
  <2> USE ResearchAssumption DEF LoopInv
  <2>t. /\ state.iteration_count \in Nat /\ state'.iteration_count \in Nat
        /\ steps \in Nat /\ MaxIterations \in 1 .. 5
    BY DEF TypeOK, ResearchState
  <2>1. ASSUME NEW i \in Intent, Begin(i) PROVE LoopInv'
    BY <2>1, <2>t, BeginEffect
  <2>2. CASE Researcher
    BY <2>2, <2>t, ResearcherEffect
  <2>3. CASE Analyst
    BY <2>3, <2>t, AnalystEffect
  <2>4. CASE Critic
    BY <2>4, <2>t, CriticEffect
  <2>5. CASE Synthesizer
    BY <2>5, <2>t, SynthesizerEffect
  <2>6. CASE Persist \/ TimeOut \/ Lose
    BY <2>6, <2>t, PersistEffect, DropEffect DEF Empty
  <2>7. CASE UNCHANGED vars
    BY <2>7 DEF vars
  <2>8. QED
    BY <2>1, <2>2, <2>3, <2>4, <2>5, <2>6, <2>7 DEF Next, Run
<1>3. QED
  BY <1>1, <1>2, TypeCorrect, PTL DEF Spec

\* With any budget that validates, a run keeps its budget and never meets
\* LangGraph's recursion limit.
THEOREM LoopBoundedAlways == Spec => []LoopBounded
<1>1. TypeOK /\ LoopInv => LoopBounded
  BY ResearchAssumption DEF TypeOK, ResearchState, LoopInv, LoopBounded
<1>2. QED
  BY <1>1, TypeCorrect, LoopInvariant, PTL

----------------------------------------------------------------------------
(* Verdict and gaps *)

\* The verdict of the state counts only once the critic of the run has spoken,
\* or if no critic runs; a stored one must always be right.
VerdictInv ==
  /\ PassIsCurrent
  /\ node = "researcher" /\ state.iteration_count > 0 => state.gaps # {}
  /\ node \in {"synthesizer", "returned"} /\ ~ state.critique_pass => state.gaps # {}
  /\ snapshot # NoSnapshot /\ ~ snapshot.critique_pass => snapshot.gaps # {}

THEOREM VerdictInvariant == Spec => []VerdictInv
<1>1. Init => VerdictInv
  BY DEF Init, VerdictInv, PassIsCurrent, Base, Empty
<1>2. TypeOK /\ VerdictInv /\ [Next]_vars => VerdictInv'
  <2> SUFFICES ASSUME TypeOK, VerdictInv, [Next]_vars PROVE VerdictInv'
    OBVIOUS
  <2> USE DEF VerdictInv, PassIsCurrent
  <2>1. ASSUME NEW i \in Intent, Begin(i) PROVE VerdictInv'
    <3>1. node' = "synthesizer" => i # "new_query" /\ Base = snapshot
      BY <2>1, BeginEffect DEF Base
    <3>2. QED
      BY <2>1, <3>1, BeginEffect
  <2>2. CASE Researcher
    BY <2>2, ResearcherEffect, SuperstepFrame, SuperstepBase
  <2>3. CASE Analyst
    BY <2>3, AnalystEffect, SuperstepFrame, SuperstepBase
  <2>4. CASE Critic
    BY <2>4, CriticEffect, SuperstepFrame, SuperstepBase
  <2>5. CASE Synthesizer
    BY <2>5, SynthesizerEffect, SuperstepFrame, SuperstepBase
  <2>6. CASE Persist
    <3>1. Base' = state /\ snapshot' # NoSnapshot
      BY <2>6, PersistEffect, SnapshotAssumption DEF TypeOK, Base
    <3>2. QED
      BY <2>6, <3>1, PersistEffect DEF Empty
  <2>7. CASE TimeOut \/ Lose
    BY <2>7, DropEffect DEF Empty
  <2>8. CASE UNCHANGED vars
    BY <2>8 DEF vars, Base
  <2>9. QED
    BY <2>1, <2>2, <2>3, <2>4, <2>5, <2>6, <2>7, <2>8 DEF Next, Run
<1>3. QED
  BY <1>1, <1>2, TypeCorrect, PTL DEF Spec

\* No stale positive verdict reaches the synthesizer or a later turn.
THEOREM PassIsCurrentAlways == Spec => []PassIsCurrent
<1>1. VerdictInv => PassIsCurrent
  BY DEF VerdictInv
<1>2. QED
  BY <1>1, VerdictInvariant, PTL

\* Every loop back and every negative verdict names a gap.
THEOREM RefusalNamesGapsAlways == Spec => []RefusalNamesGaps
<1>1. VerdictInv => RefusalNamesGaps
  BY DEF VerdictInv, RefusalNamesGaps
<1>2. QED
  BY <1>1, VerdictInvariant, PTL

----------------------------------------------------------------------------
(* Context *)

\* The context of a run is the conversation persisted before it.
THEOREM ContextIsHistoryAlways == Spec => []ContextIsHistory
<1>1. Init => ContextIsHistory
  BY DEF Init, ContextIsHistory, Context, Base, Empty
<1>2. TypeOK /\ ContextIsHistory /\ [Next]_vars => ContextIsHistory'
  <2> SUFFICES ASSUME TypeOK, ContextIsHistory, [Next]_vars PROVE ContextIsHistory'
    OBVIOUS
  <2>f. Base' = Base => Context(Base)' = Context(Base)
    BY DEF Context
  <2> USE DEF ContextIsHistory
  <2>1. ASSUME NEW i \in Intent, Begin(i) PROVE ContextIsHistory'
    BY <2>1, <2>f, BeginEffect
  <2>2. CASE Researcher \/ Analyst \/ Critic \/ Synthesizer
    BY <2>2, <2>f, ResearcherEffect, AnalystEffect, CriticEffect, SynthesizerEffect,
       SuperstepFrame, SuperstepBase
  <2>3. CASE Persist
    <3>1. Base' = state
      BY <2>3, PersistEffect, SnapshotAssumption DEF TypeOK, Base
    <3>2. Context(Base)' = answered'
      BY <2>3, <3>1, PersistEffect DEF Context
    <3>3. QED
      BY <2>3, <3>2, PersistEffect
  <2>4. CASE TimeOut \/ Lose
    BY <2>4, <2>f, DropEffect
  <2>5. CASE UNCHANGED vars
    BY <2>5 DEF vars, Base, Context
  <2>6. QED
    BY <2>1, <2>2, <2>3, <2>4, <2>5 DEF Next, Run
<1>3. QED
  BY <1>1, <1>2, TypeCorrect, PTL DEF Spec

----------------------------------------------------------------------------
(* Findings and sources *)

\* The findings and the sources of one state fit together.
Cited(findings, sources) ==
  /\ \A i \in 1 .. Len(findings) : \E src \in sources : src.url = findings[i].url
  /\ \A src \in sources : \E i \in 1 .. Len(findings) : findings[i] = src
  /\ \A p, q \in sources : p.url = q.url => p = q

\* Adding a finding and its source keeps them fitting.
LEMMA CitedAppend ==
  ASSUME NEW findings \in Seq(Finding), NEW sources \in SUBSET Source,
         NEW found \in Finding, Cited(findings, sources)
  PROVE  Cited(Append(findings, found), DedupeSources(sources, found))
<1> DEFINE more == Append(findings, found)
           srcs == DedupeSources(sources, found)
<1>1. /\ Len(more) = Len(findings) + 1
      /\ more[Len(findings) + 1] = found
      /\ \A i \in 1 .. Len(findings) : more[i] = findings[i]
  OBVIOUS
<1>2. Len(findings) \in Nat
  OBVIOUS
<1>3. sources \subseteq srcs
  BY DEF DedupeSources
<1>4. \E src \in srcs : src.url = found.url
  BY DEF DedupeSources
<1>5. \A src \in srcs : src \in sources \/ src = found
  BY DEF DedupeSources
<1>6. \A p, q \in srcs : p.url = q.url => p = q
  BY DEF DedupeSources, Cited
<1> HIDE DEF more, srcs
<1>7. ASSUME NEW i \in 1 .. Len(more)
      PROVE  \E src \in srcs : src.url = more[i].url
  <2>1. CASE i = Len(findings) + 1
    BY <2>1, <1>1, <1>4
  <2>2. CASE i \in 1 .. Len(findings)
    BY <2>2, <1>1, <1>3 DEF Cited
  <2>3. QED
    BY <2>1, <2>2, <1>1, <1>2
<1>8. ASSUME NEW src \in srcs
      PROVE  \E i \in 1 .. Len(more) : more[i] = src
  <2>1. CASE src = found
    BY <2>1, <1>1, <1>2
  <2>2. CASE src \in sources
    <3>1. PICK i \in 1 .. Len(findings) : findings[i] = src
      BY <2>2 DEF Cited
    <3>2. i \in 1 .. Len(more) /\ more[i] = src
      BY <3>1, <1>1, <1>2
    <3>3. QED
      BY <3>2
  <2>3. QED
    BY <2>1, <2>2, <1>5
<1>9. QED
  BY <1>6, <1>7, <1>8 DEF Cited, more, srcs

LEMMA EmptyCited == Cited(Empty.raw_findings, Empty.sources)
BY DEF Cited, Empty

CitedInv ==
  /\ Cited(state.raw_findings, state.sources)
  /\ Cited(Base.raw_findings, Base.sources)

THEOREM CitedInvariant == Spec => []CitedInv
<1>1. Init => CitedInv
  BY EmptyCited DEF Init, CitedInv, Base
<1>2. TypeOK /\ CitedInv /\ [Next]_vars => CitedInv'
  <2> SUFFICES ASSUME TypeOK, CitedInv, [Next]_vars PROVE CitedInv'
    OBVIOUS
  <2> USE DEF CitedInv
  <2>1. ASSUME NEW i \in Intent, Begin(i) PROVE CitedInv'
    BY <2>1, BeginEffect, EmptyCited
  <2>2. CASE Researcher
    <3>1. CASE state'.raw_findings = state.raw_findings /\ state'.sources = state.sources
      BY <2>2, <3>1, SuperstepBase
    <3>2. ASSUME NEW url \in Url,
                 state'.raw_findings = Append(state.raw_findings, [url |-> url, turn |-> turn]),
                 state'.sources = DedupeSources(state.sources, [url |-> url, turn |-> turn])
          PROVE  CitedInv'
      <4>1. [url |-> url, turn |-> turn] \in Finding
        BY DEF Finding, TypeOK
      <4>2. state.raw_findings \in Seq(Finding) /\ state.sources \in SUBSET Source
        BY FieldTypes DEF TypeOK
      <4>3. Cited(state'.raw_findings, state'.sources)
        BY <3>2, <4>1, <4>2, CitedAppend
      <4>4. QED
        BY <2>2, <4>3, SuperstepBase
    <3>3. QED
      BY <2>2, <3>1, <3>2, ResearcherEffect
  <2>3. CASE Analyst \/ Critic \/ Synthesizer
    BY <2>3, AnalystEffect, CriticEffect, SynthesizerEffect, SuperstepBase
  <2>4. CASE Persist
    <3>1. Base' = state
      BY <2>4, PersistEffect, SnapshotAssumption DEF TypeOK, Base
    <3>2. QED
      BY <2>4, <3>1, PersistEffect, EmptyCited
  <2>5. CASE TimeOut \/ Lose
    BY <2>5, DropEffect, EmptyCited
  <2>6. CASE UNCHANGED vars
    BY <2>6 DEF vars, Base
  <2>7. QED
    BY <2>1, <2>2, <2>3, <2>4, <2>5, <2>6 DEF Next, Run
<1>3. QED
  BY <1>1, <1>2, TypeCorrect, PTL DEF Spec

\* Every finding's URL is cited exactly once, in the run and in the snapshot.
THEOREM FindingsCitedAlways == Spec => []FindingsCited
<1>1. CitedInv => FindingsCited
  BY DEF CitedInv, FindingsCited, Cited
<1>2. QED
  BY <1>1, CitedInvariant, PTL

\* Questions are kept apart: proved directly, as it is inductive.
THEOREM QuestionsKeptApartAlways == Spec => []QuestionsKeptApart
<1>1. Init => QuestionsKeptApart
  BY DEF Init, QuestionsKeptApart
<1>2. TypeOK /\ QuestionsKeptApart /\ [Next]_vars => QuestionsKeptApart'
  <2> SUFFICES ASSUME TypeOK, QuestionsKeptApart, [Next]_vars
               PROVE  QuestionsKeptApart'
    OBVIOUS
  <2> DEFINE before == IF intent = "new_query" THEN <<>> ELSE Base.raw_findings
  <2>t. /\ state.raw_findings \in Seq(Finding)
        /\ Base.raw_findings \in Seq(Finding)
    BY BaseType, FieldTypes DEF TypeOK
  <2>1. ASSUME NEW i \in Intent, Begin(i) PROVE QuestionsKeptApart'
    <3>1. state'.raw_findings = IF i = "new_query" THEN <<>> ELSE Base.raw_findings
      BY <2>1, BeginEffect DEF Empty
    <3>2. QED
      BY <2>1, <2>t, <3>1, BeginEffect DEF QuestionsKeptApart
  <2>2. CASE Researcher
    <3>1. intent' = intent /\ turn' = turn /\ Base' = Base /\ node # "idle"
      BY <2>2, SuperstepFrame, SuperstepBase
    <3>2. CASE state'.raw_findings = state.raw_findings
      BY <3>1, <3>2 DEF QuestionsKeptApart
    <3>3. ASSUME NEW url \in Url,
                 state'.raw_findings = Append(state.raw_findings, [url |-> url, turn |-> turn])
          PROVE  QuestionsKeptApart'
      <4> DEFINE now == state.raw_findings
                 found == [url |-> url, turn |-> turn]
      <4>1. /\ Len(Append(now, found)) = Len(now) + 1
            /\ Append(now, found)[Len(now) + 1] = found
            /\ \A k \in 1 .. Len(now) : Append(now, found)[k] = now[k]
        BY <2>t
      <4>2. Len(now) \in Nat /\ Len(before) \in Nat /\ Len(before) <= Len(now)
        BY <2>t, <3>1 DEF QuestionsKeptApart
      <4>3. \A k \in 1 .. Len(now) + 1 :
              IF k <= Len(before) THEN Append(now, found)[k] = before[k]
              ELSE Append(now, found)[k].turn = turn
        <5>1. \A k \in 1 .. Len(now) :
                IF k <= Len(before) THEN now[k] = before[k] ELSE now[k].turn = turn
          BY <3>1 DEF QuestionsKeptApart
        <5>2. found.turn = turn
          OBVIOUS
        <5> HIDE DEF now, before, found
        <5>3. QED
          BY <4>1, <4>2, <5>1, <5>2
      <4>4. QED
        BY <3>1, <3>3, <4>1, <4>2, <4>3 DEF QuestionsKeptApart
    <3>4. QED
      BY <2>2, <3>2, <3>3, ResearcherEffect
  <2>3. CASE Analyst \/ Critic \/ Synthesizer
    <3>1. /\ intent' = intent /\ turn' = turn /\ Base' = Base /\ node # "idle"
          /\ state'.raw_findings = state.raw_findings
      BY <2>3, SuperstepFrame, SuperstepBase, AnalystEffect, CriticEffect, SynthesizerEffect
    <3>2. QED
      BY <3>1 DEF QuestionsKeptApart
  <2>4. CASE Persist \/ TimeOut \/ Lose
    BY <2>4, PersistEffect, DropEffect DEF QuestionsKeptApart
  <2>5. CASE UNCHANGED vars
    BY <2>5 DEF vars, Base, QuestionsKeptApart
  <2>6. QED
    BY <2>1, <2>2, <2>3, <2>4, <2>5 DEF Next, Run
<1>3. QED
  BY <1>1, <1>2, TypeCorrect, PTL DEF Spec

----------------------------------------------------------------------------
(* Light turns *)

\* A light run is at the synthesizer from its first step and holds the research
\* of the snapshot.
SameResearch(s, t) ==
  /\ s.raw_findings = t.raw_findings /\ s.sources = t.sources
  /\ s.analysis = t.analysis /\ s.critique = t.critique
  /\ s.critique_pass = t.critique_pass /\ s.gaps = t.gaps

LightInv ==
  node # "idle" /\ Light =>
    /\ node \in {"synthesizer", "returned"}
    /\ SameResearch(state, snapshot)

THEOREM LightInvariant == Spec => []LightInv
<1>1. Init => LightInv
  BY DEF Init, LightInv
<1>2. TypeOK /\ LightInv /\ [Next]_vars => LightInv'
  <2> SUFFICES ASSUME TypeOK, LightInv, [Next]_vars PROVE LightInv'
    OBVIOUS
  <2> USE DEF LightInv
  <2>f. UNCHANGED <<intent, snapshot>> => Light' = Light
    BY DEF Light, Entry
  <2>1. ASSUME NEW i \in Intent, Begin(i) PROVE LightInv'
    <3>1. Light' => node' = "synthesizer"
      BY <2>1 DEF Begin, Light, Entry
    <3>2. node' = "synthesizer" => Base = snapshot /\ i # "new_query"
      BY <2>1, BeginEffect DEF Base
    <3>3. QED
      BY <2>1, <3>1, <3>2, BeginEffect DEF SameResearch
  <2>2. CASE Researcher \/ Analyst \/ Critic
    BY <2>2, <2>f, ResearcherEffect, AnalystEffect, CriticEffect, SuperstepFrame
  <2>3. CASE Synthesizer
    BY <2>3, <2>f, SynthesizerEffect, SuperstepFrame DEF SameResearch
  <2>4. CASE Persist \/ TimeOut \/ Lose
    BY <2>4, PersistEffect, DropEffect
  <2>5. CASE UNCHANGED vars
    BY <2>5 DEF vars, Light, Entry
  <2>6. QED
    BY <2>1, <2>2, <2>3, <2>4, <2>5 DEF Next, Run
<1>3. QED
  BY <1>1, <1>2, TypeCorrect, PTL DEF Spec

\* A light turn persists the research it was given.
THEOREM LightKeepsResearchAlways == Spec => LightKeepsResearch
<1>1. LightInv /\ [Next]_vars =>
        [Persist /\ Light =>
           /\ snapshot'.raw_findings = snapshot.raw_findings
           /\ snapshot'.sources = snapshot.sources
           /\ snapshot'.analysis = snapshot.analysis
           /\ snapshot'.critique = snapshot.critique
           /\ snapshot'.critique_pass = snapshot.critique_pass
           /\ snapshot'.gaps = snapshot.gaps]_vars
  BY PersistEffect DEF LightInv, SameResearch
<1>2. QED
  BY <1>1, LightInvariant, PTL DEF Spec, LightKeepsResearch
============================================================================
