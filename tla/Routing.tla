------------------------------ MODULE Routing ------------------------------
(***************************************************************************)
(* The pure decisions of a turn: what the intent classifier returns for a  *)
(* raw LLM verdict (conversation/intent.py) and which engine the plan      *)
(* selects (conversation/routing.py).                                      *)
(*                                                                         *)
(* A confidence is a step 0 .. Full of the interval 0.0 .. 1.0: 0 stands   *)
(* for 0.0, Full for 1.0, and Threshold for intent_confidence_threshold.   *)
(***************************************************************************)
EXTENDS Naturals

CONSTANTS Threshold, Full

ASSUME ConfidenceAssumption == Full \in Nat /\ Threshold \in 0 .. Full

Confidence == 0 .. Full

Intent == {"new_query", "refinement", "reformat", "meta_question",
           "needs_clarification"}

\* A raw verdict is what the structured LLM output carries; "other" is any
\* label outside the mapping table, which the classifier reads as new_query.
RawIntent == (Intent \ {"needs_clarification"}) \cup {"other"}
RawVerdict == [intent : RawIntent, conf : Confidence]
Verdict == [intent : Intent, conf : Confidence]

Classify(raw) ==
  [intent |-> IF raw.conf < Threshold THEN "needs_clarification"
              ELSE IF raw.intent = "other" THEN "new_query" ELSE raw.intent,
   conf   |-> raw.conf]

Mode == {"clarify_only", "light_reformat", "light_meta", "full_graph"}

PlanRoute(intent, conf, hasSnapshot) ==
  CASE conf < Threshold \/ intent = "needs_clarification" -> "clarify_only"
    [] conf >= Threshold /\ intent = "reformat" /\ hasSnapshot -> "light_reformat"
    [] conf >= Threshold /\ intent = "meta_question" /\ hasSnapshot -> "light_meta"
    [] OTHER -> "full_graph"
============================================================================
