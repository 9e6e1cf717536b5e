--------------------------- MODULE MCCoordinator ---------------------------
(***************************************************************************)
(* Values for checking Coordinator.tla with TLC.                           *)
(***************************************************************************)
EXTENDS CoordinatorProperties, TLC

\* One verdict per route: research, synthesizer only (when there is a
\* snapshot), and below the threshold with confidence 0.0.
MCVerdicts == {[intent |-> "new_query", conf |-> 2],
               [intent |-> "reformat", conf |-> 1],
               [intent |-> "refinement", conf |-> 0]}

\* Calls are alike until they are submitted, and so are workers.
MCSymmetry == Permutations(Request) \cup Permutations(Worker)
============================================================================
