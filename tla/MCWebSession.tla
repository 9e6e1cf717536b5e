---------------------------- MODULE MCWebSession ----------------------------
(***************************************************************************)
(* Values for checking WebSession.tla with TLC.                            *)
(***************************************************************************)
EXTENDS WebSession, TLC

\* No definition tells two tabs, two sessions or two principals apart.
MCSymmetry == Permutations(Tab) \cup Permutations(Session) \cup Permutations(Principal)
============================================================================
