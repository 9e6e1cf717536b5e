--------------------------- MODULE MCToolRegistry ---------------------------
(***************************************************************************)
(* Values for checking ToolRegistry.tla with TLC.                          *)
(***************************************************************************)
EXTENDS ToolRegistry, TLC

CONSTANTS t1, t2

MCSeedList == <<t1, t2>>

\* Calls are alike until they are submitted.
MCSymmetry == Permutations(Request)
============================================================================
