----------------------- MODULE MCRegistryStatistics -----------------------
(* Values for checking RegistryStatistics.tla with TLC. *)
EXTENDS RegistryStatistics

CONSTANTS t1, t2, e1, e2, e3

\* Three old rows of one tool, so that percentiles fall between values.
MCEarlier ==
  {[id |-> e1, tool |-> t1, latency |-> 1, success |-> TRUE, at |-> 0],
   [id |-> e2, tool |-> t1, latency |-> 4, success |-> FALSE, at |-> 0],
   [id |-> e3, tool |-> t1, latency |-> 4, success |-> TRUE, at |-> 0]}

MCUsage == {[tool |-> t1, latency |-> 3, success |-> TRUE],
            [tool |-> t2, latency |-> 1, success |-> FALSE]}

\* No filter, one tool, a time range, both.
MCFilter == [tool : {AnyTool, t1}, since : {AnyTime, 1}]

\* Fetches are alike until they are sent.
MCSymmetry == Permutations(Fetch)
============================================================================
