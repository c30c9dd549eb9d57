--------------------------- MODULE MCCollectAgent ---------------------------
(* Constants for checking CollectAgent with TLC. *)
EXTENDS CollectAgent, TLC

CONSTANTS s1, s2          \* two schedules

OneSink == <<"JSONFileSink">>
TwoSinks == <<"JSONFileSink", "OtherSink">>

Symmetry == Permutations({s1, s2})

=============================================================================
