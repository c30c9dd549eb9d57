--------------------------- MODULE MCAlertPipeline ---------------------------
(* Constants for checking AlertPipeline with TLC. *)
EXTENDS AlertPipeline

a(rule, key, severity) == [rule |-> rule, key |-> key, severity |-> severity]

\* Every evaluation finds two alerts with one key, and a minor one with another.
BusyRules == {<<a("cpu", "k1", "high"), a("mem", "k1", "high"), a("net", "k2", "low")>>}

=============================================================================
