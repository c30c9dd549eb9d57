----------------------------- MODULE MCEDRAgent -----------------------------
(* Constants for checking EDRAgent with TLC. *)
EXTENDS EDRAgent

Three == {"s1", "s2", "s3"}

=============================================================================
