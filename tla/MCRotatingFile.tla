--------------------------- MODULE MCRotatingFile ---------------------------
(* Constants for checking RotatingFile with TLC. *)
EXTENDS RotatingFile

AllFaults == {"open", "write", "stat", "rename"}

=============================================================================
