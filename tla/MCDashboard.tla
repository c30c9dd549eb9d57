----------------------------- MODULE MCDashboard -----------------------------
(* Constants for checking Dashboard with TLC. *)
EXTENDS Dashboard

OneCapturer == <<"cpu">>
OneName == [c \in {"cpu"} |-> "CPU"]

\* config.json with two disk paths: two DISKCapturers.
TwoDisks == <<"disk1", "disk2">>
DiskNames == [c \in {"disk1", "disk2"} |-> "DISK"]

=============================================================================
