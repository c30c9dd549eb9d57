----------------------------- MODULE MCCapturers -----------------------------
(* Constants for checking Capturers with TLC. *)
EXTENDS Capturers

SomePids == <<"p1", "p2", "p3">>
SomeFiles == <<"a.sh", "b.txt", "root", "c.sh">>
SomeSources == <<{"cron"}, {"unit1", "unit2"}>>

\* A walk over four paths is long enough for two changes.
SomeChanges == [n \in Names |-> IF n = "FILECHANGE" THEN 2 ELSE 3]

=============================================================================
