------------------------------ MODULE ChangeFeed ------------------------------
(***************************************************************************)
(* What a capturer that reports changes promises whoever adds up its       *)
(* reports: after each report, what is known of every key is a value the   *)
(* host had while it was captured.  A report may mix values of different   *)
(* moments, since a capture reads one thing after the other, and changes   *)
(* that were undone in between may stay unknown.                           *)
(***************************************************************************)
CONSTANTS
  Keys,     \* what can be captured
  Values,   \* what a key can hold
  Gone,     \* the value of a key that is not there
  MayMiss   \* keys that may be overlooked: they are taken for gone

VARIABLES
  host,     \* what a reader would get at this moment
  recent,   \* what a reader could have got since it began, or reported
  known     \* what the reports add up to, Unknown before the first

Unknown == <<>>
vars == <<host, recent, known>>

Init ==
  /\ host \in [Keys -> Values]
  /\ recent = [k \in Keys |-> {host[k]}]
  /\ known = Unknown

Change ==
  /\ host' \in [Keys -> Values]
  /\ recent' = [k \in Keys |-> recent[k] \cup {host'[k]}]
  /\ UNCHANGED known

\* A capture begins: it reads nothing that was before.
Begin ==
  /\ recent' = [k \in Keys |-> {host[k]}]
  /\ UNCHANGED <<host, known>>

Overlook ==
  /\ \E missed \in SUBSET MayMiss :
       recent' = [k \in Keys |-> IF k \in missed THEN recent[k] \cup {Gone} ELSE recent[k]]
  /\ UNCHANGED <<host, known>>

Report ==
  /\ known' = <<known'[1]>> /\ known'[1] \in [Keys -> Values]
  /\ \A k \in Keys : known'[1][k] \in recent[k]
  /\ recent' = [k \in Keys |-> {host[k]}]
  /\ UNCHANGED host

Next == Change \/ Begin \/ Overlook \/ Report

Spec == Init /\ [][Next]_vars

=============================================================================
