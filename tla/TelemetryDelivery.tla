-------------------------- MODULE TelemetryDelivery --------------------------
(***************************************************************************)
(* What the collect agent promises about telemetry, whatever its queue,    *)
(* goroutines and locks do: while a call of Run is active, captured items  *)
(* are handed to the sinks one whole item at a time, each at most once;    *)
(* nothing is captured or handed over while no call of Run is active.      *)
(* CollectAgent is shown to implement this specification.                  *)
(***************************************************************************)
EXTENDS Sequences

CONSTANT Items          \* every item any capturer may ever produce

VARIABLES
  active,               \* a call of Run is in progress
  captured,             \* the items captured so far
  delivered             \* the items handed to every sink, in hand-over order

vars == <<active, captured, delivered>>

DeliveredItems == {delivered[i] : i \in DOMAIN delivered}

Init ==
  /\ active = FALSE
  /\ captured = {}
  /\ delivered = <<>>

Start ==
  /\ ~active
  /\ active' = TRUE
  /\ UNCHANGED <<captured, delivered>>

Capture(x) ==
  /\ active
  /\ x \notin captured
  /\ captured' = captured \cup {x}
  /\ UNCHANGED <<active, delivered>>

Deliver(x) ==
  /\ active
  /\ x \in captured \ DeliveredItems
  /\ delivered' = Append(delivered, x)
  /\ UNCHANGED <<active, captured>>

Stop ==
  /\ active
  /\ active' = FALSE
  /\ UNCHANGED <<captured, delivered>>

Next ==
  \/ Start
  \/ Stop
  \/ \E x \in Items : Capture(x) \/ Deliver(x)

Spec == Init /\ [][Next]_vars

=============================================================================
