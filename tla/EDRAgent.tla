------------------------------ MODULE EDRAgent ------------------------------
(***************************************************************************)
(* EDRAgent.Run (src/agent.go): one goroutine per schedule captures at its *)
(* interval; one that fails sends its error into errCh and cancels the     *)
(* context, which makes the others send ctx.Err() too.  A goroutine closes *)
(* errCh when all are done.  Run returns the first error it receives and   *)
(* does not wait for the goroutines.                                       *)
(*                                                                         *)
(* Capture, GetInfo and GetVerboseInfo are one step that succeeds or       *)
(* fails; intervals are left out: a ticker may fire at any time.           *)
(***************************************************************************)
EXTENDS Naturals, Sequences, FiniteSets

CONSTANTS
  Schedules,     \* a.Schedules
  MaxCaptures    \* bound: captures per schedule

ASSUME SchedulesAssumption ==
  IsFiniteSet(Schedules) /\ Schedules # {}
ASSUME BoundAssumption == MaxCaptures \in Nat

\* What runSchedule returns, what errCh carries and what Run returns.
Kinds == {"capture", "ctx"}
Running == "running"
Nothing == "nil"

VARIABLES
  pc,         \* where each schedule's goroutine is
  captures,   \* captures per schedule, for the bound
  failure,    \* the error a goroutine is about to send
  errCh,      \* the kinds of the errors sent and not received
  closed,     \* errCh is closed
  cancelled,  \* cancel() was called
  parentDone, \* the caller's context is done
  ctxErr,     \* Run has seen ctx.Done()
  returned    \* Running, or what Run returned

vars == <<pc, captures, failure, errCh, closed, cancelled, parentDone, ctxErr, returned>>

Init ==
  /\ pc = [s \in Schedules |-> "capture"]
  /\ captures = [s \in Schedules |-> 0]
  /\ failure = [s \in Schedules |-> Nothing]
  /\ errCh = <<>>
  /\ closed = FALSE
  /\ cancelled = FALSE
  /\ parentDone = FALSE
  /\ ctxErr = FALSE
  /\ returned = Running

\* Mutant: the context is not derived from the caller's.
CtxDone_OwnOnly == cancelled

\* The goroutines watch a context derived from the caller's.
CtxDone == parentDone \/ cancelled

(* The schedules' goroutines ---------------------------------------------- *)

Fail(s, kind) ==
  /\ pc' = [pc EXCEPT ![s] = "send"]
  /\ failure' = [failure EXCEPT ![s] = kind]

\* A schedule without a capturer fails like this too, at once.
CaptureFails(s) ==
  /\ pc[s] = "capture"
  /\ captures' = [captures EXCEPT ![s] = IF @ < MaxCaptures THEN @ + 1 ELSE @]
  /\ Fail(s, "capture")
  /\ UNCHANGED <<errCh, closed, cancelled, parentDone, ctxErr, returned>>

CaptureSucceeds(s) ==
  /\ pc[s] = "capture"
  /\ captures' = [captures EXCEPT ![s] = IF @ < MaxCaptures THEN @ + 1 ELSE @]
  /\ pc' = [pc EXCEPT ![s] = "select"]
  /\ UNCHANGED <<failure, errCh, closed, cancelled, parentDone, ctxErr, returned>>

Tick(s) ==
  /\ pc[s] = "select" /\ captures[s] < MaxCaptures
  /\ pc' = [pc EXCEPT ![s] = "capture"]
  /\ UNCHANGED <<captures, failure, errCh, closed, cancelled, parentDone, ctxErr, returned>>

SeesDone(s) ==
  /\ pc[s] = "select" /\ CtxDone
  /\ Fail(s, "ctx")
  /\ UNCHANGED <<captures, errCh, closed, cancelled, parentDone, ctxErr, returned>>

\* Mutant: room for one error, the one Run returns.
Capacity_One == 1

\* make(chan error, len(a.Schedules))
Capacity == Cardinality(Schedules)

\* Mutant: cancel() comes before errCh <- err.
Send_CancelsFirst(s) ==
  /\ pc[s] = "send"
  /\ \/ ~cancelled /\ cancelled' = TRUE /\ UNCHANGED <<errCh, pc>>
     \/ /\ cancelled /\ Len(errCh) < Capacity
        /\ errCh' = Append(errCh, failure[s])
        /\ pc' = [pc EXCEPT ![s] = "done"]
        /\ UNCHANGED cancelled
  /\ UNCHANGED <<captures, failure, closed, parentDone, ctxErr, returned>>

\* errCh <- err waits for room.
Send(s) ==
  /\ pc[s] = "send" /\ Len(errCh) < Capacity
  /\ errCh' = Append(errCh, failure[s])
  /\ pc' = [pc EXCEPT ![s] = "cancel"]
  /\ UNCHANGED <<captures, failure, closed, cancelled, parentDone, ctxErr, returned>>

CancelAndExit(s) ==
  /\ pc[s] = "cancel"
  /\ cancelled' = TRUE
  /\ pc' = [pc EXCEPT ![s] = "done"]
  /\ UNCHANGED <<captures, failure, errCh, closed, parentDone, ctxErr, returned>>

\* wg.Wait and close(errCh).
CloseErrCh ==
  /\ ~closed /\ \A s \in Schedules : pc[s] = "done"
  /\ closed' = TRUE
  /\ UNCHANGED <<pc, captures, failure, errCh, cancelled, parentDone, ctxErr, returned>>

(* Run ---------------------------------------------------------------------- *)

\* Run receives an error and returns it, or finds errCh closed and drained; its
\* deferred cancel stops the other goroutines.
Receive ==
  /\ returned = Running
  /\ errCh # <<>> \/ closed
  /\ IF errCh # <<>>
       THEN returned' = Head(errCh) /\ errCh' = Tail(errCh)
       ELSE returned' = (IF ctxErr THEN "ctx" ELSE Nothing) /\ UNCHANGED errCh
  /\ cancelled' = TRUE
  /\ UNCHANGED <<pc, captures, failure, closed, parentDone, ctxErr>>

\* The other case of the select: it goes round again.
NoteCtxDone ==
  /\ returned = Running /\ CtxDone
  /\ ctxErr' = TRUE
  /\ UNCHANGED <<pc, captures, failure, errCh, closed, cancelled, parentDone, returned>>

\* The caller cancels, or its deadline passes.
ParentCancel ==
  /\ ~parentDone
  /\ parentDone' = TRUE
  /\ UNCHANGED <<pc, captures, failure, errCh, closed, cancelled, ctxErr, returned>>

-----------------------------------------------------------------------------

Schedule(s) ==
  CaptureFails(s) \/ CaptureSucceeds(s) \/ Tick(s) \/ SeesDone(s) \/ Send(s) \/ CancelAndExit(s)

\* Run has returned, whatever its goroutines still do; or the capture bound is reached.
Terminated ==
  /\ returned = Running => \A s \in Schedules : pc[s] = "select" /\ captures[s] = MaxCaptures
  /\ UNCHANGED vars

Next ==
  \/ \E s \in Schedules : Schedule(s)
  \/ CloseErrCh \/ Receive \/ NoteCtxDone \/ ParentCancel
  \/ Terminated

Spec == Init /\ [][Next]_vars

\* A goroutine runs on.  A Go select picks among its ready cases at random, so one
\* that is ready again and again is picked: strong fairness for ctx.Done().
FairSchedule(s) ==
  /\ WF_vars(CaptureFails(s) \/ CaptureSucceeds(s))
  /\ WF_vars(Send(s))
  /\ WF_vars(CancelAndExit(s))
  /\ SF_vars(SeesDone(s))

\* Run and every goroutine it started run on.
Fairness ==
  /\ \A s \in Schedules : FairSchedule(s)
  /\ WF_vars(CloseErrCh)
  /\ WF_vars(Receive)

FairSpec == Spec /\ Fairness

-----------------------------------------------------------------------------
(* Properties *)

\* agent.go:53-56: the error is sent before the context is cancelled, so the
\* cancellation one failing schedule causes in the others never reaches the caller
\* instead of the failure: Run returns a context error only if the caller's
\* context is done.
FailureNotMasked == returned = "ctx" => parentDone

\* Every goroutine sends before it is done: Run never finds errCh closed and
\* drained, and never returns nil.
NeverNil == returned # Nothing

\* What Run returns is the failure that ended it, or the caller's cancellation.
FailureReturned == FailureNotMasked /\ NeverNil

\* No goroutine is left behind by a Run that returned, although nobody receives
\* from errCh any more (it has room for every schedule): each comes to its end.
GoroutinesExit ==
  \A s \in Schedules : returned # Running ~> [](pc[s] = "done")

\* agent.go:31: a failing schedule, whichever it is, like the caller's context,
\* ends Run.
FailureEndsRun ==
  /\ parentDone ~> returned # Running
  /\ \A s \in Schedules : pc[s] = "send" ~> returned # Running

=============================================================================
