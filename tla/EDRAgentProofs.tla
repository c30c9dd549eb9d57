--------------------------- MODULE EDRAgentProofs ---------------------------
(***************************************************************************)
(* Theorems about EDRAgent for every finite set of schedules, proved with  *)
(* TLAPS: the error Run returns is the failure that ended it, and it never *)
(* returns nil; no goroutine ever waits for room in errCh; and, under fair *)
(* scheduling, a failure or the caller's context ends Run and every        *)
(* goroutine comes to its end.                                             *)
(***************************************************************************)
EXTENDS EDRAgent, SequenceTheorems, FiniteSetTheorems, TLAPS

\* The types the proof needs.
Places == {"capture", "select", "send", "cancel", "done"}
ErrTypes ==
  /\ pc \in [Schedules -> Places]
  /\ failure \in [Schedules -> Kinds \cup {Nothing}]
  /\ \A s \in Schedules : pc[s] = "send" => failure[s] \in Kinds
  /\ errCh \in Seq(Kinds)
  /\ returned \in Kinds \cup {Running, Nothing}

\* While Run waits, a goroutine that got past its send has left an error in errCh.
SentInv ==
  returned = Running /\ (\E s \in Schedules : pc[s] \in {"cancel", "done"}) => errCh # <<>>

\* While Run waits and the caller's context is not done, the first error in errCh
\* is a failure, and without one nobody has been cancelled.
FirstInv ==
  ~parentDone /\ returned = Running =>
    /\ errCh # <<>> => Head(errCh) = "capture"
    /\ cancelled \/ (\E s \in Schedules : failure[s] = "ctx") => errCh # <<>>

\* errCh is closed after every goroutine has sent and returned.
ClosedInv == closed => \A s \in Schedules : pc[s] = "done"

ErrInv == ErrTypes /\ SentInv /\ FirstInv /\ ClosedInv /\ FailureNotMasked /\ NeverNil

\* Nothing was sent, cancelled, closed or returned yet.
LEMMA InitErr == Init => ErrInv
BY DEF Init, ErrInv, ErrTypes, SentInv, FirstInv, ClosedInv, FailureNotMasked, NeverNil,
       Kinds, Running, Nothing, Places

\* Every step preserves the invariant; Run takes the first error of errCh.
LEMMA ErrStep == ErrInv /\ [Next]_vars => ErrInv'
<1> SUFFICES ASSUME ErrInv, [Next]_vars PROVE ErrInv'
  OBVIOUS
<1> USE DEF ErrInv, Kinds, Running, Nothing, Places
<1>1. ASSUME NEW s \in Schedules, CaptureFails(s) \/ CaptureSucceeds(s) \/ Tick(s)
      PROVE  ErrInv'
  <2> USE <1>1 DEF CaptureFails, CaptureSucceeds, Tick, Fail
  <2>1. ErrTypes'
    BY DEF ErrTypes
  <2>2. SentInv' /\ ClosedInv'
    BY DEF ErrTypes, SentInv, ClosedInv
  <2>3. FirstInv'
    BY DEF ErrTypes, FirstInv
  <2>4. FailureNotMasked' /\ NeverNil'
    BY DEF FailureNotMasked, NeverNil
  <2>5. QED
    BY <2>1, <2>2, <2>3, <2>4
<1>2. ASSUME NEW s \in Schedules, SeesDone(s) PROVE ErrInv'
  <2> USE <1>2 DEF SeesDone, Fail
  <2>1. ErrTypes'
    BY DEF ErrTypes
  <2>2. SentInv' /\ ClosedInv'
    BY DEF ErrTypes, SentInv, ClosedInv
  <2>3. FirstInv'
    BY DEF ErrTypes, FirstInv, CtxDone
  <2>4. FailureNotMasked' /\ NeverNil'
    BY DEF FailureNotMasked, NeverNil
  <2>5. QED
    BY <2>1, <2>2, <2>3, <2>4
<1>3. ASSUME NEW s \in Schedules, Send(s) PROVE ErrInv'
  <2>1. failure[s] \in Kinds /\ errCh \in Seq(Kinds)
    BY <1>3 DEF Send, ErrTypes
  <2>2. /\ errCh' \in Seq(Kinds) /\ errCh' # <<>>
        /\ errCh # <<>> => Head(errCh') = Head(errCh)
        /\ errCh = <<>> => Head(errCh') = failure[s]
    BY <1>3, <2>1 DEF Send
  <2>3. ErrTypes'
    BY <1>3, <2>2 DEF Send, ErrTypes
  <2>4. SentInv'
    BY <2>2 DEF SentInv
  <2>5. FirstInv'
    BY <1>3, <2>1, <2>2 DEF Send, FirstInv, Kinds
  <2>6. ClosedInv' /\ FailureNotMasked' /\ NeverNil'
    BY <1>3 DEF Send, ClosedInv, FailureNotMasked, NeverNil
  <2>7. QED
    BY <2>3, <2>4, <2>5, <2>6
<1>4. ASSUME NEW s \in Schedules, CancelAndExit(s) PROVE ErrInv'
  <2> USE <1>4 DEF CancelAndExit
  <2>1. ErrTypes'
    BY DEF ErrTypes
  <2>2. returned = Running => errCh # <<>>
    BY DEF SentInv
  <2>3. SentInv' /\ FirstInv'
    BY <2>2 DEF SentInv, FirstInv
  <2>4. ClosedInv' /\ FailureNotMasked' /\ NeverNil'
    BY DEF ClosedInv, ErrTypes, FailureNotMasked, NeverNil
  <2>5. QED
    BY <2>1, <2>3, <2>4
<1>5. CASE CloseErrCh
  BY <1>5 DEF CloseErrCh, ErrTypes, SentInv, FirstInv, ClosedInv, FailureNotMasked, NeverNil
<1>6. CASE Receive
  <2>1. errCh # <<>>
    <3>1. PICK s \in Schedules : TRUE
      BY SchedulesAssumption
    <3>2. closed => pc[s] = "done"
      BY DEF ClosedInv
    <3>3. QED
      BY <1>6, <3>1, <3>2 DEF Receive, SentInv
  <2>2. returned' = Head(errCh) /\ errCh' = Tail(errCh)
    BY <1>6, <2>1 DEF Receive
  <2>3. Head(errCh) \in Kinds /\ Tail(errCh) \in Seq(Kinds)
    BY <2>1 DEF ErrTypes
  <2>4. ErrTypes'
    BY <1>6, <2>2, <2>3 DEF Receive, ErrTypes
  <2>5. SentInv' /\ FirstInv' /\ NeverNil'
    BY <2>2, <2>3 DEF SentInv, FirstInv, NeverNil
  <2>6. ClosedInv' /\ FailureNotMasked'
    BY <1>6, <2>1, <2>2 DEF Receive, ClosedInv, FirstInv, FailureNotMasked
  <2>7. QED
    BY <2>4, <2>5, <2>6
<1>7. CASE NoteCtxDone
  BY <1>7 DEF NoteCtxDone, ErrTypes, SentInv, FirstInv, ClosedInv, FailureNotMasked, NeverNil
<1>8. CASE ParentCancel
  BY <1>8 DEF ParentCancel, ErrTypes, SentInv, FirstInv, ClosedInv, FailureNotMasked, NeverNil
<1>9. CASE UNCHANGED vars
  BY <1>9 DEF vars, ErrTypes, SentInv, FirstInv, ClosedInv, FailureNotMasked, NeverNil
<1>10. QED
  BY <1>1, <1>2, <1>3, <1>4, <1>5, <1>6, <1>7, <1>8, <1>9 DEF Next, Schedule, Terminated

\* EDRAgent.Run (agent.go:32-82): if the caller's context is not done, the error Run
\* returns is the one that made it stop, never the cancellation that followed; and it
\* never finds errCh closed and drained, which it would answer with nil.
THEOREM FailureReported == Spec => []FailureReturned
<1>1. ErrInv => FailureReturned
  BY DEF ErrInv, FailureReturned
<1>2. QED
  BY <1>1, InitErr, ErrStep, PTL DEF Spec


(* Room in errCh ----------------------------------------------------------- *)

\* The schedules that have sent their error.
Senders == {s \in Schedules : pc[s] \in {"cancel", "done"}}

\* errCh holds at most one error of each schedule that has sent, and Run cancels the
\* goroutines' context when it returns.
RoomInv == Len(errCh) <= Cardinality(Senders)
StopInv == returned # Running => cancelled

Inv == ErrInv /\ RoomInv /\ StopInv

\* A schedule's error always finds room: nobody waits at errCh <- err.
AlwaysRoom == \A s \in Schedules : pc[s] = "send" => Len(errCh) < Capacity

\* A sender adds one error and itself; nobody else adds an error.
LEMMA RoomStep == ErrInv /\ ErrInv' /\ RoomInv /\ [Next]_vars => RoomInv'
<1> SUFFICES ASSUME ErrInv, ErrInv', RoomInv, [Next]_vars PROVE RoomInv'
  OBVIOUS
<1> USE DEF ErrInv, ErrTypes, Places
<1>1. IsFiniteSet(Senders) /\ IsFiniteSet(Senders') /\ errCh \in Seq(Kinds)
  BY SchedulesAssumption, FS_Subset DEF Senders
<1>2. /\ Cardinality(Senders) \in Nat /\ Cardinality(Senders') \in Nat
      /\ Len(errCh) \in Nat
  BY <1>1, FS_CardinalityType, LenProperties
<1>3. ASSUME Senders \subseteq Senders', errCh' = errCh PROVE RoomInv'
  BY <1>1, <1>2, <1>3, FS_Subset DEF RoomInv
<1>4. ASSUME NEW s \in Schedules,
             CaptureFails(s) \/ CaptureSucceeds(s) \/ Tick(s) \/ SeesDone(s) \/ CancelAndExit(s)
      PROVE  RoomInv'
  <2>1. Senders \subseteq Senders' /\ errCh' = errCh
    BY <1>4 DEF Senders, CaptureFails, CaptureSucceeds, Tick, SeesDone, CancelAndExit, Fail
  <2>2. QED
    BY <1>3, <2>1
<1>5. ASSUME NEW s \in Schedules, Send(s) PROVE RoomInv'
  <2>1. Senders' = Senders \cup {s} /\ s \notin Senders
    BY <1>5 DEF Send, Senders
  <2>2. Cardinality(Senders') = Cardinality(Senders) + 1
    BY <1>1, <2>1, FS_AddElement
  <2>3. Len(errCh') = Len(errCh) + 1
    BY <1>1, <1>5 DEF Send
  <2>4. QED
    BY <1>2, <2>2, <2>3 DEF RoomInv
<1>6. CASE Receive
  <2>1. Senders' = Senders
    BY <1>6 DEF Receive, Senders
  <2>2. errCh' = errCh \/ (errCh # <<>> /\ errCh' = Tail(errCh))
    BY <1>6 DEF Receive
  <2>3. Len(errCh') <= Len(errCh) /\ Len(errCh') \in Nat
    BY <1>1, <2>2
  <2>4. QED
    BY <1>2, <2>1, <2>3 DEF RoomInv
<1>7. CASE CloseErrCh \/ NoteCtxDone \/ ParentCancel \/ UNCHANGED vars
  BY <1>3, <1>7 DEF CloseErrCh, NoteCtxDone, ParentCancel, vars, Senders
<1>8. QED
  BY <1>4, <1>5, <1>6, <1>7 DEF Next, Schedule, Terminated

\* Receive is the only step that ends Run, and it cancels.
LEMMA StopStep == StopInv /\ [Next]_vars => StopInv'
<1> SUFFICES ASSUME StopInv, [Next]_vars PROVE StopInv'
  OBVIOUS
<1> USE DEF StopInv
<1>1. ASSUME NEW s \in Schedules, Schedule(s) PROVE StopInv'
  BY <1>1 DEF Schedule, CaptureFails, CaptureSucceeds, Tick, SeesDone, Send, CancelAndExit
<1>2. QED
  BY <1>1 DEF Next, CloseErrCh, Receive, NoteCtxDone, ParentCancel, Terminated, vars

\* The inductive invariant holds throughout.
LEMMA InvHolds == Spec => []Inv
<1>1. Init => RoomInv /\ StopInv
  <2>1. ASSUME Init PROVE RoomInv /\ StopInv
    <3>1. Senders = {} /\ Len(errCh) = 0
      BY <2>1 DEF Init, Senders
    <3>2. QED
      BY <2>1, <3>1, FS_EmptySet DEF Init, RoomInv, StopInv
  <2>2. QED
    BY <2>1
<1>2. QED
  BY <1>1, InitErr, ErrStep, RoomStep, StopStep, PTL DEF Spec, Inv

\* Whoever is about to send has not sent, and errCh has room for every schedule.
LEMMA InvGivesRoom == Inv => AlwaysRoom
<1> SUFFICES ASSUME Inv, NEW s \in Schedules, pc[s] = "send" PROVE Len(errCh) < Capacity
  BY DEF AlwaysRoom
<1>1. Senders \subseteq Schedules \ {s}
  BY DEF Senders
<1>2. /\ IsFiniteSet(Schedules \ {s})
      /\ Cardinality(Schedules \ {s}) = Cardinality(Schedules) - 1
  BY SchedulesAssumption, FS_RemoveElement
<1>3. Cardinality(Senders) <= Cardinality(Schedules \ {s})
  BY <1>1, <1>2, FS_Subset
<1>4. /\ Cardinality(Senders) \in Nat /\ Cardinality(Schedules) \in Nat
      /\ Len(errCh) \in Nat
  BY <1>1, <1>2, SchedulesAssumption, FS_Subset, FS_CardinalityType DEF Inv, ErrInv, ErrTypes
<1>5. QED
  BY <1>2, <1>3, <1>4 DEF Inv, RoomInv, Capacity

\* agent.go:37,53: errCh is made with room for an error of every schedule, so that
\* errCh <- err never blocks, also when Run has returned and receives no more.
THEOREM SendNeverBlocks == Spec => []AlwaysRoom
BY InvHolds, InvGivesRoom, PTL


(* Under fair scheduling ---------------------------------------------------- *)

\* The guards of the steps fairness is about, as the code states them, are all these
\* steps need: what a goroutine can go on with, it can do.
ScheduleEnabled(s) ==
  /\ pc[s] = "capture" => ENABLED <<CaptureFails(s) \/ CaptureSucceeds(s)>>_vars
  /\ pc[s] = "select" /\ CtxDone => ENABLED <<SeesDone(s)>>_vars
  /\ pc[s] = "send" /\ Len(errCh) < Capacity => ENABLED <<Send(s)>>_vars
  /\ pc[s] = "cancel" => ENABLED <<CancelAndExit(s)>>_vars

ReceiveEnabled ==
  returned = Running /\ (errCh # <<>> \/ closed) => ENABLED <<Receive>>_vars

GuardsEnable == (\A s \in Schedules : ScheduleEnabled(s)) /\ ReceiveEnabled

\* A goroutine is at one place at a time.
AtOnePlace(s) ==
  /\ \/ pc[s] = "capture" \/ pc[s] = "select" \/ pc[s] = "send"
     \/ pc[s] = "cancel" \/ pc[s] = "done"
  /\ pc[s] = "send" => ~(pc[s] = "cancel") /\ ~(pc[s] = "done")
  /\ pc[s] = "cancel" => ~(pc[s] = "done")

\* Where a step may take it.
Moves(s) ==
  /\ pc[s] = "capture" => (pc[s] = "capture" \/ pc[s] = "select" \/ pc[s] = "send")'
  /\ pc[s] = "select" => (pc[s] = "select" \/ pc[s] = "capture" \/ pc[s] = "send")'
  /\ pc[s] = "send" => (pc[s] = "send" \/ pc[s] = "cancel")'
  /\ pc[s] = "cancel" => (pc[s] = "cancel" \/ pc[s] = "done")'
  /\ pc[s] = "done" => (pc[s] = "done")'

LEMMA PlaceStep ==
  ASSUME NEW s \in Schedules
  PROVE  /\ Inv => AtOnePlace(s)
         /\ Inv /\ [Next]_vars => Moves(s)
<1> USE DEF Inv, ErrInv, ErrTypes
<1>1. Inv => AtOnePlace(s)
  BY DEF AtOnePlace, Places
<1>2. ASSUME Inv, NEW t \in Schedules, Schedule(t)
      PROVE  \/ pc'[s] = pc[s]
             \/ pc[s] = "capture" /\ pc'[s] \in {"select", "send"}
             \/ pc[s] = "select" /\ pc'[s] \in {"capture", "send"}
             \/ pc[s] = "send" /\ pc'[s] = "cancel"
             \/ pc[s] = "cancel" /\ pc'[s] = "done"
  BY <1>2 DEF Schedule, CaptureFails, CaptureSucceeds, Tick, SeesDone, Send, CancelAndExit, Fail
<1>3. ASSUME Inv, [Next]_vars, ~(\E t \in Schedules : Schedule(t)) PROVE pc' = pc
  BY <1>3 DEF Next, CloseErrCh, Receive, NoteCtxDone, ParentCancel, Terminated, vars
<1>4. QED
  BY <1>1, <1>2, <1>3 DEF Moves

\* What the fair steps of a goroutine need and do.
FairMoves(s) ==
  /\ <<CaptureFails(s) \/ CaptureSucceeds(s)>>_vars =>
       pc[s] = "capture" /\ (pc[s] = "select" \/ pc[s] = "send")'
  /\ <<SeesDone(s)>>_vars => pc[s] = "select" /\ (pc[s] = "send")'
  /\ <<Send(s)>>_vars => pc[s] = "send" /\ (pc[s] = "cancel")'
  /\ <<CancelAndExit(s)>>_vars => pc[s] = "cancel" /\ (pc[s] = "done")'

LEMMA FairSteps ==
  ASSUME NEW s \in Schedules
  PROVE  Inv => FairMoves(s)
BY DEF FairMoves, Inv, ErrInv, ErrTypes, CaptureFails, CaptureSucceeds, SeesDone, Send,
       CancelAndExit, Fail

\* The context stays done, and Run stays returned.
LEMMA DoneStays ==
  [Next]_vars => /\ CtxDone => CtxDone'
                 /\ parentDone => parentDone'
                 /\ returned # Running => (returned # Running)'
<1> SUFFICES ASSUME [Next]_vars
             PROVE  /\ CtxDone => CtxDone'
                    /\ parentDone => parentDone'
                    /\ returned # Running => (returned # Running)'
  OBVIOUS
<1> USE DEF CtxDone
<1>1. ASSUME NEW s \in Schedules, Schedule(s)
      PROVE  UNCHANGED <<parentDone, returned>> /\ (cancelled => cancelled')
  BY <1>1 DEF Schedule, CaptureFails, CaptureSucceeds, Tick, SeesDone, Send, CancelAndExit
<1>2. QED
  BY <1>1 DEF Next, CloseErrCh, Receive, NoteCtxDone, ParentCancel, Terminated, vars

\* What is fair to every schedule is fair to each.
LEMMA FairEach ==
  ASSUME NEW p \in Schedules
  PROVE  Fairness => FairSchedule(p)
<1>1. (\A s \in Schedules : FairSchedule(s)) => FairSchedule(p)
  OBVIOUS
<1>2. Fairness => \A s \in Schedules : FairSchedule(s)
  BY PTL DEF Fairness
<1>3. QED
  BY <1>1, <1>2, PTL

\* Once the context is done, a goroutine leaves its captures, finds room for its
\* error and exits.
LEMMA GoroutineExits ==
  ASSUME NEW s \in Schedules
  PROVE  FairSpec /\ []GuardsEnable => (CtxDone ~> [](pc[s] = "done"))
<1>1. Inv => AtOnePlace(s) /\ (pc[s] = "send" => Len(errCh) < Capacity)
  BY PlaceStep, InvGivesRoom DEF AlwaysRoom
<1>2. Inv /\ [Next]_vars => Moves(s)
  BY PlaceStep
<1>3. Inv => FairMoves(s)
  BY FairSteps
<1>4. Fairness => FairSchedule(s)
  BY FairEach
<1>5. GuardsEnable => ScheduleEnabled(s)
  BY DEF GuardsEnable
<1>6. QED
  BY <1>1, <1>2, <1>3, <1>4, <1>5, DoneStays, InvHolds, PTL
     DEF FairSpec, Spec, FairSchedule, ScheduleEnabled, AtOnePlace, Moves, FairMoves

\* Receive finds an error, never a closed and drained errCh, and Run returns it.
LEMMA ReceiveReturns == Inv /\ <<Receive>>_vars => (returned # Running)'
<1>1. SUFFICES ASSUME Inv, Receive PROVE returned' # Running
  OBVIOUS
<1>2. CASE errCh # <<>>
  <2>1. Head(errCh) \in Kinds
    BY <1>2, <1>1 DEF Inv, ErrInv, ErrTypes
  <2>2. QED
    BY <1>1, <1>2, <2>1 DEF Receive, Kinds, Running
<1>3. CASE errCh = <<>>
  BY <1>1, <1>3 DEF Receive, Running, Nothing
<1>4. QED
  BY <1>2, <1>3

\* Run, once somebody has sent: it has returned, or it finds an error.
LEMMA FailureEnds ==
  ASSUME NEW s \in Schedules
  PROVE  FairSpec /\ []GuardsEnable => (pc[s] = "send" ~> returned # Running)
<1>1. Inv => AtOnePlace(s) /\ (pc[s] = "send" => Len(errCh) < Capacity)
  BY PlaceStep, InvGivesRoom DEF AlwaysRoom
<1>2. Inv /\ [Next]_vars => Moves(s)
  BY PlaceStep
<1>3. Inv => FairMoves(s)
  BY FairSteps
<1>4. Fairness => FairSchedule(s)
  BY FairEach
<1>5. GuardsEnable => ScheduleEnabled(s) /\ ReceiveEnabled
  BY DEF GuardsEnable
<1>6. Inv /\ (pc[s] = "cancel" \/ pc[s] = "done") =>
        returned # Running \/ (returned = Running /\ (errCh # <<>> \/ closed))
  BY DEF Inv, ErrInv, SentInv
<1>7. Inv /\ <<Receive>>_vars => (returned # Running)'
  BY ReceiveReturns
<1>8. QED
  BY <1>1, <1>2, <1>3, <1>4, <1>5, <1>6, <1>7, DoneStays, InvHolds, PTL
     DEF FairSpec, Spec, Fairness, FairSchedule, ScheduleEnabled, ReceiveEnabled, AtOnePlace,
         Moves, FairMoves

\* The caller's context is done: some goroutine exits, and has sent.
LEMMA ContextEnds == FairSpec /\ []GuardsEnable => (parentDone ~> returned # Running)
<1>1. PICK s \in Schedules : TRUE
  BY SchedulesAssumption
<1>2. FairSpec /\ []GuardsEnable => (CtxDone ~> [](pc[s] = "done"))
  BY GoroutineExits
<1>3. parentDone => CtxDone
  BY DEF CtxDone
<1>4. Inv /\ pc[s] = "done" =>
        returned # Running \/ (returned = Running /\ (errCh # <<>> \/ closed))
  BY DEF Inv, ErrInv, SentInv
<1>5. Inv /\ <<Receive>>_vars => (returned # Running)'
  BY ReceiveReturns
<1>6. GuardsEnable => ReceiveEnabled
  BY DEF GuardsEnable
<1>7. QED
  BY <1>2, <1>3, <1>4, <1>5, <1>6, DoneStays, InvHolds, PTL
     DEF FairSpec, Spec, Fairness, ReceiveEnabled

\* agent.go:31, 43-82: Run ends when the caller's context is done, and when any of its
\* schedules fails, if every goroutine runs on.
THEOREM FailuresEndRun == FairSpec /\ []GuardsEnable => FailureEndsRun
<1>1. FairSpec /\ []GuardsEnable => \A s \in Schedules : pc[s] = "send" ~> returned # Running
  <2>1. \A s \in Schedules : FairSpec /\ []GuardsEnable => (pc[s] = "send" ~> returned # Running)
    BY FailureEnds
  <2>2. QED
    BY <2>1
<1>2. QED
  BY <1>1, ContextEnds, PTL DEF FailureEndsRun

\* agent.go:44,55: a Run that returned leaves no goroutine behind: its deferred cancel
\* reaches each of them, errCh has room for each, and each exits for good.
THEOREM AllGoroutinesExit == FairSpec /\ []GuardsEnable => GoroutinesExit
<1>1. ASSUME NEW s \in Schedules
      PROVE  FairSpec /\ []GuardsEnable => (returned # Running ~> [](pc[s] = "done"))
  <2>1. FairSpec /\ []GuardsEnable => (CtxDone ~> [](pc[s] = "done"))
    BY GoroutineExits
  <2>2. Inv /\ returned # Running => CtxDone
    BY DEF Inv, StopInv, CtxDone
  <2>3. QED
    BY <2>1, <2>2, InvHolds, PTL DEF FairSpec
<1>2. QED
  BY <1>1 DEF GoroutinesExit

=============================================================================
