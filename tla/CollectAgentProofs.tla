------------------------- MODULE CollectAgentProofs -------------------------
(***************************************************************************)
(* Theorems about CollectAgent for every set of schedules, every list of   *)
(* sinks and every queue size, proved with TLAPS.                          *)
(***************************************************************************)
EXTENDS CollectAgent, SequenceTheorems, FiniteSetTheorems, TLAPS

\* The sinks are numbered from one.
LEMMA SinksFact == Sinks = 1..Len(SinkName) /\ Len(SinkName) \in Nat
<1>1. SinkName \in Seq(STRING)
  BY SinksAssumption
<1>2. QED
  BY <1>1 DEF Sinks

-----------------------------------------------------------------------------
(* Types, and which goroutine holds an item *)

TypeInv == TypeOK /\ HoldInv /\ RunInv

\* Initially every variable has its type, nobody holds an item and nothing runs.
LEMMA InitTypeInv == Init => TypeInv
<1> SUFFICES ASSUME Init PROVE TypeInv
  OBVIOUS
<1> USE DEF Procs, ErrorKinds, Free
<1>1. RunTypeOK
  <2>1. 0 \in 0..MaxRuns /\ 0 \in 0..MaxCaptures
    BY BoundsAssumption
  <2>2. QED
    BY <2>1 DEF Init, RunTypeOK
<1>2. ProcTypeOK
  <2>1. 1 \in 1..(Len(SinkName) + 1)
    BY SinksFact
  <2>2. QED
    BY <2>1 DEF Init, ProcTypeOK, Free
<1>3. QueueTypeOK
  BY QueueAssumption DEF Init, QueueTypeOK
<1>4. SinkTypeOK
  BY DEF Init, SinkTypeOK, NoStat, Stat
<1>5. HoldInv /\ RunInv
  BY DEF Init, HoldInv, RunInv
<1>6. QED
  BY <1>1, <1>2, <1>3, <1>4, <1>5 DEF TypeInv, TypeOK

\* Every step preserves the types.
LEMMA TypeOKStep == TypeInv /\ [Next]_vars => TypeOK'
<1> SUFFICES ASSUME TypeInv, [Next]_vars PROVE TypeOK'
  OBVIOUS
<1> USE DEF TypeInv, Procs, ErrorKinds, ErrAfter, runVars, procVars, outVars
<1> USE DEF TypeOK, RunTypeOK, ProcTypeOK, QueueTypeOK, SinkTypeOK
<1>1. CASE RunStarts
  <2>1. runs' \in 0..MaxRuns
    BY <1>1, BoundsAssumption DEF RunStarts
  <2>2. QED
    BY <1>1, <2>1 DEF RunStarts
<1>2. CASE Cancel
  BY <1>2 DEF Cancel
<1>3. CASE RunReturns
  BY <1>3 DEF RunReturns
<1>4. ASSUME NEW s \in Schedules, CaptureFails(s) PROVE TypeOK'
  BY <1>4 DEF CaptureFails
<1>5. ASSUME NEW s \in Schedules, CaptureSucceeds(s) PROVE TypeOK'
  <2>1. captured[s] + 1 \in 1..MaxCaptures
    BY <1>5, BoundsAssumption DEF CaptureSucceeds
  <2>2. <<s, captured[s] + 1>> \in Items
    BY <2>1 DEF Items
  <2>3. RunTypeOK'
    BY <1>5, <2>1 DEF CaptureSucceeds
  <2>4. ProcTypeOK'
    BY <1>5, <2>2 DEF CaptureSucceeds
  <2>5. QueueTypeOK' /\ SinkTypeOK'
    BY <1>5 DEF CaptureSucceeds
  <2> HIDE DEF RunTypeOK, ProcTypeOK, QueueTypeOK, SinkTypeOK
  <2>6. QED
    BY <2>3, <2>4, <2>5
<1>6. ASSUME NEW s \in Schedules, Enqueue(s) PROVE TypeOK'
  <2>1. item[s] \in Items
    BY <1>6 DEF Enqueue, HoldInv
  <2>2. RunTypeOK' /\ SinkTypeOK'
    BY <1>6 DEF Enqueue
  <2>3. ProcTypeOK'
    BY <1>6 DEF Enqueue
  <2>4. QueueTypeOK'
    BY <1>6, <2>1, QueueAssumption DEF Enqueue
  <2> HIDE DEF RunTypeOK, ProcTypeOK, QueueTypeOK, SinkTypeOK
  <2>5. QED
    BY <2>2, <2>3, <2>4
<1>7. ASSUME NEW s \in Schedules, ProcessInline(s) PROVE TypeOK'
  BY <1>7 DEF ProcessInline
<1>8. ASSUME NEW s \in Schedules, Tick(s) PROVE TypeOK'
  BY <1>8 DEF Tick
<1>9. CASE Dequeue
  <2>1. /\ Head(pipelineCh) \in Items
        /\ Tail(pipelineCh) \in Seq(Items)
        /\ Len(Tail(pipelineCh)) <= QueueSize
    BY <1>9, QueueAssumption DEF Dequeue
  <2>2. RunTypeOK' /\ SinkTypeOK'
    BY <1>9 DEF Dequeue
  <2>3. ProcTypeOK'
    BY <1>9, <2>1 DEF Dequeue
  <2>4. QueueTypeOK'
    BY <1>9, <2>1 DEF Dequeue
  <2> HIDE DEF RunTypeOK, ProcTypeOK, QueueTypeOK, SinkTypeOK
  <2>5. QED
    BY <2>2, <2>3, <2>4
<1>10. ASSUME NEW p \in Procs, Leave(p) PROVE TypeOK'
  BY <1>10 DEF Leave
<1>11. ASSUME NEW p \in Procs, LockProcessMu(p) PROVE TypeOK'
  BY <1>11, SinksFact DEF LockProcessMu
<1>12. ASSUME NEW p \in Procs, ConsumeSink(p) PROVE TypeOK'
  <2>0. item[p] \in Items
    BY <1>12 DEF ConsumeSink, HoldInv
  <2>1. at[p] + 1 \in 1..(Len(SinkName) + 1)
    BY <1>12, SinksFact DEF ConsumeSink
  <2>2. RunTypeOK' /\ QueueTypeOK'
    BY <1>12 DEF ConsumeSink
  <2>3. ProcTypeOK'
    BY <1>12, <2>1 DEF ConsumeSink
  <2>4. sinkStats' \in [StatNames -> Stat]
    <3> DEFINE n == SinkName[at[p]]
    <3>1. n \in StatNames
      BY <1>12 DEF ConsumeSink, StatNames
    <3>2. sinkStats \in [StatNames -> Stat] /\ sinkStats[n] \in Stat
      BY <3>1
    <3>3. \A st \in Stat : AfterSuccess(st) \in Stat /\ AfterFailure(st) \in Stat
      BY DEF Stat, AfterSuccess, AfterFailure
    <3>4. \E st \in Stat : sinkStats' = [sinkStats EXCEPT ![n] = st]
      BY <1>12, <3>2, <3>3 DEF ConsumeSink
    <3> HIDE DEF n
    <3>5. QED
      BY <3>1, <3>2, <3>4
  <2>5. seen' \in [Sinks -> Seq(Items)]
    BY <1>12, <2>0 DEF ConsumeSink
  <2>6. SinkTypeOK'
    BY <2>4, <2>5
  <2> HIDE DEF RunTypeOK, ProcTypeOK, QueueTypeOK, SinkTypeOK
  <2>7. QED
    BY <2>2, <2>3, <2>6
<1>13. ASSUME NEW p \in Procs, FinishProcessing(p) PROVE TypeOK'
  BY <1>13 DEF FinishProcessing, Free
<1>14. CASE UNCHANGED vars
  BY <1>14 DEF vars
<1>15. QED
  BY <1>1, <1>2, <1>3, <1>4, <1>5, <1>6, <1>7, <1>8, <1>9, <1>10, <1>11,
     <1>12, <1>13, <1>14 DEF Next, ProcessInfo, Terminated


\* The case split every step lemma below makes.
LEMMA StepCases ==
  ASSUME [Next]_vars
  PROVE  \/ RunStarts \/ Cancel \/ RunReturns
         \/ \E s \in Schedules :
              \/ CaptureFails(s) \/ CaptureSucceeds(s)
              \/ Enqueue(s) \/ ProcessInline(s) \/ Tick(s)
         \/ Dequeue
         \/ \E p \in Procs :
              Leave(p) \/ LockProcessMu(p) \/ ConsumeSink(p) \/ FinishProcessing(p)
         \/ UNCHANGED vars
  BY DEF Next, ProcessInfo, Terminated

\* Every step preserves who holds an item: captureOnce and pipelineLoop take one on,
\* the queue or the end of processInfo takes it off.
LEMMA HoldInvStep == TypeInv /\ [Next]_vars => HoldInv'
<1> SUFFICES ASSUME TypeInv, [Next]_vars PROVE HoldInv'
  OBVIOUS
<1> USE NoItemAssumption, GoroutinesAssumption
    DEF TypeInv, TypeOK, ProcTypeOK, QueueTypeOK, HoldInv, Procs
<1>1. CASE RunStarts
  BY <1>1 DEF RunStarts, RunInv
<1>2. CASE Cancel \/ RunReturns \/ UNCHANGED vars
  BY <1>2 DEF Cancel, RunReturns, vars, procVars
<1>3. ASSUME NEW s \in Schedules, CaptureFails(s) \/ ProcessInline(s) \/ Tick(s)
      PROVE  HoldInv'
  BY <1>3 DEF CaptureFails, ProcessInline, Tick
<1>4. ASSUME NEW s \in Schedules, CaptureSucceeds(s) PROVE HoldInv'
  <2>1. <<s, captured[s] + 1>> \in Items
    BY BoundsAssumption DEF RunTypeOK, Items
  <2>2. <<s, captured[s] + 1>> # NoItem
    BY <2>1
  <2>3. QED
    BY <1>4, <2>2 DEF CaptureSucceeds
<1>5. ASSUME NEW s \in Schedules, Enqueue(s) PROVE HoldInv'
  BY <1>5 DEF Enqueue
<1>6. CASE Dequeue
  <2>1. Head(pipelineCh) \in Items
    BY <1>6 DEF Dequeue
  <2>2. Head(pipelineCh) # NoItem
    BY <2>1
  <2>3. QED
    BY <1>6, <2>2 DEF Dequeue
<1>7. ASSUME NEW p \in Procs, Leave(p) \/ LockProcessMu(p) PROVE HoldInv'
  BY <1>7 DEF Leave, LockProcessMu
<1>8. ASSUME NEW p \in Procs, ConsumeSink(p) \/ FinishProcessing(p) PROVE HoldInv'
  BY <1>8 DEF ConsumeSink, FinishProcessing
<1>9. QED
  BY <1>1, <1>2, <1>3, <1>4, <1>5, <1>6, <1>7, <1>8, StepCases

\* Every step preserves that goroutines run during Run only: Run waits for them all.
LEMMA RunInvStep == TypeInv /\ [Next]_vars => RunInv'
<1> SUFFICES ASSUME TypeInv, [Next]_vars PROVE RunInv'
  OBVIOUS
<1> USE GoroutinesAssumption DEF TypeInv, TypeOK, ProcTypeOK, RunInv, Procs
<1>1. CASE RunStarts
  BY <1>1 DEF RunStarts
<1>2. CASE Cancel \/ RunReturns \/ UNCHANGED vars
  BY <1>2 DEF Cancel, RunReturns, vars, runVars, procVars
<1>3. ASSUME NEW s \in Schedules,
             \/ CaptureFails(s) \/ CaptureSucceeds(s)
             \/ Enqueue(s) \/ ProcessInline(s) \/ Tick(s)
      PROVE  RunInv'
  BY <1>3 DEF CaptureFails, CaptureSucceeds, Enqueue, ProcessInline, Tick, runVars
<1>4. CASE Dequeue
  BY <1>4 DEF Dequeue, runVars
<1>5. ASSUME NEW p \in Procs,
             Leave(p) \/ LockProcessMu(p) \/ ConsumeSink(p) \/ FinishProcessing(p)
      PROVE  RunInv'
  BY <1>5 DEF Leave, LockProcessMu, ConsumeSink, FinishProcessing, runVars
<1>6. QED
  BY <1>1, <1>2, <1>3, <1>4, <1>5, StepCases

\* Every variable keeps its type: in particular pipelineCh never exceeds its
\* capacity, whatever the schedules and the worker do, and over several calls of Run.
THEOREM TypeCorrect == Spec => []TypeOK
<1>1. TypeInv /\ [Next]_vars => TypeInv'
  BY TypeOKStep, HoldInvStep, RunInvStep DEF TypeInv
<1>2. TypeInv => TypeOK
  BY DEF TypeInv
<1>3. QED
  BY InitTypeInv, <1>1, <1>2, PTL DEF Spec

-----------------------------------------------------------------------------
(* processMu *)

\* Every step preserves mutual exclusion in processInfo.
LEMMA LockInvStep == TypeInv /\ LockInv /\ [Next]_vars => LockInv'
<1> SUFFICES ASSUME TypeInv, LockInv, [Next]_vars PROVE LockInv'
  OBVIOUS
<1> USE NoItemAssumption DEF TypeInv, TypeOK, ProcTypeOK, LockInv, Procs, Free
<1>1. CASE RunStarts
  BY <1>1 DEF RunStarts, RunInv
<1>2. CASE Cancel \/ RunReturns \/ UNCHANGED vars
  BY <1>2 DEF Cancel, RunReturns, vars, procVars
<1>3. ASSUME NEW s \in Schedules,
             \/ CaptureFails(s) \/ CaptureSucceeds(s)
             \/ Enqueue(s) \/ ProcessInline(s) \/ Tick(s)
      PROVE  LockInv'
  BY <1>3 DEF CaptureFails, CaptureSucceeds, Enqueue, ProcessInline, Tick
<1>4. CASE Dequeue
  BY <1>4 DEF Dequeue
<1>5. ASSUME NEW p \in Procs, Leave(p) \/ LockProcessMu(p) PROVE LockInv'
  BY <1>5 DEF Leave, LockProcessMu
<1>6. ASSUME NEW p \in Procs, ConsumeSink(p) \/ FinishProcessing(p) PROVE LockInv'
  BY <1>6 DEF ConsumeSink, FinishProcessing
<1>7. QED
  BY <1>1, <1>2, <1>3, <1>4, <1>5, <1>6, StepCases

-----------------------------------------------------------------------------
(* What the sinks have been given *)

\* A step that leaves the sinks, processMu, its holder's item and its holder's
\* loop index alone preserves SeenInv.
LEMMA SeenFrame ==
  ASSUME SeenInv, UNCHANGED <<seen, processMu>>,
         processMu # Free => /\ item'[processMu] = item[processMu]
                             /\ at'[processMu] = at[processMu]
  PROVE  SeenInv'
  BY DEF SeenInv, HasCurrent

\* Every step preserves how the sinks' histories differ.
LEMMA SeenInvStep == TypeInv /\ LockInv /\ SeenInv /\ [Next]_vars => SeenInv'
<1> SUFFICES ASSUME TypeInv, LockInv, SeenInv, [Next]_vars PROVE SeenInv'
  OBVIOUS
<1> USE NoItemAssumption DEF TypeInv, TypeOK, ProcTypeOK, LockInv, Procs, Free
<1>1. CASE RunStarts \/ Cancel \/ RunReturns \/ UNCHANGED vars
  BY <1>1, SeenFrame DEF RunStarts, Cancel, RunReturns, vars, procVars, outVars
<1>2. ASSUME NEW s \in Schedules,
             \/ CaptureFails(s) \/ CaptureSucceeds(s)
             \/ Enqueue(s) \/ ProcessInline(s) \/ Tick(s)
      PROVE  SeenInv'
  <2>1. s # processMu /\ UNCHANGED <<seen, processMu, at>>
    BY <1>2 DEF CaptureFails, CaptureSucceeds, Enqueue, ProcessInline, Tick, outVars
  <2>2. processMu # Free => item'[processMu] = item[processMu]
    BY <1>2, <2>1 DEF CaptureFails, CaptureSucceeds, Enqueue, ProcessInline, Tick
  <2>3. QED
    BY <2>1, <2>2, SeenFrame
<1>3. CASE Dequeue
  <2>1. Worker # processMu
    BY <1>3 DEF Dequeue
  <2>2. QED
    BY <1>3, <2>1, SeenFrame DEF Dequeue, outVars
<1>4. ASSUME NEW p \in Procs, Leave(p) PROVE SeenInv'
  BY <1>4, SeenFrame DEF Leave, outVars
<1>5. ASSUME NEW p \in Procs, LockProcessMu(p) PROVE SeenInv'
  <2>1. \A j, k \in Sinks : seen[j] = seen[k]
    BY <1>5 DEF LockProcessMu, SeenInv, HasCurrent
  <2>2. seen' = seen /\ processMu' = p /\ at'[p] = 1
    BY <1>5 DEF LockProcessMu, outVars
  <2>3. \A k \in Sinks : ~HasCurrent(k)'
    BY <2>2, SinksFact DEF HasCurrent
  <2>4. QED
    BY <2>1, <2>2, <2>3 DEF SeenInv
<1>6. ASSUME NEW p \in Procs, ConsumeSink(p) PROVE SeenInv'
  <2>1. p = processMu /\ p # Free
    BY <1>6 DEF ConsumeSink
  <2>2. at[p] \in Sinks /\ at[p] \in Nat
    BY <1>6, SinksFact DEF ConsumeSink
  <2>3. /\ processMu' = p /\ item' = item /\ at'[p] = at[p] + 1
        /\ seen' = [seen EXCEPT ![at[p]] = Append(@, item[p])]
    BY <1>6, <2>1 DEF ConsumeSink
  <2>4. seen \in [Sinks -> Seq(Items)]
    BY DEF SinkTypeOK
  <2>5. \A k \in Sinks : k \in Nat
    BY SinksFact
  <2>6. \A k \in Sinks : HasCurrent(k) <=> k < at[p]
    BY <2>1 DEF HasCurrent
  <2>7. \A k \in Sinks : HasCurrent(k)' <=> k < at[p] \/ k = at[p]
    BY <2>1, <2>2, <2>3, <2>5 DEF HasCurrent
  <2>8. \A k \in Sinks : seen'[k] = IF k = at[p] THEN Append(seen[k], item[p]) ELSE seen[k]
    BY <2>2, <2>3, <2>4
  <2>9. ~HasCurrent(at[p])
    BY <2>2, <2>6
  <2>10. ASSUME NEW j \in Sinks, NEW k \in Sinks
         PROVE  /\ (HasCurrent(j)' <=> HasCurrent(k)') => seen'[j] = seen'[k]
                /\ HasCurrent(j)' /\ ~HasCurrent(k)' => seen'[j] = Append(seen'[k], item[p])
    <3> DEFINE m == at[p]
    <3>1. /\ (HasCurrent(j) <=> HasCurrent(k)) => seen[j] = seen[k]
          /\ HasCurrent(j) /\ ~HasCurrent(k) => seen[j] = Append(seen[k], item[p])
      BY <2>1 DEF SeenInv
    <3>2. /\ HasCurrent(j) /\ ~HasCurrent(m) => seen[j] = Append(seen[m], item[p])
          /\ HasCurrent(k) /\ ~HasCurrent(m) => seen[k] = Append(seen[m], item[p])
          /\ ~HasCurrent(j) => seen[j] = seen[m]
          /\ ~HasCurrent(k) => seen[k] = seen[m]
      BY <2>1, <2>2, <2>9 DEF SeenInv
    <3>3. /\ HasCurrent(j)' <=> HasCurrent(j) \/ j = m
          /\ HasCurrent(k)' <=> HasCurrent(k) \/ k = m
      BY <2>6, <2>7
    <3>4. /\ seen'[j] = IF j = m THEN Append(seen[m], item[p]) ELSE seen[j]
          /\ seen'[k] = IF k = m THEN Append(seen[m], item[p]) ELSE seen[k]
      BY <2>8
    <3> HIDE DEF m
    <3>5. QED
      BY <3>1, <3>2, <3>3, <3>4, <2>9 DEF m
  <2>11. QED
    BY <2>1, <2>3, <2>10 DEF SeenInv
<1>7. ASSUME NEW p \in Procs, FinishProcessing(p) PROVE SeenInv'
  <2>1. p = processMu /\ p # Free
    BY <1>7 DEF FinishProcessing
  <2>2. \A k \in Sinks : HasCurrent(k)
    BY <1>7, <2>1, SinksFact DEF FinishProcessing, HasCurrent
  <2>3. \A k \in Sinks : ~HasCurrent(k)'
    BY <1>7 DEF FinishProcessing, HasCurrent
  <2>4. QED
    BY <1>7, <2>2, <2>3 DEF FinishProcessing, SeenInv
<1>8. QED
  BY <1>1, <1>2, <1>3, <1>4, <1>5, <1>6, <1>7, StepCases

\* The invariant of processInfo: mutual exclusion, and what it buys.
ProcessingInv == TypeInv /\ LockInv /\ SeenInv

\* Types, holders, processMu and the sinks' histories together are invariant.
LEMMA ProcessingInvariant == Spec => []ProcessingInv
<1>1. Init => ProcessingInv
  <2>1. ASSUME Init PROVE LockInv /\ SeenInv
    BY <2>1, NoItemAssumption DEF Init, LockInv, SeenInv, HasCurrent, Free
  <2>2. QED
    BY <2>1, InitTypeInv DEF ProcessingInv
<1>2. ProcessingInv /\ [Next]_vars => ProcessingInv'
  BY TypeOKStep, HoldInvStep, RunInvStep, LockInvStep, SeenInvStep
     DEF ProcessingInv, TypeInv
<1>3. QED
  BY <1>1, <1>2, PTL DEF Spec

\* Every sink is given the same items in the same order, although the worker and
\* any number of schedules with a full queue run processInfo concurrently.
THEOREM SinksAgreement == Spec => []SinksAgree
<1>1. ProcessingInv => SinksAgree
  <2> SUFFICES ASSUME ProcessingInv, NEW j \in Sinks, NEW k \in Sinks, j <= k
               PROVE  /\ seen[j] = seen[k] \/ \E x \in InHand : seen[j] = Append(seen[k], x)
                      /\ processMu = Free => seen[j] = seen[k]
    BY DEF SinksAgree
  <2> USE DEF ProcessingInv, TypeInv
  <2>1. CASE HasCurrent(j) <=> HasCurrent(k)
    BY <2>1 DEF SeenInv, HasCurrent
  <2>2. CASE HasCurrent(j) /\ ~HasCurrent(k)
    <3>1. processMu \in Procs /\ processMu # Free
      BY <2>2 DEF HasCurrent, TypeOK, ProcTypeOK
    <3>2. item[processMu] \in InHand
      BY <3>1 DEF LockInv, HoldInv, InHand
    <3>3. QED
      BY <2>2, <3>1, <3>2 DEF SeenInv
  <2>3. CASE ~HasCurrent(j) /\ HasCurrent(k)
    <3>1. j \in Nat /\ k \in Nat /\ processMu \in Procs
      BY <2>3, SinksFact DEF HasCurrent, TypeOK, ProcTypeOK
    <3>2. at[processMu] \in Nat
      BY <3>1, SinksFact DEF TypeOK, ProcTypeOK
    <3>3. FALSE
      BY <2>3, <3>1, <3>2 DEF HasCurrent
    <3>4. QED
      BY <3>3
  <2>4. QED
    BY <2>1, <2>2, <2>3
<1>2. QED
  BY <1>1, ProcessingInvariant, PTL

-----------------------------------------------------------------------------
(* The end of Run *)

\* When Run has returned nothing of it is left running: no capture, no sink call
\* and no recorded error can follow, and processMu is free.
THEOREM QuiescenceAfterRun == Spec => []QuiescentAfterRun
<1>1. ProcessingInv => QuiescentAfterRun
  BY DEF ProcessingInv, TypeInv, TypeOK, ProcTypeOK, HoldInv, RunInv, LockInv,
         QuiescentAfterRun, Free
<1>2. QED
  BY <1>1, ProcessingInvariant, PTL

\* Every step preserves that a counted failure is a recorded error.
LEMMA ErrInvStep == TypeInv /\ ErrInv /\ [Next]_vars => ErrInv'
<1> SUFFICES ASSUME TypeInv, ErrInv, [Next]_vars PROVE ErrInv'
  OBVIOUS
<1> USE DEF TypeInv, TypeOK, RunTypeOK, ProcTypeOK, ErrInv, ErrAfter, ErrorKinds, Procs,
            runVars, procVars, outVars
<1>1. CASE RunStarts \/ Cancel \/ RunReturns \/ UNCHANGED vars
  BY <1>1 DEF RunStarts, Cancel, RunReturns, vars
<1>2. ASSUME NEW s \in Schedules, CaptureFails(s) PROVE ErrInv'
  BY <1>2 DEF CaptureFails, RunInv
<1>3. ASSUME NEW s \in Schedules,
             CaptureSucceeds(s) \/ Enqueue(s) \/ ProcessInline(s) \/ Tick(s)
      PROVE  ErrInv'
  BY <1>3 DEF CaptureSucceeds, Enqueue, ProcessInline, Tick
<1>4. CASE Dequeue
  BY <1>4 DEF Dequeue
<1>5. ASSUME NEW p \in Procs, Leave(p) \/ LockProcessMu(p) PROVE ErrInv'
  BY <1>5 DEF Leave, LockProcessMu
<1>6. ASSUME NEW p \in Procs, ConsumeSink(p) PROVE ErrInv'
  <2>1. runPc = "waiting" /\ runPc' = "waiting"
    BY <1>6 DEF ConsumeSink, RunInv
  <2>2. CASE firstErr' = ErrAfter("sink")
    BY <2>1, <2>2
  <2>3. CASE /\ firstErr' = firstErr
             /\ sinkStats' = [sinkStats EXCEPT ![SinkName[at[p]]] = AfterSuccess(@)]
    <3>1. /\ DOMAIN sinkStats' = DOMAIN sinkStats
          /\ \A n \in DOMAIN sinkStats : sinkStats'[n].failure = sinkStats[n].failure
      BY <2>3 DEF AfterSuccess
    <3>2. QED
      BY <2>1, <2>3, <3>1
  <2>4. QED
    BY <1>6, <2>2, <2>3 DEF ConsumeSink
<1>7. ASSUME NEW p \in Procs, FinishProcessing(p) PROVE ErrInv'
  BY <1>7 DEF FinishProcessing, RunInv
<1>8. QED
  BY <1>1, <1>2, <1>3, <1>4, <1>5, <1>6, <1>7, StepCases

\* A recorded error is never masked: Run returns the context's error only when no
\* capture, sink or responder failed, and not when a sink's failure was counted.
THEOREM ErrorsReported == Spec => []RunReportsErrors
<1>1. Init => TypeInv /\ ErrInv
  <2>1. ASSUME Init PROVE ErrInv
    BY <2>1 DEF Init, ErrInv, NoStat
  <2>2. QED
    BY <2>1, InitTypeInv
<1>2. TypeInv /\ ErrInv /\ [Next]_vars => (TypeInv /\ ErrInv)'
  BY TypeOKStep, HoldInvStep, RunInvStep, ErrInvStep DEF TypeInv
<1>3. TypeInv /\ ErrInv => RunReportsErrors
  BY DEF TypeInv, TypeOK, RunTypeOK, ErrInv, RunReportsErrors, ErrorKinds
<1>4. QED
  BY <1>1, <1>2, <1>3, PTL DEF Spec

\* The invariant TLC checks on small instances holds for every set of schedules,
\* list of sinks and queue size.
THEOREM InductiveInvariant == Spec => []IInv
<1>1. Init => TypeInv /\ ErrInv
  <2>1. ASSUME Init PROVE ErrInv
    BY <2>1 DEF Init, ErrInv, NoStat
  <2>2. QED
    BY <2>1, InitTypeInv
<1>2. TypeInv /\ ErrInv /\ [Next]_vars => (TypeInv /\ ErrInv)'
  BY TypeOKStep, HoldInvStep, RunInvStep, ErrInvStep DEF TypeInv
<1>3. ProcessingInv /\ TypeInv /\ ErrInv => IInv
  BY DEF ProcessingInv, TypeInv, IInv
<1>4. QED
  BY <1>1, <1>2, <1>3, ProcessingInvariant, PTL DEF Spec

-----------------------------------------------------------------------------
(* The statistics of the sinks *)

\* The statistics of a sink with a type name of its own count its calls.
StatInv ==
  \A k \in Sinks : NamedAlone(k) =>
    sinkStats[SinkName[k]].success + sinkStats[SinkName[k]].failure = Len(seen[k])

\* Only a sink call moves statistics and what sinks were given.
LEMMA StatsQuiet ==
  ASSUME [Next]_vars, \A p \in Procs : ~ConsumeSink(p)
  PROVE  UNCHANGED <<sinkStats, seen>>
<1> USE DEF outVars
<1>1. CASE RunStarts \/ Cancel \/ RunReturns \/ UNCHANGED vars
  BY <1>1 DEF RunStarts, Cancel, RunReturns, vars
<1>2. ASSUME NEW s \in Schedules,
             \/ CaptureFails(s) \/ CaptureSucceeds(s)
             \/ Enqueue(s) \/ ProcessInline(s) \/ Tick(s)
      PROVE  UNCHANGED <<sinkStats, seen>>
  BY <1>2 DEF CaptureFails, CaptureSucceeds, Enqueue, ProcessInline, Tick
<1>3. CASE Dequeue
  BY <1>3 DEF Dequeue
<1>4. ASSUME NEW p \in Procs, Leave(p) \/ LockProcessMu(p) \/ FinishProcessing(p)
      PROVE  UNCHANGED <<sinkStats, seen>>
  BY <1>4 DEF Leave, LockProcessMu, FinishProcessing
<1>5. QED
  BY <1>1, <1>2, <1>3, <1>4, StepCases

\* A sink call is counted for the sink that was called and for no other with a type
\* name of its own; only a success takes lastErr back.
LEMMA StatsCounted ==
  ASSUME TypeInv, NEW p \in Procs, ConsumeSink(p), NEW k \in Sinks, NamedAlone(k)
  PROVE  LET old == sinkStats[SinkName[k]] new == sinkStats'[SinkName[k]] IN
         IF k = at[p]
           THEN /\ Len(seen'[k]) = Len(seen[k]) + 1
                /\ new.success + new.failure = old.success + old.failure + 1
                /\ old.lastErr /\ ~new.lastErr => new.success > old.success
           ELSE seen'[k] = seen[k] /\ new = old
<1> DEFINE n == SinkName[k]
<1>1. /\ at[p] \in Sinks /\ seen' = [seen EXCEPT ![at[p]] = Append(@, item[p])]
      /\ \/ sinkStats' = [sinkStats EXCEPT ![SinkName[at[p]]] = AfterSuccess(@)]
         \/ sinkStats' = [sinkStats EXCEPT ![SinkName[at[p]]] = AfterFailure(@)]
  BY DEF ConsumeSink
<1>2. /\ sinkStats \in [StatNames -> Stat] /\ seen \in [Sinks -> Seq(Items)]
      /\ n \in StatNames /\ sinkStats[n] \in Stat
  BY DEF TypeInv, TypeOK, SinkTypeOK, StatNames
<1>3. item[p] \in Items
  BY DEF ConsumeSink, TypeInv, TypeOK, ProcTypeOK, HoldInv
<1>4. CASE k = at[p]
  <2>1. seen'[k] = Append(seen[k], item[p]) /\ Len(seen'[k]) = Len(seen[k]) + 1
    BY <1>1, <1>2, <1>3, <1>4
  <2>2. sinkStats'[n] \in {AfterSuccess(sinkStats[n]), AfterFailure(sinkStats[n])}
    BY <1>1, <1>2, <1>4
  <2>3. ASSUME NEW st \in Stat, NEW new \in {AfterSuccess(st), AfterFailure(st)}
        PROVE  /\ new.success + new.failure = st.success + st.failure + 1
               /\ ~new.lastErr => new.success > st.success
    <3>1. st.success \in Nat /\ st.failure \in Nat
      BY DEF Stat
    <3>2. CASE new = AfterSuccess(st)
      BY <3>1, <3>2 DEF AfterSuccess
    <3>3. CASE new = AfterFailure(st)
      BY <3>1, <3>3 DEF AfterFailure
    <3>4. QED
      BY <3>2, <3>3
  <2>4. QED
    BY <1>2, <1>4, <2>1, <2>2, <2>3
<1>5. CASE k # at[p]
  <2>1. SinkName[at[p]] # n
    BY <1>1, <1>5 DEF NamedAlone
  <2>2. QED
    BY <1>1, <1>2, <1>5, <2>1
<1>6. QED
  BY <1>4, <1>5

\* The statistics of a sink count its calls, by whatever goroutine, each once, and its last
\* error is there only while no later call succeeded: every step keeps the count and has
\* the property.
LEMMA StatsStep ==
  ASSUME TypeInv, StatInv, [Next]_vars
  PROVE  /\ StatInv'
         /\ \A k \in Sinks : NamedAlone(k) =>
              LET old == sinkStats[SinkName[k]] new == sinkStats'[SinkName[k]]
              IN /\ new.success + new.failure = Len(seen'[k])
                 /\ old.lastErr /\ ~new.lastErr => seen'[k] # seen[k] /\ new.success > old.success
<1>1. CASE \A p \in Procs : ~ConsumeSink(p)
  <2>1. UNCHANGED <<sinkStats, seen>>
    BY <1>1, StatsQuiet
  <2>2. QED
    BY <2>1 DEF StatInv, NamedAlone
<1>2. ASSUME NEW p \in Procs, ConsumeSink(p), NEW k \in Sinks, NamedAlone(k)
      PROVE  LET old == sinkStats[SinkName[k]] new == sinkStats'[SinkName[k]]
             IN /\ new.success + new.failure = Len(seen'[k])
                /\ old.lastErr /\ ~new.lastErr => seen'[k] # seen[k] /\ new.success > old.success
  <2>1. /\ sinkStats[SinkName[k]].success + sinkStats[SinkName[k]].failure = Len(seen[k])
        /\ Len(seen[k]) \in Nat
    BY <1>2 DEF StatInv, TypeInv, TypeOK, SinkTypeOK
  <2>2. CASE k = at[p]
    BY <1>2, <2>1, <2>2, StatsCounted
  <2>3. CASE k # at[p]
    BY <1>2, <2>1, <2>3, StatsCounted
  <2>4. QED
    BY <2>2, <2>3
<1>3. CASE \E p \in Procs : ConsumeSink(p)
  BY <1>2, <1>3 DEF StatInv, NamedAlone
<1>4. QED
  BY <1>1, <1>3

\* Types and counts are invariant.
LEMMA StatsInvariant == Spec => [](TypeInv /\ StatInv)
<1>1. Init => StatInv
  <2> SUFFICES ASSUME Init, NEW k \in Sinks
               PROVE  sinkStats[SinkName[k]].success + sinkStats[SinkName[k]].failure = Len(seen[k])
    BY DEF StatInv
  <2>1. sinkStats[SinkName[k]] = NoStat /\ seen[k] = <<>>
    BY DEF Init, StatNames
  <2>2. QED
    BY <2>1 DEF NoStat
<1>2. TypeInv /\ StatInv /\ [Next]_vars => (TypeInv /\ StatInv)'
  BY TypeOKStep, HoldInvStep, RunInvStep, StatsStep DEF TypeInv
<1>3. QED
  BY <1>1, <1>2, InitTypeInv, PTL DEF Spec

\* Each call of a sink is counted once and a last error stays until a later call succeeds,
\* although the worker and any number of schedules call the sinks: recordSinkResult finds
\* the entry by the sink's type name, so the sink needs one of its own.
THEOREM StatsCountCalls == Spec => StatsPerSink
<1>1. TypeInv /\ StatInv /\ [Next]_vars =>
        [\A k \in Sinks : NamedAlone(k) =>
           LET old == sinkStats[SinkName[k]] new == sinkStats'[SinkName[k]]
           IN /\ new.success + new.failure = Len(seen'[k])
              /\ old.lastErr /\ ~new.lastErr => seen'[k] # seen[k] /\ new.success > old.success]_vars
  BY StatsStep
<1>2. QED
  BY <1>1, StatsInvariant, PTL DEF Spec, StatsPerSink

-----------------------------------------------------------------------------
(* Delivery: no item is lost or repeated between its capture and the sinks *)

\* Appending adds the element, and repeats nothing that was not there.
LEMMA AppendFact ==
  ASSUME NEW S, NEW q \in Seq(S), NEW x \in S
  PROVE  /\ Elems(Append(q, x)) = Elems(q) \cup {x}
         /\ NoRepeats(q) /\ x \notin Elems(q) => NoRepeats(Append(q, x))
<1>1. /\ Len(Append(q, x)) = Len(q) + 1 /\ Len(q) \in Nat
      /\ DOMAIN q = 1..Len(q) /\ DOMAIN Append(q, x) = 1..(Len(q) + 1)
      /\ \A i \in 1..(Len(q) + 1) : Append(q, x)[i] = IF i = Len(q) + 1 THEN x ELSE q[i]
  BY AppendProperties, LenProperties
<1>2. Elems(Append(q, x)) = Elems(q) \cup {x}
  BY <1>1 DEF Elems
<1>3. ASSUME NoRepeats(q), x \notin Elems(q) PROVE NoRepeats(Append(q, x))
  BY <1>1, <1>3 DEF NoRepeats, Elems
<1>4. QED
  BY <1>2, <1>3

\* Taking the head off leaves the other elements.
LEMMA TailFact ==
  ASSUME NEW S, NEW q \in Seq(S), q # <<>>, NoRepeats(q)
  PROVE  /\ Head(q) \in S /\ Tail(q) \in Seq(S) /\ NoRepeats(Tail(q))
         /\ Elems(q) = {Head(q)} \cup Elems(Tail(q))
         /\ Head(q) \notin Elems(Tail(q))
<1>1. /\ Len(q) \in Nat \ {0} /\ DOMAIN q = 1..Len(q) /\ Head(q) = q[1] /\ Head(q) \in S
      /\ Tail(q) \in Seq(S) /\ DOMAIN Tail(q) = 1..(Len(q) - 1)
      /\ \A i \in 1..(Len(q) - 1) : Tail(q)[i] = q[i + 1]
  BY HeadTailProperties, EmptySeq, LenProperties
<1>2. \A i \in 2..Len(q) : i - 1 \in 1..(Len(q) - 1) /\ Tail(q)[i - 1] = q[i]
  BY <1>1
<1>3. Elems(q) = {Head(q)} \cup Elems(Tail(q))
  <2>1. \A i \in 1..Len(q) : i = 1 \/ i \in 2..Len(q)
    BY <1>1
  <2>2. \A i \in 1..(Len(q) - 1) : i + 1 \in 1..Len(q)
    BY <1>1
  <2>3. Elems(q) \subseteq {Head(q)} \cup Elems(Tail(q))
    <3>1. \A i \in 2..Len(q) : q[i] \in Elems(Tail(q))
      BY <1>1, <1>2 DEF Elems
    <3>2. QED
      BY <1>1, <2>1, <3>1 DEF Elems
  <2>4. {Head(q)} \cup Elems(Tail(q)) \subseteq Elems(q)
    BY <1>1, <2>2 DEF Elems
  <2>5. QED
    BY <2>3, <2>4
<1>4. Head(q) \notin Elems(Tail(q)) /\ NoRepeats(Tail(q))
  <2>1. \A i, j \in 1..(Len(q) - 1) : i + 1 \in 1..Len(q) /\ i + 1 # 1 /\ (i # j => i + 1 # j + 1)
    BY <1>1
  <2>2. QED
    BY <1>1, <2>1 DEF Elems, NoRepeats
<1>5. QED
  BY <1>1, <1>3, <1>4

-----------------------------------------------------------------------------
(* The inductive invariant *)

\* What is in the queue or in hand was captured and is nowhere else.
PlaceInv ==
  /\ \A p \in Procs : item[p] # NoItem => item[p] \in CapturedItems
  /\ Elems(pipelineCh) \subseteq CapturedItems
  /\ \A p, q \in Procs : p # q /\ item[p] # NoItem => item[p] # item[q]
  /\ \A p \in Procs : item[p] \notin Elems(pipelineCh)
  /\ NoRepeats(pipelineCh)

\* Sink k was given each captured item once, or is still to be given it.
SinkInv(k) ==
  /\ CapturedItems = Elems(seen[k]) \cup PendingFor(k)
  /\ Elems(seen[k]) \cap PendingFor(k) = {}
  /\ NoRepeats(seen[k])

DeliveryInv == PlaceInv /\ \A k \in Sinks : SinkInv(k)

\* Captured items are items.
LEMMA CapturedFact == CapturedItems \subseteq Items /\ NoItem \notin CapturedItems
<1>1. CapturedItems \subseteq Items
  BY BoundsAssumption DEF CapturedItems, Items
<1>2. QED
  BY <1>1, NoItemAssumption

\* Initially nothing was captured.
LEMMA InitDelivery == Init => DeliveryInv
<1> SUFFICES ASSUME Init PROVE DeliveryInv
  OBVIOUS
<1>1. CapturedItems = {}
  BY DEF Init, CapturedItems
<1>2. Elems(<<>>) = {} /\ NoRepeats(<<>>)
  BY DEF Elems, NoRepeats
<1>3. PlaceInv
  <2>1. \A p \in Procs : item[p] = NoItem
    BY DEF Init
  <2>2. pipelineCh = <<>>
    BY DEF Init
  <2>3. QED
    BY <1>2, <2>1, <2>2 DEF PlaceInv
<1>4. ASSUME NEW k \in Sinks PROVE SinkInv(k)
  <2>1. seen[k] = <<>> /\ PendingFor(k) = {}
    BY <1>2, <1>4 DEF Init, PendingFor, HoldsFor
  <2>2. QED
    BY <1>1, <1>2, <2>1 DEF SinkInv
<1>5. QED
  BY <1>3, <1>4 DEF DeliveryInv

\* A step that leaves captures, items, queue and sinks alone, and moves goroutines
\* outside the calls of sinks only, changes nothing.
LEMMA QuietDelivery ==
  ASSUME DeliveryInv, UNCHANGED <<captured, item, pipelineCh, seen>>,
         \A k \in Sinks : \A p \in Procs : HoldsFor(p, k)' <=> HoldsFor(p, k)
  PROVE  DeliveryInv'
<1>1. CapturedItems' = CapturedItems
  BY DEF CapturedItems
<1>2. \A k \in Sinks : PendingFor(k)' = PendingFor(k)
  BY DEF PendingFor
<1>3. QED
  BY <1>1, <1>2 DEF DeliveryInv, PlaceInv, SinkInv

\* RunStarts finds nobody with an item; the other steps that move no item leave the
\* calls of sinks alone, or begin them.
LEMMA MovesDelivery ==
  ASSUME TypeInv, DeliveryInv,
         \/ RunStarts \/ Cancel \/ RunReturns \/ UNCHANGED vars
         \/ \E s \in Schedules : CaptureFails(s) \/ ProcessInline(s) \/ Tick(s)
         \/ \E p \in Procs : Leave(p) \/ LockProcessMu(p)
  PROVE  DeliveryInv'
<1> USE GoroutinesAssumption DEF Procs
<1> USE DEF TypeInv, TypeOK, ProcTypeOK
<1>1. \A p \in Procs : at[p] \in Nat
  BY SinksFact
<1>2. CASE RunStarts
  <2>1. \A p \in Procs : item[p] = NoItem
    BY <1>2 DEF RunStarts, RunInv, HoldInv
  <2>2. \A k \in Sinks : \A p \in Procs : HoldsFor(p, k)' <=> HoldsFor(p, k)
    BY <1>2, <2>1 DEF RunStarts, HoldsFor
  <2>3. QED
    BY <1>2, <2>2, QuietDelivery DEF RunStarts, outVars
<1>3. CASE Cancel \/ RunReturns \/ UNCHANGED vars
  BY <1>3, QuietDelivery DEF Cancel, RunReturns, vars, procVars, outVars, HoldsFor
<1>4. ASSUME NEW s \in Schedules, CaptureFails(s) \/ ProcessInline(s) \/ Tick(s)
      PROVE  DeliveryInv'
  <2>1. \A k \in Sinks : \A p \in Procs : HoldsFor(p, k)' <=> HoldsFor(p, k)
    BY <1>4 DEF CaptureFails, ProcessInline, Tick, HoldsFor
  <2>2. QED
    BY <1>4, <2>1, QuietDelivery DEF CaptureFails, ProcessInline, Tick, outVars
<1>5. ASSUME NEW q \in Procs, Leave(q) PROVE DeliveryInv'
  <2>1. \A k \in Sinks : \A p \in Procs : HoldsFor(p, k)' <=> HoldsFor(p, k)
    BY <1>5 DEF Leave, HoldsFor
  <2>2. QED
    BY <1>5, <2>1, QuietDelivery DEF Leave, outVars
<1>6. ASSUME NEW q \in Procs, LockProcessMu(q) PROVE DeliveryInv'
  <2>1. \A k \in Sinks : k \in Nat /\ 1 <= k
    BY SinksFact
  <2>2. \A k \in Sinks : \A p \in Procs : HoldsFor(p, k)' <=> HoldsFor(p, k)
    BY <1>6, <2>1 DEF LockProcessMu, HoldsFor
  <2>3. QED
    BY <1>6, <2>2, QuietDelivery DEF LockProcessMu, outVars
<1>7. QED
  BY <1>2, <1>3, <1>4, <1>5, <1>6

\* A capture adds an item that nobody has.
LEMMA CaptureDelivery ==
  ASSUME TypeInv, DeliveryInv, NEW s \in Schedules, CaptureSucceeds(s)
  PROVE  /\ DeliveryInv'
         /\ \E x \in Schedules \X (1..MaxCaptures) :
              x \notin CapturedItems /\ CapturedItems' = CapturedItems \cup {x}
<1> USE GoroutinesAssumption DEF Procs
<1> DEFINE x == <<s, captured[s] + 1>>
<1>1. captured \in [Schedules -> 0..MaxCaptures] /\ captured[s] < MaxCaptures
  BY DEF CaptureSucceeds, TypeInv, TypeOK, RunTypeOK
<1>2. x \in Schedules \X (1..MaxCaptures) /\ x \notin CapturedItems
  BY <1>1, BoundsAssumption DEF CapturedItems
<1>3. captured' = [captured EXCEPT ![s] = captured[s] + 1]
  BY DEF CaptureSucceeds
<1>4. CapturedItems' = CapturedItems \cup {x}
  <2>1. ASSUME NEW y \in Schedules \X (1..MaxCaptures)
        PROVE  y[2] <= captured'[y[1]] <=> y[2] <= captured[y[1]] \/ y = x
    <3>1. PICK r \in Schedules, n \in 1..MaxCaptures : y = <<r, n>>
      OBVIOUS
    <3>2. CASE r = s
      <4>1. captured'[s] = captured[s] + 1 /\ captured[s] \in Nat /\ n \in Nat
        BY <1>1, <1>3, BoundsAssumption
      <4>2. QED
        BY <3>1, <3>2, <4>1
    <3>3. CASE r # s
      BY <1>1, <1>3, <3>1, <3>3
    <3>4. QED
      BY <3>2, <3>3
  <2>2. QED
    BY <1>2, <2>1 DEF CapturedItems
<1>5. /\ item' = [item EXCEPT ![s] = x] /\ pc' = [pc EXCEPT ![s] = "send"]
      /\ UNCHANGED <<at, pipelineCh, seen>>
  BY DEF CaptureSucceeds, outVars
<1>6. item \in [Procs -> Items \cup {NoItem}] /\ pc[s] = "capture" /\ DOMAIN pc = Procs
  BY DEF CaptureSucceeds, TypeInv, TypeOK, ProcTypeOK
<1>7. item[s] = NoItem /\ s \in Procs
  BY <1>6 DEF TypeInv, HoldInv
<1>8. x # NoItem
  <2>1. x \in CapturedItems'
    BY <1>4
  <2>2. x \in Items
    BY <1>2, BoundsAssumption DEF Items
  <2>3. QED
    BY <2>2, NoItemAssumption
<1>9. \A p \in Procs : item'[p] = IF p = s THEN x ELSE item[p]
  BY <1>5, <1>6
<1> HIDE DEF x
<1>10. PlaceInv'
  <2>1. \A p \in Procs : item'[p] # NoItem => item'[p] \in CapturedItems'
    BY <1>4, <1>9 DEF DeliveryInv, PlaceInv
  <2>2. \A p, q \in Procs : p # q /\ item'[p] # NoItem => item'[p] # item'[q]
    BY <1>2, <1>8, <1>9 DEF DeliveryInv, PlaceInv
  <2>3. \A p \in Procs : item'[p] \notin Elems(pipelineCh)
    BY <1>2, <1>9 DEF DeliveryInv, PlaceInv
  <2>4. QED
    BY <1>4, <1>5, <2>1, <2>2, <2>3 DEF DeliveryInv, PlaceInv
<1>11. ASSUME NEW k \in Sinks PROVE SinkInv(k)'
  <2>1. \A p \in Procs : HoldsFor(p, k)' <=> HoldsFor(p, k) \/ p = s
    BY <1>5, <1>6, <1>7, <1>8, <1>9 DEF HoldsFor
  <2>2. PendingFor(k)' = PendingFor(k) \cup {x}
    <3>1. ~HoldsFor(s, k)
      BY <1>7 DEF HoldsFor
    <3>2. QED
      BY <1>5, <1>7, <1>9, <2>1, <3>1 DEF PendingFor
  <2>3. x \notin Elems(seen[k])
    BY <1>2 DEF DeliveryInv, SinkInv
  <2>4. QED
    BY <1>4, <1>5, <2>2, <2>3 DEF DeliveryInv, SinkInv
<1>12. QED
  BY <1>2, <1>4, <1>10, <1>11 DEF DeliveryInv

\* The queue takes the item over.
LEMMA EnqueueDelivery ==
  ASSUME TypeInv, DeliveryInv, NEW s \in Schedules, Enqueue(s)
  PROVE  DeliveryInv'
<1> USE GoroutinesAssumption DEF Procs
<1> DEFINE x == item[s]
<1>1. /\ pipelineCh' = Append(pipelineCh, x) /\ item' = [item EXCEPT ![s] = NoItem]
      /\ pc' = [pc EXCEPT ![s] = "select"] /\ UNCHANGED <<at, seen, captured>>
  BY DEF Enqueue, outVars
<1>2. item \in [Procs -> Items \cup {NoItem}] /\ pc[s] = "send" /\ DOMAIN pc = Procs
  BY DEF Enqueue, TypeInv, TypeOK, ProcTypeOK
<1>3. s \in Procs /\ x # NoItem /\ x \in Items
  BY <1>2 DEF TypeInv, HoldInv
<1>4. pipelineCh \in Seq(Items)
  BY DEF TypeInv, TypeOK, QueueTypeOK
<1>5. x \in CapturedItems /\ x \notin Elems(pipelineCh) /\ NoRepeats(pipelineCh)
  BY <1>3 DEF DeliveryInv, PlaceInv
<1>6. \A p \in Procs : item'[p] = IF p = s THEN NoItem ELSE item[p]
  BY <1>1, <1>2
<1>7. \A p \in Procs : p # s => item[p] # x
  BY <1>3 DEF DeliveryInv, PlaceInv
<1>8. NoItem \notin Elems(pipelineCh) /\ CapturedItems' = CapturedItems
  <2>1. CapturedItems' = CapturedItems
    BY <1>1 DEF CapturedItems
  <2>2. QED
    BY <2>1, CapturedFact DEF DeliveryInv, PlaceInv
<1> HIDE DEF x
<1>9. Elems(pipelineCh') = Elems(pipelineCh) \cup {x} /\ NoRepeats(pipelineCh')
  BY <1>1, <1>3, <1>4, <1>5, AppendFact
<1>10. PlaceInv'
  <2>1. \A p \in Procs : item'[p] # NoItem => item'[p] \in CapturedItems'
    BY <1>6, <1>8 DEF DeliveryInv, PlaceInv
  <2>2. \A p, q \in Procs : p # q /\ item'[p] # NoItem => item'[p] # item'[q]
    BY <1>6 DEF DeliveryInv, PlaceInv
  <2>3. \A p \in Procs : item'[p] \notin Elems(pipelineCh')
    BY <1>3, <1>6, <1>7, <1>8, <1>9 DEF DeliveryInv, PlaceInv
  <2>4. Elems(pipelineCh') \subseteq CapturedItems'
    BY <1>5, <1>8, <1>9 DEF DeliveryInv, PlaceInv
  <2>5. QED
    BY <1>9, <2>1, <2>2, <2>3, <2>4 DEF PlaceInv, Elems, NoRepeats
<1>11. ASSUME NEW k \in Sinks PROVE SinkInv(k)'
  <2>1. \A p \in Procs : HoldsFor(p, k)' <=> HoldsFor(p, k) /\ p # s
    BY <1>1, <1>2, <1>6 DEF HoldsFor
  <2>2. HoldsFor(s, k)
    BY <1>2, <1>3 DEF HoldsFor, x
  <2>3. Elems(pipelineCh)' = Elems(pipelineCh) \cup {x}
    BY <1>9 DEF Elems
  <2>4. PendingFor(k)' = PendingFor(k)
    <3>1. {item'[p] : p \in {q \in Procs : HoldsFor(q, k)'}} \cup {x}
            = {item[p] : p \in {q \in Procs : HoldsFor(q, k)}}
      BY <1>3, <1>6, <2>1, <2>2 DEF x
    <3>2. QED
      BY <2>3, <3>1 DEF PendingFor
  <2>5. QED
    BY <1>1, <1>8, <2>4 DEF DeliveryInv, SinkInv
<1>12. QED
  BY <1>10, <1>11 DEF DeliveryInv

\* The worker takes the head of the queue over.
LEMMA DequeueDelivery ==
  ASSUME TypeInv, DeliveryInv, Dequeue
  PROVE  DeliveryInv'
<1> USE GoroutinesAssumption DEF Procs
<1> DEFINE x == Head(pipelineCh)
<1>1. /\ pipelineCh # <<>> /\ pipelineCh' = Tail(pipelineCh) /\ item' = [item EXCEPT ![Worker] = x]
      /\ pc' = [pc EXCEPT ![Worker] = "lock"] /\ UNCHANGED <<at, seen, captured>>
  BY DEF Dequeue, outVars
<1>2. item \in [Procs -> Items \cup {NoItem}] /\ pc[Worker] = "select" /\ DOMAIN pc = Procs
  BY DEF Dequeue, TypeInv, TypeOK, ProcTypeOK
<1>3. Worker \in Procs /\ item[Worker] = NoItem
  BY <1>2 DEF TypeInv, HoldInv
<1>4. pipelineCh \in Seq(Items) /\ NoRepeats(pipelineCh)
  BY DEF TypeInv, TypeOK, QueueTypeOK, DeliveryInv, PlaceInv
<1>5. /\ x \in Items /\ NoRepeats(pipelineCh') /\ x \notin Elems(pipelineCh')
      /\ Elems(pipelineCh) = {x} \cup Elems(pipelineCh')
  BY <1>1, <1>4, TailFact
<1>6. x # NoItem
  BY <1>5, NoItemAssumption
<1>7. \A p \in Procs : item'[p] = IF p = Worker THEN x ELSE item[p]
  BY <1>1, <1>2
<1>8. CapturedItems' = CapturedItems
  BY <1>1 DEF CapturedItems
<1> HIDE DEF x
<1>9. PlaceInv'
  <2>1. x \in CapturedItems /\ \A p \in Procs : item[p] # x
    BY <1>5 DEF DeliveryInv, PlaceInv
  <2>2. \A p \in Procs : item'[p] # NoItem => item'[p] \in CapturedItems'
    BY <1>7, <1>8, <2>1 DEF DeliveryInv, PlaceInv
  <2>3. \A p, q \in Procs : p # q /\ item'[p] # NoItem => item'[p] # item'[q]
    BY <1>7, <2>1 DEF DeliveryInv, PlaceInv
  <2>4. \A p \in Procs : item'[p] \notin Elems(pipelineCh')
    BY <1>5, <1>7 DEF DeliveryInv, PlaceInv
  <2>5. Elems(pipelineCh') \subseteq CapturedItems'
    BY <1>5, <1>8 DEF DeliveryInv, PlaceInv
  <2>6. QED
    BY <1>5, <2>2, <2>3, <2>4, <2>5 DEF PlaceInv, Elems, NoRepeats
<1>10. ASSUME NEW k \in Sinks PROVE SinkInv(k)'
  <2>1. \A p \in Procs : HoldsFor(p, k)' <=> HoldsFor(p, k) \/ p = Worker
    BY <1>1, <1>2, <1>6, <1>7 DEF HoldsFor
  <2>2. ~HoldsFor(Worker, k)
    BY <1>3 DEF HoldsFor
  <2>3. Elems(pipelineCh)' = Elems(pipelineCh')
    BY DEF Elems
  <2>4. PendingFor(k)' = PendingFor(k)
    <3>1. {item'[p] : p \in {q \in Procs : HoldsFor(q, k)'}}
            = {item[p] : p \in {q \in Procs : HoldsFor(q, k)}} \cup {x}
      BY <1>3, <1>7, <2>1, <2>2
    <3>2. QED
      BY <1>5, <2>3, <3>1 DEF PendingFor
  <2>5. QED
    BY <1>1, <1>8, <2>4 DEF DeliveryInv, SinkInv
<1>11. QED
  BY <1>9, <1>10 DEF DeliveryInv

\* A sink is given the item in processing, which it had not been given.
LEMMA ConsumeDelivery ==
  ASSUME TypeInv, DeliveryInv, NEW p \in Procs, ConsumeSink(p)
  PROVE  /\ DeliveryInv'
         /\ item[p] \in CapturedItems /\ item[p] \notin Elems(seen[at[p]])
<1> DEFINE x == item[p]
<1> DEFINE m == at[p]
<1>1. /\ m \in Sinks /\ seen' = [seen EXCEPT ![m] = Append(@, x)] /\ at' = [at EXCEPT ![p] = m + 1]
      /\ UNCHANGED <<pc, item, pipelineCh, captured>>
  BY DEF ConsumeSink
<1>2. /\ at \in [Procs -> 1..(Len(SinkName) + 1)] /\ seen \in [Sinks -> Seq(Items)] /\ pc[p] = "sinks"
      /\ item \in [Procs -> Items \cup {NoItem}]
  BY DEF ConsumeSink, TypeInv, TypeOK, ProcTypeOK, SinkTypeOK
<1>3. x # NoItem /\ x \in Items
  BY <1>2 DEF TypeInv, HoldInv
<1>4. \A k \in Sinks : k \in Nat /\ seen'[k] = IF k = m THEN Append(seen[k], x) ELSE seen[k]
  BY <1>1, <1>2, SinksFact
<1>5. \A q \in Procs : at'[q] = IF q = p THEN m + 1 ELSE at[q]
  BY <1>1, <1>2
<1>6. CapturedItems' = CapturedItems /\ Elems(pipelineCh)' = Elems(pipelineCh)
  BY <1>1 DEF CapturedItems, Elems
<1>7. /\ x \in CapturedItems /\ x \notin Elems(pipelineCh)
      /\ \A q \in Procs : q # p => item[q] # x
  BY <1>3 DEF DeliveryInv, PlaceInv
<1>8. HoldsFor(p, m) /\ m \in Nat
  BY <1>1, <1>2, <1>3, <1>4 DEF HoldsFor
<1>9. x \in PendingFor(m) /\ x \notin Elems(seen[m])
  <2>1. x \in PendingFor(m)
    BY <1>8 DEF PendingFor
  <2>2. QED
    BY <1>1, <2>1 DEF DeliveryInv, SinkInv
<1> HIDE DEF x, m
<1>10. PlaceInv'
  BY <1>1, <1>6 DEF DeliveryInv, PlaceInv
<1>11. ASSUME NEW k \in Sinks PROVE SinkInv(k)'
  <2>1. CASE k = m
    <3>1. \A q \in Procs : HoldsFor(q, k)' <=> HoldsFor(q, k) /\ q # p
      BY <1>1, <1>2, <1>5, <1>8, <2>1 DEF HoldsFor
    <3>2. {item'[q] : q \in {r \in Procs : HoldsFor(r, k)'}}
            = {item[q] : q \in {r \in Procs : HoldsFor(r, k)}} \ {x}
      BY <1>1, <1>7, <3>1 DEF x
    <3>3. PendingFor(k)' = PendingFor(k) \ {x}
      BY <1>6, <1>7, <3>2 DEF PendingFor
    <3>4. Elems(seen'[k]) = Elems(seen[k]) \cup {x} /\ NoRepeats(seen'[k])
      <4>1. seen[k] \in Seq(Items) /\ NoRepeats(seen[k]) /\ x \notin Elems(seen[k])
        BY <1>2, <1>9, <2>1 DEF DeliveryInv, SinkInv
      <4>2. QED
        BY <1>3, <1>4, <2>1, <4>1, AppendFact
    <3>5. /\ CapturedItems = Elems(seen[k]) \cup PendingFor(k)
          /\ Elems(seen[k]) \cap PendingFor(k) = {} /\ x \in PendingFor(k)
      BY <1>9, <2>1 DEF DeliveryInv, SinkInv
    <3>6. Elems(seen[k])' = Elems(seen'[k]) /\ NoRepeats(seen[k])' = NoRepeats(seen'[k])
      BY DEF Elems, NoRepeats
    <3>7. QED
      BY <1>6, <3>3, <3>4, <3>5, <3>6 DEF SinkInv
  <2>2. CASE k # m
    <3>1. \A q \in Procs : HoldsFor(q, k)' <=> HoldsFor(q, k)
      <4>1. m <= k <=> m + 1 <= k
        BY <1>4, <1>8, <2>2
      <4>2. QED
        BY <1>1, <1>5, <4>1 DEF HoldsFor, m
    <3>2. PendingFor(k)' = PendingFor(k)
      BY <1>1, <1>6, <3>1 DEF PendingFor
    <3>3. seen'[k] = seen[k]
      BY <1>4, <2>2
    <3>4. QED
      BY <1>6, <3>2, <3>3 DEF DeliveryInv, SinkInv, Elems, NoRepeats
  <2>3. QED
    BY <2>1, <2>2
<1>12. QED
  BY <1>7, <1>9, <1>10, <1>11 DEF DeliveryInv, x, m

\* When processInfo ends, every sink has the item.
LEMMA FinishDelivery ==
  ASSUME TypeInv, DeliveryInv, NEW p \in Procs, FinishProcessing(p)
  PROVE  DeliveryInv'
<1>1. /\ item' = [item EXCEPT ![p] = NoItem] /\ pc' = [pc EXCEPT ![p] = "select"]
      /\ UNCHANGED <<at, seen, pipelineCh, captured>>
  BY DEF FinishProcessing
<1>2. /\ at[p] \in 1..(Len(SinkName) + 1) /\ at[p] \notin Sinks /\ pc[p] = "sinks"
      /\ item \in [Procs -> Items \cup {NoItem}] /\ DOMAIN pc = Procs
  BY DEF FinishProcessing, TypeInv, TypeOK, ProcTypeOK
<1>3. \A q \in Procs : item'[q] = IF q = p THEN NoItem ELSE item[q]
  BY <1>1, <1>2
<1>4. CapturedItems' = CapturedItems /\ Elems(pipelineCh)' = Elems(pipelineCh)
  BY <1>1 DEF CapturedItems, Elems
<1>5. NoItem \notin Elems(pipelineCh)
  BY CapturedFact DEF DeliveryInv, PlaceInv
<1>6. PlaceInv'
  BY <1>1, <1>3, <1>4, <1>5 DEF DeliveryInv, PlaceInv
<1>7. ASSUME NEW k \in Sinks PROVE SinkInv(k)'
  <2>1. ~(at[p] <= k)
    BY <1>2, SinksFact
  <2>2. \A q \in Procs : HoldsFor(q, k)' <=> HoldsFor(q, k)
    BY <1>1, <1>2, <1>3, <2>1 DEF HoldsFor
  <2>3. ~HoldsFor(p, k)
    BY <1>2, <2>1 DEF HoldsFor
  <2>4. PendingFor(k)' = PendingFor(k)
    BY <1>3, <1>4, <2>2, <2>3 DEF PendingFor
  <2>5. QED
    BY <1>1, <1>4, <2>4 DEF DeliveryInv, SinkInv
<1>8. QED
  BY <1>6, <1>7 DEF DeliveryInv

\* Every step preserves the invariant.
LEMMA DeliveryStep == TypeInv /\ DeliveryInv /\ [Next]_vars => DeliveryInv'
<1> SUFFICES ASSUME TypeInv, DeliveryInv, [Next]_vars PROVE DeliveryInv'
  OBVIOUS
<1>1. QED
  BY StepCases, MovesDelivery, CaptureDelivery, EnqueueDelivery, DequeueDelivery, ConsumeDelivery,
     FinishDelivery

\* The invariant holds in every state, together with the types.
LEMMA DeliveryInvariant == Spec => [](TypeInv /\ DeliveryInv)
<1>1. Init => TypeInv /\ DeliveryInv
  BY InitTypeInv, InitDelivery
<1>2. TypeInv /\ DeliveryInv /\ [Next]_vars => (TypeInv /\ DeliveryInv)'
  BY TypeOKStep, HoldInvStep, RunInvStep, DeliveryStep DEF TypeInv
<1>3. QED
  BY <1>1, <1>2, PTL DEF Spec

\* Between capture and sinks no item is lost or repeated, over any number of calls of Run:
\* each captured item is in the queue or in hand, or was given to the sink once.
THEOREM NothingLostOrRepeated == Spec => []NoneLostOrRepeated
<1>1. DeliveryInv => NoneLostOrRepeated
  BY DEF DeliveryInv, SinkInv, NoneLostOrRepeated
<1>2. QED
  BY <1>1, DeliveryInvariant, PTL

-----------------------------------------------------------------------------
(* Overtaking *)

\* A schedule holds the item it captured last.
HandInv == \A s \in Schedules : item[s] # NoItem => item[s] = <<s, captured[s]>>

\* Every step preserves that: a schedule gets its items from its own captures only.
LEMMA HandStep == TypeInv /\ HandInv /\ [Next]_vars => HandInv'
<1> SUFFICES ASSUME TypeInv, HandInv, [Next]_vars PROVE HandInv'
  OBVIOUS
<1> USE GoroutinesAssumption DEF TypeInv, TypeOK, ProcTypeOK, RunTypeOK, HandInv, Procs
<1>1. CASE RunStarts \/ Cancel \/ RunReturns \/ UNCHANGED vars
  BY <1>1 DEF RunStarts, Cancel, RunReturns, vars, procVars
<1>2. ASSUME NEW s \in Schedules,
             CaptureFails(s) \/ Enqueue(s) \/ ProcessInline(s) \/ Tick(s)
      PROVE  HandInv'
  BY <1>2 DEF CaptureFails, Enqueue, ProcessInline, Tick
<1>3. ASSUME NEW s \in Schedules, CaptureSucceeds(s) PROVE HandInv'
  BY <1>3 DEF CaptureSucceeds
<1>4. CASE Dequeue
  BY <1>4 DEF Dequeue
<1>5. ASSUME NEW p \in Procs, Leave(p) \/ LockProcessMu(p) PROVE HandInv'
  BY <1>5 DEF Leave, LockProcessMu
<1>6. ASSUME NEW p \in Procs, ConsumeSink(p) \/ FinishProcessing(p) PROVE HandInv'
  BY <1>6 DEF ConsumeSink, FinishProcessing
<1>7. QED
  BY <1>1, <1>2, <1>3, <1>4, <1>5, <1>6, StepCases

\* A queue has at most as many elements as it is long.
LEMMA ElemsBound ==
  ASSUME NEW S, NEW q \in Seq(S)
  PROVE  IsFiniteSet(Elems(q)) /\ Cardinality(Elems(q)) <= Len(q)
<1>1. q \in [1..Len(q) -> S] /\ Len(q) \in Nat /\ DOMAIN q = 1..Len(q)
  OBVIOUS
<1>2. q \in Surjection(1..Len(q), Elems(q))
  BY <1>1 DEF Surjection, Elems
<1>3. ASSUME NEW n \in Nat PROVE IsFiniteSet(1..n) /\ Cardinality(1..n) = n
  <2>1. IsFiniteSet(1..n) /\ Cardinality(1..n) = IF 1 > n THEN 0 ELSE n - 1 + 1
    BY FS_Interval
  <2>2. QED
    BY <2>1
<1>4. IsFiniteSet(1..Len(q)) /\ Cardinality(1..Len(q)) = Len(q)
  BY <1>1, <1>3
<1>5. QED
  BY <1>2, <1>4, FS_Surjection

\* What a sink misses of a capturer's items before one it was given is in the queue or in
\* the worker's hand: other schedules hold items of their own, and this one a later item.
LEMMA OvertakenFact ==
  ASSUME TypeInv, DeliveryInv, HandInv, NEW k \in Sinks, NEW x \in Elems(seen[k]),
         NEW n \in 1..(x[2] - 1), <<x[1], n>> \notin Elems(seen[k])
  PROVE  <<x[1], n>> \in Elems(pipelineCh) \cup {item[Worker]}
<1>1. x \in CapturedItems
  BY DEF DeliveryInv, SinkInv
<1>2. PICK s \in Schedules, m \in 1..MaxCaptures : x = <<s, m>> /\ m <= captured[s]
  BY <1>1 DEF CapturedItems
<1>3. /\ captured[s] \in Nat /\ m \in Nat /\ n \in Nat /\ 1 <= n /\ n < m /\ n < captured[s]
      /\ n \in 1..MaxCaptures
  BY <1>2, BoundsAssumption DEF TypeInv, TypeOK, RunTypeOK
<1>4. <<s, n>> \in CapturedItems
  BY <1>3 DEF CapturedItems
<1>5. <<s, n>> \in PendingFor(k)
  BY <1>2, <1>4 DEF DeliveryInv, SinkInv
<1>6. ASSUME NEW r \in Schedules, item[r] = <<s, n>> PROVE FALSE
  <2>1. <<s, n>> # NoItem
    BY <1>4, CapturedFact
  <2>2. <<s, n>> = <<r, captured[r]>>
    BY <1>6, <2>1 DEF HandInv
  <2>3. QED
    BY <1>3, <2>2
<1>7. <<s, n>> \in Elems(pipelineCh) \/ <<s, n>> = item[Worker]
  BY <1>5, <1>6 DEF PendingFor, Procs
<1>8. QED
  BY <1>2, <1>7

\* Inline processing lets an item overtake older ones of its capturer, but never more than
\* the queue and the worker's hand hold, for every queue size and number of schedules.
THEOREM OvertakingIsBounded == Spec => []OvertakingBounded
<1>1. ASSUME TypeInv, DeliveryInv, HandInv, NEW k \in Sinks, NEW x \in Elems(seen[k])
      PROVE  Cardinality({n \in 1..(x[2] - 1) : <<x[1], n>> \notin Elems(seen[k])}) <= QueueSize + 1
  <2> DEFINE M == {n \in 1..(x[2] - 1) : <<x[1], n>> \notin Elems(seen[k])}
  <2> DEFINE H == Elems(pipelineCh) \cup {item[Worker]}
  <2> DEFINE f == [n \in M |-> <<x[1], n>>]
  <2>1. pipelineCh \in Seq(Items) /\ Len(pipelineCh) <= QueueSize /\ Len(pipelineCh) \in Nat
    BY <1>1 DEF TypeInv, TypeOK, QueueTypeOK
  <2>2. IsFiniteSet(Elems(pipelineCh)) /\ Cardinality(Elems(pipelineCh)) <= Len(pipelineCh)
    BY <2>1, ElemsBound
  <2>3. /\ IsFiniteSet(H) /\ Cardinality(Elems(pipelineCh)) \in Nat
        /\ Cardinality(H) <= Cardinality(Elems(pipelineCh)) + 1
    BY <2>2, FS_AddElement, FS_CardinalityType
  <2>4. \A n \in M : <<x[1], n>> \in H
    BY <1>1, OvertakenFact
  <2>5. f \in Injection(M, H)
    BY <2>4 DEF Injection, IsInjective
  <2>6. Cardinality(M) <= Cardinality(H) /\ Cardinality(M) \in Nat /\ Cardinality(H) \in Nat
    BY <2>3, <2>5, FS_Injection, FS_CardinalityType
  <2> HIDE DEF M, H
  <2>7. Cardinality(M) <= QueueSize + 1
    BY <2>1, <2>2, <2>3, <2>6, QueueAssumption
  <2>8. QED
    BY <2>7 DEF M
<1>2. Init => HandInv
  BY DEF Init, HandInv, Procs
<1>3. (TypeInv /\ DeliveryInv) /\ HandInv /\ [Next]_vars => HandInv'
  BY HandStep
<1>4. (TypeInv /\ DeliveryInv) /\ HandInv => OvertakingBounded
  BY <1>1 DEF OvertakingBounded
<1>5. QED
  BY <1>2, <1>3, <1>4, DeliveryInvariant, PTL DEF Spec

-----------------------------------------------------------------------------
(* The refinement *)

\* A step that leaves Run, captures and the last sink alone is none of TelemetryDelivery.
LEMMA QuietStep ==
  ASSUME UNCHANGED <<runPc, captured, seen>>
  PROVE  UNCHANGED Delivery!vars
  BY DEF Delivery!vars, CapturedItems

\* Every step of the agent is a step of TelemetryDelivery, or none.
LEMMA StepDelivers ==
  TypeInv /\ DeliveryInv /\ [Next]_vars => [Delivery!Next]_(Delivery!vars)
<1> SUFFICES ASSUME TypeInv, DeliveryInv, [Next]_vars
             PROVE  Delivery!Next \/ UNCHANGED Delivery!vars
  OBVIOUS
<1>1. CASE RunStarts
  <2>1. runPc # "waiting" /\ runPc' = "waiting" /\ CapturedItems' = CapturedItems /\ seen' = seen
    BY <1>1 DEF RunStarts, outVars, CapturedItems
  <2>2. Delivery!Start
    BY <2>1 DEF Delivery!Start
  <2>3. QED
    BY <2>2 DEF Delivery!Next
<1>2. CASE RunReturns
  <2>1. runPc = "waiting" /\ runPc' # "waiting" /\ CapturedItems' = CapturedItems /\ seen' = seen
    BY <1>2 DEF RunReturns, outVars, CapturedItems
  <2>2. Delivery!Stop
    BY <2>1 DEF Delivery!Stop
  <2>3. QED
    BY <2>2 DEF Delivery!Next
<1>3. ASSUME NEW s \in Schedules, CaptureSucceeds(s) PROVE Delivery!Next
  <2>1. PICK x \in Schedules \X (1..MaxCaptures) :
          x \notin CapturedItems /\ CapturedItems' = CapturedItems \cup {x}
    BY <1>3, CaptureDelivery
  <2>2. runPc = "waiting" /\ runPc' = runPc /\ seen' = seen
    BY <1>3 DEF CaptureSucceeds, TypeInv, RunInv, runVars, outVars, Procs
  <2>3. Delivery!Capture(x)
    BY <2>1, <2>2 DEF Delivery!Capture
  <2>4. QED
    BY <2>3 DEF Delivery!Next
<1>4. ASSUME NEW p \in Procs, ConsumeSink(p) PROVE Delivery!Next \/ UNCHANGED Delivery!vars
  <2>1. /\ runPc = "waiting" /\ runPc' = runPc /\ CapturedItems' = CapturedItems
        /\ at[p] \in Sinks /\ seen' = [seen EXCEPT ![at[p]] = Append(@, item[p])]
    BY <1>4 DEF ConsumeSink, TypeInv, RunInv, runVars, CapturedItems
  <2>2. item[p] \in CapturedItems /\ item[p] \notin Elems(seen[at[p]])
    BY <1>4, ConsumeDelivery
  <2>3. seen \in [Sinks -> Seq(Items)]
    BY DEF TypeInv, TypeOK, SinkTypeOK
  <2>4. Sinks # {} /\ Len(SinkName) \in Sinks
    BY <2>1, SinksFact
  <2>5. CASE at[p] = Len(SinkName)
    <3>1. seen'[Len(SinkName)] = Append(seen[Len(SinkName)], item[p])
      BY <2>1, <2>3, <2>5
    <3>2. item[p] \notin Delivery!DeliveredItems
      BY <2>2, <2>4, <2>5 DEF Delivery!DeliveredItems, Elems
    <3>3. item[p] \in Schedules \X (1..MaxCaptures)
      BY <2>2 DEF CapturedItems
    <3>4. Delivery!Deliver(item[p])
      BY <2>1, <2>2, <2>4, <3>1, <3>2 DEF Delivery!Deliver
    <3>5. QED
      BY <3>3, <3>4 DEF Delivery!Next
  <2>6. CASE at[p] # Len(SinkName)
    <3>1. seen'[Len(SinkName)] = seen[Len(SinkName)]
      BY <2>1, <2>3, <2>4, <2>6
    <3>2. QED
      BY <2>1, <2>4, <3>1 DEF Delivery!vars
  <2>7. QED
    BY <2>5, <2>6
<1>5. CASE \/ Cancel \/ Dequeue \/ UNCHANGED vars
           \/ \E s \in Schedules : CaptureFails(s) \/ Enqueue(s) \/ ProcessInline(s) \/ Tick(s)
           \/ \E p \in Procs : Leave(p) \/ LockProcessMu(p) \/ FinishProcessing(p)
  <2>1. UNCHANGED <<runPc, captured, seen>>
    BY <1>5 DEF Cancel, Dequeue, CaptureFails, Enqueue, ProcessInline, Tick, Leave, LockProcessMu,
                FinishProcessing, vars, runVars, outVars
  <2>2. QED
    BY <2>1, QuietStep
<1>6. QED
  BY <1>1, <1>2, <1>3, <1>4, <1>5, StepCases

\* Whatever its queue, goroutines and locks do, the agent hands captured items to the sinks
\* one whole item at a time, each at most once, and only while a call of Run is active.
THEOREM DeliveryImplemented == Spec => ImplementsDelivery
<1>1. Init => Delivery!Init
  <2> SUFFICES ASSUME Init PROVE Delivery!Init
    OBVIOUS
  <2>1. runPc # "waiting" /\ CapturedItems = {}
    BY DEF Init, CapturedItems
  <2>2. Sinks # {} => seen[Len(SinkName)] = <<>>
    BY SinksFact DEF Init
  <2>3. QED
    BY <2>1, <2>2 DEF Delivery!Init
<1>2. QED
  BY <1>1, StepDelivers, DeliveryInvariant, PTL DEF Spec, ImplementsDelivery, Delivery!Spec

-----------------------------------------------------------------------------
(* Shutdown *)

\* The guards, as the actions have them, enable what fairness makes happen.
ScheduleEnabled(s) ==
  /\ pc[s] = "capture" => ENABLED <<CaptureFails(s) \/ CaptureSucceeds(s)>>_vars
  /\ pc[s] = "send" => ENABLED <<Enqueue(s) \/ ProcessInline(s)>>_vars
GoroutineEnabled(p) ==
  /\ pc[p] = "select" /\ ctxDone => ENABLED <<Leave(p)>>_vars
  /\ pc[p] = "lock" /\ processMu = Free => ENABLED <<LockProcessMu(p)>>_vars
GuardsEnable ==
  /\ \A s \in Schedules : ScheduleEnabled(s)
  /\ \A p \in Procs : GoroutineEnabled(p)

\* Calls of processInfo end: there are finitely many sinks.
SectionsEnd == []<>(processMu = Free)

\* A context is that of a call of Run, which started every goroutine.
StartInv ==
  /\ ctxDone => runPc # "idle"
  /\ runPc # "idle" => \A p \in Procs : pc[p] # "off"
ShutdownInv == TypeInv /\ LockInv /\ StartInv

\* Run starts every goroutine, and none goes back to where it was before.
LEMMA StartInvStep == TypeInv /\ StartInv /\ [Next]_vars => StartInv'
<1> SUFFICES ASSUME TypeInv, StartInv, [Next]_vars PROVE StartInv'
  OBVIOUS
<1> USE DEF TypeInv, TypeOK, ProcTypeOK, StartInv, Procs
<1>1. CASE RunStarts
  BY <1>1 DEF RunStarts
<1>2. CASE Cancel \/ RunReturns \/ UNCHANGED vars
  BY <1>2 DEF Cancel, RunReturns, vars, runVars, procVars
<1>3. ASSUME NEW s \in Schedules,
             \/ CaptureFails(s) \/ CaptureSucceeds(s)
             \/ Enqueue(s) \/ ProcessInline(s) \/ Tick(s)
      PROVE  StartInv'
  BY <1>3 DEF CaptureFails, CaptureSucceeds, Enqueue, ProcessInline, Tick, runVars
<1>4. CASE Dequeue
  BY <1>4 DEF Dequeue, runVars
<1>5. ASSUME NEW p \in Procs,
             Leave(p) \/ LockProcessMu(p) \/ ConsumeSink(p) \/ FinishProcessing(p)
      PROVE  StartInv'
  BY <1>5 DEF Leave, LockProcessMu, ConsumeSink, FinishProcessing, runVars
<1>6. QED
  BY <1>1, <1>2, <1>3, <1>4, <1>5, StepCases

\* Where a goroutine of a cancelled Run is.
At(p, place) == ctxDone /\ pc[p] = place

\* From each place a goroutine goes where the code has it go; the context stays done.
Steps(p) ==
  /\ At(p, "capture") => At(p, "capture")' \/ At(p, "select")' \/ At(p, "send")'
  /\ At(p, "send") => At(p, "send")' \/ At(p, "select")' \/ At(p, "lock")'
  /\ At(p, "lock") => At(p, "lock")' \/ At(p, "sinks")'
  /\ At(p, "sinks") => At(p, "sinks")' \/ At(p, "select")'
  /\ At(p, "select") =>
       At(p, "select")' \/ At(p, "capture")' \/ At(p, "lock")' \/ (pc[p] = "done")'

\* What the fair steps do.
FairSteps(p) ==
  /\ At(p, "capture") /\ <<CaptureFails(p) \/ CaptureSucceeds(p)>>_vars => ~At(p, "capture")'
  /\ At(p, "send") /\ <<Enqueue(p) \/ ProcessInline(p)>>_vars => ~At(p, "send")'
  /\ <<LockProcessMu(p)>>_vars => ~At(p, "lock")'
  /\ <<Leave(p)>>_vars => (pc[p] = "done")'

\* A goroutine is moved by its own steps only, while its Run goes on.
LEMMA GoroutineSteps ==
  ASSUME NEW p \in Procs
  PROVE  ShutdownInv /\ [Next]_vars => Steps(p)
<1> SUFFICES ASSUME ShutdownInv, [Next]_vars PROVE Steps(p)
  OBVIOUS
<1> USE GoroutinesAssumption DEF ShutdownInv, TypeInv, TypeOK, ProcTypeOK, Procs, Steps, At
<1>1. CASE RunStarts
  BY <1>1 DEF RunStarts, RunInv
<1>2. CASE Cancel \/ RunReturns \/ UNCHANGED vars
  BY <1>2 DEF Cancel, RunReturns, vars, runVars, procVars
<1>3. ASSUME NEW s \in Schedules,
             \/ CaptureFails(s) \/ CaptureSucceeds(s)
             \/ Enqueue(s) \/ ProcessInline(s) \/ Tick(s)
      PROVE  Steps(p)
  BY <1>3 DEF CaptureFails, CaptureSucceeds, Enqueue, ProcessInline, Tick, runVars
<1>4. CASE Dequeue
  BY <1>4 DEF Dequeue, runVars
<1>5. ASSUME NEW q \in Procs,
             Leave(q) \/ LockProcessMu(q) \/ ConsumeSink(q) \/ FinishProcessing(q)
      PROVE  Steps(p)
  BY <1>5 DEF Leave, LockProcessMu, ConsumeSink, FinishProcessing, runVars
<1>6. QED
  BY <1>1, <1>2, <1>3, <1>4, <1>5, StepCases

\* The fair steps take a goroutine on.
LEMMA FairGoroutineSteps ==
  ASSUME NEW p \in Procs
  PROVE  ShutdownInv => FairSteps(p)
<1> SUFFICES ASSUME ShutdownInv PROVE FairSteps(p)
  OBVIOUS
<1> USE DEF ShutdownInv, TypeInv, TypeOK, ProcTypeOK, At
<1>1. At(p, "capture") /\ <<CaptureFails(p) \/ CaptureSucceeds(p)>>_vars => ~At(p, "capture")'
  BY DEF CaptureFails, CaptureSucceeds
<1>2. At(p, "send") /\ <<Enqueue(p) \/ ProcessInline(p)>>_vars => ~At(p, "send")'
  BY DEF Enqueue, ProcessInline
<1>3. <<LockProcessMu(p)>>_vars => ~At(p, "lock")'
  BY DEF LockProcessMu
<1>4. <<Leave(p)>>_vars => (pc[p] = "done")'
  BY DEF Leave
<1>5. QED
  BY <1>1, <1>2, <1>3, <1>4 DEF FairSteps

\* What is fair to every goroutine is fair to each.
LEMMA FairToGoroutine ==
  ASSUME NEW q \in Procs
  PROVE  Fairness => FairGoroutine(q)
<1>1. (\A p \in Procs : FairGoroutine(p)) => FairGoroutine(q)
  OBVIOUS
<1>2. Fairness => \A p \in Procs : FairGoroutine(p)
  BY PTL DEF Fairness
<1>3. QED
  BY <1>1, <1>2, PTL
LEMMA FairToSchedule ==
  ASSUME NEW q \in Schedules
  PROVE  Fairness => FairSchedule(q)
<1>1. (\A s \in Schedules : FairSchedule(s)) => FairSchedule(q)
  OBVIOUS
<1>2. Fairness => \A s \in Schedules : FairSchedule(s)
  BY PTL DEF Fairness
<1>3. QED
  BY <1>1, <1>2, PTL

\* The invariant the argument rests on.
LEMMA ShutdownInvariant == Spec => []ShutdownInv
<1>1. Init => ShutdownInv
  <2>1. Init => LockInv
    BY NoItemAssumption DEF Init, LockInv, Free
  <2>2. Init => StartInv
    BY DEF Init, StartInv
  <2>3. QED
    BY <2>1, <2>2, InitTypeInv DEF ShutdownInv
<1>2. ShutdownInv /\ [Next]_vars => ShutdownInv'
  BY TypeOKStep, HoldInvStep, RunInvStep, LockInvStep, StartInvStep DEF ShutdownInv, TypeInv
<1>3. QED
  BY <1>1, <1>2, PTL DEF Spec

\* A cancelled goroutine that is somewhere is at one of the places, or done.
LEMMA Somewhere ==
  ASSUME NEW p \in Procs, ShutdownInv, ctxDone
  PROVE  \/ pc[p] = "done" \/ At(p, "select") \/ At(p, "lock") \/ At(p, "sinks")
         \/ p # Worker /\ (At(p, "capture") \/ At(p, "send"))
BY DEF ShutdownInv, StartInv, TypeInv, TypeOK, ProcTypeOK, RunInv, At

\* agent.go:107,128,336: once ctx is done every goroutine of Run returns, whatever is queued,
\* however often captures fail, tickers fire or the queue has something for the worker, if
\* select and sync.Mutex are fair and the calls of processInfo end.
THEOREM EachGoroutineLeaves ==
  ASSUME NEW p \in Procs
  PROVE  FairSpec /\ []GuardsEnable /\ SectionsEnd => (ctxDone ~> pc[p] = "done")
<1>1. ShutdownInv /\ [Next]_vars => Steps(p)
  BY GoroutineSteps
<1>2. ShutdownInv => FairSteps(p)
  BY FairGoroutineSteps
<1>3. Fairness => FairGoroutine(p)
  BY FairToGoroutine
<1>4. GuardsEnable => /\ At(p, "select") => ENABLED <<Leave(p)>>_vars
                      /\ At(p, "lock") /\ processMu = Free => ENABLED <<LockProcessMu(p)>>_vars
  BY DEF GuardsEnable, GoroutineEnabled, At
<1>5. ShutdownInv => (At(p, "sinks") => ~(processMu = Free))
  BY NoItemAssumption DEF ShutdownInv, LockInv, At, Free
<1>6. CASE p \in Schedules
  <2>1. ShutdownInv => (ctxDone => \/ pc[p] = "done" \/ At(p, "select") \/ At(p, "lock")
                                   \/ At(p, "sinks") \/ At(p, "capture") \/ At(p, "send"))
    BY Somewhere
  <2>2. Fairness => FairSchedule(p)
    BY <1>6, FairToSchedule
  <2>3. GuardsEnable =>
          /\ At(p, "capture") => ENABLED <<CaptureFails(p) \/ CaptureSucceeds(p)>>_vars
          /\ At(p, "send") => ENABLED <<Enqueue(p) \/ ProcessInline(p)>>_vars
    <3>1. GuardsEnable => ScheduleEnabled(p)
      BY <1>6 DEF GuardsEnable
    <3>2. ScheduleEnabled(p) =>
            /\ At(p, "capture") => ENABLED <<CaptureFails(p) \/ CaptureSucceeds(p)>>_vars
            /\ At(p, "send") => ENABLED <<Enqueue(p) \/ ProcessInline(p)>>_vars
      BY DEF ScheduleEnabled, At
    <3>3. QED
      BY <3>1, <3>2
  <2>4. QED
    BY <1>1, <1>2, <1>3, <1>4, <1>5, <2>1, <2>2, <2>3, ShutdownInvariant, PTL
       DEF FairSpec, Spec, SectionsEnd, Steps, FairSteps, FairGoroutine, FairSchedule
<1>7. CASE p = Worker
  <2>1. ShutdownInv => (ctxDone => \/ pc[p] = "done" \/ At(p, "select") \/ At(p, "lock")
                                   \/ At(p, "sinks"))
    BY <1>7, Somewhere
  <2>2. ShutdownInv => ~At(p, "capture") /\ ~At(p, "send")
    BY <1>7 DEF ShutdownInv, TypeInv, RunInv, At
  <2>3. QED
    BY <1>1, <1>2, <1>3, <1>4, <1>5, <2>1, <2>2, ShutdownInvariant, PTL
       DEF FairSpec, Spec, SectionsEnd, Steps, FairSteps, FairGoroutine
<1>8. QED
  BY <1>6, <1>7 DEF Procs

=============================================================================
