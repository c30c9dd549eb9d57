---------------------------- MODULE CollectAgent ----------------------------
(***************************************************************************)
(* CollectAgent (src/agent/agent.go): one goroutine per schedule captures  *)
(* and hands its InfoData to a bounded queue; one pipelineLoop goroutine   *)
(* takes items off the queue; a schedule that finds the queue full runs    *)
(* processInfo itself.  processInfo serialises on processMu and calls      *)
(* every sink in order, then the alert pipeline.                           *)
(*                                                                         *)
(* Goroutines are the elements of Procs; pc, item and at are their local   *)
(* state.  What runs under a.mu is one step.  Captures, sinks and          *)
(* responders succeed or fail freely.  Time is not modelled: a ticker may  *)
(* fire whenever its goroutine waits for it.  Run is called with at least  *)
(* one schedule and no nil capturer, or it returns before it starts        *)
(* anything.                                                               *)
(***************************************************************************)
EXTENDS Naturals, Sequences, FiniteSets

CONSTANTS
  Schedules,      \* the schedules, one goroutine each
  Worker,         \* the pipelineLoop goroutine
  SinkName,       \* the sinks in call order: the i-th sink's type name
  FlakySinks,     \* the sinks whose Consume may return an error
  QueueSize,      \* capacity of pipelineCh
  NoItem,         \* a goroutine holds no InfoData
  MaxCaptures,    \* bound: successful captures of one schedule
  MaxRuns         \* bound: calls of Run, one after the other

Sinks == DOMAIN SinkName
Procs == Schedules \cup {Worker}
Items == Schedules \X (Nat \ {0})      \* the n-th InfoData a schedule captured

ASSUME GoroutinesAssumption == Worker \notin Schedules
ASSUME SinksAssumption == SinkName \in Seq(STRING) /\ FlakySinks \subseteq Sinks
ASSUME QueueAssumption == QueueSize \in Nat \ {0}
ASSUME NoItemAssumption == NoItem \notin Items /\ NoItem \notin Procs
ASSUME BoundsAssumption == MaxCaptures \in Nat /\ MaxRuns \in Nat

ErrorKinds == {"capture", "sink", "responder"}
Stat == [success : Nat, failure : Nat, lastErr : BOOLEAN]      \* sinkStat
NoStat == [success |-> 0, failure |-> 0, lastErr |-> FALSE]
AfterSuccess(st) == [success |-> st.success + 1, failure |-> st.failure, lastErr |-> FALSE]
AfterFailure(st) == [success |-> st.success, failure |-> st.failure + 1, lastErr |-> TRUE]
StatNames == {SinkName[k] : k \in Sinks}
Free == NoItem                          \* processMu is not held

VARIABLES
  runPc,          \* Run: "idle", "waiting" on ctx, schedules and worker, "returned"
  runs,           \* calls of Run so far
  ctxDone,        \* the context of the current call is done
  result,         \* what the last Run returned
  pc,             \* where each goroutine is
  item,           \* the InfoData a goroutine holds
  at,             \* the sink processInfo calls next
  pipelineCh,     \* the queue
  processMu,      \* the goroutine that holds processMu
  sinkStats,      \* per sink type name
  firstErr,       \* Errs[0]: the only entry of Errs that is read
  queueDrops,     \* inline processings counted by incrementDrop
  captured,       \* history: successful captures per schedule
  seen            \* history: what each sink was given, in order

runVars == <<runPc, runs, ctxDone, result>>
procVars == <<pc, item, at, processMu>>
outVars == <<sinkStats, firstErr, seen>>
vars == <<runVars, procVars, pipelineCh, outVars, queueDrops, captured>>

Init ==
  /\ runPc = "idle" /\ runs = 0 /\ ctxDone = FALSE /\ result = "none"
  /\ pc = [p \in Procs |-> "off"]
  /\ item = [p \in Procs |-> NoItem]
  /\ at = [p \in Procs |-> 1]
  /\ pipelineCh = <<>>
  /\ processMu = Free
  /\ sinkStats = [n \in StatNames |-> NoStat]
  /\ firstErr = "none"
  /\ queueDrops = 0
  /\ captured = [s \in Schedules |-> 0]
  /\ seen = [k \in Sinks |-> <<>>]

ErrAfter(kind) == IF firstErr = "none" THEN kind ELSE firstErr   \* recordErr

(* Run ------------------------------------------------------------------ *)

\* Run starts the worker and the schedules.  A later call finds the queue,
\* Errs and the counters of the earlier one.
RunStarts ==
  /\ runPc \in {"idle", "returned"} /\ runs < MaxRuns
  /\ runPc' = "waiting" /\ runs' = runs + 1 /\ ctxDone' = FALSE
  /\ pc' = [p \in Procs |-> IF p = Worker THEN "select" ELSE "capture"]
  /\ UNCHANGED <<result, item, at, processMu, pipelineCh, outVars, queueDrops, captured>>

\* The caller's context is cancelled or its deadline passes.
Cancel ==
  /\ runPc = "waiting" /\ ~ctxDone
  /\ ctxDone' = TRUE
  /\ UNCHANGED <<runPc, runs, result, procVars, pipelineCh, outVars, queueDrops, captured>>

\* Mutant: Run does not wait for the worker.
RunReturns_NoWorkerWait ==
  /\ runPc = "waiting" /\ ctxDone
  /\ \A s \in Schedules : pc[s] = "done"
  /\ runPc' = "returned"
  /\ result' = IF firstErr = "none" THEN "ctx" ELSE firstErr
  /\ UNCHANGED <<runs, ctxDone, procVars, pipelineCh, outVars, queueDrops, captured>>

\* Mutant: Run does not wait for the schedules.
RunReturns_NoScheduleWait ==
  /\ runPc = "waiting" /\ ctxDone
  /\ pc[Worker] = "done"
  /\ runPc' = "returned"
  /\ result' = IF firstErr = "none" THEN "ctx" ELSE firstErr
  /\ UNCHANGED <<runs, ctxDone, procVars, pipelineCh, outVars, queueDrops, captured>>

\* ctx is done, every goroutine has returned: the first recorded error, or ctx.Err().
RunReturns ==
  /\ runPc = "waiting" /\ ctxDone
  /\ \A s \in Schedules : pc[s] = "done"
  /\ pc[Worker] = "done"
  /\ runPc' = "returned"
  /\ result' = IF firstErr = "none" THEN "ctx" ELSE firstErr
  /\ UNCHANGED <<runs, ctxDone, procVars, pipelineCh, outVars, queueDrops, captured>>

(* A schedule ----------------------------------------------------------- *)

\* Capture, GetInfo or GetVerboseInfo fails: the error is recorded, nothing is queued.
CaptureFails(s) ==
  /\ pc[s] = "capture"
  /\ firstErr' = ErrAfter("capture")
  /\ pc' = [pc EXCEPT ![s] = "select"]
  /\ UNCHANGED <<runVars, item, at, processMu, pipelineCh, sinkStats, seen, queueDrops, captured>>

CaptureSucceeds(s) ==
  /\ pc[s] = "capture" /\ captured[s] < MaxCaptures
  /\ captured' = [captured EXCEPT ![s] = @ + 1]
  /\ item' = [item EXCEPT ![s] = <<s, captured[s] + 1>>]
  /\ pc' = [pc EXCEPT ![s] = "send"]
  /\ UNCHANGED <<runVars, at, processMu, pipelineCh, outVars, queueDrops>>

\* Mutant: the queue takes one item more than it holds.
Enqueue_OffByOne(s) ==
  /\ pc[s] = "send" /\ Len(pipelineCh) <= QueueSize
  /\ pipelineCh' = Append(pipelineCh, item[s])
  /\ item' = [item EXCEPT ![s] = NoItem]
  /\ pc' = [pc EXCEPT ![s] = "select"]
  /\ UNCHANGED <<runVars, at, processMu, outVars, queueDrops, captured>>

Enqueue(s) ==
  /\ pc[s] = "send" /\ Len(pipelineCh) < QueueSize
  /\ pipelineCh' = Append(pipelineCh, item[s])
  /\ item' = [item EXCEPT ![s] = NoItem]
  /\ pc' = [pc EXCEPT ![s] = "select"]
  /\ UNCHANGED <<runVars, at, processMu, outVars, queueDrops, captured>>

\* Mutant: a full queue drops the item, as the counter's name suggests.
ProcessInline_Drops(s) ==
  /\ pc[s] = "send" /\ Len(pipelineCh) >= QueueSize
  /\ queueDrops' = queueDrops + 1
  /\ item' = [item EXCEPT ![s] = NoItem]
  /\ pc' = [pc EXCEPT ![s] = "select"]
  /\ UNCHANGED <<runVars, at, processMu, pipelineCh, outVars, captured>>

\* The queue is full: the goroutine counts a drop and goes to processInfo itself.
ProcessInline(s) ==
  /\ pc[s] = "send" /\ Len(pipelineCh) >= QueueSize
  /\ queueDrops' = queueDrops + 1
  /\ pc' = [pc EXCEPT ![s] = "lock"]
  /\ UNCHANGED <<runVars, item, at, processMu, pipelineCh, outVars, captured>>

\* select picks the ticker, also when ctx is done as well.
Tick(s) ==
  /\ pc[s] = "select"
  /\ pc' = [pc EXCEPT ![s] = "capture"]
  /\ UNCHANGED <<runVars, item, at, processMu, pipelineCh, outVars, queueDrops, captured>>

\* Mutant: a schedule watches its ticker only.
Leave_WorkerOnly(p) ==
  /\ p = Worker /\ pc[p] = "select" /\ ctxDone
  /\ pc' = [pc EXCEPT ![p] = "done"]
  /\ UNCHANGED <<runVars, item, at, processMu, pipelineCh, outVars, queueDrops, captured>>

\* select picks ctx.Done: a schedule or the worker returns, whatever is queued.
Leave(p) ==
  /\ pc[p] = "select" /\ ctxDone
  /\ pc' = [pc EXCEPT ![p] = "done"]
  /\ UNCHANGED <<runVars, item, at, processMu, pipelineCh, outVars, queueDrops, captured>>

(* The worker ----------------------------------------------------------- *)

\* Mutant: the worker looks at the head of the queue and leaves it there.
Dequeue_Peeks ==
  /\ pc[Worker] = "select" /\ pipelineCh # <<>>
  /\ item' = [item EXCEPT ![Worker] = Head(pipelineCh)]
  /\ pc' = [pc EXCEPT ![Worker] = "lock"]
  /\ UNCHANGED <<runVars, at, processMu, pipelineCh, outVars, queueDrops, captured>>

\* select picks the queue, also when ctx is done as well.
Dequeue ==
  /\ pc[Worker] = "select" /\ pipelineCh # <<>>
  /\ item' = [item EXCEPT ![Worker] = Head(pipelineCh)]
  /\ pipelineCh' = Tail(pipelineCh)
  /\ pc' = [pc EXCEPT ![Worker] = "lock"]
  /\ UNCHANGED <<runVars, at, processMu, outVars, queueDrops, captured>>

(* processInfo ---------------------------------------------------------- *)

\* Mutant: processInfo does not take processMu.
LockProcessMu_NoLock(p) ==
  /\ pc[p] = "lock"
  /\ processMu' = p
  /\ at' = [at EXCEPT ![p] = 1]
  /\ pc' = [pc EXCEPT ![p] = "sinks"]
  /\ UNCHANGED <<runVars, item, pipelineCh, outVars, queueDrops, captured>>

LockProcessMu(p) ==
  /\ pc[p] = "lock" /\ processMu = Free
  /\ processMu' = p
  /\ at' = [at EXCEPT ![p] = 1]
  /\ pc' = [pc EXCEPT ![p] = "sinks"]
  /\ UNCHANGED <<runVars, item, pipelineCh, outVars, queueDrops, captured>>

\* Mutant: recordSinkResult counts a failure and does not append it to Errs.
ConsumeSink_ErrorNotRecorded(p) ==
  /\ pc[p] = "sinks" /\ at[p] \in Sinks
  /\ seen' = [seen EXCEPT ![at[p]] = Append(@, item[p])]
  /\ \/ sinkStats' = [sinkStats EXCEPT ![SinkName[at[p]]] = AfterSuccess(@)]
     \/ /\ at[p] \in FlakySinks
        /\ sinkStats' = [sinkStats EXCEPT ![SinkName[at[p]]] = AfterFailure(@)]
  /\ at' = [at EXCEPT ![p] = @ + 1]
  /\ UNCHANGED <<runVars, pc, item, processMu, pipelineCh, firstErr, queueDrops, captured>>

\* Mutant: every result is recorded for the first sink.
ConsumeSink_FirstSinkStat(p) ==
  /\ pc[p] = "sinks" /\ at[p] \in Sinks
  /\ seen' = [seen EXCEPT ![at[p]] = Append(@, item[p])]
  /\ \/ /\ sinkStats' = [sinkStats EXCEPT ![SinkName[1]] = AfterSuccess(@)]
        /\ UNCHANGED firstErr
     \/ /\ at[p] \in FlakySinks
        /\ sinkStats' = [sinkStats EXCEPT ![SinkName[1]] = AfterFailure(@)]
        /\ firstErr' = ErrAfter("sink")
  /\ at' = [at EXCEPT ![p] = @ + 1]
  /\ UNCHANGED <<runVars, pc, item, processMu, pipelineCh, queueDrops, captured>>

\* The next sink consumes the item and recordSinkResult notes how that went.
ConsumeSink(p) ==
  /\ pc[p] = "sinks" /\ at[p] \in Sinks
  /\ seen' = [seen EXCEPT ![at[p]] = Append(@, item[p])]
  /\ \/ /\ sinkStats' = [sinkStats EXCEPT ![SinkName[at[p]]] = AfterSuccess(@)]
        /\ UNCHANGED firstErr
     \/ /\ at[p] \in FlakySinks
        /\ sinkStats' = [sinkStats EXCEPT ![SinkName[at[p]]] = AfterFailure(@)]
        /\ firstErr' = ErrAfter("sink")
  /\ at' = [at EXCEPT ![p] = @ + 1]
  /\ UNCHANGED <<runVars, pc, item, processMu, pipelineCh, queueDrops, captured>>

\* The alert pipeline runs, possibly with responder errors, and processMu is released.
FinishProcessing(p) ==
  /\ pc[p] = "sinks" /\ at[p] \notin Sinks
  /\ firstErr' \in {firstErr, ErrAfter("responder")}
  /\ processMu' = Free
  /\ item' = [item EXCEPT ![p] = NoItem]
  /\ pc' = [pc EXCEPT ![p] = "select"]
  /\ UNCHANGED <<runVars, at, pipelineCh, sinkStats, seen, queueDrops, captured>>

ProcessInfo(p) == LockProcessMu(p) \/ ConsumeSink(p) \/ FinishProcessing(p)

-----------------------------------------------------------------------------

\* Run has returned and is not called again.
Terminated ==
  /\ runPc = "returned" /\ runs = MaxRuns
  /\ UNCHANGED vars

Next ==
  \/ RunStarts \/ Cancel \/ RunReturns
  \/ \E s \in Schedules :
       \/ CaptureFails(s) \/ CaptureSucceeds(s)
       \/ Enqueue(s) \/ ProcessInline(s) \/ Tick(s)
  \/ Dequeue
  \/ \E p \in Procs : Leave(p) \/ ProcessInfo(p)
  \/ Terminated

Spec == Init /\ [][Next]_vars

\* Goroutines keep running, captures, sinks and responders return, tickers fire.
\* A select with several ready cases picks one at random, and sync.Mutex hands
\* over to a waiter that starves: a case, or a waiter, that is ready again and
\* again gets its turn.  Nothing makes the caller cancel, or call Run.
FairSchedule(s) ==
  /\ WF_vars(CaptureFails(s) \/ CaptureSucceeds(s))
  /\ WF_vars(Enqueue(s) \/ ProcessInline(s))
  /\ WF_vars(Tick(s))
FairGoroutine(p) ==
  /\ SF_vars(Leave(p))
  /\ SF_vars(LockProcessMu(p))
  /\ WF_vars(ConsumeSink(p) \/ FinishProcessing(p))
Fairness ==
  /\ WF_vars(RunReturns)
  /\ \A s \in Schedules : FairSchedule(s)
  /\ WF_vars(Dequeue)
  /\ \A p \in Procs : FairGoroutine(p)

FairSpec == Spec /\ Fairness

-----------------------------------------------------------------------------
(* Properties *)

Elems(q) == {q[i] : i \in DOMAIN q}
NoRepeats(q) == \A i, j \in DOMAIN q : i # j => q[i] # q[j]

CapturedItems == {x \in Schedules \X (1..MaxCaptures) : x[2] <= captured[x[1]]}

\* A goroutine holds an item that sink k has not been given yet.
HoldsFor(p, k) == item[p] # NoItem /\ (pc[p] = "sinks" => at[p] <= k)

InHand == {item[p] : p \in Procs} \ {NoItem}

\* What sink k is still to be given: the queue, and items in goroutines' hands.
PendingFor(k) == Elems(pipelineCh) \cup {item[p] : p \in {q \in Procs : HoldsFor(q, k)}}

RunTypeOK ==
  /\ runPc \in {"idle", "waiting", "returned"}
  /\ runs \in 0..MaxRuns /\ ctxDone \in BOOLEAN
  /\ result \in {"none", "ctx"} \cup ErrorKinds
  /\ firstErr \in {"none"} \cup ErrorKinds
  /\ queueDrops \in Nat
  /\ captured \in [Schedules -> 0..MaxCaptures]

ProcTypeOK ==
  /\ pc \in [Procs -> {"off", "capture", "send", "select", "lock", "sinks", "done"}]
  /\ item \in [Procs -> Items \cup {NoItem}]
  /\ at \in [Procs -> 1..(Len(SinkName) + 1)]
  /\ processMu \in Procs \cup {Free}

QueueTypeOK == pipelineCh \in Seq(Items) /\ Len(pipelineCh) <= QueueSize

SinkTypeOK ==
  /\ sinkStats \in [StatNames -> Stat]
  /\ seen \in [Sinks -> Seq(Items)]

\* Every variable has its type; in particular the queue respects its capacity.
TypeOK == RunTypeOK /\ ProcTypeOK /\ QueueTypeOK /\ SinkTypeOK

\* All sinks are given the same items in the same order: a later sink lags an
\* earlier one by at most the item in processing, and by none when processMu is
\* free, although the worker and full-queue schedules process concurrently.
SinksAgree ==
  \A j, k \in Sinks : j <= k =>
    /\ seen[j] = seen[k] \/ \E x \in InHand : seen[j] = Append(seen[k], x)
    /\ processMu = Free => seen[j] = seen[k]

\* No item is lost or repeated on the way, in this Run or over several: each
\* captured item is either still pending for a sink or was given to it, once.
NoneLostOrRepeated ==
  \A k \in Sinks :
    /\ CapturedItems = Elems(seen[k]) \cup PendingFor(k)
    /\ Elems(seen[k]) \cap PendingFor(k) = {}
    /\ NoRepeats(seen[k])

\* Inline processing lets an item overtake older ones of its capturer, but
\* never more than the queue and the worker's hand can hold.
OvertakingBounded ==
  \A k \in Sinks : \A x \in Elems(seen[k]) :
    Cardinality({n \in 1..(x[2] - 1) : <<x[1], n>> \notin Elems(seen[k])}) <= QueueSize + 1

\* Once Run has returned, no goroutine of it is left that could capture, call a
\* sink or record an error: what is not delivered sits in the queue.
QuiescentAfterRun ==
  runPc # "waiting" =>
    /\ \A p \in Procs : pc[p] \in {"off", "done"} /\ item[p] = NoItem
    /\ processMu = Free

\* No failure is masked: once Run returns, which takes the end of its context, it returns
\* the first error that was recorded, as every counted failure of a sink is, and not the
\* context's.  An error by itself does not end Run: see ErrorEndsRun.
RunReportsErrors ==
  runPc = "returned" =>
    /\ result = "ctx" => firstErr = "none"
    /\ (\E n \in DOMAIN sinkStats : sinkStats[n].failure > 0) => result \in ErrorKinds

(* The inductive invariant behind these properties ----------------------- *)

\* A goroutine holds an item from capturing or dequeuing it until it is queued or
\* processed.
HoldInv == \A p \in Procs : item[p] # NoItem <=> pc[p] \in {"send", "lock", "sinks"}

\* Who is inside processInfo's critical section is who holds processMu.
LockInv == \A p \in Procs : pc[p] = "sinks" <=> processMu = p

\* Goroutines run only during Run; the worker captures nothing.
RunInv ==
  /\ runPc # "waiting" => \A p \in Procs : pc[p] \in {"off", "done"}
  /\ pc[Worker] \notin {"capture", "send"}

\* Sink k already has the item in processing.
HasCurrent(k) == processMu # Free /\ k < at[processMu]

\* Sinks differ by the item in processing only.
SeenInv ==
  \A j, k \in Sinks :
    /\ (HasCurrent(j) <=> HasCurrent(k)) => seen[j] = seen[k]
    /\ HasCurrent(j) /\ ~HasCurrent(k) => seen[j] = Append(seen[k], item[processMu])

\* A counted failure is a recorded error, and Run returned the first one recorded.
ErrInv ==
  /\ (\E n \in DOMAIN sinkStats : sinkStats[n].failure > 0) => firstErr # "none"
  /\ runPc = "returned" => result = IF firstErr = "none" THEN "ctx" ELSE firstErr

\* Strengthens SinksAgree, QuiescentAfterRun and RunReportsErrors so that every
\* step of Run, the schedules and the worker preserves it.
IInv == TypeOK /\ HoldInv /\ LockInv /\ RunInv /\ SeenInv /\ ErrInv

\* The detailed agent implements TelemetryDelivery: an item counts as delivered
\* when the last sink has it.
Delivery == INSTANCE TelemetryDelivery WITH
  Items <- Schedules \X (1..MaxCaptures),
  active <- (runPc = "waiting"),
  captured <- CapturedItems,
  delivered <- IF Sinks = {} THEN <<>> ELSE seen[Len(SinkName)]

ImplementsDelivery == Delivery!Spec

\* As long as ctx is not done, every captured item reaches every sink.
EachItemDelivered ==
  \A x \in Schedules \X (1..MaxCaptures) :
    x \in CapturedItems ~> (ctxDone \/ \A k \in Sinks : x \in Elems(seen[k]))

\* A cancelled Run comes to its end, whatever is queued, however often
\* captures fail and however often the tickers fire.
ShutdownCompletes == ctxDone ~> runPc = "returned"

\* agent.go:62, "blocks until ctx is done or an error occurs": an error ends Run.  The code
\* records it and runs on until the context is done, so this does not hold.
ErrorEndsRun == firstErr # "none" ~> runPc = "returned"

\* A sink with a type name of its own: sinkStats has an entry per type name.
NamedAlone(k) == \A j \in Sinks : SinkName[j] = SinkName[k] => j = k

\* agent.go:252, the "last error per sink": the statistics of a sink with a type name of
\* its own count each call it was given once, whichever goroutine made it, and its
\* LastErr is there only while no later call of it succeeded.
StatsPerSink ==
  [][\A k \in Sinks : NamedAlone(k) =>
       LET old == sinkStats[SinkName[k]] new == sinkStats'[SinkName[k]]
       IN /\ new.success + new.failure = Len(seen'[k])
          /\ old.lastErr /\ ~new.lastErr => seen'[k] # seen[k] /\ new.success > old.success]_vars

=============================================================================
