# A TLA+ model of miniEDR

miniEDR captures host telemetry at intervals, writes it to sinks, evaluates detection
rules on it, answers alerts through responders and shows everything in a web dashboard.
The modules in this directory model the parts of it in which goroutines, locks, queues,
clocks, files and browsers meet; TLC checks them on small instances and TLAPS proves the
properties that matter most for every value of the constants.

## 1. The system

| Component | State it keeps | Operations | Talks to |
|---|---|---|---|
| Collect agent (`agent/agent.go`) | queue `pipelineCh`, `Errs`, `sinkStats`, `queueDrops`, mutexes `mu` and `processMu` | `Run`, one `runSchedule` goroutine per schedule, the `pipelineLoop` worker, `processInfo` | capturers, sinks, alert pipeline |
| EDR agent (`agent.go`) | `errCh`, a derived context | `Run`, one goroutine per schedule, the closer | capturers, a writer |
| Detection (`detection.go`) | `AlertDeduper.seen`, `RateLimiter.count` and `.reset` | `Detector.Evaluate`, both `Filter`s, `ResponderPipeline.Run` | rules, responders |
| Policy and router (`response.go`), `AlertPipeline` (`pipeline.go`) | `PolicyEngine.last` | `ShouldRespond`, `ResponseRouter.Run`, `Process` | called by the collect agent |
| Telemetry file, alert file (`telemetry.go`, `response_actions.go`) | open file, encoder, size; the files | `Consume`, `Handle`, `ensureFile`, `rotate` | called by agent and responders |
| Process killer (`response_actions.go`) | none | `Handle`: pids from an alert's evidence | the operating system |
| Dashboard (`dashboard/dashboard.go`, `dashboard.html`) | items, last payloads, logs, alert history, `corrVersion`, `snapshot`, `clients` | `captureSingle` per capturer, `kickoffCorrelation`, `broadcast`, `serveEvents`, page and configuration handlers | capturers, detector, browsers |
| Rules and metrics configuration (`dashboard.go`) | the rules and metrics files, their copies in memory, the detector built from them | `handleRules`, `handleMetrics`, load, save, normalise, parse and print expressions | dashboard |
| Capturers (`capturer/`) | previous and current snapshot | `Capture`, `GetInfo`, `GetVerboseInfo` | the operating system |
| Snapshot manager, builder (`capturer/`) | list of capturers | `Capture` and `GetInfo` of all, configuration with defaults | capturers |
| Rules and IOC matching (`detection_rules.go`, `ioc.go`) | the indicators | rule functions on an `InfoData` | detection |
| Command line (`cli/main.go`) | none | flags, wiring | everything |

Where it gets hard, and what makes each part correct:

* **Collect agent.** A schedule that finds the queue full processes its item itself and
  races the worker: sinks must see one order, items must not be lost or repeated,
  overtaking must have a limit. Shutdown races captures, the queue and the lock. A second
  call of `Run` finds what the first left. Errors must not be masked.
* **EDR agent.** The cancellation that one failure causes turns into errors of all other
  goroutines: `Run` must return the failure, and a goroutine that nobody receives from any
  more must still end.
* **Alert pipeline.** Windows are fixed, not sliding; the clock goes on between the stages;
  a failing responder must not keep alerts from the others. Alerts of a key keep
  their distance, and none is lost or answered twice after the deduper.
* **Files.** Each file system call may fail, at every point of a rotation; the process may
  be restarted. Acknowledged records stay readable and in order; a file passes the limit by
  its last record, or for a rotation that was missed.
* **Dashboard.** Correlations finish late and out of order; a broadcast finds channels
  full; the previous payload is read in one critical section and used in another; browsers
  come and go. Pages show what is stored, and every change reaches a subscribed browser.
* **Configuration.** Files are saved outside the lock that guards the copies in memory, by
  requests that overlap; a save may fail half-way and the process may crash and load what is
  there; a capture reads metrics, detector and rules at three moments. What judges a capture
  must be what was configured during it, and a restart must find what somebody wanted.
  An expression must mean what its text says, also after it was displayed and posted back.
* **Capturers.** The host changes between the calls of one `Capture`, some of which fail;
  counters restart, devices come and go, the walk ends at a limit. Changes that are reported
  must add up to what the host was; the rules must see each thing that is reported as new.

The full list of hazards, each at its line with the properties that cover it, is in
`PROJECT.json`.

## 2. Modules

| Module | Models | Abstracts |
|---|---|---|
| `TelemetryDelivery` | what the agent promises about telemetry: abstract specification | everything but captured and delivered items and whether `Run` is active |
| `CollectAgent` | `agent/agent.go` | time (a ticker fires at any time), the contents of an `InfoData`, wording of errors |
| `EDRAgent` | `agent.go`, `schedule.go` | time, output |
| `AlertPipeline` | `detection.go`, `response.go`, `pipeline.go` | what a rule finds (an input), enrichment, error texts |
| `RotatingFile` | `JSONFileSink` and `AlertFileResponder`, which are alike | contents; units of length (a record is short, or longer than the limit); directories |
| `Dashboard` | captures, correlation, broadcast and the event stream of `dashboard.go`, `refreshView` of `dashboard.html` | logs, graphs, markup, the correlation algorithm |
| `ConfigStore` | `handleRules`, `handleMetrics`, loading, saving, normalisation and the detector of `dashboard.go`; the tables of `dashboard.html` | titles, messages, severities, ids that collide |
| `MetricRules` | the rules and metrics that judge captures: how custom metrics are added to those of a capture, totals, comparisons | titles, messages, severities |
| `MetricExpr` | parser, printer and evaluator of the expressions of custom metrics | characters (a text is a sequence of tokens) |
| `Fractions` | the numbers of metrics and rules | rounding of floating point numbers (exact fractions) |
| `ChangeFeed` | what a capturer that reports changes promises: abstract specification | how and when it reads the host |
| `Capturers` | the eight capturers of `capturer/`, `detection_rules.go`, `RuleIOCMatch` of `ioc.go` | usage per core, summaries, how an indicator matches a string |
| `Lists` | lists filtered in their order: rules with a metric, what a report names | |
| `CollectAgentProofs`, `EDRAgentProofs`, `AlertPipelineProofs`, `ConfigStoreProofs`, `DashboardProofs`, `RotatingFileProofs`, `CapturersProofs` | theorems about the modules they extend | |
| `ListsProofs` | lemmas on filtered lists, sums and division, for `ConfigStoreProofs` and `CapturersProofs` | |
| `MC...` | constants for TLC; `MCConfigStore` also a reference reading of expressions | |

State and steps keep the names of the code. In `CollectAgent` a goroutine is an element of
`Procs` and `pc` says where it is: `capture`, `send` (the `select` on a queue that may be
full), `select` (ticker or `ctx.Done()`), `lock` (waiting for `processMu`) and `sinks`. What
runs under `a.mu` is one step; what runs under `processMu` is one step per sink, because a
sink call is visible outside. `firstErr` stands for `Errs`, of which only the first entry is
ever read. `seen` records what each sink was given. In `EDRAgent` `pc` separates `errCh <- err`
from `cancel()`, the order of which matters. `AlertPipeline` has a step for every alert at
every stage and for every responder it is given to, and the clock ticks between any two;
`wiring` says whether router, pipeline and responders are set, `errs` collects the errors of a
call; `passedAt`, `admittedAt`, `respondAt`, `passed`, `flagged`, `refused`, `unanswered` and
`handled` are history variables. `RotatingFile` has one
step per file system call; a file is its lines, each with the offset at which it ends; a failing
write may leave a torn piece, which spoils the record appended after it, and `json.Encoder` refuses everything after its first failed write.
In `Dashboard` what runs under `d.mu` is one step; `rev` numbers the values of `d.snapshot`.
Start-up captures one capturer after the other (`initial`) before pages are served.

In `ConfigStore` a request is at `open`, `write` (`os.WriteFile` truncates, then writes) or
`store` (under `d.mu`). A capture copies the metrics (`ApplyMetrics`), then the detector
(`Judge`), and is stored with the rules of a third moment (`StoreCapture`); `during` is what was
configured in the meantime. The history of requests is, for each document, what the overlapping requests want
(`wanted`), what it was before them (`before`), whether they did overlap, and whether its file
may be torn: it was truncated and no request that was alone has saved it since (`doubtful`).
`ConfigStore` takes the parser, the printer and the evaluator of expressions as operators `Parse`,
`Format` and `Eval`; the runs give it those of `MetricExpr`. The metrics of a capture are evaluated by
`ApplyCustomMetrics`, a rule by `RuleAlerts`, both of `MetricRules`. `Capturers` has the state of one schedule, since capturers share nothing; `name`
says whose. `Capture` is one step per call of the operating system (`List`, then `Read`; one for each
process that is described), and `Report` is its end with `GetInfo` and the rules, in which nothing
is waited for. `recent` is, for each key, what could be read of it since the capture began, which is
`Begin` in `ChangeFeed`; `view` what a consumer of
the reported changes would know; `meter` what a counter really counted.

The definitions whose comment begins with "Mutant" are not part of the specifications: each
is a plausible mistake in the definition after it, and shows that a property notices it.

## 3. What TLC checks

| Run | Shows | Instance |
|---|---|---|
| `agent_core` | sinks agree on what they were given; nothing is left running after `Run`; errors are returned; a sink's statistics are about that sink | two schedules, a queue of one, two sinks of which one may fail, two captures each; symmetric in the schedules |
| `agent_delivery` | `CollectAgent` implements `TelemetryDelivery`; nothing is lost or repeated; inline processing overtakes at most `QueueSize + 1` items; captured items reach every sink while the context lives; a cancelled `Run` returns | one schedule, a queue of two, six captures, two calls of `Run` |
| `agent_error` | violated: an error ends `Run` (`agent/agent.go:62`) | two schedules, one capture each, a sink that may fail; fair scheduling |
| `edr_agent` | `Run` returns the failure, never a context error it caused, never nil; a failure of any schedule, or the caller's context, ends it; every schedule's goroutine exits for good | three schedules, two captures each |
| `alert_pipeline` | every alert that passed the deduper is, for each responder, in flight, flagged, refused, left where no responder is set, or handled once, also when the responder before failed; spacing of alerts and of responses; bursts | one caller, as in the program, two keys, two responders of which the first may fail, every wiring of router, pipeline and responders; six calls, seven clock values, a burst of two |
| `dashboard` | the snapshot is what is stored; changed flags are exact; a full channel loses no refresh; no send on a closed channel; every change is fetched; the alert list a capture left is correlated unless another capture is stored first | one capturer, two payloads, three captures, two alerts of history, a browser; fair scheduling |
| `dashboard_disks` | violated: two disk paths share one item | two capturers of one type |
| `file_rotation` | records in order, over rotations and restarts; at most one acknowledged record per restart is spoilt; no more lines begin past the limit than rotations were missed | four records of one or three units, a limit of two, three milliseconds, two restarts, every call may fail |
| `config_store` | the metrics and the detector of a capture are of configurations in memory during it; of overlapping requests one survives whole; a restart finds what was in memory, or something somebody wanted; expressions mean what their text says and are displayed so; custom metrics and rules have the values their text says | two pages, symmetric, and captures beside them, a file of indicators, three posts, one crash, saves that fail; the 400 texts of up to three tokens out of seven, and 72 longer ones |
| `config_reload` | violated: a rule for any capturer is loaded with the source of a default rule | one page, one post |
| `metric_display` | violated: an expression loses parentheses when it is displayed | one page, one post |
| `capturers` | changes reported add up to the host as it was during the capture (`ChangeFeed`); what NET and DISK report was gained; rules alert on changes, busy processors, traffic and memory from their thresholds on; what a report names and an indicator matches is alerted | each of the eight capturers in turn, all of whose calls may fail: two or three keys, three changes of the host (two of files), three captures, three moments |

Bounds. `MaxCaptures`, `MaxRuns`, `MaxCalls`, `MaxTime`, `MaxRecords`, `MaxRestarts`, `MaxPosts`,
`MaxCrashes` and `MaxChanges` end the behaviours; everything else is a real parameter. A queue of one with two schedules
is full in most states, so that inline processing and the worker race; a queue of two and
six captures fill the queue, the worker's hand and one more, the case in which overtaking is
largest. Three schedules give a failure, one that notices the cancellation and one that
fails by itself. Six calls over seven clock values fill two windows of a burst of two.
Three captures of a capturer overtake a correlation twice; several capturers, which differ from one
in who overtakes, are left to the theorems. Four records, short or longer than the limit, reach it
by one, by two or with a rotation missed, with failures and restarts in between. Of three posts two
overlap after, or before, one that is alone, or start from what it left, or from a table that
is stale; a crash falls between any two of their steps. The captures that configurations are
asked about (`Captures`) have totals of which parts are missing, a metric of a custom metric's name,
and metrics no expression finds. Three captures give a report that differs from the first, a failure
or another report in between; three changes let a key change back, a counter fall and rise,
a device go and return. Three processes exceed the two entries a report carries, two matches the one alert,
two files the one that is tracked; thresholds of two are reached exactly.

Each property has a mutant of the code in `PROJECT.json` that TLC finds to violate it.

Fairness. A goroutine that can go on does (weak fairness on its steps, stated for each
goroutine, browser and correlation apart); captures, sinks and responders return. The
broadcasts of `Dashboard` have one condition: if some goroutine stays about to broadcast, one
does; a goroutine that is about to does nothing else first. Go's `select` picks at random among the cases that are ready, and
`sync.Mutex` hands over to a waiter that starves: a `ctx.Done()` that stays ready, or a lock
that is free again and again, is taken in the end (strong fairness on `Leave`, `SeesDone`
and `LockProcessMu`). Nothing makes a caller cancel or call `Run`, or a browser visit or
leave. While captures keep coming, each may overtake the correlation before it, which
`CorrelationSettles` allows: it promises the correlation of a list that is not replaced.

### What the violated runs show

* `agent/agent.go:62` says `Run` "blocks until ctx is done or an error occurs". An error is
  recorded (line 234) and every goroutine goes on; `Run` waits for its context alone and returns
  the first error then (`RunReportsErrors`), so a caller that never cancels never learns of it.
* `dashboard.go:620` keys items by the capturer's type name; two configured disk paths make
  two capturers of one type, and each capture replaces the other's.
* `dashboard.go:1126` decodes `rules.json` over the default rules. `Source` is left out of
  the file when it is empty, so a rule saved for "Any capturer" in one of the first seven
  rows comes back with the source of the default rule of that row.
* `dashboard.go:1564` writes parentheses only if the operator outside binds tighter:
  `a - (b - c)` is displayed as `a - b - c`, and the page posts that back with its next edit.

Where comments and code differ and the properties of passing runs follow the code:

* "Exceeds" means "reaches". `telemetry.go:22` and `response_actions.go:15` say a file is
  rotated when its size exceeds `MaxBytes`; it is when it reaches it (`telemetry.go:51`). The
  comments of `RuleCPUHigh`, `RuleNetSpike`, `RuleProcBurst` and `RuleFileEventBurst`
  (`detection_rules.go:21`, 93, 73, 118) say "exceeds threshold" and "exceed limit"; the rules fire
  at the threshold and the limit (lines 29, 106, 81, 126).
* `ioc.go:76` says new processes that match are alerted. `ProcCapturer` takes a process for new if
  its pid is (`process.go:119-122`), so one that starts under the pid of a process that ended since
  the last capture is in the snapshot, and is neither named nor alerted. `SuspectsAlerted` speaks of
  what a report names, and of processes under a pid that is new.

Behaviours worth knowing, of which the repository says nothing: when the collect agent's context
ends the worker may leave with items in the queue, which then reach no sink unless `Run` is called
again; a file sink whose write failed once refuses every later record until a restart; two
rotations within one millisecond leave one file; the snapshot shows the rules in memory beside
alerts that were raised by the rules before them, from a POST until the next capture; a file the
walk cannot reach any more, or an entry that cannot be read for a while, is reported as deleted; a
process that ends after it was listed has empty fields, which no indicator matches, and one beyond
the 200 that a report carries is not matched then or later; and an expression ends, without an error,
at the first character no token starts with.

## 4. What is proved

The proofs hold for every value of the constants, under the assumptions the modules name.

* `CollectAgentProofs`: `TypeCorrect`, `SinksAgreement`, `QuiescenceAfterRun`,
  `ErrorsReported`, `StatsCountCalls`, `InductiveInvariant`, for any set of schedules, sinks and queue size.
  `SinksAgree` alone is not inductive: it does not say who may call a sink next. `IInv` adds
  that a goroutine is inside `processInfo` exactly when it holds `processMu` (`LockInv`), that
  it holds an item exactly from capture or dequeue to the end (`HoldInv`), that sinks differ
  by the item in processing only, those before `at` having it (`SeenInv`), that goroutines run
  during `Run` only (`RunInv`), and that a counted failure is a recorded one (`ErrInv`). A
  step of the queue or of a schedule disturbs one conjunct; the work
  is in `ConsumeSink`, where the sink `at` points to gets the item the earlier ones have.
  `StatsCountCalls`, the action property `StatsPerSink`, needs that the successes and failures
  counted for a sink that has its name for itself are what it was given (`StatInv`).
  In the second half of the module, `NothingLostOrRepeated` and `DeliveryImplemented`, the
  refinement `CollectAgent => TelemetryDelivery`, under the same assumptions. `DeliveryInv`
  adds to `IInv` that what is queued or in hand was captured and is in no other place
  (`PlaceInv`), and the same for what a sink was given (`SinkInv`). An item is delivered by the
  last `ConsumeSink`; `RunStarts`, `RunReturns` and `CaptureSucceeds` are the abstract start,
  stop and capture; every other step stutters. `OvertakingIsBounded` adds that a
  schedule holds only the item it captured last (`HandInv`): an older one that a sink misses
  is then in the queue or in the worker's hand. `EachGoroutineLeaves` is what `ShutdownCompletes`
  says of one goroutine: from each place it goes to the next (`Steps`), it comes back to its
  `select` again and again, and strong fairness takes `ctx.Done()` there in the end. That the queue
  drains is not needed; that a call of `processInfo` ends is (`SectionsEnd`, see below).
* `EDRAgentProofs`: `FailureReported`, for any finite set of schedules: what `Run` returns is
  a failure, never nil or a context error it caused. The strengthening says that the first error in `errCh` is a failure unless the
  caller's context is done, that nobody has been cancelled before it was sent, and that a
  goroutine past its send has left an error there while `Run` waits.
  `SendNeverBlocks`: `errCh` has room for whoever is about to send. `AllGoroutinesExit` and
  `FailuresEndRun`, the liveness properties `GoroutinesExit` and `FailureEndsRun`: a goroutine
  whose context is done stays on the way out, through a send that finds room, and `Run` waits
  for a context that each failure cancels.
* `AlertPipelineProofs`: `DeduperSpaces` and `PolicySpaces`, for any number of callers, keys,
  batches and windows. The invariant is that the entry kept for a key is past every recorded
  time by the window. The program has one caller, and so has the run.
  `AlertsAccounted` and `TypeCorrect`, for any number of callers and responders, whichever of
  these fail, and every wiring: `EveryAlertAccounted` speaks of what is under way in one place of
  each caller only; the invariant adds that callers work on alerts of their own, each once
  (`LineInv`), that a round of the responders is under way only for the alert that is first
  (`AnswerInv`), that what the deduper has not seen yet is in none of the places (`PlaceInv`), and
  that a responder's list holds what went past it and nothing that is still going to it (`HandledInv`).
  Every step of a caller keeps its alerts, lets one enter or lets one leave (`Effects`), or goes
  on to the next responder, which an error does not change (`HandleAnswers`). `LimiterBounds` is proved
  under the assumption that there is one caller: the limiter samples the clock before it locks.
  Its invariant (`Fits`) is that the last `count` admissions are in the current window, the
  `Burst` before them may be in the one before it, and older ones are over a window back.
* `DashboardProofs`: `TypeCorrect`, `SnapshotIsStored` and `RefreshesArrive`, for any list of
  capturers and any browsers. `ClientInv` says that a browser is in `d.clients` while its
  handler runs; `SnapshotInv` that the snapshot is made of what is stored; `JobInv` that the
  newest correlation was started with the alerts that are stored, so that only an older one,
  which `corrVersion` turns away, could put back old alerts. `ChangedFlagsExact` and
  `EachCapturerShown` assume `DistinctNames`, that no two capturers share a type name: what a
  capture compares with is read before `d.mu` is taken, and two capturers of one name race for
  it. Two disk paths break the assumption, and then the second property (`dashboard_disks`).
  `ChangesAreFetched` is the liveness property `EveryChangeFetched`: a refresh is due, in the
  channel, arrived or requested (`NoLostRefresh` says it is in one of these stages), goes on from
  stage to stage (`Moves`), and each stage has a fair step that ends it; a full channel drops
  the message, but is itself the later stage. `CorrelationsSettle`, the property
  `CorrelationSettles`, goes the same way over the stages of a job: handed from `captureSingle` to
  the broadcast, to `kickoffCorrelation`, at work (`SettleMoves`, with `JobInHand`, that a job is in
  hand at those places only). `CorrelationIsUnderWay` is its safety core, which needs no
  fairness: what a page shows uncorrelated has its newest job in one of these places.
* `RotatingFileProofs`: `TypeCorrect`, `SizesBounded`, `OrderKept` and `LossBounded`, for every
  limit, lengths of records, set of failing calls and number of restarts. `HandleInv` relates the
  handle, the encoder and the file to the place in the call; `BoundInv` says that offsets rise
  along a file, and that in one not about to be looked at the next line, too, begins before the
  limit or has a missed rotation to itself; `OrderInv` that older milliseconds hold older records;
  `LossInv` that a process leaves at most one torn line, the last it writes, which spoils the
  first record of the next process; `HeldInv` that what was acknowledged is in a file unless
  that was replaced. `LossBounded` counts: every lost record is spoilt or replaced.
* `ConfigStoreProofs`: `TypeCorrect`, `CapturesAreJudged`, `OverlapsDoNotMix` and
  `RestartsRecover`, for any number of pages, posts and crashes, any rules and metrics, and any
  parser and printer of expressions (`Parse` and `Format` are constants; the only assumption on texts
  is that names are strings). `TypeOK` says that rules are normalised wherever they are kept,
  which rests on normalisation being idempotent: loading a file changes nothing but empty
  sources. `CaptureJudged` becomes inductive with the detector being that of the rules in memory,
  and with these being among what was configured during a capture (`DetectorInv`). `RequestsWanted` says that what memory, a whole file or a request has, is what one of
  the overlapping requests wants or was there before; `OverlapKeepsOne` is not inductive without it.
  `FilesSaved` says that a file no request is at is whole and holds what memory has
  (`Recovers`), except where a lone save has not ended since the last truncation, and that a
  request that overlapped none finds the file as it left it (`Alone`).
  `AlertsFollowConfiguration`, the invariant `AlertsAsConfigured`: whatever the evaluator, a capture
  has the metrics it came with and each custom one with the value its expression has over those
  named before it, and a rule alerts exactly if its metric, or total, compares with the threshold
  as it says. `MetricRules` adds metrics in a loop over a list; that each has the value said of it rests on
  the list being in the order of its names wherever it is kept (`MetricInv`, which rests on
  `NormalMetrics`), and the proof follows the loop (`AppliedExists`, `NextValue`, `AllValues`);
  `ResolvedValues` and `Judged` read the invariant off its end. Its hypothesis `ExprsOK(E, T)` names the
  expressions (`E`) and texts (`T`) there are, and says that parsing maps one into the other
  and that `Eval` gives a number or none. That the operators of `MetricExpr` do is read off
  their definitions and not proved, since they are recursive.
* `CapturersProofs`: `ChangesReported`, the refinement `Capturers => ChangeFeed`, for every
  host, list of sources, walk, limit and set of failing calls. `FeedInv` says that every key
  the calls made so far have handled was read with a value it had since the capture began
  (`ReadInv`), that what was listed was there at some moment of it and the rest was not
  (`ListInv`), that nothing of a capture outlives it (`StepInv`), and that the reported changes
  add up to the last snapshot (`KnownInv`, where `PictureFact` shows that `Events` names every
  key that differs). A read grows what is handled, a change of the host grows what is recent; the
  walk counts at most one file per path, so that only paths after the `MaxFiles`-th may be missed
  by it.
  `CountersTruthful`, the invariant `TrafficAccounted` for NET and DISK: a counter that is there
  shows what was counted less what was lost (`CountInv`); the snapshot first taken, the last one,
  what was read since and the present come in this order, in which nothing counted is taken back and
  a counter that has not fallen has lost nothing (`Later`, in `CurrInv` and `ReadCounts`); so a
  difference of two snapshots is at most what was counted between them (`ReportInv`).
  `TypeCorrect`: the files a walk has tracked are not more than it has counted (`WalkInv`), so
  no snapshot holds more than `MaxFiles`. `ChangesRaiseAlerts` follows from `FeedInv`: since the
  consumer's view is the last snapshot, the keys that differ from it are those of `Events`, and
  those that appear are those of `Added` (`EventsShown`). `SuspectsRaiseAlerts` also needs that
  the lists in a report name every such key once (`FieldsEnumerate`), that a prefix of such a list
  leaves out as many as it is shorter by (`FirstOfEnumerates`), and `ReadInv` of a process that was
  listed all through the capture: it was described as what it is. It is a theorem about what a
  report names; a process under the pid of another is not (see above).
  `AlertsAreTrue`: the last two snapshots are in order and the alerts are those of the rules on
  them (`PairInv`); interface by interface the report is at most what was counted, and sums compare
  as their terms do (`SpikesTrue`); a processor is alerted by `PercentFn`'s answer where the capture
  has one that counts (after the first, unless the call fails), and else a share of ninety
  percent, rounded down, is nine tenths of the time (`BusyTrue`, `HighUsageTrue`); memory and swap
  by their shares (`PressureTrue`). Assumed are finite sets of keys (`FiniteAssumption`), lists that
  name each pid and path once (`OrderAssumption`) and that `"used"`, the key of the disk's level,
  names no interface or device (`UsedAssumption`).
* `ListsProofs` has what those proofs need of data. The provers cannot apply an induction
  theorem to a property, so it is applied to a set: a set of numbers that has 0 and with each
  number the next has them all (`Reached`, from the least number outside, `Least`). From it come
  that the recursive function inside `Kept` exists and is determined (`TableExists`,
  `KeptIsLast`), that filtering keeps a list's rows and their order (`KeptRows`,
  `KeptEnumerates`, `KeptInOrder`), and that sums over finite sets exist, are unique and compare
  (`SumsExist`, `TotalUnique`, `TotalCompare`).

The theorems about liveness have a hypothesis `[]GuardsEnable`: that the guards written in
the actions are what enables them. The prover cannot expand `ENABLED`, so `GuardsEnable` states,
place by place, that a fair action whose guard holds is enabled; TLC finds it invariant on the
instances of section 3 when it is added to their configurations, and it is evident from the
actions, which are assignments under those guards. `EachGoroutineLeaves` also assumes `SectionsEnd`,
`[]<>(processMu = Free)`: the loop over the sinks is as long as the list of sinks, and the
prover has no induction over behaviours to count it down; TLC confirms it on the instance of
`agent_delivery`. What is quantified over goroutines is proved goroutine by goroutine.

Only model-checked:

* `EachItemDelivered` and `ShutdownCompletes`. The first counts down a queue of any length, the
  second collects the ends of any number of goroutines: both need an induction whose statement
  is temporal. Their safety cores are theorems (`NothingLostOrRepeated`, `TypeCorrect`,
  `QuiescenceAfterRun`), and so is the second for each goroutine.
* `ParsedAsWritten`, which speaks of the recursive operators of `MetricExpr`.

Every other property of a passing run is a theorem.

## 5. Not modelled, and why

* The dashboard's single-ticker mode: the same steps as per-capturer mode under one ticker,
  with fewer interleavings. The algorithm that correlates alerts groups them by time and
  keys without state the rest depends on; the model has its input, its delay and its result.
* The order in which a page applies the responses of overlapping `refreshView` calls, and a
  snapshot stored between the page's response and its subscription: the model of the browser
  ends at the fetch. Both are listed as hazards.
* The process killer keeps no state: it parses pids from evidence and signals them. To the
  pipeline it is a responder that may fail, as any of `Failing` in `AlertPipeline`.
* `GetVerboseInfo` of the capturers changes no state and is shown, not judged. That of `NETCapturer`
  (`net.go:131-135`) counts an interface that was not in the last snapshot in full, where `GetInfo`
  leaves it out, so the two rates differ when an interface appears.
* `SnapshotManager` is used by tests only. Of the builder and the configuration the model
  has which capturers are enabled; defaults and parsing of intervals are left out.
* Loading and normalising indicators and the string comparisons behind `matchProcess`,
  `matchFile` and `matchRemoteIP`: the model has the set of what matches.
* Text formatting, graphs and markup of the dashboard (no state the rest depends on), reading
  the operating system (external; its results are inputs), flags, wiring and logging, the
  comparison of the dashboard's auth token.

* The order in which metrics are built and shown: `metricLess` (`dashboard.go:1335`) compares the
  numbers of two names of cores and otherwise the names. The model takes the list of names
  (`MetricNames`) to be in this order.

Out of the prover's reach, and so only checked by TLC: `ENABLED`; what the parser, the
printer and the evaluator of expressions compute for every text (`MetricExpr`, whose
operators are recursive, and which is checked against a second reading of the same texts
instead). `ConfigStore` is proved for whatever they compute.
