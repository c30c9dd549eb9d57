------------------------------ MODULE Capturers ------------------------------
(***************************************************************************)
(* The capturers (src/capturer) and the rules that judge what they report  *)
(* (src/detection_rules.go, src/ioc.go).  Capturers share nothing, so this *)
(* is the schedule of one of them: Capture reads the host call by call,    *)
(* while the host goes on changing, and replaces the snapshot only once    *)
(* every call has succeeded; then GetInfo compares the snapshot with the   *)
(* one before and the rules judge the result.                              *)
(*                                                                         *)
(* A key is what a capturer tells apart: a pid, a connection with its      *)
(* status, a path, an entry of a persistence source, a counter, a level.   *)
(* Its value is a number: for a file or an entry what is compared of it,   *)
(* for a process whether an indicator matches it.  An interface and a      *)
(* device have one counter here, which stands for both directions.         *)
(***************************************************************************)
EXTENDS Integers, Sequences, SequencesExt, FiniteSetsExt, Lists

CONSTANTS
  Enabled,      \* capturers the configuration enables
  Pids,         \* in ascending order
  Conns, Ifaces, Devices,
  WalkOrder,    \* paths in the order WalkDir finds them, which is that of their names
  FileRoots,    \* paths configured as files of their own
  Accepted,     \* paths with a tracked extension
  Sources,      \* the entries of each persistence source, in the sources' order
  Unreadable,   \* paths and entries that cannot be read at times
  Suspects,     \* paths and connections an indicator matches
  Failing,      \* capturers whose calls of the operating system may fail
  MaxFiles,     \* MaxFiles of the FileChangeCapturer
  FieldLimit,   \* entries that InfoData.Fields carries
  AlertLimit,   \* alerts of one evaluation of the IOC rule
  ProcLimit, FileLimit, NetLimit,    \* thresholds of their rules
  Levels,       \* percentages
  MaxChanges,   \* bound: changes of the host, for each capturer
  MaxCaptures,  \* bound: calls of Capture
  MaxTime       \* bound: the last moment

Names == {"CPU", "CONN", "DISK", "FILECHANGE", "MEM", "NET", "PERSIST", "PROC"}
Feeds == {"CONN", "FILECHANGE", "PERSIST", "PROC"}   \* report changes
Meters == {"CPU", "DISK", "NET"}                     \* read counters
Rated == {"DISK", "NET"}                             \* report what a counter gained

Keys ==
  [PROC |-> ToSet(Pids),           CONN |-> Conns,
   FILECHANGE |-> ToSet(WalkOrder), PERSIST |-> UNION ToSet(Sources),
   NET |-> Ifaces,                 DISK |-> {"used"} \cup Devices,
   CPU |-> {"busy", "idle"},       MEM |-> {"ram", "swap.total", "swap.used"}]

ASSUME EnabledAssumption == Enabled \subseteq Names /\ Failing \subseteq Names
ASSUME SequencesAssumption ==
  /\ Pids \in Seq(ToSet(Pids)) /\ WalkOrder \in Seq(ToSet(WalkOrder))
  /\ Sources \in Seq(SUBSET UNION ToSet(Sources))
ASSUME FiniteAssumption == \A n \in Names : IsFiniteSet(Keys[n])
\* The share of the disk that is used is no device.
ASSUME UsedAssumption == "used" \notin Ifaces \cup Devices
ASSUME OrderAssumption ==
  /\ IsInjective(Pids) /\ IsInjective(WalkOrder)
  /\ FileRoots \cup Accepted \subseteq ToSet(WalkOrder)
  /\ \A i, j \in DOMAIN Sources : i # j => Sources[i] \cap Sources[j] = {}
ASSUME LimitsAssumption ==
  {MaxFiles, FieldLimit, AlertLimit, ProcLimit, FileLimit, NetLimit} \subseteq Nat \ {0}
ASSUME LevelsAssumption == Levels \subseteq 0..100
ASSUME BoundsAssumption == MaxChanges \in [Names -> Nat] /\ {MaxCaptures, MaxTime} \subseteq Nat

Gone == -1       \* the value of a key that is not there
Unnamed == 0     \* a process that ended before its name was read
Ordinary == 1
Listed == 2      \* a process an indicator matches; of a file, another version

VARIABLES
  name,       \* whose schedule this is
  host,       \* what a call of the operating system would return now
  step,       \* "idle", "list" and "read" inside Capture
  pos,        \* the call of Capture that is next
  listed,     \* processes or files that were listed
  scanned,    \* files the walk counted
  read,       \* what was read so far
  percent,    \* PercentFn's answer in this Capture, and percentWarm
  prev, curr, \* the last two snapshots, None at first
  alerts,     \* alerts of the last report
  now,        \* the clock: moments it tells apart, however close
  changes, captures,
  recent,     \* history: what could be read of a key since the capture began
  view,       \* history: what the changes reported since the first add up to
  meter,      \* history: what a counter really counted, lost, and how often it fell
  readMeter,  \* history: the same when the counter was read
  first,      \* history: the first snapshot
  reported,   \* history: what a counter's reports add up to
  atOnce      \* history: the clock had not moved on between two snapshots

capture == <<step, pos, listed, scanned, read, percent, readMeter>>
results == <<prev, curr, alerts, view, first, reported, atOnce>>
vars == <<name, host, meter, recent, capture, results, now, changes, captures>>

None == <<>>
K == Keys[name]
Zero == [k \in K |-> 0]
NoCount == [k \in K |-> [real |-> 0, lost |-> 0, falls |-> 0]]

Init ==
  /\ name \in Enabled
  /\ host \in [K -> IF name \in Feeds THEN {Gone, Ordinary} ELSE {0}]
  /\ step = "idle" /\ pos = 1 /\ listed = {} /\ scanned = 0
  /\ read = [k \in K |-> Gone]
  /\ percent = [value |-> None, warm |-> FALSE]
  /\ prev = None /\ curr = None /\ alerts = {}
  /\ now = 0 /\ changes = 0 /\ captures = 0
  /\ recent = [k \in K |-> {host[k]}] /\ view = None
  /\ meter = NoCount /\ readMeter = NoCount /\ first = None
  /\ reported = Zero /\ atOnce = FALSE

(* The host -------------------------------------------------------------------- *)

\* Processes start and end, also under the pid of another, connections open and
\* close, files and entries come, change and go.  Of a connection, and of a file that is
\* not tracked, nothing else matters.
Contents(k) ==
  IF name = "CONN" \/ (name = "FILECHANGE" /\ k \notin Accepted) THEN {Ordinary}
  ELSE {Ordinary, Listed}
HostChange ==
  /\ name \in Feeds
  /\ \E k \in K : \E v \in {Gone} \cup Contents(k) :
       host[k] # v /\ host' = [host EXCEPT ![k] = v]
  /\ UNCHANGED meter

\* A counter goes on, starts again from zero, or is corrected downwards; a device is
\* taken away and comes back with its count or without.  What is there shows what was
\* really counted but for what was lost.
CounterChange ==
  /\ name \in Meters
  /\ \E k \in K \ {"used"} :
       \/ /\ host[k] # Gone
          /\ host' = [host EXCEPT ![k] = @ + 1] /\ meter' = [meter EXCEPT ![k].real = @ + 1]
       \/ /\ host[k] > 0
          /\ \E v \in {0, host[k] - 1} :
               /\ host' = [host EXCEPT ![k] = v]
               /\ meter' = [meter EXCEPT ![k].lost = @ + host[k] - v, ![k].falls = @ + 1]
       \/ /\ name # "CPU" /\ host[k] # Gone
          /\ host' = [host EXCEPT ![k] = Gone] /\ meter' = [meter EXCEPT ![k].falls = @ + 1]
       \/ /\ host[k] = Gone
          /\ \E v \in {0, meter[k].real - meter[k].lost} :
               /\ host' = [host EXCEPT ![k] = v]
               /\ meter' = [meter EXCEPT ![k].lost = meter[k].real - v]

LevelChange ==
  /\ \/ name = "DISK" /\ \E v \in Levels : host' = [host EXCEPT !["used"] = v]
     \/ name = "MEM" /\ \E v \in Levels : host' = [host EXCEPT !["ram"] = v]
     \/ /\ name = "MEM"     \* swap is switched on and off, or used
        /\ \E total \in {0, 5} : \E used \in 0..total :
             host' = [host EXCEPT !["swap.total"] = total, !["swap.used"] = used]
  /\ host' # host /\ UNCHANGED meter

Change ==
  /\ changes < MaxChanges[name] /\ changes' = changes + 1
  /\ HostChange \/ CounterChange \/ LevelChange
  /\ recent' = [k \in K |-> recent[k] \cup {host'[k]}]
  /\ UNCHANGED <<name, capture, results, now, captures>>

Tick ==
  /\ name \in Meters /\ now < MaxTime /\ now' = now + 1
  /\ UNCHANGED <<name, host, meter, recent, capture, results, changes, captures>>

(* Capture --------------------------------------------------------------------- *)

StartCapture ==
  /\ step = "idle" /\ captures < MaxCaptures
  /\ captures' = captures + 1
  /\ step' = IF name \in {"PROC", "FILECHANGE"} THEN "list" ELSE "read"
  /\ recent' = [k \in K |-> {host[k]}]
  /\ UNCHANGED <<name, host, meter, pos, listed, scanned, read, percent, readMeter, results, now,
                 changes>>

\* What Capture keeps in local variables is gone when it returns.
Return ==
  /\ step' = "idle" /\ pos' = 1 /\ listed' = {} /\ scanned' = 0
  /\ read' = [k \in K |-> Gone] /\ readMeter' = NoCount
  /\ percent' = [percent EXCEPT !.value = None]

\* ProcessesFn lists the pids, and WalkDir the files of a directory.
List ==
  /\ step = "list"
  /\ listed' = {k \in K : host[k] # Gone}
  /\ step' = "read"
  /\ UNCHANGED <<name, host, meter, recent, pos, scanned, read, percent, readMeter, results, now,
                 changes, captures>>

\* The next call of Capture reads the keys.
ReadKeys(keys) ==
  /\ step = "read"
  /\ read' = [k \in K |-> IF k \in keys THEN host[k] ELSE read[k]]
  /\ readMeter' = [k \in K |-> IF k \in keys THEN meter[k] ELSE readMeter[k]]
  /\ pos' = pos + 1
  /\ UNCHANGED <<name, host, meter, step, listed, results, now, changes, captures>>

\* Keys that are there and not captured: they are taken for gone.
Overlook(keys) ==
  recent' = [k \in K |-> IF k \in keys /\ host[k] # Gone THEN recent[k] \cup {Gone} ELSE recent[k]]

\* Mutant: once a process has ended, the others keep empty fields as well.
DescribeProcess_KeepsError ==
  /\ name = "PROC" /\ step = "read" /\ pos <= Len(Pids)
  /\ LET pid == Pids[pos]
         failed == \E other \in listed : host[other] = Gone
     IN read' = [read EXCEPT ![pid] =
                   IF pid \notin listed THEN Gone ELSE IF failed THEN Unnamed ELSE host[pid]]
  /\ pos' = pos + 1
  /\ UNCHANGED <<name, host, meter, recent, step, listed, scanned, percent, readMeter, results, now,
                 changes, captures>>

\* The processes that were listed are described one after the other: one that has ended
\* since keeps empty fields.
DescribeProcess ==
  /\ name = "PROC" /\ step = "read" /\ pos <= Len(Pids)
  /\ LET pid == Pids[pos] IN
       read' = [read EXCEPT ![pid] =
                  IF pid \notin listed THEN Gone ELSE IF host[pid] = Gone THEN Unnamed ELSE host[pid]]
  /\ pos' = pos + 1
  /\ UNCHANGED <<name, host, meter, recent, step, listed, scanned, percent, readMeter, results, now,
                 changes, captures>>

ReadConnections ==
  /\ name = "CONN" /\ pos = 1
  /\ ReadKeys(Conns)
  /\ UNCHANGED <<recent, scanned, percent>>

\* Mutant: one file more than the limit is tracked.
VisitFile_OffByOne ==
  /\ name = "FILECHANGE" /\ step = "read" /\ pos <= Len(WalkOrder)
  /\ LET path == WalkOrder[pos]
         found == path \in listed
     IN \E readable \in IF path \in Unreadable THEN BOOLEAN ELSE {TRUE} :
          /\ scanned' = IF path \notin FileRoots /\ found /\ readable THEN scanned + 1 ELSE scanned
          /\ LET keys == IF /\ path \in Accepted
                            /\ path \in FileRoots \/ (found /\ readable /\ scanned <= MaxFiles)
                         THEN {path} ELSE {}
             IN ReadKeys(keys) /\ Overlook({path} \ keys)
  /\ UNCHANGED percent

\* The walk's callback: it counts a file, also one that is not tracked, and ends the walk
\* at the limit.  A root that is a file is read on its own, and a file in a directory that
\* cannot be read is not found.
VisitFile ==
  /\ name = "FILECHANGE" /\ step = "read" /\ pos <= Len(WalkOrder)
  /\ LET path == WalkOrder[pos]
         found == path \in listed
     IN \E readable \in IF path \in Unreadable THEN BOOLEAN ELSE {TRUE} :
          /\ scanned' = IF path \notin FileRoots /\ found /\ readable THEN scanned + 1 ELSE scanned
          /\ LET keys == IF /\ path \in Accepted
                            /\ path \in FileRoots \/ (found /\ readable /\ scanned' <= MaxFiles)
                         THEN {path} ELSE {}
             IN ReadKeys(keys) /\ Overlook({path} \ keys)
  /\ UNCHANGED percent

\* A source's Snapshot leaves out the files it cannot read.
ReadSource ==
  /\ name = "PERSIST" /\ pos <= Len(Sources)
  /\ \E skipped \in SUBSET (Sources[pos] \cap Unreadable) :
       ReadKeys(Sources[pos] \ skipped) /\ Overlook(skipped)
  /\ UNCHANGED <<scanned, percent>>

ReadInterfaces ==
  /\ name = "NET" /\ pos = 1
  /\ ReadKeys(Ifaces)
  /\ UNCHANGED <<recent, scanned, percent>>

ReadDisks ==
  /\ name = "DISK" /\ pos <= 2
  /\ ReadKeys(IF pos = 1 THEN {"used"} ELSE Devices)
  /\ UNCHANGED <<recent, scanned, percent>>

\* TimesFn, and then PercentFn: its first answer is not used, an error is ignored.
ReadCPU ==
  /\ name = "CPU" /\ pos <= 2
  /\ ReadKeys(IF pos = 1 THEN K ELSE {})
  /\ percent' \in
       {percent} \cup IF pos = 1 THEN {} ELSE {[value |-> IF percent.warm THEN <<p>> ELSE None, warm |-> TRUE] : p \in Levels}
  /\ UNCHANGED <<recent, scanned>>

ReadMemory ==
  /\ name = "MEM" /\ pos <= 2
  /\ ReadKeys(IF pos = 1 THEN {"ram"} ELSE {"swap.total", "swap.used"})
  /\ UNCHANGED <<recent, scanned, percent>>

Read ==
  DescribeProcess \/ ReadConnections \/ VisitFile \/ ReadSource
    \/ ReadInterfaces \/ ReadDisks \/ ReadCPU \/ ReadMemory

\* How many calls Capture makes after listing.
Calls ==
  IF name = "PROC" THEN Len(Pids)
  ELSE IF name = "FILECHANGE" THEN Len(WalkOrder)
  ELSE IF name = "PERSIST" THEN Len(Sources)
  ELSE IF name \in {"DISK", "CPU", "MEM"} THEN 2 ELSE 1

\* The calls whose errors Capture returns.
MayFail ==
  \/ step = "list"
  \/ step = "read" /\ name # "PROC" /\ pos <= (IF name = "CPU" THEN 1 ELSE Calls)

\* Mutant: what was read before the failure replaces the snapshot.
CaptureFails_KeepsPart ==
  /\ name \in Failing /\ MayFail
  /\ Return
  /\ prev' = curr
  /\ curr' = <<[at |-> now, vals |-> read, percent |-> None, meter |-> readMeter]>>
  /\ UNCHANGED <<name, host, meter, recent, alerts, view, first, reported, atOnce, now, changes, captures>>

\* A call fails: Capture returns, and the snapshots stay.
CaptureFails ==
  /\ name \in Failing /\ MayFail
  /\ Return
  /\ UNCHANGED <<name, host, meter, recent, results, now, changes, captures>>

(* GetInfo ------------------------------------------------------------------------- *)

Present(snap) == {k \in K : snap.vals[k] # Gone}

\* What differs from the last snapshot; a first snapshot differs in nothing.
Added(snap) == IF curr = None THEN {} ELSE Present(snap) \ Present(curr[1])
Removed(snap) == IF curr = None THEN {} ELSE Present(curr[1]) \ Present(snap)
Changed(snap) ==
  IF curr = None THEN {}
  ELSE {k \in Present(snap) \cap Present(curr[1]) : snap.vals[k] # curr[1].vals[k]}

\* PROC and CONN compare keys only: another process with the same pid is no change.
ReportsContent == name \in {"FILECHANGE", "PERSIST"}
Modified(snap) == IF ReportsContent THEN Changed(snap) ELSE {}
Events(snap) == Added(snap) \cup Removed(snap) \cup Modified(snap)

InOrder(order, keys) == Kept(order, {i \in DOMAIN order : order[i] \in keys})
FirstOf(n, s) == SubSeq(s, 1, IF Len(s) < n THEN Len(s) ELSE n)

\* The entries of InfoData.Fields: new processes by pid, ...
ProcFields(snap) == {FirstOf(FieldLimit, InOrder(Pids, Added(snap)))}
\* ... new connections in the order the map yields them, ...
ConnFields(snap) == {FirstOf(FieldLimit, s) : s \in SetToSeqs(Added(snap))}
\* ... events by type and path.
FileFields(snap) ==
  {FirstOf(FieldLimit, InOrder(WalkOrder, Added(snap)) \o InOrder(WalkOrder, Removed(snap))
                         \o InOrder(WalkOrder, Modified(snap)))}

Fields(snap) ==
  CASE name = "PROC" -> ProcFields(snap) [] name = "CONN" -> ConnFields(snap)
    [] name = "FILECHANGE" -> FileFields(snap) [] OTHER -> {<<>>}

\* Mutant: a device that is new counts from zero.
Gain_NewCounts(snap, k) ==
  IF curr = None \/ snap.vals[k] = Gone THEN 0
  ELSE IF curr[1].vals[k] = Gone THEN snap.vals[k]
  ELSE IF snap.vals[k] < curr[1].vals[k] THEN 0
  ELSE snap.vals[k] - curr[1].vals[k]

\* What a counter gained: nothing if it was not there, or went down.
Gain(snap, k) ==
  IF curr = None \/ snap.vals[k] = Gone THEN 0
  ELSE IF curr[1].vals[k] = Gone \/ snap.vals[k] < curr[1].vals[k] THEN 0
  ELSE snap.vals[k] - curr[1].vals[k]

\* What the interfaces gained together.
Traffic(snap) == MapThenSumSet(LAMBDA k : Gain(snap, k), Ifaces)

\* However short it is, an interval has a rate.
Interval(snap) == IF curr = None THEN 0 ELSE snap.at - curr[1].at
HasRate(snap) == Interval(snap) > 0

\* Mutant: the share since the host started.
UsagePct_SinceStart(old, new) ==
  LET busy == new.vals["busy"]
      idle == new.vals["idle"]
  IN IF busy + idle <= 0 THEN None ELSE <<(100 * busy) \div (busy + idle)>>

\* cpuUsagePct: the busy share of what the times gained, if they did not go down.
UsagePct(old, new) ==
  LET busy == new.vals["busy"] - old.vals["busy"]
      idle == new.vals["idle"] - old.vals["idle"]
  IN IF busy + idle <= 0 \/ idle < 0 THEN None
     ELSE <<IF busy < 0 THEN 0 ELSE (100 * busy) \div (busy + idle)>>

CPUPct(snap) ==
  IF snap.percent # None THEN snap.percent
  ELSE IF curr = None THEN None ELSE UsagePct(curr[1], snap)

SwapPct(snap) ==
  IF snap.vals["swap.total"] > 0 THEN (100 * snap.vals["swap.used"]) \div snap.vals["swap.total"] ELSE 0

(* The rules ------------------------------------------------------------------------ *)

Alert(rule, about) == [rule |-> rule, about |-> about]
If(condition, alert) == IF condition THEN {alert} ELSE {}

RuleCPUHigh(snap) ==
  If(name = "CPU" /\ \E p \in ToSet(CPUPct(snap)) : p >= 90, Alert("cpu.high_usage", ""))
RuleMemPressure(snap) ==
  IF name # "MEM" THEN {}
  ELSE If(snap.vals["ram"] >= 90, Alert("mem.pressure", "ram"))
         \cup If(SwapPct(snap) >= 60, Alert("mem.pressure", "swap"))
RuleProcBurst(snap) ==
  If(name = "PROC" /\ Cardinality(Added(snap)) >= ProcLimit, Alert("proc.burst", ""))
RuleNetSpike(snap) ==
  If(name = "NET" /\ HasRate(snap) /\ Traffic(snap) >= NetLimit * Interval(snap),
     Alert("net.spike", ""))
RuleFileEventBurst(snap) ==
  If(name = "FILECHANGE" /\ Cardinality(Events(snap)) >= FileLimit, Alert("file.events_burst", ""))
\* Mutant: removed entries do not count.
RulePersistenceChange_NotRemoved(snap) ==
  If(name = "PERSIST" /\ Cardinality(Added(snap) \cup Modified(snap)) >= 1, Alert("persist.change", ""))
RulePersistenceChange(snap) ==
  If(name = "PERSIST" /\ Cardinality(Events(snap)) >= 1, Alert("persist.change", ""))

\* matchProcess, matchFile and matchRemoteIP.
Matches(snap, k) ==
  \/ name = "PROC" /\ snap.vals[k] = Listed
  \/ name \in {"FILECHANGE", "CONN"} /\ k \in Suspects
Matched(snap, fields) == InOrder(fields, {k \in K : Matches(snap, k)})

\* Mutant: the limit is compared before the alert is kept.
RuleIOCMatch_StopsEarly(snap, fields) ==
  {Alert("ioc.match", k) : k \in ToSet(FirstOf(AlertLimit - 1, Matched(snap, fields)))}

RuleIOCMatch(snap, fields) ==
  {Alert("ioc.match", k) : k \in ToSet(FirstOf(AlertLimit, Matched(snap, fields)))}

DefaultRules(snap) ==
  RuleCPUHigh(snap) \cup RuleMemPressure(snap) \cup RuleProcBurst(snap) \cup RuleNetSpike(snap)
    \cup RuleFileEventBurst(snap) \cup RulePersistenceChange(snap)

-----------------------------------------------------------------------------

\* A consumer's picture: PROC and CONN tell it which keys there are.
ShownOf(v) == IF v = Gone \/ ReportsContent THEN v ELSE Ordinary
Shown(vals) == [k \in K |-> ShownOf(vals[k])]
Picture(snap) ==
  IF view = None THEN <<Shown(snap.vals)>>
  ELSE <<[k \in K |-> IF k \in Events(snap) THEN Shown(snap.vals)[k] ELSE view[1][k]]>>

\* Capture replaces the snapshots and returns, GetInfo compares them, and the rules judge.
Report ==
  LET snap == [at |-> now, vals |-> read, percent |-> percent.value, meter |-> readMeter] IN
  /\ step = "read" /\ pos > Calls
  /\ Return
  /\ prev' = curr /\ curr' = <<snap>>
  /\ \E fields \in Fields(snap) : alerts' = DefaultRules(snap) \cup RuleIOCMatch(snap, fields)
  /\ reported' = IF name \in Rated /\ HasRate(snap) THEN [k \in K |-> reported[k] + Gain(snap, k)] 
                 ELSE reported
  /\ atOnce' = (atOnce \/ (curr # None /\ ~HasRate(snap)))
  /\ first' = IF name \in Rated /\ first = None THEN <<snap>> ELSE first
  /\ view' = IF name \in Feeds THEN Picture(snap) ELSE view
  /\ recent' = IF name \in Feeds THEN [k \in K |-> {host[k]}] ELSE recent
  /\ UNCHANGED <<name, host, meter, now, changes, captures>>

\* The bounds are reached.
Terminated == step = "idle" /\ captures = MaxCaptures /\ UNCHANGED vars

Next == Change \/ Tick \/ StartCapture \/ List \/ Read \/ CaptureFails \/ Report \/ Terminated

Spec == Init /\ [][Next]_vars

-----------------------------------------------------------------------------
(* Properties *)

Counts == [real: Nat, lost: Nat, falls: Nat]
Snapshots ==
  [at: 0..MaxTime, vals: [K -> Int], percent: {None} \cup {<<p>> : p \in Levels}, meter: [K -> Counts]]
IsOptional(x, S) == x = None \/ (x = <<x[1]>> /\ x[1] \in S)

\* Capture's state stays consistent with its steps, and a walk tracks at most MaxFiles
\* files besides those configured by name.
TypeOK ==
  /\ name \in Enabled
  /\ host \in [K -> Int] /\ meter \in [K -> Counts]
  /\ step \in {"idle", "list", "read"} /\ pos \in Nat \ {0} /\ scanned \in Nat
  /\ listed \subseteq K
  /\ read \in [K -> Int] /\ readMeter \in [K -> Counts]
  /\ percent \in [value: {None} \cup {<<p>> : p \in Levels}, warm: BOOLEAN]
  /\ IsOptional(prev, Snapshots) /\ IsOptional(curr, Snapshots) /\ IsOptional(first, Snapshots)
  /\ IsOptional(view, [K -> Int]) /\ recent \in [K -> SUBSET Int]
  /\ reported \in [K -> Nat] /\ atOnce \in BOOLEAN
  /\ now \in 0..MaxTime /\ changes \in 0..MaxChanges[name] /\ captures \in 0..MaxCaptures
  /\ name = "FILECHANGE" /\ curr # None => Cardinality(Present(curr[1]) \ FileRoots) <= MaxFiles

FeedKeys == UNION {Keys[n] : n \in Feeds}
Missable ==
  (Unreadable \cap Keys["PERSIST"]) \cup
  {WalkOrder[i] : i \in {j \in DOMAIN WalkOrder :
      \/ WalkOrder[j] \notin Accepted
      \/ WalkOrder[j] \notin FileRoots /\ (WalkOrder[j] \in Unreadable \/ j > MaxFiles)}}

\* The picture over the keys of all feeds.
Extended(f, nothing) == [k \in FeedKeys |-> IF name \in Feeds /\ k \in K THEN f[k] ELSE nothing]

Feed == INSTANCE ChangeFeed WITH
  Keys <- FeedKeys, Values <- Int, MayMiss <- Missable,
  host <- Extended(Shown(host), Gone),
  recent <- Extended([k \in K |-> {ShownOf(v) : v \in recent[k]}], {Gone}),
  known <- IF view = None THEN None ELSE <<Extended(view[1], Gone)>>

\* The changes PROC, CONN, FILECHANGE and PERSIST report, added up, are what the host was
\* at some moment of the capture, whatever captures failed before: no change that lasts is
\* lost, none is reported that did not happen.  Files beyond the walk's
\* limit and what cannot be read at times may be taken for gone.
ImplementsFeed == Feed!Spec

Reports == step = "read" /\ step' = "idle" /\ pos > Calls
Raised(rule) == \E a \in alerts' : a.rule = rule
Differs == {k \in K : view'[1][k] # view[1][k]}
Appears == {k \in Differs : view[1][k] = Gone}

\* A report that changes what is known of persistence is alerted and no other is; bursts
\* of files and processes are alerted by the number of keys that are new to the consumer,
\* from the limit on (detection_rules.go:73 and 118 say "exceed").
ChangesAlerted ==
  [][Reports /\ name \in Feeds /\ view # None =>
       /\ name = "PERSIST" => (Raised("persist.change") <=> Differs # {})
       /\ name = "FILECHANGE" => (Raised("file.events_burst") <=> Cardinality(Differs) >= FileLimit)
       /\ name = "PROC" => (Raised("proc.burst") <=> Cardinality(Appears) >= ProcLimit)]_vars

\* What a report names: events of files, pids and connections that were not there before.
NamedKeys == IF name = "FILECHANGE" THEN Differs ELSE Appears

\* A process an indicator matches, under a new pid, that was there all through the capture.
StaysListed(k) == name = "PROC" /\ view[1][k] = Gone /\ recent[k] = {Listed}

\* Indicators are alerted for what a report names and for nothing else: for each key that
\* matches, unless AlertLimit alerts were raised without it or it is one of the entries
\* beyond FieldLimit; and no process that lasts through the capture is missed because it
\* was not described.  A process under the pid of another is not named (ioc.go:76 says
\* "new processes").
SuspectsAlerted ==
  [][Reports /\ view # None =>
       LET suspects == {k \in NamedKeys : Matches(curr'[1], k)}
           alerted == {k \in K : Alert("ioc.match", k) \in alerts'}
       IN /\ alerted \subseteq suspects /\ {k \in K : StaysListed(k)} \subseteq suspects
          /\ \/ Cardinality(suspects \ alerted) <= Max({0, Cardinality(NamedKeys) - FieldLimit})
             \/ Cardinality(alerted) = AlertLimit]_vars

Real(snap, k) == snap.meter[k].real
Undisturbed(old, new, k) ==
  old.vals[k] # Gone /\ new.vals[k] # Gone /\ old.meter[k].falls = new.meter[k].falls

\* What NET and DISK say a counter gained since the first snapshot is never more than it
\* really gained, also if it started again or its device came later, and exactly that if
\* it never fell and the clock moved on between any two snapshots.
TrafficAccounted ==
  name \in Rated /\ curr # None =>
    \A k \in K \ {"used"} :
      LET gained == Real(curr[1], k) - Real(first[1], k)
      IN /\ reported[k] <= gained
         /\ Undisturbed(first[1], curr[1], k) /\ ~atOnce => reported[k] = gained

RealGain(k) == Real(curr[1], k) - Real(prev[1], k)
RealTraffic == MapThenSumSet(RealGain, Ifaces)
Alerted(rule) == \E a \in alerts : a.rule = rule
Steady == \A k \in K : Undisturbed(prev[1], curr[1], k)

\* A spike is alerted only if the interfaces really gained that much, and always if no
\* counter fell in between.
SpikesTruthful ==
  LET elapsed == curr[1].at - prev[1].at
      spike == elapsed > 0 /\ RealTraffic >= NetLimit * elapsed
  IN (Alerted("net.spike") => spike) /\ (Steady /\ spike => Alerted("net.spike"))

\* A CPU is alerted by PercentFn's answer where this capture has one that counts; else,
\* if the times did not fall, by whether it was busy since the capture before.
BusyTruthful ==
  LET answer == curr[1].percent
      busy == RealGain("busy") + RealGain("idle") > 0 /\ RealGain("busy") >= 9 * RealGain("idle")
  IN IF answer # None THEN Alerted("cpu.high_usage") <=> answer[1] >= 90
     ELSE IF prev = None THEN ~Alerted("cpu.high_usage")
     ELSE Steady => (Alerted("cpu.high_usage") <=> busy)

\* Memory is alerted by its share, and swap by its own, of which there may be none.
PressureTruthful ==
  LET m == curr[1].vals IN
  /\ Alert("mem.pressure", "ram") \in alerts <=> m["ram"] >= 90
  /\ Alert("mem.pressure", "swap") \in alerts
       <=> m["swap.total"] > 0 /\ 5 * m["swap.used"] >= 3 * m["swap.total"]

\* The alerts about counters and levels are those the host gave reason for, each from its
\* threshold on (detection_rules.go:21 and 93 say "exceeds").
AlertsTruthful ==
  /\ name = "NET" /\ prev # None => SpikesTruthful
  /\ name = "CPU" /\ curr # None => BusyTruthful
  /\ name = "MEM" /\ curr # None => PressureTruthful

=============================================================================
