----------------------------- MODULE ConfigStore -----------------------------
(***************************************************************************)
(* The dashboard's editable configuration (src/dashboard/dashboard.go):    *)
(* handleRules and handleMetrics save what a page posts to rules.json and  *)
(* metrics.json, outside d.mu, and then store it in memory under d.mu; the *)
(* detector is rebuilt from the rules.  Requests of several pages run at   *)
(* the same time and beside captures, saving may fail at any call, and the *)
(* process may crash and load the files again.                             *)
(*                                                                         *)
(* A page posts its whole table with one edit (dashboard.html:1347-1374,   *)
(* 1405-1450).  Titles, messages and severities of rules are left out; a   *)
(* source is "" for any capturer.  Reading and writing expressions is left *)
(* to Parse and Format, which MetricExpr defines, and what the rules say   *)
(* of a capture is in MetricRules.                                         *)
(***************************************************************************)
EXTENDS MetricRules, Lists, SequencesExt, FiniteSets

CONSTANTS
  Parse(_),      \* parseMetricExpr: the expression of a text, or None
  Format(_),     \* formatMetricExpr
  Clients,       \* pages
  Docs,          \* documents edited: "rules", "metrics"
  NewRules,      \* rows a page may add to its rules
  NewMetrics,    \* rows a page may add to its metrics
  RemovedRows,   \* bound: the rows a page may remove
  MetricNames,   \* the names of custom metrics, as metricLess sorts them
  Captures,      \* captures the rules may be asked about: a capturer and its metrics
  Indicators,    \* TRUE: the command line names a file of indicators
  SavesFail,     \* TRUE: opening or writing a file may fail
  MaxPosts,      \* bound: POSTs
  MaxCrashes     \* bound: crashes

\* A rule's id is a name, and the row of the rules it was generated for, if it was.
Ids == [name : STRING, row : Nat]
Rules == [id : Ids, metric : STRING, op : STRING, value : Fractions, source : STRING, enabled : BOOLEAN]

ASSUME ConstantsAssumption ==
  /\ Docs \subseteq {"rules", "metrics"} /\ {Indicators, SavesFail} \subseteq BOOLEAN
  /\ NewRules \subseteq Rules
  /\ {MaxPosts, MaxCrashes} \subseteq Nat

\* Names have one place in the order, and a page's metrics have one of them, or none.
ASSUME NamesAssumption ==
  /\ MetricNames \in Seq(STRING) /\ "" \notin Range(MetricNames)
  /\ \A i, j \in DOMAIN MetricNames : MetricNames[i] = MetricNames[j] => i = j
  /\ \A row \in NewMetrics : row.name \in Range(MetricNames) \cup {""}

ASSUME CapturesAssumption ==
  \A info \in Captures : info.metrics \in [DOMAIN info.metrics -> Fractions]

VARIABLES
  up,            \* the process runs
  file,          \* rules.json and metrics.json
  memory,        \* d.rulesConfig and d.customMetrics
  ioc,           \* d.iocConfig is not empty
  detector,      \* d.detector: its metric rules, and whether it has the IOC rule
  snapshotRules, \* d.snapshot.RulesConfig, or Nothing without a snapshot
  capture,       \* captureSingle's locals: its next step, customs and det
  req,           \* each page's request: its step, document and configuration
  shown,         \* the tables a page shows
  posts, crashes,
  during,        \* history: what memory held since the capture in progress began
  wanted,        \* history: what requests want of a document since it was last idle
  before,        \* history: what memory and file had of it when the first of them came
  overlapped,    \* history: documents of which there were two requests at a time since
  doubtful       \* history: documents truncated, and not saved by a lone request since

past == <<wanted, before, overlapped, doubtful>>
history == <<posts, crashes, past>>
capturing == <<capture, during>>
vars == <<up, file, memory, ioc, detector, snapshotRules, capturing, req, shown, history>>

(* Rules ---------------------------------------------------------------------- *)

Rule(name, metric, op, value, source) ==
  [id |-> [name |-> name, row |-> 0], metric |-> metric, op |-> op, value |-> Q(value), source |-> source, enabled |-> TRUE]

NoId == [name |-> "", row |-> 0]
RowId(i) == [name |-> "custom.rule.", row |-> i]

DefaultRules == <<
  Rule("cpu.high_usage", "cpu.total_pct", ">=", 90, "CPU"),
  Rule("mem.high_usage", "mem.ram.used_pct", ">=", 90, "MEM"),
  Rule("mem.swap_pressure", "mem.swap.used_pct", ">=", 60, "MEM"),
  Rule("proc.burst", "proc.new", ">=", 10, "PROC"),
  Rule("net.spike", "net.total", ">=", 1048576, "NET"),
  Rule("file.events_burst", "file.events", ">=", 50, "FILECHANGE"),
  Rule("persist.change", "persist.total", ">=", 1, "PERSIST")>>

Operators == {">", ">=", "<", "<=", "==", "!="}
NormalizeOp(op) == IF op \in Operators THEN op ELSE ">="

WithMetric(cfg) == {i \in DOMAIN cfg : cfg[i].metric # ""}

\* Mutant: a rule keeps an empty id.
NormalizeRulesConfig_NoId(cfg) ==
  Kept([i \in DOMAIN cfg |-> [cfg[i] EXCEPT !.op = NormalizeOp(@)]], WithMetric(cfg))

\* A rule without an id gets one from its row ...
NormalizeRule(rule, i) ==
  LET named == IF rule.id = NoId THEN [rule EXCEPT !.id = RowId(i)] ELSE rule
  IN [named EXCEPT !.op = NormalizeOp(rule.op)]

\* ... and one without a metric is dropped.
NormalizeRulesConfig(cfg) ==
  Kept([i \in DOMAIN cfg |-> NormalizeRule(cfg[i], i)], WithMetric(cfg))

\* The enabled rules, each with its Eval, and the IOC rule.
BuildDetector(rules, iocs) ==
  [rules |-> Kept(rules, {i \in DOMAIN rules : rules[i].enabled}), ioc |-> iocs]

\* Texts are strings, which the provers do not know of a literal.
ASSUME TextsAssumption ==
  /\ {"custom.rule.", ">="} \subseteq STRING
  /\ \A r \in Range(DefaultRules) : {r.id.name, r.metric, r.op, r.source} \subseteq STRING

(* Custom metrics -------------------------------------------------------------- *)

Before(name1, name2) ==
  \E i, j \in DOMAIN MetricNames : i < j /\ MetricNames[i] = name1 /\ MetricNames[j] = name2

\* The rows with a name, the first of each name, in the order of their names.
FirstOfEachName(rows) ==
  LET named(name) == {i \in DOMAIN rows : rows[i].name = name}
      names == Kept(MetricNames, {p \in DOMAIN MetricNames : named(MetricNames[p]) # {}})
  IN [k \in DOMAIN names |-> rows[Min(named(names[k]))]]

\* normalizeCustomMetrics: None if an expression is missing or does not parse.
NormalizeCustomMetrics(rows) ==
  LET kept == FirstOfEachName(rows)
      expr(i) == Parse(kept[i].text)
  IN IF \E i \in DOMAIN kept : kept[i].text = <<>> \/ expr(i) = None THEN None
     ELSE <<[i \in DOMAIN kept |-> [name |-> kept[i].name, expr |-> expr(i)[1]]]>>

\* toCustomMetricPayload: the rows a page shows.
ToCustomMetricPayload(metrics) ==
  [i \in DOMAIN metrics |-> [name |-> metrics[i].name, text |-> Format(metrics[i].expr)]]

(* Files ------------------------------------------------------------------------ *)

Absent == [kind |-> "absent", cfg |-> <<>>]
Empty == [kind |-> "empty", cfg |-> <<>>]
Torn == [kind |-> "torn", cfg |-> <<>>]      \* not a JSON document
Whole(cfg) == [kind |-> "whole", cfg |-> cfg]

\* What is written over what another request wrote since the file was truncated: a
\* shorter document leaves the other's end behind it.
Overwritten(old, cfg) ==
  IF old.kind = "empty" \/ old = Whole(cfg) THEN {Whole(cfg)} ELSE {Whole(cfg), Torn}

\* encoding/json leaves an empty source out of the file and decodes the rows into
\* those of the defaults: a row without a source has the default row's.
DecodeIntoDefaults(cfg) ==
  [i \in DOMAIN cfg |->
     IF cfg[i].source = "" /\ i \in DOMAIN DefaultRules
       THEN [cfg[i] EXCEPT !.source = DefaultRules[i].source] ELSE cfg[i]]

\* Mutant: a file that does not decode leaves no rules.
LoadRulesConfig_NoFallback(f) ==
  CASE f.kind = "whole" -> NormalizeRulesConfig(DecodeIntoDefaults(f.cfg))
    [] f.kind = "absent" -> DefaultRules
    [] OTHER -> <<>>

LoadRulesConfig(f) ==
  IF f.kind = "whole" THEN NormalizeRulesConfig(DecodeIntoDefaults(f.cfg)) ELSE DefaultRules

\* normalizeCustomMetricsUnsafe finds nothing to drop in a file the server wrote.
LoadCustomMetricsConfig(f) == f.cfg

-----------------------------------------------------------------------------

Nothing == <<Rule("", "", "", 0, "")>>
NoCapture == [step |-> "none", metrics |-> <<>>, detector |-> [rules |-> <<>>, ioc |-> FALSE]]
NoRequest == [step |-> "none", doc |-> "", cfg |-> <<>>]
Tables(mem) == [rules |-> mem.rules, metrics |-> ToCustomMetricPayload(mem.metrics)]

\* The process starts: NewDashboardServer loads both files.
Started(files) ==
  /\ up' = TRUE
  /\ memory' = [rules |-> LoadRulesConfig(files.rules), metrics |-> LoadCustomMetricsConfig(files.metrics)]
  /\ ioc' = FALSE
  /\ detector' = BuildDetector(memory'.rules, FALSE)
  /\ snapshotRules' = Nothing

Init ==
  /\ up = TRUE
  /\ file = [rules |-> Absent, metrics |-> Absent]
  /\ memory = [rules |-> DefaultRules, metrics |-> <<>>]
  /\ ioc = FALSE
  /\ detector = BuildDetector(DefaultRules, FALSE)
  /\ snapshotRules = Nothing
  /\ capture = NoCapture /\ during = {}
  /\ req = [c \in Clients |-> NoRequest]
  /\ shown = [c \in Clients |-> Tables(memory)]
  /\ posts = 0 /\ crashes = 0
  /\ wanted = [doc \in DOMAIN file |-> {}]
  /\ before = [doc \in DOMAIN file |-> [memory |-> memory[doc], file |-> Absent]]
  /\ overlapped = {} /\ doubtful = {}

Busy(doc) == \E c \in Clients : req[c].doc = doc
Step(c, step) == req' = [req EXCEPT ![c].step = step]
Respond(c) == req' = [req EXCEPT ![c] = NoRequest]

\* A lone request that comes to its end leaves the document in its file as in memory.
Saved(c) ==
  /\ doubtful' = IF req[c].doc \in overlapped THEN doubtful ELSE doubtful \ {req[c].doc}
  /\ UNCHANGED <<posts, crashes, wanted, before, overlapped>>

\* SetIOCConfig; cli/main.go:73 calls it before the server runs, if there are indicators.
SetIOCConfig ==
  /\ up /\ Indicators /\ ~ioc /\ capture = NoCapture
  /\ ioc' = TRUE
  /\ detector' = BuildDetector(NormalizeRulesConfig(memory.rules), TRUE)
  /\ UNCHANGED <<up, file, memory, snapshotRules, capturing, req, shown, history>>

Serving == up /\ ioc = Indicators

\* A capture reads the custom metrics under d.mu and applies them ...
ApplyMetrics ==
  /\ Serving /\ capture = NoCapture
  /\ capture' = [step |-> "judge", metrics |-> memory.metrics, detector |-> NoCapture.detector]
  /\ during' = {memory}
  /\ UNCHANGED <<up, file, memory, ioc, detector, snapshotRules, req, shown, history>>

\* ... reads the detector under d.mu and evaluates it outside ...
Judge ==
  /\ capture.step = "judge"
  /\ capture' = [step |-> "store", metrics |-> capture.metrics, detector |-> detector]
  /\ UNCHANGED <<up, file, memory, ioc, detector, snapshotRules, during, req, shown, history>>

\* ... and makes a snapshot, under d.mu, which carries the rules of that moment.  One
\* that failed is stored without metrics and alerts.
StoreCapture ==
  /\ Serving /\ capture.step # "judge"
  /\ snapshotRules' = memory.rules
  /\ capture' = NoCapture /\ during' = {}
  /\ UNCHANGED <<up, file, memory, ioc, detector, req, shown, history>>

\* A capture in progress overlaps with what a request stores.
Overtaken == during' = IF capture = NoCapture THEN {} ELSE during \cup {memory'}

\* A page opens: GET /rules and GET /metrics.
LoadTables(c) ==
  /\ Serving /\ req[c] = NoRequest /\ shown[c] # Tables(memory)
  /\ shown' = [shown EXCEPT ![c] = Tables(memory)]
  /\ UNCHANGED <<up, file, memory, ioc, detector, snapshotRules, capturing, req, history>>

\* A page's table with one row added or removed.
Edits(table, rows) ==
  {Append(table, r) : r \in rows} \cup {RemoveAt(table, i) : i \in RemovedRows \cap DOMAIN table}

Accept(c, doc, cfg) ==
  /\ req' = [req EXCEPT ![c] = [step |-> "open", doc |-> doc, cfg |-> cfg]]
  /\ IF Busy(doc)
       THEN /\ wanted' = [wanted EXCEPT ![doc] = @ \cup {cfg}]
            /\ overlapped' = overlapped \cup {doc}
            /\ UNCHANGED before
       ELSE /\ wanted' = [wanted EXCEPT ![doc] = {cfg}]
            /\ overlapped' = overlapped \ {doc}
            /\ before' = [before EXCEPT ![doc] = [memory |-> memory[doc], file |-> file[doc]]]
  /\ UNCHANGED doubtful

PostRules(c) ==
  /\ Serving /\ req[c] = NoRequest /\ posts < MaxPosts /\ "rules" \in Docs
  /\ posts' = posts + 1
  /\ \E table \in Edits(shown[c].rules, NewRules) : Accept(c, "rules", NormalizeRulesConfig(table))
  /\ UNCHANGED <<up, file, memory, ioc, detector, snapshotRules, capturing, shown, crashes>>

\* Metrics that do not parse are refused before anything is saved.
PostMetrics(c) ==
  /\ Serving /\ req[c] = NoRequest /\ posts < MaxPosts /\ "metrics" \in Docs
  /\ posts' = posts + 1
  /\ \E table \in Edits(shown[c].metrics, NewMetrics) :
       LET cfg == NormalizeCustomMetrics(table)
       IN IF cfg = None THEN UNCHANGED <<req, past>> ELSE Accept(c, "metrics", cfg[1])
  /\ UNCHANGED <<up, file, memory, ioc, detector, snapshotRules, capturing, shown, crashes>>

\* os.WriteFile opens the file and truncates it ...
OpenFile(c) ==
  /\ req[c].step = "open"
  /\ file' = [file EXCEPT ![req[c].doc] = Empty]
  /\ Step(c, "write")
  /\ doubtful' = doubtful \cup {req[c].doc}
  /\ UNCHANGED <<up, memory, ioc, detector, snapshotRules, capturing, shown, posts, crashes, wanted, before, overlapped>>

\* ... and writes it from its beginning.
WriteFile(c) ==
  /\ req[c].step = "write"
  /\ \E new \in Overwritten(file[req[c].doc], req[c].cfg) : file' = [file EXCEPT ![req[c].doc] = new]
  /\ Step(c, "store")
  /\ UNCHANGED <<up, memory, ioc, detector, snapshotRules, capturing, shown, history>>

\* Mutant: the error of saving is not looked at.
SaveFails_Ignored(c) ==
  /\ SavesFail /\ req[c].step \in {"open", "write"}
  /\ \E left \in {file[req[c].doc]} \cup (IF req[c].step = "write" THEN {Torn} ELSE {}) :
       file' = [file EXCEPT ![req[c].doc] = left]
  /\ Step(c, "store")
  /\ UNCHANGED <<up, memory, ioc, detector, snapshotRules, capturing, shown, history>>

\* Either may fail, the second after it wrote a part: the request fails and the
\* configuration in memory stays.
SaveFails(c) ==
  /\ SavesFail /\ req[c].step \in {"open", "write"}
  /\ \E left \in {file[req[c].doc]} \cup (IF req[c].step = "write" THEN {Torn} ELSE {}) :
       file' = [file EXCEPT ![req[c].doc] = left]
  /\ Respond(c)
  /\ UNCHANGED <<up, memory, ioc, detector, snapshotRules, capturing, shown, history>>

\* Mutant: the detector is not rebuilt.
StoreRules_NoRebuild(c) ==
  /\ req[c].step = "store" /\ req[c].doc = "rules"
  /\ memory' = [memory EXCEPT !.rules = req[c].cfg]
  /\ snapshotRules' = IF snapshotRules = Nothing THEN Nothing ELSE req[c].cfg
  /\ shown' = [shown EXCEPT ![c].rules = req[c].cfg]
  /\ Respond(c) /\ Saved(c) /\ Overtaken
  /\ UNCHANGED <<up, file, ioc, detector, capture>>

\* Under d.mu: the rules, a new detector and the snapshot's rules.
StoreRules(c) ==
  /\ req[c].step = "store" /\ req[c].doc = "rules"
  /\ memory' = [memory EXCEPT !.rules = NormalizeRulesConfig(req[c].cfg)]
  /\ detector' = BuildDetector(memory'.rules, ioc)
  /\ snapshotRules' = IF snapshotRules = Nothing THEN Nothing ELSE memory'.rules
  /\ shown' = [shown EXCEPT ![c].rules = memory'.rules]
  /\ Respond(c) /\ Saved(c) /\ Overtaken
  /\ UNCHANGED <<up, file, ioc, capture>>

\* Mutant: the metrics of the request are added to those there are.
StoreMetrics_Merges(c) ==
  /\ req[c].step = "store" /\ req[c].doc = "metrics"
  /\ memory' = [memory EXCEPT !.metrics = FirstOfEachName(@ \o req[c].cfg)]
  /\ shown' = [shown EXCEPT ![c].metrics = ToCustomMetricPayload(memory'.metrics)]
  /\ Respond(c) /\ Saved(c) /\ Overtaken
  /\ UNCHANGED <<up, file, ioc, detector, snapshotRules, capture>>

\* Under d.mu: the metrics.
StoreMetrics(c) ==
  /\ req[c].step = "store" /\ req[c].doc = "metrics"
  /\ memory' = [memory EXCEPT !.metrics = req[c].cfg]
  /\ shown' = [shown EXCEPT ![c].metrics = ToCustomMetricPayload(req[c].cfg)]
  /\ Respond(c) /\ Saved(c) /\ Overtaken
  /\ UNCHANGED <<up, file, ioc, detector, snapshotRules, capture>>

\* The process ends without warning; requests end with it, pages stay.
Crash ==
  /\ up /\ crashes < MaxCrashes
  /\ crashes' = crashes + 1
  /\ up' = FALSE
  /\ req' = [c \in Clients |-> NoRequest]
  /\ capture' = NoCapture /\ during' = {}
  /\ UNCHANGED <<file, memory, ioc, detector, snapshotRules, shown, posts, past>>

Restart ==
  /\ ~up
  /\ Started(file)
  /\ wanted' = [doc \in DOMAIN file |-> {}]
  /\ before' = [doc \in DOMAIN file |-> [memory |-> memory'[doc], file |-> file[doc]]]
  /\ overlapped' = {} /\ doubtful' = {}
  /\ UNCHANGED <<file, capturing, req, shown, posts, crashes>>

Handler(c) == OpenFile(c) \/ WriteFile(c) \/ SaveFails(c) \/ StoreRules(c) \/ StoreMetrics(c)

\* The bounds are reached and nothing is under way.
Terminated ==
  /\ up /\ posts = MaxPosts /\ \A c \in Clients : req[c] = NoRequest
  /\ UNCHANGED vars

Next ==
  \/ Terminated
  \/ SetIOCConfig \/ ApplyMetrics \/ Judge \/ StoreCapture \/ Crash \/ Restart
  \/ \E c \in Clients : LoadTables(c) \/ PostRules(c) \/ PostMetrics(c) \/ Handler(c)

Spec == Init /\ [][Next]_vars

-----------------------------------------------------------------------------
(* Properties *)

\* A rule as NormalizeRulesConfig leaves it.
NormalRule(r) == r.id # NoId /\ r.metric # "" /\ r.op \in Operators
NormalRules == {r \in Rules : NormalRule(r)}

ConfigsOK ==
  /\ \A doc \in DOMAIN file : file[doc].kind \in {"absent", "empty", "torn", "whole"}
  /\ memory.rules \in Seq(NormalRules) /\ file.rules.cfg \in Seq(NormalRules)

RequestOK(r) ==
  \/ r = NoRequest
  \/ /\ r.step \in {"open", "write", "store"} /\ r.doc \in Docs
     /\ r.doc = "rules" => r.cfg \in Seq(NormalRules)

\* The rules in memory, in a file and in a request are normalised: every rule has an id, a
\* metric and an operator that is compared with.
TypeOK ==
  /\ up \in BOOLEAN /\ ioc \in BOOLEAN
  /\ ConfigsOK
  /\ \A c \in Clients : RequestOK(req[c]) /\ shown[c].rules \in Seq(Rules)
  /\ posts \in 0..MaxPosts /\ crashes \in 0..MaxCrashes
  /\ overlapped \cup doubtful \subseteq Docs
  /\ capture.step \in {"none", "judge", "store"} /\ (capture = NoCapture <=> during = {})

\* dashboard.go:498: a capture copies the metrics and the detector at two moments, and is
\* stored at a third.  Whatever requests, IOC settings and restarts come in between, its
\* custom metrics and its alerts are each those of a configuration that was in memory
\* during the capture: one that begins after a POST was answered is judged by what was
\* posted.  The snapshot shows the rules in memory, which need not be those its alerts are
\* of.
CaptureJudged ==
  /\ snapshotRules \in {Nothing, memory.rules}
  /\ capture # NoCapture => \E m \in during : capture.metrics = m.metrics
  /\ capture.step = "store" => \E m \in during : capture.detector = BuildDetector(m.rules, ioc)

SameButSources(rules1, rules2) ==
  /\ DOMAIN rules1 = DOMAIN rules2
  /\ \A i \in DOMAIN rules1 :
       \/ rules1[i] = rules2[i]
       \/ rules2[i].source = "" /\ rules1[i] = [rules2[i] EXCEPT !.source = rules1[i].source]

\* A restart finds what was in memory, up to sources left empty, unless the file was
\* truncated and no lone request saved the document since: WriteFile truncates first,
\* memory is set last, and nothing holds other requests back.  Even then it comes up with
\* rules somebody wanted, never with a mixture or with none: with those of one of the
\* requests since the document was idle, with what the file had then, or the defaults.
RestartRecovers ==
  [][~up /\ up' =>
       /\ \A doc \in DOMAIN file :
            \/ doc \in doubtful
            \/ doc = "rules" /\ SameButSources(memory'.rules, memory.rules)
            \/ doc = "metrics" /\ memory'.metrics = memory.metrics
       /\ \/ memory'.rules = DefaultRules
          \/ \E r \in wanted.rules \cup {before.rules.file.cfg} : SameButSources(memory'.rules, r)]_vars

\* However requests overlap and fail, memory and file each hold what one of them wanted
\* or what they held before, though not always the same, or the file is torn.
OverlapKeepsOne ==
  \A doc \in DOMAIN file :
    /\ memory[doc] \in wanted[doc] \cup {before[doc].memory}
    /\ file[doc].kind = "whole" =>
         file[doc] \in {Whole(cfg) : cfg \in wanted[doc]} \cup {before[doc].file}

\* A custom metric has the value of its expression over the captured metrics and the
\* custom metrics that sort before it, if that is defined; captured metrics keep their
\* values.
Resolved(captured, got) ==
  LET customs == {m \in Range(memory.metrics) : m.name \notin DOMAIN captured}
      earlier(m) == DOMAIN captured \cup {o.name : o \in {p \in customs : Before(p.name, m.name)}}
      value(m) == Eval(m.expr, Restrict(got, DOMAIN got \cap earlier(m)))
  IN /\ \A k \in DOMAIN captured : k \in DOMAIN got /\ got[k] = captured[k]
     /\ \A m \in customs :
          IF value(m) = None THEN m.name \notin DOMAIN got
          ELSE m.name \in DOMAIN got /\ got[m.name] = value(m)[1]

SignsOf(op) ==
  CASE op = ">" -> {1} [] op = "<" -> {-1} [] op = ">=" -> {0, 1} [] op = "<=" -> {-1, 0}
    [] op = "==" -> {0} [] op = "!=" -> {-1, 1}
Sign(x) == IF x.n > 0 THEN 1 ELSE IF x.n < 0 THEN -1 ELSE 0

\* Custom metrics have the values their texts say, in order; and an enabled rule alerts on
\* a capture of its source exactly if the metric, captured, custom or the sum of the parts
\* there are, differs from the threshold the way its operator says; a metric that is not
\* there alerts nobody.
AlertsAsConfigured ==
  \A info \in Captures :
    LET metrics == ApplyCustomMetrics(info.metrics, memory.metrics)
        part(k) == PartValue(metrics, k)
        value(k) ==
          IF k \in DOMAIN metrics THEN metrics[k]
          ELSE CASE k = "net.total" -> Plus(part("net.rx"), part("net.tx"))
                 [] k = "persist.total" ->
                      Plus(part("persist.added"), Plus(part("persist.changed"), part("persist.removed")))
        parts(k) ==
          {k} \cup (CASE k = "net.total" -> {"net.rx", "net.tx"}
                     [] k = "persist.total" -> {"persist.added", "persist.changed", "persist.removed"}
                     [] OTHER -> {})
    IN /\ Resolved(info.metrics, metrics)
       /\ \A r \in Range(memory.rules) :
            RuleAlerts(r, info.capturer, metrics) <=>
              /\ r.source \in {"", info.capturer} /\ parts(r.metric) \cap DOMAIN metrics # {}
              /\ Sign(Plus(value(r.metric), Neg(r.value))) \in SignsOf(r.op)

\* What is saved is what is in memory: after a restart the same rules apply.
\* (dashboard.html offers "Any capturer" as a source, and it is not kept.)
RulesPersisted ==
  up /\ ~Busy("rules") => LoadRulesConfig(file.rules) = memory.rules

=============================================================================
