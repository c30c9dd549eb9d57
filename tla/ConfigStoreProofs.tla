-------------------------- MODULE ConfigStoreProofs --------------------------
(***************************************************************************)
(* Proofs about ConfigStore: for every number of pages, posts and crashes, *)
(* and for every rules and metrics.                                        *)
(***************************************************************************)
EXTENDS ConfigStore, ListsProofs

(* Normalisation ------------------------------------------------------------------ *)

\* Normalising a rule gives it an identity and an operator, and leaves a normal rule.
LEMMA NormalizeOneRule ==
  ASSUME NEW rule \in Rules, NEW i \in Nat \ {0}
  PROVE  /\ NormalizeRule(rule, i) \in Rules
         /\ rule.metric # "" => NormalizeRule(rule, i) \in NormalRules
         /\ rule \in NormalRules => NormalizeRule(rule, i) = rule
<1> DEFINE named == IF rule.id = NoId THEN [rule EXCEPT !.id = RowId(i)] ELSE rule
           op == NormalizeOp(rule.op)
           new == [named EXCEPT !.op = op]
<1>1. NormalizeRule(rule, i) = new
  BY DEF NormalizeRule
<1>2. RowId(i) \in Ids /\ RowId(i) # NoId
  BY TextsAssumption DEF RowId, Ids, NoId
<1>3. named \in Rules /\ named.id # NoId /\ named.metric = rule.metric /\ (rule.id # NoId => named = rule)
  BY <1>2 DEF Rules
<1>4. op \in STRING /\ op \in Operators /\ (rule.op \in Operators => op = rule.op)
  <2>1. rule.op \in STRING
    BY DEF Rules
  <2>2. ">=" \in STRING /\ ">=" \in Operators
    BY TextsAssumption DEF Operators
  <2>3. QED
    BY <2>1, <2>2 DEF NormalizeOp
<1> HIDE DEF named, op
<1>5. /\ new \in Rules /\ new.id = named.id /\ new.metric = named.metric /\ new.op = op
      /\ named.op = op => new = named
  BY <1>3, <1>4 DEF Rules
<1>6. rule.metric # "" => new \in NormalRules
  BY <1>3, <1>4, <1>5 DEF NormalRules, NormalRule
<1>7. ASSUME rule \in NormalRules PROVE new = rule
  <2>1. rule.id # NoId /\ rule.op \in Operators
    BY <1>7 DEF NormalRules, NormalRule
  <2>2. QED
    BY <2>1, <1>3, <1>4, <1>5
<1>8. QED
  BY <1>1, <1>5, <1>6, <1>7

\* Normalising gives normal rules, and leaves normal rules as they are.
LEMMA Normalizing ==
  ASSUME NEW cfg \in Seq(Rules)
  PROVE  /\ NormalizeRulesConfig(cfg) \in Seq(NormalRules)
         /\ cfg \in Seq(NormalRules) => NormalizeRulesConfig(cfg) = cfg
<1> DEFINE rows == [i \in DOMAIN cfg |-> NormalizeRule(cfg[i], i)]
           R == {rows[i] : i \in WithMetric(cfg) \cap DOMAIN rows}
<1>1. \A i \in DOMAIN cfg : cfg[i] \in Rules /\ i \in Nat \ {0}
  OBVIOUS
<1>2. \A i \in DOMAIN cfg : NormalizeRule(cfg[i], i) \in Rules
  BY <1>1, NormalizeOneRule
<1>3. rows \in Seq(Rules)
  BY <1>2
<1>4. /\ Kept(rows, WithMetric(cfg)) \in Seq(R)
      /\ DOMAIN rows \subseteq WithMetric(cfg) => Kept(rows, WithMetric(cfg)) = rows
  <2> HIDE DEF rows
  <2>1. QED
    BY <1>3, KeptRows
<1>5. NormalizeRulesConfig(cfg) = Kept(rows, WithMetric(cfg))
  BY DEF NormalizeRulesConfig
<1>6. R \subseteq NormalRules
  <2>1. ASSUME NEW i \in WithMetric(cfg) PROVE NormalizeRule(cfg[i], i) \in NormalRules
    BY <1>1, NormalizeOneRule DEF WithMetric
  <2>2. QED
    BY <2>1
<1>7. ASSUME cfg \in Seq(NormalRules) PROVE rows = cfg /\ DOMAIN rows \subseteq WithMetric(cfg)
  <2>1. \A i \in DOMAIN cfg : cfg[i] \in NormalRules
    BY <1>7
  <2>2. \A i \in DOMAIN cfg : NormalizeRule(cfg[i], i) = cfg[i]
    BY <1>1, <2>1, NormalizeOneRule
  <2>3. rows = cfg
    BY <2>2
  <2>4. QED
    BY <2>1, <2>3 DEF NormalRules, NormalRule, WithMetric
<1>8. Kept(rows, WithMetric(cfg)) \in Seq(NormalRules)
  <2> HIDE DEF R
  <2>1. QED
    BY <1>4, <1>6
<1> HIDE DEF rows
<1>9. QED
  BY <1>4, <1>5, <1>7, <1>8

\* What the provers need to know of a default rule.
Sound(r) ==
  \E name, metric, op, value, source :
    /\ r = Rule(name, metric, op, value, source)
    /\ value \in Int /\ name # "" /\ metric # "" /\ op \in Operators

\* Integers are fractions.
LEMMA IntegerFraction == \A v \in Int : Q(v) \in Fractions
BY DEF Q, Fractions

\* A default rule with a name, a metric and an operator is sound.
LEMMA RuleSound ==
  ASSUME NEW name, NEW metric, NEW op \in Operators, NEW value \in Int, NEW source,
         name # "", metric # ""
  PROVE  Sound(Rule(name, metric, op, value, source))
BY DEF Sound

\* The default rules are normalised.
LEMMA DefaultsNormal == DefaultRules \in Seq(NormalRules)
<1>1. DOMAIN DefaultRules = 1..7 /\ DefaultRules = [i \in 1..7 |-> DefaultRules[i]]
  BY SMT DEF DefaultRules
<1>2. \A i \in 1..7 : Sound(DefaultRules[i])
  <2>0. ">=" \in Operators
    BY DEF Operators
  <2>1. Sound(DefaultRules[1])
    <3> DEFINE value == 90
    <3>1. DefaultRules[1] = Rule("cpu.high_usage", "cpu.total_pct", ">=", value, "CPU")
      BY SMT DEF DefaultRules
    <3>2. value \in Int /\ "cpu.high_usage" # "" /\ "cpu.total_pct" # ""
      BY SMT
    <3> HIDE DEF value
    <3>3. QED
      BY <3>1, <3>2, <2>0, RuleSound, Zenon
  <2>2. Sound(DefaultRules[2])
    <3> DEFINE value == 90
    <3>1. DefaultRules[2] = Rule("mem.high_usage", "mem.ram.used_pct", ">=", value, "MEM")
      BY SMT DEF DefaultRules
    <3>2. value \in Int /\ "mem.high_usage" # "" /\ "mem.ram.used_pct" # ""
      BY SMT
    <3> HIDE DEF value
    <3>3. QED
      BY <3>1, <3>2, <2>0, RuleSound, Zenon
  <2>3. Sound(DefaultRules[3])
    <3> DEFINE value == 60
    <3>1. DefaultRules[3] = Rule("mem.swap_pressure", "mem.swap.used_pct", ">=", value, "MEM")
      BY SMT DEF DefaultRules
    <3>2. value \in Int /\ "mem.swap_pressure" # "" /\ "mem.swap.used_pct" # ""
      BY SMT
    <3> HIDE DEF value
    <3>3. QED
      BY <3>1, <3>2, <2>0, RuleSound, Zenon
  <2>4. Sound(DefaultRules[4])
    <3> DEFINE value == 10
    <3>1. DefaultRules[4] = Rule("proc.burst", "proc.new", ">=", value, "PROC")
      BY SMT DEF DefaultRules
    <3>2. value \in Int /\ "proc.burst" # "" /\ "proc.new" # ""
      BY SMT
    <3> HIDE DEF value
    <3>3. QED
      BY <3>1, <3>2, <2>0, RuleSound, Zenon
  <2>5. Sound(DefaultRules[5])
    <3> DEFINE value == 1048576
    <3>1. DefaultRules[5] = Rule("net.spike", "net.total", ">=", value, "NET")
      BY SMT DEF DefaultRules
    <3>2. value \in Int /\ "net.spike" # "" /\ "net.total" # ""
      BY SMT
    <3> HIDE DEF value
    <3>3. QED
      BY <3>1, <3>2, <2>0, RuleSound, Zenon
  <2>6. Sound(DefaultRules[6])
    <3> DEFINE value == 50
    <3>1. DefaultRules[6] = Rule("file.events_burst", "file.events", ">=", value, "FILECHANGE")
      BY SMT DEF DefaultRules
    <3>2. value \in Int /\ "file.events_burst" # "" /\ "file.events" # ""
      BY SMT
    <3> HIDE DEF value
    <3>3. QED
      BY <3>1, <3>2, <2>0, RuleSound, Zenon
  <2>7. Sound(DefaultRules[7])
    <3> DEFINE value == 1
    <3>1. DefaultRules[7] = Rule("persist.change", "persist.total", ">=", value, "PERSIST")
      BY SMT DEF DefaultRules
    <3>2. value \in Int /\ "persist.change" # "" /\ "persist.total" # ""
      BY SMT
    <3> HIDE DEF value
    <3>3. QED
      BY <3>1, <3>2, <2>0, RuleSound, Zenon
  <2>8. QED
    BY <2>1, <2>2, <2>3, <2>4, <2>5, <2>6, <2>7
<1>3. ASSUME NEW i \in 1..7 PROVE DefaultRules[i] \in NormalRules
  <2>1. PICK name, metric, op, value, source :
          /\ DefaultRules[i] = Rule(name, metric, op, value, source)
          /\ value \in Int /\ name # "" /\ metric # "" /\ op \in Operators
    BY <1>2 DEF Sound
  <2> DEFINE r == Rule(name, metric, op, value, source)
  <2>2. r \in Range(DefaultRules)
    BY <1>1, <2>1 DEF Range
  <2>3. {r.id.name, r.metric, r.op, r.source} \subseteq STRING
    BY <2>2, TextsAssumption
  <2>4. r.id.name = name /\ r.metric = metric /\ r.op = op /\ r.source = source
    BY DEF Rule
  <2>5. {name, metric, op, source} \subseteq STRING
    BY <2>3, <2>4
  <2>6. [name |-> name, row |-> 0] \in Ids /\ [name |-> name, row |-> 0] # NoId
    BY <2>1, <2>5 DEF Ids, NoId
  <2>7. Q(value) \in Fractions
    BY <2>1, IntegerFraction
  <2>8. r \in Rules
    BY <2>5, <2>6, <2>7 DEF Rule, Rules
  <2>9. NormalRule(r)
    BY <2>1, <2>6 DEF Rule, NormalRule
  <2>10. QED
    BY <2>1, <2>8, <2>9 DEF NormalRules
<1>4. QED
  BY <1>1, <1>3

\* A file holds what was written to it, up to sources left empty.
LEMMA Decoding ==
  ASSUME NEW cfg, cfg \in Seq(NormalRules)
  PROVE  DecodeIntoDefaults(cfg) \in Seq(NormalRules) /\ SameButSources(DecodeIntoDefaults(cfg), cfg)
<1>1. \A i \in DOMAIN cfg : cfg[i] \in NormalRules
  OBVIOUS
<1>2. \A i \in DOMAIN DefaultRules : DefaultRules[i].source \in STRING
  BY DefaultsNormal DEF NormalRules, Rules
<1>3. ASSUME NEW rule \in NormalRules, NEW source \in STRING
      PROVE  [rule EXCEPT !.source = source] \in NormalRules
  BY DEF NormalRules, NormalRule, Rules
<1>4. ASSUME NEW rule \in NormalRules, NEW source
      PROVE  [rule EXCEPT !.source = source] = [rule EXCEPT !.source = [rule EXCEPT !.source = source].source]
  <2>1. [rule EXCEPT !.source = source].source = source
    BY DEF NormalRules, Rules
  <2>2. QED
    BY <2>1
<1>5. \A i \in DOMAIN cfg : DecodeIntoDefaults(cfg)[i] \in NormalRules
  BY <1>1, <1>2, <1>3 DEF DecodeIntoDefaults
<1>6. DecodeIntoDefaults(cfg) \in Seq(NormalRules)
  <2>1. DecodeIntoDefaults(cfg) = [i \in DOMAIN cfg |-> DecodeIntoDefaults(cfg)[i]]
    BY DEF DecodeIntoDefaults
  <2>2. PICK n \in Nat : DOMAIN cfg = 1..n
    OBVIOUS
  <2>3. QED
    BY <2>1, <2>2, <1>5
<1>7. SameButSources(DecodeIntoDefaults(cfg), cfg)
  BY <1>1, <1>4 DEF DecodeIntoDefaults, SameButSources
<1>8. QED
  BY <1>6, <1>7

\* Loading gives normal rules: those of a whole file, or the defaults.
LEMMA Loading ==
  ASSUME NEW f, f.cfg \in Seq(NormalRules)
  PROVE  /\ LoadRulesConfig(f) \in Seq(NormalRules)
         /\ f.kind = "whole" => SameButSources(LoadRulesConfig(f), f.cfg)
         /\ f.kind # "whole" => LoadRulesConfig(f) = DefaultRules
<1>1. DecodeIntoDefaults(f.cfg) \in Seq(NormalRules) /\ SameButSources(DecodeIntoDefaults(f.cfg), f.cfg)
  BY Decoding
<1>2. NormalizeRulesConfig(DecodeIntoDefaults(f.cfg)) = DecodeIntoDefaults(f.cfg)
  <2>1. DecodeIntoDefaults(f.cfg) \in Seq(Rules)
    BY <1>1 DEF NormalRules
  <2>2. QED
    BY <1>1, <2>1, Normalizing
<1>3. QED
  BY <1>1, <1>2, DefaultsNormal DEF LoadRulesConfig

(* The invariant -------------------------------------------------------------------- *)

\* The shapes of the records in the variables.
ReqShapes == DOMAIN req = Clients /\ \A c \in Clients : DOMAIN req[c] = {"step", "doc", "cfg"}
Shapes ==
  /\ DOMAIN file = {"rules", "metrics"} /\ DOMAIN memory = {"rules", "metrics"}
  /\ DOMAIN wanted = {"rules", "metrics"} /\ DOMAIN before = {"rules", "metrics"}
  /\ ReqShapes
  /\ DOMAIN shown = Clients /\ \A c \in Clients : DOMAIN shown[c] = {"rules", "metrics"}

\* A request's configuration is among those wanted, and requests end with the process.
RequestsWanted ==
  /\ \A c \in Clients : req[c].step # "none" => req[c].cfg \in wanted[req[c].doc]
  /\ ~up => \A c \in Clients : req[c].step = "none"

\* Loading the file gives what is in memory, up to sources left empty.
Recovers(doc) ==
  \/ doc = "rules" /\ SameButSources(LoadRulesConfig(file.rules), memory.rules)
  \/ doc = "metrics" /\ LoadCustomMetricsConfig(file.metrics) = memory.metrics

\* A lone request finds the file as it left it.
Alone(c) ==
  /\ \A d \in Clients : req[d].doc = req[c].doc => d = c
  /\ req[c].step = "write" => file[req[c].doc] = Empty
  /\ req[c].step = "store" => file[req[c].doc] = Whole(req[c].cfg)

FilesSaved ==
  /\ \A doc \in DOMAIN file : doc \in doubtful \/ Recovers(doc)
  /\ \A c \in Clients : req[c].step \in {"write", "store"} => req[c].doc \in doubtful
  /\ \A c \in Clients : req[c].step # "none" => req[c].doc \in overlapped \/ Alone(c)

\* What a handler does to the requests.
Others(c) == DOMAIN req' = Clients /\ \A d \in Clients : d # c => req'[d] = req[d]

\* A handler that goes on keeps its request.
LEMMA Stepped ==
  ASSUME Shapes, NEW c \in Clients, NEW step, Step(c, step)
  PROVE  /\ req'[c] = [step |-> step, doc |-> req[c].doc, cfg |-> req[c].cfg]
         /\ req'[c].step = step /\ req'[c].doc = req[c].doc /\ req'[c].cfg = req[c].cfg
         /\ Others(c) /\ ReqShapes'
BY DEF Shapes, ReqShapes, Step, Others

\* A handler that answers leaves no request.
LEMMA Responded ==
  ASSUME Shapes, NEW c \in Clients, Respond(c)
  PROVE  req'[c] = NoRequest /\ Others(c) /\ ReqShapes'
<1>1. req'[c] = NoRequest /\ Others(c)
  BY DEF Shapes, ReqShapes, Respond, Others
<1>2. DOMAIN NoRequest = {"step", "doc", "cfg"}
  BY DEF NoRequest
<1>3. QED
  BY <1>1, <1>2 DEF Shapes, ReqShapes, Others

\* A post makes one request.
LEMMA Accepted ==
  ASSUME Shapes, NEW c \in Clients, NEW doc, NEW cfg, Accept(c, doc, cfg)
  PROVE  /\ req'[c] = [step |-> "open", doc |-> doc, cfg |-> cfg]
         /\ req'[c].step = "open" /\ req'[c].doc = doc /\ req'[c].cfg = cfg
         /\ Others(c) /\ ReqShapes'
BY DEF Shapes, ReqShapes, Accept, Others

(* Types ------------------------------------------------------------------------------ *)

ClientsOK == \A c \in Clients : RequestOK(req[c]) /\ shown[c].rules \in Seq(Rules)
CountsOK == posts \in 0..MaxPosts /\ crashes \in 0..MaxCrashes
MarksOK == overlapped \cup doubtful \subseteq Docs
FlagsOK == up \in BOOLEAN /\ ioc \in BOOLEAN
CapturesOK == capture.step \in {"none", "judge", "store"} /\ (capture = NoCapture <=> during = {})

\* The parts of the types.
LEMMA TypeParts == TypeOK <=> FlagsOK /\ ConfigsOK /\ ClientsOK /\ CountsOK /\ MarksOK /\ CapturesOK
BY DEF TypeOK, FlagsOK, ClientsOK, CountsOK, MarksOK, CapturesOK

\* The steps of a capture.
LEMMA CaptureSteps ==
  /\ NoCapture.step = "none"
  /\ ApplyMetrics => capture'.step = "judge" /\ capture'.metrics = memory.metrics /\ capture' # NoCapture
  /\ Judge => /\ capture'.step = "store" /\ capture'.metrics = capture.metrics
              /\ capture'.detector = detector /\ capture # NoCapture /\ capture' # NoCapture
BY DEF NoCapture, ApplyMetrics, Judge

\* Initially every variable has its type.
LEMMA TypeInit == Init => TypeOK /\ Shapes
<1> SUFFICES ASSUME Init PROVE TypeOK /\ Shapes
  OBVIOUS
<1>1. <<>> \in Seq(NormalRules) /\ DefaultRules \in Seq(NormalRules) /\ DefaultRules \in Seq(Rules)
  BY DefaultsNormal DEF NormalRules
<1>2. FlagsOK
  BY DEF Init, FlagsOK
<1>3. ConfigsOK
  <2>1. Absent.kind = "absent" /\ Absent.cfg \in Seq(NormalRules)
    BY <1>1 DEF Absent
  <2>2. QED
    BY <1>1, <2>1 DEF Init, ConfigsOK
<1>4. ClientsOK
  BY <1>1 DEF Init, ClientsOK, RequestOK, Tables
<1>5. CountsOK /\ MarksOK
  BY ConstantsAssumption DEF Init, CountsOK, MarksOK
<1>9. CapturesOK
  BY CaptureSteps DEF Init, CapturesOK
<1>6. Shapes
  BY DEF Init, Shapes, ReqShapes, NoRequest, Tables
<1>7. QED
  BY <1>2, <1>3, <1>4, <1>5, <1>6, <1>9, TypeParts

\* A page posts its rules with a row more or a row less.
LEMMA EditedRules ==
  ASSUME NEW table \in Seq(Rules), NEW edited \in Edits(table, NewRules)
  PROVE  edited \in Seq(Rules)
<1>1. CASE \E r \in NewRules : edited = Append(table, r)
  BY <1>1, ConstantsAssumption
<1>2. CASE \E i \in DOMAIN table : edited = RemoveAt(table, i)
  BY <1>2 DEF RemoveAt
<1>3. QED
  BY <1>1, <1>2 DEF Edits

\* Flags stay flags.
LEMMA FlagsStep == FlagsOK /\ [Next]_vars => FlagsOK'
<1> SUFFICES ASSUME FlagsOK, [Next]_vars PROVE FlagsOK'
  OBVIOUS
<1>1. \/ UNCHANGED <<up, ioc>>
      \/ UNCHANGED up /\ ioc' = TRUE
      \/ up' = FALSE /\ UNCHANGED ioc
      \/ up' = TRUE /\ ioc' = FALSE
  BY Zenon DEF Next, vars, Terminated, Handler, SetIOCConfig, ApplyMetrics, Judge, StoreCapture, Crash, Restart, Started,
     LoadTables, PostRules, PostMetrics, OpenFile, WriteFile, SaveFails, StoreRules, StoreMetrics
<1>2. QED
  BY <1>1 DEF FlagsOK

\* Every step keeps the shape of the records.
LEMMA ShapesStep == Shapes /\ [Next]_vars => Shapes'
<1> SUFFICES ASSUME Shapes, [Next]_vars PROVE Shapes'
  OBVIOUS
<1>1. CASE UNCHANGED vars
  BY <1>1 DEF vars, history, past, Shapes, ReqShapes
<1>2. CASE SetIOCConfig
  BY <1>2 DEF SetIOCConfig, history, past, Shapes, ReqShapes
<1>3. CASE ApplyMetrics \/ Judge \/ StoreCapture
  BY <1>3 DEF ApplyMetrics, Judge, StoreCapture, history, past, Shapes, ReqShapes
<1>4. CASE Crash
  BY <1>4 DEF Crash, past, Shapes, ReqShapes, NoRequest
<1>5. CASE Restart
  BY <1>5 DEF Restart, Started, Shapes, ReqShapes
<1>6. ASSUME NEW c \in Clients, LoadTables(c) PROVE Shapes'
  <2>1. DOMAIN Tables(memory) = {"rules", "metrics"}
    BY DEF Tables
  <2>2. QED
    BY <1>6, <2>1 DEF LoadTables, history, past, Shapes, ReqShapes
<1>7. ASSUME NEW c \in Clients, NEW doc, NEW cfg, Accept(c, doc, cfg), UNCHANGED <<file, memory, shown>>
      PROVE  Shapes'
  BY <1>7, Accepted DEF Accept, Shapes
<1>8. ASSUME NEW c \in Clients, PostRules(c) PROVE Shapes'
  BY <1>7, <1>8 DEF PostRules
<1>9. ASSUME NEW c \in Clients, PostMetrics(c) PROVE Shapes'
  <2>1. CASE UNCHANGED <<req, past>>
    BY <1>9, <2>1 DEF PostMetrics, past, Shapes, ReqShapes
  <2>2. CASE \E cfg : Accept(c, "metrics", cfg)
    BY <1>7, <1>9, <2>2 DEF PostMetrics
  <2>3. QED
    BY <1>9, <2>1, <2>2 DEF PostMetrics
<1>10. ASSUME NEW c \in Clients, OpenFile(c) PROVE Shapes'
  BY <1>10, Stepped DEF OpenFile, Shapes
<1>11. ASSUME NEW c \in Clients, WriteFile(c) PROVE Shapes'
  BY <1>11, Stepped DEF WriteFile, Shapes, history, past
<1>12. ASSUME NEW c \in Clients, SaveFails(c) PROVE Shapes'
  BY <1>12, Responded DEF SaveFails, Shapes, history, past
<1>13. ASSUME NEW c \in Clients, StoreRules(c) PROVE Shapes'
  BY <1>13, Responded DEF StoreRules, Saved, Shapes
<1>14. ASSUME NEW c \in Clients, StoreMetrics(c) PROVE Shapes'
  BY <1>14, Responded DEF StoreMetrics, Saved, Shapes
<1>15. QED
  BY <1>1, <1>2, <1>3, <1>4, <1>5, <1>6, <1>8, <1>9, <1>10, <1>11, <1>12, <1>13, <1>14
     DEF Next, Handler, Terminated

\* A request under way is about a document that may be edited, and what it carries is
\* normalised.
LEMMA Carries ==
  ASSUME NEW r, RequestOK(r), r.step # "none"
  PROVE  /\ r.step \in {"open", "write", "store"} /\ r.doc \in Docs /\ r.doc \in {"rules", "metrics"}
         /\ r.doc = "rules" => r.cfg \in Seq(NormalRules)
<1>1. r # NoRequest
  <2>1. NoRequest.step = "none"
    BY DEF NoRequest
  <2>2. QED
    BY <2>1
<1>2. r.step \in {"open", "write", "store"} /\ r.doc \in Docs /\ (r.doc = "rules" => r.cfg \in Seq(NormalRules))
  BY <1>1 DEF RequestOK
<1>3. QED
  BY <1>2, ConstantsAssumption

\* A client without a request has a request of the right type.
LEMMA Idle == RequestOK(NoRequest) /\ NoRequest.step = "none" /\ NoRequest.doc = ""
BY DEF RequestOK, NoRequest

\* What is posted as rules is normalised before it is a request.
LEMMA PostedRules ==
  ASSUME TypeOK, NEW c \in Clients, PostRules(c)
  PROVE  \E cfg \in Seq(NormalRules) : Accept(c, "rules", cfg)
<1>1. PICK table \in Edits(shown[c].rules, NewRules) : Accept(c, "rules", NormalizeRulesConfig(table))
  BY DEF PostRules
<1>2. NormalizeRulesConfig(table) \in Seq(NormalRules)
  BY EditedRules, Normalizing DEF TypeOK
<1>3. QED
  BY <1>1, <1>2

\* What is posted as metrics is accepted or refused.
LEMMA PostedMetrics ==
  ASSUME NEW c \in Clients, PostMetrics(c)
  PROVE  UNCHANGED <<req, past>> \/ \E cfg : Accept(c, "metrics", cfg)
BY DEF PostMetrics

\* What a save leaves in the file is what was there, nothing, the request's configuration
\* or no document.
LEMMA WrittenFile ==
  ASSUME NEW c \in Clients, OpenFile(c) \/ WriteFile(c) \/ SaveFails(c)
  PROVE  \E new \in {file[req[c].doc], Empty, Torn, Whole(req[c].cfg)} :
           file' = [file EXCEPT ![req[c].doc] = new]
<1>1. CASE OpenFile(c)
  BY <1>1 DEF OpenFile
<1>2. CASE WriteFile(c)
  BY <1>2 DEF WriteFile, Overwritten
<1>3. CASE SaveFails(c)
  BY <1>3 DEF SaveFails
<1>4. QED
  BY <1>1, <1>2, <1>3

\* Rules are stored as the request carries them.
LEMMA StoredRules ==
  ASSUME TypeOK, Shapes, NEW c \in Clients, StoreRules(c)
  PROVE  memory'.rules = req[c].cfg /\ memory'.metrics = memory.metrics /\ req[c].cfg \in Seq(NormalRules)
<1>1. RequestOK(req[c]) /\ req[c].step # "none" /\ req[c].doc = "rules"
  BY DEF StoreRules, TypeOK
<1>2. req[c].cfg \in Seq(NormalRules)
  BY <1>1, Carries
<1>3. req[c].cfg \in Seq(Rules)
  BY <1>2 DEF NormalRules
<1>4. NormalizeRulesConfig(req[c].cfg) = req[c].cfg
  BY <1>2, <1>3, Normalizing
<1>5. QED
  BY <1>2, <1>4 DEF StoreRules, Shapes

\* Every step keeps the rules in memory and in the files normalised.
LEMMA ConfigsStep == TypeOK /\ Shapes /\ [Next]_vars => ConfigsOK'
<1> SUFFICES ASSUME TypeOK, Shapes, [Next]_vars PROVE ConfigsOK'
  OBVIOUS
<1>0. ConfigsOK
  BY DEF TypeOK
<1>1. CASE UNCHANGED <<file, memory>>
  BY <1>0, <1>1 DEF ConfigsOK
<1>2. CASE Restart
  <2>1. LoadRulesConfig(file.rules) \in Seq(NormalRules)
    BY <1>0, Loading DEF ConfigsOK
  <2>2. QED
    BY <1>0, <1>2, <2>1 DEF Restart, Started, ConfigsOK
<1>3. ASSUME NEW c \in Clients, OpenFile(c) \/ WriteFile(c) \/ SaveFails(c) PROVE ConfigsOK'
  <2>1. PICK new \in {file[req[c].doc], Empty, Torn, Whole(req[c].cfg)} :
          file' = [file EXCEPT ![req[c].doc] = new]
    BY <1>3, WrittenFile
  <2>2. req[c].step # "none" /\ RequestOK(req[c]) /\ UNCHANGED memory
    BY <1>3 DEF OpenFile, WriteFile, SaveFails, TypeOK
  <2>3. req[c].doc \in {"rules", "metrics"} /\ (req[c].doc = "rules" => req[c].cfg \in Seq(NormalRules))
    BY <2>2, Carries
  <2>4. /\ new.kind \in {"absent", "empty", "torn", "whole"}
        /\ req[c].doc = "rules" => new.cfg \in Seq(NormalRules)
    <3>1. CASE new = file[req[c].doc]
      BY <1>0, <2>3, <3>1 DEF ConfigsOK, Shapes
    <3>2. CASE new = Empty \/ new = Torn
      <4>1. Empty.kind = "empty" /\ Torn.kind = "torn" /\ Empty.cfg = <<>> /\ Torn.cfg = <<>>
        BY DEF Empty, Torn
      <4>2. <<>> \in Seq(NormalRules)
        OBVIOUS
      <4>3. QED
        BY <3>2, <4>1, <4>2
    <3>3. CASE new = Whole(req[c].cfg)
      BY <2>3, <3>3 DEF Whole
    <3>4. QED
      BY <2>1, <3>1, <3>2, <3>3
  <2>5. QED
    BY <1>0, <2>1, <2>2, <2>3, <2>4 DEF ConfigsOK, Shapes
<1>4. ASSUME NEW c \in Clients, StoreRules(c) PROVE ConfigsOK'
  <2>1. memory'.rules \in Seq(NormalRules)
    BY <1>4, StoredRules
  <2>2. QED
    BY <1>0, <1>4, <2>1 DEF StoreRules, ConfigsOK
<1>5. ASSUME NEW c \in Clients, StoreMetrics(c) PROVE ConfigsOK'
  BY <1>0, <1>5 DEF StoreMetrics, ConfigsOK, Shapes
<1>6. QED
  BY <1>1, <1>2, <1>3, <1>4, <1>5
     DEF Next, vars, Terminated, Handler, SetIOCConfig, ApplyMetrics, Judge, StoreCapture, Crash, LoadTables, PostRules, PostMetrics

\* Every step keeps the requests and what the pages show.
LEMMA ClientsStep == TypeOK /\ Shapes /\ [Next]_vars => ClientsOK'
<1> SUFFICES ASSUME TypeOK, Shapes, [Next]_vars PROVE ClientsOK'
  OBVIOUS
<1>0. ClientsOK /\ NormalRules \subseteq Rules /\ memory.rules \in Seq(NormalRules)
  BY DEF TypeOK, ClientsOK, NormalRules, ConfigsOK
<1>1. CASE UNCHANGED <<req, shown>>
  BY <1>0, <1>1 DEF ClientsOK
<1>2. CASE Crash
  BY <1>0, <1>2, Idle DEF Crash, ClientsOK
<1>3. ASSUME NEW c \in Clients, LoadTables(c) PROVE ClientsOK'
  <2>1. Tables(memory).rules \in Seq(Rules)
    BY <1>0 DEF Tables
  <2>2. QED
    BY <1>0, <1>3, <2>1 DEF LoadTables, ClientsOK, Shapes
<1>4. ASSUME NEW c \in Clients, NEW doc \in Docs, NEW cfg, doc = "rules" => cfg \in Seq(NormalRules),
             Accept(c, doc, cfg), UNCHANGED shown
      PROVE  ClientsOK'
  <2>1. RequestOK([step |-> "open", doc |-> doc, cfg |-> cfg])
    BY <1>4 DEF RequestOK
  <2>2. QED
    BY <1>0, <1>4, <2>1, Accepted DEF ClientsOK, Others
<1>5. ASSUME NEW c \in Clients, PostRules(c) PROVE ClientsOK'
  BY <1>4, <1>5, PostedRules DEF PostRules
<1>6. ASSUME NEW c \in Clients, PostMetrics(c) PROVE ClientsOK'
  BY <1>1, <1>4, <1>6, PostedMetrics DEF PostMetrics
<1>7. ASSUME NEW c \in Clients, NEW step \in {"open", "write", "store"}, req[c].step # "none",
             Step(c, step), UNCHANGED shown
      PROVE  ClientsOK'
  <2>1. RequestOK([step |-> step, doc |-> req[c].doc, cfg |-> req[c].cfg])
    BY <1>0, <1>7, Carries DEF RequestOK, ClientsOK
  <2>2. QED
    BY <1>0, <1>7, <2>1, Stepped DEF ClientsOK, Others
<1>8. ASSUME NEW c \in Clients, Respond(c), \A d \in Clients : shown'[d].rules \in Seq(Rules) PROVE ClientsOK'
  BY <1>0, <1>8, Responded, Idle DEF ClientsOK, Others
<1>9. ASSUME NEW c \in Clients, OpenFile(c) \/ WriteFile(c) PROVE ClientsOK'
  BY <1>7, <1>9 DEF OpenFile, WriteFile
<1>10. ASSUME NEW c \in Clients, SaveFails(c) PROVE ClientsOK'
  BY <1>0, <1>8, <1>10 DEF SaveFails, ClientsOK
<1>11. ASSUME NEW c \in Clients, StoreRules(c) PROVE ClientsOK'
  <2>1. memory'.rules \in Seq(Rules)
    BY <1>0, <1>11, StoredRules
  <2>2. QED
    BY <1>0, <1>8, <1>11, <2>1 DEF StoreRules, ClientsOK, Shapes
<1>12. ASSUME NEW c \in Clients, StoreMetrics(c) PROVE ClientsOK'
  BY <1>0, <1>8, <1>12 DEF StoreMetrics, ClientsOK, Shapes
<1>13. QED
  BY <1>1, <1>2, <1>3, <1>5, <1>6, <1>9, <1>10, <1>11, <1>12
     DEF Next, vars, Terminated, Handler, SetIOCConfig, ApplyMetrics, Judge, StoreCapture, Restart, Started

\* The counts stay within their bounds.
LEMMA CountsStep == CountsOK /\ [Next]_vars => CountsOK'
<1> SUFFICES ASSUME CountsOK, [Next]_vars PROVE CountsOK'
  OBVIOUS
<1>1. \/ UNCHANGED <<posts, crashes>>
      \/ posts < MaxPosts /\ posts' = posts + 1 /\ UNCHANGED crashes
      \/ crashes < MaxCrashes /\ crashes' = crashes + 1 /\ UNCHANGED posts
  BY Zenon DEF Next, vars, history, Terminated, Handler, SetIOCConfig, ApplyMetrics, Judge, StoreCapture, Crash, Restart,
     LoadTables, PostRules, PostMetrics, OpenFile, WriteFile, SaveFails, StoreRules, StoreMetrics, Saved
<1>2. QED
  BY <1>1, ConstantsAssumption DEF CountsOK

\* Only documents are marked.
LEMMA MarksStep == TypeOK /\ Shapes /\ [Next]_vars => MarksOK'
<1> SUFFICES ASSUME TypeOK, Shapes, [Next]_vars PROVE MarksOK'
  OBVIOUS
<1>0. MarksOK /\ \A c \in Clients : RequestOK(req[c])
  BY DEF TypeOK, MarksOK
<1>1. CASE UNCHANGED <<overlapped, doubtful>>
  BY <1>0, <1>1 DEF MarksOK
<1>2. CASE Restart
  BY <1>2 DEF Restart, MarksOK
<1>3. ASSUME NEW c \in Clients, NEW doc \in Docs, NEW cfg, Accept(c, doc, cfg) PROVE MarksOK'
  BY <1>0, <1>3 DEF Accept, MarksOK
<1>4. ASSUME NEW c \in Clients, PostRules(c) PROVE MarksOK'
  BY <1>3, <1>4, PostedRules DEF PostRules
<1>5. ASSUME NEW c \in Clients, PostMetrics(c) PROVE MarksOK'
  <2>1. UNCHANGED <<req, past>> => UNCHANGED <<overlapped, doubtful>>
    BY DEF past
  <2>2. QED
    BY <1>1, <1>3, <1>5, <2>1, PostedMetrics DEF PostMetrics
<1>6. ASSUME NEW c \in Clients, OpenFile(c) PROVE MarksOK'
  <2>1. req[c].doc \in Docs
    BY <1>0, <1>6, Carries DEF OpenFile
  <2>2. QED
    BY <1>0, <1>6, <2>1 DEF OpenFile, MarksOK
<1>7. ASSUME NEW c \in Clients, Saved(c) PROVE MarksOK'
  BY <1>0, <1>7 DEF Saved, MarksOK
<1>8. QED
  BY <1>1, <1>2, <1>4, <1>5, <1>6, <1>7
     DEF Next, vars, history, past, Terminated, Handler, SetIOCConfig, ApplyMetrics, Judge, StoreCapture, Crash,
         LoadTables, WriteFile, SaveFails, StoreRules, StoreMetrics

\* A capture has begun exactly if there is something it overlaps with.
LEMMA CapturesStep == CapturesOK /\ [Next]_vars => CapturesOK'
<1> SUFFICES ASSUME CapturesOK, [Next]_vars PROVE CapturesOK'
  OBVIOUS
<1>1. CASE UNCHANGED capturing
  BY <1>1 DEF capturing, CapturesOK
<1>2. CASE ApplyMetrics
  BY <1>2, CaptureSteps DEF ApplyMetrics, CapturesOK
<1>3. CASE Judge
  BY <1>3, CaptureSteps DEF Judge, CapturesOK
<1>4. CASE StoreCapture \/ Crash
  BY <1>4, CaptureSteps DEF StoreCapture, Crash, CapturesOK
<1>5. CASE Overtaken /\ UNCHANGED capture
  BY <1>5 DEF Overtaken, CapturesOK
<1>6. QED
  BY <1>1, <1>2, <1>3, <1>4, <1>5
     DEF Next, vars, Terminated, Handler, SetIOCConfig, Restart, LoadTables, PostRules, PostMetrics,
         OpenFile, WriteFile, SaveFails, StoreRules, StoreMetrics

\* Every step preserves the types.
LEMMA TypeStep == TypeOK /\ Shapes /\ [Next]_vars => TypeOK' /\ Shapes'
<1> SUFFICES ASSUME TypeOK, Shapes, [Next]_vars PROVE TypeOK' /\ Shapes'
  OBVIOUS
<1>1. FlagsOK /\ ConfigsOK /\ ClientsOK /\ CountsOK /\ MarksOK /\ CapturesOK
  BY TypeParts
<1>2. FlagsOK' /\ ConfigsOK' /\ ClientsOK' /\ CountsOK' /\ MarksOK' /\ CapturesOK' /\ Shapes'
  BY <1>1, FlagsStep, ConfigsStep, ClientsStep, CountsStep, MarksStep, CapturesStep, ShapesStep
<1>3. QED
  BY <1>2 DEF TypeOK, FlagsOK, ClientsOK, CountsOK, MarksOK, CapturesOK

\* Every rule in memory, in a file and in a request is normalised (TypeOK of ConfigStore).
THEOREM TypeCorrect == Spec => []TypeOK
<1>1. Spec => [](TypeOK /\ Shapes)
  BY TypeInit, TypeStep, PTL DEF Spec
<1>2. QED
  BY <1>1, PTL

(* Captures ------------------------------------------------------------------------------ *)

\* The detector is that of the rules in memory; a capture overlaps with what memory holds,
\* and none outlives the process.
DetectorInv ==
  /\ detector = BuildDetector(memory.rules, ioc)
  /\ capture # NoCapture => up /\ memory \in during

\* Initially the detector has the default rules and there is no capture.
LEMMA DetectorInit == Init => DetectorInv /\ CaptureJudged
<1> SUFFICES ASSUME Init PROVE DetectorInv /\ CaptureJudged
  OBVIOUS
<1>1. memory.rules = DefaultRules
  BY DEF Init
<1>2. QED
  BY <1>1, CaptureSteps DEF Init, DetectorInv, CaptureJudged

\* Whatever stores the rules sets the detector, and is seen by the capture in progress.
LEMMA DetectorStep == TypeOK /\ Shapes /\ DetectorInv /\ [Next]_vars => DetectorInv'
<1> SUFFICES ASSUME TypeOK, Shapes, DetectorInv, [Next]_vars PROVE DetectorInv'
  OBVIOUS
<1>1. CASE UNCHANGED <<up, memory, ioc, detector, capturing>>
  BY <1>1 DEF DetectorInv, capturing
<1>2. CASE SetIOCConfig
  <2>1. NormalizeRulesConfig(memory.rules) = memory.rules
    BY Normalizing DEF TypeOK, ConfigsOK, NormalRules
  <2>2. QED
    BY <1>2, <2>1 DEF SetIOCConfig, DetectorInv, capturing
<1>3. CASE ApplyMetrics
  BY <1>3 DEF ApplyMetrics, DetectorInv, Serving
<1>4. CASE Judge
  BY <1>4, CaptureSteps DEF Judge, DetectorInv
<1>5. CASE StoreCapture \/ Crash
  BY <1>5 DEF StoreCapture, Crash, DetectorInv
<1>6. CASE Restart
  BY <1>6 DEF Restart, Started, DetectorInv, capturing
<1>7. ASSUME NEW c \in Clients, StoreRules(c) PROVE DetectorInv'
  BY <1>7 DEF StoreRules, DetectorInv, Overtaken
<1>8. ASSUME NEW c \in Clients, StoreMetrics(c) PROVE DetectorInv'
  BY <1>8 DEF StoreMetrics, DetectorInv, Overtaken, Shapes
<1>9. QED
  BY <1>1, <1>2, <1>3, <1>4, <1>5, <1>6, <1>7, <1>8
     DEF Next, vars, Terminated, Handler, LoadTables, PostRules, PostMetrics, OpenFile, WriteFile, SaveFails

\* What a capture copied was in memory during the capture.
LEMMA JudgedStep ==
  TypeOK /\ Shapes /\ DetectorInv /\ CaptureJudged /\ [Next]_vars => CaptureJudged'
<1> SUFFICES ASSUME TypeOK, Shapes, DetectorInv, CaptureJudged, [Next]_vars PROVE CaptureJudged'
  OBVIOUS
<1>1. CASE UNCHANGED <<memory, ioc, snapshotRules, capturing>>
  BY <1>1 DEF CaptureJudged, capturing
<1>2. ASSUME capture' = NoCapture, snapshotRules' \in {Nothing, memory'.rules} PROVE CaptureJudged'
  BY <1>2, CaptureSteps DEF CaptureJudged
<1>3. CASE SetIOCConfig
  BY <1>2, <1>3 DEF SetIOCConfig, capturing, CaptureJudged
<1>4. CASE ApplyMetrics
  <2>1. \E m \in during' : capture'.metrics = m.metrics
    BY <1>4, CaptureSteps DEF ApplyMetrics
  <2>2. QED
    BY <1>4, <2>1, CaptureSteps DEF ApplyMetrics, CaptureJudged
<1>5. CASE Judge
  <2>1. \E m \in during' : capture'.metrics = m.metrics
    BY <1>5, CaptureSteps DEF Judge, CaptureJudged
  <2>2. memory \in during' /\ capture'.detector = BuildDetector(memory.rules, ioc)
    BY <1>5, CaptureSteps DEF Judge, DetectorInv
  <2>3. QED
    BY <1>5, <2>1, <2>2, CaptureSteps DEF Judge, CaptureJudged
<1>6. CASE StoreCapture \/ Crash
  BY <1>2, <1>6 DEF StoreCapture, Crash, CaptureJudged
<1>7. CASE Restart
  <2>1. capture' = NoCapture
    BY <1>7 DEF Restart, DetectorInv, capturing
  <2>2. QED
    BY <1>2, <1>7, <2>1 DEF Restart, Started
<1>8. ASSUME Overtaken, UNCHANGED <<capture, ioc>>, snapshotRules' \in {Nothing, memory'.rules}
      PROVE  CaptureJudged'
  <2>1. CASE capture = NoCapture
    BY <1>2, <1>8, <2>1
  <2>2. CASE capture # NoCapture
    <3>1. during \subseteq during'
      BY <1>8, <2>2 DEF Overtaken
    <3>2. QED
      BY <1>8, <2>2, <3>1 DEF CaptureJudged
  <2>3. QED
    BY <2>1, <2>2
<1>9. ASSUME NEW c \in Clients, StoreRules(c) PROVE CaptureJudged'
  BY <1>8, <1>9 DEF StoreRules
<1>10. ASSUME NEW c \in Clients, StoreMetrics(c) PROVE CaptureJudged'
  <2>1. memory'.rules = memory.rules
    BY <1>10 DEF StoreMetrics, Shapes
  <2>2. QED
    BY <1>8, <1>10, <2>1 DEF StoreMetrics, CaptureJudged
<1>11. QED
  BY <1>1, <1>3, <1>4, <1>5, <1>6, <1>7, <1>9, <1>10
     DEF Next, vars, Terminated, Handler, LoadTables, PostRules, PostMetrics, OpenFile, WriteFile, SaveFails

\* dashboard.go:498: whatever requests, IOC settings and restarts come in between its steps,
\* what a capture is judged by was in memory during the capture (CaptureJudged).
THEOREM CapturesAreJudged == Spec => []CaptureJudged
<1>1. Init => TypeOK /\ Shapes /\ DetectorInv /\ CaptureJudged
  BY TypeInit, DetectorInit
<1>2. TypeOK /\ Shapes /\ DetectorInv /\ CaptureJudged /\ [Next]_vars
        => (TypeOK /\ Shapes /\ DetectorInv /\ CaptureJudged)'
  BY TypeStep, DetectorStep, JudgedStep
<1>3. QED
  BY <1>1, <1>2, PTL DEF Spec

(* Overlapping requests ------------------------------------------------------------------- *)

\* Initially no request is under way.
LEMMA OverlapInit == Init => OverlapKeepsOne /\ RequestsWanted
<1> SUFFICES ASSUME Init PROVE OverlapKeepsOne /\ RequestsWanted
  OBVIOUS
<1>1. Absent.kind = "absent"
  BY DEF Absent
<1>2. \A doc \in DOMAIN file : file[doc] = Absent /\ before[doc].memory = memory[doc]
  BY DEF Init
<1>3. OverlapKeepsOne
  BY <1>1, <1>2 DEF OverlapKeepsOne
<1>4. RequestsWanted
  BY Idle DEF Init, RequestsWanted
<1>5. QED
  BY <1>3, <1>4

\* OverlapKeepsOne for one document.
KeptOne(doc) ==
  /\ memory[doc] \in wanted[doc] \cup {before[doc].memory}
  /\ file[doc].kind = "whole" =>
       file[doc] \in {Whole(cfg) : cfg \in wanted[doc]} \cup {before[doc].file}

\* What a request has, was wanted.
LEMMA WantedStep == TypeOK /\ Shapes /\ RequestsWanted /\ [Next]_vars => RequestsWanted'
<1> SUFFICES ASSUME TypeOK, Shapes, RequestsWanted, [Next]_vars PROVE RequestsWanted'
  OBVIOUS
<1>1. CASE UNCHANGED <<up, req, wanted>>
  BY <1>1 DEF RequestsWanted
<1>2. CASE Crash
  BY <1>2, Idle DEF Crash, RequestsWanted
<1>3. CASE Restart
  BY <1>3 DEF Restart, Started, RequestsWanted
<1>4. ASSUME NEW c \in Clients, NEW doc \in {"rules", "metrics"}, NEW cfg, Accept(c, doc, cfg), up, up'
      PROVE  RequestsWanted'
  <2>1. cfg \in wanted'[doc]
    BY <1>4 DEF Accept, Shapes
  <2>2. ASSUME NEW d \in Clients, d # c, req[d].step # "none" PROVE req[d].cfg \in wanted'[req[d].doc]
    <3>1. Busy(req[d].doc)
      BY DEF Busy
    <3>2. req[d].doc # doc => wanted'[req[d].doc] = wanted[req[d].doc]
      <4>1. req[d].doc \in {"rules", "metrics"}
        BY <2>2, Carries DEF TypeOK
      <4>2. QED
        BY <1>4, <4>1 DEF Accept, Shapes
    <3>3. req[d].doc = doc => wanted[doc] \subseteq wanted'[doc]
      BY <1>4, <3>1 DEF Accept, Shapes
    <3>4. QED
      BY <2>2, <3>2, <3>3 DEF RequestsWanted
  <2>3. req'[c].doc = doc /\ req'[c].cfg = cfg /\ Others(c)
    BY <1>4, Accepted
  <2>4. QED
    BY <1>4, <2>1, <2>2, <2>3 DEF RequestsWanted, Others
<1>5. ASSUME NEW c \in Clients, PostRules(c) PROVE RequestsWanted'
  BY <1>4, <1>5, PostedRules DEF PostRules, Serving
<1>6. ASSUME NEW c \in Clients, PostMetrics(c) PROVE RequestsWanted'
  <2>1. UNCHANGED <<req, past>> => UNCHANGED <<req, wanted>>
    BY DEF past
  <2>2. QED
    BY <1>1, <1>4, <1>6, <2>1, PostedMetrics DEF PostMetrics, Serving
<1>7. ASSUME NEW c \in Clients, NEW step, req[c].step # "none", Step(c, step), UNCHANGED <<up, wanted>>
      PROVE  RequestsWanted'
  <2>1. req'[c].doc = req[c].doc /\ req'[c].cfg = req[c].cfg /\ Others(c)
    BY <1>7, Stepped
  <2>2. QED
    BY <1>7, <2>1 DEF RequestsWanted, Others
<1>8. ASSUME NEW c \in Clients, Respond(c), UNCHANGED <<up, wanted>> PROVE RequestsWanted'
  BY <1>8, Responded, Idle DEF RequestsWanted, Others
<1>9. QED
  BY <1>1, <1>2, <1>3, <1>5, <1>6, <1>7, <1>8
     DEF Next, vars, history, past, Terminated, Handler, SetIOCConfig, ApplyMetrics, Judge, StoreCapture, LoadTables, OpenFile,
         WriteFile, SaveFails, StoreRules, StoreMetrics, Saved

\* One of the requests that overlap is kept.
LEMMA OverlapStep ==
  TypeOK /\ Shapes /\ RequestsWanted /\ OverlapKeepsOne /\ [Next]_vars => OverlapKeepsOne'
<1> SUFFICES ASSUME TypeOK, Shapes, RequestsWanted, OverlapKeepsOne, [Next]_vars, NEW doc \in {"rules", "metrics"}
             PROVE  KeptOne(doc)'
  BY ShapesStep DEF OverlapKeepsOne, KeptOne, Shapes
<1>0. KeptOne(doc)
  BY DEF OverlapKeepsOne, KeptOne, Shapes
<1>1. CASE UNCHANGED <<file, memory, wanted, before>>
  BY <1>0, <1>1 DEF KeptOne
<1>2. CASE Restart
  BY <1>2 DEF Restart, Started, Shapes, KeptOne
<1>3. ASSUME NEW c \in Clients, NEW posted \in {"rules", "metrics"}, NEW cfg, Accept(c, posted, cfg),
             UNCHANGED <<file, memory>>
      PROVE  KeptOne(doc)'
  <2>1. CASE posted # doc \/ Busy(posted)
    <3>1. before'[doc] = before[doc] /\ wanted[doc] \subseteq wanted'[doc]
      BY <1>3, <2>1 DEF Accept, Shapes
    <3>2. QED
      BY <1>0, <1>3, <3>1 DEF KeptOne
  <2>2. CASE posted = doc /\ ~Busy(posted)
    <3>1. before'[doc] = [memory |-> memory[doc], file |-> file[doc]]
      BY <1>3, <2>2 DEF Accept, Shapes
    <3>2. QED
      BY <1>3, <3>1 DEF KeptOne
  <2>3. QED
    BY <2>1, <2>2
<1>4. ASSUME NEW c \in Clients, PostRules(c) PROVE KeptOne(doc)'
  BY <1>3, <1>4, PostedRules DEF PostRules
<1>5. ASSUME NEW c \in Clients, PostMetrics(c) PROVE KeptOne(doc)'
  <2>1. UNCHANGED <<req, past>> => UNCHANGED <<wanted, before>>
    BY DEF past
  <2>2. QED
    BY <1>1, <1>3, <1>5, <2>1, PostedMetrics DEF PostMetrics
<1>6. ASSUME NEW c \in Clients, OpenFile(c) \/ WriteFile(c) \/ SaveFails(c) PROVE KeptOne(doc)'
  <2>1. PICK new \in {file[req[c].doc], Empty, Torn, Whole(req[c].cfg)} :
          file' = [file EXCEPT ![req[c].doc] = new]
    BY <1>6, WrittenFile
  <2>2. req[c].step # "none" /\ UNCHANGED <<memory, wanted, before>>
    BY <1>6 DEF OpenFile, WriteFile, SaveFails, history, past
  <2>3. req[c].cfg \in wanted[req[c].doc]
    BY <2>2 DEF RequestsWanted
  <2>4. CASE req[c].doc # doc \/ new = file[doc]
    <3>1. file'[doc] = file[doc]
      BY <2>1, <2>4 DEF Shapes
    <3>2. QED
      BY <1>0, <2>2, <3>1 DEF KeptOne
  <2>5. CASE req[c].doc = doc /\ new \in {Empty, Torn}
    <3>1. file'[doc].kind # "whole"
      BY <2>1, <2>5 DEF Shapes, Empty, Torn
    <3>2. QED
      BY <1>0, <2>2, <3>1 DEF KeptOne
  <2>6. CASE req[c].doc = doc /\ new = Whole(req[c].cfg)
    <3>1. file'[doc] = Whole(req[c].cfg)
      BY <2>1, <2>6 DEF Shapes
    <3>2. QED
      BY <1>0, <2>2, <2>3, <2>6, <3>1 DEF KeptOne
  <2>7. QED
    BY <2>1, <2>4, <2>5, <2>6
<1>7. ASSUME NEW c \in Clients, StoreRules(c) PROVE KeptOne(doc)'
  <2>1. memory'.rules = req[c].cfg /\ memory'.metrics = memory.metrics
    BY <1>7, StoredRules
  <2>2. req[c].cfg \in wanted.rules
    BY <1>7 DEF StoreRules, RequestsWanted
  <2>3. UNCHANGED <<file, wanted, before>>
    BY <1>7 DEF StoreRules, Saved
  <2>4. QED
    BY <1>0, <2>1, <2>2, <2>3 DEF KeptOne
<1>8. ASSUME NEW c \in Clients, StoreMetrics(c) PROVE KeptOne(doc)'
  <2>1. memory'.metrics = req[c].cfg /\ memory'.rules = memory.rules
    BY <1>8 DEF StoreMetrics, Shapes
  <2>2. req[c].cfg \in wanted.metrics
    BY <1>8 DEF StoreMetrics, RequestsWanted
  <2>3. UNCHANGED <<file, wanted, before>>
    BY <1>8 DEF StoreMetrics, Saved
  <2>4. QED
    BY <1>0, <2>1, <2>2, <2>3 DEF KeptOne
<1>9. QED
  BY <1>1, <1>2, <1>4, <1>5, <1>6, <1>7, <1>8
     DEF Next, vars, history, past, Terminated, Handler, SetIOCConfig, ApplyMetrics, Judge, StoreCapture, LoadTables, Crash

\* However requests overlap and fail, memory and file each hold what one of them wanted or
\* what they held before (OverlapKeepsOne).
THEOREM OverlapsDoNotMix == Spec => []OverlapKeepsOne
<1> DEFINE J == TypeOK /\ Shapes /\ RequestsWanted /\ OverlapKeepsOne
<1>1. Init => J
  BY TypeInit, OverlapInit
<1>2. J /\ [Next]_vars => J'
  BY TypeStep, WantedStep, OverlapStep
<1>3. QED
  BY <1>1, <1>2, PTL DEF Spec

(* Restarts --------------------------------------------------------------------------------- *)

\* Initially there are no files, and loading gives what memory has.
LEMMA FilesInit == Init => FilesSaved
<1> SUFFICES ASSUME Init PROVE FilesSaved
  OBVIOUS
<1>1. file.rules = Absent /\ file.metrics = Absent /\ memory.rules = DefaultRules /\ memory.metrics = <<>>
  BY DEF Init
<1>2. LoadRulesConfig(Absent) = DefaultRules /\ LoadCustomMetricsConfig(Absent) = <<>>
  BY DEF LoadRulesConfig, LoadCustomMetricsConfig, Absent
<1>3. Recovers("rules") /\ Recovers("metrics")
  BY <1>1, <1>2 DEF Recovers, SameButSources
<1>4. \A c \in Clients : req[c].step = "none"
  BY Idle DEF Init
<1>5. DOMAIN file = {"rules", "metrics"}
  BY DEF Init
<1>6. QED
  BY <1>3, <1>4, <1>5 DEF FilesSaved

\* A handler's step leaves the other requests alone.
LEMMA StillAlone ==
  ASSUME NEW c \in Clients, NEW d \in Clients, d # c, Others(c), RequestOK(req[d]), req[d].step # "none",
         req'[c].doc \in {req[c].doc, ""},
         req[d].doc # req[c].doc => file'[req[d].doc] = file[req[d].doc],
         Alone(d)
  PROVE  Alone(d)'
<1>1. req'[d] = req[d] /\ req[d].doc # req[c].doc
  BY DEF Alone, Others
<1>2. req[d].doc # ""
  BY Carries
<1>3. ASSUME NEW e \in Clients, req'[e].doc = req[d].doc PROVE e = d
  <2>1. e # c
    BY <1>1, <1>2, <1>3
  <2>2. QED
    BY <1>3, <2>1 DEF Others, Alone
<1>4. file'[req[d].doc] = file[req[d].doc]
  BY <1>1
<1>5. QED
  BY <1>1, <1>3, <1>4 DEF Alone

\* A file that is whole is what memory has, unless requests overlap or a save failed.
LEMMA FilesStep == TypeOK /\ Shapes /\ RequestsWanted /\ FilesSaved /\ [Next]_vars => FilesSaved'
<1> SUFFICES ASSUME TypeOK, Shapes, RequestsWanted, FilesSaved, [Next]_vars PROVE FilesSaved'
  OBVIOUS
<1>0. /\ Shapes' /\ \A d \in Clients : RequestOK(req[d])
      /\ \A doc \in {"rules", "metrics"} : doc \in doubtful \/ Recovers(doc)
      /\ \A d \in Clients : req[d].step \in {"write", "store"} => req[d].doc \in doubtful
      /\ \A d \in Clients : req[d].step # "none" => req[d].doc \in overlapped \/ Alone(d)
  BY ShapesStep DEF TypeOK, FilesSaved, Shapes
<1> DEFINE Unchanged(doc) == file'[doc] = file[doc] /\ memory'[doc] = memory[doc]
<1>a. \A doc : Unchanged(doc) /\ Recovers(doc) => Recovers(doc)'
  BY DEF Recovers
<1>b. ASSUME \A doc \in {"rules", "metrics"} : doc \in doubtful' \/ Recovers(doc)',
             \A d \in Clients : req'[d].step \in {"write", "store"} => req'[d].doc \in doubtful',
             \A d \in Clients : req'[d].step # "none" => req'[d].doc \in overlapped' \/ Alone(d)'
      PROVE  FilesSaved'
  BY <1>0, <1>b DEF FilesSaved, Shapes
<1>1. CASE UNCHANGED <<file, memory, req, overlapped, doubtful>>
  BY <1>1 DEF FilesSaved, Recovers, Alone
<1>2. CASE Crash
  <2>1. \A d \in Clients : req'[d].step = "none"
    BY <1>2, Idle DEF Crash
  <2>2. UNCHANGED <<file, memory, doubtful>>
    BY <1>2 DEF Crash, past
  <2>3. QED
    BY <1>0, <1>a, <1>b, <2>1, <2>2
<1>3. CASE Restart
  <2>1. \A d \in Clients : req'[d].step = "none"
    BY <1>3 DEF Restart, RequestsWanted
  <2>2. /\ memory'.rules = LoadRulesConfig(file.rules) /\ memory'.metrics = LoadCustomMetricsConfig(file.metrics)
        /\ UNCHANGED file
    BY <1>3 DEF Restart, Started
  <2>3. Recovers("rules")' /\ Recovers("metrics")'
    BY <2>2 DEF Recovers, SameButSources
  <2>4. QED
    BY <1>b, <2>1, <2>3
<1>4. ASSUME NEW c \in Clients, NEW doc \in {"rules", "metrics"}, NEW cfg, Accept(c, doc, cfg),
             req[c] = NoRequest, UNCHANGED <<file, memory>>
      PROVE  FilesSaved'
  <2>1. /\ req'[c].step = "open" /\ req'[c].doc = doc /\ Others(c)
        /\ UNCHANGED doubtful
    BY <1>4, Accepted DEF Accept
  <2>2. Busy(doc) => overlapped' = overlapped \cup {doc}
    BY <1>4 DEF Accept
  <2>3. ~Busy(doc) => overlapped' = overlapped \ {doc}
    BY <1>4 DEF Accept
  <2>4. \A d \in Clients : req'[d].step \in {"write", "store"} => req'[d].doc \in doubtful'
    BY <1>0, <2>1 DEF Others
  <2>5. doc \in overlapped' \/ Alone(c)'
    <3>1. ASSUME ~Busy(doc) PROVE Alone(c)'
      <4>1. \A d \in Clients : req[d].doc # doc
        BY <3>1 DEF Busy
      <4>2. \A d \in Clients : req'[d].doc = doc => d = c
        BY <4>1, <2>1 DEF Others
      <4>3. QED
        BY <2>1, <4>2 DEF Alone
    <3>2. QED
      BY <2>2, <3>1
  <2>6. ASSUME NEW d \in Clients, d # c, req[d].step # "none" PROVE req[d].doc \in overlapped' \/ Alone(d)'
    <3>1. CASE req[d].doc = doc
      BY <2>2, <3>1 DEF Busy
    <3>2. CASE req[d].doc # doc /\ req[d].doc \in overlapped
      BY <2>2, <2>3, <3>2
    <3>3. CASE req[d].doc # doc /\ Alone(d)
      <4>1. req'[d] = req[d] /\ \A e \in Clients : req'[e].doc = req[d].doc => e = d
        BY <2>1, <2>6, <3>3 DEF Others, Alone
      <4>2. QED
        BY <1>4, <3>3, <4>1 DEF Alone
    <3>4. QED
      BY <1>0, <2>6, <3>1, <3>2, <3>3
  <2>7. \A d \in Clients : req'[d].step # "none" => req'[d].doc \in overlapped' \/ Alone(d)'
    BY <2>1, <2>5, <2>6 DEF Others
  <2>8. QED
    BY <1>0, <1>4, <1>a, <1>b, <2>1, <2>4, <2>7
<1>5. ASSUME NEW c \in Clients, PostRules(c) PROVE FilesSaved'
  BY <1>4, <1>5, PostedRules DEF PostRules
<1>6. ASSUME NEW c \in Clients, PostMetrics(c) PROVE FilesSaved'
  <2>1. UNCHANGED <<req, past>> => UNCHANGED <<req, overlapped, doubtful>>
    BY DEF past
  <2>2. QED
    BY <1>1, <1>4, <1>6, <2>1, PostedMetrics DEF PostMetrics
<1>7. ASSUME NEW c \in Clients, OpenFile(c) PROVE FilesSaved'
  <2> DEFINE doc == req[c].doc
  <2>1. /\ req'[c].step = "write" /\ req'[c].doc = doc /\ req'[c].cfg = req[c].cfg /\ Others(c)
        /\ doc \in {"rules", "metrics"} /\ req[c].step = "open"
    BY <1>0, <1>7, Stepped, Carries DEF OpenFile
  <2>2. /\ file'[doc] = Empty /\ \A other \in {"rules", "metrics"} : other # doc => file'[other] = file[other]
        /\ doubtful' = doubtful \cup {doc} /\ UNCHANGED <<memory, overlapped>>
    BY <1>7, <2>1 DEF OpenFile, Shapes
  <2>3. doc \in overlapped \/ Alone(c)'
    <3>1. ASSUME Alone(c) PROVE Alone(c)'
      BY <2>1, <2>2, <3>1 DEF Alone, Others
    <3>2. QED
      BY <1>0, <2>1, <3>1
  <2>4. \A d \in Clients : d # c /\ req[d].step # "none" => req[d].doc \in overlapped \/ Alone(d)'
    <3>1. ASSUME NEW d \in Clients, d # c, req[d].step # "none", Alone(d) PROVE Alone(d)'
      <4>1. RequestOK(req[d]) /\ req[d].doc \in {"rules", "metrics"}
        BY <1>0, <3>1, Carries
      <4>2. QED
        BY <2>1, <2>2, <3>1, <4>1, StillAlone
    <3>2. QED
      BY <1>0, <3>1
  <2>5. \A d \in Clients : req'[d].step # "none" => req'[d].doc \in overlapped' \/ Alone(d)'
    BY <2>1, <2>2, <2>3, <2>4 DEF Others
  <2>6. \A d \in Clients : req'[d].step \in {"write", "store"} => req'[d].doc \in doubtful'
    BY <1>0, <2>1, <2>2 DEF Others
  <2>7. QED
    BY <1>0, <1>a, <1>b, <2>2, <2>5, <2>6
<1>8. ASSUME NEW c \in Clients, WriteFile(c) PROVE FilesSaved'
  <2> DEFINE doc == req[c].doc
  <2>1. /\ req'[c].step = "store" /\ req'[c].doc = doc /\ req'[c].cfg = req[c].cfg /\ Others(c)
        /\ doc \in {"rules", "metrics"} /\ req[c].step = "write"
    BY <1>0, <1>8, Stepped, Carries DEF WriteFile
  <2>2. PICK new \in Overwritten(file[doc], req[c].cfg) : file' = [file EXCEPT ![doc] = new]
    BY <1>8 DEF WriteFile
  <2>3. /\ file'[doc] = new /\ \A other \in {"rules", "metrics"} : other # doc => file'[other] = file[other]
        /\ UNCHANGED <<memory, overlapped, doubtful>>
    BY <1>8, <2>1, <2>2 DEF WriteFile, Shapes, history, past
  <2>4. doc \in overlapped \/ Alone(c)'
    <3>1. ASSUME Alone(c) PROVE Alone(c)'
      <4>1. file[doc] = Empty
        BY <2>1, <3>1 DEF Alone
      <4>2. Empty.kind = "empty"
        BY DEF Empty
      <4>3. new = Whole(req[c].cfg)
        BY <2>2, <4>1, <4>2 DEF Overwritten
      <4>4. QED
        BY <2>1, <2>3, <3>1, <4>3 DEF Alone, Others
    <3>2. QED
      BY <1>0, <2>1, <3>1
  <2>5. \A d \in Clients : d # c /\ req[d].step # "none" => req[d].doc \in overlapped \/ Alone(d)'
    <3>1. ASSUME NEW d \in Clients, d # c, req[d].step # "none", Alone(d) PROVE Alone(d)'
      <4>1. RequestOK(req[d]) /\ req[d].doc \in {"rules", "metrics"}
        BY <1>0, <3>1, Carries
      <4>2. QED
        BY <2>1, <2>3, <3>1, <4>1, StillAlone
    <3>2. QED
      BY <1>0, <3>1
  <2>6. \A d \in Clients : req'[d].step # "none" => req'[d].doc \in overlapped' \/ Alone(d)'
    BY <2>1, <2>3, <2>4, <2>5 DEF Others
  <2>7. \A d \in Clients : req'[d].step \in {"write", "store"} => req'[d].doc \in doubtful'
    BY <1>0, <2>1, <2>3 DEF Others
  <2>8. doc \in doubtful
    BY <1>0, <2>1
  <2>9. QED
    BY <1>0, <1>a, <1>b, <2>3, <2>6, <2>7, <2>8
<1>9. ASSUME NEW c \in Clients, SaveFails(c) PROVE FilesSaved'
  <2> DEFINE doc == req[c].doc
  <2>1. /\ req'[c].step = "none" /\ req'[c].doc = "" /\ Others(c)
        /\ doc \in {"rules", "metrics"} /\ req[c].step \in {"open", "write"}
    BY <1>0, <1>9, Responded, Carries, Idle DEF SaveFails
  <2>2. PICK left \in {file[doc]} \cup (IF req[c].step = "write" THEN {Torn} ELSE {}) :
          file' = [file EXCEPT ![doc] = left]
    BY <1>9 DEF SaveFails
  <2>3. /\ file'[doc] = left /\ \A other \in {"rules", "metrics"} : other # doc => file'[other] = file[other]
        /\ UNCHANGED <<memory, overlapped, doubtful>>
    BY <1>9, <2>1, <2>2 DEF SaveFails, Shapes, history, past
  <2>4. left = file[doc] \/ doc \in doubtful
    BY <1>0, <2>2
  <2>5. \A d \in Clients : d # c /\ req[d].step # "none" => req[d].doc \in overlapped \/ Alone(d)'
    <3>1. ASSUME NEW d \in Clients, d # c, req[d].step # "none", Alone(d) PROVE Alone(d)'
      <4>1. RequestOK(req[d]) /\ req[d].doc \in {"rules", "metrics"}
        BY <1>0, <3>1, Carries
      <4>2. QED
        BY <2>1, <2>3, <3>1, <4>1, StillAlone
    <3>2. QED
      BY <1>0, <3>1
  <2>6. \A d \in Clients : req'[d].step # "none" => req'[d].doc \in overlapped' \/ Alone(d)'
    BY <2>1, <2>3, <2>5 DEF Others
  <2>7. \A d \in Clients : req'[d].step \in {"write", "store"} => req'[d].doc \in doubtful'
    BY <1>0, <2>1, <2>3 DEF Others
  <2>8. QED
    BY <1>0, <1>a, <1>b, <2>3, <2>4, <2>6, <2>7
<1>10. ASSUME NEW c \in Clients, StoreRules(c) \/ StoreMetrics(c) PROVE FilesSaved'
  <2>0. PICK doc, cfg : doc = req[c].doc /\ cfg = req[c].cfg
    OBVIOUS
  <2>1. /\ req'[c].step = "none" /\ req'[c].doc = "" /\ Others(c)
        /\ doc \in {"rules", "metrics"} /\ req[c].step = "store"
    BY <1>0, <1>10, <2>0, Responded, Carries, Idle DEF StoreRules, StoreMetrics
  <2>2. /\ memory'[doc] = cfg /\ \A other \in {"rules", "metrics"} : other # doc => memory'[other] = memory[other]
        /\ doc = "rules" => cfg \in Seq(NormalRules)
    <3>1. CASE StoreRules(c)
      <4>1. doc = "rules"
        BY <2>0, <3>1 DEF StoreRules
      <4>2. QED
        BY <2>0, <3>1, <4>1, StoredRules
    <3>2. CASE StoreMetrics(c)
      BY <2>0, <3>2 DEF StoreMetrics, Shapes
    <3>3. QED
      BY <1>10, <3>1, <3>2
  <2>3. /\ UNCHANGED <<file, overlapped>>
        /\ doubtful' = IF doc \in overlapped THEN doubtful ELSE doubtful \ {doc}
    BY <1>10, <2>0 DEF StoreRules, StoreMetrics, Saved
  <2>4. doc \in doubtful
    BY <1>0, <2>0, <2>1
  <2>5. ASSUME doc \notin overlapped PROVE Recovers(doc)' /\ \A d \in Clients : req[d].doc = doc => d = c
    <3>1. Alone(c)
      BY <1>0, <2>0, <2>1, <2>5
    <3>2. file[doc] = Whole(cfg)
      BY <2>0, <2>1, <3>1 DEF Alone
    <3>3. Whole(cfg).kind = "whole" /\ Whole(cfg).cfg = cfg
      BY DEF Whole
    <3>4. CASE doc = "rules"
      <4>1. SameButSources(LoadRulesConfig(Whole(cfg)), cfg)
        BY <2>2, <3>3, <3>4, Loading
      <4>2. QED
        BY <2>0, <2>2, <2>3, <3>1, <3>2, <3>4, <4>1 DEF Recovers, Alone
    <3>5. CASE doc = "metrics"
      BY <2>0, <2>2, <2>3, <3>1, <3>2, <3>3, <3>5 DEF Recovers, LoadCustomMetricsConfig, Alone
    <3>6. QED
      BY <2>1, <3>4, <3>5
  <2>6. \A d \in Clients : d # c /\ req[d].step # "none" => req[d].doc \in overlapped \/ Alone(d)'
    <3>1. ASSUME NEW d \in Clients, d # c, req[d].step # "none", Alone(d) PROVE Alone(d)'
      <4>1. RequestOK(req[d]) /\ req[d].doc \in {"rules", "metrics"}
        BY <1>0, <3>1, Carries
      <4>2. QED
        BY <2>0, <2>1, <2>3, <3>1, <4>1, StillAlone
    <3>2. QED
      BY <1>0, <3>1
  <2>7. \A d \in Clients : req'[d].step # "none" => req'[d].doc \in overlapped' \/ Alone(d)'
    BY <2>1, <2>3, <2>6 DEF Others
  <2>8. \A d \in Clients : req'[d].step \in {"write", "store"} => req'[d].doc \in doubtful'
    BY <1>0, <2>0, <2>1, <2>3, <2>5 DEF Others
  <2>9. \A other \in {"rules", "metrics"} : other \in doubtful' \/ Recovers(other)'
    BY <1>0, <1>a, <2>2, <2>3, <2>4, <2>5
  <2>10. QED
    BY <1>b, <2>7, <2>8, <2>9
<1>11. QED
  BY <1>1, <1>2, <1>3, <1>5, <1>6, <1>7, <1>8, <1>9, <1>10
     DEF Next, vars, history, past, Terminated, Handler, SetIOCConfig, ApplyMetrics, Judge, StoreCapture, LoadTables

\* A restart comes up with what was in memory, unless the file is in doubt, and always with
\* rules somebody wanted (RestartRecovers).
THEOREM RestartsRecover == Spec => RestartRecovers
<1> DEFINE J == TypeOK /\ Shapes /\ RequestsWanted /\ OverlapKeepsOne /\ FilesSaved
           Recovered ==
             /\ \A doc \in DOMAIN file :
                  \/ doc \in doubtful
                  \/ doc = "rules" /\ SameButSources(memory'.rules, memory.rules)
                  \/ doc = "metrics" /\ memory'.metrics = memory.metrics
             /\ \/ memory'.rules = DefaultRules
                \/ \E r \in wanted.rules \cup {before.rules.file.cfg} : SameButSources(memory'.rules, r)
<1>1. Init => J
  BY TypeInit, OverlapInit, FilesInit
<1>2. J /\ [Next]_vars => J'
  BY TypeStep, WantedStep, OverlapStep, FilesStep
<1>3. J /\ [Next]_vars /\ ~up /\ up' => Recovered
  <2> SUFFICES ASSUME J, [Next]_vars, ~up, up' PROVE Recovered
    OBVIOUS
  <2>1. Restart
    BY DEF Next, vars, Terminated, Handler, SetIOCConfig, ApplyMetrics, Judge, StoreCapture, Crash, LoadTables, PostRules, PostMetrics,
       OpenFile, WriteFile, SaveFails, StoreRules, StoreMetrics
  <2>2. /\ memory'.rules = LoadRulesConfig(file.rules)
        /\ memory'.metrics = LoadCustomMetricsConfig(file.metrics)
    BY <2>1 DEF Restart, Started
  <2>3. DOMAIN file = {"rules", "metrics"} /\ file.rules.cfg \in Seq(NormalRules)
    BY DEF Shapes, TypeOK, ConfigsOK
  <2>4. \A doc \in DOMAIN file :
          \/ doc \in doubtful
          \/ doc = "rules" /\ SameButSources(memory'.rules, memory.rules)
          \/ doc = "metrics" /\ memory'.metrics = memory.metrics
    BY <2>2 DEF FilesSaved, Recovers
  <2>5. CASE file.rules.kind # "whole"
    BY <2>2, <2>3, <2>4, <2>5, Loading
  <2>6. CASE file.rules.kind = "whole"
    <3>1. SameButSources(memory'.rules, file.rules.cfg)
      BY <2>2, <2>3, <2>6, Loading
    <3>2. file.rules \in {Whole(cfg) : cfg \in wanted.rules} \cup {before.rules.file}
      BY <2>3, <2>6 DEF OverlapKeepsOne
    <3>3. file.rules.cfg \in wanted.rules \cup {before.rules.file.cfg}
      BY <3>2 DEF Whole
    <3>4. QED
      BY <2>4, <3>1, <3>3
  <2>7. QED
    BY <2>5, <2>6
<1>4. QED
  BY <1>1, <1>2, <1>3, PTL DEF Spec, RestartRecovers

-----------------------------------------------------------------------------
(* Custom metrics --------------------------------------------------------------------- *)

\* What the proof asks of expressions, E, and of their texts, T: parsing gives an
\* expression or none, an expression has a text, and its value is a fraction or none.
ExprsOK(E, T) ==
  /\ NewMetrics \subseteq [name : STRING, text : T]
  /\ \A t \in T : Parse(t) = None \/ \E e \in E : Parse(t) = <<e>>
  /\ \A e \in E : Format(e) \in T
  /\ \A D : \A metrics \in [D -> Fractions] : \A e \in E :
       Eval(e, metrics) = None \/ \E x \in Fractions : Eval(e, metrics) = <<x>>

\* Custom metrics as normalizeCustomMetrics leaves them: in the order of their names.
MetricsOK(E, cfg) ==
  /\ cfg \in Seq([name : Range(MetricNames), expr : E])
  /\ \A i, j \in DOMAIN cfg : i < j => Before(cfg[i].name, cfg[j].name)

\* The positions and the members of a list.
LEMMA ListParts ==
  ASSUME NEW S, NEW s \in Seq(S)
  PROVE  /\ DOMAIN s = 1..Len(s) /\ Len(s) \in Nat /\ DOMAIN s \subseteq Nat
         /\ Range(s) \subseteq S /\ \A i \in DOMAIN s : s[i] \in S /\ s[i] \in Range(s)
BY DEF Range

\* The order of names is strict.
LEMMA StrictOrder ==
  /\ \A a, b : Before(a, b) => ~Before(b, a) /\ a # b
  /\ \A name \in Range(MetricNames) : name \in STRING /\ name # ""
<1>1. MetricNames \in Seq(STRING) /\ "" \notin Range(MetricNames)
  BY NamesAssumption
<1>0. DOMAIN MetricNames \subseteq Nat /\ Range(MetricNames) \subseteq STRING
  BY <1>1, ListParts, Zenon
<1>2. ASSUME NEW a, NEW b, Before(a, b), Before(b, a) \/ a = b PROVE FALSE
  <2>1. PICK i \in DOMAIN MetricNames, j \in DOMAIN MetricNames :
          i < j /\ MetricNames[i] = a /\ MetricNames[j] = b
    BY <1>2 DEF Before
  <2>2. CASE a = b
    <3>1. i = j
      BY <2>1, <2>2, NamesAssumption
    <3>2. QED
      BY <1>0, <2>1, <3>1
  <2>3. CASE Before(b, a)
    <3>1. PICK k \in DOMAIN MetricNames, l \in DOMAIN MetricNames :
            k < l /\ MetricNames[k] = b /\ MetricNames[l] = a
      BY <2>3 DEF Before
    <3>2. k = j /\ l = i
      BY <2>1, <3>1, NamesAssumption
    <3>3. QED
      BY <1>0, <2>1, <3>1, <3>2
  <2>4. QED
    BY <1>2, <2>2, <2>3
<1>3. \A name \in Range(MetricNames) : name \in STRING /\ name # ""
  BY <1>0, <1>1, Zenon
<1>4. QED
  BY <1>2, <1>3

\* The first row of each name: a name each, in their order.
LEMMA FirstRows ==
  ASSUME NEW R, NEW rows \in Seq(R)
  PROVE  /\ FirstOfEachName(rows) \in Seq(R)
         /\ \A k \in DOMAIN FirstOfEachName(rows) : FirstOfEachName(rows)[k].name \in Range(MetricNames)
         /\ \A j, k \in DOMAIN FirstOfEachName(rows) :
              j < k => Before(FirstOfEachName(rows)[j].name, FirstOfEachName(rows)[k].name)
<1> DEFINE named(name) == {i \in DOMAIN rows : rows[i].name = name}
           some == {p \in DOMAIN MetricNames : named(MetricNames[p]) # {}}
           names == Kept(MetricNames, some)
           first == FirstOfEachName(rows)
<1>1. first = [k \in DOMAIN names |-> rows[Min(named(names[k]))]]
  BY DEF FirstOfEachName
<1>2. MetricNames \in Seq(STRING)
  BY NamesAssumption
<1>3. PICK at : Picks(at, names, MetricNames, some)
  <2> HIDE DEF some
  <2>1. QED
    BY <1>2, KeptInOrder
<1>4. \A name : named(name) # {} => Min(named(name)) \in named(name)
  <2>1. \A name : named(name) \in SUBSET Nat
    OBVIOUS
  <2> HIDE DEF named
  <2>2. QED
    BY <2>1, Smallest
<1>5. /\ DOMAIN names = 1..Len(names) /\ Len(names) \in Nat
      /\ \A k \in 1..Len(names) : /\ at[k] \in some /\ at[k] \in DOMAIN MetricNames
                                  /\ names[k] = MetricNames[at[k]]
      /\ \A j, k \in 1..Len(names) : j < k => at[j] < at[k]
  BY <1>2, <1>3 DEF Picks
<1> HIDE DEF names, first
<1>6. \A k \in 1..Len(names) : named(names[k]) # {} /\ names[k] \in Range(MetricNames)
  <2>1. \A p \in some : p \in DOMAIN MetricNames /\ named(MetricNames[p]) # {}
    OBVIOUS
  <2> HIDE DEF some, named
  <2>2. QED
    BY <1>5, <2>1 DEF Range
<1>7. DOMAIN first = 1..Len(names)
  BY <1>1, <1>5
<1>8. ASSUME NEW k \in 1..Len(names) PROVE first[k] \in R /\ first[k].name = names[k]
  <2>1. first[k] = rows[Min(named(names[k]))]
    BY <1>1, <1>5
  <2>2. Min(named(names[k])) \in named(names[k])
    BY <1>4, <1>6
  <2>3. Min(named(names[k])) \in DOMAIN rows /\ rows[Min(named(names[k]))].name = names[k]
    BY <2>2
  <2> HIDE DEF named
  <2>4. QED
    BY <2>1, <2>3
<1>9. first \in Seq(R)
  <2>1. first = [k \in 1..Len(names) |-> first[k]]
    BY <1>1, <1>5
  <2>2. QED
    BY <1>5, <1>8, <2>1
<1>10. \A j, k \in 1..Len(names) : j < k => Before(names[j], names[k])
  BY <1>5 DEF Before
<1>11. QED
  BY <1>6, <1>7, <1>8, <1>9, <1>10 DEF first

\* What a page posts as metrics is refused, or in order.
LEMMA NormalMetrics ==
  ASSUME NEW E, NEW T, ExprsOK(E, T), NEW rows \in Seq([name : STRING, text : T]),
         NormalizeCustomMetrics(rows) # None
  PROVE  MetricsOK(E, NormalizeCustomMetrics(rows)[1])
<1> DEFINE kept == FirstOfEachName(rows)
           expr(i) == Parse(kept[i].text)
           cfg == [i \in DOMAIN kept |-> [name |-> kept[i].name, expr |-> expr(i)[1]]]
<1>1. /\ \A i \in DOMAIN kept : kept[i].text # <<>> /\ expr(i) # None
      /\ NormalizeCustomMetrics(rows) = <<cfg>>
  BY DEF NormalizeCustomMetrics
<1>2. /\ kept \in Seq([name : STRING, text : T])
      /\ \A k \in DOMAIN kept : kept[k].name \in Range(MetricNames)
      /\ \A j, k \in DOMAIN kept : j < k => Before(kept[j].name, kept[k].name)
  BY FirstRows
<1> HIDE DEF kept
<1>3. ASSUME NEW i \in DOMAIN kept PROVE [name |-> kept[i].name, expr |-> expr(i)[1]] \in [name : Range(MetricNames), expr : E]
  <2>0. kept[i] \in [name : STRING, text : T]
    BY <1>2, ListParts, Zenon
  <2>1. kept[i].text \in T /\ expr(i) # None
    BY <1>1, <2>0
  <2>2. PICK e \in E : expr(i) = <<e>>
    BY <2>1 DEF ExprsOK
  <2>3. QED
    BY <1>2, <2>2
<1> HIDE DEF expr
<1>4. cfg \in Seq([name : Range(MetricNames), expr : E])
  <2>1. PICK n \in Nat : DOMAIN kept = 1..n
    BY <1>2
  <2>2. QED
    BY <1>3, <2>1
<1>5. DOMAIN cfg = DOMAIN kept /\ \A i \in DOMAIN kept : cfg[i].name = kept[i].name
  OBVIOUS
<1> HIDE DEF cfg
<1>6. QED
  BY <1>1, <1>2, <1>4, <1>5 DEF MetricsOK

(* Values of custom metrics *)

\* The metrics after each custom metric.
IsApplied(f, last, metrics, customs) ==
  f = [n \in 0..last |-> IF n = 0 THEN metrics ELSE AddCustomMetric(f[n - 1], customs[n])]

\* There are such metrics.
LEMMA AppliedExists ==
  ASSUME NEW metrics, NEW customs, NEW last \in Nat
  PROVE  \E f : IsApplied(f, last, metrics, customs)
<1> DEFINE S == {k \in Nat : \E f : IsApplied(f, k, metrics, customs)}
<1>1. 0 \in S
  <2>1. IsApplied([n \in 0..0 |-> metrics], 0, metrics, customs)
    BY DEF IsApplied
  <2>2. QED
    BY <2>1
<1>2. ASSUME NEW k \in Nat, k \in S PROVE k + 1 \in S
  <2>1. PICK f : IsApplied(f, k, metrics, customs)
    BY <1>2
  <2> DEFINE last1 == AddCustomMetric(f[k], customs[k + 1])
             g == [n \in 0..(k + 1) |-> IF n = k + 1 THEN last1 ELSE f[n]]
  <2>2. \A n \in 0..k : g[n] = f[n]
    OBVIOUS
  <2>3. ASSUME NEW n \in 0..(k + 1)
        PROVE  g[n] = IF n = 0 THEN metrics ELSE AddCustomMetric(g[n - 1], customs[n])
    <3>1. CASE n = k + 1
      <4>1. n # 0 /\ n - 1 = k /\ g[n - 1] = f[k] /\ g[n] = last1
        BY <3>1
      <4> HIDE DEF g
      <4>2. QED
        BY <4>1, <3>1
    <3>2. CASE n \in 0..k /\ n = 0
      <4>1. f[n] = metrics
        BY <2>1, <3>2 DEF IsApplied
      <4>2. QED
        BY <4>1, <3>2, <2>2
    <3>3. CASE n \in 0..k /\ n # 0
      <4>1. n - 1 \in 0..k
        BY <3>3
      <4>2. f[n] = AddCustomMetric(f[n - 1], customs[n])
        BY <2>1, <3>3 DEF IsApplied
      <4>3. g[n] = f[n] /\ g[n - 1] = f[n - 1]
        BY <2>2, <3>3, <4>1
      <4> HIDE DEF g
      <4>4. QED
        BY <4>2, <4>3, <3>3
    <3>4. QED
      BY <3>1, <3>2, <3>3
  <2>4. IsApplied(g, k + 1, metrics, customs)
    BY <2>3 DEF IsApplied
  <2>5. QED
    BY <2>4
<1>3. Nat \subseteq S
  <2> HIDE DEF S
  <2>1. QED
    BY <1>1, <1>2, Reached
<1>4. QED
  BY <1>3

\* The result is the last of them, and each has one custom metric more, or the same.
AddedInTurn(f, metrics, customs) ==
  /\ ApplyCustomMetrics(metrics, customs) = f[Len(customs)]
  /\ f[0] = metrics
  /\ \A n \in 1..Len(customs) : f[n] = AddCustomMetric(f[n - 1], customs[n])

LEMMA AppliedIsLast ==
  ASSUME NEW metrics, NEW customs, Len(customs) \in Nat
  PROVE  \E f : AddedInTurn(f, metrics, customs)
<1> DEFINE h == CHOOSE f : IsApplied(f, Len(customs), metrics, customs)
<1>1. IsApplied(h, Len(customs), metrics, customs)
  BY AppliedExists
<1>2. ApplyCustomMetrics(metrics, customs) = h[Len(customs)]
  BY DEF ApplyCustomMetrics, IsApplied
<1> HIDE DEF h
<1>3. h[0] = metrics /\ \A n \in 1..Len(customs) : h[n] = AddCustomMetric(h[n - 1], customs[n])
  BY <1>1 DEF IsApplied
<1>4. QED
  BY <1>2, <1>3 DEF AddedInTurn

\* A value of its own, if it has one, is added for a metric that is not there yet.
LEMMA OneMoreMetric ==
  ASSUME NEW E, NEW T, ExprsOK(E, T), NEW metrics, metrics \in [DOMAIN metrics -> Fractions],
         NEW custom, custom.expr \in E,
         NEW new, new = AddCustomMetric(metrics, custom)
  PROVE  /\ new \in [DOMAIN new -> Fractions]
         /\ \A k \in DOMAIN metrics : k \in DOMAIN new /\ new[k] = metrics[k]
         /\ DOMAIN new \subseteq DOMAIN metrics \cup {custom.name}
         /\ custom.name \notin DOMAIN metrics =>
              IF Eval(custom.expr, metrics) = None THEN custom.name \notin DOMAIN new
              ELSE custom.name \in DOMAIN new /\ new[custom.name] = Eval(custom.expr, metrics)[1]
<1> DEFINE v == Eval(custom.expr, metrics)
           D == DOMAIN metrics
           more == [k \in D \cup {custom.name} |-> IF k = custom.name THEN v[1] ELSE metrics[k]]
<1>1. v = None \/ \E x \in Fractions : v = <<x>>
  BY DEF ExprsOK
<1>2. new = IF custom.name \in D \/ v = None THEN metrics ELSE more
  BY DEF AddCustomMetric
<1>3. CASE custom.name \in D \/ v = None
  BY <1>2, <1>3
<1>4. CASE ~(custom.name \in D \/ v = None)
  <2>1. v[1] \in Fractions
    BY <1>1, <1>4
  <2>2. new = more
    BY <1>2, <1>4
  <2> HIDE DEF v
  <2>3. /\ DOMAIN more = D \cup {custom.name}
        /\ \A k \in D : k # custom.name /\ more[k] = metrics[k] /\ metrics[k] \in Fractions
        /\ more[custom.name] = v[1]
    BY <1>4
  <2>4. more \in [DOMAIN more -> Fractions]
    BY <2>1, <2>3
  <2> HIDE DEF more
  <2>5. QED
    BY <1>4, <2>2, <2>3, <2>4 DEF v
<1>5. QED
  BY <1>3, <1>4

\* The names of the custom metrics up to one of them.
NamesTo(cfg, n) == {cfg[i].name : i \in 1..n}

\* Captured metrics keep their values; a custom metric has the value of its expression over
\* those and the custom metrics before it.
ValuesOf(got, D, captured, cfg, last) ==
  /\ got \in [DOMAIN got -> Fractions]
  /\ \A k \in D : k \in DOMAIN got /\ got[k] = captured[k]
  /\ DOMAIN got \subseteq D \cup NamesTo(cfg, last)
  /\ \A i \in 1..last : cfg[i].name \notin D =>
       LET v == Eval(cfg[i].expr, Restrict(got, DOMAIN got \cap (D \cup NamesTo(cfg, i - 1))))
       IN IF v = None THEN cfg[i].name \notin DOMAIN got
          ELSE cfg[i].name \in DOMAIN got /\ got[cfg[i].name] = v[1]

\* One custom metric more changes neither a value nor what the earlier ones are computed from.
LEMMA NextValue ==
  ASSUME NEW E, NEW T, ExprsOK(E, T), NEW cfg, MetricsOK(E, cfg),
         NEW D, NEW captured \in [D -> Fractions],
         NEW n \in Nat, n + 1 \in DOMAIN cfg,
         NEW old, ValuesOf(old, D, captured, cfg, n),
         NEW new, new = AddCustomMetric(old, cfg[n + 1])
  PROVE  ValuesOf(new, D, captured, cfg, n + 1)
<1> DEFINE custom == cfg[n + 1]
<1>1. /\ Len(cfg) \in Nat /\ DOMAIN cfg = 1..Len(cfg) /\ n + 1 \in 1..Len(cfg)
      /\ custom.expr \in E
      /\ \A i \in 1..n : i \in DOMAIN cfg
      /\ \A i, j \in DOMAIN cfg : i < j => Before(cfg[i].name, cfg[j].name)
  <2> DEFINE R == [name : Range(MetricNames), expr : E]
  <2>1. cfg \in Seq(R)
    BY DEF MetricsOK
  <2>2. Len(cfg) \in Nat /\ DOMAIN cfg = 1..Len(cfg) /\ \A i \in DOMAIN cfg : cfg[i] \in R
    BY <2>1, ListParts, Zenon
  <2>3. custom.expr \in E
    BY <2>2
  <2>4. QED
    BY <2>2, <2>3 DEF MetricsOK
<1>2. /\ new \in [DOMAIN new -> Fractions]
      /\ \A k \in DOMAIN old : k \in DOMAIN new /\ new[k] = old[k]
      /\ DOMAIN new \subseteq DOMAIN old \cup {custom.name}
      /\ custom.name \notin DOMAIN old =>
           IF Eval(custom.expr, old) = None THEN custom.name \notin DOMAIN new
           ELSE custom.name \in DOMAIN new /\ new[custom.name] = Eval(custom.expr, old)[1]
  BY <1>1, OneMoreMetric DEF ValuesOf
<1>3. \A i \in 1..n : cfg[i].name # custom.name
  <2>1. ASSUME NEW i \in 1..n PROVE Before(cfg[i].name, custom.name)
    BY <1>1
  <2>2. QED
    BY <2>1, StrictOrder, Zenon
<1>4. NamesTo(cfg, n + 1) = NamesTo(cfg, n) \cup {custom.name} /\ custom.name \notin NamesTo(cfg, n)
  <2>1. 1..(n + 1) = 1..n \cup {n + 1}
    OBVIOUS
  <2>2. QED
    BY <1>3, <2>1 DEF NamesTo
<1>5. DOMAIN old \subseteq D \cup NamesTo(cfg, n)
  BY DEF ValuesOf
<1>6. \A k \in D : k \in DOMAIN new /\ new[k] = captured[k]
  BY <1>2 DEF ValuesOf
<1>7. ASSUME NEW i \in 1..(n + 1), custom.name \notin D
      PROVE  Restrict(new, DOMAIN new \cap (D \cup NamesTo(cfg, i - 1)))
               = Restrict(old, DOMAIN old \cap (D \cup NamesTo(cfg, i - 1)))
  <2>1. NamesTo(cfg, i - 1) \subseteq NamesTo(cfg, n)
    <3>1. \A j \in 1..(i - 1) : j \in 1..n
      OBVIOUS
    <3>2. QED
      BY <3>1 DEF NamesTo
  <2>2. custom.name \notin D \cup NamesTo(cfg, i - 1)
    BY <1>4, <1>7, <2>1
  <2>3. DOMAIN new \cap (D \cup NamesTo(cfg, i - 1)) = DOMAIN old \cap (D \cup NamesTo(cfg, i - 1))
    BY <1>2, <2>2
  <2>4. QED
    BY <1>2, <2>3 DEF Restrict
<1>8. ASSUME custom.name \in D PROVE new = old
  BY <1>8 DEF AddCustomMetric, ValuesOf
<1>9. ASSUME NEW i \in 1..n, cfg[i].name \notin D
      PROVE  LET v == Eval(cfg[i].expr, Restrict(new, DOMAIN new \cap (D \cup NamesTo(cfg, i - 1))))
             IN IF v = None THEN cfg[i].name \notin DOMAIN new
                ELSE cfg[i].name \in DOMAIN new /\ new[cfg[i].name] = v[1]
  <2> DEFINE v == Eval(cfg[i].expr, Restrict(old, DOMAIN old \cap (D \cup NamesTo(cfg, i - 1))))
  <2>1. IF v = None THEN cfg[i].name \notin DOMAIN old
        ELSE cfg[i].name \in DOMAIN old /\ old[cfg[i].name] = v[1]
    BY <1>9 DEF ValuesOf
  <2>2. v = Eval(cfg[i].expr, Restrict(new, DOMAIN new \cap (D \cup NamesTo(cfg, i - 1))))
    <3>1. i \in 1..(n + 1)
      OBVIOUS
    <3>2. QED
      BY <1>7, <1>8, <3>1
  <2>3. cfg[i].name # custom.name
    BY <1>3
  <2> HIDE DEF v
  <2>4. IF v = None THEN cfg[i].name \notin DOMAIN new
        ELSE cfg[i].name \in DOMAIN new /\ new[cfg[i].name] = v[1]
    BY <1>2, <2>1, <2>3
  <2>5. QED
    BY <2>2, <2>4
<1>10. ASSUME custom.name \notin D
       PROVE  LET v == Eval(custom.expr, Restrict(new, DOMAIN new \cap (D \cup NamesTo(cfg, n))))
              IN IF v = None THEN custom.name \notin DOMAIN new
                 ELSE custom.name \in DOMAIN new /\ new[custom.name] = v[1]
  <2>1. custom.name \notin DOMAIN old
    BY <1>4, <1>5, <1>10
  <2>2. Restrict(new, DOMAIN new \cap (D \cup NamesTo(cfg, n))) = Restrict(old, DOMAIN old \cap (D \cup NamesTo(cfg, n)))
    <3>1. n + 1 \in 1..(n + 1) /\ (n + 1) - 1 = n
      OBVIOUS
    <3>2. QED
      BY <1>7, <1>10, <3>1
  <2>3. Restrict(old, DOMAIN old \cap (D \cup NamesTo(cfg, n))) = old
    <3>1. DOMAIN old \cap (D \cup NamesTo(cfg, n)) = DOMAIN old
      BY <1>5
    <3>2. QED
      BY <3>1 DEF Restrict, ValuesOf
  <2>4. QED
    BY <1>2, <2>1, <2>2, <2>3
<1>11. ASSUME NEW i \in 1..(n + 1), cfg[i].name \notin D
       PROVE  LET v == Eval(cfg[i].expr, Restrict(new, DOMAIN new \cap (D \cup NamesTo(cfg, i - 1))))
              IN IF v = None THEN cfg[i].name \notin DOMAIN new
                 ELSE cfg[i].name \in DOMAIN new /\ new[cfg[i].name] = v[1]
  <2>1. CASE i \in 1..n
    BY <1>9, <1>11, <2>1
  <2>2. CASE i = n + 1
    <3>1. i - 1 = n
      BY <2>2
    <3>2. QED
      BY <1>10, <1>11, <2>2, <3>1
  <2>3. QED
    BY <2>1, <2>2
<1>12. DOMAIN new \subseteq D \cup NamesTo(cfg, n + 1)
  BY <1>2, <1>4, <1>5
<1>13. QED
  BY <1>2, <1>6, <1>11, <1>12 DEF ValuesOf

\* All custom metrics are added.
LEMMA AllValues ==
  ASSUME NEW E, NEW T, ExprsOK(E, T), NEW cfg, MetricsOK(E, cfg),
         NEW D, NEW captured \in [D -> Fractions]
  PROVE  ValuesOf(ApplyCustomMetrics(captured, cfg), D, captured, cfg, Len(cfg))
<1>1. Len(cfg) \in Nat /\ DOMAIN cfg = 1..Len(cfg)
  BY ListParts, Zenon DEF MetricsOK
<1>a. PICK f : AddedInTurn(f, captured, cfg)
  BY <1>1, AppliedIsLast
<1>2. /\ ApplyCustomMetrics(captured, cfg) = f[Len(cfg)]
      /\ f[0] = captured
      /\ \A n \in 1..Len(cfg) : f[n] = AddCustomMetric(f[n - 1], cfg[n])
  BY <1>a DEF AddedInTurn
<1> DEFINE S == {n \in Nat : n <= Len(cfg) => ValuesOf(f[n], D, captured, cfg, n)}
<1>3. 0 \in S
  <2>1. ValuesOf(captured, D, captured, cfg, 0)
    BY DEF ValuesOf
  <2>2. QED
    BY <1>2, <2>1
<1>4. ASSUME NEW n \in Nat, n \in S PROVE n + 1 \in S
  <2> SUFFICES ASSUME n + 1 <= Len(cfg) PROVE ValuesOf(f[n + 1], D, captured, cfg, n + 1)
    OBVIOUS
  <2>1. n + 1 \in DOMAIN cfg /\ ValuesOf(f[n], D, captured, cfg, n)
    BY <1>1, <1>4
  <2>2. f[n + 1] = AddCustomMetric(f[n], cfg[n + 1])
    <3>1. n + 1 \in 1..Len(cfg) /\ (n + 1) - 1 = n
      BY <1>1
    <3>2. QED
      BY <1>2, <3>1
  <2>3. QED
    BY <2>1, <2>2, NextValue
<1>5. Len(cfg) \in S
  <2> HIDE DEF S
  <2>1. QED
    BY <1>1, <1>3, <1>4, Reached
<1>6. QED
  BY <1>1, <1>2, <1>5

(* Rules over metrics *)

\* Sums and negations of fractions are fractions; sums may be taken in any grouping.
LEMMA FractionArithmetic ==
  /\ \A x \in Fractions : Neg(x) \in Fractions
  /\ \A x, y \in Fractions : Plus(x, y) \in Fractions
  /\ \A x, y, z \in Fractions : Plus(Plus(x, y), z) = Plus(x, Plus(y, z))
<1>1. \A a, b \in Int : a * b \in Int /\ a + b \in Int /\ -a \in Int
  OBVIOUS
<1>2. \A x \in Fractions : Neg(x) \in Fractions
  BY DEF Neg, Fractions
<1>3. ASSUME NEW x \in Fractions, NEW y \in Fractions PROVE Plus(x, y) \in Fractions
  BY <1>1 DEF Plus, Fractions
<1>4. ASSUME NEW x \in Fractions, NEW y \in Fractions, NEW z \in Fractions
      PROVE  Plus(Plus(x, y), z) = Plus(x, Plus(y, z))
  <2>1. {x.n, x.d, y.n, y.d, z.n, z.d} \subseteq Int
    BY DEF Fractions
  <2>2. /\ (x.n * y.d + y.n * x.d) * z.d + z.n * (x.d * y.d) = x.n * (y.d * z.d) + (y.n * z.d + z.n * y.d) * x.d
        /\ (x.d * y.d) * z.d = x.d * (y.d * z.d)
    BY <2>1
  <2>3. QED
    BY <2>2 DEF Plus
<1>5. QED
  BY <1>2, <1>3, <1>4

\* A comparison says what the sign of the difference is.
LEMMA Comparing ==
  ASSUME NEW value \in Fractions, NEW threshold \in Fractions, NEW op \in Operators
  PROVE  CompareMetric(value, op, threshold) <=> Sign(Plus(value, Neg(threshold))) \in SignsOf(op)
<1>1. {value.n, value.d, threshold.n, threshold.d} \subseteq Int
  BY DEF Fractions
<1>2. PICK a \in Int, b \in Int : a = value.n * threshold.d /\ b = threshold.n * value.d
  BY <1>1
<1>3. Plus(value, Neg(threshold)).n = a - b
  <2>1. (-threshold.n) * value.d = -b
    BY <1>1, <1>2
  <2>2. Plus(value, Neg(threshold)).n = a + (-threshold.n) * value.d
    BY <1>1, <1>2 DEF Plus, Neg, Fractions
  <2>3. QED
    BY <1>2, <2>1, <2>2
<1>4. /\ Less(threshold, value) <=> b < a
      /\ Less(value, threshold) <=> a < b
      /\ Equals(value, threshold) <=> a = b
  BY <1>2 DEF Less, Equals
<1>5. Sign(Plus(value, Neg(threshold))) = IF a > b THEN 1 ELSE IF a < b THEN -1 ELSE 0
  BY <1>2, <1>3 DEF Sign
<1>6. CASE op = ">"
  BY <1>2, <1>4, <1>5, <1>6 DEF CompareMetric, SignsOf
<1>7. CASE op = ">="
  BY <1>2, <1>4, <1>5, <1>7 DEF CompareMetric, SignsOf
<1>8. CASE op = "<"
  BY <1>2, <1>4, <1>5, <1>8 DEF CompareMetric, SignsOf
<1>9. CASE op = "<="
  BY <1>2, <1>4, <1>5, <1>9 DEF CompareMetric, SignsOf
<1>10. CASE op = "=="
  BY <1>2, <1>4, <1>5, <1>10 DEF CompareMetric, SignsOf
<1>11. CASE op = "!="
  BY <1>2, <1>4, <1>5, <1>11 DEF CompareMetric, SignsOf
<1>12. QED
  BY <1>6, <1>7, <1>8, <1>9, <1>10, <1>11 DEF Operators

\* What a rule is about: a metric, or the parts of a total.
PartsOf(k) ==
  {k} \cup (CASE k = "net.total" -> {"net.rx", "net.tx"}
             [] k = "persist.total" -> {"persist.added", "persist.changed", "persist.removed"}
             [] OTHER -> {})

ValueOf(metrics, k) ==
  IF k \in DOMAIN metrics THEN metrics[k]
  ELSE CASE k = "net.total" -> Plus(PartValue(metrics, "net.rx"), PartValue(metrics, "net.tx"))
         [] k = "persist.total" ->
              Plus(PartValue(metrics, "persist.added"),
                   Plus(PartValue(metrics, "persist.changed"), PartValue(metrics, "persist.removed")))

\* A metric has a value if it or a part of it is there.
LEMMA ValueFound ==
  ASSUME NEW metrics, metrics \in [DOMAIN metrics -> Fractions], NEW k
  PROVE  /\ MetricValue(metrics, k) # None <=> PartsOf(k) \cap DOMAIN metrics # {}
         /\ MetricValue(metrics, k) # None =>
              MetricValue(metrics, k)[1] = ValueOf(metrics, k) /\ ValueOf(metrics, k) \in Fractions
<1>1. \A p : PartValue(metrics, p) \in Fractions
  <2>1. Q(0) \in Fractions
    BY IntegerFraction
  <2>2. QED
    BY <2>1 DEF PartValue
<1>2. CASE k \in DOMAIN metrics
  <2>1. MetricValue(metrics, k) = <<metrics[k]>> /\ ValueOf(metrics, k) = metrics[k]
    BY <1>2 DEF MetricValue, ValueOf
  <2>2. k \in PartsOf(k) \cap DOMAIN metrics
    BY <1>2 DEF PartsOf
  <2>3. QED
    BY <1>2, <2>1, <2>2 DEF None
<1>3. CASE k \notin DOMAIN metrics /\ k = "net.total"
  <2> DEFINE parts == <<"net.rx", "net.tx">>
             sum == Plus(PartValue(metrics, "net.rx"), PartValue(metrics, "net.tx"))
  <2>1. TotalParts(k) = parts /\ Len(parts) = 2 /\ parts[1] = "net.rx" /\ parts[2] = "net.tx" /\ DOMAIN parts = {1, 2}
    BY <1>3 DEF TotalParts
  <2>2. PartsOf(k) = {k, "net.rx", "net.tx"}
    BY <1>3 DEF PartsOf
  <2>3. ValueOf(metrics, k) = sum
    BY <1>3 DEF ValueOf
  <2>4. sum \in Fractions
    BY <1>1, FractionArithmetic
  <2> HIDE DEF parts
  <2>5. MetricValue(metrics, k) = IF "net.rx" \notin DOMAIN metrics /\ "net.tx" \notin DOMAIN metrics THEN None ELSE <<sum>>
    BY <1>3, <2>1 DEF MetricValue
  <2> HIDE DEF sum
  <2>6. QED
    BY <1>3, <2>2, <2>3, <2>4, <2>5 DEF None
<1>4. CASE k \notin DOMAIN metrics /\ k = "persist.total"
  <2> DEFINE parts == <<"persist.added", "persist.changed", "persist.removed">>
             added == PartValue(metrics, "persist.added")
             changed == PartValue(metrics, "persist.changed")
             removed == PartValue(metrics, "persist.removed")
             sum == Plus(added, Plus(changed, removed))
  <2>1. /\ TotalParts(k) = parts /\ Len(parts) = 3 /\ DOMAIN parts = {1, 2, 3}
        /\ parts[1] = "persist.added" /\ parts[2] = "persist.changed" /\ parts[3] = "persist.removed"
    BY <1>4 DEF TotalParts
  <2>2. PartsOf(k) = {k, "persist.added", "persist.changed", "persist.removed"}
    BY <1>4 DEF PartsOf
  <2>3. ValueOf(metrics, k) = sum
    BY <1>4 DEF ValueOf
  <2>4. sum \in Fractions /\ sum = Plus(Plus(added, changed), removed)
    <3>1. added \in Fractions /\ changed \in Fractions /\ removed \in Fractions
      BY <1>1
    <3> HIDE DEF added, changed, removed
    <3>2. QED
      BY <3>1, FractionArithmetic
  <2> HIDE DEF parts
  <2>5. MetricValue(metrics, k) =
          IF "persist.added" \notin DOMAIN metrics /\ "persist.changed" \notin DOMAIN metrics /\ "persist.removed" \notin DOMAIN metrics
            THEN None ELSE <<Plus(Plus(added, changed), removed)>>
    BY <1>4, <2>1 DEF MetricValue
  <2> HIDE DEF sum, added, changed, removed
  <2>6. QED
    BY <1>4, <2>2, <2>3, <2>4, <2>5 DEF None
<1>5. CASE k \notin DOMAIN metrics /\ k # "net.total" /\ k # "persist.total"
  <2>1. TotalParts(k) = <<>> /\ PartsOf(k) = {k}
    BY <1>5 DEF TotalParts, PartsOf
  <2>2. MetricValue(metrics, k) = None
    BY <1>5, <2>1 DEF MetricValue
  <2>3. QED
    BY <1>5, <2>1, <2>2
<1>6. QED
  BY <1>2, <1>3, <1>4, <1>5

\* A rule alerts on a capture of its source if the value differs from the threshold the
\* way its operator says.
LEMMA RuleFires ==
  ASSUME NEW metrics, metrics \in [DOMAIN metrics -> Fractions], NEW r \in NormalRules, NEW capturer
  PROVE  RuleAlerts(r, capturer, metrics) <=>
           /\ r.source \in {"", capturer} /\ PartsOf(r.metric) \cap DOMAIN metrics # {}
           /\ Sign(Plus(ValueOf(metrics, r.metric), Neg(r.value))) \in SignsOf(r.op)
<1>1. r.value \in Fractions /\ r.op \in Operators
  BY DEF NormalRules, NormalRule, Rules
<1>2. /\ MetricValue(metrics, r.metric) # None <=> PartsOf(r.metric) \cap DOMAIN metrics # {}
      /\ MetricValue(metrics, r.metric) # None =>
           /\ MetricValue(metrics, r.metric)[1] = ValueOf(metrics, r.metric)
           /\ ValueOf(metrics, r.metric) \in Fractions
  BY ValueFound
<1>3. CASE MetricValue(metrics, r.metric) # None
  <2>1. CompareMetric(ValueOf(metrics, r.metric), r.op, r.value) <=>
          Sign(Plus(ValueOf(metrics, r.metric), Neg(r.value))) \in SignsOf(r.op)
    BY <1>1, <1>2, <1>3, Comparing
  <2>2. QED
    BY <1>2, <1>3, <2>1 DEF RuleAlerts
<1>4. CASE MetricValue(metrics, r.metric) = None
  BY <1>2, <1>4 DEF RuleAlerts
<1>5. QED
  BY <1>3, <1>4

\* The values are those of Resolved.
LEMMA ResolvedValues ==
  ASSUME NEW E, NEW T, ExprsOK(E, T), MetricsOK(E, memory.metrics),
         NEW captured, captured \in [DOMAIN captured -> Fractions]
  PROVE  LET got == ApplyCustomMetrics(captured, memory.metrics)
         IN got \in [DOMAIN got -> Fractions] /\ Resolved(captured, got)
<1> DEFINE cfg == memory.metrics
           D == DOMAIN captured
           got == ApplyCustomMetrics(captured, cfg)
           customs == {m \in Range(cfg) : m.name \notin D}
           earlier(m) == D \cup {o.name : o \in {p \in customs : Before(p.name, m.name)}}
           value(m) == Eval(m.expr, Restrict(got, DOMAIN got \cap earlier(m)))
<1>1. ValuesOf(got, D, captured, cfg, Len(cfg))
  BY AllValues
<1>2. /\ Len(cfg) \in Nat /\ DOMAIN cfg = 1..Len(cfg)
      /\ \A i, j \in 1..Len(cfg) : i < j => Before(cfg[i].name, cfg[j].name)
  <2>1. Len(cfg) \in Nat /\ DOMAIN cfg = 1..Len(cfg)
    BY ListParts, Zenon DEF MetricsOK
  <2>2. \A i, j \in DOMAIN cfg : i < j => Before(cfg[i].name, cfg[j].name)
    BY DEF MetricsOK
  <2>3. QED
    BY <2>1, <2>2
<1> HIDE DEF got, cfg, D
<1>3. ASSUME NEW i \in 1..Len(cfg)
      PROVE  earlier(cfg[i]) = D \cup NamesTo(cfg, i - 1)
  <2>1. ASSUME NEW o \in customs, Before(o.name, cfg[i].name)
        PROVE  o.name \in NamesTo(cfg, i - 1)
    <3>1. PICK j \in 1..Len(cfg) : o = cfg[j]
      BY <1>2 DEF Range
    <3>2. j < i
      <4>1. j # i /\ ~Before(cfg[i].name, cfg[j].name)
        BY <2>1, <3>1, StrictOrder, Zenon
      <4>2. QED
        BY <1>2, <4>1
    <3>3. j \in 1..(i - 1)
      BY <3>2
    <3>4. QED
      BY <3>1, <3>3 DEF NamesTo
  <2>2. ASSUME NEW name \in NamesTo(cfg, i - 1), name \notin D
        PROVE  \E o \in customs : Before(o.name, cfg[i].name) /\ name = o.name
    <3>1. PICK j \in 1..(i - 1) : name = cfg[j].name
      BY DEF NamesTo
    <3>2. j \in 1..Len(cfg) /\ j < i
      BY <1>2
    <3>3. cfg[j] \in customs
      BY <1>2, <2>2, <3>1, <3>2 DEF Range
    <3>4. Before(cfg[j].name, cfg[i].name)
      BY <1>2, <3>2
    <3>5. QED
      BY <3>1, <3>3, <3>4
  <2> HIDE DEF customs
  <2>3. QED
    BY <2>1, <2>2
<1>4. ASSUME NEW m \in customs
      PROVE  IF value(m) = None THEN m.name \notin DOMAIN got
             ELSE m.name \in DOMAIN got /\ got[m.name] = value(m)[1]
  <2>1. PICK i \in 1..Len(cfg) : m = cfg[i]
    BY <1>2 DEF Range
  <2>2. earlier(m) = D \cup NamesTo(cfg, i - 1)
    BY <1>3, <2>1
  <2>3. m.name \notin D
    OBVIOUS
  <2> HIDE DEF earlier
  <2>4. value(m) = Eval(cfg[i].expr, Restrict(got, DOMAIN got \cap (D \cup NamesTo(cfg, i - 1))))
    BY <2>1, <2>2
  <2> HIDE DEF value
  <2>5. QED
    BY <1>1, <2>1, <2>3, <2>4 DEF ValuesOf
<1>5. \A k \in D : k \in DOMAIN got /\ got[k] = captured[k]
  BY <1>1 DEF ValuesOf
<1>6. Resolved(captured, got)
  BY <1>4, <1>5 DEF Resolved, cfg, D
<1>7. got \in [DOMAIN got -> Fractions]
  BY <1>1 DEF ValuesOf
<1>8. QED
  BY <1>6, <1>7 DEF got, cfg

\* Rules that are normal and metrics in order judge captures as they say.
LEMMA Judged ==
  ASSUME NEW E, NEW T, ExprsOK(E, T), MetricsOK(E, memory.metrics), memory.rules \in Seq(NormalRules)
  PROVE  AlertsAsConfigured
<1> SUFFICES ASSUME NEW info \in Captures
             PROVE  LET got == ApplyCustomMetrics(info.metrics, memory.metrics)
                    IN /\ Resolved(info.metrics, got)
                       /\ \A r \in Range(memory.rules) :
                            RuleAlerts(r, info.capturer, got) <=>
                              /\ r.source \in {"", info.capturer} /\ PartsOf(r.metric) \cap DOMAIN got # {}
                              /\ Sign(Plus(ValueOf(got, r.metric), Neg(r.value))) \in SignsOf(r.op)
  BY Zenon DEF AlertsAsConfigured, PartsOf, ValueOf
<1> DEFINE got == ApplyCustomMetrics(info.metrics, memory.metrics)
<1>1. got \in [DOMAIN got -> Fractions] /\ Resolved(info.metrics, got)
  BY CapturesAssumption, ResolvedValues
<1>2. \A r \in Range(memory.rules) : r \in NormalRules
  BY DEF Range
<1> HIDE DEF got
<1>3. \A r \in Range(memory.rules) :
        RuleAlerts(r, info.capturer, got) <=>
          /\ r.source \in {"", info.capturer} /\ PartsOf(r.metric) \cap DOMAIN got # {}
          /\ Sign(Plus(ValueOf(got, r.metric), Neg(r.value))) \in SignsOf(r.op)
  BY <1>1, <1>2, RuleFires, Zenon
<1>4. QED
  BY <1>1, <1>3 DEF got

\* In memory, in the file and in requests custom metrics are in the order of their names,
\* and pages show texts.
MetricInv(E, T) ==
  /\ MetricsOK(E, memory.metrics) /\ MetricsOK(E, file.metrics.cfg)
  /\ \A c \in Clients : req[c].doc = "metrics" => MetricsOK(E, req[c].cfg)
  /\ \A c \in Clients : shown[c].metrics \in Seq([name : STRING, text : T])

\* No metrics are in order, and the rows a page shows have names and texts.
LEMMA ShownMetrics ==
  ASSUME NEW E, NEW T, ExprsOK(E, T)
  PROVE  /\ MetricsOK(E, <<>>)
         /\ \A cfg : MetricsOK(E, cfg) => ToCustomMetricPayload(cfg) \in Seq([name : STRING, text : T])
<1>1. MetricsOK(E, <<>>)
  BY DEF MetricsOK
<1>2. ASSUME NEW cfg, MetricsOK(E, cfg)
      PROVE  ToCustomMetricPayload(cfg) \in Seq([name : STRING, text : T])
  <2> DEFINE R == [name : Range(MetricNames), expr : E]
             row(i) == [name |-> cfg[i].name, text |-> Format(cfg[i].expr)]
  <2>1. Len(cfg) \in Nat /\ DOMAIN cfg = 1..Len(cfg) /\ \A i \in DOMAIN cfg : cfg[i] \in R
    BY <1>2, ListParts, Zenon DEF MetricsOK
  <2>2. \A name \in Range(MetricNames) : name \in STRING
    BY StrictOrder
  <2>3. \A i \in 1..Len(cfg) : row(i) \in [name : STRING, text : T]
    BY <2>1, <2>2 DEF ExprsOK
  <2>4. ToCustomMetricPayload(cfg) = [i \in 1..Len(cfg) |-> row(i)]
    BY <2>1 DEF ToCustomMetricPayload
  <2> HIDE DEF row
  <2>5. QED
    BY <2>1, <2>3, <2>4
<1>3. QED
  BY <1>1, <1>2

\* A page posts its table with a row more or a row less.
LEMMA EditedTable ==
  ASSUME NEW R, NEW table \in Seq(R), NEW rows \in SUBSET R, NEW edited \in Edits(table, rows)
  PROVE  edited \in Seq(R)
<1>1. CASE \E r \in rows : edited = Append(table, r)
  BY <1>1
<1>2. CASE \E i \in DOMAIN table : edited = RemoveAt(table, i)
  BY <1>2 DEF RemoveAt
<1>3. QED
  BY <1>1, <1>2 DEF Edits

\* What is posted as metrics is refused, or in order before it is a request.
LEMMA PostedInOrder ==
  ASSUME NEW E, NEW T, ExprsOK(E, T), MetricInv(E, T), NEW c \in Clients, PostMetrics(c)
  PROVE  UNCHANGED req \/ \E cfg : MetricsOK(E, cfg) /\ Accept(c, "metrics", cfg)
<1> DEFINE R == [name : STRING, text : T]
<1>1. PICK table \in Edits(shown[c].metrics, NewMetrics) :
        IF NormalizeCustomMetrics(table) = None THEN UNCHANGED <<req, past>>
        ELSE Accept(c, "metrics", NormalizeCustomMetrics(table)[1])
  BY DEF PostMetrics
<1>2. shown[c].metrics \in Seq(R) /\ NewMetrics \subseteq R
  BY DEF MetricInv, ExprsOK
<1>3. table \in Seq(R)
  <2> HIDE DEF R
  <2>1. QED
    BY <1>2, EditedTable
<1>4. NormalizeCustomMetrics(table) # None => MetricsOK(E, NormalizeCustomMetrics(table)[1])
  BY <1>3, NormalMetrics
<1>5. QED
  BY <1>1, <1>4

\* Initially there are no custom metrics.
LEMMA MetricInit ==
  ASSUME NEW E, NEW T, ExprsOK(E, T)
  PROVE  Init => MetricInv(E, T)
<1> SUFFICES ASSUME Init PROVE MetricInv(E, T)
  OBVIOUS
<1>1. MetricsOK(E, <<>>) /\ ToCustomMetricPayload(<<>>) \in Seq([name : STRING, text : T])
  BY ShownMetrics
<1>2. memory.metrics = <<>> /\ file.metrics.cfg = <<>>
  BY DEF Init, Absent
<1>3. \A c \in Clients : req[c].doc = "" /\ shown[c].metrics = ToCustomMetricPayload(<<>>)
  BY DEF Init, NoRequest, Tables
<1>4. QED
  BY <1>1, <1>2, <1>3 DEF MetricInv

\* Every step keeps them in order.
LEMMA MetricStep ==
  ASSUME NEW E, NEW T, ExprsOK(E, T)
  PROVE  TypeOK /\ Shapes /\ MetricInv(E, T) /\ [Next]_vars => MetricInv(E, T)'
<1> SUFFICES ASSUME TypeOK, Shapes, MetricInv(E, T), [Next]_vars PROVE MetricInv(E, T)'
  OBVIOUS
<1> DEFINE Rows == Seq([name : STRING, text : T])
<1>0. /\ MetricsOK(E, memory.metrics) /\ MetricsOK(E, file.metrics.cfg) /\ MetricsOK(E, <<>>)
      /\ \A d \in Clients : req[d].doc = "metrics" => MetricsOK(E, req[d].cfg)
      /\ \A d \in Clients : shown[d].metrics \in Rows
      /\ \A cfg : MetricsOK(E, cfg) => ToCustomMetricPayload(cfg) \in Rows
  BY ShownMetrics DEF MetricInv
<1> HIDE DEF Rows
<1>b. ASSUME MetricsOK(E, memory'.metrics), MetricsOK(E, file'.metrics.cfg),
             \A d \in Clients : req'[d].doc = "metrics" => MetricsOK(E, req'[d].cfg),
             \A d \in Clients : shown'[d].metrics \in Rows
      PROVE  MetricInv(E, T)'
  BY <1>b DEF MetricInv, Rows, MetricsOK
<1>1. CASE UNCHANGED <<file, memory, req, shown>>
  BY <1>0, <1>1, <1>b
<1>2. CASE Crash
  <2>1. \A d \in Clients : req'[d].doc = ""
    BY <1>2 DEF Crash, NoRequest
  <2>2. UNCHANGED <<file, memory, shown>>
    BY <1>2 DEF Crash
  <2>3. QED
    BY <1>0, <1>b, <2>1, <2>2
<1>3. CASE Restart
  <2>1. memory'.metrics = file.metrics.cfg /\ UNCHANGED <<file, req, shown>>
    BY <1>3 DEF Restart, Started, LoadCustomMetricsConfig
  <2>2. QED
    BY <1>0, <1>b, <2>1
<1>4. ASSUME NEW c \in Clients, LoadTables(c) PROVE MetricInv(E, T)'
  <2>1. \A d \in Clients : shown'[d].metrics \in Rows
    <3>1. Tables(memory).metrics = ToCustomMetricPayload(memory.metrics)
      BY DEF Tables
    <3>2. \A d \in Clients : shown'[d] = IF d = c THEN Tables(memory) ELSE shown[d]
      BY <1>4 DEF LoadTables, Shapes
    <3>3. QED
      BY <1>0, <3>1, <3>2
  <2>2. UNCHANGED <<file, memory, req>>
    BY <1>4 DEF LoadTables
  <2>3. QED
    BY <1>0, <1>b, <2>1, <2>2
<1>5. ASSUME NEW c \in Clients, NEW doc, NEW cfg, Accept(c, doc, cfg),
             doc = "metrics" => MetricsOK(E, cfg), UNCHANGED <<file, memory, shown>>
      PROVE  MetricInv(E, T)'
  <2>1. req'[c].doc = doc /\ req'[c].cfg = cfg /\ Others(c)
    BY <1>5, Accepted
  <2>2. \A d \in Clients : req'[d].doc = "metrics" => MetricsOK(E, req'[d].cfg)
    BY <1>0, <1>5, <2>1 DEF Others
  <2>3. QED
    BY <1>0, <1>5, <1>b, <2>2
<1>6. ASSUME NEW c \in Clients, PostRules(c) PROVE MetricInv(E, T)'
  BY <1>5, <1>6 DEF PostRules
<1>7. ASSUME NEW c \in Clients, PostMetrics(c) PROVE MetricInv(E, T)'
  <2>1. UNCHANGED <<file, memory, shown>>
    BY <1>7 DEF PostMetrics
  <2>2. QED
    BY <1>1, <1>5, <1>7, <2>1, PostedInOrder
<1>8. ASSUME NEW c \in Clients, OpenFile(c) \/ WriteFile(c) \/ SaveFails(c) PROVE MetricInv(E, T)'
  <2>1. PICK new \in {file[req[c].doc], Empty, Torn, Whole(req[c].cfg)} : file' = [file EXCEPT ![req[c].doc] = new]
    BY <1>8, WrittenFile
  <2>2. MetricsOK(E, file'.metrics.cfg)
    <3>1. CASE req[c].doc = "metrics"
      <4>1. Empty.cfg = <<>> /\ Torn.cfg = <<>> /\ Whole(req[c].cfg).cfg = req[c].cfg
        BY DEF Empty, Torn, Whole
      <4>2. new.cfg \in {file.metrics.cfg, <<>>, req[c].cfg}
        BY <2>1, <3>1, <4>1
      <4>3. file'.metrics = new
        BY <2>1, <3>1 DEF Shapes
      <4>4. QED
        BY <1>0, <3>1, <4>2, <4>3
    <3>2. CASE req[c].doc # "metrics"
      <4>1. file'.metrics = file.metrics
        BY <2>1, <3>2 DEF Shapes
      <4>2. QED
        BY <1>0, <4>1
    <3>3. QED
      BY <3>1, <3>2
  <2>3. Others(c) /\ (req'[c].doc = "metrics" => req[c].doc = "metrics" /\ req'[c].cfg = req[c].cfg)
    <3>1. CASE OpenFile(c) \/ WriteFile(c)
      BY <3>1, Stepped DEF OpenFile, WriteFile
    <3>2. CASE SaveFails(c)
      BY <3>2, Responded, Idle DEF SaveFails
    <3>3. QED
      BY <1>8, <3>1, <3>2
  <2>4. \A d \in Clients : req'[d].doc = "metrics" => MetricsOK(E, req'[d].cfg)
    BY <1>0, <2>3 DEF Others
  <2>5. UNCHANGED <<memory, shown>>
    BY <1>8 DEF OpenFile, WriteFile, SaveFails
  <2>6. QED
    BY <1>0, <1>b, <2>2, <2>4, <2>5
<1>9. ASSUME NEW c \in Clients, StoreRules(c) \/ StoreMetrics(c) PROVE MetricInv(E, T)'
  <2>1. req'[c].doc = "" /\ Others(c) /\ UNCHANGED file
    BY <1>9, Responded, Idle DEF StoreRules, StoreMetrics
  <2>2. \A d \in Clients : req'[d].doc = "metrics" => MetricsOK(E, req'[d].cfg)
    BY <1>0, <2>1 DEF Others
  <2>3. CASE StoreRules(c)
    <3>1. memory'.metrics = memory.metrics /\ \A d \in Clients : shown'[d].metrics = shown[d].metrics
      BY <2>3 DEF StoreRules, Shapes
    <3>2. QED
      BY <1>0, <1>b, <2>1, <2>2, <3>1
  <2>4. CASE StoreMetrics(c)
    <3>1. MetricsOK(E, req[c].cfg)
      BY <1>0, <2>4 DEF StoreMetrics
    <3>2. memory'.metrics = req[c].cfg
      BY <2>4 DEF StoreMetrics, Shapes
    <3>3. \A d \in Clients :
            shown'[d].metrics = IF d = c THEN ToCustomMetricPayload(req[c].cfg) ELSE shown[d].metrics
      BY <2>4 DEF StoreMetrics, Shapes
    <3>4. QED
      BY <1>0, <1>b, <2>1, <2>2, <3>1, <3>2, <3>3
  <2>5. QED
    BY <1>9, <2>3, <2>4
<1>10. QED
  BY <1>1, <1>2, <1>3, <1>4, <1>6, <1>7, <1>8, <1>9
     DEF Next, vars, Handler, Terminated, SetIOCConfig, ApplyMetrics, Judge, StoreCapture

\* Whatever is posted, saved, lost and loaded again, custom metrics have the values their
\* expressions say, in the order of their names, and an enabled rule alerts exactly if its
\* metric compares with the threshold as it says (AlertsAsConfigured); for every expression
\* language, E with the texts T, whose values are fractions.
THEOREM AlertsFollowConfiguration ==
  ASSUME NEW E, NEW T, ExprsOK(E, T)
  PROVE  Spec => []AlertsAsConfigured
<1> DEFINE J == TypeOK /\ Shapes /\ MetricInv(E, T)
<1>1. Init => J
  BY TypeInit, MetricInit
<1>2. J /\ [Next]_vars => J'
  BY TypeStep, MetricStep
<1>3. J => AlertsAsConfigured
  <2> SUFFICES ASSUME J PROVE AlertsAsConfigured
    OBVIOUS
  <2>1. MetricsOK(E, memory.metrics) /\ memory.rules \in Seq(NormalRules)
    BY DEF MetricInv, TypeOK, ConfigsOK
  <2>2. QED
    BY <2>1, Judged
<1>4. QED
  BY <1>1, <1>2, <1>3, PTL DEF Spec

=============================================================================
