---------------------------- MODULE CapturersProofs ----------------------------
(***************************************************************************)
(* Theorems about Capturers for every host, every configuration and every  *)
(* schedule of one capturer, proved with TLAPS: PROC, CONN, FILECHANGE and *)
(* PERSIST implement ChangeFeed and what they report is alerted; NET and   *)
(* DISK never report more of a counter than it counted, and the alerts of  *)
(* CPU, MEM and NET are true.                                              *)
(***************************************************************************)
EXTENDS Capturers, ListsProofs

\* The lists of the configuration are sequences.
LEMMA ListsFact ==
  /\ DOMAIN Pids = 1..Len(Pids) /\ Len(Pids) \in Nat
  /\ DOMAIN WalkOrder = 1..Len(WalkOrder) /\ Len(WalkOrder) \in Nat
  /\ DOMAIN Sources = 1..Len(Sources) /\ Len(Sources) \in Nat
  BY SequencesAssumption

\* What each capturer that reports changes tells apart.
LEMMA FeedKeysFact ==
  /\ name = "PROC" => K = {Pids[i] : i \in DOMAIN Pids}
  /\ name = "CONN" => K = Conns
  /\ name = "FILECHANGE" => K = {WalkOrder[i] : i \in DOMAIN WalkOrder}
  /\ name = "PERSIST" => K = UNION {Sources[i] : i \in DOMAIN Sources}
  /\ name \in Feeds => K \subseteq FeedKeys
  BY DEF K, Keys, ToSet, FeedKeys, Feeds

-----------------------------------------------------------------------------
(* The inductive invariant *)

\* The calls made so far have dealt with key k.
Handled(k) ==
  \/ name = "CONN" /\ pos > 1
  \/ name = "PROC" /\ \E i \in DOMAIN Pids : i < pos /\ Pids[i] = k
  \/ name = "FILECHANGE" /\ \E i \in DOMAIN WalkOrder : i < pos /\ WalkOrder[i] = k
  \/ name = "PERSIST" /\ \E i \in DOMAIN Sources : i < pos /\ k \in Sources[i]

ShownRecent(k) == {ShownOf(v) : v \in recent[k]}

\* A reader gets what the host has now, or had since the capture began.
HostInv ==
  /\ host \in [K -> Int] /\ recent \in [K -> SUBSET Int]
  /\ \A k \in K : host[k] \in recent[k]

\* Between two captures nothing of a capture is left.
StepInv ==
  /\ step \in {"idle", "list", "read"} /\ pos \in Nat \ {0} /\ scanned \in Nat
  /\ scanned < pos
  /\ step # "read" => pos = 1 /\ read = [k \in K |-> Gone]

\* What was listed was there, and what was not listed was not.
ListInv ==
  step = "read" /\ name \in {"PROC", "FILECHANGE"} =>
    \A k \in K : IF k \in listed THEN \E v \in recent[k] : v # Gone ELSE Gone \in recent[k]

\* What the calls made so far have read is recent, as it is shown; and as it was read, of a
\* key that was there all the time.
ReadInv ==
  /\ read \in [K -> Int]
  /\ \A k \in K : IF Handled(k) THEN /\ ShownOf(read[k]) \in ShownRecent(k)
                                     /\ read[k] \in recent[k] \/ Gone \in recent[k]
                  ELSE read[k] = Gone

\* The reported changes add up to the last snapshot.
KnownInv ==
  /\ curr = None <=> view = None
  /\ curr # None => curr[1].vals \in [K -> Int] /\ view = <<Shown(curr[1].vals)>>

FeedInv ==
  /\ name \in Names
  /\ IF name \in Feeds THEN HostInv /\ StepInv /\ ListInv /\ ReadInv /\ KnownInv ELSE view = None

\* The capturer of a schedule does not change, nor do its keys.
LEMMA SameName == [Next]_vars => name' = name /\ K' = K
<1> SUFFICES ASSUME [Next]_vars PROVE name' = name
  BY DEF K
<1>1. CASE Change
  BY <1>1 DEF Change
<1>2. CASE Tick
  BY <1>2 DEF Tick
<1>3. CASE StartCapture
  BY <1>3 DEF StartCapture
<1>4. CASE List
  BY <1>4 DEF List
<1>5. CASE Read
  BY <1>5 DEF Read, DescribeProcess, ReadConnections, VisitFile, ReadSource, ReadInterfaces,
              ReadDisks, ReadCPU, ReadMemory, ReadKeys
<1>6. CASE CaptureFails
  BY <1>6 DEF CaptureFails
<1>7. CASE Report
  BY <1>7 DEF Report
<1>8. CASE UNCHANGED vars
  BY <1>8 DEF vars
<1>9. QED
  BY <1>1, <1>2, <1>3, <1>4, <1>5, <1>6, <1>7, <1>8 DEF Next, Terminated

\* Initially the invariant holds.
LEMMA InitFeedInv == Init => FeedInv
<1> SUFFICES ASSUME Init PROVE FeedInv
  OBVIOUS
<1>1. name \in Names
  BY EnabledAssumption DEF Init
<1>2. CASE name \in Feeds
  <2>1. host \in [K -> Int] /\ recent = [k \in K |-> {host[k]}]
    BY <1>2 DEF Init, Gone, Ordinary
  <2>2. HostInv
    BY <2>1 DEF HostInv
  <2>3. StepInv /\ ListInv
    BY DEF Init, StepInv, ListInv
  <2>4. \A k \in K : ~Handled(k)
    BY ListsFact DEF Init, Handled
  <2>5. ReadInv
    BY <2>4 DEF Init, ReadInv, Gone
  <2>6. KnownInv
    BY DEF Init, KnownInv, None
  <2>7. QED
    BY <1>1, <1>2, <2>2, <2>3, <2>5, <2>6 DEF FeedInv
<1>3. CASE name \notin Feeds
  BY <1>1, <1>3 DEF Init, FeedInv
<1>4. QED
  BY <1>2, <1>3

-----------------------------------------------------------------------------
(* Every step preserves it *)

\* What could be read of a key only becomes more during a capture, so that what was read,
\* and what was listed, stays recent.
LEMMA RecentGrows ==
  ASSUME FeedInv, name \in Feeds, name' = name, \A k \in K : recent[k] \subseteq recent'[k],
         UNCHANGED <<step, pos, listed, read>>
  PROVE  ListInv' /\ ReadInv'
<1>1. K' = K /\ \A k : Handled(k)' <=> Handled(k)
  BY DEF K, Handled
<1>2. \A v : ShownOf(v)' = ShownOf(v)
  BY DEF ShownOf, ReportsContent
<1>3. \A k \in K : ShownRecent(k) \subseteq ShownRecent(k)'
  BY <1>2 DEF ShownRecent
<1>4. ListInv'
  BY <1>1 DEF FeedInv, ListInv
<1>5. ReadInv'
  BY <1>1, <1>2, <1>3 DEF FeedInv, ReadInv
<1>6. QED
  BY <1>4, <1>5

\* The host changes: what it shows from now on is recent as well.
LEMMA ChangeStep == FeedInv /\ name \in Feeds /\ Change => FeedInv'
<1> SUFFICES ASSUME FeedInv, name \in Feeds, Change PROVE FeedInv'
  OBVIOUS
<1> USE DEF FeedInv
<1>1. name' = name /\ K' = K
  BY DEF Change, K
<1>2. HostChange
  BY DEF Change, CounterChange, LevelChange, Feeds, Meters
<1>3. host' \in [K -> Int]
  BY <1>2 DEF HostChange, Contents, HostInv, Gone, Ordinary, Listed
<1>4. recent' = [k \in K |-> recent[k] \cup {host'[k]}]
  BY DEF Change
<1>5. HostInv'
  BY <1>1, <1>3, <1>4 DEF HostInv
<1>6. UNCHANGED <<capture, results>>
  BY DEF Change
<1>7. StepInv'
  BY <1>1, <1>6 DEF StepInv, capture
<1>8. ListInv' /\ ReadInv'
  BY <1>1, <1>4, <1>6, RecentGrows DEF capture
<1>9. KnownInv'
  BY <1>1, <1>6 DEF KnownInv, results, Shown, ShownOf, ReportsContent
<1>10. QED
  BY <1>1, <1>5, <1>7, <1>8, <1>9

\* A capture starts with nothing read, and nothing of before is recent.
LEMMA StartStep == FeedInv /\ name \in Feeds /\ StartCapture => FeedInv'
<1> SUFFICES ASSUME FeedInv, name \in Feeds, StartCapture PROVE FeedInv'
  OBVIOUS
<1> USE DEF FeedInv
<1>1. /\ name' = name /\ K' = K /\ UNCHANGED <<host, pos, listed, scanned, read, results>>
      /\ recent' = [k \in K |-> {host[k]}] /\ step = "idle"
      /\ step' = IF name \in {"PROC", "FILECHANGE"} THEN "list" ELSE "read"
  BY DEF StartCapture, K
<1>2. HostInv'
  BY <1>1 DEF HostInv
<1>3. StepInv'
  BY <1>1 DEF StepInv
<1>4. ListInv'
  BY <1>1 DEF ListInv
<1>5. \A k \in K : ~Handled(k)'
  BY <1>1, ListsFact DEF Handled, StepInv
<1>6. ReadInv'
  BY <1>1, <1>5 DEF ReadInv, StepInv, Gone
<1>7. KnownInv'
  BY <1>1 DEF KnownInv, results, Shown, ShownOf, ReportsContent
<1>8. QED
  BY <1>1, <1>2, <1>3, <1>4, <1>6, <1>7

\* Listing finds what is there.
LEMMA ListStep == FeedInv /\ name \in Feeds /\ List => FeedInv'
<1> SUFFICES ASSUME FeedInv, name \in Feeds, List PROVE FeedInv'
  OBVIOUS
<1> USE DEF FeedInv
<1>1. name' = name /\ K' = K /\ UNCHANGED <<host, recent, pos, scanned, read, results>>
  BY DEF List, K
<1>2. HostInv'
  BY <1>1 DEF HostInv
<1>3. StepInv'
  BY <1>1 DEF StepInv, List
<1>4. ListInv'
  BY <1>1 DEF ListInv, List, HostInv
<1>5. ReadInv'
  BY <1>1 DEF ReadInv, Handled, ShownRecent, ShownOf, ReportsContent
<1>6. KnownInv'
  BY <1>1 DEF KnownInv, results, Shown, ShownOf, ReportsContent
<1>7. QED
  BY <1>1, <1>2, <1>3, <1>4, <1>5, <1>6

\* A process that was listed keeps its pid, whether it still runs when it is described.
LEMMA DescribeStep == FeedInv /\ name \in Feeds /\ DescribeProcess => FeedInv'
<1> SUFFICES ASSUME FeedInv, name \in Feeds, DescribeProcess PROVE FeedInv'
  OBVIOUS
<1> USE DEF FeedInv
<1> DEFINE pid == Pids[pos]
           found == IF pid \notin listed THEN Gone ELSE IF host[pid] = Gone THEN Unnamed ELSE host[pid]
<1>1. /\ name = "PROC" /\ step = "read" /\ pos <= Len(Pids) /\ pos \in Nat \ {0}
      /\ pos' = pos + 1 /\ read' = [read EXCEPT ![pid] = found]
  BY DEF DescribeProcess, StepInv
<1>2. name' = name /\ K' = K /\ UNCHANGED <<host, recent, step, listed, scanned, results>>
  BY DEF DescribeProcess, K
<1>3. pos \in DOMAIN Pids /\ pid \in K
  BY <1>1, ListsFact, FeedKeysFact
<1> HIDE DEF pid
<1>4. HostInv'
  BY <1>2 DEF HostInv
<1>5. StepInv'
  BY <1>1, <1>2 DEF StepInv
<1>6. ListInv'
  BY <1>2 DEF ListInv
<1>7. found \in Int /\ ShownOf(found) \in ShownRecent(pid) /\ (found \in recent[pid] \/ Gone \in recent[pid])
  <2>1. CASE pid \notin listed
    <3>1. found = Gone /\ Gone \in recent[pid]
      BY <1>1, <1>3, <2>1 DEF ListInv
    <3>2. QED
      BY <3>1 DEF ShownRecent, Gone
  <2>2. CASE pid \in listed /\ host[pid] = Gone
    <3>1. PICK v \in recent[pid] : v # Gone
      BY <1>1, <1>3, <2>2 DEF ListInv
    <3>2. found = Unnamed
      BY <2>2
    <3>3. ShownOf(found) = ShownOf(v)
      BY <1>1, <3>1, <3>2 DEF ShownOf, ReportsContent, Unnamed, Gone
    <3>4. Gone \in recent[pid]
      BY <1>3, <2>2 DEF HostInv
    <3>5. QED
      BY <3>1, <3>2, <3>3, <3>4 DEF ShownRecent, Unnamed
  <2>3. CASE pid \in listed /\ host[pid] # Gone
    <3>1. found = host[pid] /\ host[pid] \in recent[pid] /\ host[pid] \in Int
      BY <1>3, <2>3 DEF HostInv
    <3> HIDE DEF found
    <3>2. QED
      BY <3>1 DEF ShownRecent
  <2>4. QED
    BY <2>1, <2>2, <2>3
<1> HIDE DEF found
<1>8. /\ read' \in [K -> Int] /\ read'[pid] = found
      /\ \A k \in K : k # pid => read'[k] = read[k]
  BY <1>1, <1>3, <1>7 DEF ReadInv
<1>9. \A k \in K : Handled(k)' <=> Handled(k) \/ k = pid
  BY <1>1, <1>2, <1>3, ListsFact DEF Handled, pid
<1>10. \A k \in K : /\ ShownRecent(k)' = ShownRecent(k) /\ ShownOf(read[k])' = ShownOf(read'[k])
                    /\ (read[k] \in recent[k])' <=> read'[k] \in recent[k]
                    /\ (Gone \in recent[k])' <=> Gone \in recent[k]
  BY <1>2 DEF ShownRecent, ShownOf, ReportsContent, Gone
<1>11. ReadInv'
  <2> SUFFICES ASSUME NEW k \in K
               PROVE  IF Handled(k)' THEN /\ ShownOf(read'[k]) \in ShownRecent(k)
                                          /\ read'[k] \in recent[k] \/ Gone \in recent[k]
                      ELSE read'[k] = Gone
    BY <1>2, <1>8, <1>10 DEF ReadInv, Gone
  <2>1. CASE k = pid
    BY <1>7, <1>8, <1>9, <2>1
  <2>2. CASE k # pid
    <3>1. read'[k] = read[k] /\ (Handled(k)' <=> Handled(k))
      BY <1>8, <1>9, <2>2
    <3>2. QED
      BY <3>1 DEF ReadInv
  <2>3. QED
    BY <2>1, <2>2
<1>12. KnownInv'
  BY <1>2 DEF KnownInv, results, Shown, ShownOf, ReportsContent
<1>13. QED
  BY <1>2, <1>4, <1>5, <1>6, <1>11, <1>12

\* A call reads some keys and overlooks others: it has handled these.
LEMMA CallStep ==
  ASSUME FeedInv, name \in {"CONN", "FILECHANGE", "PERSIST"},
         NEW keys \in SUBSET K, NEW over \in SUBSET K,
         ReadKeys(keys), scanned' \in {scanned, scanned + 1},
         recent' = [k \in K |->
           IF k \in over /\ host[k] # Gone THEN recent[k] \cup {Gone} ELSE recent[k]],
         \A k \in K : Handled(k)' <=> Handled(k) \/ k \in keys \cup over,
         \A k \in over : ~Handled(k) /\ k \notin keys
  PROVE  FeedInv'
<1> USE DEF FeedInv
<1>1. /\ name' = name /\ K' = K /\ step = "read" /\ UNCHANGED <<host, step, listed, results>>
      /\ pos' = pos + 1 /\ read' = [k \in K |-> IF k \in keys THEN host[k] ELSE read[k]]
  BY DEF ReadKeys, K
<1>2. name \in Feeds
  BY DEF Feeds
<1>3. HostInv'
  BY <1>1, <1>2 DEF HostInv, Gone
<1>4. StepInv'
  BY <1>1, <1>2 DEF StepInv
<1>5. \A k \in K : recent[k] \subseteq recent'[k]
  OBVIOUS
<1>6. ListInv'
  BY <1>1, <1>2, <1>5 DEF ListInv
<1>7. ASSUME NEW k \in K, Handled(k)'
      PROVE  /\ ShownOf(read'[k]) \in {ShownOf(v) : v \in recent'[k]}
             /\ read'[k] \in recent'[k] \/ Gone \in recent'[k]
  <2>1. CASE k \in keys
    <3>1. read'[k] = host[k] /\ host[k] \in recent'[k]
      BY <1>1, <1>2, <1>5, <2>1 DEF HostInv
    <3>2. QED
      BY <3>1
  <2>2. CASE k \in over /\ k \notin keys
    <3>1. read'[k] = Gone
      BY <1>1, <1>2, <2>2 DEF ReadInv
    <3>2. Gone \in recent'[k]
      BY <1>2, <2>2 DEF HostInv
    <3>3. QED
      BY <3>1, <3>2
  <2>3. CASE Handled(k) /\ k \notin keys
    <3>1. /\ read'[k] = read[k] /\ ShownOf(read[k]) \in ShownRecent(k)
          /\ read[k] \in recent[k] \/ Gone \in recent[k]
      BY <1>1, <1>2, <2>3 DEF ReadInv
    <3>2. QED
      BY <1>5, <3>1 DEF ShownRecent
  <2>4. QED
    BY <1>7, <2>1, <2>2, <2>3
<1>8. \A k \in K : /\ ShownRecent(k)' = {ShownOf(v) : v \in recent'[k]}
                   /\ ShownOf(read[k])' = ShownOf(read'[k])
                   /\ (read[k] \in recent[k])' <=> read'[k] \in recent'[k]
                   /\ (Gone \in recent[k])' <=> Gone \in recent'[k]
  BY <1>1 DEF ShownRecent, ShownOf, ReportsContent, Gone
<1>9. read' \in [K -> Int]
  BY <1>1, <1>2 DEF ReadInv, HostInv
<1>10. \A k \in K : ~Handled(k)' => read'[k] = Gone
  BY <1>1, <1>2 DEF ReadInv
<1>11. ReadInv'
  BY <1>1, <1>7, <1>8, <1>9, <1>10 DEF ReadInv
<1>12. KnownInv'
  BY <1>1, <1>2 DEF KnownInv, results, Shown, ShownOf, ReportsContent
<1>13. QED
  BY <1>1, <1>2, <1>3, <1>4, <1>6, <1>11, <1>12

\* All connections are read at once.
LEMMA ConnectionsStep == FeedInv /\ ReadConnections => FeedInv'
<1> SUFFICES ASSUME FeedInv, ReadConnections PROVE FeedInv'
  OBVIOUS
<1>1. /\ name = "CONN" /\ name' = name /\ pos = 1 /\ pos' = 2
      /\ ReadKeys(K) /\ UNCHANGED <<recent, scanned>>
  BY FeedKeysFact DEF ReadConnections, ReadKeys
<1>2. \A k \in K : ~Handled(k) /\ Handled(k)'
  BY <1>1 DEF Handled
<1>3. recent' = [k \in K |-> recent[k]]
  BY <1>1 DEF FeedInv, HostInv, Feeds
<1>4. recent' = [k \in K |-> IF k \in {} /\ host[k] # Gone THEN recent[k] \cup {Gone} ELSE recent[k]]
  BY <1>3
<1>5. QED
  BY <1>1, <1>2, <1>4, CallStep, K \in SUBSET K, {} \in SUBSET K

\* The walk handles one path after the other.
LEMMA VisitStep == FeedInv /\ VisitFile => FeedInv'
<1> SUFFICES ASSUME FeedInv, VisitFile PROVE FeedInv'
  OBVIOUS
<1> DEFINE path == WalkOrder[pos]
<1>1. name = "FILECHANGE" /\ name \in Feeds /\ pos \in Nat \ {0} /\ scanned \in Nat
  BY DEF VisitFile, FeedInv, StepInv, Feeds
<1>2. pos \in DOMAIN WalkOrder /\ path \in K
  BY <1>1, ListsFact, FeedKeysFact DEF VisitFile
<1>3. PICK keys \in SUBSET {path} :
        /\ ReadKeys(keys) /\ Overlook({path} \ keys) /\ scanned' \in {scanned, scanned + 1}
  <2>1. PICK readable \in BOOLEAN :
          LET found == path \in listed
              keys == IF /\ path \in Accepted
                         /\ path \in FileRoots \/ (found /\ readable /\ scanned' <= MaxFiles)
                      THEN {path} ELSE {}
          IN /\ scanned' = IF path \notin FileRoots /\ found /\ readable THEN scanned + 1 ELSE scanned
             /\ ReadKeys(keys) /\ Overlook({path} \ keys)
    BY DEF VisitFile
  <2>2. QED
    BY <2>1
<1>4. name' = name /\ pos' = pos + 1
  BY <1>3 DEF ReadKeys
<1>5. \A k \in K : Handled(k)' <=> Handled(k) \/ k = path
  BY <1>1, <1>2, <1>4, ListsFact DEF Handled
<1>6. ~Handled(path)
  <2>1. \A i \in DOMAIN WalkOrder : WalkOrder[i] = path => i = pos
    BY <1>2, OrderAssumption DEF IsInjective
  <2>2. QED
    BY <1>1, <2>1 DEF Handled
<1> DEFINE over == {path} \ keys
<1>7. keys \in SUBSET K /\ over \in SUBSET K /\ keys \cup over = {path}
  BY <1>2, <1>3
<1>8. recent' = [k \in K |->
        IF k \in over /\ host[k] # Gone THEN recent[k] \cup {Gone} ELSE recent[k]]
  BY <1>3 DEF Overlook
<1>9. \A k \in K : Handled(k)' <=> Handled(k) \/ k \in keys \cup over
  BY <1>5, <1>7
<1>10. \A k \in over : ~Handled(k) /\ k \notin keys
  BY <1>6
<1> HIDE DEF over, path
<1>11. QED
  BY <1>1, <1>3, <1>7, <1>8, <1>9, <1>10, CallStep

\* One source is read after the other.
LEMMA SourceStep == FeedInv /\ ReadSource => FeedInv'
<1> SUFFICES ASSUME FeedInv, ReadSource PROVE FeedInv'
  OBVIOUS
<1>1. PICK over \in SUBSET (Sources[pos] \cap Unreadable) :
        ReadKeys(Sources[pos] \ over) /\ Overlook(over)
  BY DEF ReadSource
<1>2. /\ name = "PERSIST" /\ name \in Feeds /\ pos \in Nat \ {0} /\ pos <= Len(Sources)
      /\ scanned' = scanned /\ name' = name /\ pos' = pos + 1
  BY <1>1 DEF ReadSource, FeedInv, StepInv, Feeds, ReadKeys
<1>3. pos \in DOMAIN Sources /\ Sources[pos] \subseteq K
  BY <1>2, ListsFact, FeedKeysFact
<1> DEFINE keys == Sources[pos] \ over
<1>4. keys \in SUBSET K /\ over \in SUBSET K /\ keys \cup over = Sources[pos]
  BY <1>1, <1>3
<1>5. \A k \in K : Handled(k)' <=> Handled(k) \/ k \in Sources[pos]
  BY <1>2, <1>3, ListsFact DEF Handled
<1>6. \A k \in Sources[pos] : ~Handled(k)
  BY <1>2, <1>3, OrderAssumption, ListsFact DEF Handled
<1>7. recent' = [k \in K |->
        IF k \in over /\ host[k] # Gone THEN recent[k] \cup {Gone} ELSE recent[k]]
  BY <1>1 DEF Overlook
<1>8. \A k \in over : ~Handled(k) /\ k \notin keys
  BY <1>1, <1>6
<1>9. \A k \in K : Handled(k)' <=> Handled(k) \/ k \in keys \cup over
  BY <1>4, <1>5
<1>10. ReadKeys(keys)
  BY <1>1
<1> HIDE DEF keys
<1>11. QED
  BY <1>2, <1>4, <1>7, <1>8, <1>9, <1>10, CallStep

\* A capture that fails leaves nothing behind.
LEMMA FailStep == FeedInv /\ name \in Feeds /\ CaptureFails => FeedInv'
<1> SUFFICES ASSUME FeedInv, name \in Feeds, CaptureFails PROVE FeedInv'
  OBVIOUS
<1> USE DEF FeedInv
<1>1. name' = name /\ K' = K /\ UNCHANGED <<host, recent, results>>
  BY DEF CaptureFails, K
<1>2. step' = "idle" /\ pos' = 1 /\ scanned' = 0 /\ read' = [k \in K |-> Gone]
  BY DEF CaptureFails, Return
<1>3. HostInv'
  BY <1>1 DEF HostInv
<1>4. StepInv' /\ ListInv'
  BY <1>1, <1>2 DEF StepInv, ListInv, Gone
<1>5. \A k \in K : ~Handled(k)'
  BY <1>1, <1>2, ListsFact DEF Handled
<1>6. ReadInv'
  BY <1>1, <1>2, <1>5 DEF ReadInv, Gone
<1>7. KnownInv'
  BY <1>1 DEF KnownInv, results, Shown, ShownOf, ReportsContent
<1>8. QED
  BY <1>1, <1>3, <1>4, <1>6, <1>7

\* Events name every key a consumer would see differently.
LEMMA PictureFact ==
  ASSUME KnownInv, name \in Feeds, NEW snap, snap.vals \in [K -> Int]
  PROVE  Picture(snap) = <<Shown(snap.vals)>>
<1>1. CASE view = None
  BY <1>1 DEF Picture
<1>2. CASE view # None
  <2>1. curr # None /\ curr[1].vals \in [K -> Int] /\ view[1] = Shown(curr[1].vals)
    BY <1>2 DEF KnownInv
  <2>2. ASSUME NEW k \in K, k \notin Events(snap)
        PROVE  ShownOf(snap.vals[k]) = ShownOf(curr[1].vals[k])
    BY <2>1, <2>2 DEF Events, Added, Removed, Modified, Changed, Present, ShownOf, ReportsContent
  <2>3. \A k \in K : (IF k \in Events(snap) THEN Shown(snap.vals)[k] ELSE view[1][k])
                      = ShownOf(snap.vals[k])
    BY <2>1, <2>2 DEF Shown
  <2>4. Picture(snap) = <<[k \in K |-> ShownOf(snap.vals[k])]>>
    BY <1>2, <2>3 DEF Picture
  <2>5. QED
    BY <2>4 DEF Shown
<1>3. QED
  BY <1>1, <1>2

\* When a capture is complete, every key has been handled.
LEMMA AllHandled ==
  ASSUME FeedInv, name \in Feeds, step = "read", pos > Calls
  PROVE  \A k \in K : /\ ShownOf(read[k]) \in ShownRecent(k)
                      /\ read[k] \in recent[k] \/ Gone \in recent[k]
<1>1. pos \in Nat
  BY DEF FeedInv, StepInv
<1>2. \A k \in K : Handled(k)
  <2>1. CASE name = "PROC"
    BY <1>1, <2>1, ListsFact, FeedKeysFact DEF Handled, Calls
  <2>2. CASE name = "CONN"
    BY <1>1, <2>2 DEF Handled, Calls
  <2>3. CASE name = "FILECHANGE"
    BY <1>1, <2>3, ListsFact, FeedKeysFact DEF Handled, Calls
  <2>4. CASE name = "PERSIST"
    BY <1>1, <2>4, ListsFact, FeedKeysFact DEF Handled, Calls
  <2>5. QED
    BY <2>1, <2>2, <2>3, <2>4 DEF Feeds
<1>3. QED
  BY <1>2 DEF FeedInv, ReadInv

\* A report replaces the snapshot and the picture alike.
LEMMA ReportStep == FeedInv /\ name \in Feeds /\ Report => FeedInv' /\ view' = <<Shown(read)>>
<1> SUFFICES ASSUME FeedInv, name \in Feeds, Report PROVE FeedInv' /\ view' = <<Shown(read)>>
  OBVIOUS
<1> USE DEF FeedInv
<1>1. name' = name /\ K' = K /\ host' = host
  BY DEF Report, K
<1>2. step' = "idle" /\ pos' = 1 /\ scanned' = 0 /\ read' = [k \in K |-> Gone]
  BY DEF Report, Return
<1> DEFINE snap == [at |-> now, vals |-> read, percent |-> percent.value, meter |-> readMeter]
<1>3. curr' = <<snap>> /\ view' = Picture(snap) /\ recent' = [k \in K |-> {host[k]}]
  BY DEF Report
<1>4. snap.vals = read /\ read \in [K -> Int]
  BY DEF ReadInv
<1>5. view' = <<Shown(read)>>
  BY <1>3, <1>4, PictureFact
<1>6. HostInv'
  BY <1>1, <1>3 DEF HostInv
<1>7. StepInv' /\ ListInv'
  BY <1>1, <1>2 DEF StepInv, ListInv, Gone
<1>8. \A k \in K : ~Handled(k)'
  BY <1>1, <1>2, ListsFact DEF Handled
<1>9. ReadInv'
  BY <1>1, <1>2, <1>8 DEF ReadInv, Gone
<1>10. KnownInv'
  <2>1. curr'[1].vals = read /\ curr' # None /\ view' # None
    BY <1>3, <1>4, <1>5 DEF None
  <2>2. Shown(curr[1].vals)' = Shown(read)
    BY <1>1, <2>1 DEF Shown, ShownOf, ReportsContent
  <2>3. QED
    BY <1>1, <1>4, <1>5, <2>1, <2>2 DEF KnownInv
<1>11. QED
  BY <1>1, <1>5, <1>6, <1>7, <1>9, <1>10

\* Every step preserves the invariant.
LEMMA FeedInvStep == FeedInv /\ [Next]_vars => FeedInv'
<1> SUFFICES ASSUME FeedInv, [Next]_vars PROVE FeedInv'
  OBVIOUS
<1>1. name' = name /\ K' = K
  BY SameName
<1>2. CASE name \notin Feeds
  <2>1. view' = view
    BY <1>2 DEF Next, Change, Tick, StartCapture, List, Read, DescribeProcess, ReadConnections,
                VisitFile, ReadSource, ReadInterfaces, ReadDisks, ReadCPU, ReadMemory, ReadKeys,
                CaptureFails, Report, Terminated, vars, results
  <2>2. QED
    BY <1>1, <1>2, <2>1 DEF FeedInv
<1>3. CASE name \in Feeds
  <2>1. CASE Read
    <3>1. ~(ReadInterfaces \/ ReadDisks \/ ReadCPU \/ ReadMemory)
      BY <1>3 DEF ReadInterfaces, ReadDisks, ReadCPU, ReadMemory, Feeds
    <3>2. QED
      BY <1>3, <2>1, <3>1, DescribeStep, ConnectionsStep, VisitStep, SourceStep DEF Read
  <2>2. CASE UNCHANGED vars
    BY <1>1, <2>2 DEF vars, capture, results, FeedInv, HostInv, StepInv, ListInv, ReadInv, KnownInv,
                      Handled, ShownRecent, Shown, ShownOf, ReportsContent
  <2>3. ~Tick
    BY <1>3 DEF Tick, Feeds, Meters
  <2>4. QED
    BY <1>3, <2>1, <2>2, <2>3, ChangeStep, StartStep, ListStep, FailStep, ReportStep
       DEF Next, Terminated
<1>4. QED
  BY <1>2, <1>3

\* The invariant holds in every state of every schedule.
LEMMA FeedInvariant == Spec => []FeedInv
  BY InitFeedInv, FeedInvStep, PTL DEF Spec

-----------------------------------------------------------------------------
(* The refinement *)

\* The variables of ChangeFeed under the refinement mapping.
feedHost == Extended(Shown(host), Gone)
feedRecent == Extended([k \in K |-> ShownRecent(k)], {Gone})
feedKnown == IF view = None THEN None ELSE <<Extended(view[1], Gone)>>

\* What the refinement mapping shows, key by key.
LEMMA Mapped ==
  /\ feedHost = [k \in FeedKeys |-> IF name \in Feeds /\ k \in K THEN ShownOf(host[k]) ELSE Gone]
  /\ feedRecent = [k \in FeedKeys |-> IF name \in Feeds /\ k \in K THEN ShownRecent(k) ELSE {Gone}]
  BY DEF feedHost, feedRecent, Extended, Shown

\* The same after a step, which keeps the capturer.
LEMMA MappedNext ==
  ASSUME name' = name
  PROVE  /\ feedHost' = [k \in FeedKeys |->
               IF name \in Feeds /\ k \in K THEN ShownOf(host'[k]) ELSE Gone]
         /\ feedRecent' = [k \in FeedKeys |->
               IF name \in Feeds /\ k \in K THEN {ShownOf(v) : v \in recent'[k]} ELSE {Gone}]
  BY DEF feedHost, feedRecent, Extended, Shown, ShownRecent, ShownOf, ReportsContent, K

\* A shown value is a value.
LEMMA ShownInt == \A v \in Int : ShownOf(v) \in Int
  BY DEF ShownOf, Gone, Ordinary

\* A step that leaves the host and the reports alone is a step of no feed.
LEMMA QuietStep ==
  ASSUME name' = name, UNCHANGED <<host, recent, view>>
  PROVE  UNCHANGED Feed!vars
<1>1. feedHost' = feedHost /\ feedRecent' = feedRecent
  BY Mapped, MappedNext DEF ShownRecent
<1>2. feedKnown' = feedKnown
  BY DEF feedKnown, Extended, K
<1>3. QED
  BY <1>1, <1>2 DEF Feed!vars, feedHost, feedRecent, feedKnown, ShownRecent

\* A capturer that reads counters or levels is no feed.
LEMMA OtherStep ==
  ASSUME name \notin Feeds, name' = name, view = None, view' = None
  PROVE  UNCHANGED Feed!vars
<1>1. feedHost' = feedHost /\ feedRecent' = feedRecent
  BY DEF feedHost, feedRecent, Extended
<1>2. feedKnown' = feedKnown
  BY DEF feedKnown
<1>3. QED
  BY <1>1, <1>2 DEF Feed!vars, feedHost, feedRecent, feedKnown, ShownRecent

\* Initial states map to initial states.
LEMMA FeedInit == Init => Feed!Init
<1> SUFFICES ASSUME Init PROVE Feed!Init
  OBVIOUS
<1>1. view = None /\ recent = [k \in K |-> {host[k]}]
  BY DEF Init
<1>2. name \in Feeds => host \in [K -> Int]
  BY DEF Init, Gone, Ordinary
<1>3. feedHost \in [FeedKeys -> Int]
  BY <1>2, Mapped, ShownInt DEF Gone
<1>4. feedRecent = [k \in FeedKeys |-> {feedHost[k]}]
  BY <1>1, Mapped DEF ShownRecent
<1>5. feedKnown = None
  BY <1>1 DEF feedKnown
<1>6. QED
  BY <1>3, <1>4, <1>5 DEF Feed!Init, Feed!Unknown, None, feedHost, feedRecent, feedKnown, ShownRecent

\* A change of the host is a change for its feed.
LEMMA ChangeRefines == FeedInv /\ name \in Feeds /\ Change => Feed!Change
<1> SUFFICES ASSUME FeedInv, name \in Feeds, Change PROVE Feed!Change
  OBVIOUS
<1>1. name' = name /\ K' = K /\ view' = view
  BY DEF Change, results, K
<1>2. HostInv' /\ HostInv
  BY <1>1, ChangeStep DEF FeedInv
<1>3. recent' = [k \in K |-> recent[k] \cup {host'[k]}]
  BY DEF Change
<1>4. feedHost' = [k \in FeedKeys |-> IF k \in K THEN ShownOf(host'[k]) ELSE Gone]
  BY <1>1, MappedNext
<1>5. feedRecent' = [k \in FeedKeys |->
        IF k \in K THEN {ShownOf(v) : v \in recent[k] \cup {host'[k]}} ELSE {Gone}]
  BY <1>1, <1>3, MappedNext
<1>6. feedHost' \in [FeedKeys -> Int]
  BY <1>1, <1>2, <1>4, ShownInt DEF HostInv, Gone
<1>7. feedRecent' = [k \in FeedKeys |-> feedRecent[k] \cup {feedHost'[k]}]
  BY <1>4, <1>5, Mapped DEF ShownRecent
<1>8. feedKnown' = feedKnown
  BY <1>1 DEF feedKnown, Extended
<1>9. QED
  BY <1>6, <1>7, <1>8 DEF Feed!Change, feedHost, feedRecent, feedKnown, ShownRecent

\* A capture that begins is one for its feed.
LEMMA StartRefines == name \in Feeds /\ StartCapture => Feed!Begin
<1> SUFFICES ASSUME name \in Feeds, StartCapture PROVE Feed!Begin
  OBVIOUS
<1>1. name' = name /\ host' = host /\ view' = view /\ recent' = [k \in K |-> {host[k]}]
  BY DEF StartCapture, results
<1>2. feedHost' = feedHost
  BY <1>1, Mapped, MappedNext
<1>3. feedRecent' = [k \in FeedKeys |-> {feedHost[k]}]
  BY <1>1, Mapped, MappedNext
<1>4. feedKnown' = feedKnown
  BY <1>1 DEF feedKnown, Extended, K
<1>5. QED
  BY <1>2, <1>3, <1>4 DEF Feed!Begin, feedHost, feedRecent, feedKnown, ShownRecent

\* Overlooking keys that were gone at some moment shows nothing; others may be overlooked.
LEMMA OverlookRefines ==
  ASSUME FeedInv, name \in Feeds, name' = name, UNCHANGED <<host, view>>,
         NEW over \in SUBSET K, Overlook(over),
         \A k \in over : host[k] = Gone \/ Gone \in recent[k] \/ k \in Missable
  PROVE  Feed!Overlook
<1> DEFINE missed == {k \in over : host[k] # Gone /\ Gone \notin recent[k]}
<1>1. missed \in SUBSET Missable
  OBVIOUS
<1>2. recent' = [k \in K |->
        IF k \in over /\ host[k] # Gone THEN recent[k] \cup {Gone} ELSE recent[k]]
  BY DEF Overlook
<1>3. \A k \in K : recent'[k] = IF k \in missed THEN recent[k] \cup {Gone} ELSE recent[k]
  BY <1>2
<1>4. ShownOf(Gone) = Gone
  BY DEF ShownOf
<1>5. \A k \in K : {ShownOf(v) : v \in recent'[k]}
                   = IF k \in missed THEN ShownRecent(k) \cup {Gone} ELSE ShownRecent(k)
  <2> SUFFICES ASSUME NEW k \in K
               PROVE  {ShownOf(v) : v \in recent'[k]}
                        = IF k \in missed THEN ShownRecent(k) \cup {Gone} ELSE ShownRecent(k)
    OBVIOUS
  <2>1. CASE k \in missed
    <3>1. recent'[k] = recent[k] \cup {Gone}
      BY <1>3, <2>1
    <3>2. QED
      BY <1>4, <2>1, <3>1 DEF ShownRecent
  <2>2. CASE k \notin missed
    BY <1>3, <2>2 DEF ShownRecent
  <2>3. QED
    BY <2>1, <2>2
<1>6. missed \subseteq K /\ K \subseteq FeedKeys
  BY FeedKeysFact
<1>7. feedRecent' = [k \in FeedKeys |-> IF k \in missed THEN feedRecent[k] \cup {Gone} ELSE feedRecent[k]]
  <2> HIDE DEF missed
  <2>1. QED
    BY <1>5, <1>6, Mapped, MappedNext
<1>8. feedHost' = feedHost
  BY Mapped, MappedNext
<1>9. feedKnown' = feedKnown
  BY DEF feedKnown, Extended, K
<1> HIDE DEF missed
<1>10. QED
  BY <1>1, <1>7, <1>8, <1>9 DEF Feed!Overlook, feedHost, feedRecent, feedKnown, ShownRecent

\* The walk overlooks files that are not tracked, not readable or beyond its limit, and
\* such as came after their directory was listed.
LEMMA VisitRefines == FeedInv /\ VisitFile => Feed!Overlook
<1> SUFFICES ASSUME FeedInv, VisitFile PROVE Feed!Overlook
  OBVIOUS
<1> DEFINE path == WalkOrder[pos]
<1> DEFINE found == path \in listed
<1> DEFINE keys(readable) ==
      IF /\ path \in Accepted
         /\ path \in FileRoots \/ (found /\ readable /\ scanned' <= MaxFiles)
      THEN {path} ELSE {}
<1>1. /\ name = "FILECHANGE" /\ name \in Feeds /\ step = "read" /\ pos \in Nat \ {0}
      /\ scanned \in Nat /\ scanned < pos /\ pos <= Len(WalkOrder)
  BY DEF VisitFile, FeedInv, StepInv, Feeds
<1>2. pos \in DOMAIN WalkOrder /\ path \in K
  BY <1>1, ListsFact, FeedKeysFact
<1>3. PICK readable \in IF path \in Unreadable THEN BOOLEAN ELSE {TRUE} :
        /\ scanned' = IF path \notin FileRoots /\ found /\ readable THEN scanned + 1 ELSE scanned
        /\ ReadKeys(keys(readable)) /\ Overlook({path} \ keys(readable))
  BY DEF VisitFile
<1> DEFINE over == {path} \ keys(readable)
<1>4. name' = name /\ UNCHANGED <<host, view>>
  BY <1>3 DEF ReadKeys, results
<1>5. ASSUME path \in over, Gone \notin recent[path] PROVE path \in Missable
  <2>1. found
    BY <1>1, <1>2, <1>5 DEF FeedInv, ListInv
  <2>2. scanned' <= pos
    BY <1>1, <1>3
  <2>3. \/ path \notin Accepted
        \/ path \notin FileRoots /\ (path \in Unreadable \/ ~(scanned' <= MaxFiles))
    BY <1>3, <1>5, <2>1
  <2>4. MaxFiles \in Nat /\ scanned' \in Nat
    BY <1>1, <1>3, LimitsAssumption
  <2>5. \/ path \notin Accepted
        \/ path \notin FileRoots /\ (path \in Unreadable \/ pos > MaxFiles)
    BY <1>1, <2>2, <2>3, <2>4
  <2>6. QED
    BY <1>2, <2>5 DEF Missable
<1>6. over \in SUBSET K /\ \A k \in over : k = path
  BY <1>2
<1>7. Overlook(over)
  BY <1>3
<1>8. \A k \in over : host[k] = Gone \/ Gone \in recent[k] \/ k \in Missable
  BY <1>5, <1>6
<1> HIDE DEF over
<1>9. QED
  BY <1>1, <1>4, <1>6, <1>7, <1>8, OverlookRefines

\* A source overlooks what it cannot read.
LEMMA SourceRefines == FeedInv /\ ReadSource => Feed!Overlook
<1> SUFFICES ASSUME FeedInv, ReadSource PROVE Feed!Overlook
  OBVIOUS
<1>1. PICK over \in SUBSET (Sources[pos] \cap Unreadable) :
        ReadKeys(Sources[pos] \ over) /\ Overlook(over)
  BY DEF ReadSource
<1>2. /\ name = "PERSIST" /\ name \in Feeds /\ pos \in Nat \ {0} /\ pos <= Len(Sources)
      /\ name' = name /\ UNCHANGED <<host, view>>
  BY <1>1 DEF ReadSource, FeedInv, StepInv, Feeds, ReadKeys, results
<1>3. over \subseteq K /\ K = Keys["PERSIST"]
  BY <1>1, <1>2, ListsFact, FeedKeysFact DEF K
<1>4. over \subseteq Missable
  BY <1>1, <1>3 DEF Missable
<1>5. QED
  BY <1>1, <1>2, <1>3, <1>4, OverlookRefines

\* A report brings what is known to values that are recent.
LEMMA ReportRefines == FeedInv /\ name \in Feeds /\ Report => Feed!Report
<1> SUFFICES ASSUME FeedInv, name \in Feeds, Report PROVE Feed!Report
  OBVIOUS
<1>1. /\ name' = name /\ host' = host /\ recent' = [k \in K |-> {host[k]}]
      /\ step = "read" /\ pos > Calls
  BY DEF Report
<1>2. view' = <<Shown(read)>>
  BY ReportStep
<1>3. \A k \in K : ShownOf(read[k]) \in ShownRecent(k)
  BY <1>1, AllHandled
<1>4. read \in [K -> Int]
  BY DEF FeedInv, ReadInv
<1> DEFINE known == [k \in FeedKeys |-> IF k \in K THEN ShownOf(read[k]) ELSE Gone]
<1>5. feedKnown' = <<known>>
  <2>1. view' # None /\ view'[1] = Shown(read)
    BY <1>2 DEF None
  <2>2. feedKnown' = <<[k \in FeedKeys |-> IF name \in Feeds /\ k \in K THEN view'[1][k] ELSE Gone]>>
    BY <1>1, <2>1 DEF feedKnown, Extended, K
  <2>3. QED
    BY <2>1, <2>2 DEF Shown
<1>6. known \in [FeedKeys -> Int]
  BY <1>4, ShownInt DEF Gone
<1>7. \A k \in FeedKeys : known[k] \in feedRecent[k]
  BY <1>3, Mapped
<1>8. feedRecent' = [k \in FeedKeys |-> {feedHost[k]}]
  BY <1>1, Mapped, MappedNext
<1>9. feedHost' = feedHost
  BY <1>1, Mapped, MappedNext
<1> HIDE DEF known
<1>10. feedKnown'[1] = known /\ feedKnown' = <<feedKnown'[1]>>
  BY <1>5
<1>11. QED
  BY <1>6, <1>7, <1>8, <1>9, <1>10 DEF Feed!Report, feedHost, feedRecent, feedKnown, ShownRecent

\* Every step of a capturer is a step of its feed, or none.
LEMMA StepRefines == FeedInv /\ [Next]_vars => [Feed!Next]_(Feed!vars)
<1> SUFFICES ASSUME FeedInv, [Next]_vars PROVE Feed!Next \/ UNCHANGED Feed!vars
  OBVIOUS
<1>1. name' = name
  BY SameName
<1>2. CASE name \notin Feeds
  <2>1. view = None /\ view' = None
    BY <1>1, <1>2, FeedInvStep DEF FeedInv
  <2>2. QED
    BY <1>1, <1>2, <2>1, OtherStep
<1>3. CASE name \in Feeds
  <2>1. CASE Read
    <3>1. ~(ReadInterfaces \/ ReadDisks \/ ReadCPU \/ ReadMemory)
      BY <1>3 DEF ReadInterfaces, ReadDisks, ReadCPU, ReadMemory, Feeds
    <3>2. DescribeProcess \/ ReadConnections => UNCHANGED Feed!vars
      BY QuietStep DEF DescribeProcess, ReadConnections, ReadKeys, results
    <3>3. QED
      BY <2>1, <3>1, <3>2, VisitRefines, SourceRefines DEF Read, Feed!Next
  <2>2. List \/ CaptureFails \/ UNCHANGED vars => UNCHANGED Feed!vars
    BY <1>1, QuietStep DEF List, CaptureFails, vars, results
  <2>3. ~Tick
    BY <1>3 DEF Tick, Feeds, Meters
  <2>4. QED
    BY <1>3, <2>1, <2>2, <2>3, ChangeRefines, StartRefines, ReportRefines DEF Next, Terminated, Feed!Next
<1>4. QED
  BY <1>2, <1>3

\* What PROC, CONN, FILECHANGE and PERSIST report adds up to what the host was at some
\* moment of the capture, whatever the host does during it, whatever fails and for every
\* configuration.
THEOREM ChangesReported == Spec => ImplementsFeed
<1>1. FeedInv /\ [Next]_vars => [Feed!Next]_(Feed!vars)
  BY StepRefines
<1>2. QED
  BY FeedInit, <1>1, FeedInvariant, PTL DEF Spec, ImplementsFeed, Feed!Spec

-----------------------------------------------------------------------------
(* Counters *)

Counters == K \ {"used"}

\* A counter that is there shows what was counted but for what was lost.
Shows(v, m) == v # Gone => v = m.real - m.lost /\ v >= 0

\* What was counted, lost and fell is never taken back; a counter that was there and has
\* not fallen since is still there and has lost nothing.
Later(v, m, w, n) ==
  /\ m.real <= n.real /\ m.lost <= n.lost /\ m.falls <= n.falls
  /\ v # Gone /\ m.falls = n.falls => w # Gone /\ m.lost = n.lost

\* The capture under way has read the counters.
HasRead == pos > (IF name = "DISK" THEN 2 ELSE 1)

MeterTypes ==
  /\ host \in [K -> Int] /\ meter \in [K -> Counts]
  /\ read \in [K -> Int] /\ readMeter \in [K -> Counts]
  /\ pos \in Nat \ {0} /\ (step # "read" => pos = 1)
  /\ reported \in [K -> Nat]

CountInv == \A k \in Counters : Shows(host[k], meter[k]) /\ meter[k].lost <= meter[k].real

\* What was read lies between the last snapshot and the present.
ReadCounts ==
  HasRead => \A k \in Counters :
    /\ Shows(read[k], readMeter[k]) /\ Later(read[k], readMeter[k], host[k], meter[k])
    /\ curr # None => Later(curr[1].vals[k], curr[1].meter[k], read[k], readMeter[k])

SnapTypes(snap) == snap.vals \in [K -> Int] /\ snap.meter \in [K -> Counts]

\* So does the last snapshot before the present.
CurrInv ==
  curr # None =>
    /\ SnapTypes(curr[1])
    /\ \A k \in Counters :
         /\ Shows(curr[1].vals[k], curr[1].meter[k])
         /\ Later(curr[1].vals[k], curr[1].meter[k], host[k], meter[k])

\* The reports that NET and DISK make since their first snapshot add up to no more than was
\* counted, and to that if nothing fell.
Gained(k) == Real(curr[1], k) - Real(first[1], k)
ReportInv ==
  IF curr = None THEN first = None /\ ~atOnce /\ reported = Zero
  ELSE /\ first # None /\ SnapTypes(first[1])
       /\ \A k \in Counters :
            /\ Later(first[1].vals[k], first[1].meter[k], curr[1].vals[k], curr[1].meter[k])
            /\ reported[k] <= Gained(k)
            /\ Undisturbed(first[1], curr[1], k) /\ ~atOnce => reported[k] = Gained(k)

MeterParts == MeterTypes /\ CountInv /\ ReadCounts /\ CurrInv /\ (name \in Rated => ReportInv)
MeterInv == name \in Meters => MeterParts

\* A moment is not before itself, and later than later is later.
LEMMA LaterFacts ==
  ASSUME NEW u \in Int, NEW v \in Int, NEW w \in Int,
         NEW l \in Counts, NEW m \in Counts, NEW n \in Counts
  PROVE  /\ Later(u, l, u, l)
         /\ Later(u, l, v, m) /\ Later(v, m, w, n) => Later(u, l, w, n)
<1>1. /\ l.real \in Nat /\ m.real \in Nat /\ n.real \in Nat
      /\ l.lost \in Nat /\ m.lost \in Nat /\ n.lost \in Nat
      /\ l.falls \in Nat /\ m.falls \in Nat /\ n.falls \in Nat
  BY DEF Counts
<1>2. QED
  BY <1>1 DEF Later

\* Initially nothing was counted.
LEMMA InitMeterInv == Init => MeterInv
<1> SUFFICES ASSUME Init, name \in Meters PROVE MeterParts
  BY DEF MeterInv
<1>1. /\ host = [k \in K |-> host[k]] /\ \A k \in K : host[k] = 0
      /\ meter = NoCount /\ readMeter = NoCount /\ pos = 1 /\ curr = None /\ first = None
  BY DEF Init, Meters, Feeds
<1>2. NoCount \in [K -> Counts] /\ \A k \in K : NoCount[k].real = 0 /\ NoCount[k].lost = 0
  BY DEF NoCount, Counts
<1>3. MeterTypes
  BY <1>1, <1>2 DEF Init, MeterTypes, Gone, Zero
<1>4. CountInv
  BY <1>1, <1>2 DEF CountInv, Counters, Shows
<1>5. ReadCounts /\ CurrInv
  BY <1>1 DEF ReadCounts, HasRead, CurrInv
<1>6. ReportInv
  BY <1>1 DEF Init, ReportInv
<1>7. QED
  BY <1>3, <1>4, <1>5, <1>6 DEF MeterParts

\* A change of one counter leads to a later moment.
LEMMA CounterMoves ==
  ASSUME MeterTypes, CountInv, name \in Meters, Change, NEW k \in Counters
  PROVE  /\ host'[k] \in Int /\ meter'[k] \in Counts
         /\ Shows(host'[k], meter'[k]) /\ meter'[k].lost <= meter'[k].real
         /\ Later(host[k], meter[k], host'[k], meter'[k])
<1>0. /\ k \in K /\ k # "used" /\ host[k] \in Int /\ meter[k] \in Counts
      /\ meter[k].real \in Nat /\ meter[k].lost \in Nat /\ meter[k].falls \in Nat
      /\ Shows(host[k], meter[k]) /\ meter[k].lost <= meter[k].real
      /\ host \in [K -> Int] /\ meter \in [K -> Counts]
  BY DEF MeterTypes, CountInv, Counters, Counts
<1>1. ~HostChange
  BY DEF HostChange, Feeds, Meters
<1>2. CASE host'[k] = host[k] /\ meter'[k] = meter[k]
  BY <1>0, <1>2 DEF Later
<1>3. CASE LevelChange
  BY <1>0, <1>2, <1>3 DEF LevelChange, Meters
<1>4. CASE CounterChange
  <2>1. PICK j \in K \ {"used"} :
       \/ /\ host[j] # Gone
          /\ host' = [host EXCEPT ![j] = @ + 1] /\ meter' = [meter EXCEPT ![j].real = @ + 1]
       \/ /\ host[j] > 0
          /\ \E v \in {0, host[j] - 1} :
               /\ host' = [host EXCEPT ![j] = v]
               /\ meter' = [meter EXCEPT ![j].lost = @ + host[j] - v, ![j].falls = @ + 1]
       \/ /\ name # "CPU" /\ host[j] # Gone
          /\ host' = [host EXCEPT ![j] = Gone] /\ meter' = [meter EXCEPT ![j].falls = @ + 1]
       \/ /\ host[j] = Gone
          /\ \E v \in {0, meter[j].real - meter[j].lost} :
               /\ host' = [host EXCEPT ![j] = v]
               /\ meter' = [meter EXCEPT ![j].lost = meter[j].real - v]
    BY <1>4 DEF CounterChange
  <2>2. CASE j # k
    <3>1. host'[k] = host[k]
      BY <1>0, <2>1, <2>2
    <3>2. meter'[k] = meter[k]
      <4>1. ASSUME NEW v, meter' = [meter EXCEPT ![j].lost = @ + host[j] - v, ![j].falls = @ + 1]
            PROVE  meter'[k] = meter[k]
        BY <1>0, <2>2, <4>1
      <4>2. ASSUME meter' = [meter EXCEPT ![j].real = @ + 1] \/ meter' = [meter EXCEPT ![j].falls = @ + 1]
            PROVE  meter'[k] = meter[k]
        BY <1>0, <2>2, <4>2
      <4>3. ASSUME NEW v, meter' = [meter EXCEPT ![j].lost = meter[j].real - v]
            PROVE  meter'[k] = meter[k]
        BY <1>0, <2>2, <4>3
      <4>4. QED
        BY <2>1, <4>1, <4>2, <4>3
    <3>3. QED
      BY <1>2, <3>1, <3>2
  <2>3. CASE j = k
    <3>1. CASE /\ host[k] # Gone
               /\ host' = [host EXCEPT ![k] = @ + 1] /\ meter' = [meter EXCEPT ![k].real = @ + 1]
      <4>1. host'[k] = host[k] + 1 /\ meter'[k] = [meter[k] EXCEPT !.real = @ + 1]
        BY <1>0, <3>1
      <4>2. /\ meter'[k] \in Counts /\ meter'[k].real = meter[k].real + 1
            /\ meter'[k].lost = meter[k].lost /\ meter'[k].falls = meter[k].falls
        BY <1>0, <4>1 DEF Counts
      <4>3. QED
        BY <1>0, <3>1, <4>1, <4>2 DEF Shows, Later, Gone
    <3>2. ASSUME NEW v \in {0, host[k] - 1}, host[k] > 0,
                 host' = [host EXCEPT ![k] = v],
                 meter' = [meter EXCEPT ![k].lost = @ + host[k] - v, ![k].falls = @ + 1]
          PROVE  /\ host'[k] \in Int /\ meter'[k] \in Counts
                 /\ Shows(host'[k], meter'[k]) /\ meter'[k].lost <= meter'[k].real
                 /\ Later(host[k], meter[k], host'[k], meter'[k])
      <4>1. /\ host'[k] = v /\ v \in Nat /\ v <= host[k]
            /\ meter'[k] = [meter[k] EXCEPT !.lost = @ + host[k] - v, !.falls = @ + 1]
        BY <1>0, <3>2
      <4>2. meter[k].lost + host[k] - v \in Nat
        BY <1>0, <4>1
      <4>3. /\ meter'[k] \in Counts /\ meter'[k].real = meter[k].real
            /\ meter'[k].lost = meter[k].lost + host[k] - v
            /\ meter'[k].falls = meter[k].falls + 1
        <5>1. meter'[k] = [real |-> meter[k].real, lost |-> meter[k].lost + host[k] - v,
                           falls |-> meter[k].falls + 1]
          <6> DEFINE m == meter[k]
          <6>1. m = [real |-> m.real, lost |-> m.lost, falls |-> m.falls]
            BY <1>0 DEF Counts
          <6>2. meter'[k] = [m EXCEPT !.lost = @ + host[k] - v, !.falls = @ + 1]
            BY <4>1
          <6> HIDE DEF m
          <6>3. meter'[k] = [real |-> m.real, lost |-> m.lost + host[k] - v, falls |-> m.falls + 1]
            BY <6>1, <6>2
          <6>4. QED
            BY <6>3 DEF m
        <5>2. QED
          BY <1>0, <4>2, <5>1 DEF Counts
      <4>4. host[k] = meter[k].real - meter[k].lost
        BY <1>0, <3>2 DEF Shows, Gone
      <4>5. QED
        BY <1>0, <4>1, <4>3, <4>4 DEF Shows, Later, Gone
    <3>3. CASE host' = [host EXCEPT ![k] = Gone] /\ meter' = [meter EXCEPT ![k].falls = @ + 1]
      <4>1. host'[k] = Gone /\ meter'[k] = [meter[k] EXCEPT !.falls = @ + 1]
        BY <1>0, <3>3
      <4>2. /\ meter'[k] \in Counts /\ meter'[k].real = meter[k].real
            /\ meter'[k].lost = meter[k].lost /\ meter'[k].falls = meter[k].falls + 1
        BY <1>0, <4>1 DEF Counts
      <4>3. QED
        BY <1>0, <4>1, <4>2 DEF Shows, Later, Gone
    <3>4. ASSUME NEW v \in {0, meter[k].real - meter[k].lost}, host[k] = Gone,
                 host' = [host EXCEPT ![k] = v],
                 meter' = [meter EXCEPT ![k].lost = meter[k].real - v]
          PROVE  /\ host'[k] \in Int /\ meter'[k] \in Counts
                 /\ Shows(host'[k], meter'[k]) /\ meter'[k].lost <= meter'[k].real
                 /\ Later(host[k], meter[k], host'[k], meter'[k])
      <4>1. /\ host'[k] = v /\ v \in Nat /\ v <= meter[k].real - meter[k].lost
            /\ meter'[k] = [meter[k] EXCEPT !.lost = meter[k].real - v]
        BY <1>0, <3>4
      <4>2. meter[k].real - v \in Nat
        BY <1>0, <4>1
      <4>3. /\ meter'[k] \in Counts /\ meter'[k].real = meter[k].real
            /\ meter'[k].lost = meter[k].real - v /\ meter'[k].falls = meter[k].falls
        BY <1>0, <4>1, <4>2 DEF Counts
      <4>4. QED
        BY <1>0, <3>4, <4>1, <4>3 DEF Shows, Later, Gone
    <3>5. QED
      BY <2>1, <2>3, <3>1, <3>2, <3>3, <3>4
  <2>4. QED
    BY <2>2, <2>3
<1>5. QED
  BY <1>1, <1>3, <1>4 DEF Change

\* The host changes: what was read is older still.
LEMMA MeterChange == MeterParts /\ name \in Meters /\ Change => MeterParts'
<1> SUFFICES ASSUME MeterParts, name \in Meters, Change PROVE MeterParts'
  OBVIOUS
<1> USE DEF MeterParts
<1>1. /\ name' = name /\ K' = K /\ Counters' = Counters
      /\ UNCHANGED <<step, pos, read, readMeter, reported, curr, first, atOnce>>
  BY DEF Change, capture, results, K, Counters
<1>2. \A k \in Counters : /\ host'[k] \in Int /\ meter'[k] \in Counts
                          /\ Shows(host'[k], meter'[k]) /\ meter'[k].lost <= meter'[k].real
                          /\ Later(host[k], meter[k], host'[k], meter'[k])
  BY CounterMoves
<1>3. host \in [K -> Int] /\ meter \in [K -> Counts]
  BY DEF MeterTypes
<1>4. \/ meter' = meter /\ \E v \in Int : host' = [host EXCEPT !["used"] = v]
      \/ \E j \in Counters : \E v, m : host' = [host EXCEPT ![j] = v] /\ meter' = [meter EXCEPT ![j] = m]
  <2>1. CASE LevelChange
    BY <2>1, LevelsAssumption DEF LevelChange, Meters
  <2>2. CASE CounterChange
    <3>1. PICK j \in Counters : /\ \E v : host' = [host EXCEPT ![j] = v]
                                /\ \E m : meter' = [meter EXCEPT ![j] = m]
      BY <2>2 DEF CounterChange, Counters
    <3>2. QED
      BY <3>1
  <2>3. QED
    BY <2>1, <2>2 DEF Change, HostChange, Feeds, Meters
<1>5. host' \in [K -> Int] /\ meter' \in [K -> Counts]
  <2>1. CASE meter' = meter /\ \E v \in Int : host' = [host EXCEPT !["used"] = v]
    BY <1>3, <2>1
  <2>2. ASSUME NEW j \in Counters, NEW v, NEW m,
               host' = [host EXCEPT ![j] = v], meter' = [meter EXCEPT ![j] = m]
        PROVE  host' \in [K -> Int] /\ meter' \in [K -> Counts]
    <3>1. j \in K /\ host'[j] = v /\ meter'[j] = m
      BY <1>3, <2>2 DEF Counters
    <3>2. v \in Int /\ m \in Counts
      BY <1>2, <3>1
    <3>3. QED
      BY <1>3, <2>2, <3>2
  <2>3. QED
    BY <1>4, <2>1, <2>2
<1>6. MeterTypes' /\ CountInv'
  BY <1>1, <1>2, <1>5 DEF MeterTypes, CountInv
<1>7. ASSUME NEW k \in Counters, NEW v \in Int, NEW m \in Counts, Later(v, m, host[k], meter[k])
      PROVE  Later(v, m, host'[k], meter'[k])
  BY <1>2, <1>3, <1>7, LaterFacts DEF Counters
<1>8. ReadCounts'
  <2>1. \A k \in Counters : read[k] \in Int /\ readMeter[k] \in Counts
    BY DEF MeterTypes, Counters
  <2>2. QED
    BY <1>1, <1>7, <2>1 DEF ReadCounts, HasRead
<1>9. CurrInv'
  <2>1. curr # None => \A k \in Counters : curr[1].vals[k] \in Int /\ curr[1].meter[k] \in Counts
    BY DEF CurrInv, SnapTypes, Counters
  <2>2. QED
    BY <1>1, <1>7, <2>1 DEF CurrInv, SnapTypes
<1>10. (name \in Rated => ReportInv)'
  BY <1>1 DEF ReportInv, SnapTypes, Gained, Real, Undisturbed, Zero
<1>11. QED
  BY <1>6, <1>8, <1>9, <1>10

\* Steps that read nothing and report nothing, and calls that fail.
LEMMA MeterQuiet ==
  ASSUME MeterParts, name' = name, UNCHANGED <<host, meter, reported, curr, first, atOnce>>,
         \/ UNCHANGED <<pos, read, readMeter>> /\ (step' # "read" => pos = 1)
         \/ pos' = 1 /\ read' = [k \in K |-> Gone] /\ readMeter' = NoCount
  PROVE  MeterParts'
<1> USE DEF MeterParts
<1>1. K' = K /\ Counters' = Counters
  BY DEF K, Counters
<1>2. NoCount \in [K -> Counts]
  BY DEF NoCount, Counts
<1>3. MeterTypes'
  BY <1>1, <1>2 DEF MeterTypes, Gone
<1>4. CountInv' /\ CurrInv' /\ (name \in Rated => ReportInv)'
  BY <1>1 DEF CountInv, CurrInv, ReportInv, SnapTypes, Gained, Real, Undisturbed, Zero
<1>5. ReadCounts'
  BY <1>1 DEF ReadCounts, HasRead
<1>6. QED
  BY <1>3, <1>4, <1>5

\* A call reads the counters as they are, or leaves them.
LEMMA MeterRead ==
  ASSUME MeterParts, name \in Meters, NEW keys, ReadKeys(keys),
         HasRead' => (HasRead /\ keys = {}) \/ Counters \subseteq keys
  PROVE  MeterParts'
<1> USE DEF MeterParts
<1>1. /\ name' = name /\ K' = K /\ Counters' = Counters /\ pos' = pos + 1 /\ step' = step /\ step = "read"
      /\ UNCHANGED <<host, meter, reported, curr, first, atOnce>>
      /\ read' = [k \in K |-> IF k \in keys THEN host[k] ELSE read[k]]
      /\ readMeter' = [k \in K |-> IF k \in keys THEN meter[k] ELSE readMeter[k]]
  BY DEF ReadKeys, results, K, Counters
<1>2. /\ host \in [K -> Int] /\ meter \in [K -> Counts] /\ read \in [K -> Int]
      /\ readMeter \in [K -> Counts] /\ pos \in Nat \ {0}
  BY DEF MeterTypes
<1>3. read' \in [K -> Int] /\ readMeter' \in [K -> Counts]
  BY <1>1, <1>2
<1>4. MeterTypes'
  BY <1>1, <1>2, <1>3 DEF MeterTypes
<1>5. CountInv' /\ CurrInv' /\ (name \in Rated => ReportInv)'
  BY <1>1 DEF CountInv, CurrInv, ReportInv, SnapTypes, Gained, Real, Undisturbed, Zero
<1>6. CASE HasRead' /\ HasRead /\ keys = {}
  <2>1. \A k \in Counters : read'[k] = read[k] /\ readMeter'[k] = readMeter[k]
    BY <1>1, <1>6 DEF Counters
  <2>2. QED
    BY <1>1, <1>4, <1>5, <1>6, <2>1 DEF ReadCounts
<1>7. CASE HasRead' /\ Counters \subseteq keys
  <2>1. \A k \in Counters : read'[k] = host[k] /\ readMeter'[k] = meter[k]
    BY <1>1, <1>7 DEF Counters
  <2>2. \A k \in Counters : Shows(host[k], meter[k]) /\ Later(host[k], meter[k], host[k], meter[k])
    BY <1>2, LaterFacts DEF CountInv, Counters
  <2>3. curr # None => \A k \in Counters :
          Later(curr[1].vals[k], curr[1].meter[k], host[k], meter[k])
    BY DEF CurrInv
  <2>4. QED
    BY <1>1, <1>4, <1>5, <2>1, <2>2, <2>3 DEF ReadCounts
<1>8. CASE ~HasRead'
  BY <1>4, <1>5, <1>8 DEF ReadCounts
<1>9. QED
  BY <1>6, <1>7, <1>8

\* The capturers that read counters read all of them before they report.
LEMMA MeterReads == MeterParts /\ name \in Meters /\ Read => MeterParts'
<1> SUFFICES ASSUME MeterParts, name \in Meters, Read PROVE MeterParts'
  OBVIOUS
<1>1. pos \in Nat \ {0}
  BY DEF MeterParts, MeterTypes
<1>2. CASE ReadInterfaces
  <2>1. ReadKeys(Ifaces) /\ Counters \subseteq Ifaces
    BY <1>2 DEF ReadInterfaces, Counters, K, Keys
  <2>2. QED
    BY <2>1, MeterRead
<1>3. CASE ReadDisks
  <2>1. PICK keys : ReadKeys(keys) /\ keys = IF pos = 1 THEN {"used"} ELSE Devices
    BY <1>3 DEF ReadDisks
  <2>2. name = "DISK" /\ name' = name /\ pos' = pos + 1 /\ Counters \subseteq Devices
    BY <1>3, <2>1 DEF ReadDisks, ReadKeys, Counters, K, Keys
  <2>3. HasRead' => Counters \subseteq keys
    BY <1>1, <2>1, <2>2 DEF HasRead
  <2>4. QED
    BY <2>1, <2>3, MeterRead
<1>4. CASE ReadCPU
  <2>1. PICK keys : ReadKeys(keys) /\ keys = IF pos = 1 THEN K ELSE {}
    BY <1>4 DEF ReadCPU
  <2>2. name = "CPU"
    BY <1>4 DEF ReadCPU
  <2>3. (HasRead /\ keys = {}) \/ Counters \subseteq keys
    BY <1>1, <2>1, <2>2 DEF HasRead, Counters
  <2>4. QED
    BY <2>1, <2>3, MeterRead
<1>5. QED
  BY <1>2, <1>3, <1>4 DEF Read, DescribeProcess, ReadConnections, VisitFile, ReadSource, ReadMemory,
     Meters

\* What GetInfo says a counter gained between two snapshots.
GainOf(old, new, k) ==
  IF new.vals[k] = Gone \/ old.vals[k] = Gone \/ new.vals[k] < old.vals[k] THEN 0
  ELSE new.vals[k] - old.vals[k]

\* A gain is at most what was counted, and that if the counter was there and never fell.
LEMMA GainOfFacts ==
  ASSUME NEW old, NEW new, NEW k,
         old.vals[k] \in Int, old.meter[k] \in Counts, new.vals[k] \in Int, new.meter[k] \in Counts,
         Shows(old.vals[k], old.meter[k]), Shows(new.vals[k], new.meter[k]),
         Later(old.vals[k], old.meter[k], new.vals[k], new.meter[k])
  PROVE  /\ GainOf(old, new, k) \in Nat
         /\ Real(new, k) - Real(old, k) \in Nat
         /\ GainOf(old, new, k) <= Real(new, k) - Real(old, k)
         /\ Undisturbed(old, new, k) =>
              /\ GainOf(old, new, k) = Real(new, k) - Real(old, k)
              /\ new.vals[k] - old.vals[k] = Real(new, k) - Real(old, k)
<1> DEFINE v == old.vals[k]
           w == new.vals[k]
           m == old.meter[k]
           n == new.meter[k]
<1>1. /\ v \in Int /\ w \in Int /\ m.real \in Nat /\ m.lost \in Nat
      /\ n.real \in Nat /\ n.lost \in Nat
  BY DEF Counts
<1>2. /\ Shows(v, m) /\ Shows(w, n) /\ Later(v, m, w, n)
      /\ GainOf(old, new, k) = IF w = Gone \/ v = Gone \/ w < v THEN 0 ELSE w - v
      /\ Real(new, k) = n.real /\ Real(old, k) = m.real
      /\ Undisturbed(old, new, k) => v # Gone /\ w # Gone /\ m.falls = n.falls
  BY DEF GainOf, Real, Undisturbed
<1>3. QED
  <2> HIDE DEF v, w, m, n
  <2>1. /\ GainOf(old, new, k) \in Nat
        /\ Real(new, k) - Real(old, k) \in Nat
        /\ GainOf(old, new, k) <= Real(new, k) - Real(old, k)
        /\ Undisturbed(old, new, k) =>
              /\ GainOf(old, new, k) = Real(new, k) - Real(old, k)
              /\ w - v = Real(new, k) - Real(old, k)
    BY <1>1, <1>2 DEF Shows, Later
  <2>2. QED
    BY <2>1 DEF v, w

\* The same for what a report adds (net.go, disk.go and cpu.go subtract two snapshots).
LEMMA GainFacts ==
  ASSUME curr # None, NEW snap, NEW k,
         curr[1].vals[k] \in Int, curr[1].meter[k] \in Counts,
         snap.vals[k] \in Int, snap.meter[k] \in Counts,
         Shows(curr[1].vals[k], curr[1].meter[k]), Shows(snap.vals[k], snap.meter[k]),
         Later(curr[1].vals[k], curr[1].meter[k], snap.vals[k], snap.meter[k])
  PROVE  /\ Gain(snap, k) \in Nat
         /\ Gain(snap, k) <= Real(snap, k) - Real(curr[1], k)
         /\ Undisturbed(curr[1], snap, k) => Gain(snap, k) = Real(snap, k) - Real(curr[1], k)
  BY GainOfFacts DEF Gain, GainOf

\* A report adds what was gained since the last snapshot.
LEMMA MeterReport == MeterParts /\ name \in Meters /\ Report => MeterParts'
<1> SUFFICES ASSUME MeterParts, name \in Meters, Report PROVE MeterParts'
  OBVIOUS
<1> USE DEF MeterParts
<1> DEFINE snap == [at |-> now, vals |-> read, percent |-> percent.value, meter |-> readMeter]
<1>1. /\ name' = name /\ K' = K /\ Counters' = Counters /\ UNCHANGED <<host, meter>>
      /\ step = "read" /\ pos > Calls
      /\ pos' = 1 /\ read' = [k \in K |-> Gone] /\ readMeter' = NoCount
      /\ curr' = <<snap>> /\ first' = IF name \in Rated /\ first = None THEN <<snap>> ELSE first
      /\ reported' = IF name \in Rated /\ HasRate(snap)
                     THEN [k \in K |-> reported[k] + Gain(snap, k)] ELSE reported
      /\ atOnce' = (atOnce \/ (curr # None /\ ~HasRate(snap)))
  BY DEF Report, Return, K, Counters
<1>2. snap.vals = read /\ snap.meter = readMeter /\ curr'[1] = snap /\ curr' # None
  BY <1>1 DEF None
<1>3. SnapTypes(snap)
  BY <1>2 DEF MeterTypes, SnapTypes
<1> HIDE DEF snap
<1>4. HasRead
  BY <1>1 DEF HasRead, Calls, Meters, MeterTypes
<1>5. /\ host \in [K -> Int] /\ meter \in [K -> Counts] /\ reported \in [K -> Nat]
      /\ NoCount \in [K -> Counts]
  BY DEF MeterTypes, NoCount, Counts
<1>6. ASSUME NEW k \in Counters
      PROVE  /\ k \in K /\ snap.vals[k] \in Int /\ snap.meter[k] \in Counts
             /\ Shows(snap.vals[k], snap.meter[k])
             /\ Later(snap.vals[k], snap.meter[k], host[k], meter[k])
             /\ curr # None =>
                  /\ curr[1].vals[k] \in Int /\ curr[1].meter[k] \in Counts
                  /\ Shows(curr[1].vals[k], curr[1].meter[k])
                  /\ Later(curr[1].vals[k], curr[1].meter[k], snap.vals[k], snap.meter[k])
  BY <1>2, <1>3, <1>4 DEF ReadCounts, CurrInv, SnapTypes, Counters
<1>7. CountInv' /\ ReadCounts'
  BY <1>1 DEF CountInv, ReadCounts, HasRead
<1>8. CurrInv'
  BY <1>1, <1>2, <1>3, <1>6 DEF CurrInv, SnapTypes
<1>9. \A k \in K : Gain(snap, k) \in Nat
  BY <1>3 DEF Gain, CurrInv, SnapTypes
<1>10. reported' \in [K -> Nat]
  BY <1>1, <1>5, <1>9
<1>11. MeterTypes'
  BY <1>1, <1>5, <1>10 DEF MeterTypes, Gone
<1>12. CASE name \notin Rated
  BY <1>1, <1>7, <1>8, <1>11, <1>12 DEF Rated
<1>13. CASE name \in Rated /\ curr = None
  <2>1. first' = <<snap>> /\ first'[1] = snap /\ first' # None /\ ~HasRate(snap)
    BY <1>1, <1>13 DEF ReportInv, HasRate, Interval, None
  <2>2. reported' = Zero /\ atOnce' = FALSE
    BY <1>1, <1>13, <2>1 DEF ReportInv
  <2>3. \A k \in Counters : Later(snap.vals[k], snap.meter[k], snap.vals[k], snap.meter[k])
    BY <1>6, LaterFacts
  <2>4. \A k \in Counters : Gained(k)' = 0 /\ reported'[k] = 0
    <3> SUFFICES ASSUME NEW k \in Counters PROVE Gained(k)' = 0 /\ reported'[k] = 0
      OBVIOUS
    <3>1. Gained(k)' = snap.meter[k].real - snap.meter[k].real /\ snap.meter[k].real \in Nat
      BY <1>2, <1>6, <2>1 DEF Gained, Real, Counts
    <3>2. QED
      BY <1>6, <2>2, <3>1 DEF Zero
  <2>5. ReportInv'
    BY <1>1, <1>2, <1>3, <2>1, <2>3, <2>4 DEF ReportInv, SnapTypes
  <2>6. QED
    BY <1>7, <1>8, <1>11, <2>5
<1>14. CASE name \in Rated /\ curr # None
  <2>0. ReportInv /\ first # None /\ SnapTypes(first[1]) /\ SnapTypes(curr[1])
    BY <1>14 DEF ReportInv, CurrInv
  <2>1. first' = first
    BY <1>1, <2>0
  <2>2. ASSUME NEW k \in Counters
        PROVE  /\ Gain(snap, k) \in Nat
               /\ Gain(snap, k) <= Real(snap, k) - Real(curr[1], k)
               /\ Undisturbed(curr[1], snap, k) => Gain(snap, k) = Real(snap, k) - Real(curr[1], k)
    BY <1>6, <1>14, GainFacts
  <2>3. ASSUME NEW k \in Counters
        PROVE  /\ first[1].vals[k] \in Int /\ first[1].meter[k] \in Counts
               /\ Later(first[1].vals[k], first[1].meter[k], curr[1].vals[k], curr[1].meter[k])
               /\ curr[1].vals[k] \in Int /\ curr[1].meter[k] \in Counts
               /\ snap.vals[k] \in Int /\ snap.meter[k] \in Counts
               /\ Later(curr[1].vals[k], curr[1].meter[k], snap.vals[k], snap.meter[k])
    BY <1>6, <1>14, <2>0 DEF ReportInv, SnapTypes, Counters
  <2>4. ASSUME NEW k \in Counters
        PROVE  Later(first[1].vals[k], first[1].meter[k], snap.vals[k], snap.meter[k])
    <3>1. \A u, v, w \in Int : \A l, m, n \in Counts :
            Later(u, l, v, m) /\ Later(v, m, w, n) => Later(u, l, w, n)
      BY LaterFacts
    <3>2. QED
      BY <2>3, <3>1
  <2>5. ASSUME NEW k \in Counters
        PROVE  /\ reported'[k] <= Real(snap, k) - Real(first[1], k)
               /\ Undisturbed(first[1], snap, k) /\ ~atOnce'
                    => reported'[k] = Real(snap, k) - Real(first[1], k)
    <3>1. /\ Real(snap, k) \in Nat /\ Real(curr[1], k) \in Nat /\ Real(first[1], k) \in Nat
          /\ Real(curr[1], k) <= Real(snap, k) /\ reported[k] \in Nat
      BY <1>5, <1>6, <2>3 DEF Real, Counts, Later
    <3>2. /\ reported[k] <= Real(curr[1], k) - Real(first[1], k)
          /\ Undisturbed(first[1], curr[1], k) /\ ~atOnce
               => reported[k] = Real(curr[1], k) - Real(first[1], k)
      BY <1>14, <2>0 DEF ReportInv, Gained
    <3>3. /\ HasRate(snap) => reported'[k] = reported[k] + Gain(snap, k)
          /\ ~HasRate(snap) => reported'[k] = reported[k]
      BY <1>1, <1>6, <1>14
    <3>4. Undisturbed(first[1], snap, k)
            => Undisturbed(first[1], curr[1], k) /\ Undisturbed(curr[1], snap, k)
      <4>1. /\ first[1].meter[k].falls \in Nat /\ curr[1].meter[k].falls \in Nat
            /\ snap.meter[k].falls \in Nat
        BY <2>3 DEF Counts
      <4>2. QED
        BY <2>3, <4>1 DEF Undisturbed, Later
    <3>5. reported'[k] <= Real(snap, k) - Real(first[1], k)
      BY <2>2, <3>1, <3>2, <3>3
    <3>6. ASSUME Undisturbed(first[1], snap, k), ~atOnce'
          PROVE  reported'[k] = Real(snap, k) - Real(first[1], k)
      <4>1. HasRate(snap) /\ ~atOnce
        BY <1>1, <1>14, <3>6
      <4>2. QED
        BY <2>2, <3>1, <3>2, <3>3, <3>4, <3>6, <4>1
    <3>7. QED
      BY <3>5, <3>6
  <2>6. ReportInv'
    <3>1. \A k \in Counters :
            /\ Gained(k)' = Real(snap, k) - Real(first[1], k)
            /\ Undisturbed(first[1], curr[1], k)' = Undisturbed(first[1], snap, k)
      BY <1>2, <2>1 DEF Gained, Real, Undisturbed
    <3>2. SnapTypes(first[1])'
      BY <1>1, <2>0, <2>1 DEF SnapTypes
    <3>3. QED
      BY <1>1, <1>2, <2>0, <2>1, <2>4, <2>5, <3>1, <3>2 DEF ReportInv
  <2>7. QED
    BY <1>7, <1>8, <1>11, <2>6
<1>15. QED
  BY <1>12, <1>13, <1>14

\* Every step keeps the counters' reports within what was counted.
LEMMA MeterInvStep == MeterInv /\ [Next]_vars => MeterInv'
<1> SUFFICES ASSUME MeterInv, [Next]_vars, name \in Meters PROVE MeterParts'
  BY SameName DEF MeterInv
<1>1. MeterParts /\ name' = name
  BY SameName DEF MeterInv
<1>2. CASE Tick \/ StartCapture \/ List \/ UNCHANGED vars
  <2>1. /\ UNCHANGED <<host, meter, reported, curr, first, atOnce, pos, read, readMeter>>
        /\ step' # "read" => step # "read"
    BY <1>2 DEF Tick, StartCapture, List, vars, capture, results
  <2>2. step' # "read" => pos = 1
    BY <1>1, <2>1 DEF MeterParts, MeterTypes
  <2>3. QED
    BY <1>1, <2>1, <2>2, MeterQuiet
<1>3. CASE CaptureFails
  <2>1. /\ UNCHANGED <<host, meter, reported, curr, first, atOnce>>
        /\ pos' = 1 /\ read' = [k \in K |-> Gone] /\ readMeter' = NoCount
    BY <1>3 DEF CaptureFails, Return, results
  <2>2. QED
    BY <1>1, <2>1, MeterQuiet
<1>4. QED
  BY <1>1, <1>2, <1>3, MeterChange, MeterReads, MeterReport DEF Next, Terminated

\* net.go:67-83, disk.go:98-117: what the rates of an interface or a device add up to is
\* never more than it really counted, whatever falls, comes back or fails between two
\* captures, and exactly that when it never fell and no two snapshots were taken at one moment.
THEOREM CountersTruthful == Spec => []TrafficAccounted
<1>1. MeterInv => TrafficAccounted
  BY DEF MeterInv, MeterParts, ReportInv, Gained, TrafficAccounted, Counters, Rated, Meters
<1>2. QED
  BY InitMeterInv, MeterInvStep, <1>1, PTL DEF Spec

-----------------------------------------------------------------------------
(* Alerts about changes *)

\* InOrder lists the keys of the list that it is given.
LEMMA InOrderEnumerates ==
  ASSUME NEW order, NEW T, Enumerates(order, T), NEW keys
  PROVE  Enumerates(InOrder(order, keys), T \cap keys)
<1> DEFINE positions == {i \in DOMAIN order : order[i] \in keys}
<1>1. DOMAIN order = 1..Len(order) /\ \A i \in 1..Len(order) : order[i] \in T
  BY DEF Enumerates
<1>2. {order[i] : i \in positions \cap 1..Len(order)} = T \cap keys
  BY <1>1 DEF Enumerates
<1>3. Enumerates(Kept(order, positions), {order[i] : i \in positions \cap 1..Len(order)})
  BY KeptEnumerates
<1>4. QED
  BY <1>2, <1>3 DEF InOrder

\* A capture under way was taken before the picture: what a consumer sees differently is
\* what the report names, and what it sees appear is what the report adds.
LEMMA EventsShown ==
  ASSUME FeedInv, view # None, Report, NEW snap, snap.vals = read
  PROVE  /\ name \in Feeds /\ name' = name
         /\ Differs = Added(snap) \cup Removed(snap) \cup Modified(snap)
         /\ Appears = Added(snap)
         /\ Added(snap) \cap Removed(snap) = {} /\ Added(snap) \cap Modified(snap) = {}
         /\ Removed(snap) \cap Modified(snap) = {}
         /\ IsFiniteSet(Differs) /\ IsFiniteSet(Added(snap)) /\ IsFiniteSet(Appears)
<1>1. name \in Feeds /\ name' = name /\ KnownInv /\ read \in [K -> Int]
  BY DEF FeedInv, Report, ReadInv
<1>2. /\ curr # None /\ curr[1].vals \in [K -> Int] /\ view[1] = Shown(curr[1].vals)
      /\ view'[1] = Shown(read)
  BY <1>1, ReportStep DEF KnownInv
<1>3. Differs = {k \in K : ShownOf(read[k]) # ShownOf(curr[1].vals[k])}
  BY <1>2 DEF Differs, Shown
<1>4. Appears = {k \in Differs : ShownOf(curr[1].vals[k]) = Gone}
  BY <1>2, <1>3 DEF Appears, Shown
<1>5. \A v \in Int : ShownOf(v) = Gone <=> v = Gone
  BY DEF ShownOf, Gone, Ordinary
<1>6. ASSUME NEW k \in K
      PROVE  /\ k \in Differs <=> k \in Added(snap) \cup Removed(snap) \cup Modified(snap)
             /\ k \in Appears <=> k \in Added(snap)
  <2>1. read[k] \in Int /\ curr[1].vals[k] \in Int
    BY <1>1, <1>2
  <2>2. /\ k \in Added(snap) <=> read[k] # Gone /\ curr[1].vals[k] = Gone
        /\ k \in Removed(snap) <=> read[k] = Gone /\ curr[1].vals[k] # Gone
        /\ k \in Modified(snap) <=> /\ ReportsContent /\ read[k] # Gone /\ curr[1].vals[k] # Gone
                                    /\ read[k] # curr[1].vals[k]
    BY <1>2 DEF Added, Removed, Modified, Changed, Present
  <2>3. ~ReportsContent /\ read[k] # Gone /\ curr[1].vals[k] # Gone
          => ShownOf(read[k]) = ShownOf(curr[1].vals[k])
    BY DEF ShownOf
  <2>4. ReportsContent => ShownOf(read[k]) = read[k] /\ ShownOf(curr[1].vals[k]) = curr[1].vals[k]
    BY DEF ShownOf
  <2>5. QED
    BY <1>3, <1>4, <1>5, <2>1, <2>2, <2>3, <2>4
<1>7. /\ Added(snap) \subseteq K /\ Removed(snap) \subseteq K /\ Modified(snap) \subseteq K
      /\ Differs \subseteq K /\ Appears \subseteq K
  BY DEF Added, Removed, Modified, Changed, Present, Differs, Appears
<1>8. IsFiniteSet(K)
  BY <1>1, FiniteAssumption DEF FeedInv, K
<1>9. /\ Added(snap) \cap Removed(snap) = {} /\ Added(snap) \cap Modified(snap) = {}
      /\ Removed(snap) \cap Modified(snap) = {}
  BY DEF Added, Removed, Modified, Changed
<1>10. QED
  BY <1>1, <1>6, <1>7, <1>8, <1>9, FS_Subset

\* Only a report ends a capture that has made all its calls.
LEMMA ReportsReport == ASSUME [Next]_vars, Reports, pos \in Nat PROVE Report
<1>1. step = "read" /\ step' = "idle" /\ pos > Calls
  BY DEF Reports
<1>2. CASE Read
  BY <1>1, <1>2 DEF Read, DescribeProcess, ReadConnections, VisitFile, ReadSource, ReadInterfaces,
              ReadDisks, ReadCPU, ReadMemory, ReadKeys
<1>3. ~CaptureFails
  <2>1. SUFFICES ASSUME MayFail PROVE FALSE
    BY DEF CaptureFails
  <2>2. pos <= IF name = "CPU" THEN 1 ELSE Calls
    BY <1>1, <2>1 DEF MayFail
  <2>3. Calls \in Nat /\ (name = "CPU" => Calls = 2)
    BY ListsFact DEF Calls
  <2>4. QED
    BY <1>1, <2>2, <2>3
<1>4. ~(UNCHANGED vars)
  BY <1>1 DEF vars, capture
<1>5. QED
  BY <1>1, <1>2, <1>3, <1>4 DEF Next, Change, Tick, StartCapture, List, Terminated, capture

\* Which of the rules about changes a report alerts.
LEMMA RaisedBy ==
  ASSUME Report, name \in Feeds,
         NEW snap, snap = [at |-> now, vals |-> read, percent |-> percent.value, meter |-> readMeter]
  PROVE  /\ Raised("proc.burst") <=> name = "PROC" /\ Cardinality(Added(snap)) >= ProcLimit
         /\ Raised("file.events_burst") <=> name = "FILECHANGE" /\ Cardinality(Events(snap)) >= FileLimit
         /\ Raised("persist.change") <=> name = "PERSIST" /\ Cardinality(Events(snap)) >= 1
<1>1. PICK fields \in Fields(snap) : alerts' = DefaultRules(snap) \cup RuleIOCMatch(snap, fields)
  BY DEF Report
<1>2. \A a \in RuleIOCMatch(snap, fields) : a.rule = "ioc.match"
  BY DEF RuleIOCMatch, Alert
<1>3. RuleCPUHigh(snap) = {} /\ RuleMemPressure(snap) = {} /\ RuleNetSpike(snap) = {}
  BY DEF RuleCPUHigh, RuleMemPressure, RuleNetSpike, If, Feeds
<1>4. alerts' = RuleProcBurst(snap) \cup RuleFileEventBurst(snap) \cup RulePersistenceChange(snap)
                  \cup RuleIOCMatch(snap, fields)
  BY <1>1, <1>3 DEF DefaultRules
<1>5. /\ \A a : a \in RuleProcBurst(snap) <=>
              name = "PROC" /\ Cardinality(Added(snap)) >= ProcLimit /\ a = Alert("proc.burst", "")
      /\ \A a : a \in RuleFileEventBurst(snap) <=>
              name = "FILECHANGE" /\ Cardinality(Events(snap)) >= FileLimit /\ a = Alert("file.events_burst", "")
      /\ \A a : a \in RulePersistenceChange(snap) <=>
              name = "PERSIST" /\ Cardinality(Events(snap)) >= 1 /\ a = Alert("persist.change", "")
  BY DEF RuleProcBurst, RuleFileEventBurst, RulePersistenceChange, If
<1>6. /\ \A r : Alert(r, "").rule = r
      /\ \A q, r : Alert(q, "") = Alert(r, "") => q = r
  BY DEF Alert
<1>7. ASSUME NEW r \in {"proc.burst", "file.events_burst", "persist.change"}
      PROVE  Raised(r) <=> Alert(r, "") \in RuleProcBurst(snap) \cup RuleFileEventBurst(snap)
                                              \cup RulePersistenceChange(snap)
  <2>1. ASSUME NEW a \in alerts', a.rule = r
        PROVE  a \in RuleProcBurst(snap) \cup RuleFileEventBurst(snap) \cup RulePersistenceChange(snap)
               /\ a = Alert(r, "")
    <3>1. a \notin RuleIOCMatch(snap, fields)
      BY <1>2, <1>7, <2>1
    <3>2. a \in RuleProcBurst(snap) \cup RuleFileEventBurst(snap) \cup RulePersistenceChange(snap)
      BY <1>4, <3>1
    <3>3. a = Alert(a.rule, "")
      <4>1. \E q : a = Alert(q, "")
        BY <1>5, <3>2
      <4>2. PICK q : a = Alert(q, "")
        BY <4>1
      <4>3. QED
        BY <1>6, <4>2
    <3>4. QED
      BY <2>1, <3>2, <3>3
  <2>2. QED
    BY <1>4, <1>6, <2>1 DEF Raised
<1>8. /\ Alert("proc.burst", "") # Alert("file.events_burst", "")
      /\ Alert("proc.burst", "") # Alert("persist.change", "")
      /\ Alert("file.events_burst", "") # Alert("persist.change", "")
  BY DEF Alert
<1>9. \A r \in {"proc.burst", "file.events_burst", "persist.change"} :
        Raised(r) <=> \/ Alert(r, "") \in RuleProcBurst(snap)
                      \/ Alert(r, "") \in RuleFileEventBurst(snap)
                      \/ Alert(r, "") \in RulePersistenceChange(snap)
  BY <1>7
<1>10. Raised("proc.burst") <=> name = "PROC" /\ Cardinality(Added(snap)) >= ProcLimit
  BY <1>5, <1>8, <1>9
<1>11. Raised("file.events_burst") <=> name = "FILECHANGE" /\ Cardinality(Events(snap)) >= FileLimit
  BY <1>5, <1>8, <1>9
<1>12. Raised("persist.change") <=> name = "PERSIST" /\ Cardinality(Events(snap)) >= 1
  BY <1>5, <1>8, <1>9
<1>13. QED
  BY <1>10, <1>11, <1>12

\* A change of persistence is alerted and nothing else is (detection_rules.go:138-162), and
\* bursts are alerted by the number of files that changed (118-136) and of processes that
\* are new (73-91) since the last report: a report names exactly what its reader has not seen.
THEOREM ChangesRaiseAlerts == Spec => ChangesAlerted
<1> DEFINE AlertsChanges ==
      Reports /\ name \in Feeds /\ view # None =>
       /\ name = "PERSIST" => (Raised("persist.change") <=> Differs # {})
       /\ name = "FILECHANGE" => (Raised("file.events_burst") <=> Cardinality(Differs) >= FileLimit)
       /\ name = "PROC" => (Raised("proc.burst") <=> Cardinality(Appears) >= ProcLimit)
<1>1. ASSUME FeedInv, [Next]_vars PROVE AlertsChanges
  <2> SUFFICES ASSUME Reports, view # None
               PROVE  /\ name = "PERSIST" => (Raised("persist.change") <=> Differs # {})
                      /\ name = "FILECHANGE" => (Raised("file.events_burst") <=> Cardinality(Differs) >= FileLimit)
                      /\ name = "PROC" => (Raised("proc.burst") <=> Cardinality(Appears) >= ProcLimit)
    OBVIOUS
  <2>1. Report
    <3>1. pos \in Nat
      BY <1>1 DEF FeedInv, StepInv
    <3>2. QED
      BY <1>1, <3>1, ReportsReport
  <2>2. PICK snap : snap = [at |-> now, vals |-> read, percent |-> percent.value, meter |-> readMeter]
    OBVIOUS
  <2>3. snap.vals = read
    BY <2>2
  <2>4. name \in Feeds /\ Differs = Events(snap) /\ Appears = Added(snap) /\ IsFiniteSet(Differs)
    BY <1>1, <2>1, <2>3, EventsShown DEF Events
  <2>5. Cardinality(Differs) >= 1 <=> Differs # {}
    BY <2>4, FS_EmptySet, FS_CardinalityType
  <2>6. QED
    BY <2>1, <2>2, <2>4, <2>5, RaisedBy
<1>2. QED
  BY <1>1, FeedInvariant, PTL DEF Spec, ChangesAlerted

\* The lists of the configuration have each key once.
LEMMA ListsEnumerate == Enumerates(Pids, ToSet(Pids)) /\ Enumerates(WalkOrder, ToSet(WalkOrder))
<1>1. ASSUME NEW s, s \in Seq(ToSet(s)), IsInjective(s) PROVE Enumerates(s, ToSet(s))
  <2>1. DOMAIN s = 1..Len(s)
    OBVIOUS
  <2>2. QED
    BY <1>1, <2>1 DEF Enumerates, ToSet, IsInjective
<1>2. QED
  BY <1>1, SequencesAssumption, OrderAssumption

\* What a report may name as new: the keys that can be alerted.
Named(snap) == IF name = "FILECHANGE" THEN Events(snap) ELSE Added(snap)

\* A report carries the first entries of a list of all that it names.
LEMMA FieldsEnumerate ==
  ASSUME name \in {"PROC", "CONN", "FILECHANGE"}, NEW snap, NEW fields \in Fields(snap),
         IsFiniteSet(Named(snap)),
         Added(snap) \cap Removed(snap) = {}, Added(snap) \cap Modified(snap) = {},
         Removed(snap) \cap Modified(snap) = {}
  PROVE  \E s : Enumerates(s, Named(snap)) /\ fields = FirstOf(FieldLimit, s)
<1>1. Added(snap) \subseteq K /\ Removed(snap) \subseteq K /\ Modified(snap) \subseteq K
  BY DEF Added, Removed, Modified, Changed, Present
<1>2. CASE name = "PROC"
  <2>1. fields = FirstOf(FieldLimit, InOrder(Pids, Added(snap))) /\ Named(snap) = Added(snap)
    BY <1>2 DEF Fields, ProcFields, Named
  <2>2. ToSet(Pids) \cap Added(snap) = Added(snap)
    BY <1>1, <1>2 DEF K, Keys
  <2>3. Enumerates(InOrder(Pids, Added(snap)), Added(snap))
    BY <2>2, ListsEnumerate, InOrderEnumerates
  <2>4. QED
    BY <2>1, <2>3
<1>3. CASE name = "CONN"
  <2>1. PICK s \in SetToSeqs(Added(snap)) : fields = FirstOf(FieldLimit, s)
    BY <1>3 DEF Fields, ConnFields
  <2>2. Named(snap) = Added(snap)
    BY <1>3 DEF Named
  <2>3. Enumerates(s, Named(snap))
    BY <2>2, AnyOrder
  <2>4. QED
    BY <2>1, <2>3
<1>4. CASE name = "FILECHANGE"
  <2> DEFINE added == InOrder(WalkOrder, Added(snap))
             removed == InOrder(WalkOrder, Removed(snap))
             modified == InOrder(WalkOrder, Modified(snap))
  <2>1. fields = FirstOf(FieldLimit, added \o removed \o modified)
    BY <1>4 DEF Fields, FileFields
  <2>2. Named(snap) = (Added(snap) \cup Removed(snap)) \cup Modified(snap)
    BY <1>4 DEF Named, Events
  <2>3. /\ ToSet(WalkOrder) \cap Added(snap) = Added(snap)
        /\ ToSet(WalkOrder) \cap Removed(snap) = Removed(snap)
        /\ ToSet(WalkOrder) \cap Modified(snap) = Modified(snap)
    BY <1>1, <1>4 DEF K, Keys
  <2>4. /\ Enumerates(added, Added(snap)) /\ Enumerates(removed, Removed(snap))
        /\ Enumerates(modified, Modified(snap))
    BY <2>3, ListsEnumerate, InOrderEnumerates
  <2> HIDE DEF added, removed, modified
  <2>5. Enumerates(added \o removed, Added(snap) \cup Removed(snap))
    BY <2>4, Joined
  <2>6. (Added(snap) \cup Removed(snap)) \cap Modified(snap) = {}
    OBVIOUS
  <2>7. Enumerates((added \o removed) \o modified, Named(snap))
    BY <2>2, <2>4, <2>5, <2>6, Joined
  <2>8. QED
    BY <2>1, <2>7
<1>5. QED
  BY <1>2, <1>3, <1>4

\* The larger of zero and a number.
LEMMA MaxZero == \A x \in Int : Max({0, x}) = IF x >= 0 THEN x ELSE 0
<1> SUFFICES ASSUME NEW x \in Int PROVE Max({0, x}) = IF x >= 0 THEN x ELSE 0
  OBVIOUS
<1> DEFINE m == IF x >= 0 THEN x ELSE 0
<1>1. m \in {0, x} /\ \A y \in {0, x} : m >= y
  OBVIOUS
<1>2. \A z \in {0, x} : (\A y \in {0, x} : z >= y) => z = m
  OBVIOUS
<1> HIDE DEF m
<1>3. Max({0, x}) = m
  BY <1>1, <1>2 DEF Max
<1>4. QED
  BY <1>3 DEF m

\* The first n entries of a list of a set leave out the members beyond n.
LEMMA FirstOfEnumerates ==
  ASSUME NEW s, NEW T, Enumerates(s, T), NEW n \in Nat
  PROVE  /\ Enumerates(FirstOf(n, s), ToSet(FirstOf(n, s))) /\ ToSet(FirstOf(n, s)) \subseteq T
         /\ Len(FirstOf(n, s)) = n \/ FirstOf(n, s) = s
         /\ Cardinality(T \ ToSet(FirstOf(n, s))) <= Max({0, Cardinality(T) - n})
<1> DEFINE len == IF Len(s) < n THEN Len(s) ELSE n
           t == FirstOf(n, s)
           U == ToSet(t)
<1>1. /\ s \in Seq(T) /\ Len(s) \in Nat /\ IsFiniteSet(T) /\ Cardinality(T) = Len(s)
      /\ \A i \in 1..Len(s) : s[i] \in T
      /\ \A i, j \in 1..Len(s) : s[i] = s[j] => i = j
  BY EnumeratesFinite DEF Enumerates
<1>2. len \in 0..Len(s) /\ len \in Nat
  BY <1>1
<1>3. /\ t = SubSeq(s, 1, len) /\ t \in Seq(T) /\ Len(t) = len /\ DOMAIN t = 1..len
      /\ \A i \in 1..len : t[i] = s[i] /\ i \in 1..Len(s)
  <2>1. t = SubSeq(s, 1, len)
    BY DEF FirstOf
  <2> HIDE DEF t, len
  <2>2. QED
    BY <1>1, <1>2, <2>1
<1> HIDE DEF t
<1>4. U = {t[i] : i \in 1..len}
  BY <1>3 DEF ToSet
<1>5. Enumerates(t, U) /\ U \subseteq T
  <2> HIDE DEF len
  <2>1. U \subseteq T
    BY <1>1, <1>3, <1>4
  <2>2. \A i \in 1..len : t[i] \in U
    BY <1>4
  <2>3. t \in Seq(U)
    <3> HIDE DEF U
    <3>1. QED
      BY <1>2, <1>3, <2>2
  <2>4. \A x \in U : \E i \in 1..len : t[i] = x
    BY <1>4
  <2>5. \A i, j \in 1..len : t[i] = t[j] => i = j
    BY <1>1, <1>3
  <2> HIDE DEF U
  <2>6. QED
    BY <1>3, <2>1, <2>3, <2>4, <2>5 DEF Enumerates
<1> HIDE DEF U
<1>6. Cardinality(U) = len /\ IsFiniteSet(U)
  BY <1>3, <1>5, EnumeratesFinite
<1>7. Cardinality(T \ U) = Len(s) - len
  <2>1. Cardinality(T \ U) = Cardinality(T) - Cardinality(T \cap U)
    BY <1>1, FS_Difference
  <2>2. T \cap U = U
    BY <1>5
  <2>3. QED
    BY <1>1, <1>6, <2>1, <2>2
<1>8. Len(s) - len <= Max({0, Len(s) - n})
  BY <1>1, MaxZero
<1>9. len = n \/ t = s
  <2>1. CASE Len(s) < n
    <3>1. len = Len(s)
      BY <2>1
    <3>2. QED
      BY <1>1, <1>3, <3>1
  <2>2. CASE ~(Len(s) < n)
    BY <2>2
  <2>3. QED
    BY <2>1, <2>2
<1> HIDE DEF len
<1>10. Cardinality(T \ U) <= Max({0, Cardinality(T) - n})
  BY <1>1, <1>7, <1>8
<1>11. QED
  BY <1>3, <1>5, <1>9, <1>10 DEF t, U

\* Which keys a report alerts by an indicator.
LEMMA AlertedKeys ==
  ASSUME NEW snap, NEW fields, name \in Feeds,
         alerts' = DefaultRules(snap) \cup RuleIOCMatch(snap, fields), NEW k
  PROVE  Alert("ioc.match", k) \in alerts' <=> k \in ToSet(FirstOf(AlertLimit, Matched(snap, fields)))
<1>1. RuleCPUHigh(snap) = {} /\ RuleMemPressure(snap) = {} /\ RuleNetSpike(snap) = {}
  BY DEF RuleCPUHigh, RuleMemPressure, RuleNetSpike, If, Feeds
<1>2. \A a \in DefaultRules(snap) : a.rule # "ioc.match"
  <2>1. \A a \in RuleProcBurst(snap) : a.rule = "proc.burst"
    <3>1. \A a \in RuleProcBurst(snap) : a = Alert("proc.burst", "")
      BY DEF RuleProcBurst, If
    <3>2. Alert("proc.burst", "").rule = "proc.burst"
      BY DEF Alert
    <3>3. QED
      BY <3>1, <3>2
  <2>2. \A a \in RuleFileEventBurst(snap) : a.rule = "file.events_burst"
    <3>1. \A a \in RuleFileEventBurst(snap) : a = Alert("file.events_burst", "")
      BY DEF RuleFileEventBurst, If
    <3>2. Alert("file.events_burst", "").rule = "file.events_burst"
      BY DEF Alert
    <3>3. QED
      BY <3>1, <3>2
  <2>3. \A a \in RulePersistenceChange(snap) : a.rule = "persist.change"
    <3>1. \A a \in RulePersistenceChange(snap) : a = Alert("persist.change", "")
      BY DEF RulePersistenceChange, If
    <3>2. Alert("persist.change", "").rule = "persist.change"
      BY DEF Alert
    <3>3. QED
      BY <3>1, <3>2
  <2>4. DefaultRules(snap) = RuleProcBurst(snap) \cup RuleFileEventBurst(snap) \cup RulePersistenceChange(snap)
    BY <1>1 DEF DefaultRules
  <2>5. QED
    BY <2>1, <2>2, <2>3, <2>4
<1>3. Alert("ioc.match", k).rule = "ioc.match" /\ \A j : Alert("ioc.match", j).about = j
  BY DEF Alert
<1>4. Alert("ioc.match", k) \notin DefaultRules(snap)
  BY <1>2, <1>3
<1>5. \A j : Alert("ioc.match", j) = Alert("ioc.match", k) => j = k
  BY <1>3
<1>6. QED
  BY <1>4, <1>5 DEF RuleIOCMatch

\* Of what a report carries, each key that matches is alerted, if the limit allows.
LEMMA MatchesAlerted ==
  ASSUME NEW snap, NEW T, IsFiniteSet(T), T \subseteq K,
         NEW s, Enumerates(s, T), NEW fields, fields = FirstOf(FieldLimit, s),
         NEW alerted, alerted = ToSet(FirstOf(AlertLimit, Matched(snap, fields))),
         NEW suspects, suspects = {k \in T : Matches(snap, k)}
  PROVE  /\ alerted \subseteq suspects
         /\ \/ Cardinality(suspects \ alerted) <= Max({0, Cardinality(T) - FieldLimit})
            \/ Cardinality(alerted) = AlertLimit
<1> DEFINE carried == ToSet(fields)
           matching == {x \in K : Matches(snap, x)}
           matched == Matched(snap, fields)
<1>1. AlertLimit \in Nat /\ FieldLimit \in Nat
  BY LimitsAssumption
<1>2. /\ Enumerates(fields, carried) /\ carried \subseteq T
      /\ Cardinality(T \ carried) <= Max({0, Cardinality(T) - FieldLimit})
  BY <1>1, FirstOfEnumerates
<1> HIDE DEF carried
<1>3. Enumerates(matched, carried \cap matching)
  BY <1>2, InOrderEnumerates DEF Matched
<1>4. suspects = T \cap matching
  OBVIOUS
<1> HIDE DEF matched, matching
<1>5. /\ alerted = ToSet(FirstOf(AlertLimit, matched)) /\ alerted \subseteq carried \cap matching
      /\ Enumerates(FirstOf(AlertLimit, matched), alerted)
      /\ Len(FirstOf(AlertLimit, matched)) = AlertLimit \/ FirstOf(AlertLimit, matched) = matched
  <2>1. alerted = ToSet(FirstOf(AlertLimit, matched))
    BY DEF matched
  <2>2. /\ Enumerates(FirstOf(AlertLimit, matched), ToSet(FirstOf(AlertLimit, matched)))
        /\ ToSet(FirstOf(AlertLimit, matched)) \subseteq carried \cap matching
        /\ Len(FirstOf(AlertLimit, matched)) = AlertLimit \/ FirstOf(AlertLimit, matched) = matched
    BY <1>1, <1>3, FirstOfEnumerates
  <2>3. QED
    BY <2>1, <2>2
<1>6. alerted \subseteq suspects
  BY <1>2, <1>4, <1>5
<1>7. CASE Len(FirstOf(AlertLimit, matched)) = AlertLimit
  BY <1>5, <1>6, <1>7, EnumeratesFinite
<1>8. CASE FirstOf(AlertLimit, matched) = matched
  <2>1. alerted = carried \cap matching
    BY <1>3, <1>5, <1>8, EnumeratesFinite
  <2>2. suspects \ alerted \subseteq T \ carried
    BY <1>4, <2>1
  <2>3. IsFiniteSet(T \ carried)
    BY FS_Subset, T \ carried \subseteq T
  <2>4. /\ Cardinality(suspects \ alerted) <= Cardinality(T \ carried)
        /\ Cardinality(suspects \ alerted) \in Nat /\ Cardinality(T \ carried) \in Nat
    BY <2>2, <2>3, FS_Subset, FS_CardinalityType
  <2>5. Max({0, Cardinality(T) - FieldLimit}) \in Int
    BY <1>1, FS_CardinalityType, MaxZero
  <2>6. QED
    BY <1>2, <1>6, <2>4, <2>5
<1>9. QED
  BY <1>5, <1>7, <1>8

\* A process, connection or file that matches an indicator and is named by a report
\* (ioc.go:76-138) is alerted, if the report can carry it and its alerts are not used up;
\* nothing else is, and a listed process under a new pid that lasts is always named.
THEOREM SuspectsRaiseAlerts == Spec => SuspectsAlerted
<1> DEFINE AlertsSuspects ==
      Reports /\ view # None =>
       LET suspects == {k \in NamedKeys : Matches(curr'[1], k)}
           alerted == {k \in K : Alert("ioc.match", k) \in alerts'}
       IN /\ alerted \subseteq suspects /\ {k \in K : StaysListed(k)} \subseteq suspects
          /\ \/ Cardinality(suspects \ alerted) <= Max({0, Cardinality(NamedKeys) - FieldLimit})
             \/ Cardinality(alerted) = AlertLimit
<1>1. ASSUME FeedInv, [Next]_vars PROVE AlertsSuspects
  <2> DEFINE suspects == {k \in NamedKeys : Matches(curr'[1], k)}
             alerted == {k \in K : Alert("ioc.match", k) \in alerts'}
  <2> SUFFICES ASSUME Reports, view # None
               PROVE  /\ alerted \subseteq suspects /\ {k \in K : StaysListed(k)} \subseteq suspects
                      /\ \/ Cardinality(suspects \ alerted) <= Max({0, Cardinality(NamedKeys) - FieldLimit})
                         \/ Cardinality(alerted) = AlertLimit
    OBVIOUS
  <2>1. Report /\ pos \in Nat /\ step = "read" /\ pos > Calls
    <3>1. name \in Feeds
      BY <1>1 DEF FeedInv
    <3>2. pos \in Nat
      BY <1>1, <3>1 DEF FeedInv, StepInv
    <3>3. QED
      BY <1>1, <3>2, ReportsReport DEF Reports
  <2>2. PICK snap : snap = [at |-> now, vals |-> read, percent |-> percent.value, meter |-> readMeter]
    OBVIOUS
  <2>3. snap.vals = read /\ curr' = <<snap>> /\ curr'[1] = snap
    BY <2>1, <2>2 DEF Report
  <2>4. /\ name \in Feeds /\ Differs = Events(snap) /\ Appears = Added(snap)
        /\ IsFiniteSet(Differs) /\ IsFiniteSet(Added(snap))
        /\ Added(snap) \cap Removed(snap) = {} /\ Added(snap) \cap Modified(snap) = {}
        /\ Removed(snap) \cap Modified(snap) = {}
    BY <1>1, <2>1, <2>3, EventsShown DEF Events
  <2>5. NamedKeys = Named(snap) /\ IsFiniteSet(Named(snap)) /\ Named(snap) \subseteq K
    BY <2>4 DEF Named, NamedKeys, Differs, Appears
  <2>6. suspects = {k \in Named(snap) : Matches(snap, k)}
    BY <2>3, <2>5
  <2>7. PICK fields \in Fields(snap) : alerts' = DefaultRules(snap) \cup RuleIOCMatch(snap, fields)
    BY <2>1, <2>2 DEF Report
  <2>8. alerted = {k \in K : k \in ToSet(FirstOf(AlertLimit, Matched(snap, fields)))}
    BY <2>4, <2>7, AlertedKeys
  <2>9. {k \in K : StaysListed(k)} \subseteq suspects
    <3> SUFFICES ASSUME NEW k \in K, StaysListed(k) PROVE k \in Named(snap) /\ Matches(snap, k)
      BY <2>6
    <3>1. name = "PROC" /\ view[1][k] = Gone /\ recent[k] = {Listed}
      BY DEF StaysListed
    <3>2. read[k] \in recent[k] \/ Gone \in recent[k]
      BY <1>1, <2>1, <2>4, AllHandled
    <3>3. read[k] = Listed
      BY <3>1, <3>2 DEF Gone, Listed
    <3>4. view' = <<Shown(read)>>
      BY <1>1, <2>1, <2>4, ReportStep
    <3>5. view'[1][k] = Ordinary
      BY <3>1, <3>3, <3>4 DEF Shown, ShownOf, Gone, Listed, ReportsContent
    <3>6. k \in Appears
      BY <3>1, <3>5 DEF Appears, Differs, Gone, Ordinary
    <3>7. QED
      BY <2>3, <2>4, <3>1, <3>3, <3>6 DEF Named, Matches
  <2> HIDE DEF suspects, alerted
  <2>10. CASE name = "PERSIST"
    <3>1. suspects = {}
      BY <2>6, <2>10 DEF Matches
    <3>2. fields = <<>>
      BY <2>7, <2>10 DEF Fields
    <3>3. Enumerates(<<>>, {})
      BY DEF Enumerates
    <3>5. ToSet(FirstOf(AlertLimit, Matched(snap, fields))) = {}
      <4>1. \E none : none = {}
        OBVIOUS
      <4>2. PICK none : none = {}
        BY <4>1
      <4>3. Enumerates(fields, none)
        BY <3>2, <3>3, <4>2
      <4> DEFINE matched == InOrder(fields, {k \in K : Matches(snap, k)})
      <4>4. Enumerates(matched, none)
        <5>1. Enumerates(matched, none \cap {k \in K : Matches(snap, k)})
          BY <4>3, InOrderEnumerates
        <5>2. QED
          BY <4>2, <5>1
      <4> HIDE DEF matched
      <4>5. ToSet(FirstOf(AlertLimit, matched)) \subseteq none
        BY <4>4, LimitsAssumption, FirstOfEnumerates
      <4>6. QED
        BY <4>2, <4>5 DEF matched, Matched
    <3>6. alerted = {}
      BY <2>8, <3>5
    <3>7. Cardinality(suspects \ alerted) = 0
      BY <3>1, FS_EmptySet, {} \ alerted = {}
    <3>8. Max({0, Cardinality(NamedKeys) - FieldLimit}) >= 0
      BY <2>5, LimitsAssumption, FS_CardinalityType, MaxZero
    <3>9. QED
      BY <2>9, <3>6, <3>7, <3>8
  <2>11. CASE name # "PERSIST"
    <3>1. name \in {"PROC", "CONN", "FILECHANGE"}
      BY <2>4, <2>11 DEF Feeds
    <3>2. \E s : Enumerates(s, Named(snap)) /\ fields = FirstOf(FieldLimit, s)
      BY <2>4, <2>5, <3>1, FieldsEnumerate
    <3>3. PICK s : Enumerates(s, Named(snap)) /\ fields = FirstOf(FieldLimit, s)
      BY <3>2
    <3> DEFINE all == ToSet(FirstOf(AlertLimit, Matched(snap, fields)))
    <3>4. /\ all \subseteq suspects
          /\ \/ Cardinality(suspects \ all) <= Max({0, Cardinality(Named(snap)) - FieldLimit})
             \/ Cardinality(all) = AlertLimit
      BY <2>5, <2>6, <3>3, MatchesAlerted
    <3>5. alerted = all
      BY <2>5, <2>6, <2>8, <3>4
    <3> HIDE DEF all
    <3>6. QED
      BY <2>5, <2>9, <3>4, <3>5
  <2>12. QED
    BY <2>10, <2>11
<1>2. QED
  BY <1>1, FeedInvariant, PTL DEF Spec, SuspectsAlerted

-----------------------------------------------------------------------------
(* Types *)

\* The parts of TypeOK, and what the walk has tracked so far.
HostTypes ==
  name \in Enabled /\ host \in [K -> Int] /\ meter \in [K -> Counts] /\ recent \in [K -> SUBSET Int]
Percents == [value: {None} \cup {<<p>> : p \in Levels}, warm: BOOLEAN]
CaptureTypes ==
  /\ step \in {"idle", "list", "read"} /\ pos \in Nat \ {0} /\ scanned \in Nat
  /\ listed \subseteq K
  /\ read \in [K -> Int] /\ readMeter \in [K -> Counts]
  /\ percent \in Percents
ResultTypes ==
  /\ IsOptional(prev, Snapshots) /\ IsOptional(curr, Snapshots) /\ IsOptional(first, Snapshots)
  /\ IsOptional(view, [K -> Int])
  /\ reported \in [K -> Nat] /\ atOnce \in BOOLEAN
BoundTypes == now \in 0..MaxTime /\ changes \in 0..MaxChanges[name] /\ captures \in 0..MaxCaptures

\* Each file that was tracked is one that was counted.
Walked == {k \in K \ FileRoots : read[k] # Gone}
WalkInv ==
  name = "FILECHANGE" =>
    /\ Cardinality(Walked) <= scanned /\ Cardinality(Walked) <= MaxFiles
    /\ curr # None => Cardinality(Present(curr[1]) \ FileRoots) <= MaxFiles

TypeInv == HostTypes /\ CaptureTypes /\ ResultTypes /\ BoundTypes /\ WalkInv

\* They are what TypeOK says.
LEMMA TypeInvCorrect == TypeInv => TypeOK
  BY DEF TypeInv, HostTypes, CaptureTypes, ResultTypes, BoundTypes, WalkInv, Percents, TypeOK

\* What each step does to the host and its history.
LEMMA HostMoves ==
  ASSUME [Next]_vars, HostTypes
  PROVE  /\ \/ host' = host /\ meter' = meter
            \/ name \in Meters
            \/ host' \in [K -> Int] /\ meter' = meter
         /\ \/ recent' = recent
            \/ recent' = [k \in K |-> recent[k] \cup {host'[k]}]
            \/ \E keys : Overlook(keys)
            \/ recent' = [k \in K |-> {host[k]}]
<1>1. CASE Change
  <2>1. recent' = [k \in K |-> recent[k] \cup {host'[k]}]
    BY <1>1 DEF Change
  <2>2. CASE HostChange
    BY <2>1, <2>2 DEF HostChange, Contents, HostTypes, Gone, Ordinary, Listed
  <2>3. CASE CounterChange
    BY <2>1, <2>3 DEF CounterChange
  <2>4. CASE LevelChange
    <3>1. meter' = meter
      BY <2>4 DEF LevelChange
    <3>2. CASE \E v \in Levels : host' = [host EXCEPT !["used"] = v] \/ host' = [host EXCEPT !["ram"] = v]
      BY <2>1, <3>1, <3>2, LevelsAssumption DEF HostTypes
    <3>3. CASE \E total \in {0, 5} : \E used \in 0..total :
                 host' = [host EXCEPT !["swap.total"] = total, !["swap.used"] = used]
      <4>1. PICK total \in {0, 5} : \E used \in 0..total :
                 host' = [host EXCEPT !["swap.total"] = total, !["swap.used"] = used]
        BY <3>3
      <4>2. PICK used \in 0..total :
                 host' = [host EXCEPT !["swap.total"] = total, !["swap.used"] = used]
        BY <4>1
      <4>3. host' = [[host EXCEPT !["swap.total"] = total] EXCEPT !["swap.used"] = used]
        BY <4>2
      <4>4. total \in Int /\ used \in Int /\ host \in [K -> Int]
        BY DEF HostTypes
      <4>5. [host EXCEPT !["swap.total"] = total] \in [K -> Int]
        BY <4>4
      <4>6. host' \in [K -> Int]
        BY <4>3, <4>4, <4>5
      <4>7. QED
        BY <2>1, <3>1, <4>6
    <3>4. QED
      BY <2>4, <3>2, <3>3 DEF LevelChange
  <2>5. QED
    BY <1>1, <2>2, <2>3, <2>4 DEF Change
<1>2. CASE Tick \/ StartCapture \/ List \/ CaptureFails \/ UNCHANGED vars
  BY <1>2 DEF Tick, StartCapture, List, CaptureFails, vars
<1>3. CASE Read
  BY <1>3 DEF Read, DescribeProcess, ReadConnections, VisitFile, ReadSource, ReadInterfaces,
              ReadDisks, ReadCPU, ReadMemory, ReadKeys
<1>4. CASE Report
  BY <1>4 DEF Report
<1>5. QED
  BY <1>1, <1>2, <1>3, <1>4 DEF Next, Terminated

\* What the host has keeps its type.
LEMMA HostTypesStep ==
  ASSUME [Next]_vars, HostTypes, MeterInv'
  PROVE  HostTypes'
<1>1. name' = name /\ K' = K /\ name' \in Enabled
  BY SameName DEF HostTypes
<1>2. host' \in [K -> Int] /\ meter' \in [K -> Counts]
  BY <1>1, HostMoves DEF HostTypes, MeterInv, MeterParts, MeterTypes
<1>3. recent' \in [K -> SUBSET Int]
  <2>1. ASSUME NEW keys, Overlook(keys) PROVE recent' \in [K -> SUBSET Int]
    BY <2>1 DEF Overlook, HostTypes, Gone
  <2>2. QED
    BY <1>2, <2>1, HostMoves DEF HostTypes
<1>4. QED
  BY <1>1, <1>2, <1>3 DEF HostTypes

\* A call reads keys of the host.
LEMMA ReadTypes ==
  ASSUME HostTypes, CaptureTypes, K' = K, NEW keys, ReadKeys(keys),
         scanned' \in Nat, percent' \in Percents
  PROVE  CaptureTypes'
<1>1. Percents' = Percents
  BY DEF Percents, None
<1>2. /\ read' = [k \in K |-> IF k \in keys THEN host[k] ELSE read[k]]
      /\ readMeter' = [k \in K |-> IF k \in keys THEN meter[k] ELSE readMeter[k]]
      /\ pos' = pos + 1 /\ step' = step /\ listed' = listed
  BY DEF ReadKeys
<1>3. read' \in [K -> Int] /\ readMeter' \in [K -> Counts]
  BY <1>2 DEF HostTypes, CaptureTypes
<1>4. QED
  BY <1>1, <1>2, <1>3 DEF CaptureTypes

\* What a capture has read keeps its type.
LEMMA CaptureTypesStep ==
  ASSUME [Next]_vars, HostTypes, CaptureTypes
  PROVE  CaptureTypes'
<1>1. K' = K
  BY SameName
<1>2. Percents' = Percents
  BY DEF Percents, None
<1>3. CASE UNCHANGED capture
  BY <1>1, <1>2, <1>3 DEF capture, CaptureTypes
<1>4. CASE StartCapture
  BY <1>1, <1>2, <1>4 DEF StartCapture, CaptureTypes
<1>5. CASE List
  BY <1>1, <1>2, <1>5 DEF List, CaptureTypes
<1>6. CASE Return
  <2>1. NoCount \in [K -> Counts]
    BY DEF NoCount, Counts
  <2>2. percent' \in Percents
    BY <1>6 DEF Return, CaptureTypes, Percents
  <2>3. QED
    BY <1>1, <1>2, <1>6, <2>1, <2>2 DEF Return, CaptureTypes, Gone
<1>7. CASE DescribeProcess
  <2>1. read' \in [K -> Int]
    <3> DEFINE pid == Pids[pos]
               found == IF pid \notin listed THEN Gone ELSE IF host[pid] = Gone THEN Unnamed ELSE host[pid]
    <3>1. read' = [read EXCEPT ![pid] = found]
      BY <1>7 DEF DescribeProcess
    <3>2. pid \in K => found \in Int
      BY DEF HostTypes, Gone, Unnamed
    <3> HIDE DEF pid, found
    <3>3. QED
      BY <3>1, <3>2 DEF CaptureTypes
  <2>2. QED
    BY <1>1, <1>2, <1>7, <2>1 DEF DescribeProcess, CaptureTypes
<1>8. CASE VisitFile
  <2>1. scanned' \in Nat /\ percent' = percent /\ \E keys : ReadKeys(keys)
    BY <1>8 DEF VisitFile, CaptureTypes
  <2>2. QED
    BY <1>1, <2>1, ReadTypes DEF CaptureTypes
<1>9. CASE ReadConnections \/ ReadSource \/ ReadInterfaces \/ ReadDisks \/ ReadMemory
  <2>1. scanned' = scanned /\ percent' = percent /\ \E keys : ReadKeys(keys)
    BY <1>9 DEF ReadConnections, ReadSource, ReadInterfaces, ReadDisks, ReadMemory
  <2>2. QED
    BY <1>1, <2>1, ReadTypes DEF CaptureTypes
<1>10. CASE ReadCPU
  <2>1. scanned' = scanned /\ \E keys : ReadKeys(keys)
    BY <1>10 DEF ReadCPU
  <2>2. percent' \in Percents
    <3>1. percent \in Percents /\ percent.warm \in BOOLEAN
      BY DEF CaptureTypes, Percents
    <3>2. ASSUME NEW p \in Levels
          PROVE  [value |-> IF percent.warm THEN <<p>> ELSE None, warm |-> TRUE] \in Percents
      BY DEF Percents
    <3>3. percent' = percent
            \/ \E p \in Levels : percent' = [value |-> IF percent.warm THEN <<p>> ELSE None, warm |-> TRUE]
      BY <1>10 DEF ReadCPU
    <3>4. QED
      BY <3>1, <3>2, <3>3
  <2>3. QED
    BY <1>1, <2>1, <2>2, ReadTypes DEF CaptureTypes
<1>11. QED
  BY <1>3, <1>4, <1>5, <1>6, <1>7, <1>8, <1>9, <1>10
     DEF Next, Change, Tick, Read, CaptureFails, Report, Terminated, vars

\* Only a report changes the snapshots.
LEMMA ResultsStay == [Next]_vars => Report \/ UNCHANGED results
  BY DEF Next, Change, Tick, StartCapture, List, Read, DescribeProcess, ReadConnections, VisitFile,
     ReadSource, ReadInterfaces, ReadDisks, ReadCPU, ReadMemory, ReadKeys, CaptureFails, Terminated, vars

\* The snapshots and what was reported keep their types.
LEMMA ResultTypesStep ==
  ASSUME [Next]_vars, HostTypes, CaptureTypes, ResultTypes, BoundTypes
  PROVE  ResultTypes'
<1>1. K' = K /\ Snapshots' = Snapshots
  BY SameName DEF Snapshots, None
<1>2. CASE UNCHANGED results
  BY <1>1, <1>2 DEF results, ResultTypes, IsOptional, None
<1>3. CASE Report
  <2>1. PICK snap : snap = [at |-> now, vals |-> read, percent |-> percent.value, meter |-> readMeter]
    OBVIOUS
  <2>2. /\ prev' = curr /\ curr' = <<snap>>
        /\ first' = IF name \in Rated /\ first = None THEN <<snap>> ELSE first
        /\ view' = IF name \in Feeds THEN Picture(snap) ELSE view
        /\ reported' = IF name \in Rated /\ HasRate(snap) THEN [k \in K |-> reported[k] + Gain(snap, k)] ELSE reported
        /\ atOnce' = (atOnce \/ (curr # None /\ ~HasRate(snap)))
    BY <1>3, <2>1 DEF Report
  <2>3. snap \in Snapshots /\ snap.vals \in [K -> Int]
    BY <2>1 DEF CaptureTypes, BoundTypes, Snapshots, Percents
  <2>4. IsOptional(<<snap>>, Snapshots)
    BY <2>3 DEF IsOptional
  <2>5. IsOptional(prev', Snapshots) /\ IsOptional(curr', Snapshots) /\ IsOptional(first', Snapshots)
    BY <2>2, <2>4 DEF ResultTypes
  <2>6. Shown(snap.vals) \in [K -> Int]
    BY <2>3, ShownInt DEF Shown
  <2>7. Picture(snap) = <<Picture(snap)[1]>> /\ Picture(snap)[1] \in [K -> Int]
    <3>1. CASE view = None
      BY <2>6, <3>1 DEF Picture
    <3>2. CASE view # None
      <4>1. view[1] \in [K -> Int]
        BY <3>2 DEF ResultTypes, IsOptional
      <4>2. QED
        BY <2>6, <3>2, <4>1 DEF Picture
    <3>3. QED
      BY <3>1, <3>2
  <2>8. IsOptional(view', [K -> Int])
    BY <2>2, <2>7 DEF ResultTypes, IsOptional
  <2>9. \A k \in K : Gain(snap, k) \in Nat
    <3>1. curr # None => curr[1].vals \in [K -> Int]
      BY DEF ResultTypes, IsOptional, Snapshots
    <3>2. QED
      BY <2>3, <3>1 DEF Gain
  <2>10. reported' \in [K -> Nat]
    BY <2>2, <2>9 DEF ResultTypes
  <2>11. atOnce' \in BOOLEAN
    BY <2>2 DEF ResultTypes
  <2>12. QED
    BY <1>1, <2>5, <2>8, <2>10, <2>11 DEF ResultTypes, IsOptional, None
<1>4. QED
  BY <1>2, <1>3, ResultsStay

\* The clock and the counts stay within their bounds.
LEMMA BoundTypesStep ==
  ASSUME [Next]_vars, HostTypes, BoundTypes
  PROVE  BoundTypes'
<1> USE BoundsAssumption DEF BoundTypes
<1>0. name' = name /\ MaxChanges[name] \in Nat
  BY SameName, EnabledAssumption DEF HostTypes
<1>1. CASE Read
  BY <1>1 DEF Read, DescribeProcess, ReadConnections, VisitFile, ReadSource, ReadInterfaces,
              ReadDisks, ReadCPU, ReadMemory, ReadKeys
<1>2. CASE UNCHANGED vars
  BY <1>2 DEF vars
<1>3. CASE Change
  BY <1>0, <1>3 DEF Change
<1>4. CASE Tick
  BY <1>4 DEF Tick
<1>5. CASE StartCapture
  BY <1>5 DEF StartCapture
<1>6. CASE List \/ CaptureFails \/ Report
  BY <1>6 DEF List, CaptureFails, Report
<1>7. QED
  BY <1>1, <1>2, <1>3, <1>4, <1>5, <1>6 DEF Next, Terminated

\* The calls of another capturer track no files, and the walk counts what it tracks.
LEMMA WalkStep ==
  ASSUME [Next]_vars, HostTypes, CaptureTypes, WalkInv, step # "read" => Walked = {}
  PROVE  WalkInv' /\ (step' # "read" => Walked' = {})
<1>1. name' = name /\ K' = K
  BY SameName
<1>2. IsFiniteSet(Walked) /\ Cardinality(Walked) \in Nat
  <2>1. IsFiniteSet(K) /\ Walked \subseteq K
    BY EnabledAssumption, FiniteAssumption DEF HostTypes, K, Walked
  <2>2. QED
    BY <2>1, FS_Subset, FS_CardinalityType
<1>3. MaxFiles \in Nat
  BY LimitsAssumption
<1>4. \A snap : Present(snap)' = Present(snap)
  BY <1>1 DEF Present
<1>5. CASE UNCHANGED <<read, scanned, step>> /\ UNCHANGED curr
  BY <1>1, <1>4, <1>5 DEF WalkInv, Walked, Present
<1>6. CASE Change \/ Tick \/ UNCHANGED vars
  BY <1>5, <1>6 DEF Change, Tick, vars, capture, results
<1>7. CASE StartCapture \/ List
  <2>1. UNCHANGED <<read, scanned, curr>> /\ step # "read"
    BY <1>7 DEF StartCapture, List, results
  <2>2. Walked' = {}
    BY <1>1, <2>1 DEF Walked
  <2>3. QED
    BY <1>1, <2>1, <2>2, <1>4, <1>3, FS_EmptySet DEF WalkInv, Present
<1>8. CASE Return
  <2>1. Walked' = {} /\ scanned' = 0
    BY <1>1, <1>8 DEF Walked, Return
  <2>2. Cardinality(Walked') = 0
    BY <2>1, FS_EmptySet
  <2>3. CASE CaptureFails
    <3>1. curr' = curr
      BY <2>3 DEF CaptureFails, results
    <3>2. QED
      BY <1>1, <1>3, <2>1, <2>2, <3>1 DEF WalkInv, Present
  <2>4. CASE Report
    <3>1. curr'[1].vals = read
      BY <2>4 DEF Report
    <3>2. (Present(curr[1]) \ FileRoots)' = Walked
      BY <1>1, <3>1 DEF Present, Walked
    <3>3. QED
      BY <1>1, <1>3, <2>1, <2>2, <3>2 DEF WalkInv
  <2>5. QED
    BY <1>8, <2>3, <2>4, <1>6, <1>7
       DEF Next, Terminated, Read, DescribeProcess, ReadConnections, VisitFile, ReadSource,
           ReadInterfaces, ReadDisks, ReadCPU, ReadMemory, ReadKeys, Return, Change, Tick, StartCapture,
           List, vars, capture
<1>9. CASE VisitFile
  <2>1. /\ name = "FILECHANGE" /\ step' = step /\ step = "read" /\ curr' = curr
        /\ scanned \in Nat
    BY <1>9 DEF VisitFile, ReadKeys, results, CaptureTypes
  <2> DEFINE path == WalkOrder[pos]
             found == path \in listed
             counted(readable) == path \notin FileRoots /\ found /\ readable
             keys(readable) == IF path \in Accepted
                                  /\ (path \in FileRoots \/ (found /\ readable /\ scanned' <= MaxFiles))
                               THEN {path} ELSE {}
  <2>2. PICK readable \in BOOLEAN :
           /\ scanned' = IF counted(readable) THEN scanned + 1 ELSE scanned
           /\ ReadKeys(keys(readable))
    BY <1>9 DEF VisitFile
  <2>3. read' = [k \in K |-> IF k \in keys(readable) THEN host[k] ELSE read[k]]
    BY <2>2 DEF ReadKeys
  <2>4. Walked' \subseteq Walked \cup (keys(readable) \ FileRoots)
    BY <1>1, <2>3 DEF Walked
  <2>5. scanned' \in Nat /\ scanned <= scanned'
    BY <2>1, <2>2
  <2>6. CASE keys(readable) \ FileRoots = {}
    <3>1. Cardinality(Walked') <= Cardinality(Walked) /\ Cardinality(Walked') \in Nat
      BY <1>2, <2>4, <2>6, FS_Subset, FS_CardinalityType
    <3>2. QED
      BY <1>1, <1>2, <1>3, <2>1, <2>5, <3>1 DEF WalkInv, Present
  <2>7. CASE keys(readable) \ FileRoots # {}
    <3>1. path \notin FileRoots /\ found /\ readable /\ scanned' <= MaxFiles
          /\ keys(readable) \ FileRoots = {path}
      BY <2>7
    <3>2. scanned' = scanned + 1
      BY <2>2, <3>1
    <3>3. IsFiniteSet(Walked \cup {path}) /\ Cardinality(Walked \cup {path}) <= Cardinality(Walked) + 1
          /\ Cardinality(Walked \cup {path}) \in Nat
      <4>1. /\ IsFiniteSet(Walked \cup {path})
            /\ Cardinality(Walked \cup {path})
                 = IF path \in Walked THEN Cardinality(Walked) ELSE Cardinality(Walked) + 1
        BY <1>2, FS_AddElement
      <4> HIDE DEF path
      <4>2. QED
        BY <1>2, <4>1
    <3>4. Cardinality(Walked') <= Cardinality(Walked \cup {path}) /\ Cardinality(Walked') \in Nat
      BY <2>4, <3>1, <3>3, FS_Subset, FS_CardinalityType
    <3>5. Cardinality(Walked) <= scanned
      BY <2>1 DEF WalkInv
    <3>6. Cardinality(Walked') <= scanned' /\ Cardinality(Walked') <= MaxFiles
      BY <1>2, <1>3, <2>1, <3>1, <3>2, <3>3, <3>4, <3>5
    <3>7. QED
      BY <1>1, <2>1, <3>6 DEF WalkInv, Present
  <2>8. QED
    BY <2>6, <2>7
<1>10. CASE Read /\ ~VisitFile
  <2>1. name # "FILECHANGE" /\ step' = "read"
    BY <1>10 DEF Read, DescribeProcess, ReadConnections, ReadSource, ReadInterfaces, ReadDisks,
                 ReadCPU, ReadMemory, ReadKeys
  <2>2. QED
    BY <1>1, <2>1 DEF WalkInv
<1>11. QED
  BY <1>6, <1>7, <1>8, <1>9, <1>10 DEF Next, Terminated, CaptureFails, Report

\* Initially nothing was read.
LEMMA TypeInvInit == Init => TypeInv /\ Walked = {}
<1> SUFFICES ASSUME Init PROVE TypeInv /\ Walked = {}
  OBVIOUS
<1>1. host \in [K -> Int]
  <2>1. host \in [K -> IF name \in Feeds THEN {Gone, Ordinary} ELSE {0}]
    BY DEF Init
  <2>2. QED
    BY <2>1 DEF Gone, Ordinary
<1>2. NoCount \in [K -> Counts] /\ Zero \in [K -> Nat]
  BY DEF NoCount, Counts, Zero
<1>3. HostTypes
  <2>1. recent = [k \in K |-> {host[k]}] /\ name \in Enabled /\ meter = NoCount
    BY DEF Init
  <2>2. recent \in [K -> SUBSET Int]
    BY <1>1, <2>1
  <2>3. QED
    BY <1>1, <1>2, <2>1, <2>2 DEF HostTypes
<1>4. CaptureTypes
  BY <1>2 DEF Init, CaptureTypes, Percents, Gone
<1>5. ResultTypes
  BY <1>2 DEF Init, ResultTypes, IsOptional
<1>6. BoundTypes
  <2>1. name \in Names
    BY EnabledAssumption DEF Init
  <2>2. QED
    BY <2>1, BoundsAssumption DEF Init, BoundTypes
<1>7. Walked = {}
  BY DEF Init, Walked
<1>8. WalkInv
  BY <1>7, FS_EmptySet, LimitsAssumption DEF Init, WalkInv
<1>9. QED
  BY <1>3, <1>4, <1>5, <1>6, <1>7, <1>8 DEF TypeInv

\* Every variable has its type and FILECHANGE never holds more files than MaxFiles
\* (file.go:130-146): a walk counts each file before it tracks it.
THEOREM TypeCorrect == Spec => []TypeOK
<1> DEFINE IInv == TypeInv /\ (step # "read" => Walked = {})
<1>1. MeterInv' /\ IInv /\ [Next]_vars => IInv'
  BY HostTypesStep, CaptureTypesStep, ResultTypesStep, BoundTypesStep, WalkStep DEF TypeInv
<1>2. Init => IInv
  BY TypeInvInit
<1>3. IInv => TypeOK
  BY TypeInvCorrect
<1>4. Init => MeterInv
  BY InitMeterInv
<1>5. MeterInv /\ [Next]_vars => MeterInv'
  BY MeterInvStep
<1> HIDE DEF IInv
<1>6. QED
  BY <1>1, <1>2, <1>3, <1>4, <1>5, PTL DEF Spec

-----------------------------------------------------------------------------
(* Alerts about counters and levels *)

\* What the interfaces gained, as it is reported and as it is, are sums of functions.
LEMMA GainTotal ==
  ASSUME NEW snap, IsFiniteSet(Ifaces), \A k \in Ifaces : Gain(snap, k) \in Int
  PROVE  Traffic(snap) = Total([k \in Ifaces |-> Gain(snap, k)], Ifaces)
<1> DEFINE f == [k \in Ifaces |-> Gain(snap, k)]
           IsIter(F) == F = [s \in SUBSET Ifaces |-> IF s = {} THEN 0 ELSE Gain(snap, Pick(s)) + F[s \ {Pick(s)}]]
           H == CHOOSE F : IsIter(F)
<1>1. \A s \in SUBSET Ifaces : s # {} => f[Pick(s)] = Gain(snap, Pick(s))
  BY Picked
<1>2. \A F : Sums(F, f, Ifaces) <=> IsIter(F)
  <2> SUFFICES ASSUME NEW F PROVE Sums(F, f, Ifaces) <=> IsIter(F)
    OBVIOUS
  <2>1. \A s \in SUBSET Ifaces : (IF s = {} THEN 0 ELSE f[Pick(s)] + F[s \ {Pick(s)}])
                                  = (IF s = {} THEN 0 ELSE Gain(snap, Pick(s)) + F[s \ {Pick(s)}])
    BY <1>1
  <2> HIDE DEF f
  <2>2. QED
    BY <2>1 DEF Sums
<1>3. \E F : IsIter(F)
  <2> HIDE DEF IsIter
  <2>1. QED
    BY <1>2, SumsExist
<1>4. Sums(H, f, Ifaces)
  <2> HIDE DEF IsIter
  <2>1. QED
    BY <1>2, <1>3
<1>5. Traffic(snap) = H[Ifaces]
  BY DEF Traffic, MapThenSumSet, MapThenFoldSet, Pick
<1>6. \A k \in Ifaces : f[k] \in Int
  OBVIOUS
<1> HIDE DEF H
<1>7. QED
  BY <1>4, <1>5, <1>6, TotalUnique

\* And so is what they gained in truth.
LEMMA RealTotal ==
  ASSUME IsFiniteSet(Ifaces), \A k \in Ifaces : RealGain(k) \in Int
  PROVE  RealTraffic = Total([k \in Ifaces |-> RealGain(k)], Ifaces)
<1> DEFINE f == [k \in Ifaces |-> RealGain(k)]
           IsIter(F) == F = [s \in SUBSET Ifaces |-> IF s = {} THEN 0 ELSE RealGain(Pick(s)) + F[s \ {Pick(s)}]]
           H == CHOOSE F : IsIter(F)
<1>1. \A s \in SUBSET Ifaces : s # {} => f[Pick(s)] = RealGain(Pick(s))
  BY Picked
<1>2. \A F : Sums(F, f, Ifaces) <=> IsIter(F)
  <2> SUFFICES ASSUME NEW F PROVE Sums(F, f, Ifaces) <=> IsIter(F)
    OBVIOUS
  <2>1. \A s \in SUBSET Ifaces : (IF s = {} THEN 0 ELSE f[Pick(s)] + F[s \ {Pick(s)}])
                                  = (IF s = {} THEN 0 ELSE RealGain(Pick(s)) + F[s \ {Pick(s)}])
    BY <1>1
  <2> HIDE DEF f
  <2>2. QED
    BY <2>1 DEF Sums
<1>3. \E F : IsIter(F)
  <2> HIDE DEF IsIter
  <2>1. QED
    BY <1>2, SumsExist
<1>4. Sums(H, f, Ifaces)
  <2> HIDE DEF IsIter
  <2>1. QED
    BY <1>2, <1>3
<1>5. RealTraffic = H[Ifaces]
  BY DEF RealTraffic, MapThenSumSet, MapThenFoldSet, Pick
<1>6. \A k \in Ifaces : f[k] \in Int
  OBVIOUS
<1> HIDE DEF H
<1>7. QED
  BY <1>4, <1>5, <1>6, TotalUnique

Busy(old, new) == \E p \in ToSet(UsagePct(old, new)) : p >= 90

\* The share of the processor that the last report is judged by.
Usage ==
  IF curr[1].percent # None THEN curr[1].percent
  ELSE IF prev = None THEN None ELSE UsagePct(prev[1], curr[1])

\* The last two snapshots are in order, and the alerts are those of what they show.
PairInv ==
  /\ name \in Meters /\ prev # None =>
       /\ curr # None /\ SnapTypes(prev[1]) /\ SnapTypes(curr[1])
       /\ \A k \in Counters :
            /\ Shows(prev[1].vals[k], prev[1].meter[k]) /\ Shows(curr[1].vals[k], curr[1].meter[k])
            /\ Later(prev[1].vals[k], prev[1].meter[k], curr[1].vals[k], curr[1].meter[k])
  /\ name = "NET" /\ prev # None =>
       (Alerted("net.spike") <=>
          /\ curr[1].at - prev[1].at > 0
          /\ Total([k \in Ifaces |-> GainOf(prev[1], curr[1], k)], Ifaces)
               >= NetLimit * (curr[1].at - prev[1].at))
  /\ name = "CPU" /\ curr # None => (Alerted("cpu.high_usage") <=> \E p \in ToSet(Usage) : p >= 90)
  /\ name = "MEM" /\ curr # None =>
       /\ Alert("mem.pressure", "ram") \in alerts <=> curr[1].vals["ram"] >= 90
       /\ Alert("mem.pressure", "swap") \in alerts <=> SwapPct(curr[1]) >= 60

\* Which of the rules about counters a report alerts.
LEMMA RaisedByCounters ==
  ASSUME Report, name \in Meters,
         NEW snap, snap = [at |-> now, vals |-> read, percent |-> percent.value, meter |-> readMeter]
  PROVE  /\ Alerted("net.spike")' <=>
              /\ name = "NET" /\ HasRate(snap)
              /\ Traffic(snap) >= NetLimit * Interval(snap)
         /\ Alerted("cpu.high_usage")' <=> name = "CPU" /\ \E p \in ToSet(CPUPct(snap)) : p >= 90
<1>1. PICK fields \in Fields(snap) : alerts' = DefaultRules(snap) \cup RuleIOCMatch(snap, fields)
  BY DEF Report
<1>2. \A a \in RuleIOCMatch(snap, fields) : a.rule = "ioc.match"
  BY DEF RuleIOCMatch, Alert
<1>3. /\ RuleMemPressure(snap) = {} /\ RuleProcBurst(snap) = {} /\ RuleFileEventBurst(snap) = {}
      /\ RulePersistenceChange(snap) = {}
  BY DEF RuleMemPressure, RuleProcBurst, RuleFileEventBurst, RulePersistenceChange, If, Meters
<1>4. alerts' = RuleCPUHigh(snap) \cup RuleNetSpike(snap) \cup RuleIOCMatch(snap, fields)
  BY <1>1, <1>3 DEF DefaultRules
<1> DEFINE spike == /\ name = "NET" /\ HasRate(snap)
                    /\ Traffic(snap) >= NetLimit * Interval(snap)
           high == name = "CPU" /\ \E p \in ToSet(CPUPct(snap)) : p >= 90
<1>5. RuleNetSpike(snap) = IF spike THEN {Alert("net.spike", "")} ELSE {}
  BY DEF RuleNetSpike, If
<1>6. RuleCPUHigh(snap) = IF high THEN {Alert("cpu.high_usage", "")} ELSE {}
  BY DEF RuleCPUHigh, If
<1>7. Alert("net.spike", "").rule = "net.spike" /\ Alert("cpu.high_usage", "").rule = "cpu.high_usage"
  BY DEF Alert
<1> HIDE DEF spike, high
<1>8. Alerted("net.spike")' <=> spike
  BY <1>2, <1>4, <1>5, <1>6, <1>7 DEF Alerted
<1>9. Alerted("cpu.high_usage")' <=> high
  BY <1>2, <1>4, <1>5, <1>6, <1>7 DEF Alerted
<1>10. QED
  BY <1>8, <1>9 DEF spike, high

\* And which of those about memory.
LEMMA RaisedByMemory ==
  ASSUME Report, name = "MEM",
         NEW snap, snap = [at |-> now, vals |-> read, percent |-> percent.value, meter |-> readMeter]
  PROVE  /\ Alert("mem.pressure", "ram") \in alerts' <=> snap.vals["ram"] >= 90
         /\ Alert("mem.pressure", "swap") \in alerts' <=> SwapPct(snap) >= 60
<1>1. PICK fields \in Fields(snap) : alerts' = DefaultRules(snap) \cup RuleIOCMatch(snap, fields)
  BY DEF Report
<1>2. \A a \in RuleIOCMatch(snap, fields) : a.rule = "ioc.match"
  BY DEF RuleIOCMatch, Alert
<1>3. /\ RuleCPUHigh(snap) = {} /\ RuleProcBurst(snap) = {} /\ RuleNetSpike(snap) = {}
      /\ RuleFileEventBurst(snap) = {} /\ RulePersistenceChange(snap) = {}
  BY DEF RuleCPUHigh, RuleProcBurst, RuleNetSpike, RuleFileEventBurst, RulePersistenceChange, If
<1>4. alerts' = RuleMemPressure(snap) \cup RuleIOCMatch(snap, fields)
  BY <1>1, <1>3 DEF DefaultRules
<1> DEFINE ram == Alert("mem.pressure", "ram")
           swap == Alert("mem.pressure", "swap")
           full == snap.vals["ram"] >= 90
           swapped == SwapPct(snap) >= 60
<1>5. RuleMemPressure(snap) = (IF full THEN {ram} ELSE {}) \cup (IF swapped THEN {swap} ELSE {})
  BY DEF RuleMemPressure, If
<1>6. ram.rule # "ioc.match" /\ swap.rule # "ioc.match" /\ ram # swap
  BY DEF Alert
<1> HIDE DEF ram, swap, full, swapped
<1>7. (ram \in alerts' <=> full) /\ (swap \in alerts' <=> swapped)
  BY <1>2, <1>4, <1>5, <1>6
<1>8. QED
  BY <1>7 DEF ram, swap, full, swapped

\* A report of memory is judged by what was read.
LEMMA MemoryReport ==
  ASSUME name = "MEM", Report
  PROVE  PairInv'
<1>1. PICK snap : snap = [at |-> now, vals |-> read, percent |-> percent.value, meter |-> readMeter]
  OBVIOUS
<1>2. curr' = <<snap>> /\ name' = name /\ curr'[1] = snap
  BY <1>1 DEF Report
<1>3. /\ Alert("mem.pressure", "ram") \in alerts' <=> snap.vals["ram"] >= 90
      /\ Alert("mem.pressure", "swap") \in alerts' <=> SwapPct(snap) >= 60
  BY <1>1, RaisedByMemory
<1>4. (Alert("mem.pressure", "ram") \in alerts <=> curr[1].vals["ram"] >= 90)'
  BY <1>2, <1>3 DEF Alert
<1>5. (Alert("mem.pressure", "swap") \in alerts <=> SwapPct(curr[1]) >= 60)'
  BY <1>2, <1>3 DEF Alert, SwapPct
<1>6. name' = "MEM" /\ name' \notin Meters
  BY <1>2 DEF Meters
<1>7. QED
  BY <1>4, <1>5, <1>6 DEF PairInv

\* A report takes the last snapshot and what was read since.
LEMMA PairReport ==
  ASSUME MeterParts, name \in Meters, Report
  PROVE  PairInv'
<1> USE DEF MeterParts
<1>1. PICK snap : snap = [at |-> now, vals |-> read, percent |-> percent.value, meter |-> readMeter]
  OBVIOUS
<1>2. /\ prev' = curr /\ curr' = <<snap>> /\ name' = name /\ K' = K /\ Counters' = Counters
      /\ curr' # None /\ curr'[1] = snap /\ snap.vals = read /\ snap.meter = readMeter
      /\ snap.percent = percent.value /\ prev'[1] = curr[1]
  BY <1>1 DEF Report, None, K, Counters
<1>3. HasRead
  BY DEF Report, HasRead, Calls, Meters, MeterTypes
<1>4. SnapTypes(snap) /\ (curr # None => SnapTypes(curr[1]))
  BY <1>2 DEF MeterTypes, SnapTypes, CurrInv
<1>5. curr # None => \A k \in Counters :
        /\ Shows(curr[1].vals[k], curr[1].meter[k]) /\ Shows(snap.vals[k], snap.meter[k])
        /\ Later(curr[1].vals[k], curr[1].meter[k], snap.vals[k], snap.meter[k])
  BY <1>2, <1>3 DEF ReadCounts, CurrInv
<1>6. curr # None => Interval(snap) = snap.at - curr[1].at
                     /\ (HasRate(snap) <=> snap.at - curr[1].at > 0)
  BY DEF Interval, HasRate
<1>7. curr # None => \A k : Gain(snap, k) = GainOf(curr[1], snap, k)
  BY DEF Gain, GainOf
<1>8. ASSUME name = "NET", curr # None
      PROVE  Alerted("net.spike")' <=>
               /\ snap.at - curr[1].at > 0
               /\ Total([k \in Ifaces |-> GainOf(curr[1], snap, k)], Ifaces)
                    >= NetLimit * (snap.at - curr[1].at)
  <2>1. K = Ifaces /\ IsFiniteSet(Ifaces)
    BY <1>8, FiniteAssumption DEF K, Keys, Names
  <2>2. \A k \in Ifaces : Gain(snap, k) \in Int
    BY <1>4, <1>7, <1>8, <2>1 DEF GainOf, SnapTypes
  <2>3. Traffic(snap) = Total([k \in Ifaces |-> Gain(snap, k)], Ifaces)
    BY <2>1, <2>2, GainTotal
  <2>4. [k \in Ifaces |-> Gain(snap, k)] = [k \in Ifaces |-> GainOf(curr[1], snap, k)]
    BY <1>7, <1>8
  <2>5. Alerted("net.spike")' <=>
          HasRate(snap) /\ Total([k \in Ifaces |-> Gain(snap, k)], Ifaces) >= NetLimit * Interval(snap)
    BY <1>1, <1>8, <2>3, RaisedByCounters
  <2>6. QED
    BY <1>6, <1>8, <2>4, <2>5
<1>9. ASSUME name = "CPU"
      PROVE  Alerted("cpu.high_usage")' <=> \E p \in ToSet(CPUPct(snap)) : p >= 90
  BY <1>1, <1>9, RaisedByCounters
<1>10. Usage' = CPUPct(snap)
  BY <1>2 DEF Usage, CPUPct, UsagePct, None
<1>11. (name \in Meters /\ prev # None =>
          /\ curr # None /\ SnapTypes(prev[1]) /\ SnapTypes(curr[1])
          /\ \A k \in Counters :
               /\ Shows(prev[1].vals[k], prev[1].meter[k]) /\ Shows(curr[1].vals[k], curr[1].meter[k])
               /\ Later(prev[1].vals[k], prev[1].meter[k], curr[1].vals[k], curr[1].meter[k]))'
  <2>1. prev' # None => (SnapTypes(prev[1]))' /\ (SnapTypes(curr[1]))'
    BY <1>2, <1>4 DEF SnapTypes, None
  <2>2. prev' # None => (\A k \in Counters :
               /\ Shows(prev[1].vals[k], prev[1].meter[k]) /\ Shows(curr[1].vals[k], curr[1].meter[k])
               /\ Later(prev[1].vals[k], prev[1].meter[k], curr[1].vals[k], curr[1].meter[k]))'
    BY <1>2, <1>5 DEF None
  <2>3. QED
    BY <1>2, <2>1, <2>2
<1>12. (name = "NET" /\ prev # None =>
          (Alerted("net.spike") <=>
             /\ curr[1].at - prev[1].at > 0
             /\ Total([k \in Ifaces |-> GainOf(prev[1], curr[1], k)], Ifaces)
                  >= NetLimit * (curr[1].at - prev[1].at)))'
  BY <1>2, <1>8 DEF None
<1>13. (name = "CPU" /\ curr # None => (Alerted("cpu.high_usage") <=> \E p \in ToSet(Usage) : p >= 90))'
  BY <1>2, <1>9, <1>10 DEF ToSet
<1>14. name' # "MEM"
  BY <1>2 DEF Meters
<1>15. QED
  BY <1>11, <1>12, <1>13, <1>14 DEF PairInv

\* Other steps leave the snapshots and the alerts.
LEMMA PairStep == PairInv /\ MeterInv /\ [Next]_vars => PairInv'
<1> SUFFICES ASSUME PairInv, MeterInv, [Next]_vars PROVE PairInv'
  OBVIOUS
<1>1. name' = name /\ K' = K /\ Counters' = Counters
  BY SameName DEF Counters
<1>2. CASE UNCHANGED results
  BY <1>1, <1>2 DEF results, PairInv, SnapTypes, Alerted, Usage, UsagePct, SwapPct, None, Alert
<1>3. CASE Report /\ name \in Meters
  BY <1>3, PairReport DEF MeterInv
<1>4. CASE Report /\ name = "MEM"
  BY <1>4, MemoryReport
<1>5. CASE name \notin Meters /\ name # "MEM"
  BY <1>1, <1>5 DEF PairInv, Meters
<1>6. QED
  BY <1>2, <1>3, <1>4, <1>5, ResultsStay

\* What the last report says of a counter is what it gained, or less if it fell.
LEMMA GainsAreReal ==
  ASSUME PairInv, name \in Meters, prev # None, NEW k \in Counters
  PROVE  /\ GainOf(prev[1], curr[1], k) \in Nat /\ RealGain(k) \in Nat
         /\ GainOf(prev[1], curr[1], k) <= RealGain(k)
         /\ Undisturbed(prev[1], curr[1], k) =>
              /\ GainOf(prev[1], curr[1], k) = RealGain(k)
              /\ curr[1].vals[k] - prev[1].vals[k] = RealGain(k)
<1>1. /\ prev[1].vals[k] \in Int /\ prev[1].meter[k] \in Counts
      /\ curr[1].vals[k] \in Int /\ curr[1].meter[k] \in Counts
  BY DEF PairInv, SnapTypes, Counters
<1>2. /\ Shows(prev[1].vals[k], prev[1].meter[k]) /\ Shows(curr[1].vals[k], curr[1].meter[k])
      /\ Later(prev[1].vals[k], prev[1].meter[k], curr[1].vals[k], curr[1].meter[k])
  BY DEF PairInv
<1>3. QED
  BY <1>1, <1>2, GainOfFacts DEF RealGain

\* net.spike: the sums of what the reports say and of what was counted compare likewise.
LEMMA SpikesTrue ==
  ASSUME PairInv, TypeOK, name = "NET", prev # None
  PROVE  SpikesTruthful
<1> DEFINE sec == curr[1].at - prev[1].at
           steady == Steady
           gains == [k \in Ifaces |-> GainOf(prev[1], curr[1], k)]
           reals == [k \in Ifaces |-> RealGain(k)]
<1>1. K = Ifaces /\ IsFiniteSet(Ifaces) /\ name \in Meters
  BY FiniteAssumption DEF K, Keys, Names, Meters
<1>2. Counters = Ifaces
  BY <1>1, UsedAssumption DEF Counters
<1>3. \A k \in Ifaces : RealGain(k) \in Int
  BY <1>1, <1>2, GainsAreReal
<1>4. RealTraffic = Total(reals, Ifaces)
  BY <1>1, <1>3, RealTotal
<1>5. \A k \in Ifaces : gains[k] \in Int /\ reals[k] \in Int /\ gains[k] <= reals[k]
  BY <1>1, <1>2, GainsAreReal
<1>6. steady => \A k \in Ifaces : reals[k] <= gains[k]
  BY <1>1, <1>2, GainsAreReal DEF Steady
<1>7. NetLimit * sec \in Int
  <2>1. prev[1].at \in Int /\ curr[1].at \in Int
    <3>1. curr # None
      BY <1>1 DEF PairInv
    <3>2. prev[1] \in Snapshots /\ curr[1] \in Snapshots
      BY <3>1 DEF TypeOK, IsOptional
    <3>3. QED
      BY <3>2, BoundsAssumption DEF Snapshots
  <2>2. NetLimit \in Int
    BY LimitsAssumption
  <2>3. sec \in Int
    BY <2>1
  <2> HIDE DEF sec
  <2>4. QED
    BY <2>2, <2>3
<1>8. Alerted("net.spike") <=> sec > 0 /\ Total(gains, Ifaces) >= NetLimit * sec
  BY <1>1 DEF PairInv
<1> HIDE DEF sec, steady, gains, reals
<1>9. Total(gains, Ifaces) \in Int /\ Total(reals, Ifaces) \in Int
      /\ Total(gains, Ifaces) <= Total(reals, Ifaces)
  BY <1>1, <1>5, TotalCompare
<1>10. steady => Total(reals, Ifaces) <= Total(gains, Ifaces)
  BY <1>1, <1>5, <1>6, TotalCompare
<1>11. /\ Alerted("net.spike") => sec > 0 /\ RealTraffic >= NetLimit * sec
       /\ steady /\ sec > 0 /\ RealTraffic >= NetLimit * sec => Alerted("net.spike")
  BY <1>4, <1>7, <1>8, <1>9, <1>10
<1>12. QED
  BY <1>11 DEF SpikesTruthful, sec, steady

\* The times of a processor that did not fall: nine tenths of what was gained were busy.
LEMMA BusyTrue ==
  ASSUME PairInv, name = "CPU", prev # None, Steady
  PROVE  Busy(prev[1], curr[1]) <=>
           RealGain("busy") + RealGain("idle") > 0 /\ RealGain("busy") >= 9 * RealGain("idle")
<1> DEFINE b == RealGain("busy")
           i == RealGain("idle")
<1>1. name \in Meters /\ "busy" \in Counters /\ "idle" \in Counters /\ K = {"busy", "idle"}
  BY DEF Counters, K, Keys, Meters
<1>2. /\ b \in Nat /\ i \in Nat
      /\ curr[1].vals["busy"] - prev[1].vals["busy"] = b
      /\ curr[1].vals["idle"] - prev[1].vals["idle"] = i
  BY <1>1, GainsAreReal DEF Steady
<1> HIDE DEF b, i
<1>4. UsagePct(prev[1], curr[1]) = IF b + i <= 0 \/ i < 0 THEN None
                                   ELSE <<IF b < 0 THEN 0 ELSE (100 * b) \div (b + i)>>
  BY <1>2 DEF UsagePct
<1>5. CASE b + i = 0
  <2>1. UsagePct(prev[1], curr[1]) = <<>>
    BY <1>2, <1>4, <1>5 DEF None
  <2>2. ~Busy(prev[1], curr[1])
    BY <2>1 DEF Busy, ToSet
  <2>3. QED
    BY <1>2, <1>5, <2>2 DEF b, i
<1>6. CASE b + i > 0
  <2>1. UsagePct(prev[1], curr[1]) = <<(100 * b) \div (b + i)>>
    BY <1>2, <1>4, <1>6
  <2>2. Busy(prev[1], curr[1]) <=> (100 * b) \div (b + i) >= 90
    BY <2>1 DEF Busy, ToSet
  <2>3. (100 * b) \div (b + i) >= 90 <=> 100 * b >= 90 * (b + i)
    BY <1>2, <1>6, DivAtLeast
  <2>4. 100 * b >= 90 * (b + i) <=> b >= 9 * i
    BY <1>2
  <2>5. QED
    BY <1>6, <2>2, <2>3, <2>4 DEF b, i
<1>7. QED
  BY <1>2, <1>5, <1>6

\* cpu.high_usage: by the answer of the call, or else by the times.
LEMMA HighUsageTrue ==
  ASSUME PairInv, TypeOK, name = "CPU", curr # None
  PROVE  BusyTruthful
<1>1. Alerted("cpu.high_usage") <=> \E p \in ToSet(Usage) : p >= 90
  BY DEF PairInv
<1>2. CASE curr[1].percent # None
  <2>1. curr[1] \in Snapshots
    BY DEF TypeOK, IsOptional
  <2>2. PICK p \in Levels : curr[1].percent = <<p>>
    BY <1>2, <2>1 DEF Snapshots
  <2>3. Usage = <<p>> /\ curr[1].percent[1] = p
    BY <1>2, <2>2 DEF Usage
  <2>4. ToSet(Usage) = {p}
    BY <2>3 DEF ToSet
  <2>5. QED
    BY <1>1, <1>2, <2>3, <2>4 DEF BusyTruthful
<1>3. CASE curr[1].percent = None /\ prev = None
  <2>1. Usage = <<>>
    BY <1>3 DEF Usage, None
  <2>2. ToSet(Usage) = {}
    BY <2>1 DEF ToSet
  <2>3. QED
    BY <1>1, <1>3, <2>2 DEF BusyTruthful
<1>4. CASE curr[1].percent = None /\ prev # None
  <2>1. Usage = UsagePct(prev[1], curr[1])
    BY <1>4 DEF Usage
  <2>2. Alerted("cpu.high_usage") <=> Busy(prev[1], curr[1])
    BY <1>1, <2>1 DEF Busy
  <2>3. QED
    BY <1>4, <2>2, BusyTrue DEF BusyTruthful
<1>5. QED
  BY <1>2, <1>3, <1>4

\* mem.pressure: the share of swap is rounded down, which its threshold does not show.
LEMMA PressureTrue ==
  ASSUME PairInv, TypeOK, name = "MEM", curr # None
  PROVE  PressureTruthful
<1> DEFINE total == curr[1].vals["swap.total"]
           used == curr[1].vals["swap.used"]
<1>1. total \in Int /\ used \in Int
  <2>1. curr[1].vals \in [K -> Int] /\ K = {"ram", "swap.total", "swap.used"}
    BY DEF TypeOK, IsOptional, Snapshots, K, Keys
  <2>2. QED
    BY <2>1
<1>2. /\ Alert("mem.pressure", "ram") \in alerts <=> curr[1].vals["ram"] >= 90
      /\ Alert("mem.pressure", "swap") \in alerts <=> SwapPct(curr[1]) >= 60
  BY DEF PairInv
<1>3. SwapPct(curr[1]) = IF total > 0 THEN (100 * used) \div total ELSE 0
  BY DEF SwapPct
<1> HIDE DEF total, used
<1>4. SwapPct(curr[1]) >= 60 <=> total > 0 /\ 5 * used >= 3 * total
  <2>1. CASE total > 0
    <3>1. (100 * used) \div total >= 60 <=> 100 * used >= 60 * total
      BY <1>1, <2>1, DivAtLeast
    <3>2. 100 * used >= 60 * total <=> 5 * used >= 3 * total
      BY <1>1
    <3>3. QED
      BY <1>3, <2>1, <3>1, <3>2
  <2>2. CASE ~(total > 0)
    BY <1>3, <2>2
  <2>3. QED
    BY <2>1, <2>2
<1>5. QED
  BY <1>2, <1>4 DEF PressureTruthful, total, used

\* net.spike is raised only by traffic that was counted and by all of it if no counter fell
\* (detection_rules.go:93-116); cpu.high_usage exactly from an answer of 90 on, and without
\* one exactly if nine tenths of the time that the processor counted were busy, unless it
\* started again in between (21-39); mem.pressure exactly by the shares (41-71).
THEOREM AlertsAreTrue == Spec => []AlertsTruthful
<1>1. Init => PairInv
  BY DEF Init, PairInv
<1>2. PairInv /\ TypeOK => AlertsTruthful
  BY SpikesTrue, HighUsageTrue, PressureTrue DEF AlertsTruthful
<1>3. PairInv /\ MeterInv /\ [Next]_vars => PairInv'
  BY PairStep
<1>4. Spec => []MeterInv
  BY InitMeterInv, MeterInvStep, PTL DEF Spec
<1>5. QED
  BY <1>1, <1>2, <1>3, <1>4, TypeCorrect, PTL DEF Spec

=============================================================================
