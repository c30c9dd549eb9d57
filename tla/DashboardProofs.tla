--------------------------- MODULE DashboardProofs ---------------------------
(***************************************************************************)
(* Theorems about Dashboard for any list of capturers, any browsers and    *)
(* any limit of the alert history, proved with TLAPS: types, the snapshot  *)
(* that pages are served from is what is stored, no refresh is lost in a   *)
(* full channel; and, when no two capturers share a type name, changed     *)
(* flags are exact and start-up shows every capturer.                      *)
(***************************************************************************)
EXTENDS Dashboard, SequenceTheorems, TLAPS

Places == {"idle", "compare", "store", "broadcast", "kickoff"}
Visits == {"away", "loaded", "subscribed", "leaving", "closed"}
Catches == [payload : Payloads \cup {NoPayload}, alerts : {0, 1}, changed : BOOLEAN]
ItemsOf(n) == {it \in [by : Ids, seq : Nat, changed : BOOLEAN] : Name[it.by] = n} \cup {NoItem}

CaptureTypes ==
  /\ initial \in 1..(Len(Capturers) + 1)
  /\ pc \in [Ids -> Places]
  /\ captures \in [Ids -> 0..MaxCaptures]
  /\ fresh \in [Ids -> Catches]
  /\ \A c \in Ids : pc[c] # "idle" => captures[c] > 0

StoreTypes ==
  /\ lastPayload \in [Names -> Payloads \cup {NoPayload}]
  /\ DOMAIN items = Names /\ \A n \in Names : items[n] \in ItemsOf(n)
  /\ globalAlerts \in Seq(AlertIds) /\ Len(globalAlerts) <= MaxAlertHistory
  /\ defaults \in BOOLEAN /\ corrVersion \in Nat

JobTypes == job \in [Ids -> Jobs \cup {NoJob}] /\ correlating \cup announcing \subseteq Jobs

BrowserTypes ==
  /\ channel \in [Browsers -> {<<>>, <<"refresh">>}]
  /\ visit \in [Browsers -> Visits]
  /\ {arrived, fetching, served, since} \subseteq [Browsers -> Nat]

\* A browser is in d.clients as long as its handler runs; what closed it emptied.
ClientInv ==
  /\ clients = {b \in Browsers : visit[b] = "subscribed"}
  /\ \A b \in Browsers : visit[b] = "closed" => channel[b] = <<>>

\* Apart from its number the snapshot is made of what is stored.
SnapshotInv ==
  snapshot \in [rev : Nat, items : {items}, alerts : {globalAlerts}, correlated : BOOLEAN]

\* The newest job was started with the alerts that are stored.
Newer(j) == j.version = corrVersion => j.alerts = globalAlerts
JobInv ==
  /\ \A j \in correlating : Newer(j)
  /\ \A c \in Ids : job[c] # NoJob => Newer(job[c])

Types == CaptureTypes /\ StoreTypes /\ JobTypes /\ BrowserTypes
IInv == Types /\ ClientInv /\ SnapshotInv /\ JobInv

-----------------------------------------------------------------------------
(* Initial states *)

\* Initially every variable has its type and nothing is stored.
LEMMA InitFacts == Init => IInv /\ NoLostRefresh
<1> SUFFICES ASSUME Init PROVE IInv /\ NoLostRefresh
  OBVIOUS
<1>1. CaptureTypes
  <2>1. Len(Capturers) \in Nat
    BY CapturersAssumption
  <2>2. QED
    BY <2>1, BoundsAssumption DEF Init, CaptureTypes, Places, Catches
<1>2. StoreTypes
  <2>1. globalAlerts \in Seq(AlertIds) /\ Len(globalAlerts) <= MaxAlertHistory
    BY BoundsAssumption DEF Init
  <2>2. DOMAIN items = Names /\ \A n \in Names : items[n] \in ItemsOf(n)
    BY DEF Init, ItemsOf
  <2>3. QED
    BY <2>1, <2>2 DEF Init, StoreTypes
<1>3. JobTypes
  BY DEF Init, JobTypes
<1>4. BrowserTypes
  BY DEF Init, BrowserTypes, Visits
<1>5. ClientInv /\ NoLostRefresh
  BY DEF Init, ClientInv, NoLostRefresh
<1>6. SnapshotInv /\ JobInv
  BY DEF Init, SnapshotInv, JobInv
<1>7. QED
  BY <1>1, <1>2, <1>3, <1>4, <1>5, <1>6 DEF IInv, Types

-----------------------------------------------------------------------------
(* What the groups of actions leave alone *)

BrowserStep ==
  \E b \in Browsers : Visit(b) \/ Subscribe(b) \/ Stream(b) \/ Unsubscribe(b) \/ CloseChannel(b)

\* A browser and its handler only change what is the browser's.
LEMMA BrowserFrame ==
  ASSUME BrowserStep
  PROVE  UNCHANGED <<captureVars, storeVars, snapshot, correlating, announcing>>
BY DEF BrowserStep, Visit, Subscribe, Stream, Deliver, Refresh, ServePage, Unsubscribe, CloseChannel

\* A correlation changes neither what is stored nor what a capture has in hand.
LEMMA CorrelationFrame ==
  ASSUME Correlation
  PROVE  UNCHANGED <<captureVars, storeVars>>
BY DEF Correlation, Resolve, Announce, DropCorrelation, InstallCorrelation, AnnounceCorrelation

\* A step is one of a capturer, of a correlation or of a browser, or changes nothing.
LEMMA StepCases ==
  [Next]_vars => \/ \E c \in Ids : CaptureSingle(c)
                 \/ Correlation
                 \/ BrowserStep
                 \/ UNCHANGED vars
BY DEF Next, BrowserStep, Terminated

-----------------------------------------------------------------------------
(* Types *)

\* The history keeps its limit and holds alerts only.
LEMMA NewestTypes ==
  ASSUME NEW alerts \in Seq(AlertIds)
  PROVE  Newest(alerts) \in Seq(AlertIds) /\ Len(Newest(alerts)) <= MaxAlertHistory
<1> DEFINE m == Len(alerts) - MaxAlertHistory + 1
<1>1. CASE Len(alerts) > MaxAlertHistory
  <2>1. m \in 1..(Len(alerts) + 1) /\ m \in Int /\ Len(alerts) \in Nat /\ MaxAlertHistory \in Nat
    BY <1>1, BoundsAssumption
  <2>2. SubSeq(alerts, m, Len(alerts)) \in Seq(AlertIds)
    BY <2>1, SubSeqProperties
  <2>3. Len(SubSeq(alerts, m, Len(alerts))) = MaxAlertHistory
    BY <2>1, SubSeqProperties
  <2>4. QED
    BY <1>1, <2>1, <2>2, <2>3 DEF Newest
<1>2. CASE ~(Len(alerts) > MaxAlertHistory)
  BY <1>2, BoundsAssumption DEF Newest
<1>3. QED
  BY <1>1, <1>2

\* A capture's steps keep what it has in hand typed.
LEMMA CaptureTypesStep == CaptureTypes /\ [Next]_vars => CaptureTypes'
<1> SUFFICES ASSUME CaptureTypes, [Next]_vars PROVE CaptureTypes'
  OBVIOUS
<1> USE DEF CaptureTypes, Goto, Places
<1>0. Len(Capturers) \in Nat
  BY CapturersAssumption
<1>1. ASSUME NEW c \in Ids, CaptureSingle(c) PROVE CaptureTypes'
  <2>1. CASE Capture(c)
    <3>1. PICK p \in Payloads, n \in {0, 1} :
            fresh' = [fresh EXCEPT ![c] = [payload |-> p, alerts |-> n, changed |-> FALSE]]
      BY <2>1 DEF Capture
    <3>2. fresh' \in [Ids -> Catches]
      BY <3>1 DEF Catches
    <3>3. captures' \in [Ids -> 0..MaxCaptures]
      BY <2>1, BoundsAssumption DEF Capture
    <3>4. \A d \in Ids : pc'[d] # "idle" => captures'[d] > 0
      BY <2>1, BoundsAssumption DEF Capture
    <3>5. QED
      BY <2>1, <3>2, <3>3, <3>4 DEF Capture
  <2>2. CASE Compare(c)
    <3>1. Changed(c) \in BOOLEAN
      BY DEF Changed
    <3>2. fresh' \in [Ids -> Catches]
      <4>1. fresh'[c] = [payload |-> fresh[c].payload, alerts |-> fresh[c].alerts, changed |-> Changed(c)]
        BY <2>2 DEF Compare, Catches
      <4>2. QED
        BY <2>2, <3>1, <4>1 DEF Compare, Catches
    <3>3. QED
      BY <2>2, <3>2 DEF Compare
  <2>3. CASE Store(c)
    BY <2>3 DEF Store
  <2>4. CASE Broadcast(c)
    BY <2>4 DEF Broadcast
  <2>5. CASE KickoffCorrelation(c)
    <3>1. initial' \in 1..(Len(Capturers) + 1)
      BY <1>0, <2>5 DEF KickoffCorrelation, Serving
    <3>2. QED
      BY <2>5, <3>1 DEF KickoffCorrelation
  <2>6. QED
    BY <1>1, <2>1, <2>2, <2>3, <2>4, <2>5 DEF CaptureSingle
<1>2. CASE UNCHANGED <<captureVars>>
  BY <1>2 DEF captureVars
<1>3. QED
  BY <1>1, <1>2, StepCases, CorrelationFrame, BrowserFrame DEF vars

\* The locked part of a capture stores what is well formed.
LEMMA StoreTypesStep == CaptureTypes /\ StoreTypes /\ [Next]_vars => StoreTypes'
<1> SUFFICES ASSUME CaptureTypes, StoreTypes, [Next]_vars PROVE StoreTypes'
  OBVIOUS
<1>1. ASSUME NEW c \in Ids, Store(c) PROVE StoreTypes'
  <2> DEFINE kept == [by |-> c, seq |-> captures[c], changed |-> fresh[c].changed]
  <2>0. Name[c] \in Names
    BY DEF Names
  <2>1. Name[c] \in Names /\ captures[c] \in 1..MaxCaptures /\ fresh[c] \in Catches
    <3>1. pc[c] = "store"
      BY <1>1 DEF Store
    <3>2. captures[c] \in 0..MaxCaptures /\ captures[c] > 0 /\ fresh[c] \in Catches
      BY <3>1 DEF CaptureTypes
    <3>3. QED
      BY <2>0, <3>2, BoundsAssumption
  <2>2. kept \in ItemsOf(Name[c])
    BY <2>1 DEF ItemsOf, Catches
  <2>3. items' = [items EXCEPT ![Name[c]] = kept]
    BY <1>1 DEF Store
  <2>4. DOMAIN items' = Names /\ \A n \in Names : items'[n] \in ItemsOf(n)
    BY <2>1, <2>2, <2>3 DEF StoreTypes
  <2>5. lastPayload' \in [Names -> Payloads \cup {NoPayload}]
    BY <1>1, <2>1 DEF Store, StoreTypes, Catches
  <2>6. Append(globalAlerts, <<c, captures[c]>>) \in Seq(AlertIds)
    BY <2>1 DEF StoreTypes, AlertIds
  <2>7. globalAlerts' \in Seq(AlertIds) /\ Len(globalAlerts') <= MaxAlertHistory
    BY <1>1, <2>6, NewestTypes DEF Store, StoreTypes
  <2>8. defaults' \in BOOLEAN /\ corrVersion' \in Nat
    BY <1>1 DEF Store, StoreTypes
  <2>9. QED
    BY <2>4, <2>5, <2>7, <2>8 DEF StoreTypes, AlertIds, ItemsOf
<1>2. CASE UNCHANGED storeVars
  BY <1>2 DEF storeVars, StoreTypes
<1>3. ASSUME NEW c \in Ids, CaptureSingle(c), ~Store(c) PROVE UNCHANGED storeVars
  BY <1>3 DEF CaptureSingle, Capture, Compare, Broadcast, KickoffCorrelation
<1>4. QED
  BY <1>1, <1>2, <1>3, StepCases, CorrelationFrame, BrowserFrame DEF vars

\* Jobs carry the version and the alerts they were started with; versions only grow.
LEMMA JobTypesStep == CaptureTypes /\ StoreTypes /\ JobTypes /\ [Next]_vars => JobTypes'
<1> SUFFICES ASSUME CaptureTypes, StoreTypes, JobTypes, [Next]_vars PROVE JobTypes'
  OBVIOUS
<1> AlertIds' = AlertIds /\ NoJob' = NoJob
  BY DEF AlertIds, NoJob
<1>1. ASSUME NEW c \in Ids, Store(c) PROVE JobTypes'
  <2>1. StoreTypes' /\ corrVersion' = corrVersion + 1
    BY <1>1, StoreTypesStep DEF Next, CaptureSingle, Store
  <2>2. Jobs \subseteq Jobs'
    BY <2>1 DEF Jobs, StoreTypes
  <2>3. [version |-> corrVersion', alerts |-> globalAlerts'] \in Jobs'
    BY <2>1 DEF Jobs, StoreTypes
  <2>4. job' \in [Ids -> Jobs' \cup {NoJob}]
    BY <1>1, <2>2, <2>3 DEF Store, JobTypes
  <2>5. QED
    BY <1>1, <2>2, <2>4 DEF Store, JobTypes
<1>2. ASSUME NEW c \in Ids, KickoffCorrelation(c) PROVE JobTypes'
  <2>1. Jobs' = Jobs
    BY <1>2 DEF KickoffCorrelation, storeVars, Jobs
  <2>2. job[c].alerts # <<>> => job[c] \in Jobs
    BY DEF JobTypes, NoJob
  <2>3. QED
    BY <1>2, <2>1, <2>2 DEF KickoffCorrelation, JobTypes
<1>3. ASSUME NEW c \in Ids, Capture(c) \/ Compare(c) \/ Broadcast(c) PROVE JobTypes'
  BY <1>3 DEF Capture, Compare, Broadcast, JobTypes, storeVars, Jobs
<1>4. ASSUME Correlation PROVE JobTypes'
  <2>1. Jobs' = Jobs /\ job' = job
    BY <1>4, CorrelationFrame DEF storeVars, captureVars, Jobs
  <2>2. QED
    BY <1>4, <2>1 DEF Correlation, Resolve, Announce, DropCorrelation, InstallCorrelation, AnnounceCorrelation, JobTypes
<1>5. ASSUME UNCHANGED <<captureVars, storeVars, snapshot, correlating, announcing>> PROVE JobTypes'
  BY <1>5 DEF captureVars, storeVars, JobTypes, Jobs
<1>6. QED
  BY <1>1, <1>2, <1>3, <1>4, <1>5, StepCases, BrowserFrame DEF CaptureSingle, vars

\* A broadcast leaves at most one message in a channel, and one in every client's.
LEMMA BroadcastFills ==
  ASSUME BrowserTypes, BroadcastAll
  PROVE  /\ channel' \in [Browsers -> {<<>>, <<"refresh">>}]
         /\ \A b \in Browsers : channel'[b] = IF b \in clients THEN <<"refresh">> ELSE channel[b]
BY DEF BrowserTypes, BroadcastAll

\* The steps that concern browsers keep their state typed, and the clients those subscribed.
LEMMA BrowserStepInv ==
  BrowserTypes /\ ClientInv /\ SnapshotInv /\ [Next]_vars => BrowserTypes' /\ ClientInv'
<1> SUFFICES ASSUME BrowserTypes, ClientInv, SnapshotInv, [Next]_vars
             PROVE  BrowserTypes' /\ ClientInv'
  OBVIOUS
<1>1. CASE UNCHANGED browserVars
  BY <1>1 DEF browserVars, BrowserTypes, ClientInv
<1>2. CASE BroadcastAll /\ UNCHANGED <<clients, visit, arrived, fetching, served, since>>
  <2>1. BrowserTypes'
    BY <1>2, BroadcastFills DEF BrowserTypes
  <2>2. ClientInv'
    BY <1>2, BroadcastFills DEF ClientInv
  <2>3. QED
    BY <2>1, <2>2
<1>3. ASSUME NEW b \in Browsers,
             Visit(b) \/ Subscribe(b) \/ Stream(b) \/ Unsubscribe(b) \/ CloseChannel(b)
      PROVE  BrowserTypes' /\ ClientInv'
  <2> USE DEF BrowserTypes, ClientInv, Visits
  <2>1. CASE Visit(b)
    BY <2>1 DEF Visit, SnapshotInv
  <2>2. CASE Subscribe(b)
    BY <2>2 DEF Subscribe, SnapshotInv
  <2>3. CASE Deliver(b)
    BY <2>3 DEF Deliver
  <2>4. CASE Refresh(b)
    BY <2>4 DEF Refresh
  <2>5. CASE ServePage(b)
    BY <2>5 DEF ServePage, SnapshotInv
  <2>6. CASE Unsubscribe(b)
    BY <2>6 DEF Unsubscribe
  <2>7. CASE CloseChannel(b)
    BY <2>7 DEF CloseChannel
  <2>8. QED
    BY <1>3, <2>1, <2>2, <2>3, <2>4, <2>5, <2>6, <2>7 DEF Stream
<1>4. ASSUME NEW c \in Ids, CaptureSingle(c), ~Broadcast(c) PROVE UNCHANGED browserVars
  BY <1>4 DEF CaptureSingle, Capture, Compare, Store, KickoffCorrelation
<1>5. ASSUME NEW c \in Ids, Broadcast(c)
      PROVE  BroadcastAll /\ UNCHANGED <<clients, visit, arrived, fetching, served, since>>
  BY <1>5 DEF Broadcast
<1>6. ASSUME Correlation
      PROVE  \/ UNCHANGED browserVars
             \/ BroadcastAll /\ UNCHANGED <<clients, visit, arrived, fetching, served, since>>
  BY <1>6 DEF Correlation, Resolve, Announce, DropCorrelation, InstallCorrelation, AnnounceCorrelation
<1>7. QED
  BY <1>1, <1>2, <1>3, <1>4, <1>5, <1>6, StepCases DEF vars, BrowserStep

-----------------------------------------------------------------------------
(* The snapshot *)

\* A stored capture makes a new snapshot; a correlation only replaces one made of the
\* newest alerts, by the same alerts.
LEMMA SnapshotStep ==
  SnapshotInv /\ JobInv /\ [Next]_vars => SnapshotInv'
<1> SUFFICES ASSUME SnapshotInv, JobInv, [Next]_vars PROVE SnapshotInv'
  OBVIOUS
<1>1. ASSUME NEW c \in Ids, Store(c) PROVE SnapshotInv'
  BY <1>1 DEF Store, SnapshotInv
<1>2. ASSUME NEW j \in correlating, InstallCorrelation(j) PROVE SnapshotInv'
  <2>1. j.alerts = globalAlerts
    BY <1>2 DEF InstallCorrelation, StillNewest, JobInv, Newer
  <2>2. items' = items /\ globalAlerts' = globalAlerts
    BY <1>2 DEF InstallCorrelation, storeVars
  <2>3. snapshot' = [snapshot EXCEPT !.rev = @ + 1, !.alerts = globalAlerts, !.correlated = TRUE]
    BY <1>2, <2>1 DEF InstallCorrelation
  <2>4. snapshot' = [rev |-> snapshot.rev + 1, items |-> snapshot.items,
                     alerts |-> globalAlerts, correlated |-> TRUE]
    BY <2>3 DEF SnapshotInv
  <2>5. QED
    BY <2>2, <2>4 DEF SnapshotInv
<1>3. CASE UNCHANGED <<storeVars, snapshot>>
  BY <1>3 DEF storeVars, SnapshotInv
<1>4. ASSUME NEW c \in Ids, CaptureSingle(c), ~Store(c) PROVE UNCHANGED <<storeVars, snapshot>>
  BY <1>4 DEF CaptureSingle, Capture, Compare, Broadcast, KickoffCorrelation
<1>5. ASSUME Correlation, ~(\E j \in correlating : InstallCorrelation(j))
      PROVE  UNCHANGED <<storeVars, snapshot>>
  BY <1>5 DEF Correlation, Resolve, Announce, DropCorrelation, AnnounceCorrelation
<1>6. QED
  BY <1>1, <1>2, <1>3, <1>4, <1>5, StepCases, BrowserFrame DEF vars

\* What is stored next makes every job that is under way an old one.
LEMMA JobStep ==
  StoreTypes /\ JobTypes /\ JobInv /\ [Next]_vars => JobInv'
<1> SUFFICES ASSUME StoreTypes, JobTypes, JobInv, [Next]_vars PROVE JobInv'
  OBVIOUS
<1> NoJob' = NoJob
  BY DEF NoJob
<1>1. ASSUME NEW c \in Ids, Store(c) PROVE JobInv'
  <2>1. corrVersion' = corrVersion + 1 /\ correlating' = correlating
    BY <1>1 DEF Store
  <2>2. \A j \in Jobs : j.version # corrVersion'
    BY <2>1 DEF Jobs, StoreTypes
  <2>3. \A j \in correlating' : Newer(j)'
    BY <2>1, <2>2 DEF JobTypes, Newer
  <2>4. ASSUME NEW d \in Ids, job'[d] # NoJob PROVE Newer(job[d])'
    <3>1. CASE d = c
      BY <1>1, <3>1 DEF Store, Newer, JobTypes
    <3>2. CASE d # c
      <4>1. job'[d] = job[d] /\ job[d] \in Jobs
        BY <1>1, <2>4, <3>2 DEF Store, JobTypes
      <4>2. QED
        BY <2>2, <4>1 DEF Newer
    <3>3. QED
      BY <3>1, <3>2
  <2>5. QED
    BY <2>3, <2>4 DEF JobInv
<1>2. ASSUME NEW c \in Ids, KickoffCorrelation(c) PROVE JobInv'
  <2>1. UNCHANGED storeVars
    BY <1>2 DEF KickoffCorrelation
  <2>2. job[c].alerts # <<>> => Newer(job[c])
    BY DEF JobInv, NoJob
  <2>3. \A j \in correlating' : Newer(j)'
    BY <1>2, <2>1, <2>2 DEF KickoffCorrelation, storeVars, JobInv, Newer
  <2>4. \A d \in Ids : job'[d] = job[d] \/ job'[d] = NoJob
    BY <1>2 DEF KickoffCorrelation, JobTypes
  <2>5. QED
    BY <2>1, <2>3, <2>4 DEF JobInv, Newer, storeVars
<1>3. ASSUME UNCHANGED <<storeVars, job>>, correlating' \subseteq correlating PROVE JobInv'
  BY <1>3 DEF JobInv, Newer, storeVars
<1>4. ASSUME NEW c \in Ids, Capture(c) \/ Compare(c) \/ Broadcast(c)
      PROVE  UNCHANGED <<storeVars, job>> /\ correlating' \subseteq correlating
  BY <1>4 DEF Capture, Compare, Broadcast
<1>5. ASSUME Correlation
      PROVE  UNCHANGED <<storeVars, job>> /\ correlating' \subseteq correlating
  <2>1. UNCHANGED <<storeVars, job>>
    BY <1>5, CorrelationFrame DEF captureVars
  <2>2. QED
    BY <1>5, <2>1 DEF Correlation, Resolve, Announce, DropCorrelation, InstallCorrelation, AnnounceCorrelation
<1>6. ASSUME UNCHANGED <<captureVars, storeVars, snapshot, correlating, announcing>>
      PROVE  UNCHANGED <<storeVars, job>> /\ correlating' \subseteq correlating
  BY <1>6 DEF captureVars
<1>7. QED
  BY <1>1, <1>2, <1>3, <1>4, <1>5, <1>6, StepCases, BrowserFrame DEF CaptureSingle, vars

-----------------------------------------------------------------------------
(* Refreshes *)

\* A new snapshot leaves a broadcast pending; a broadcast leaves a message in every
\* channel; a message becomes a request; a request is served the newest snapshot.
LEMMA RefreshStep ==
  CaptureTypes /\ BrowserTypes /\ ClientInv /\ SnapshotInv /\ NoLostRefresh /\ [Next]_vars
    => NoLostRefresh'
<1> SUFFICES ASSUME CaptureTypes, BrowserTypes, ClientInv, SnapshotInv, NoLostRefresh,
                    [Next]_vars, NEW b \in Browsers,
                    visit'[b] = "subscribed", served'[b] < snapshot'.rev, since'[b] < snapshot'.rev
             PROVE  \/ channel'[b] # <<>> \/ arrived'[b] > 0 \/ fetching'[b] > 0
                    \/ BroadcastPending'
  BY DEF NoLostRefresh
<1> DEFINE Coming == \/ channel[b] # <<>> \/ arrived[b] > 0 \/ fetching[b] > 0
                     \/ BroadcastPending
<1>1. visit[b] = "subscribed" /\ served[b] < snapshot.rev /\ since[b] < snapshot.rev => Coming
  BY DEF NoLostRefresh
<1>2. ASSUME NEW c \in Ids, Store(c) PROVE BroadcastPending'
  BY <1>2 DEF Store, Goto, CaptureTypes, BroadcastPending
<1>3. ASSUME NEW j, InstallCorrelation(j) PROVE BroadcastPending'
  BY <1>3 DEF InstallCorrelation, BroadcastPending
<1>4. CASE BroadcastAll /\ UNCHANGED visit
  <2>1. b \in clients
    BY <1>4 DEF ClientInv
  <2>2. channel'[b] # <<>>
    BY <1>4, <2>1, BroadcastFills
  <2>3. QED
    BY <2>2
<1>5. ASSUME UNCHANGED <<snapshot, announcing, browserVars>>,
             \A c \in Ids : pc[c] = "broadcast" => pc'[c] = "broadcast"
      PROVE  Coming'
  BY <1>1, <1>5 DEF browserVars, BroadcastPending
<1>6. ASSUME NEW c \in Ids, Capture(c) \/ Compare(c) \/ KickoffCorrelation(c)
      PROVE  /\ UNCHANGED <<snapshot, announcing, browserVars>>
             /\ \A d \in Ids : pc[d] = "broadcast" => pc'[d] = "broadcast"
  BY <1>6 DEF Capture, Compare, KickoffCorrelation, Goto, CaptureTypes
<1>7. ASSUME NEW j, DropCorrelation(j)
      PROVE  UNCHANGED <<snapshot, announcing, browserVars, pc>>
  BY <1>7 DEF DropCorrelation, captureVars
<1>8. ASSUME BrowserStep PROVE Coming'
  <2>1. UNCHANGED <<snapshot, announcing, pc>>
    BY <1>8, BrowserFrame DEF captureVars
  <2>2. BroadcastPending' = BroadcastPending
    BY <2>1 DEF BroadcastPending
  <2>3. PICK d \in Browsers :
          Visit(d) \/ Subscribe(d) \/ Stream(d) \/ Unsubscribe(d) \/ CloseChannel(d)
    BY <1>8 DEF BrowserStep
  <2>4. CASE d = b
    BY <1>1, <2>1, <2>2, <2>3, <2>4
       DEF Visit, Subscribe, Stream, Deliver, Refresh, ServePage, Unsubscribe, CloseChannel,
           BrowserTypes, SnapshotInv
  <2>5. CASE d # b
    <3>1. /\ visit'[b] = visit[b] /\ served'[b] = served[b] /\ since'[b] = since[b]
          /\ channel'[b] = channel[b] /\ arrived'[b] = arrived[b] /\ fetching'[b] = fetching[b]
      BY <2>3, <2>5
         DEF Visit, Subscribe, Stream, Deliver, Refresh, ServePage, Unsubscribe, CloseChannel,
             BrowserTypes
    <3>2. QED
      BY <1>1, <2>1, <2>2, <3>1
  <2>6. QED
    BY <2>4, <2>5
<1>9. ASSUME NEW c \in Ids, Broadcast(c) PROVE BroadcastAll /\ UNCHANGED visit
  BY <1>9 DEF Broadcast
<1>10. ASSUME NEW j, AnnounceCorrelation(j) PROVE BroadcastAll /\ UNCHANGED visit
  BY <1>10 DEF AnnounceCorrelation
<1>11. CASE UNCHANGED vars
  BY <1>5, <1>11 DEF vars, captureVars
<1>12. CASE Correlation
  <2>1. PICK j : DropCorrelation(j) \/ InstallCorrelation(j) \/ AnnounceCorrelation(j)
    BY <1>12 DEF Correlation, Resolve, Announce
  <2>2. QED
    BY <2>1, <1>3, <1>4, <1>5, <1>7, <1>10
<1>13. ASSUME NEW c \in Ids, CaptureSingle(c) PROVE Coming'
  BY <1>2, <1>4, <1>5, <1>6, <1>9, <1>13 DEF CaptureSingle
<1>14. QED
  BY <1>8, <1>11, <1>12, <1>13, StepCases

-----------------------------------------------------------------------------
(* The theorems *)

\* The invariant is inductive.
LEMMA InvStep == IInv /\ NoLostRefresh /\ [Next]_vars => IInv' /\ NoLostRefresh'
BY CaptureTypesStep, StoreTypesStep, JobTypesStep, BrowserStepInv, SnapshotStep, JobStep,
   RefreshStep DEF IInv, Types

\* The invariant and the delivery of refreshes hold in every reachable state.
LEMMA Invariance == Spec => [](IInv /\ NoLostRefresh)
BY InitFacts, InvStep, PTL DEF Spec

\* dashboard.go: under d.mu every variable keeps its type, the history its limit, and no
\* channel that is closed is left in d.clients.
THEOREM TypeCorrect == Spec => []TypeOK
<1>1. IInv => TypeOK
  <2> SUFFICES ASSUME IInv PROVE TypeOK
    OBVIOUS
  <2> USE DEF IInv, Types
  <2>1. \A n \in Names : items[n] = NoItem \/ Name[items[n].by] = n
    BY DEF StoreTypes, ItemsOf
  <2>2. \A b \in Browsers : Len(channel[b]) <= 1
    <3>1. Len(<<>>) <= 1 /\ Len(<<"refresh">>) <= 1
      OBVIOUS
    <3>2. \A b \in Browsers : channel[b] \in {<<>>, <<"refresh">>}
      BY DEF BrowserTypes
    <3>3. QED
      BY <3>1, <3>2
  <2>3. clients \subseteq Browsers /\ \A b \in clients : visit[b] = "subscribed"
    BY DEF ClientInv
  <2>4. correlating \cup announcing \subseteq Jobs
    BY DEF JobTypes
  <2>5. \A b \in Browsers : visit[b] = "closed" => channel[b] = <<>>
    BY DEF ClientInv
  <2>6. QED
    BY <2>1, <2>2, <2>3, <2>4, <2>5 DEF TypeOK, CaptureTypes, StoreTypes, Places
<1>2. QED
  BY <1>1, Invariance, PTL

\* dashboard.go:653: the page is served what is stored; a correlation that took long never
\* puts back the alerts of an older capture.
THEOREM SnapshotIsStored == Spec => []SnapshotCurrent
<1>1. IInv => SnapshotCurrent
  BY DEF IInv, SnapshotInv, SnapshotCurrent
<1>2. QED
  BY <1>1, Invariance, PTL

\* dashboard.go:899: a channel that is full drops the message, and yet a browser whose page
\* is old has a message, a request or a broadcast on its way.
THEOREM RefreshesArrive == Spec => []NoLostRefresh
BY Invariance, PTL

-----------------------------------------------------------------------------
(* Capturers of different types *)

DistinctNames == \A c, d \in Ids : Name[c] = Name[d] => c = d

\* What a capturer compared is still what is stored under its name.
FreshInv == \A c \in Ids : pc[c] = "store" => fresh[c].changed = Changed(c)

\* Nobody else stores under a capturer's name between its two critical sections.
LEMMA FreshStep ==
  DistinctNames /\ CaptureTypes /\ StoreTypes /\ FreshInv /\ [Next]_vars => FreshInv'
<1> SUFFICES ASSUME DistinctNames, CaptureTypes, StoreTypes, FreshInv, [Next]_vars,
                    NEW c \in Ids, pc'[c] = "store"
             PROVE  fresh'[c].changed = Changed(c)'
  BY DEF FreshInv
<1>1. ASSUME NEW d \in Ids, CaptureSingle(d), d # c PROVE fresh'[c].changed = Changed(c)'
  <2>1. pc'[c] = pc[c] /\ fresh'[c] = fresh[c]
    BY <1>1 DEF CaptureSingle, Capture, Compare, Store, Broadcast, KickoffCorrelation, Goto,
                CaptureTypes
  <2>2. Name[c] # Name[d] /\ Name[c] \in Names /\ Name[d] \in Names
    BY <1>1 DEF DistinctNames, Names
  <2>3. lastPayload'[Name[c]] = lastPayload[Name[c]]
    BY <1>1, <2>2 DEF CaptureSingle, Capture, Compare, Store, Broadcast, KickoffCorrelation,
                      storeVars, StoreTypes
  <2>4. QED
    BY <2>1, <2>3 DEF FreshInv, Changed
<1>2. ASSUME CaptureSingle(c) PROVE fresh'[c].changed = Changed(c)'
  <2>1. Compare(c)
    BY <1>2 DEF CaptureSingle, Capture, Store, Broadcast, KickoffCorrelation, Goto, CaptureTypes
  <2>2. fresh'[c].changed = Changed(c) /\ fresh'[c].payload = fresh[c].payload
    BY <2>1 DEF Compare, CaptureTypes, Catches
  <2>3. lastPayload' = lastPayload
    BY <2>1 DEF Compare, storeVars
  <2>4. QED
    BY <2>2, <2>3 DEF Changed
<1>3. ASSUME UNCHANGED <<captureVars, storeVars>> PROVE fresh'[c].changed = Changed(c)'
  BY <1>3 DEF captureVars, storeVars, FreshInv, Changed
<1>4. QED
  BY <1>1, <1>2, <1>3, StepCases, CorrelationFrame, BrowserFrame DEF vars

\* dashboard.go:513: when no two capturers share a name, the changed flag compares a capture
\* with the one stored just before it, although that was read before d.mu was taken.
THEOREM ChangedFlagsExact == DistinctNames => (Spec => ChangedIsExact)
<1> SUFFICES ASSUME DistinctNames PROVE Spec => ChangedIsExact
  OBVIOUS
<1>1. Init => FreshInv
  BY DEF Init, FreshInv
<1>2. IInv /\ FreshInv /\ [Next]_vars
        => [\A n \in Names : items'[n] # items[n] =>
              items'[n].changed
                = (lastPayload[n] # NoPayload /\ lastPayload[n] # lastPayload'[n])]_vars
  <2> SUFFICES ASSUME IInv, FreshInv, [Next]_vars,
                      NEW n \in Names, items'[n] # items[n]
               PROVE  items'[n].changed
                        = (lastPayload[n] # NoPayload /\ lastPayload[n] # lastPayload'[n])
    OBVIOUS
  <2> USE DEF IInv, Types, StoreTypes
  <2>1. PICK c \in Ids : Store(c)
    BY StepCases, CorrelationFrame, BrowserFrame
       DEF CaptureSingle, Capture, Compare, Broadcast, KickoffCorrelation, storeVars, vars
  <2>2. n = Name[c]
    BY <2>1 DEF Store
  <2>3. items'[n].changed = fresh[c].changed /\ lastPayload'[n] = fresh[c].payload
    BY <2>1, <2>2 DEF Store
  <2>4. fresh[c].changed = Changed(c)
    BY <2>1 DEF FreshInv, Store
  <2>5. QED
    BY <2>2, <2>3, <2>4 DEF Changed
<1>3. IInv /\ FreshInv /\ [Next]_vars => FreshInv'
  BY FreshStep DEF IInv, Types
<1>4. QED
  BY <1>1, <1>2, <1>3, Invariance, PTL DEF Spec, ChangedIsExact

\* Start-up stores one capturer after the other.
Shown(c) == items[Name[c]].by = c
ShownInv ==
  /\ \A i \in DOMAIN Capturers : i < initial => Shown(Capturers[i])
  /\ \A c \in Ids : pc[c] \in {"broadcast", "kickoff"} => Shown(c)
  /\ ~Serving => \A c \in Ids : pc[c] # "idle" => c = Capturers[initial]

\* A capturer that was stored stays shown, since nobody else stores under its name.
LEMMA ShownStays ==
  ASSUME DistinctNames, StoreTypes, [Next]_vars, NEW c \in Ids, Shown(c)
  PROVE  Shown(c)'
<1>1. ASSUME NEW d \in Ids, Store(d) PROVE Shown(c)'
  <2>1. Name[c] \in Names /\ Name[d] \in Names /\ (Name[c] = Name[d] => c = d)
    BY DEF DistinctNames, Names
  <2>2. QED
    BY <1>1, <2>1 DEF Store, Shown, StoreTypes
<1>2. ASSUME NEW d \in Ids, CaptureSingle(d), ~Store(d) PROVE UNCHANGED storeVars
  BY <1>2 DEF CaptureSingle, Capture, Compare, Broadcast, KickoffCorrelation
<1>3. ASSUME UNCHANGED storeVars PROVE Shown(c)'
  BY <1>3 DEF storeVars, Shown
<1>4. QED
  BY <1>1, <1>2, <1>3, StepCases, CorrelationFrame, BrowserFrame DEF vars

\* Start-up goes on when the capturer it is at has been stored.
LEMMA ShownStep ==
  DistinctNames /\ CaptureTypes /\ StoreTypes /\ ShownInv /\ [Next]_vars => ShownInv'
<1> SUFFICES ASSUME DistinctNames, CaptureTypes, StoreTypes, ShownInv, [Next]_vars
             PROVE  ShownInv'
  OBVIOUS
<1>0. /\ Len(Capturers) \in Nat /\ DOMAIN Capturers = 1..Len(Capturers)
      /\ \A i \in DOMAIN Capturers : Capturers[i] \in Ids
  BY CapturersAssumption DEF Ids
<1>1. \A c \in Ids : Shown(c) => Shown(c)'
  BY ShownStays
<1>2. ASSUME NEW c \in Ids, Capture(c) PROVE ShownInv'
  <2>1. ~Serving => initial \in DOMAIN Capturers
    BY <1>0 DEF Serving, CaptureTypes
  <2>2. Serving' = Serving /\ initial' = initial
    BY <1>2 DEF Capture, Serving
  <2>3. ~Serving => c = Capturers[initial]
    BY <1>2, <2>1 DEF Capture
  <2>4. \A d \in Ids : d # c => pc'[d] = pc[d]
    BY <1>2 DEF Capture, Goto, CaptureTypes
  <2>5. pc'[c] = "compare"
    BY <1>2 DEF Capture, Goto, CaptureTypes
  <2>6. QED
    BY <1>0, <1>1, <2>2, <2>3, <2>4, <2>5 DEF ShownInv
<1>3. ASSUME NEW c \in Ids, Compare(c) \/ Store(c) \/ Broadcast(c) PROVE ShownInv'
  <2>1. Serving' = Serving /\ initial' = initial
    BY <1>3 DEF Compare, Store, Broadcast, Serving
  <2>2. \A d \in Ids : d # c => pc'[d] = pc[d]
    BY <1>3 DEF Compare, Store, Broadcast, Goto, CaptureTypes
  <2>3. pc[c] # "idle"
    BY <1>3 DEF Compare, Store, Broadcast
  <2>4. pc'[c] \in {"broadcast", "kickoff"} => Shown(c)'
    <3>1. CASE Store(c)
      <4>1. Name[c] \in Names
        BY DEF Names
      <4>2. QED
        BY <3>1, <4>1 DEF Store, Shown, StoreTypes
    <3>2. CASE ~Store(c)
      <4>1. pc'[c] \in {"broadcast", "kickoff"} => pc[c] = "broadcast"
        BY <1>3, <3>2 DEF Compare, Broadcast, Goto, CaptureTypes
      <4>2. QED
        BY <1>1, <4>1 DEF ShownInv
    <3>3. QED
      BY <3>1, <3>2
  <2>5. QED
    BY <1>0, <1>1, <2>1, <2>2, <2>3, <2>4 DEF ShownInv
<1>4. ASSUME NEW c \in Ids, KickoffCorrelation(c) PROVE ShownInv'
  <2>1. \A d \in Ids : d # c => pc'[d] = pc[d]
    BY <1>4 DEF KickoffCorrelation, Goto, CaptureTypes
  <2>2. pc[c] = "kickoff" /\ pc'[c] = "idle" /\ Shown(c)
    BY <1>4 DEF KickoffCorrelation, Goto, CaptureTypes, ShownInv
  <2>3. \A d \in Ids : pc'[d] \in {"broadcast", "kickoff"} => Shown(d)'
    BY <1>1, <2>1, <2>2 DEF ShownInv
  <2>4. CASE Serving
    <3>1. initial' = initial /\ Serving'
      BY <1>4, <2>4 DEF KickoffCorrelation, Serving
    <3>2. QED
      BY <1>0, <1>1, <2>3, <3>1 DEF ShownInv
  <2>5. CASE ~Serving
    <3>1. initial' = initial + 1 /\ initial \in Nat
      BY <1>4, <2>5 DEF KickoffCorrelation, CaptureTypes
    <3>2. c = Capturers[initial] /\ \A d \in Ids : pc'[d] = "idle"
      BY <2>1, <2>2, <2>5 DEF ShownInv
    <3>3. \A i \in DOMAIN Capturers : i < initial' => i < initial \/ i = initial
      BY <1>0, <3>1
    <3>4. \A i \in DOMAIN Capturers : i < initial' => Shown(Capturers[i])'
      BY <1>0, <1>1, <2>2, <3>2, <3>3 DEF ShownInv
    <3>5. QED
      BY <2>3, <3>2, <3>4 DEF ShownInv
  <2>6. QED
    BY <2>4, <2>5
<1>5. ASSUME UNCHANGED captureVars PROVE ShownInv'
  <2>1. initial' = initial /\ pc' = pc /\ Serving' = Serving
    BY <1>5 DEF captureVars, Serving
  <2>2. QED
    BY <1>0, <1>1, <2>1 DEF ShownInv
<1>6. QED
  BY <1>2, <1>3, <1>4, <1>5, StepCases, CorrelationFrame, BrowserFrame DEF CaptureSingle, vars

\* dashboard.go:620: when no two capturers share a name, every capturer has its item in the
\* snapshot as soon as pages are served; two disk paths share one and refute it.
THEOREM EachCapturerShown == DistinctNames => (Spec => []EveryCapturerShown)
<1> SUFFICES ASSUME DistinctNames PROVE Spec => []EveryCapturerShown
  OBVIOUS
<1>1. Init => ShownInv
  <2>1. DOMAIN Capturers \subseteq Nat \ {0}
    BY CapturersAssumption
  <2>2. QED
    BY <2>1 DEF Init, ShownInv
<1>2. IInv /\ ShownInv /\ [Next]_vars => ShownInv'
  BY ShownStep DEF IInv, Types
<1>3. IInv /\ ShownInv => EveryCapturerShown
  <2> SUFFICES ASSUME IInv, ShownInv, Serving, NEW c \in Ids
               PROVE  \E n \in Names : snapshot.items[n].by = c
    BY DEF EveryCapturerShown
  <2>1. PICK i \in DOMAIN Capturers : c = Capturers[i]
    BY DEF Ids
  <2>2. i < initial
    BY <2>1, CapturersAssumption DEF Serving, IInv, Types, CaptureTypes
  <2>3. items[Name[c]].by = c /\ Name[c] \in Names
    BY <2>1, <2>2 DEF ShownInv, Shown, Names
  <2>4. QED
    BY <2>3 DEF IInv, SnapshotInv
<1>4. QED
  BY <1>1, <1>2, <1>3, Invariance, PTL DEF Spec

-----------------------------------------------------------------------------
(* Liveness *)

\* The guards, as the actions have them, enable what fairness makes happen: a request can
\* be served, a message delivered and acted on, a broadcast made, a stored capture can be
\* passed on and a correlation come to its end.
BrowserEnabled(b) ==
  /\ visit[b] = "subscribed" /\ fetching[b] > 0 => ENABLED <<ServePage(b)>>_vars
  /\ visit[b] = "subscribed" /\ arrived[b] > 0 => ENABLED <<Refresh(b)>>_vars
  /\ visit[b] = "subscribed" /\ channel[b] # <<>> => ENABLED <<Deliver(b)>>_vars
AnyBroadcast == Announce \/ \E c \in Ids : Broadcast(c)
CaptureEnabled(c) ==
  pc[c] \in {"broadcast", "kickoff"} => ENABLED <<CaptureSingle(c)>>_vars
ResolveEnabled(v) ==
  (\E j \in correlating : j.version = v) => ENABLED <<ResolveOne(v)>>_vars
GuardsEnable ==
  /\ \A b \in Browsers : BrowserEnabled(b)
  /\ BroadcastPending => ENABLED <<AnyBroadcast>>_vars
  /\ \A c \in Ids : CaptureEnabled(c)
  /\ \A v \in Versions : ResolveEnabled(v)

\* The stages of a refresh.
Due(b) == visit[b] = "subscribed" /\ BroadcastPending
Waiting(b) == visit[b] = "subscribed" /\ channel[b] # <<>>
Arrived(b) == visit[b] = "subscribed" /\ arrived[b] > 0
Requested(b) == visit[b] = "subscribed" /\ fetching[b] > 0
Fetched(b) == served[b] = snapshot.rev \/ visit[b] # "subscribed"

\* A refresh stays where it is or goes on to the next stage; its page may be left.
Moves(b) ==
  /\ Due(b) => Due(b)' \/ Waiting(b)' \/ Fetched(b)'
  /\ Waiting(b) => Waiting(b)' \/ Arrived(b)' \/ Fetched(b)'
  /\ Arrived(b) => Arrived(b)' \/ Requested(b)' \/ Fetched(b)'
  /\ Requested(b) => Requested(b)' \/ Fetched(b)'

\* What the fair steps do.
FairMoves(b) ==
  /\ Due(b) /\ <<AnyBroadcast>>_vars => Waiting(b)'
  /\ Waiting(b) /\ <<Deliver(b)>>_vars => Arrived(b)'
  /\ Arrived(b) /\ <<Refresh(b)>>_vars => Requested(b)'
  /\ Requested(b) /\ <<ServePage(b)>>_vars => Fetched(b)'

\* A browser's broadcasts fill its channel.
LEMMA BroadcastMoves ==
  ASSUME IInv, NEW b \in Browsers, visit[b] = "subscribed", AnyBroadcast
  PROVE  Waiting(b)' /\ UNCHANGED <<visit, arrived, fetching>>
<1>1. BroadcastAll /\ UNCHANGED <<visit, arrived, fetching>>
  BY DEF AnyBroadcast, Announce, AnnounceCorrelation, Broadcast
<1>2. b \in clients
  BY DEF IInv, ClientInv
<1>3. channel'[b] # <<>>
  BY <1>1, <1>2, BroadcastFills DEF IInv, Types
<1>4. QED
  BY <1>1, <1>3 DEF Waiting

\* The steps of a browser take its refreshes one stage on, or end its visit.
LEMMA BrowserMoves ==
  ASSUME IInv, NEW b \in Browsers, BrowserStep
  PROVE  Moves(b)
<1>1. UNCHANGED <<snapshot, announcing, pc>>
  BY BrowserFrame DEF captureVars
<1>2. BroadcastPending' = BroadcastPending
  BY <1>1 DEF BroadcastPending
<1>3. PICK d \in Browsers : Visit(d) \/ Subscribe(d) \/ Stream(d) \/ Unsubscribe(d) \/ CloseChannel(d)
  BY DEF BrowserStep
<1> USE DEF Moves, Due, Waiting, Arrived, Requested, Fetched, IInv, Types, BrowserTypes
<1>4. CASE d = b
  BY <1>1, <1>2, <1>3, <1>4
     DEF Visit, Subscribe, Stream, Deliver, Refresh, ServePage, Unsubscribe, CloseChannel, SnapshotInv
<1>5. CASE d # b
  <2>1. /\ visit'[b] = visit[b] /\ channel'[b] = channel[b]
        /\ arrived'[b] = arrived[b] /\ fetching'[b] = fetching[b]
    BY <1>3, <1>5
       DEF Visit, Subscribe, Stream, Deliver, Refresh, ServePage, Unsubscribe, CloseChannel
  <2>2. QED
    BY <1>2, <2>1
<1>6. QED
  BY <1>4, <1>5

\* Refreshes move on in their order.
LEMMA RefreshMoves ==
  ASSUME NEW b \in Browsers
  PROVE  IInv /\ [Next]_vars => Moves(b)
<1> SUFFICES ASSUME IInv, [Next]_vars PROVE Moves(b)
  OBVIOUS
<1>1. CASE AnyBroadcast
  BY <1>1, BroadcastMoves DEF Moves, Due, Waiting, Arrived, Requested
<1>2. ASSUME UNCHANGED browserVars, BroadcastPending => BroadcastPending' PROVE Moves(b)
  BY <1>2 DEF Moves, Due, Waiting, Arrived, Requested, browserVars
<1>3. CASE UNCHANGED vars
  BY <1>2, <1>3 DEF vars, captureVars, BroadcastPending
<1>4. ASSUME NEW c \in Ids, CaptureSingle(c), ~Broadcast(c) PROVE Moves(b)
  <2>1. UNCHANGED browserVars /\ UNCHANGED announcing
    BY <1>4 DEF CaptureSingle, Capture, Compare, Store, KickoffCorrelation
  <2>2. \A d \in Ids : pc[d] = "broadcast" => pc'[d] = "broadcast"
    BY <1>4 DEF CaptureSingle, Capture, Compare, Store, KickoffCorrelation, Goto, IInv, Types, CaptureTypes
  <2>3. QED
    BY <1>2, <2>1, <2>2 DEF BroadcastPending
<1>5. ASSUME Resolve PROVE Moves(b)
  <2>1. UNCHANGED <<pc, browserVars>> /\ announcing \subseteq announcing'
    BY <1>5 DEF Resolve, DropCorrelation, InstallCorrelation, captureVars
  <2>2. QED
    BY <1>2, <2>1 DEF BroadcastPending
<1>6. QED
  BY <1>1, <1>3, <1>4, <1>5, StepCases, BrowserMoves DEF AnyBroadcast, Correlation

\* The fair steps do take them on.
LEMMA FairRefresh ==
  ASSUME NEW b \in Browsers
  PROVE  IInv => FairMoves(b)
<1> SUFFICES ASSUME IInv PROVE FairMoves(b)
  OBVIOUS
<1>1. Due(b) /\ <<AnyBroadcast>>_vars => Waiting(b)'
  BY BroadcastMoves DEF Due
<1> USE DEF IInv, Types, BrowserTypes, Waiting, Arrived, Requested, Fetched
<1>2. Waiting(b) /\ <<Deliver(b)>>_vars => Arrived(b)'
  BY DEF Deliver
<1>3. Arrived(b) /\ <<Refresh(b)>>_vars => Requested(b)'
  BY DEF Refresh
<1>4. Requested(b) /\ <<ServePage(b)>>_vars => Fetched(b)'
  BY DEF ServePage
<1>5. QED
  BY <1>1, <1>2, <1>3, <1>4 DEF FairMoves

\* What is fair to every browser is fair to each.
FairFor(b) == FairBrowser(b) /\ WF_vars(AnyBroadcast)
LEMMA FairEach ==
  ASSUME NEW p \in Browsers
  PROVE  Fairness => FairFor(p)
<1>1. (\A b \in Browsers : FairBrowser(b)) => FairBrowser(p)
  OBVIOUS
<1>2. Fairness => (\A b \in Browsers : FairBrowser(b)) /\ WF_vars(AnyBroadcast)
  BY PTL DEF Fairness, AnyBroadcast
<1>3. QED
  BY <1>1, <1>2, PTL DEF FairFor

\* dashboard.go:899, dashboard.html:1492: although a full channel drops messages and captures
\* never stop, a browser that stays fetches every snapshot made since it subscribed, or a
\* newer one, if handlers, browsers and those who broadcast run on.
THEOREM ChangesAreFetched == FairSpec /\ []GuardsEnable => EveryChangeFetched
<1>1. ASSUME NEW b \in Browsers
      PROVE  FairSpec /\ []GuardsEnable =>
               ((visit[b] = "subscribed" /\ served[b] < snapshot.rev /\ since[b] < snapshot.rev)
                  ~> (served[b] = snapshot.rev \/ visit[b] # "subscribed"))
  <2>1. NoLostRefresh => (visit[b] = "subscribed" /\ served[b] < snapshot.rev /\ since[b] < snapshot.rev
                            => Due(b) \/ Waiting(b) \/ Arrived(b) \/ Requested(b))
    BY DEF NoLostRefresh, Due, Waiting, Arrived, Requested
  <2>2. IInv /\ [Next]_vars => Moves(b)
    BY RefreshMoves
  <2>3. IInv => FairMoves(b)
    BY FairRefresh
  <2>4. Fairness => FairFor(b)
    BY FairEach
  <2>5. GuardsEnable => /\ Requested(b) => ENABLED <<ServePage(b)>>_vars
                        /\ Arrived(b) => ENABLED <<Refresh(b)>>_vars
                        /\ Waiting(b) => ENABLED <<Deliver(b)>>_vars
                        /\ Due(b) => ENABLED <<AnyBroadcast>>_vars
    BY DEF GuardsEnable, BrowserEnabled, Requested, Arrived, Waiting, Due
  <2>6. Fetched(b) <=> served[b] = snapshot.rev \/ visit[b] # "subscribed"
    BY DEF Fetched
  <2>7. QED
    BY <2>1, <2>2, <2>3, <2>4, <2>5, <2>6, Invariance, PTL
       DEF FairSpec, Spec, FairFor, FairBrowser, Moves, FairMoves
<1>2. QED
  BY <1>1 DEF EveryChangeFetched

-----------------------------------------------------------------------------
(* Correlation *)

\* The job of the capture that was stored last.
NewestJob == [version |-> corrVersion, alerts |-> globalAlerts]

\* Alerts that the page shows uncorrelated are about to be correlated, in their newest list.
CorrelationUnderWay ==
  snapshot.rev > 0 /\ ~snapshot.correlated /\ globalAlerts # <<>> =>
    \/ NewestJob \in correlating
    \/ \E c \in Ids : job[c] = NewestJob /\ pc[c] \in {"broadcast", "kickoff"}

\* A stored capture passes its job on until its goroutine starts it, and it is not dropped.
LEMMA UnderWayStep == IInv /\ CorrelationUnderWay /\ [Next]_vars => CorrelationUnderWay'
<1> SUFFICES ASSUME IInv, CorrelationUnderWay, [Next]_vars,
                    snapshot'.rev > 0, ~snapshot'.correlated, globalAlerts' # <<>>
             PROVE  \/ NewestJob' \in correlating'
                    \/ \E c \in Ids : job'[c] = NewestJob' /\ pc'[c] \in {"broadcast", "kickoff"}
  BY DEF CorrelationUnderWay
<1>0. /\ pc \in [Ids -> Places] /\ job \in [Ids -> Jobs \cup {NoJob}]
      /\ snapshot \in [rev : Nat, items : {items}, alerts : {globalAlerts}, correlated : BOOLEAN]
  BY DEF IInv, Types, CaptureTypes, JobTypes, SnapshotInv
<1> DEFINE InHand(c) == job[c] = NewestJob /\ pc[c] \in {"broadcast", "kickoff"}
<1>1. UNCHANGED <<storeVars, snapshot>> =>
        NewestJob' = NewestJob /\ (NewestJob \in correlating \/ \E c \in Ids : InHand(c))
  BY DEF storeVars, NewestJob, CorrelationUnderWay
<1>2. ASSUME NEW c \in Ids, Store(c)
      PROVE  job'[c] = NewestJob' /\ pc'[c] = "broadcast"
  BY <1>0, <1>2 DEF Store, Goto, NewestJob
<1>3. ASSUME NEW c \in Ids, Capture(c) \/ Compare(c) \/ Broadcast(c) \/ KickoffCorrelation(c)
      PROVE  \/ NewestJob' \in correlating'
             \/ \E d \in Ids : job'[d] = NewestJob' /\ pc'[d] \in {"broadcast", "kickoff"}
  <2>1. UNCHANGED <<storeVars, snapshot>> /\ correlating \subseteq correlating'
    BY <1>3 DEF Capture, Compare, Broadcast, KickoffCorrelation
  <2>2. ASSUME NEW d \in Ids, InHand(d), d # c PROVE job'[d] = job[d] /\ pc'[d] = pc[d]
    BY <1>0, <1>3, <2>2 DEF Capture, Compare, Broadcast, KickoffCorrelation, Goto
  <2>3. ASSUME InHand(c)
        PROVE  NewestJob \in correlating' \/ (job'[c] = job[c] /\ pc'[c] = "kickoff")
    <3>1. CASE Broadcast(c)
      BY <1>0, <3>1 DEF Broadcast, Goto
    <3>2. CASE KickoffCorrelation(c)
      <4>1. NewestJob.alerts # <<>>
        BY <1>1, <2>1 DEF NewestJob, storeVars
      <4>2. QED
        BY <2>3, <3>2, <4>1 DEF KickoffCorrelation
    <3>3. QED
      BY <1>3, <2>3, <3>1, <3>2 DEF Capture, Compare
  <2>4. QED
    BY <1>1, <2>1, <2>2, <2>3
<1>4. ASSUME Resolve \/ Announce PROVE NewestJob' \in correlating' \/ \E d \in Ids : InHand(d)'
  <2>1. UNCHANGED <<captureVars, storeVars>>
    BY <1>4, CorrelationFrame DEF Correlation
  <2>2. ASSUME NEW j \in correlating, InstallCorrelation(j) PROVE FALSE
    BY <1>0, <2>2 DEF InstallCorrelation
  <2>3. ASSUME NEW j \in correlating, DropCorrelation(j)
        PROVE  UNCHANGED snapshot /\ (NewestJob \in correlating => NewestJob \in correlating')
    BY <2>3 DEF DropCorrelation, StillNewest, NewestJob
  <2>4. UNCHANGED snapshot /\ (NewestJob \in correlating => NewestJob \in correlating')
    BY <1>4, <2>2, <2>3 DEF Resolve, Announce, AnnounceCorrelation
  <2>5. QED
    BY <1>1, <2>1, <2>4 DEF captureVars
<1>5. ASSUME UNCHANGED <<captureVars, storeVars, snapshot, correlating>>
      PROVE  NewestJob' \in correlating' \/ \E d \in Ids : InHand(d)'
  BY <1>1, <1>5 DEF captureVars
<1>6. QED
  BY <1>2, <1>3, <1>4, <1>5, StepCases, BrowserFrame DEF CaptureSingle, Correlation, vars

\* dashboard.go:667-696: whatever is stored meanwhile, the list of alerts a page shows is
\* correlated, or the newest list is on its way to be: no correlation is lost between the
\* capture that stored it and its goroutine, nor dropped when it is the newest.
THEOREM CorrelationIsUnderWay == Spec => []CorrelationUnderWay
<1>1. Init => CorrelationUnderWay
  BY DEF Init, CorrelationUnderWay
<1>2. QED
  BY <1>1, UnderWayStep, Invariance, PTL DEF Spec

\* A job is in hand between the capture's storing and its goroutine's start.
JobInHand == \A c \in Ids : job[c] # NoJob => pc[c] \in {"broadcast", "kickoff"}

\* The stages of a correlation: a capture's job waits for the broadcast, then for its
\* goroutine, then the goroutine is at work, all while no other capture is stored.
Handed(c, v, place) ==
  corrVersion = v /\ job[c].version = v /\ job[c].alerts # <<>> /\ pc[c] = place
AtWork(v) == corrVersion = v /\ \E j \in correlating : j.version = v
Settled(v) == snapshot.correlated \/ corrVersion # v

\* A correlation stays where it is or goes on to the next stage, unless a capture is stored.
SettleMoves(c, v) ==
  /\ Handed(c, v, "broadcast") =>
       Handed(c, v, "broadcast")' \/ Handed(c, v, "kickoff")' \/ Settled(v)'
  /\ Handed(c, v, "kickoff") => Handed(c, v, "kickoff")' \/ AtWork(v)' \/ Settled(v)'
  /\ AtWork(v) => AtWork(v)' \/ Settled(v)'
FairSettle(c, v) ==
  /\ Handed(c, v, "broadcast") /\ <<CaptureSingle(c)>>_vars => Handed(c, v, "kickoff")'
  /\ Handed(c, v, "kickoff") /\ <<CaptureSingle(c)>>_vars => AtWork(v)'
  /\ AtWork(v) /\ <<ResolveOne(v)>>_vars => Settled(v)'

\* A job is handed over with its version by the step that stores, and taken by the kickoff.
LEMMA JobInHandStep == IInv /\ JobInHand /\ [Next]_vars => JobInHand'
<1> SUFFICES ASSUME IInv, JobInHand, [Next]_vars,
                    NEW c \in Ids, job'[c] # NoJob
             PROVE  pc'[c] \in {"broadcast", "kickoff"}
  BY DEF JobInHand, NoJob
<1>0. pc \in [Ids -> Places] /\ job \in [Ids -> Jobs \cup {NoJob}]
  BY DEF IInv, Types, CaptureTypes, JobTypes
<1>1. ASSUME NEW d \in Ids, CaptureSingle(d) PROVE pc'[c] \in {"broadcast", "kickoff"}
  <2>1. CASE d # c
    <3>1. pc'[c] = pc[c] /\ job'[c] = job[c]
      BY <1>0, <1>1, <2>1
         DEF CaptureSingle, Capture, Compare, Store, Broadcast, KickoffCorrelation, Goto
    <3>2. QED
      BY <3>1 DEF JobInHand
  <2>2. CASE d = c
    <3>1. CASE Store(c) \/ Broadcast(c)
      BY <1>0, <3>1 DEF Store, Broadcast, Goto
    <3>2. CASE Capture(c) \/ Compare(c)
      BY <1>0, <3>2 DEF Capture, Compare, JobInHand
    <3>3. CASE KickoffCorrelation(c)
      BY <1>0, <3>3 DEF KickoffCorrelation
    <3>4. QED
      BY <1>1, <2>2, <3>1, <3>2, <3>3 DEF CaptureSingle
  <2>3. QED
    BY <2>1, <2>2
<1>2. CASE UNCHANGED captureVars
  BY <1>2 DEF captureVars, JobInHand
<1>3. QED
  BY <1>1, <1>2, StepCases, BrowserFrame, CorrelationFrame DEF vars

\* The goroutine of a capture takes its job from stage to stage.
LEMMA HandedOn ==
  ASSUME IInv, NEW c \in Ids, NEW v, CaptureSingle(c)
  PROVE  /\ Handed(c, v, "broadcast") => Handed(c, v, "kickoff")'
         /\ Handed(c, v, "kickoff") => AtWork(v)'
<1>0. pc \in [Ids -> Places] /\ job \in [Ids -> Jobs \cup {NoJob}]
  BY DEF IInv, Types, CaptureTypes, JobTypes
<1>1. ASSUME Handed(c, v, "broadcast") PROVE Handed(c, v, "kickoff")'
  <2>1. Broadcast(c)
    BY <1>1 DEF Handed, CaptureSingle, Capture, Compare, Store, KickoffCorrelation
  <2>2. QED
    BY <1>0, <1>1, <2>1 DEF Handed, Broadcast, Goto, storeVars
<1>2. ASSUME Handed(c, v, "kickoff") PROVE AtWork(v)'
  <2>1. KickoffCorrelation(c)
    BY <1>2 DEF Handed, CaptureSingle, Capture, Compare, Store, Broadcast
  <2>2. job[c] \in correlating' /\ corrVersion' = corrVersion
    BY <1>2, <2>1 DEF Handed, KickoffCorrelation, storeVars
  <2>3. QED
    BY <1>2, <2>2 DEF Handed, AtWork
<1>3. QED
  BY <1>1, <1>2

\* Correlations move on in their order.
LEMMA CorrelationMoves ==
  ASSUME NEW c \in Ids, NEW v \in Versions
  PROVE  IInv /\ [Next]_vars => SettleMoves(c, v)
<1> SUFFICES ASSUME IInv, [Next]_vars PROVE SettleMoves(c, v)
  OBVIOUS
<1>0. /\ pc \in [Ids -> Places] /\ job \in [Ids -> Jobs \cup {NoJob}] /\ corrVersion \in Nat
      /\ snapshot \in [rev : Nat, items : {items}, alerts : {globalAlerts}, correlated : BOOLEAN]
  BY DEF IInv, Types, CaptureTypes, JobTypes, StoreTypes, SnapshotInv
<1>1. CASE CaptureSingle(c)
  <2>1. AtWork(v) => AtWork(v)' \/ Settled(v)'
    <3>1. CASE Store(c)
      BY <1>0, <3>1 DEF Store, AtWork, Settled
    <3>2. CASE ~Store(c)
      BY <1>1, <3>2 DEF CaptureSingle, Capture, Compare, Broadcast, KickoffCorrelation, storeVars, AtWork
    <3>3. QED
      BY <3>1, <3>2
  <2>2. QED
    BY <1>1, <2>1, HandedOn DEF SettleMoves
<1>2. ASSUME NEW d \in Ids, CaptureSingle(d), d # c PROVE SettleMoves(c, v)
  <2>1. CASE Store(d)
    <3>1. corrVersion' = corrVersion + 1
      BY <2>1 DEF Store
    <3>2. QED
      BY <1>0, <3>1 DEF SettleMoves, Handed, AtWork, Settled
  <2>2. CASE ~Store(d)
    <3>1. /\ corrVersion' = corrVersion /\ correlating \subseteq correlating'
          /\ pc'[c] = pc[c] /\ job'[c] = job[c]
      BY <1>0, <1>2, <2>2
         DEF CaptureSingle, Capture, Compare, Broadcast, KickoffCorrelation, Goto, storeVars
    <3>2. QED
      BY <3>1 DEF SettleMoves, Handed, AtWork
  <2>3. QED
    BY <2>1, <2>2
<1>3. ASSUME UNCHANGED <<captureVars, storeVars, correlating>> PROVE SettleMoves(c, v)
  BY <1>3 DEF captureVars, storeVars, SettleMoves, Handed, AtWork
<1>4. ASSUME NEW j \in correlating, InstallCorrelation(j) PROVE SettleMoves(c, v)
  <2>1. snapshot'.correlated
    BY <1>0, <1>4 DEF InstallCorrelation
  <2>2. UNCHANGED <<captureVars, storeVars>>
    BY <1>4 DEF InstallCorrelation
  <2>3. QED
    BY <2>1, <2>2 DEF SettleMoves, Handed, AtWork, Settled, captureVars, storeVars
<1>5. ASSUME NEW j \in correlating, DropCorrelation(j) PROVE SettleMoves(c, v)
  <2>1. UNCHANGED <<captureVars, storeVars>> /\ correlating' = correlating \ {j} /\ corrVersion # j.version
    BY <1>5 DEF DropCorrelation, StillNewest
  <2>2. QED
    BY <2>1 DEF SettleMoves, Handed, AtWork, captureVars, storeVars
<1>6. CASE Correlation
  <2>1. CASE Announce
    BY <1>3, <2>1 DEF Announce, AnnounceCorrelation
  <2>2. CASE Resolve
    BY <1>4, <1>5, <2>2 DEF Resolve
  <2>3. QED
    BY <1>6, <2>1, <2>2 DEF Correlation
<1>7. QED
  BY <1>1, <1>2, <1>3, <1>6, StepCases, BrowserFrame DEF vars

\* The fair steps do take them on.
LEMMA FairCorrelation ==
  ASSUME NEW c \in Ids, NEW v \in Versions
  PROVE  IInv => FairSettle(c, v)
<1> SUFFICES ASSUME IInv PROVE FairSettle(c, v)
  OBVIOUS
<1>1. ASSUME AtWork(v), ResolveOne(v) PROVE Settled(v)'
  <2>1. PICK j \in correlating : j.version = v /\ (DropCorrelation(j) \/ InstallCorrelation(j))
    BY <1>1 DEF ResolveOne
  <2>2. InstallCorrelation(j)
    BY <1>1, <2>1 DEF DropCorrelation, StillNewest, AtWork
  <2>3. QED
    BY <2>2 DEF InstallCorrelation, Settled, IInv, SnapshotInv
<1>2. QED
  BY <1>1, HandedOn DEF FairSettle

\* What is fair to every capturer and every correlation is fair to each.
FairCapturer(c) == WF_vars(CaptureSingle(c))
FairResolver(v) == WF_vars(ResolveOne(v))
LEMMA FairOne ==
  ASSUME NEW p \in Ids, NEW w \in Versions
  PROVE  Fairness => FairCapturer(p) /\ FairResolver(w)
<1>1. (\A c \in Ids : FairCapturer(c)) => FairCapturer(p)
  OBVIOUS
<1>2. (\A v \in Versions : FairResolver(v)) => FairResolver(w)
  OBVIOUS
<1>3. Fairness => (\A c \in Ids : FairCapturer(c)) /\ (\A v \in Versions : FairResolver(v))
  BY PTL DEF Fairness, FairCapturer, FairResolver
<1>4. QED
  BY <1>1, <1>2, <1>3, PTL

\* dashboard.go:667-696: the list of alerts a capture stored is correlated in the end, or a
\* newer capture is stored, if the goroutines of capturers and correlations run on: whoever
\* stops capturing leaves a correlated list behind.
THEOREM CorrelationsSettle == FairSpec /\ []GuardsEnable => CorrelationSettles
<1>1. Init => JobInHand
  BY DEF Init, JobInHand
<1>2. ASSUME NEW c \in Ids, NEW v \in Versions
      PROVE  FairSpec /\ []GuardsEnable =>
               ((job[c].version = v /\ job[c].alerts # <<>>) ~> (snapshot.correlated \/ corrVersion # v))
  <2>1. JobInHand => (job[c].version = v /\ job[c].alerts # <<>> =>
                        Handed(c, v, "broadcast") \/ Handed(c, v, "kickoff") \/ Settled(v))
    BY DEF JobInHand, NoJob, Handed, Settled
  <2>2. IInv /\ [Next]_vars => SettleMoves(c, v)
    BY CorrelationMoves
  <2>3. IInv => FairSettle(c, v)
    BY FairCorrelation
  <2>4. Fairness => FairCapturer(c) /\ FairResolver(v)
    BY FairOne
  <2>5. GuardsEnable => /\ Handed(c, v, "broadcast") => ENABLED <<CaptureSingle(c)>>_vars
                        /\ Handed(c, v, "kickoff") => ENABLED <<CaptureSingle(c)>>_vars
                        /\ AtWork(v) => ENABLED <<ResolveOne(v)>>_vars
    BY DEF GuardsEnable, CaptureEnabled, ResolveEnabled, Handed, AtWork
  <2>6. Settled(v) <=> snapshot.correlated \/ corrVersion # v
    BY DEF Settled
  <2>7. QED
    BY <1>1, <2>1, <2>2, <2>3, <2>4, <2>5, <2>6, JobInHandStep, Invariance, PTL
       DEF FairSpec, Spec, FairCapturer, FairResolver, SettleMoves, FairSettle
<1>3. QED
  BY <1>2 DEF CorrelationSettles

=============================================================================
