------------------------------ MODULE Dashboard ------------------------------
(***************************************************************************)
(* DashboardServer (src/dashboard/dashboard.go): one goroutine per         *)
(* capturer stores its captures into one shared snapshot and broadcasts;   *)
(* for each stored capture with alerts a goroutine correlates the alert    *)
(* list in the background and installs the result if no newer capture has  *)
(* been stored; browsers load the page, subscribe to /events and fetch the *)
(* page again on every message (dashboard.html:1152-1182,1492-1494).       *)
(*                                                                         *)
(* What runs under d.mu is one step.  An item is known by its capturer and *)
(* capture number, a payload and an alert by a member of a small set;      *)
(* logs, graphs, rules, metrics text and HTML are left out.  Start-up      *)
(* captures one capturer after the other before anything is served.        *)
(***************************************************************************)
EXTENDS Naturals, Sequences, FiniteSets

CONSTANTS
  Capturers,       \* d.Capturers, in order: a sequence of capturer ids
  Name,            \* displayName of each capturer: its type name
  Payloads,        \* what captures may look like
  Browsers,        \* page visits; a browser that comes back is another one
  MaxAlertHistory, \* maxAlertHistory, 50 in the code
  MaxCaptures      \* bound: captures stored per capturer

Ids == {Capturers[i] : i \in DOMAIN Capturers}
Names == {Name[c] : c \in Ids}
NoPayload == ""

ASSUME CapturersAssumption == Capturers \in Seq(Ids) /\ Name \in [Ids -> STRING]
ASSUME PayloadsAssumption == NoPayload \notin Payloads
ASSUME BoundsAssumption == MaxAlertHistory \in Nat \ {0} /\ MaxCaptures \in Nat

VARIABLES
  initial,       \* ensureInitialSnapshot: the position it is at; beyond the end: done
  pc,            \* where each capturer's goroutine is in captureSingle
  captures,      \* captures per capturer, also counts those under way
  fresh,         \* the capture in hand: its payload, number of alerts, changed flag
  lastPayload,   \* d.lastPayload
  items,         \* d.items: capturer, capture number and changed flag (seq 0: none)
  globalAlerts,  \* d.globalAlerts, as ids
  defaults,      \* d.defaultMetrics has been derived
  corrVersion,   \* d.corrVersion
  snapshot,      \* d.snapshot; rev numbers its successive values
  job,           \* version and alerts each capturer passes to kickoffCorrelation
  correlating,   \* correlation goroutines at work
  announcing,    \* correlation goroutines that installed and have not broadcast
  clients,       \* d.clients: the browsers whose channel is registered
  channel,       \* the messages in each browser's channel, capacity one
  visit,         \* where a browser and its /events handler are
  arrived,       \* messages on their way to a browser
  fetching,      \* page requests a browser sent that are not served yet
  served,        \* the newest snapshot served to a browser
  since          \* the snapshot there was when a browser's channel was registered

captureVars == <<initial, pc, captures, fresh, job>>
storeVars == <<lastPayload, items, globalAlerts, defaults, corrVersion>>
browserVars == <<clients, channel, visit, arrived, fetching, served, since>>
vars == <<captureVars, storeVars, snapshot, correlating, announcing, browserVars>>

NoItem == [by |-> "", seq |-> 0, changed |-> FALSE]
NoJob == [version |-> 0, alerts |-> <<>>]

Init ==
  /\ initial = 1
  /\ pc = [c \in Ids |-> "idle"]
  /\ captures = [c \in Ids |-> 0]
  /\ fresh = [c \in Ids |-> [payload |-> NoPayload, alerts |-> 0, changed |-> FALSE]]
  /\ lastPayload = [n \in Names |-> NoPayload]
  /\ items = [n \in Names |-> NoItem]
  /\ globalAlerts = <<>>
  /\ defaults = FALSE
  /\ corrVersion = 0
  /\ snapshot = [rev |-> 0, items |-> items, alerts |-> <<>>, correlated |-> FALSE]
  /\ job = [c \in Ids |-> NoJob]
  /\ correlating = {} /\ announcing = {}
  /\ clients = {}
  /\ channel = [b \in Browsers |-> <<>>]
  /\ visit = [b \in Browsers |-> "away"]
  /\ arrived = [b \in Browsers |-> 0]
  /\ fetching = [b \in Browsers |-> 0]
  /\ served = [b \in Browsers |-> 0]
  /\ since = [b \in Browsers |-> 0]

\* Run serves once ensureInitialSnapshot is through.
Serving == initial > Len(Capturers)
Goto(c, place) == pc' = [pc EXCEPT ![c] = place]

(* captureSingle ------------------------------------------------------------ *)

\* Capture, GetInfo and Evaluate, outside d.mu: a payload (an error is one too)
\* and some alerts.
Capture(c) ==
  /\ pc[c] = "idle" /\ captures[c] < MaxCaptures
  /\ \A i \in DOMAIN Capturers : i = initial => Capturers[i] = c
  /\ captures' = [captures EXCEPT ![c] = @ + 1]
  /\ \E p \in Payloads, n \in {0, 1} :
       fresh' = [fresh EXCEPT ![c] = [payload |-> p, alerts |-> n, changed |-> FALSE]]
  /\ Goto(c, "compare")
  /\ UNCHANGED <<initial, job, storeVars, snapshot, correlating, announcing, browserVars>>

\* Mutant: a first capture counts as changed.
Changed_FirstToo(c) == lastPayload[Name[c]] # fresh[c].payload
Changed(c) ==
  lastPayload[Name[c]] # NoPayload /\ lastPayload[Name[c]] # fresh[c].payload

\* The payload stored last under this name, read under RLock and used after it.
Compare(c) ==
  /\ pc[c] = "compare"
  /\ fresh' = [fresh EXCEPT ![c].changed = Changed(c)]
  /\ Goto(c, "store")
  /\ UNCHANGED <<initial, captures, job, storeVars, snapshot, correlating, announcing, browserVars>>

\* The last MaxAlertHistory alerts.
Newest(alerts) ==
  IF Len(alerts) > MaxAlertHistory
    THEN SubSeq(alerts, Len(alerts) - MaxAlertHistory + 1, Len(alerts)) ELSE alerts

\* The locked part: history, item, default metrics and a new snapshot.
Store(c) ==
  /\ pc[c] = "store"
  /\ globalAlerts' = IF fresh[c].alerts = 0 THEN globalAlerts
                     ELSE Newest(Append(globalAlerts, <<c, captures[c]>>))
  /\ lastPayload' = [lastPayload EXCEPT ![Name[c]] = fresh[c].payload]
  /\ items' = [items EXCEPT ![Name[c]] =
                 [by |-> c, seq |-> captures[c], changed |-> fresh[c].changed]]
  /\ defaults' = (defaults \/ Cardinality({n \in Names : items'[n] # NoItem}) >= Len(Capturers))
  /\ corrVersion' = corrVersion + 1
  /\ snapshot' = [rev |-> snapshot.rev + 1, items |-> items',
                  alerts |-> globalAlerts', correlated |-> FALSE]
  /\ job' = [job EXCEPT ![c] = [version |-> corrVersion', alerts |-> globalAlerts']]
  /\ Goto(c, "broadcast")
  /\ UNCHANGED <<initial, captures, fresh, correlating, announcing, browserVars>>

\* A message into every registered channel that has room.
BroadcastAll ==
  channel' = [b \in Browsers |->
                IF b \in clients /\ channel[b] = <<>> THEN <<"refresh">> ELSE channel[b]]

Broadcast(c) ==
  /\ pc[c] = "broadcast"
  /\ BroadcastAll
  /\ Goto(c, "kickoff")
  /\ UNCHANGED <<initial, captures, fresh, job, storeVars, snapshot, correlating, announcing,
                 clients, visit, arrived, fetching, served, since>>

\* Alerts start a correlation goroutine.  Start-up goes on to the next capturer.
KickoffCorrelation(c) ==
  /\ pc[c] = "kickoff"
  /\ correlating' = correlating \cup (IF job[c].alerts = <<>> THEN {} ELSE {job[c]})
  /\ job' = [job EXCEPT ![c] = NoJob]
  /\ initial' = IF Serving THEN initial ELSE initial + 1
  /\ Goto(c, "idle")
  /\ UNCHANGED <<captures, fresh, storeVars, snapshot, announcing, browserVars>>

(* kickoffCorrelation's goroutine -------------------------------------------- *)

\* Mutant: the result is installed whatever was stored since.
StillNewest_Unchecked(j) == TRUE
\* Mutant: the current version counts as overtaken.
StillNewest_OffByOne(j) == corrVersion < j.version
StillNewest(j) == corrVersion = j.version

\* A capture was stored since: the result is dropped.
DropCorrelation(j) ==
  /\ j \in correlating /\ ~StillNewest(j)
  /\ correlating' = correlating \ {j}
  /\ UNCHANGED <<captureVars, storeVars, snapshot, announcing, browserVars>>

\* Mutant: the result is not broadcast.
InstallCorrelation_Quiet(j) ==
  /\ j \in correlating /\ StillNewest(j)
  /\ correlating' = correlating \ {j}
  /\ snapshot' = [snapshot EXCEPT !.rev = @ + 1, !.alerts = j.alerts, !.correlated = TRUE]
  /\ UNCHANGED <<captureVars, storeVars, announcing, browserVars>>

InstallCorrelation(j) ==
  /\ j \in correlating /\ StillNewest(j)
  /\ correlating' = correlating \ {j}
  /\ announcing' = announcing \cup {j}
  /\ snapshot' = [snapshot EXCEPT !.rev = @ + 1, !.alerts = j.alerts, !.correlated = TRUE]
  /\ UNCHANGED <<captureVars, storeVars, browserVars>>

AnnounceCorrelation(j) ==
  /\ j \in announcing
  /\ announcing' = announcing \ {j}
  /\ BroadcastAll
  /\ UNCHANGED <<captureVars, storeVars, snapshot, correlating,
                 clients, visit, arrived, fetching, served, since>>

(* Browsers and serveEvents --------------------------------------------------- *)

\* The page is loaded.
Visit(b) ==
  /\ Serving /\ visit[b] = "away"
  /\ visit' = [visit EXCEPT ![b] = "loaded"]
  /\ served' = [served EXCEPT ![b] = snapshot.rev]
  /\ UNCHANGED <<captureVars, storeVars, snapshot, correlating, announcing,
                 clients, channel, arrived, fetching, since>>

\* The page opens its EventSource; the handler registers a channel.
Subscribe(b) ==
  /\ visit[b] = "loaded"
  /\ visit' = [visit EXCEPT ![b] = "subscribed"]
  /\ clients' = clients \cup {b}
  /\ since' = [since EXCEPT ![b] = snapshot.rev]
  /\ UNCHANGED <<captureVars, storeVars, snapshot, correlating, announcing,
                 channel, arrived, fetching, served>>

\* The handler writes a message to the event stream.
Deliver(b) ==
  /\ visit[b] = "subscribed" /\ channel[b] # <<>>
  /\ channel' = [channel EXCEPT ![b] = <<>>]
  /\ arrived' = [arrived EXCEPT ![b] = @ + 1]
  /\ UNCHANGED <<captureVars, storeVars, snapshot, correlating, announcing,
                 clients, visit, fetching, served, since>>

\* onmessage calls refreshView, which requests the page; requests may overlap.
Refresh(b) ==
  /\ visit[b] = "subscribed" /\ arrived[b] > 0
  /\ arrived' = [arrived EXCEPT ![b] = @ - 1]
  /\ fetching' = [fetching EXCEPT ![b] = @ + 1]
  /\ UNCHANGED <<captureVars, storeVars, snapshot, correlating, announcing,
                 clients, channel, visit, served, since>>

\* handleDashboard serves the current snapshot.
ServePage(b) ==
  /\ visit[b] = "subscribed" /\ fetching[b] > 0
  /\ fetching' = [fetching EXCEPT ![b] = @ - 1]
  /\ served' = [served EXCEPT ![b] = snapshot.rev]
  /\ UNCHANGED <<captureVars, storeVars, snapshot, correlating, announcing,
                 clients, channel, visit, arrived, since>>

\* Mutant: the channel is closed before it leaves d.clients.
Unsubscribe_StillRegistered(b) ==
  /\ visit[b] = "subscribed"
  /\ visit' = [visit EXCEPT ![b] = "leaving"]
  /\ arrived' = [arrived EXCEPT ![b] = 0]
  /\ fetching' = [fetching EXCEPT ![b] = 0]
  /\ UNCHANGED <<captureVars, storeVars, snapshot, correlating, announcing,
                 clients, channel, served, since>>

\* The request's context ends: the handler unregisters its channel under d.mu ...
Unsubscribe(b) ==
  /\ visit[b] = "subscribed"
  /\ visit' = [visit EXCEPT ![b] = "leaving"]
  /\ clients' = clients \ {b}
  /\ arrived' = [arrived EXCEPT ![b] = 0]
  /\ fetching' = [fetching EXCEPT ![b] = 0]
  /\ UNCHANGED <<captureVars, storeVars, snapshot, correlating, announcing,
                 channel, served, since>>

\* ... and closes it.
CloseChannel(b) ==
  /\ visit[b] = "leaving"
  /\ visit' = [visit EXCEPT ![b] = "closed"]
  /\ channel' = [channel EXCEPT ![b] = <<>>]
  /\ UNCHANGED <<captureVars, storeVars, snapshot, correlating, announcing,
                 clients, arrived, fetching, served, since>>

-----------------------------------------------------------------------------

\* Nothing more happens once the capture bound is reached and everyone has left.
Terminated ==
  /\ \A c \in Ids : pc[c] = "idle" /\ captures[c] = MaxCaptures
  /\ correlating = {} /\ announcing = {}
  /\ \A b \in Browsers : visit[b] = "closed"
  /\ UNCHANGED vars

CaptureSingle(c) ==
  Capture(c) \/ Compare(c) \/ Store(c) \/ Broadcast(c) \/ KickoffCorrelation(c)

Resolve == \E j \in correlating : DropCorrelation(j) \/ InstallCorrelation(j)
Announce == \E j \in announcing : AnnounceCorrelation(j)
Correlation == Resolve \/ Announce

Stream(b) == Deliver(b) \/ Refresh(b) \/ ServePage(b)

Next ==
  \/ \E c \in Ids : CaptureSingle(c)
  \/ Correlation
  \/ \E b \in Browsers :
       Visit(b) \/ Subscribe(b) \/ Stream(b) \/ Unsubscribe(b) \/ CloseChannel(b)
  \/ Terminated

Spec == Init /\ [][Next]_vars

\* The correlation goroutine started for a version.
Versions == 1..(Len(Capturers) * MaxCaptures)
ResolveOne(v) ==
  \E j \in correlating : j.version = v /\ (DropCorrelation(j) \/ InstallCorrelation(j))

FairBrowser(b) == WF_vars(Deliver(b)) /\ WF_vars(Refresh(b)) /\ WF_vars(ServePage(b))

\* Goroutines, handlers and browsers that can go on do; nobody has to visit, subscribe or
\* leave.  A broadcast that is due is due in some goroutine, which is at nothing else.
Fairness ==
  /\ \A c \in Ids : WF_vars(CaptureSingle(c))
  /\ \A v \in Versions : WF_vars(ResolveOne(v))
  /\ WF_vars(Announce \/ \E c \in Ids : Broadcast(c))
  /\ \A b \in Browsers : FairBrowser(b)

FairSpec == Spec /\ Fairness

-----------------------------------------------------------------------------
(* Properties *)

AlertIds == Ids \X (1..MaxCaptures)
Jobs == [version : 1..corrVersion, alerts : Seq(AlertIds)]

\* Every variable has its type; in particular the alert list keeps its limit, a channel
\* its capacity of one, and a channel in d.clients is open (a broadcast to a closed one
\* would panic): it is closed after it left d.clients, and nothing is left in it.
TypeOK ==
  /\ initial \in 1..(Len(Capturers) + 1)
  /\ pc \in [Ids -> {"idle", "compare", "store", "broadcast", "kickoff"}]
  /\ captures \in [Ids -> 0..MaxCaptures]
  /\ lastPayload \in [Names -> Payloads \cup {NoPayload}]
  /\ \A n \in Names : items[n] = NoItem \/ Name[items[n].by] = n
  /\ globalAlerts \in Seq(AlertIds) /\ Len(globalAlerts) <= MaxAlertHistory
  /\ defaults \in BOOLEAN /\ corrVersion \in Nat
  /\ correlating \cup announcing \subseteq Jobs
  /\ clients \subseteq Browsers
  /\ \A b \in Browsers :
       /\ Len(channel[b]) <= 1
       /\ b \in clients => visit[b] = "subscribed"
       /\ visit[b] = "closed" => channel[b] = <<>>

\* What the page shows is what is stored: a correlation that took long never puts
\* back the alerts of an older capture.
SnapshotCurrent ==
  snapshot.rev > 0 => snapshot.items = items /\ snapshot.alerts = globalAlerts

BroadcastPending == announcing # {} \/ \E c \in Ids : pc[c] = "broadcast"

\* A subscribed browser whose page is older than a snapshot made since it
\* subscribed has a message, a request or a broadcast still coming to it,
\* although a full channel drops messages.
NoLostRefresh ==
  \A b \in Browsers :
    visit[b] = "subscribed" /\ served[b] < snapshot.rev /\ since[b] < snapshot.rev =>
      \/ channel[b] # <<>> \/ arrived[b] > 0 \/ fetching[b] > 0
      \/ BroadcastPending

\* The changed flag compares a capture with the one stored before it under its
\* name, although that is read before and outside the storing critical section.
ChangedIsExact ==
  [][\A n \in Names : items'[n] # items[n] =>
       items'[n].changed = (lastPayload[n] # NoPayload /\ lastPayload[n] # lastPayload'[n])]_vars

\* Once pages are served every capturer has its item in the snapshot.
EveryCapturerShown == Serving => \A c \in Ids : \E n \in Names : snapshot.items[n].by = c

\* A snapshot made while a browser is subscribed is fetched by it, or a newer one.
EveryChangeFetched ==
  \A b \in Browsers :
    (visit[b] = "subscribed" /\ served[b] < snapshot.rev /\ since[b] < snapshot.rev)
      ~> (served[b] = snapshot.rev \/ visit[b] # "subscribed")

\* The list of alerts as a capture left it is correlated, unless another capture is stored
\* first: when captures pause, the page ends up with the newest list correlated.
CorrelationSettles ==
  \A c \in Ids, v \in Versions :
    job[c].version = v /\ job[c].alerts # <<>> ~> snapshot.correlated \/ corrVersion # v

=============================================================================
