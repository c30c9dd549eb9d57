---------------------------- MODULE AlertPipeline ----------------------------
(***************************************************************************)
(* AlertPipeline.Process (src/pipeline.go): Detector.Evaluate runs the     *)
(* rules and passes their alerts through AlertDeduper and RateLimiter;     *)
(* what is not flagged goes through ResponseRouter's PolicyEngine, when    *)
(* there is one, and to one responder of the ResponderPipeline after the   *)
(* other, each of which may fail.                                          *)
(*                                                                         *)
(* Callers are the goroutines inside Process.  The program has one: its    *)
(* only pipeline runs under CollectAgent's processMu.  The mutexes of the  *)
(* deduper and the limiter are modelled all the same, with the clock       *)
(* sampled before they are taken.  The clock `now' ticks between any two   *)
(* steps.  What rules find is an input.                                    *)
(***************************************************************************)
EXTENDS Integers, Sequences, FiniteSets

CONSTANTS
  Callers,         \* goroutines that call Process
  Keys,            \* dedup keys
  Batches,         \* what one evaluation of all rules may return: sequences of alerts
  Responders,      \* number of responders of the pipeline (nil ones are skipped)
  Failing,         \* those that may return an error
  Wirings,         \* what may be set: see `wiring'
  DedupWindow,     \* AlertDeduper.Window, 0 is off
  LimitWindow,     \* RateLimiter.Window, 0 is off
  Burst,           \* RateLimiter.Burst
  Cooldown,        \* PolicyEngine.Cooldown, 0 is off
  MinSeverity,     \* PolicyEngine.MinSeverity
  AllowRules,      \* PolicyEngine.AllowRules
  DenyRules,       \* PolicyEngine.DenyRules
  MaxTime,         \* bound: the last clock value
  MaxCalls         \* bound: calls of Process

Severities == {"", "info", "low", "medium", "high", "critical"}
Found == [rule : STRING, key : Keys, severity : Severities]

ASSUME WindowsAssumption ==
  {DedupWindow, LimitWindow, Burst, Cooldown, MaxTime, MaxCalls} \subseteq Nat
ASSUME RespondersAssumption == Responders \in Nat /\ Failing \subseteq 1..Responders
ASSUME WiringsAssumption == Wirings \subseteq {"router", "routerOnly", "responders", "nothing"}
ASSUME PolicyAssumption == MinSeverity \in Severities
ASSUME BatchesAssumption == Batches \subseteq Seq(Found)

severityRank ==
  [s \in Severities |->
     CASE s = "critical" -> 5 [] s = "high" -> 4 [] s = "medium" -> 3
       [] s = "low" -> 2 [] s = "info" -> 1 [] OTHER -> 0]

VARIABLES
  wiring,     \* Router with a Pipeline, Router without, Responder, or neither is set
  now,        \* the clock
  calls,      \* calls of Process so far
  nextId,     \* Alert.ID of the next alert
  pc,         \* where each caller is in Process
  stamp,      \* time.Now() as a Filter sampled it
  todo,       \* alerts the current stage still has to look at
  out,        \* alerts it lets through
  at,         \* responder the current alert goes to next
  errs,       \* errors of the call: which responder's, 0: the router's
  seen,       \* AlertDeduper.seen: expiry per key (0: no entry)
  count,      \* RateLimiter.count
  reset,      \* RateLimiter.reset (-1: no entry)
  last,       \* PolicyEngine.last: end of the cooldown per key (0: no entry)
  passedAt,   \* history: per key, when the deduper let an alert pass
  admittedAt, \* history: per key, when the limiter admitted an alert
  respondAt,  \* history: per key, when the policy let an alert trigger responders
  passed,     \* history: ids the deduper let pass
  flagged,    \* history: ids flagged RateLimited
  refused,    \* history: ids the policy dropped (OnDropped)
  unanswered, \* history: ids let through when no responder was there
  handled     \* history: ids each responder was called with, in order

stateVars == <<seen, count, reset, last>>
histVars == <<passedAt, admittedAt, respondAt, passed, flagged, refused,
              unanswered, handled>>
answerVars == <<wiring, at, errs>>
vars == <<now, calls, nextId, pc, stamp, todo, out, answerVars, stateVars, histVars>>

Init ==
  /\ wiring \in Wirings
  /\ now = 0 /\ calls = 0 /\ nextId = 1
  /\ pc = [c \in Callers |-> "idle"]
  /\ stamp = [c \in Callers |-> 0]
  /\ todo = [c \in Callers |-> <<>>]
  /\ out = [c \in Callers |-> <<>>]
  /\ at = [c \in Callers |-> 1]
  /\ errs = [c \in Callers |-> <<>>]
  /\ seen = [k \in Keys |-> 0]
  /\ count = [k \in Keys |-> 0]
  /\ reset = [k \in Keys |-> -1]
  /\ last = [k \in Keys |-> 0]
  /\ passedAt = [k \in Keys |-> <<>>]
  /\ admittedAt = [k \in Keys |-> <<>>]
  /\ respondAt = [k \in Keys |-> <<>>]
  /\ passed = {} /\ flagged = {} /\ refused = {} /\ unanswered = {}
  /\ handled = [r \in 1..Responders |-> <<>>]

Tick ==
  /\ now < MaxTime
  /\ now' = now + 1
  /\ UNCHANGED <<calls, nextId, pc, stamp, todo, out, answerVars, stateVars, histVars>>

(* Moving between the stages of Process ---------------------------------- *)

Goto(c, stage) == pc' = [pc EXCEPT ![c] = stage]
Return(c) ==
  /\ Goto(c, "idle")
  /\ todo' = [todo EXCEPT ![c] = <<>>]
  /\ out' = [out EXCEPT ![c] = <<>>]
Hand(c, alerts) ==
  /\ todo' = [todo EXCEPT ![c] = alerts]
  /\ out' = [out EXCEPT ![c] = <<>>]
Alert(c) == Head(todo[c])
Pass(c) ==
  /\ todo' = [todo EXCEPT ![c] = Tail(@)]
  /\ out' = [out EXCEPT ![c] = Append(@, Alert(c))]
Drop(c) ==
  /\ todo' = [todo EXCEPT ![c] = Tail(@)]
  /\ UNCHANGED out
Ids(alerts) == {alerts[i].id : i \in DOMAIN alerts}
Note(history, k, t) == [history EXCEPT ![k] = Append(@, t)]

\* Evaluate runs every rule, enriches the alerts (each gets an ID of its own) and
\* calls the deduper, which samples the clock first.
Evaluate(c) ==
  /\ pc[c] = "idle" /\ calls < MaxCalls
  /\ calls' = calls + 1
  /\ \E batch \in Batches :
       /\ Hand(c, [i \in DOMAIN batch |->
                     [id |-> nextId + i - 1, rule |-> batch[i].rule,
                      key |-> batch[i].key, severity |-> batch[i].severity]])
       /\ nextId' = nextId + Len(batch)
  /\ stamp' = [stamp EXCEPT ![c] = now]
  /\ errs' = [errs EXCEPT ![c] = <<>>]
  /\ Goto(c, "dedupWait")
  /\ UNCHANGED <<now, wiring, at, stateVars, histVars>>

(* AlertDeduper.Filter ---------------------------------------------------- *)

\* A filter that is off takes no lock.
LockDeduper(c) ==
  /\ pc[c] = "dedupWait"
  /\ DedupWindow > 0 => \A d \in Callers : pc[d] # "dedup"
  /\ Goto(c, "dedup")
  /\ UNCHANGED <<now, calls, nextId, stamp, todo, out, answerVars, stateVars, histVars>>

Duplicate(c) == DedupWindow > 0 /\ stamp[c] < seen[Alert(c).key]

DedupDrops(c) ==
  /\ pc[c] = "dedup" /\ todo[c] # <<>> /\ Duplicate(c)
  /\ Drop(c)
  /\ UNCHANGED <<now, calls, nextId, pc, stamp, answerVars, stateVars, histVars>>

\* Mutant: an entry that exists is not renewed.
SeenAfter_KeepsFirst(c) == IF seen[Alert(c).key] = 0 THEN stamp[c] + DedupWindow ELSE seen[Alert(c).key]
SeenAfter(c) == stamp[c] + DedupWindow

DedupPasses(c) ==
  /\ pc[c] = "dedup" /\ todo[c] # <<>> /\ ~Duplicate(c)
  /\ Pass(c)
  /\ seen' = IF DedupWindow > 0 THEN [seen EXCEPT ![Alert(c).key] = SeenAfter(c)] ELSE seen
  /\ passedAt' = Note(passedAt, Alert(c).key, stamp[c])
  /\ passed' = passed \cup {Alert(c).id}
  /\ UNCHANGED <<now, calls, nextId, pc, stamp, answerVars, count, reset, last,
                 admittedAt, respondAt, flagged, refused, unanswered, handled>>

\* The deduper unlocks; the limiter samples the clock.  Nothing left: Process is done.
DedupDone(c) ==
  /\ pc[c] = "dedup" /\ todo[c] = <<>>
  /\ IF out[c] = <<>>
       THEN Return(c) /\ UNCHANGED stamp
       ELSE /\ Goto(c, "limitWait")
            /\ Hand(c, out[c])
            /\ stamp' = [stamp EXCEPT ![c] = now]
  /\ UNCHANGED <<now, calls, nextId, answerVars, stateVars, histVars>>

(* RateLimiter.Filter ------------------------------------------------------ *)

Limiting == LimitWindow > 0 /\ Burst > 0

LockLimiter(c) ==
  /\ pc[c] = "limitWait"
  /\ Limiting => \A d \in Callers : pc[d] # "limit"
  /\ Goto(c, "limit")
  /\ UNCHANGED <<now, calls, nextId, stamp, todo, out, answerVars, stateVars, histVars>>

WindowOver(c) == stamp[c] > reset[Alert(c).key]
CountBefore(c) == IF WindowOver(c) THEN 0 ELSE count[Alert(c).key]
\* Mutant: a window that is over is not followed by a new one.
ResetBefore_NotAdvanced(c) == IF reset[Alert(c).key] = -1 THEN stamp[c] + LimitWindow ELSE reset[Alert(c).key]
ResetBefore(c) == IF WindowOver(c) THEN stamp[c] + LimitWindow ELSE reset[Alert(c).key]

\* Mutant: one alert more than the burst.
Room_OffByOne(c) == CountBefore(c) <= Burst
Room(c) == CountBefore(c) < Burst

\* The alert goes on, flagged; Process will not deliver it.
LimiterFlags(c) ==
  /\ pc[c] = "limit" /\ todo[c] # <<>>
  /\ Limiting /\ ~Room(c)
  /\ Drop(c)
  /\ flagged' = flagged \cup {Alert(c).id}
  /\ count' = [count EXCEPT ![Alert(c).key] = CountBefore(c)]
  /\ reset' = [reset EXCEPT ![Alert(c).key] = ResetBefore(c)]
  /\ UNCHANGED <<now, calls, nextId, pc, stamp, answerVars, seen, last,
                 passedAt, admittedAt, respondAt, passed, refused, unanswered, handled>>

LimiterAdmits(c) ==
  /\ pc[c] = "limit" /\ todo[c] # <<>>
  /\ Limiting => Room(c)
  /\ Pass(c)
  /\ count' = IF Limiting
                THEN [count EXCEPT ![Alert(c).key] = CountBefore(c) + 1] ELSE count
  /\ reset' = IF Limiting THEN [reset EXCEPT ![Alert(c).key] = ResetBefore(c)] ELSE reset
  /\ admittedAt' = Note(admittedAt, Alert(c).key, stamp[c])
  /\ UNCHANGED <<now, calls, nextId, pc, stamp, answerVars, seen, last,
                 passedAt, respondAt, passed, flagged, refused, unanswered, handled>>

\* To the responders, if there are any; alerts and no error are returned if not.
Deliver(c) ==
  IF wiring \in {"router", "responders"} /\ Responders > 0
    THEN Goto(c, "deliver") /\ Hand(c, out[c]) /\ UNCHANGED unanswered
    ELSE Return(c) /\ unanswered' = unanswered \cup Ids(out[c])

\* Process delivers what is not flagged, through the router if there is one.
LimitDone(c) ==
  /\ pc[c] = "limit" /\ todo[c] = <<>>
  /\ CASE out[c] = <<>> -> Return(c) /\ UNCHANGED unanswered
       [] out[c] # <<>> /\ wiring \in {"router", "routerOnly"} ->
            Goto(c, "policy") /\ Hand(c, out[c]) /\ UNCHANGED unanswered
       [] OTHER -> Deliver(c)
  /\ UNCHANGED <<now, calls, nextId, stamp, answerVars, stateVars,
                 passedAt, admittedAt, respondAt, passed, flagged, refused, handled>>

(* ResponseRouter.Run and PolicyEngine.ShouldRespond ------------------------ *)

RuleAllowed(a) ==
  /\ a.rule \notin DenyRules
  /\ AllowRules # {} => a.rule \in AllowRules
  /\ MinSeverity # "" => severityRank[a.severity] >= severityRank[MinSeverity]

CoolingDown(a) == Cooldown > 0 /\ now < last[a.key]

PolicyRefuses(c) ==
  /\ pc[c] = "policy" /\ todo[c] # <<>>
  /\ ~RuleAllowed(Alert(c)) \/ CoolingDown(Alert(c))
  /\ Drop(c)
  /\ refused' = refused \cup {Alert(c).id}
  /\ UNCHANGED <<now, calls, nextId, pc, stamp, answerVars, stateVars,
                 passedAt, admittedAt, respondAt, passed, flagged, unanswered, handled>>

\* Mutant: a cooldown that is over is not started again.
LastAfter_KeepsFirst(c) == IF last[Alert(c).key] = 0 THEN now + Cooldown ELSE last[Alert(c).key]
LastAfter(c) == now + Cooldown

PolicyAccepts(c) ==
  /\ pc[c] = "policy" /\ todo[c] # <<>>
  /\ RuleAllowed(Alert(c)) /\ ~CoolingDown(Alert(c))
  /\ Pass(c)
  /\ last' = IF Cooldown > 0 THEN [last EXCEPT ![Alert(c).key] = LastAfter(c)] ELSE last
  /\ respondAt' = Note(respondAt, Alert(c).key, now)
  /\ UNCHANGED <<now, calls, nextId, pc, stamp, answerVars, seen, count, reset,
                 passedAt, admittedAt, passed, flagged, refused, unanswered, handled>>

\* A router without a pipeline returns an error of its own when something is left.
PolicyDone(c) ==
  /\ pc[c] = "policy" /\ todo[c] = <<>>
  /\ IF out[c] = <<>> THEN Return(c) /\ UNCHANGED unanswered ELSE Deliver(c)
  /\ errs' = IF out[c] # <<>> /\ wiring = "routerOnly"
               THEN [errs EXCEPT ![c] = Append(@, 0)] ELSE errs
  /\ UNCHANGED <<now, calls, nextId, stamp, wiring, at, stateVars,
                 passedAt, admittedAt, respondAt, passed, flagged, refused, handled>>

(* ResponderPipeline.Run ---------------------------------------------------- *)

Call(c) == handled' = [handled EXCEPT ![at[c]] = Append(@, Alert(c).id)]
Failed(c) == at[c] \in Failing /\ errs' = [errs EXCEPT ![c] = Append(@, at[c])]
NextResponder(c) ==
  /\ at[c] < Responders
  /\ at' = [at EXCEPT ![c] = @ + 1]
  /\ UNCHANGED <<todo, out>>
NextAlert(c) ==
  /\ at' = [at EXCEPT ![c] = 1]
  /\ Drop(c)

\* Mutant: the first error ends the alert's round.
Handle_StopsAtError(c) ==
  /\ pc[c] = "deliver" /\ todo[c] # <<>>
  /\ Call(c)
  /\ \/ /\ UNCHANGED errs
        /\ NextResponder(c) \/ (at[c] = Responders /\ NextAlert(c))
     \/ Failed(c) /\ NextAlert(c)
  /\ UNCHANGED <<now, calls, nextId, pc, stamp, wiring, stateVars,
                 passedAt, admittedAt, respondAt, passed, flagged, refused, unanswered>>

\* One responder is called with the alert; an error is collected, and the next responder
\* is called all the same.
Handle(c) ==
  /\ pc[c] = "deliver" /\ todo[c] # <<>>
  /\ Call(c)
  /\ UNCHANGED errs \/ Failed(c)
  /\ NextResponder(c) \/ (at[c] = Responders /\ NextAlert(c))
  /\ UNCHANGED <<now, calls, nextId, pc, stamp, wiring, stateVars,
                 passedAt, admittedAt, respondAt, passed, flagged, refused, unanswered>>

DeliverDone(c) ==
  /\ pc[c] = "deliver" /\ todo[c] = <<>>
  /\ Return(c)
  /\ UNCHANGED <<now, calls, nextId, stamp, answerVars, stateVars, histVars>>

-----------------------------------------------------------------------------

Process(c) ==
  \/ Evaluate(c)
  \/ LockDeduper(c) \/ DedupDrops(c) \/ DedupPasses(c) \/ DedupDone(c)
  \/ LockLimiter(c) \/ LimiterFlags(c) \/ LimiterAdmits(c) \/ LimitDone(c)
  \/ PolicyRefuses(c) \/ PolicyAccepts(c) \/ PolicyDone(c)
  \/ Handle(c) \/ DeliverDone(c)

\* The bounds are reached.
Terminated ==
  /\ now = MaxTime /\ calls = MaxCalls /\ \A c \in Callers : pc[c] = "idle"
  /\ UNCHANGED vars

Next == Tick \/ (\E c \in Callers : Process(c)) \/ Terminated

Spec == Init /\ [][Next]_vars

-----------------------------------------------------------------------------
(* Properties *)

Elems(q) == {q[i] : i \in DOMAIN q}
NoRepeats(q) == \A i, j \in DOMAIN q : i # j => q[i] # q[j]
SpacedBy(times, gap) == \A i, j \in DOMAIN times : i < j => times[j] >= times[i] + gap

Alerts ==
  [id : 1..nextId, rule : STRING, key : Keys, severity : Severities]
Stages == {"idle", "dedupWait", "dedup", "limitWait", "limit", "policy", "deliver"}

\* Every variable has its type; in particular no key's count exceeds the burst.
TypeOK ==
  /\ now \in 0..MaxTime /\ calls \in 0..MaxCalls /\ nextId \in Nat \ {0}
  /\ pc \in [Callers -> Stages]
  /\ stamp \in [Callers -> 0..MaxTime]
  /\ wiring \in Wirings
  /\ \A c \in Callers : Elems(todo[c]) \cup Elems(out[c]) \subseteq Alerts
  /\ \A c \in Callers : at[c] \in 1..Responders \cup {1}
  /\ errs \in [Callers -> Seq(0..Responders)]
  /\ seen \in [Keys -> 0..(MaxTime + DedupWindow)]
  /\ count \in [Keys -> 0..Burst]
  /\ reset \in [Keys -> -1..(MaxTime + LimitWindow)]
  /\ last \in [Keys -> 0..(MaxTime + Cooldown)]

\* detection.go:153: alerts with one key that pass the deduper are a window apart, in
\* one call of Process or in several.
DedupSpacing == \A k \in Keys : DedupWindow > 0 => SpacedBy(passedAt[k], DedupWindow)

\* detection.go:187: the limiter's windows are fixed: across two of them at most twice
\* the burst is admitted in any interval as long as the window, when calls do not race.
BurstBounded ==
  \A k \in Keys : \A i, j \in DOMAIN admittedAt[k] :
    Limiting /\ j = i + 2 * Burst => admittedAt[k][j] - admittedAt[k][i] > LimitWindow

\* response.go:14: the cooldown is per dedup key; two alerts with one key trigger
\* responders a cooldown apart.
CooldownSpacing == \A k \in Keys : Cooldown > 0 => SpacedBy(respondAt[k], Cooldown)

\* A caller's alerts between the deduper and responder r.
InFlight(c, r) ==
  Ids(out[c]) \cup CASE pc[c] \in {"dedupWait", "dedup"} -> {}
                     [] pc[c] = "deliver" /\ r < at[c]  -> Ids(Tail(todo[c]))
                     [] OTHER                           -> Ids(todo[c])

\* An alert the deduper let pass is not lost and not handled twice, for each responder:
\* it is on its way to the responder, flagged, refused by the policy, let through where
\* there is no responder, or this one was called with it once, also when the ones before
\* it failed.
EveryAlertAccounted ==
  \A r \in 1..Responders :
    LET places == <<UNION {InFlight(c, r) : c \in Callers}, flagged, refused, unanswered,
                    Elems(handled[r])>> IN
    /\ passed = UNION Elems(places)
    /\ \A i, j \in DOMAIN places : i # j => places[i] \cap places[j] = {}
    /\ NoRepeats(handled[r])

=============================================================================
