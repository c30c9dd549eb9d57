------------------------- MODULE AlertPipelineProofs -------------------------
(***************************************************************************)
(* Theorems about AlertPipeline for every number of callers, every batch   *)
(* of alerts and every window, proved with TLAPS.  The deduper and the     *)
(* policy's cooldown keep alerts of one key apart.  After the deduper no   *)
(* alert is lost, and no responder is called with one twice, however the   *)
(* responders fail and whatever of them is set.  With one caller, as in    *)
(* the program, what the rate limiter admits is bounded over any interval  *)
(* as long as its window, although its windows do not slide.  Last, type   *)
(* correctness, with no key's count past the burst.                        *)
(***************************************************************************)
EXTENDS AlertPipeline, SequenceTheorems, TLAPS

Raised == [id : Nat, rule : STRING, key : Keys, severity : Severities]

\* The times are spaced, and the entry kept for the key is past all of them.
SpacedUntil(times, gap, end) ==
  SpacedBy(times, gap) /\ \A i \in DOMAIN times : times[i] + gap <= end

ClockTypes ==
  /\ now \in Nat /\ nextId \in Nat
  /\ stamp \in [Callers -> Nat]
AlertTypes == todo \in [Callers -> Seq(Raised)] /\ out \in [Callers -> Seq(Raised)]
SeenTypes == seen \in [Keys -> Nat] /\ passedAt \in [Keys -> Seq(Nat)]
LastTypes == last \in [Keys -> Nat] /\ respondAt \in [Keys -> Seq(Nat)]
Types == ClockTypes /\ AlertTypes /\ SeenTypes /\ LastTypes

SeenInv == DedupWindow > 0 => \A k \in Keys : SpacedUntil(passedAt[k], DedupWindow, seen[k])
LastInv == Cooldown > 0 => \A k \in Keys : SpacedUntil(respondAt[k], Cooldown, last[k])

\* A time at or after the kept entry may be appended: the times stay spaced and the
\* new entry is past them.
LEMMA AppendSpaced ==
  ASSUME NEW times \in Seq(Nat), NEW gap \in Nat, NEW end \in Nat, NEW t \in Nat,
         SpacedUntil(times, gap, end), end <= t
  PROVE  SpacedUntil(Append(times, t), gap, t + gap)
<1> DEFINE more == Append(times, t)
<1>1. DOMAIN more = 1..(Len(times) + 1) /\ DOMAIN times = 1..Len(times) /\ Len(times) \in Nat
  OBVIOUS
<1>2. more[Len(times) + 1] = t /\ \A i \in 1..Len(times) : more[i] = times[i] /\ times[i] \in Nat
  OBVIOUS
<1>3. ASSUME NEW i \in 1..Len(times) PROVE times[i] + gap <= t
  <2>1. times[i] + gap <= end
    BY <1>1 DEF SpacedUntil
  <2>2. times[i] \in Nat
    BY <1>2
  <2>3. QED
    BY <2>1, <2>2
<1>4. \A i, j \in 1..Len(times) : i < j => times[j] >= times[i] + gap
  BY <1>1 DEF SpacedUntil, SpacedBy
<1> HIDE DEF more
<1>5. \A i, j \in DOMAIN more : i < j => more[j] >= more[i] + gap
  <2> SUFFICES ASSUME NEW i \in DOMAIN more, NEW j \in DOMAIN more, i < j
               PROVE  more[j] >= more[i] + gap
    OBVIOUS
  <2>1. i \in 1..Len(times) /\ more[i] = times[i] /\ times[i] \in Nat
    BY <1>1, <1>2
  <2>2. CASE j = Len(times) + 1
    BY <2>1, <2>2, <1>2, <1>3
  <2>3. CASE j \in 1..Len(times)
    BY <2>1, <2>3, <1>2, <1>4
  <2>4. QED
    BY <2>2, <2>3, <1>1
<1>6. \A i \in DOMAIN more : more[i] + gap <= t + gap
  <2> SUFFICES ASSUME NEW i \in DOMAIN more PROVE more[i] + gap <= t + gap
    OBVIOUS
  <2>1. CASE i = Len(times) + 1
    BY <2>1, <1>2
  <2>2. CASE i \in 1..Len(times)
    BY <2>2, <1>2, <1>3
  <2>3. QED
    BY <2>1, <2>2, <1>1
<1>7. QED
  BY <1>5, <1>6 DEF SpacedUntil, SpacedBy, more

-----------------------------------------------------------------------------
(* Types *)

\* Initially every variable has its type, and no time has been noted.
LEMMA InitFacts == Init => Types /\ SeenInv /\ LastInv
<1> SUFFICES ASSUME Init PROVE Types /\ SeenInv /\ LastInv
  OBVIOUS
<1>1. Types
  BY DEF Init, Types, ClockTypes, AlertTypes, SeenTypes, LastTypes
<1>2. SeenInv
  BY DEF Init, SeenInv, SpacedUntil, SpacedBy
<1>3. LastInv
  BY DEF Init, LastInv, SpacedUntil, SpacedBy
<1>4. QED
  BY <1>1, <1>2, <1>3

\* The alert a stage looks at has been raised.
LEMMA AlertRaised ==
  ASSUME AlertTypes, NEW c \in Callers, todo[c] # <<>>
  PROVE  Alert(c) \in Raised /\ Tail(todo[c]) \in Seq(Raised) /\ Alert(c).key \in Keys
<1>1. todo[c] \in Seq(Raised)
  BY DEF AlertTypes
<1>2. Head(todo[c]) \in Raised /\ Tail(todo[c]) \in Seq(Raised)
  BY <1>1
<1>3. QED
  BY <1>2 DEF Alert, Raised

\* Handing the alert on or dropping it keeps the lists lists of alerts.
LEMMA StageTypes ==
  ASSUME AlertTypes, NEW c \in Callers
  PROVE  /\ todo[c] # <<>> /\ (Pass(c) \/ Drop(c)) => AlertTypes'
         /\ Return(c) \/ Hand(c, out[c]) => AlertTypes'
<1>1. ASSUME todo[c] # <<>>, Pass(c) \/ Drop(c) PROVE AlertTypes'
  <2>1. Alert(c) \in Raised /\ Tail(todo[c]) \in Seq(Raised)
    BY <1>1, AlertRaised
  <2>2. Append(out[c], Alert(c)) \in Seq(Raised)
    BY <2>1 DEF AlertTypes
  <2>3. QED
    BY <1>1, <2>1, <2>2 DEF AlertTypes, Pass, Drop
<1>2. ASSUME Return(c) \/ Hand(c, out[c]) PROVE AlertTypes'
  <2>1. <<>> \in Seq(Raised) /\ out[c] \in Seq(Raised)
    BY DEF AlertTypes
  <2>2. CASE Return(c)
    BY <2>1, <2>2 DEF AlertTypes, Return
  <2>3. CASE Hand(c, out[c])
    BY <2>1, <2>3 DEF AlertTypes, Hand
  <2>4. QED
    BY <1>2, <2>2, <2>3
<1>3. QED
  BY <1>1, <1>2

\* What evaluation raises has the form of an alert.
LEMMA EvaluateTypes ==
  ASSUME ClockTypes, AlertTypes, NEW c \in Callers, Evaluate(c)
  PROVE  AlertTypes' /\ nextId' \in Nat
<1>1. PICK batch \in Batches :
        /\ Hand(c, [i \in DOMAIN batch |->
                      [id |-> nextId + i - 1, rule |-> batch[i].rule,
                       key |-> batch[i].key, severity |-> batch[i].severity]])
        /\ nextId' = nextId + Len(batch)
  BY DEF Evaluate
<1>2. batch \in Seq(Found)
  BY BatchesAssumption
<1>3. DOMAIN batch = 1..Len(batch) /\ Len(batch) \in Nat /\ nextId \in Nat
  BY <1>2 DEF ClockTypes
<1> DEFINE raised(i) == [id |-> nextId + i - 1, rule |-> batch[i].rule,
                         key |-> batch[i].key, severity |-> batch[i].severity]
<1>4. \A i \in 1..Len(batch) : raised(i) \in Raised
  <2> SUFFICES ASSUME NEW i \in 1..Len(batch) PROVE raised(i) \in Raised
    OBVIOUS
  <2>1. batch[i] \in Found
    BY <1>2
  <2>2. nextId + i - 1 \in Nat
    BY <1>3
  <2>3. QED
    BY <2>1, <2>2 DEF Raised, Found
<1> HIDE DEF raised
<1>5. [i \in 1..Len(batch) |-> raised(i)] \in Seq(Raised)
  BY <1>3, <1>4
<1>6. Hand(c, [i \in 1..Len(batch) |-> raised(i)])
  BY <1>1, <1>3 DEF raised
<1>7. QED
  BY <1>1, <1>3, <1>5, <1>6 DEF AlertTypes, Hand

\* Every step preserves the types.
LEMMA TypesStep == Types /\ [Next]_vars => Types'
<1> SUFFICES ASSUME Types, [Next]_vars PROVE Types'
  OBVIOUS
<1> USE DEF Types
<1>0. DedupWindow \in Nat /\ Cooldown \in Nat
  BY WindowsAssumption
<1>1. CASE Tick
  BY <1>1 DEF Tick, ClockTypes, AlertTypes, SeenTypes, LastTypes, stateVars, histVars
<1>2. ASSUME NEW c \in Callers, Process(c) PROVE Types'
  <2>1. CASE Evaluate(c)
    <3>1. AlertTypes' /\ nextId' \in Nat
      BY <2>1, EvaluateTypes
    <3>2. ClockTypes'
      BY <2>1, <3>1 DEF Evaluate, ClockTypes
    <3>3. SeenTypes' /\ LastTypes'
      BY <2>1 DEF Evaluate, SeenTypes, LastTypes, stateVars, histVars
    <3>4. QED
      BY <3>1, <3>2, <3>3
  <2>2. CASE LockDeduper(c) \/ LockLimiter(c)
    BY <2>2 DEF LockDeduper, LockLimiter, ClockTypes, AlertTypes, SeenTypes, LastTypes,
                stateVars, histVars
  <2>3. CASE DedupDrops(c) \/ LimiterFlags(c) \/ LimiterAdmits(c) \/ PolicyRefuses(c) \/ Handle(c)
    <3>1. AlertTypes'
      <4>1. UNCHANGED <<todo, out>> => AlertTypes'
        BY DEF AlertTypes
      <4>2. todo[c] # <<>> /\ (Pass(c) \/ Drop(c) \/ UNCHANGED <<todo, out>>)
        BY <2>3 DEF DedupDrops, LimiterFlags, LimiterAdmits, PolicyRefuses, Handle,
                    NextResponder, NextAlert
      <4>3. QED
        BY <4>1, <4>2, StageTypes
    <3>2. ClockTypes' /\ SeenTypes' /\ LastTypes'
      BY <2>3 DEF DedupDrops, LimiterFlags, LimiterAdmits, PolicyRefuses, Handle,
                  ClockTypes, SeenTypes, LastTypes, stateVars, histVars
    <3>3. QED
      BY <3>1, <3>2
  <2>4. CASE DedupDone(c) \/ LimitDone(c) \/ PolicyDone(c) \/ DeliverDone(c)
    <3>1. AlertTypes'
      BY <2>4, StageTypes DEF DedupDone, LimitDone, PolicyDone, DeliverDone, Deliver
    <3>2. ClockTypes' /\ SeenTypes' /\ LastTypes'
      BY <2>4 DEF DedupDone, LimitDone, PolicyDone, DeliverDone,
                  ClockTypes, SeenTypes, LastTypes, stateVars, histVars
    <3>3. QED
      BY <3>1, <3>2
  <2>5. CASE DedupPasses(c)
    <3>1. AlertTypes' /\ Alert(c).key \in Keys
      BY <2>5, StageTypes, AlertRaised DEF DedupPasses
    <3>2. ClockTypes' /\ LastTypes'
      BY <2>5 DEF DedupPasses, ClockTypes, LastTypes
    <3>3. SeenTypes'
      BY <2>5, <3>1, <1>0 DEF DedupPasses, ClockTypes, SeenTypes, SeenAfter, Note
    <3>4. QED
      BY <3>1, <3>2, <3>3
  <2>6. CASE PolicyAccepts(c)
    <3>1. AlertTypes' /\ Alert(c).key \in Keys
      BY <2>6, StageTypes, AlertRaised DEF PolicyAccepts
    <3>2. ClockTypes' /\ SeenTypes'
      BY <2>6 DEF PolicyAccepts, ClockTypes, SeenTypes
    <3>3. LastTypes'
      BY <2>6, <3>1, <1>0 DEF PolicyAccepts, ClockTypes, LastTypes, LastAfter, Note
    <3>4. QED
      BY <3>1, <3>2, <3>3
  <2>7. QED
    BY <1>2, <2>1, <2>2, <2>3, <2>4, <2>5, <2>6 DEF Process
<1>3. CASE UNCHANGED vars
  BY <1>3 DEF vars, ClockTypes, AlertTypes, SeenTypes, LastTypes, stateVars, histVars
<1>4. QED
  BY <1>1, <1>2, <1>3 DEF Next, Terminated

-----------------------------------------------------------------------------
(* Spacing *)

\* Only DedupPasses touches what the deduper keeps.
LEMMA SeenFrame ==
  ASSUME [Next]_vars
  PROVE  (\E c \in Callers : DedupPasses(c)) \/ UNCHANGED <<seen, passedAt>>
<1> USE DEF stateVars, histVars
<1>1. ASSUME NEW c \in Callers, Process(c)
      PROVE  DedupPasses(c) \/ UNCHANGED <<seen, passedAt>>
  BY <1>1 DEF Process, Evaluate, LockDeduper, DedupDrops, DedupDone, LockLimiter,
              LimiterFlags, LimiterAdmits, LimitDone, PolicyRefuses, PolicyAccepts,
              PolicyDone, Handle, DeliverDone
<1>2. QED
  BY <1>1 DEF Next, Tick, Terminated, vars

\* Only PolicyAccepts touches what the policy keeps.
LEMMA LastFrame ==
  ASSUME [Next]_vars
  PROVE  (\E c \in Callers : PolicyAccepts(c)) \/ UNCHANGED <<last, respondAt>>
<1> USE DEF stateVars, histVars
<1>1. ASSUME NEW c \in Callers, Process(c)
      PROVE  PolicyAccepts(c) \/ UNCHANGED <<last, respondAt>>
  BY <1>1 DEF Process, Evaluate, LockDeduper, DedupDrops, DedupPasses, DedupDone,
              LockLimiter, LimiterFlags, LimiterAdmits, LimitDone, PolicyRefuses,
              PolicyDone, Handle, DeliverDone
<1>2. QED
  BY <1>1 DEF Next, Tick, Terminated, vars

\* An alert passes only if its time is at or after the kept entry.
LEMMA SeenInvStep == Types /\ SeenInv /\ [Next]_vars => SeenInv'
<1> SUFFICES ASSUME Types, SeenInv, [Next]_vars, DedupWindow > 0, NEW k \in Keys
             PROVE  SpacedUntil(passedAt[k], DedupWindow, seen[k])'
  BY DEF SeenInv
<1>0. /\ SpacedUntil(passedAt[k], DedupWindow, seen[k])
      /\ seen[k] \in Nat /\ passedAt[k] \in Seq(Nat) /\ DedupWindow \in Nat
  BY WindowsAssumption DEF SeenInv, Types, SeenTypes
<1>1. ASSUME NEW c \in Callers, DedupPasses(c), Alert(c).key = k
      PROVE  SpacedUntil(passedAt[k], DedupWindow, seen[k])'
  <2>1. stamp[c] \in Nat /\ seen[k] <= stamp[c]
    BY <1>0, <1>1 DEF DedupPasses, Duplicate, Types, ClockTypes
  <2>2. SpacedUntil(Append(passedAt[k], stamp[c]), DedupWindow, stamp[c] + DedupWindow)
    BY <1>0, <2>1, AppendSpaced
  <2>3. passedAt'[k] = Append(passedAt[k], stamp[c]) /\ seen'[k] = stamp[c] + DedupWindow
    BY <1>1 DEF DedupPasses, Note, SeenAfter, Types, SeenTypes
  <2>4. QED
    BY <2>2, <2>3 DEF SpacedUntil, SpacedBy
<1>2. ASSUME NEW c \in Callers, DedupPasses(c), Alert(c).key # k
      PROVE  SpacedUntil(passedAt[k], DedupWindow, seen[k])'
  <2>1. passedAt'[k] = passedAt[k] /\ seen'[k] = seen[k]
    BY <1>2 DEF DedupPasses, Note, Types, SeenTypes
  <2>2. QED
    BY <1>0, <2>1 DEF SpacedUntil, SpacedBy
<1>3. CASE UNCHANGED <<seen, passedAt>>
  BY <1>0, <1>3 DEF SpacedUntil, SpacedBy
<1>4. QED
  BY <1>1, <1>2, <1>3, SeenFrame

\* The same for the policy's cooldown.
LEMMA LastInvStep == Types /\ LastInv /\ [Next]_vars => LastInv'
<1> SUFFICES ASSUME Types, LastInv, [Next]_vars, Cooldown > 0, NEW k \in Keys
             PROVE  SpacedUntil(respondAt[k], Cooldown, last[k])'
  BY DEF LastInv
<1>0. /\ SpacedUntil(respondAt[k], Cooldown, last[k])
      /\ last[k] \in Nat /\ respondAt[k] \in Seq(Nat) /\ Cooldown \in Nat
  BY WindowsAssumption DEF LastInv, Types, LastTypes
<1>1. ASSUME NEW c \in Callers, PolicyAccepts(c), Alert(c).key = k
      PROVE  SpacedUntil(respondAt[k], Cooldown, last[k])'
  <2>1. now \in Nat /\ last[k] <= now
    BY <1>0, <1>1 DEF PolicyAccepts, CoolingDown, Types, ClockTypes
  <2>2. SpacedUntil(Append(respondAt[k], now), Cooldown, now + Cooldown)
    BY <1>0, <2>1, AppendSpaced
  <2>3. respondAt'[k] = Append(respondAt[k], now) /\ last'[k] = now + Cooldown
    BY <1>1 DEF PolicyAccepts, Note, LastAfter, Types, LastTypes
  <2>4. QED
    BY <2>2, <2>3 DEF SpacedUntil, SpacedBy
<1>2. ASSUME NEW c \in Callers, PolicyAccepts(c), Alert(c).key # k
      PROVE  SpacedUntil(respondAt[k], Cooldown, last[k])'
  <2>1. respondAt'[k] = respondAt[k] /\ last'[k] = last[k]
    BY <1>2 DEF PolicyAccepts, Note, Types, LastTypes
  <2>2. QED
    BY <1>0, <2>1 DEF SpacedUntil, SpacedBy
<1>3. CASE UNCHANGED <<last, respondAt>>
  BY <1>0, <1>3 DEF SpacedUntil, SpacedBy
<1>4. QED
  BY <1>1, <1>2, <1>3, LastFrame

-----------------------------------------------------------------------------

\* AlertDeduper.Filter (detection.go:161-185): alerts with one key that pass are a
\* window apart, for every window and batch, and were there more callers than the program
\* has.
THEOREM DeduperSpaces == Spec => []DedupSpacing
<1>1. Init => Types /\ SeenInv
  BY InitFacts
<1>2. Types /\ SeenInv /\ [Next]_vars => Types' /\ SeenInv'
  BY TypesStep, SeenInvStep
<1>3. SeenInv => DedupSpacing
  BY DEF SeenInv, DedupSpacing, SpacedUntil
<1>4. QED
  BY <1>1, <1>2, <1>3, PTL DEF Spec

\* PolicyEngine.ShouldRespond (response.go:24-53): alerts with one key that reach
\* responders are a cooldown apart, for every cooldown and policy.
THEOREM PolicySpaces == Spec => []CooldownSpacing
<1>1. Init => Types /\ LastInv
  BY InitFacts
<1>2. Types /\ LastInv /\ [Next]_vars => Types' /\ LastInv'
  BY TypesStep, LastInvStep
<1>3. LastInv => CooldownSpacing
  BY DEF LastInv, CooldownSpacing, SpacedUntil
<1>4. QED
  BY <1>1, <1>2, <1>3, PTL DEF Spec

-----------------------------------------------------------------------------
(* Where every alert is, and what the rate limiter admits *)

\* The ids a stage still has to look at, and those it lets through.
T(c) == Ids(todo[c])
O(c) == Ids(out[c])

Early == {"dedupWait", "dedup"}
Waiting(c) == IF pc[c] \in Early THEN T(c) ELSE {}
Going(c) == O(c) \cup (IF pc[c] \in Early THEN {} ELSE T(c))
H(r) == Elems(handled[r])
Aside == flagged \cup refused \cup unanswered

\* What responder r is still to be called with: it has had the alert whose round is past it.
GoingTo(c, r) ==
  IF pc[c] = "deliver" /\ r < at[c] THEN Going(c) \ {Alert(c).id} ELSE Going(c)

Distinct(q) == \A i, j \in DOMAIN q : i # j => q[i].id # q[j].id

\* Callers work on alerts of their own, each of them once; ids are given in order.
LineInv ==
  /\ pc \in [Callers -> Stages] /\ nextId >= 1
  /\ \A c \in Callers :
       /\ pc[c] = "idle" => todo[c] = <<>>
       /\ pc[c] \in {"idle", "dedupWait", "deliver"} => out[c] = <<>>
       /\ Distinct(todo[c]) /\ Distinct(out[c]) /\ T(c) \cap O(c) = {}
       /\ \A x \in T(c) \cup O(c) : 1 <= x /\ x < nextId
  /\ \A c, d \in Callers : c # d => (T(c) \cup O(c)) \cap (T(d) \cup O(d)) = {}

\* A round is under way only while there is an alert to deliver.
AnswerInv ==
  /\ at \in [Callers -> 1..Responders \cup {1}] /\ errs \in [Callers -> Seq(0..Responders)]
  /\ handled \in [1..Responders -> Seq(Nat)]
  /\ \A c \in Callers : /\ pc[c] = "deliver" => at[c] \in 1..Responders
                        /\ at[c] # 1 => pc[c] = "deliver" /\ todo[c] # <<>>

\* What the deduper let pass is in exactly one place.
PlaceInv ==
  /\ \A x \in passed : x \in Nat /\ x < nextId
  /\ Aside \subseteq passed
  /\ flagged \cap refused = {} /\ flagged \cap unanswered = {} /\ refused \cap unanswered = {}
  /\ \A c \in Callers :
       /\ Waiting(c) \cap passed = {} /\ Going(c) \subseteq passed
       /\ Going(c) \cap Aside = {}
HandledInv ==
  \A r \in 1..Responders :
    /\ H(r) \subseteq passed /\ H(r) \cap Aside = {} /\ NoRepeats(handled[r])
    /\ \A c \in Callers : GoingTo(c, r) \cap H(r) = {}
    /\ \A x \in passed : x \in Aside \cup H(r) \/ \E c \in Callers : x \in GoingTo(c, r)

-----------------------------------------------------------------------------
(* Sequences of alerts *)

\* What Tail and Append do to the ids of a list.
LEMMA ListFacts ==
  ASSUME NEW q \in Seq(Raised)
  PROVE  /\ Ids(q) \subseteq Nat
         /\ q # <<>> => /\ Head(q) \in Raised /\ Head(q).id \in Ids(q) /\ Tail(q) \in Seq(Raised)
                        /\ Ids(q) = Ids(Tail(q)) \cup {Head(q).id}
                        /\ Distinct(q) => Distinct(Tail(q)) /\ Head(q).id \notin Ids(Tail(q))
         /\ \A a \in Raised : /\ Append(q, a) \in Seq(Raised)
                              /\ Ids(Append(q, a)) = Ids(q) \cup {a.id}
                              /\ Distinct(q) /\ a.id \notin Ids(q) => Distinct(Append(q, a))
<1>0. Len(q) \in Nat /\ DOMAIN q = 1..Len(q) /\ \A i \in 1..Len(q) : q[i] \in Raised
  OBVIOUS
<1>1. Ids(q) \subseteq Nat
  BY <1>0 DEF Ids, Raised
<1>2. ASSUME q # <<>>
      PROVE  /\ Head(q) \in Raised /\ Head(q).id \in Ids(q) /\ Tail(q) \in Seq(Raised)
             /\ Ids(q) = Ids(Tail(q)) \cup {Head(q).id}
             /\ Distinct(q) => Distinct(Tail(q)) /\ Head(q).id \notin Ids(Tail(q))
  <2> DEFINE t == Tail(q)
  <2>1. /\ t \in Seq(Raised) /\ DOMAIN t = 1..(Len(q) - 1) /\ Head(q) = q[1] /\ Len(q) > 0
        /\ \A i \in 1..(Len(q) - 1) : t[i] = q[i + 1]
    BY <1>2
  <2> HIDE DEF t
  <2>2. 1 \in DOMAIN q /\ \A i \in DOMAIN t : i + 1 \in DOMAIN q /\ i + 1 # 1 /\ t[i] = q[i + 1]
    BY <1>0, <2>1
  <2>3. ASSUME NEW i \in DOMAIN q, i # 1 PROVE i - 1 \in DOMAIN t /\ q[i] = t[i - 1]
    <3>1. i - 1 \in 1..(Len(q) - 1) /\ (i - 1) + 1 = i
      BY <1>0, <2>3
    <3>2. QED
      BY <2>1, <3>1
  <2>4. Ids(q) = Ids(t) \cup {q[1].id}
    BY <2>2, <2>3 DEF Ids
  <2>5. ASSUME Distinct(q) PROVE Distinct(t) /\ q[1].id \notin Ids(t)
    <3>1. ASSUME NEW i \in DOMAIN t, NEW j \in DOMAIN t, i # j PROVE t[i].id # t[j].id
      <4>1. i + 1 # j + 1
        BY <2>1, <3>1
      <4>2. QED
        BY <2>2, <2>5, <4>1 DEF Distinct
    <3>2. \A i \in DOMAIN t : t[i].id # q[1].id
      BY <2>2, <2>5 DEF Distinct
    <3>3. QED
      BY <3>1, <3>2 DEF Distinct, Ids
  <2>6. QED
    BY <1>0, <2>1, <2>2, <2>4, <2>5 DEF Ids, t
<1>3. ASSUME NEW a \in Raised
      PROVE  /\ Append(q, a) \in Seq(Raised)
             /\ Ids(Append(q, a)) = Ids(q) \cup {a.id}
             /\ Distinct(q) /\ a.id \notin Ids(q) => Distinct(Append(q, a))
  <2> DEFINE s == Append(q, a)
  <2>1. /\ s \in Seq(Raised) /\ DOMAIN s = 1..(Len(q) + 1) /\ s[Len(q) + 1] = a
        /\ \A i \in 1..Len(q) : s[i] = q[i]
    OBVIOUS
  <2> HIDE DEF s
  <2>2. \A i \in DOMAIN s : (i \in DOMAIN q /\ s[i] = q[i]) \/ (i = Len(q) + 1 /\ s[i] = a)
    BY <1>0, <2>1
  <2>3. Len(q) + 1 \in DOMAIN s /\ \A i \in DOMAIN q : i \in DOMAIN s /\ s[i] = q[i]
    BY <1>0, <2>1
  <2>4. Ids(s) = Ids(q) \cup {a.id}
    <3>1. Ids(s) \subseteq Ids(q) \cup {a.id}
      BY <2>2 DEF Ids
    <3>2. ASSUME NEW i \in DOMAIN q PROVE q[i].id \in Ids(s)
      BY <2>3 DEF Ids
    <3>3. a.id \in Ids(s)
      BY <2>1, <2>3 DEF Ids
    <3>4. QED
      BY <3>1, <3>2, <3>3 DEF Ids
  <2>5. Distinct(q) /\ a.id \notin Ids(q) => Distinct(s)
    BY <2>2 DEF Distinct, Ids
  <2>6. QED
    BY <2>1, <2>4, <2>5 DEF s
<1>4. QED
  BY <1>1, <1>2, <1>3

\* Passing an alert on or dropping it moves or takes away its id.
LEMMA MoveFacts ==
  ASSUME Types, LineInv, NEW c \in Callers, todo[c] # <<>>
  PROVE  /\ Alert(c).id \in T(c) /\ Alert(c).id \notin O(c) /\ Alert(c).id \in Nat
         /\ Pass(c) \/ Drop(c) => T(c)' = T(c) \ {Alert(c).id} /\ Distinct(todo'[c])
         /\ Pass(c) => O(c)' = O(c) \cup {Alert(c).id} /\ Distinct(out'[c])
         /\ Drop(c) => O(c)' = O(c) /\ Distinct(out'[c])
         /\ Pass(c) \/ Drop(c) => \A d \in Callers : d # c => todo'[d] = todo[d] /\ out'[d] = out[d]
<1>1. /\ todo \in [Callers -> Seq(Raised)] /\ out \in [Callers -> Seq(Raised)]
      /\ Distinct(todo[c]) /\ Distinct(out[c]) /\ T(c) \cap O(c) = {}
  BY DEF Types, AlertTypes, LineInv
<1>2. /\ Alert(c) \in Raised /\ Alert(c).id \in T(c)
      /\ T(c) = Ids(Tail(todo[c])) \cup {Alert(c).id}
      /\ Distinct(Tail(todo[c])) /\ Alert(c).id \notin Ids(Tail(todo[c]))
  BY <1>1, ListFacts DEF Alert, T
<1>3. Alert(c).id \notin O(c) /\ Alert(c).id \in Nat
  BY <1>1, <1>2, ListFacts DEF T
<1>4. /\ Ids(Append(out[c], Alert(c))) = O(c) \cup {Alert(c).id}
      /\ Distinct(Append(out[c], Alert(c)))
  BY <1>1, <1>2, <1>3, ListFacts DEF O
<1>5. Pass(c) \/ Drop(c) => T(c)' = T(c) \ {Alert(c).id} /\ Distinct(todo'[c])
  <2>1. Pass(c) \/ Drop(c) => todo'[c] = Tail(todo[c])
    BY <1>1 DEF Pass, Drop
  <2>2. QED
    BY <1>2, <2>1 DEF T
<1>6. Pass(c) => O(c)' = O(c) \cup {Alert(c).id} /\ Distinct(out'[c])
  <2>1. Pass(c) => out'[c] = Append(out[c], Alert(c))
    BY <1>1 DEF Pass
  <2>2. QED
    BY <1>4, <2>1 DEF O
<1>7. Drop(c) => O(c)' = O(c) /\ Distinct(out'[c])
  BY <1>1 DEF Drop, O
<1>8. Pass(c) \/ Drop(c) => \A d \in Callers : d # c => todo'[d] = todo[d] /\ out'[d] = out[d]
  BY <1>1 DEF Pass, Drop
<1>9. QED
  BY <1>2, <1>3, <1>5, <1>6, <1>7, <1>8

-----------------------------------------------------------------------------
(* What a step does to the alerts under way *)

\* Nothing is in an empty list.
LEMMA NoIds == Ids(<<>>) = {} /\ Distinct(<<>>)
  BY DEF Ids, Distinct

\* What evaluation raises has new ids, each once.
LEMMA FreshIds ==
  ASSUME Types, LineInv, NEW c \in Callers, Evaluate(c)
  PROVE  /\ Distinct(todo'[c]) /\ out'[c] = <<>>
         /\ nextId' >= nextId /\ T(c)' \subseteq nextId..(nextId' - 1)
         /\ \A d \in Callers : d # c => todo'[d] = todo[d] /\ out'[d] = out[d]
<1>1. PICK batch \in Batches :
        /\ Hand(c, [i \in DOMAIN batch |->
                      [id |-> nextId + i - 1, rule |-> batch[i].rule,
                       key |-> batch[i].key, severity |-> batch[i].severity]])
        /\ nextId' = nextId + Len(batch)
  BY DEF Evaluate
<1>2. DOMAIN batch = 1..Len(batch) /\ Len(batch) \in Nat /\ nextId \in Nat
  BY BatchesAssumption DEF Types, ClockTypes
<1>3. /\ DOMAIN todo'[c] = DOMAIN batch
      /\ \A i \in DOMAIN batch : todo'[c][i].id = nextId + i - 1
  BY <1>1 DEF Hand, Types, AlertTypes
<1>4. Distinct(todo'[c])
  BY <1>2, <1>3 DEF Distinct
<1>5. T(c)' \subseteq nextId..(nextId' - 1)
  <2> SUFFICES ASSUME NEW i \in DOMAIN batch
               PROVE  nextId + i - 1 \in nextId..(nextId' - 1)
    BY <1>3 DEF T, Ids
  <2>1. QED
    BY <1>1, <1>2
<1>6. QED
  BY <1>1, <1>2, <1>4, <1>5 DEF Hand, Types, AlertTypes

\* A step of one caller that keeps its own line in order keeps every line in order.
LEMMA LineFrame ==
  ASSUME Types, LineInv, NEW c \in Callers,
         \A d \in Callers : d # c => pc'[d] = pc[d] /\ todo'[d] = todo[d] /\ out'[d] = out[d],
         pc' \in [Callers -> Stages], nextId' \in Nat, nextId' >= nextId,
         pc'[c] = "idle" => todo'[c] = <<>>,
         pc'[c] \in {"idle", "dedupWait", "deliver"} => out'[c] = <<>>,
         Distinct(todo'[c]), Distinct(out'[c]), T(c)' \cap O(c)' = {},
         \A x \in T(c)' \cup O(c)' : x \in T(c) \cup O(c) \/ x \in nextId..(nextId' - 1)
  PROVE  LineInv'
<1>0. /\ nextId \in Nat /\ 1 <= nextId /\ nextId' >= 1
      /\ \A d \in Callers : T(d) \cup O(d) \subseteq Nat
  BY ListFacts DEF Types, ClockTypes, AlertTypes, T, O, LineInv
<1>1. \A d \in Callers : d # c => T(d)' = T(d) /\ O(d)' = O(d)
  BY DEF T, O
<1>2. \A d \in Callers, x \in Nat : x \in T(d) \cup O(d) => 1 <= x /\ x < nextId
  BY DEF LineInv
<1>3. \A x \in T(c)' \cup O(c)' : x \in Nat /\ 1 <= x /\ x < nextId'
  BY <1>0, <1>2
<1>4. ASSUME NEW d \in Callers
      PROVE  /\ pc'[d] = "idle" => todo'[d] = <<>>
             /\ pc'[d] \in {"idle", "dedupWait", "deliver"} => out'[d] = <<>>
             /\ Distinct(todo'[d]) /\ Distinct(out'[d]) /\ T(d)' \cap O(d)' = {}
             /\ \A x \in T(d)' \cup O(d)' : 1 <= x /\ x < nextId'
  <2>1. CASE d = c
    BY <1>3, <2>1
  <2>2. CASE d # c
    <3>1. \A x \in T(d) \cup O(d) : 1 <= x /\ x < nextId'
      BY <1>0, <1>2
    <3>2. QED
      BY <1>1, <2>2, <3>1 DEF LineInv
  <2>3. QED
    BY <2>1, <2>2
<1>5. ASSUME NEW d \in Callers, d # c
      PROVE  (T(c)' \cup O(c)') \cap (T(d)' \cup O(d)') = {}
  <2>1. \A x \in T(d) \cup O(d) : ~(nextId <= x)
    BY <1>0, <1>2
  <2>2. (T(c) \cup O(c)) \cap (T(d) \cup O(d)) = {}
    BY <1>5 DEF LineInv
  <2>3. QED
    BY <1>1, <1>5, <2>1, <2>2
<1>6. ASSUME NEW d \in Callers, NEW e \in Callers, d # e
      PROVE  (T(d)' \cup O(d)') \cap (T(e)' \cup O(e)') = {}
  <2>1. CASE d = c
    BY <1>5, <1>6, <2>1
  <2>2. CASE e = c
    BY <1>5, <1>6, <2>2
  <2>3. CASE d # c /\ e # c
    BY <1>1, <1>6, <2>3 DEF LineInv
  <2>4. QED
    BY <2>1, <2>2, <2>3
<1>7. QED
  BY <1>0, <1>4, <1>6 DEF LineInv

\* A step that moves no alert keeps the lines in order.
LEMMA LineKept ==
  ASSUME LineInv, UNCHANGED <<pc, todo, out, nextId>>
  PROVE  LineInv'
<1>1. \A c \in Callers : T(c)' = T(c) /\ O(c)' = O(c)
  BY DEF T, O
<1>2. \A c \in Callers : Distinct(todo[c])' = Distinct(todo[c]) /\ Distinct(out[c])' = Distinct(out[c])
  BY DEF Distinct
<1>3. QED
  BY <1>1, <1>2 DEF LineInv

\* Every step keeps the lines in order.
LEMMA LineStep == Types /\ LineInv /\ [Next]_vars => LineInv'
<1> SUFFICES ASSUME Types, LineInv, [Next]_vars PROVE LineInv'
  OBVIOUS
<1> USE DEF stateVars, histVars
<1>0. nextId \in Nat /\ pc \in [Callers -> Stages] /\ nextId' \in Nat
  BY TypesStep DEF Types, ClockTypes, LineInv
<1>1. CASE Tick \/ UNCHANGED vars
  <2>1. UNCHANGED <<pc, todo, out, nextId>>
    BY <1>1 DEF Tick, vars
  <2>2. QED
    BY <2>1, LineKept
<1>2. ASSUME NEW c \in Callers, Process(c) PROVE LineInv'
  <2>0. /\ todo \in [Callers -> Seq(Raised)] /\ out \in [Callers -> Seq(Raised)]
        /\ Distinct(todo[c]) /\ Distinct(out[c]) /\ T(c) \cap O(c) = {}
        /\ pc[c] = "idle" => todo[c] = <<>>
        /\ pc[c] \in {"idle", "dedupWait", "deliver"} => out[c] = <<>>
    BY DEF Types, AlertTypes, LineInv
  <2>1. CASE Evaluate(c)
    <3>1. pc' = [pc EXCEPT ![c] = "dedupWait"]
      BY <2>1 DEF Evaluate, Goto
    <3>2. pc' \in [Callers -> Stages] /\ pc'[c] = "dedupWait"
          /\ \A d \in Callers : d # c => pc'[d] = pc[d]
      BY <1>0, <3>1 DEF Stages
    <3>3. O(c)' = {} /\ Distinct(out'[c])
      BY <2>1, FreshIds, NoIds DEF O
    <3>4. QED
      BY <1>0, <2>1, <3>2, <3>3, FreshIds, LineFrame
  <2>2. CASE LockDeduper(c) \/ LockLimiter(c)
    <3>1. /\ UNCHANGED <<todo, out, nextId>>
          /\ \/ pc[c] = "dedupWait" /\ pc' = [pc EXCEPT ![c] = "dedup"]
             \/ pc' = [pc EXCEPT ![c] = "limit"]
      BY <2>2 DEF LockDeduper, LockLimiter, Goto
    <3>2. /\ pc' \in [Callers -> Stages] /\ pc'[c] \in {"dedup", "limit"}
          /\ \A d \in Callers : d # c => pc'[d] = pc[d]
      BY <1>0, <3>1 DEF Stages
    <3>3. T(c)' = T(c) /\ O(c)' = O(c)
      BY <3>1 DEF T, O
    <3>4. /\ \A d \in Callers : d # c => todo'[d] = todo[d] /\ out'[d] = out[d]
          /\ T(c)' \cap O(c)' = {} /\ \A x \in T(c)' \cup O(c)' : x \in T(c) \cup O(c)
          /\ Distinct(todo'[c]) /\ Distinct(out'[c]) /\ nextId' >= nextId
          /\ pc'[c] = "idle" => todo'[c] = <<>>
          /\ pc'[c] \in {"idle", "dedupWait", "deliver"} => out'[c] = <<>>
      BY <1>0, <2>0, <3>1, <3>2, <3>3
    <3>5. QED
      BY <1>0, <3>2, <3>4, LineFrame
  <2>3. CASE \/ DedupDrops(c) \/ DedupPasses(c) \/ LimiterFlags(c) \/ LimiterAdmits(c)
             \/ PolicyRefuses(c) \/ PolicyAccepts(c) \/ Handle(c)
    <3>0. UNCHANGED <<pc, nextId>> /\ todo[c] # <<>>
      BY <2>3 DEF DedupDrops, DedupPasses, LimiterFlags, LimiterAdmits, PolicyRefuses,
                  PolicyAccepts, Handle
    <3>a. CASE UNCHANGED <<todo, out>>
      <4>1. UNCHANGED <<pc, nextId, todo, out>>
        BY <3>0, <3>a
      <4>2. QED
        BY <4>1, LineKept
    <3>1. /\ UNCHANGED <<todo, out>> \/ Pass(c) \/ Drop(c)
          /\ pc[c] \in {"dedup", "limit", "policy"}
             \/ (pc[c] = "deliver" /\ (UNCHANGED <<todo, out>> \/ Drop(c)))
      BY <2>3 DEF DedupDrops, DedupPasses, LimiterFlags, LimiterAdmits, PolicyRefuses,
                  PolicyAccepts, Handle, NextResponder, NextAlert
    <3> SUFFICES ASSUME ~UNCHANGED <<todo, out>> PROVE LineInv'
      BY <3>a
    <3>2. pc'[c] \in {"idle", "dedupWait", "deliver"} => out'[c] = <<>>
      BY <2>0, <3>0, <3>1 DEF Drop
    <3>3. /\ T(c)' = T(c) \ {Alert(c).id} /\ Distinct(todo'[c]) /\ Distinct(out'[c])
          /\ O(c)' \subseteq O(c) \cup {Alert(c).id} /\ Alert(c).id \in T(c)
          /\ \A d \in Callers : d # c => todo'[d] = todo[d] /\ out'[d] = out[d]
      BY <3>0, <3>1, MoveFacts
    <3>4. T(c)' \cap O(c)' = {} /\ \A x \in T(c)' \cup O(c)' : x \in T(c) \cup O(c)
      BY <2>0, <3>3
    <3>5. pc'[c] # "idle"
      BY <3>0, <3>1
    <3>6. QED
      BY <1>0, <3>0, <3>2, <3>3, <3>4, <3>5, LineFrame
  <2>4. CASE DedupDone(c) \/ LimitDone(c) \/ PolicyDone(c) \/ DeliverDone(c)
    <3>1. /\ nextId' = nextId
          /\ \/ Return(c)
             \/ /\ Hand(c, out[c])
                /\ \E s \in {"limitWait", "policy", "deliver"} : pc' = [pc EXCEPT ![c] = s]
      BY <2>4 DEF DedupDone, LimitDone, PolicyDone, DeliverDone, Deliver, Goto
    <3>2. /\ pc' \in [Callers -> Stages]
          /\ \A d \in Callers : d # c => pc'[d] = pc[d] /\ todo'[d] = todo[d] /\ out'[d] = out[d]
          /\ out'[c] = <<>> /\ todo'[c] \in {<<>>, out[c]}
          /\ pc'[c] = "idle" => todo'[c] = <<>>
      BY <1>0, <2>0, <3>1 DEF Return, Hand, Goto, Stages
    <3>3. /\ O(c)' = {} /\ T(c)' \in {{}, O(c)}
          /\ Distinct(todo'[c]) /\ Distinct(out'[c])
      BY <2>0, <3>2, NoIds DEF T, O
    <3>4. \A x \in T(c)' \cup O(c)' : x \in T(c) \cup O(c)
      BY <3>3
    <3>5. QED
      BY <1>0, <3>1, <3>2, <3>3, <3>4, LineFrame
  <2>5. QED
    BY <1>2, <2>1, <2>2, <2>3, <2>4 DEF Process
<1>3. QED
  BY <1>1, <1>2 DEF Next, Terminated

-----------------------------------------------------------------------------
(* Where an alert goes *)

\* A step of a caller keeps what is under way where it is, lets one more alert into
\* the pipeline after the deduper, takes one out of it, or calls one responder with it;
\* or what is left ends where no responder is.
Kept(c) == \A r \in 1..Responders : GoingTo(c, r)' = GoingTo(c, r)
Stays(c) ==
  /\ Waiting(c)' \subseteq Waiting(c) \cup nextId..(nextId' - 1)
  /\ Going(c)' = Going(c) /\ Kept(c)
  /\ UNCHANGED <<passed, flagged, refused, unanswered, handled>>
Enters(c, x) ==
  /\ x \in Waiting(c) /\ Waiting(c)' = Waiting(c) \ {x} /\ Going(c)' = Going(c) \cup {x}
  /\ \A r \in 1..Responders : GoingTo(c, r)' = GoingTo(c, r) \cup {x}
  /\ passed' = passed \cup {x} /\ UNCHANGED <<flagged, refused, unanswered, handled>>
Leaves(c, x) ==
  /\ x \in Going(c) /\ Waiting(c)' = {} /\ Going(c)' = Going(c) \ {x}
  /\ \A r \in 1..Responders : GoingTo(c, r) = Going(c) /\ GoingTo(c, r)' = Going(c) \ {x}
  /\ UNCHANGED <<passed, unanswered, handled>>
  /\ \/ flagged' = flagged \cup {x} /\ UNCHANGED refused
     \/ refused' = refused \cup {x} /\ UNCHANGED flagged
Answers(c, x) ==
  /\ at[c] \in 1..Responders /\ x \in GoingTo(c, at[c])
  /\ Waiting(c)' = {} /\ Going(c)' \subseteq Going(c)
  /\ \A r \in 1..Responders :
       /\ r # at[c] => GoingTo(c, r)' = GoingTo(c, r)
       /\ r = at[c] => GoingTo(c, r)' = GoingTo(c, r) \ {x}
  /\ handled' = [handled EXCEPT ![at[c]] = Append(@, x)]
  /\ UNCHANGED <<passed, flagged, refused, unanswered>>
Ends(c) ==
  /\ Waiting(c)' = {} /\ Going(c)' = {}
  /\ \A r \in 1..Responders : GoingTo(c, r) = Going(c) /\ GoingTo(c, r)' = {}
  /\ unanswered' = unanswered \cup Going(c)
  /\ UNCHANGED <<passed, flagged, refused, handled>>

\* A responder's call: the alert's round goes on to the next one, or the next alert's
\* begins.
LEMMA HandleAnswers ==
  ASSUME Types, LineInv, AnswerInv, NEW c \in Callers, Handle(c)
  PROVE  /\ \A d \in Callers : d # c => /\ pc'[d] = pc[d] /\ at'[d] = at[d]
                                        /\ todo'[d] = todo[d] /\ out'[d] = out[d]
         /\ nextId' = nextId /\ Answers(c, Alert(c).id) /\ Alert(c).id \in Nat
<1> DEFINE x == Alert(c).id
<1>0. /\ pc[c] = "deliver" /\ todo[c] # <<>> /\ pc' = pc /\ nextId' = nextId
      /\ at[c] \in 1..Responders /\ Responders \in Nat
      /\ handled' = [handled EXCEPT ![at[c]] = Append(@, x)]
      /\ UNCHANGED <<passed, flagged, refused, unanswered>>
      /\ at \in [Callers -> 1..Responders \cup {1}]
  BY RespondersAssumption DEF Handle, Call, AnswerInv
<1>1. x \in T(c) /\ x \notin O(c) /\ x \in Nat
  BY <1>0, MoveFacts
<1>2. /\ pc[c] \notin Early /\ pc'[c] \notin Early
      /\ Going(c) = O(c) \cup T(c) /\ Going(c)' = O(c)' \cup T(c)' /\ Waiting(c)' = {}
  BY <1>0 DEF Early, Going, Waiting
<1>3. x \in GoingTo(c, at[c])
  BY <1>0, <1>1, <1>2 DEF GoingTo
<1>4. CASE NextResponder(c)
  <2>1. /\ UNCHANGED <<todo, out>> /\ at'[c] = at[c] + 1
        /\ \A d \in Callers : d # c => at'[d] = at[d]
    BY <1>0, <1>4 DEF NextResponder
  <2>2. Going(c)' = Going(c) /\ Alert(c)' = Alert(c)
    BY <1>2, <2>1 DEF T, O, Alert
  <2>3. ASSUME NEW r \in 1..Responders
        PROVE  /\ r # at[c] => GoingTo(c, r)' = GoingTo(c, r)
               /\ r = at[c] => GoingTo(c, r)' = GoingTo(c, r) \ {x}
    <3>1. r < at'[c] <=> r < at[c] \/ r = at[c]
      BY <1>0, <2>1
    <3>2. r = at[c] => ~(r < at[c])
      BY <1>0
    <3>3. /\ GoingTo(c, r) = IF r < at[c] THEN Going(c) \ {x} ELSE Going(c)
          /\ GoingTo(c, r)' = IF r < at'[c] THEN Going(c) \ {x} ELSE Going(c)
      BY <1>0, <2>2 DEF GoingTo
    <3>4. QED
      BY <3>1, <3>2, <3>3
  <2>4. QED
    BY <1>0, <1>1, <1>2, <1>3, <2>1, <2>2, <2>3 DEF Answers
<1>5. CASE at[c] = Responders /\ NextAlert(c)
  <2>1. Drop(c) /\ at'[c] = 1 /\ \A d \in Callers : d # c => at'[d] = at[d]
    BY <1>0, <1>5 DEF NextAlert
  <2>2. /\ T(c)' = T(c) \ {x} /\ O(c)' = O(c)
        /\ \A d \in Callers : d # c => todo'[d] = todo[d] /\ out'[d] = out[d]
    BY <1>0, <2>1, MoveFacts
  <2>3. Going(c)' = Going(c) \ {x}
    BY <1>1, <1>2, <2>2
  <2>4. ASSUME NEW r \in 1..Responders
        PROVE  /\ r # at[c] => GoingTo(c, r)' = GoingTo(c, r)
               /\ r = at[c] => GoingTo(c, r)' = GoingTo(c, r) \ {x}
    <3>1. ~(r < at'[c]) /\ (r < at[c] <=> r # at[c])
      BY <1>0, <1>5, <2>1
    <3>2. /\ GoingTo(c, r) = IF r < at[c] THEN Going(c) \ {x} ELSE Going(c)
          /\ GoingTo(c, r)' = Going(c) \ {x}
      BY <1>0, <2>3, <3>1 DEF GoingTo
    <3>3. QED
      BY <3>1, <3>2
  <2>5. QED
    BY <1>0, <1>1, <1>2, <1>3, <2>1, <2>2, <2>3, <2>4 DEF Answers
<1>6. QED
  BY <1>4, <1>5 DEF Handle

\* Every step of a caller is one of these, and leaves the other callers' alerts alone.
LEMMA Effects ==
  ASSUME Types, LineInv, AnswerInv, NEW c \in Callers, Process(c)
  PROVE  /\ nextId' >= nextId
         /\ \A d \in Callers : d # c =>
              /\ Waiting(d)' = Waiting(d) /\ Going(d)' = Going(d) /\ Kept(d)
         /\ \/ Stays(c) \/ Ends(c)
            \/ \E x \in Nat : Enters(c, x) \/ Leaves(c, x) \/ Answers(c, x)
<1> USE DEF stateVars, histVars, answerVars
<1>0. /\ todo \in [Callers -> Seq(Raised)] /\ out \in [Callers -> Seq(Raised)]
      /\ pc \in [Callers -> Stages] /\ T(c) \cap O(c) = {} /\ nextId \in Nat
      /\ pc[c] = "idle" => todo[c] = <<>>
      /\ pc[c] \in {"idle", "dedupWait", "deliver"} => out[c] = <<>>
      /\ at[c] # 1 => pc[c] = "deliver" /\ todo[c] # <<>>
  BY DEF Types, ClockTypes, AlertTypes, LineInv, AnswerInv
<1>d. ASSUME \A d \in Callers : d # c => /\ pc'[d] = pc[d] /\ at'[d] = at[d]
                                         /\ todo'[d] = todo[d] /\ out'[d] = out[d]
      PROVE  \A d \in Callers : d # c =>
               /\ Waiting(d)' = Waiting(d) /\ Going(d)' = Going(d) /\ Kept(d)
  BY <1>d DEF Waiting, Going, T, O, Kept, GoingTo, Alert
<1>g. ASSUME at' = at, at[c] = 1
      PROVE  \A r \in 1..Responders : GoingTo(c, r) = Going(c) /\ GoingTo(c, r)' = Going(c)'
  BY <1>g DEF GoingTo
<1>1. CASE Evaluate(c)
  <2>1. /\ pc[c] = "idle" /\ pc'[c] = "dedupWait" /\ at' = at /\ at[c] = 1
        /\ \A d \in Callers : d # c => pc'[d] = pc[d]
        /\ UNCHANGED <<passed, flagged, refused, unanswered, handled>>
    BY <1>0, <1>1 DEF Evaluate, Goto
  <2>2. T(c) = {} /\ O(c) = {} /\ O(c)' = {} /\ T(c)' \subseteq nextId..(nextId' - 1)
    BY <1>0, <1>1, <2>1, FreshIds, NoIds DEF T, O
  <2>3. /\ Going(c)' = Going(c)
        /\ Waiting(c)' \subseteq Waiting(c) \cup nextId..(nextId' - 1)
    BY <2>1, <2>2 DEF Waiting, Going, Early
  <2>4. Stays(c)
    BY <1>g, <2>1, <2>3 DEF Stays, Kept
  <2>5. QED
    BY <1>1, <1>d, <2>1, <2>4, FreshIds
<1>2. CASE LockDeduper(c) \/ LockLimiter(c)
  <2>1. /\ UNCHANGED <<todo, out, at, nextId, passed, flagged, refused, unanswered, handled>>
        /\ \/ pc[c] = "dedupWait" /\ pc' = [pc EXCEPT ![c] = "dedup"]
           \/ pc[c] = "limitWait" /\ pc' = [pc EXCEPT ![c] = "limit"]
    BY <1>2 DEF LockDeduper, LockLimiter, Goto
  <2>2. /\ pc[c] \in Early <=> pc'[c] \in Early
        /\ \A d \in Callers : d # c => pc'[d] = pc[d]
    BY <1>0, <2>1 DEF Early
  <2>3. T(c)' = T(c) /\ O(c)' = O(c) /\ at[c] = 1
    BY <1>0, <2>1 DEF T, O
  <2>4. Waiting(c)' = Waiting(c) /\ Going(c)' = Going(c)
    BY <2>2, <2>3 DEF Waiting, Going
  <2>5. Stays(c)
    BY <1>g, <2>1, <2>3, <2>4 DEF Stays, Kept
  <2>6. QED
    BY <1>0, <1>d, <2>1, <2>2, <2>5
<1>3. CASE \/ DedupDrops(c) \/ DedupPasses(c) \/ LimiterFlags(c) \/ LimiterAdmits(c)
           \/ PolicyRefuses(c) \/ PolicyAccepts(c)
  <2> DEFINE x == Alert(c).id
  <2>1. /\ todo[c] # <<>> /\ UNCHANGED <<pc, at, nextId>> /\ (Pass(c) \/ Drop(c))
        /\ pc[c] # "deliver"
    BY <1>3 DEF DedupDrops, DedupPasses, LimiterFlags, LimiterAdmits, PolicyRefuses,
                PolicyAccepts
  <2>2. /\ x \in T(c) /\ x \notin O(c) /\ x \in Nat /\ T(c)' = T(c) \ {x}
        /\ Pass(c) => O(c)' = O(c) \cup {x}
        /\ Drop(c) => O(c)' = O(c)
        /\ \A d \in Callers : d # c => todo'[d] = todo[d] /\ out'[d] = out[d]
    BY <2>1, MoveFacts
  <2>3. \A d \in Callers : d # c =>
          Waiting(d)' = Waiting(d) /\ Going(d)' = Going(d) /\ Kept(d)
    BY <1>d, <2>1, <2>2
  <2>4. pc'[c] = pc[c]
    BY <2>1
  <2>g. \A r \in 1..Responders : GoingTo(c, r) = Going(c) /\ GoingTo(c, r)' = Going(c)'
    BY <1>0, <1>g, <2>1
  <2>5. CASE DedupDrops(c)
    <3>1. /\ pc[c] = "dedup" /\ Drop(c)
          /\ UNCHANGED <<passed, flagged, refused, unanswered, handled>>
      BY <2>5 DEF DedupDrops
    <3>2. Going(c)' = Going(c) /\ Waiting(c)' \subseteq Waiting(c)
      BY <2>2, <2>4, <3>1 DEF Waiting, Going, Early
    <3>3. Stays(c)
      BY <2>g, <3>1, <3>2 DEF Stays, Kept
    <3>4. QED
      BY <1>0, <2>1, <2>3, <3>3
  <2>6. CASE DedupPasses(c)
    <3>1. /\ pc[c] = "dedup" /\ Pass(c) /\ passed' = passed \cup {x}
          /\ UNCHANGED <<flagged, refused, unanswered, handled>>
      BY <2>6 DEF DedupPasses
    <3>2. x \in Waiting(c) /\ Waiting(c)' = Waiting(c) \ {x} /\ Going(c)' = Going(c) \cup {x}
      BY <2>2, <2>4, <3>1 DEF Waiting, Going, Early
    <3>3. Enters(c, x)
      BY <2>g, <3>1, <3>2 DEF Enters
    <3>4. QED
      BY <1>0, <2>1, <2>2, <2>3, <3>3
  <2>7. CASE LimiterAdmits(c) \/ PolicyAccepts(c)
    <3>1. /\ pc[c] \in {"limit", "policy"} /\ Pass(c)
          /\ UNCHANGED <<passed, flagged, refused, unanswered, handled>>
      BY <2>7 DEF LimiterAdmits, PolicyAccepts
    <3>2. Going(c)' = Going(c) /\ Waiting(c)' = Waiting(c)
      BY <2>2, <2>4, <3>1 DEF Waiting, Going, Early
    <3>3. Stays(c)
      BY <2>g, <3>1, <3>2 DEF Stays, Kept
    <3>4. QED
      BY <1>0, <2>1, <2>3, <3>3
  <2>8. CASE LimiterFlags(c) \/ PolicyRefuses(c)
    <3>1. /\ pc[c] \in {"limit", "policy"} /\ Drop(c) /\ UNCHANGED <<passed, unanswered, handled>>
          /\ \/ flagged' = flagged \cup {x} /\ UNCHANGED refused
             \/ refused' = refused \cup {x} /\ UNCHANGED flagged
      BY <2>8 DEF LimiterFlags, PolicyRefuses
    <3>2. pc[c] \notin Early /\ pc'[c] \notin Early
      BY <2>4, <3>1 DEF Early
    <3>3. x \in Going(c) /\ Waiting(c)' = {} /\ Going(c)' = Going(c) \ {x}
      BY <2>2, <3>1, <3>2 DEF Waiting, Going
    <3>4. Leaves(c, x)
      BY <2>g, <3>1, <3>3 DEF Leaves
    <3>5. QED
      BY <1>0, <2>1, <2>2, <2>3, <3>4
  <2>9. QED
    BY <1>3, <2>5, <2>6, <2>7, <2>8
<1>4. CASE Handle(c)
  BY <1>0, <1>4, <1>d, HandleAnswers
<1>5. CASE DedupDone(c) \/ LimitDone(c) \/ PolicyDone(c) \/ DeliverDone(c)
  <2>1. /\ todo[c] = <<>> /\ UNCHANGED <<at, nextId, passed, flagged, refused, handled>>
        /\ \/ Return(c) /\ (out[c] = <<>> \/ pc[c] = "deliver") /\ UNCHANGED unanswered
           \/ /\ Hand(c, out[c]) /\ UNCHANGED unanswered
              /\ \E s \in {"limitWait", "policy", "deliver"} : pc' = [pc EXCEPT ![c] = s]
           \/ /\ Return(c) /\ unanswered' = unanswered \cup Ids(out[c])
              /\ pc[c] \in {"limit", "policy"}
    BY <1>5 DEF DedupDone, LimitDone, PolicyDone, DeliverDone, Deliver, Goto
  <2>2. /\ \A d \in Callers : d # c => pc'[d] = pc[d] /\ todo'[d] = todo[d] /\ out'[d] = out[d]
        /\ out'[c] = <<>> /\ pc'[c] \notin Early
    BY <1>0, <2>1 DEF Return, Hand, Goto, Early
  <2>3. T(c) = {} /\ O(c)' = {} /\ at[c] = 1
    BY <1>0, <2>1, <2>2, NoIds DEF T, O
  <2>g. \A r \in 1..Responders : GoingTo(c, r) = Going(c) /\ GoingTo(c, r)' = Going(c)'
    BY <1>g, <2>1, <2>3
  <2>4. CASE Return(c) /\ unanswered' = unanswered \cup Ids(out[c]) /\ pc[c] \in {"limit", "policy"}
    <3>1. T(c)' = {} /\ Going(c) = Ids(out[c])
      BY <1>0, <2>3, <2>4, NoIds DEF Return, T, O, Going, Early
    <3>2. Waiting(c)' = {} /\ Going(c)' = {}
      BY <2>2, <2>3, <3>1 DEF Waiting, Going
    <3>3. Ends(c)
      BY <2>1, <2>4, <2>g, <3>1, <3>2 DEF Ends
    <3>4. QED
      BY <1>0, <1>d, <2>1, <2>2, <3>3
  <2>5. CASE /\ UNCHANGED unanswered
             /\ \/ Return(c) /\ (out[c] = <<>> \/ pc[c] = "deliver")
                \/ Hand(c, out[c])
    <3>1. todo'[c] = out[c]
      BY <1>0, <2>5 DEF Return, Hand
    <3>2. T(c)' = O(c)
      BY <3>1 DEF T, O
    <3>3. Going(c)' = Going(c) /\ Waiting(c)' = {}
      BY <2>2, <2>3, <3>2 DEF Waiting, Going
    <3>4. Stays(c)
      BY <2>1, <2>5, <2>g, <3>3 DEF Stays, Kept
    <3>5. QED
      BY <1>0, <1>d, <2>1, <2>2, <3>4
  <2>6. QED
    BY <2>1, <2>4, <2>5
<1>6. QED
  BY <1>1, <1>2, <1>3, <1>4, <1>5 DEF Process

\* Every step keeps a round with the alert it is about.
LEMMA AnswerStep == Types /\ LineInv /\ AnswerInv /\ [Next]_vars => AnswerInv'
<1> SUFFICES ASSUME Types, LineInv, AnswerInv, [Next]_vars PROVE AnswerInv'
  OBVIOUS
<1> USE DEF stateVars, histVars, answerVars
<1>0. /\ pc \in [Callers -> Stages] /\ at \in [Callers -> 1..Responders \cup {1}]
      /\ errs \in [Callers -> Seq(0..Responders)] /\ handled \in [1..Responders -> Seq(Nat)]
      /\ todo \in [Callers -> Seq(Raised)] /\ Responders \in Nat
      /\ \A c \in Callers : /\ pc[c] = "deliver" => at[c] \in 1..Responders
                            /\ at[c] # 1 => pc[c] = "deliver" /\ todo[c] # <<>>
  BY RespondersAssumption DEF Types, AlertTypes, LineInv, AnswerInv
<1>1. CASE Tick \/ UNCHANGED vars
  <2>1. UNCHANGED <<pc, at, errs, handled, todo>>
    BY <1>1 DEF Tick, vars
  <2>2. QED
    BY <1>0, <2>1 DEF AnswerInv
<1>2. ASSUME NEW c \in Callers, Process(c) PROVE AnswerInv'
  <2>1. ASSUME UNCHANGED <<at, handled>>, at[c] = 1, errs' \in [Callers -> Seq(0..Responders)],
               \A d \in Callers : d # c => pc'[d] = pc[d] /\ todo'[d] = todo[d],
               pc'[c] = "deliver" => 1 \in 1..Responders
        PROVE  AnswerInv'
    BY <1>0, <2>1 DEF AnswerInv
  <2>2. CASE Evaluate(c)
    <3>1. /\ UNCHANGED <<at, handled>> /\ pc' = [pc EXCEPT ![c] = "dedupWait"]
          /\ errs' = [errs EXCEPT ![c] = <<>>] /\ pc[c] = "idle"
      BY <2>2 DEF Evaluate, Goto
    <3>2. /\ errs' \in [Callers -> Seq(0..Responders)] /\ at[c] = 1 /\ pc'[c] # "deliver"
          /\ \A d \in Callers : d # c => pc'[d] = pc[d]
      <4>1. <<>> \in Seq(0..Responders)
        OBVIOUS
      <4>2. QED
        BY <1>0, <3>1, <4>1
    <3>3. \A d \in Callers : d # c => todo'[d] = todo[d]
      BY <2>2, FreshIds
    <3>4. QED
      BY <2>1, <3>1, <3>2, <3>3
  <2>3. CASE \/ LockDeduper(c) \/ LockLimiter(c)
             \/ DedupDrops(c) \/ DedupPasses(c) \/ LimiterFlags(c) \/ LimiterAdmits(c)
             \/ PolicyRefuses(c) \/ PolicyAccepts(c)
    <3>1. /\ UNCHANGED <<at, errs, handled>> /\ pc[c] # "deliver"
          /\ UNCHANGED pc \/ \E s \in {"dedup", "limit"} : pc' = [pc EXCEPT ![c] = s]
          /\ UNCHANGED todo \/ todo' = [todo EXCEPT ![c] = Tail(@)]
      BY <2>3 DEF LockDeduper, LockLimiter, DedupDrops, DedupPasses, LimiterFlags,
                  LimiterAdmits, PolicyRefuses, PolicyAccepts, Goto, Pass, Drop
    <3>2. /\ at[c] = 1 /\ pc'[c] # "deliver"
          /\ \A d \in Callers : d # c => pc'[d] = pc[d] /\ todo'[d] = todo[d]
      BY <1>0, <3>1
    <3>3. QED
      BY <1>0, <2>1, <3>1, <3>2
  <2>4. CASE DedupDone(c) \/ LimitDone(c) \/ PolicyDone(c) \/ DeliverDone(c)
    <3>1. /\ UNCHANGED <<at, handled>> /\ todo[c] = <<>>
          /\ errs' \in {errs, [errs EXCEPT ![c] = Append(@, 0)]}
          /\ \E q \in {<<>>, out[c]} : todo' = [todo EXCEPT ![c] = q]
          /\ \/ \E s \in {"limitWait", "policy", "idle"} : pc' = [pc EXCEPT ![c] = s]
             \/ Responders > 0 /\ pc' = [pc EXCEPT ![c] = "deliver"]
      BY <2>4 DEF DedupDone, LimitDone, PolicyDone, DeliverDone, Deliver, Return, Hand, Goto
    <3>2. /\ at[c] = 1 /\ pc'[c] = "deliver" => 1 \in 1..Responders
          /\ \A d \in Callers : d # c => pc'[d] = pc[d] /\ todo'[d] = todo[d]
      BY <1>0, <3>1
    <3>3. errs' \in [Callers -> Seq(0..Responders)]
      <4>1. Append(errs[c], 0) \in Seq(0..Responders)
        <5>1. 0 \in 0..Responders /\ errs[c] \in Seq(0..Responders)
          BY <1>0
        <5>2. QED
          BY <5>1
      <4>2. QED
        BY <1>0, <3>1, <4>1
    <3>4. QED
      BY <1>0, <2>1, <3>1, <3>2, <3>3
  <2>5. CASE Handle(c)
    <3>1. /\ pc[c] = "deliver" /\ pc' = pc /\ at[c] \in 1..Responders /\ todo[c] # <<>>
          /\ handled' = [handled EXCEPT ![at[c]] = Append(@, Alert(c).id)]
          /\ errs' \in {errs, [errs EXCEPT ![c] = Append(@, at[c])]}
          /\ \/ /\ at[c] < Responders /\ at' = [at EXCEPT ![c] = @ + 1] /\ todo' = todo
             \/ at' = [at EXCEPT ![c] = 1] /\ todo' = [todo EXCEPT ![c] = Tail(@)]
      BY <1>0, <2>5 DEF Handle, Call, Failed, NextResponder, NextAlert, Drop
    <3>2. Append(handled[at[c]], Alert(c).id) \in Seq(Nat)
      <4>1. Alert(c).id \in Nat
        BY <3>1, MoveFacts
      <4>2. QED
        BY <1>0, <3>1, <4>1
    <3>3. handled' \in [1..Responders -> Seq(Nat)]
      BY <1>0, <3>1, <3>2
    <3>4. errs' \in [Callers -> Seq(0..Responders)]
      <4>1. Append(errs[c], at[c]) \in Seq(0..Responders)
        <5>1. at[c] \in 0..Responders /\ errs[c] \in Seq(0..Responders)
          BY <1>0, <3>1
        <5>2. QED
          BY <5>1
      <4>2. QED
        BY <1>0, <3>1, <4>1
    <3>5. /\ at' \in [Callers -> 1..Responders \cup {1}]
          /\ at'[c] \in 1..Responders /\ (at'[c] # 1 => todo'[c] # <<>>)
          /\ \A d \in Callers : d # c => at'[d] = at[d] /\ todo'[d] = todo[d]
      <4>1. CASE at[c] < Responders /\ at' = [at EXCEPT ![c] = @ + 1] /\ todo' = todo
        <5>1. at[c] + 1 \in 1..Responders
          BY <1>0, <3>1, <4>1
        <5>2. QED
          BY <1>0, <3>1, <4>1, <5>1
      <4>2. CASE at' = [at EXCEPT ![c] = 1] /\ todo' = [todo EXCEPT ![c] = Tail(@)]
        <5>1. 1 \in 1..Responders
          BY <1>0, <3>1
        <5>2. QED
          BY <1>0, <4>2, <5>1
      <4>3. QED
        BY <3>1, <4>1, <4>2
    <3>6. QED
      BY <1>0, <3>1, <3>3, <3>4, <3>5 DEF AnswerInv
  <2>6. QED
    BY <1>2, <2>2, <2>3, <2>4, <2>5 DEF Process
<1>3. QED
  BY <1>1, <1>2 DEF Next, Terminated

\* What is waiting or going is in the lines.
LEMMA UnderWay ==
  ASSUME Types, LineInv
  PROVE  /\ nextId \in Nat
         /\ \A c \in Callers : /\ Waiting(c) \cup Going(c) \subseteq T(c) \cup O(c)
                               /\ Waiting(c) \cap Going(c) = {}
                               /\ \A x \in Waiting(c) \cup Going(c) : x \in Nat /\ x < nextId
         /\ \A c, d \in Callers :
              c # d => (Waiting(c) \cup Going(c)) \cap (Waiting(d) \cup Going(d)) = {}
<1>1. /\ nextId \in Nat
      /\ \A c \in Callers : T(c) \cup O(c) \subseteq Nat
  BY ListFacts DEF Types, ClockTypes, AlertTypes, T, O
<1>2. \A c \in Callers : /\ Waiting(c) \cup Going(c) \subseteq T(c) \cup O(c)
                         /\ Waiting(c) \cap Going(c) = {}
  BY DEF Waiting, Going, LineInv
<1>3. QED
  BY <1>1, <1>2 DEF LineInv

\* A step that concerns no alert keeps where they are.
LEMMA Idle ==
  ASSUME Tick \/ UNCHANGED vars
  PROVE  /\ UNCHANGED <<nextId, passed, flagged, refused, unanswered, handled>>
         /\ \A c \in Callers : Waiting(c)' = Waiting(c) /\ Going(c)' = Going(c) /\ Kept(c)
<1>1. UNCHANGED <<nextId, pc, at, todo, out, passed, flagged, refused, unanswered, handled>>
  BY DEF Tick, vars, histVars, answerVars
<1>2. QED
  BY <1>1 DEF Waiting, Going, T, O, Ids, Kept, GoingTo, Alert

\* Every step keeps what the deduper let pass apart from what it has not seen, and
\* what was flagged, refused or ended unanswered apart from what goes on.
LEMMA PlaceStep == Types /\ LineInv /\ AnswerInv /\ PlaceInv /\ [Next]_vars => PlaceInv'
<1> SUFFICES ASSUME Types, LineInv, AnswerInv, PlaceInv, [Next]_vars PROVE PlaceInv'
  OBVIOUS
<1>0. /\ nextId \in Nat /\ nextId' \in Nat
      /\ \A c \in Callers : \A x \in Waiting(c) \cup Going(c) : x \in Nat /\ x < nextId
      /\ \A c, d \in Callers :
           c # d => (Waiting(c) \cup Going(c)) \cap (Waiting(d) \cup Going(d)) = {}
  BY TypesStep, UnderWay DEF Types, ClockTypes
<1>1. CASE Tick \/ UNCHANGED vars
  BY <1>1, Idle DEF PlaceInv, Aside
<1>2. ASSUME NEW c \in Callers, Process(c) PROVE PlaceInv'
  <2>1. /\ nextId' >= nextId
        /\ \A d \in Callers : d # c => Waiting(d)' = Waiting(d) /\ Going(d)' = Going(d)
        /\ \/ Stays(c) \/ Ends(c)
           \/ \E x \in Nat : Enters(c, x) \/ Leaves(c, x) \/ Answers(c, x)
    BY <1>2, Effects
  <2>2. /\ Aside \subseteq passed
        /\ flagged \cap refused = {} /\ flagged \cap unanswered = {} /\ refused \cap unanswered = {}
        /\ \A d \in Callers : /\ Waiting(d) \cap passed = {} /\ Going(d) \subseteq passed
                              /\ Going(d) \cap Aside = {}
    BY DEF PlaceInv
  <2>3. /\ \A x \in passed' : x \in Nat /\ x < nextId'
        /\ (Waiting(c) \cup nextId..(nextId' - 1)) \cap passed = {}
    <3>1. \A x \in passed : x \in Nat /\ x < nextId
      BY DEF PlaceInv
    <3>2. \A x \in passed : x < nextId'
      BY <1>0, <2>1, <3>1
    <3>3. \A x \in nextId..(nextId' - 1) : x \notin passed
      BY <1>0, <3>1
    <3>4. \A x \in Waiting(c) : x < nextId'
      BY <1>0, <2>1
    <3>5. \A x \in passed' : x \in passed \/ (x \in Nat /\ x \in Waiting(c))
      <4>1. UNCHANGED passed \/ \E x \in Nat : x \in Waiting(c) /\ passed' = passed \cup {x}
        BY <2>1 DEF Stays, Ends, Enters, Leaves, Answers
      <4>2. QED
        BY <4>1
    <3>6. \A x \in passed' : x \in Nat /\ x < nextId'
      BY <3>1, <3>2, <3>4, <3>5
    <3>7. (Waiting(c) \cup nextId..(nextId' - 1)) \cap passed = {}
      BY <2>2, <3>3
    <3>8. QED
      BY <3>6, <3>7
  <2>4. CASE Stays(c)
    <3>1. UNCHANGED <<passed, flagged, refused, unanswered>> /\ Aside' = Aside
      BY <2>4 DEF Stays, Aside
    <3>2. Going(c)' = Going(c) /\ Waiting(c)' \subseteq Waiting(c) \cup nextId..(nextId' - 1)
      BY <2>4 DEF Stays
    <3>3. QED
      BY <2>1, <2>2, <2>3, <3>1, <3>2 DEF PlaceInv
  <2>5. ASSUME NEW x \in Nat, Enters(c, x) PROVE PlaceInv'
    <3>1. \A d \in Callers : d # c => x \notin Waiting(d)
      BY <1>0, <2>5 DEF Enters
    <3>2. x \notin passed
      BY <2>2, <2>5 DEF Enters
    <3>3. /\ UNCHANGED <<flagged, refused, unanswered>> /\ Aside' = Aside
          /\ passed' = passed \cup {x} /\ Waiting(c)' = Waiting(c) \ {x}
          /\ Going(c)' = Going(c) \cup {x}
      BY <2>5 DEF Enters, Aside
    <3>4. QED
      BY <2>1, <2>2, <2>3, <3>1, <3>2, <3>3 DEF PlaceInv
  <2>6. ASSUME NEW x \in Nat, Leaves(c, x) PROVE PlaceInv'
    <3>1. \A d \in Callers : d # c => x \notin Going(d)
      BY <1>0, <2>6 DEF Leaves
    <3>2. x \in passed /\ x \notin Aside
      BY <2>2, <2>6 DEF Leaves
    <3>3. /\ UNCHANGED <<passed, unanswered>> /\ Aside' = Aside \cup {x}
          /\ \/ flagged' = flagged \cup {x} /\ UNCHANGED refused
             \/ refused' = refused \cup {x} /\ UNCHANGED flagged
          /\ Waiting(c)' = {} /\ Going(c)' = Going(c) \ {x}
      BY <2>6 DEF Leaves, Aside
    <3>4. x \notin flagged /\ x \notin refused /\ x \notin unanswered
      BY <3>2 DEF Aside
    <3>5. /\ flagged' \cap refused' = {} /\ flagged' \cap unanswered' = {}
          /\ refused' \cap unanswered' = {}
      BY <2>2, <3>3, <3>4
    <3>6. QED
      BY <2>1, <2>2, <2>3, <3>1, <3>2, <3>3, <3>5 DEF PlaceInv
  <2>7. ASSUME NEW x \in Nat, Answers(c, x) PROVE PlaceInv'
    <3>1. UNCHANGED <<passed, flagged, refused, unanswered>> /\ Aside' = Aside
      BY <2>7 DEF Answers, Aside
    <3>2. Waiting(c)' = {} /\ Going(c)' \subseteq Going(c)
      BY <2>7 DEF Answers
    <3>3. QED
      BY <2>1, <2>2, <2>3, <3>1, <3>2 DEF PlaceInv
  <2>8. CASE Ends(c)
    <3>1. /\ UNCHANGED <<passed, flagged, refused>> /\ Aside' = Aside \cup Going(c)
          /\ unanswered' = unanswered \cup Going(c) /\ Waiting(c)' = {} /\ Going(c)' = {}
      BY <2>8 DEF Ends, Aside
    <3>2. \A d \in Callers : d # c => Going(d) \cap Going(c) = {}
      BY <1>0
    <3>3. Going(c) \cap flagged = {} /\ Going(c) \cap refused = {}
      BY <2>2 DEF Aside
    <3>4. flagged' \cap unanswered' = {} /\ refused' \cap unanswered' = {}
      BY <2>2, <3>1, <3>3
    <3>5. QED
      BY <2>1, <2>2, <2>3, <3>1, <3>2, <3>4 DEF PlaceInv
  <2>9. QED
    BY <2>1, <2>4, <2>5, <2>6, <2>7, <2>8
<1>3. QED
  BY <1>1, <1>2 DEF Next, Terminated

\* Appending an id that is not there repeats none.
LEMMA AppendIds ==
  ASSUME NEW q \in Seq(Nat), NEW x \in Nat
  PROVE  /\ Append(q, x) \in Seq(Nat) /\ Elems(Append(q, x)) = Elems(q) \cup {x}
         /\ NoRepeats(q) /\ x \notin Elems(q) => NoRepeats(Append(q, x))
<1> DEFINE s == Append(q, x)
<1>1. /\ s \in Seq(Nat) /\ DOMAIN s = 1..(Len(q) + 1) /\ s[Len(q) + 1] = x
      /\ \A i \in 1..Len(q) : s[i] = q[i]
      /\ Len(q) \in Nat /\ DOMAIN q = 1..Len(q)
  OBVIOUS
<1> HIDE DEF s
<1>2. \A i \in DOMAIN s : (i \in DOMAIN q /\ s[i] = q[i]) \/ (i = Len(q) + 1 /\ s[i] = x)
  BY <1>1
<1>3. Len(q) + 1 \in DOMAIN s /\ \A i \in DOMAIN q : i \in DOMAIN s /\ s[i] = q[i]
  BY <1>1
<1>4. Elems(s) = Elems(q) \cup {x}
  <2>1. Elems(s) \subseteq Elems(q) \cup {x}
    BY <1>2 DEF Elems
  <2>2. \A i \in DOMAIN q : q[i] \in Elems(s)
    BY <1>3 DEF Elems
  <2>3. x \in Elems(s)
    BY <1>1, <1>3 DEF Elems
  <2>4. QED
    BY <2>1, <2>2, <2>3 DEF Elems
<1>5. NoRepeats(q) /\ x \notin Elems(q) => NoRepeats(s)
  BY <1>2 DEF NoRepeats, Elems
<1>6. QED
  BY <1>1, <1>4, <1>5 DEF s

\* Every step keeps each responder's list free of repeats and of what is elsewhere.
LEMMA HandledStep ==
  Types /\ LineInv /\ AnswerInv /\ PlaceInv /\ HandledInv /\ [Next]_vars => HandledInv'
<1> SUFFICES ASSUME Types, LineInv, AnswerInv, PlaceInv, HandledInv, [Next]_vars,
                    NEW r \in 1..Responders
             PROVE  /\ H(r)' \subseteq passed' /\ H(r)' \cap Aside' = {} /\ NoRepeats(handled'[r])
                    /\ \A c \in Callers : GoingTo(c, r)' \cap H(r)' = {}
                    /\ \A x \in passed' : \/ x \in Aside' \cup H(r)'
                                          \/ \E c \in Callers : x \in GoingTo(c, r)'
  BY DEF HandledInv
<1>0. /\ H(r) \subseteq passed /\ H(r) \cap Aside = {}
      /\ handled \in [1..Responders -> Seq(Nat)] /\ NoRepeats(handled[r])
      /\ \A c \in Callers : GoingTo(c, r) \cap H(r) = {} /\ GoingTo(c, r) \subseteq Going(c)
      /\ \A x \in passed : x \in Aside \cup H(r) \/ \E c \in Callers : x \in GoingTo(c, r)
  BY DEF HandledInv, AnswerInv, GoingTo
<1>k. ASSUME handled'[r] = handled[r]
      PROVE  H(r)' = H(r) /\ NoRepeats(handled'[r])
  BY <1>0, <1>k DEF H
<1>1. CASE Tick \/ UNCHANGED vars
  <2>1. /\ Aside' = Aside /\ passed' = passed /\ handled'[r] = handled[r]
        /\ \A c \in Callers : GoingTo(c, r)' = GoingTo(c, r)
    BY <1>1, Idle DEF Aside, Kept
  <2>2. QED
    BY <1>0, <1>k, <2>1
<1>2. CASE \E c \in Callers : Process(c)
  <2>0. PICK c \in Callers : Process(c)
    BY <1>2
  <2>1. /\ \A d \in Callers : d # c => GoingTo(d, r)' = GoingTo(d, r)
        /\ \/ Stays(c) \/ Ends(c)
           \/ \E x \in Nat : Enters(c, x) \/ Leaves(c, x) \/ Answers(c, x)
    BY <2>0, Effects DEF Kept
  <2>2. CASE Stays(c)
    <3>1. /\ \A d \in Callers : GoingTo(d, r)' = GoingTo(d, r)
          /\ Aside' = Aside /\ passed' = passed /\ handled'[r] = handled[r]
      BY <2>1, <2>2 DEF Stays, Kept, Aside
    <3>2. QED
      BY <1>0, <1>k, <3>1
  <2>3. CASE \E x \in Nat : Enters(c, x)
    <3>0. PICK x \in Nat : Enters(c, x)
      BY <2>3
    <3>1. x \notin passed
      BY <3>0 DEF Enters, PlaceInv
    <3>2. /\ passed' = passed \cup {x} /\ Aside' = Aside /\ handled'[r] = handled[r]
          /\ GoingTo(c, r)' = GoingTo(c, r) \cup {x}
      BY <3>0 DEF Enters, Aside
    <3>3. QED
      BY <1>0, <1>k, <2>1, <3>1, <3>2
  <2>4. CASE \E x \in Nat : Leaves(c, x)
    <3>0. PICK x \in Nat : Leaves(c, x)
      BY <2>4
    <3>1. /\ GoingTo(c, r) = Going(c) /\ GoingTo(c, r)' = Going(c) \ {x} /\ passed' = passed
          /\ Aside' = Aside \cup {x} /\ handled'[r] = handled[r] /\ x \in Going(c)
      BY <3>0 DEF Leaves, Aside
    <3>2. x \in GoingTo(c, r)
      BY <3>1
    <3>3. \A d \in Callers : d # c => x \notin GoingTo(d, r)
      BY <1>0, <3>1, UnderWay
    <3>4. x \notin H(r)
      BY <1>0, <3>2
    <3>5. QED
      BY <1>0, <1>k, <2>1, <3>1, <3>3, <3>4
  <2>5. CASE \E x \in Nat : Answers(c, x)
    <3>0. PICK x \in Nat : Answers(c, x)
      BY <2>5
    <3>1. passed' = passed /\ Aside' = Aside
      BY <3>0 DEF Answers, Aside
    <3>2. CASE r # at[c]
      <4>1. GoingTo(c, r)' = GoingTo(c, r) /\ handled'[r] = handled[r]
        BY <1>0, <3>0, <3>2 DEF Answers
      <4>2. QED
        BY <1>0, <1>k, <2>1, <3>1, <4>1
    <3>3. CASE r = at[c]
      <4>1. /\ x \in GoingTo(c, r) /\ GoingTo(c, r)' = GoingTo(c, r) \ {x}
            /\ handled'[r] = Append(handled[r], x)
        BY <1>0, <3>0, <3>3 DEF Answers
      <4>2. x \in passed /\ x \notin H(r) /\ x \notin Aside
        BY <1>0, <4>1 DEF PlaceInv
      <4>3. NoRepeats(handled'[r]) /\ H(r)' = H(r) \cup {x}
        <5>1. handled[r] \in Seq(Nat)
          BY <1>0
        <5>2. QED
          BY <1>0, <4>1, <4>2, <5>1, AppendIds DEF H
      <4>4. \A d \in Callers : d # c => x \notin GoingTo(d, r)
        BY <1>0, <4>1, UnderWay
      <4>5. QED
        BY <1>0, <2>1, <3>1, <4>1, <4>2, <4>3, <4>4
    <3>4. QED
      BY <3>2, <3>3
  <2>6. CASE Ends(c)
    <3>1. /\ GoingTo(c, r) = Going(c) /\ GoingTo(c, r)' = {} /\ handled'[r] = handled[r]
          /\ passed' = passed /\ Aside' = Aside \cup Going(c)
      BY <2>6 DEF Ends, Aside
    <3>2. QED
      BY <1>0, <1>k, <2>1, <3>1
  <2>7. QED
    BY <2>1, <2>2, <2>3, <2>4, <2>5, <2>6
<1>3. QED
  BY <1>1, <1>2 DEF Next, Terminated

\* Initially nothing is under way.
LEMMA AccountInit == Init => LineInv /\ AnswerInv /\ PlaceInv /\ HandledInv
<1> SUFFICES ASSUME Init PROVE LineInv /\ AnswerInv /\ PlaceInv /\ HandledInv
  OBVIOUS
<1>1. \A c \in Callers : T(c) = {} /\ O(c) = {} /\ Waiting(c) = {} /\ Going(c) = {}
  BY NoIds DEF Init, T, O, Waiting, Going
<1>2. \A r \in 1..Responders : H(r) = {} /\ NoRepeats(handled[r])
  BY DEF Init, H, Elems, NoRepeats
<1>3. \A c \in Callers : Distinct(todo[c]) /\ Distinct(out[c])
  BY NoIds DEF Init
<1>4. LineInv
  BY <1>1, <1>3 DEF Init, LineInv, Stages
<1>5. PlaceInv
  BY <1>1 DEF Init, PlaceInv, Aside
<1>6. HandledInv
  BY <1>1, <1>2 DEF Init, HandledInv, GoingTo, Aside
<1>7. AnswerInv
  BY DEF Init, AnswerInv
<1>8. QED
  BY <1>4, <1>5, <1>6, <1>7

\* What is proved of each place is the property.
LEMMA PlacesExact == Types /\ LineInv /\ AnswerInv /\ PlaceInv /\ HandledInv => EveryAlertAccounted
<1> SUFFICES ASSUME Types, LineInv, AnswerInv, PlaceInv, HandledInv, NEW r \in 1..Responders
             PROVE  LET places == <<UNION {InFlight(c, r) : c \in Callers}, flagged, refused,
                                    unanswered, Elems(handled[r])>> IN
                    /\ passed = UNION Elems(places)
                    /\ \A i, j \in DOMAIN places : i # j => places[i] \cap places[j] = {}
                    /\ NoRepeats(handled[r])
  BY DEF EveryAlertAccounted
<1> DEFINE inFlight == UNION {InFlight(c, r) : c \in Callers}
           places == <<inFlight, flagged, refused, unanswered, Elems(handled[r])>>
<1>1. ASSUME NEW c \in Callers PROVE InFlight(c, r) = GoingTo(c, r)
  <2>1. CASE pc[c] = "deliver" /\ r < at[c]
    <3>1. todo[c] \in Seq(Raised) /\ Distinct(todo[c]) /\ O(c) = {}
      BY <2>1, NoIds DEF Types, AlertTypes, LineInv, O
    <3>2. todo[c] # <<>>
      BY <2>1 DEF AnswerInv
    <3>3. /\ Ids(todo[c]) = Ids(Tail(todo[c])) \cup {Head(todo[c]).id}
          /\ Head(todo[c]).id \notin Ids(Tail(todo[c]))
      BY <3>1, <3>2, ListFacts
    <3>4. QED
      BY <2>1, <3>1, <3>3 DEF GoingTo, InFlight, Going, T, O, Alert, Early
  <2>2. CASE pc[c] \in Early
    BY <2>2 DEF GoingTo, InFlight, Going, T, O, Early
  <2>3. CASE pc[c] \notin Early /\ ~(pc[c] = "deliver" /\ r < at[c])
    BY <2>3 DEF GoingTo, InFlight, Going, T, O, Early
  <2>4. QED
    BY <2>1, <2>2, <2>3
<1>3. inFlight = UNION {GoingTo(c, r) : c \in Callers}
  BY <1>1
<1>4. \A c \in Callers : GoingTo(c, r) \subseteq Going(c)
  BY DEF GoingTo
<1>5. /\ inFlight \subseteq passed /\ inFlight \cap (Aside \cup H(r)) = {}
      /\ passed = inFlight \cup Aside \cup H(r)
      /\ H(r) \cap Aside = {} /\ NoRepeats(handled[r])
  BY <1>3, <1>4 DEF PlaceInv, HandledInv
<1>6. flagged \cap refused = {} /\ flagged \cap unanswered = {} /\ refused \cap unanswered = {}
  BY DEF PlaceInv
<1> HIDE DEF inFlight
<1>7. /\ DOMAIN places = {1, 2, 3, 4, 5}
      /\ Elems(places) = {inFlight, flagged, refused, unanswered, H(r)}
  <2>1. DOMAIN places = {1, 2, 3, 4, 5}
    OBVIOUS
  <2>2. QED
    BY <2>1 DEF Elems, H
<1>8. passed = UNION Elems(places)
  BY <1>5, <1>7 DEF Aside
<1>9. \A i, j \in DOMAIN places : i # j => places[i] \cap places[j] = {}
  <2>1. /\ inFlight \cap flagged = {} /\ inFlight \cap refused = {} /\ inFlight \cap unanswered = {}
        /\ inFlight \cap H(r) = {}
        /\ H(r) \cap flagged = {} /\ H(r) \cap refused = {} /\ H(r) \cap unanswered = {}
    BY <1>5 DEF Aside
  <2>2. QED
    BY <1>6, <1>7, <2>1 DEF H
<1>10. QED
  BY <1>5, <1>8, <1>9 DEF inFlight

\* pipeline.go:14-46 with detection.go:161-258 and response.go:24-107: an alert the deduper
\* let pass is never lost and no responder is called with it twice, for any rules, any
\* number of responders, any of which may fail at any call, and whatever of router and
\* pipeline is set.
THEOREM AlertsAccounted == Spec => []EveryAlertAccounted
<1>1. Init => Types /\ LineInv /\ AnswerInv /\ PlaceInv /\ HandledInv
  BY InitFacts, AccountInit
<1>2. Types /\ LineInv /\ AnswerInv /\ PlaceInv /\ HandledInv /\ [Next]_vars
        => Types' /\ LineInv' /\ AnswerInv' /\ PlaceInv' /\ HandledInv'
  BY TypesStep, LineStep, AnswerStep, PlaceStep, HandledStep
<1>3. Types /\ LineInv /\ AnswerInv /\ PlaceInv /\ HandledInv => EveryAlertAccounted
  BY PlacesExact
<1>4. QED
  BY <1>1, <1>2, <1>3, PTL DEF Spec

-----------------------------------------------------------------------------
(* The rate limiter *)

\* What the limiter keeps for a key fits what it admitted: the last `number' admissions
\* are in the window that ends at `end', the `Burst' before them may be in the window
\* before it, and every older one is more than a window before this one's start.
Fits(times, number, end) ==
  /\ number <= Burst
  /\ \A i \in DOMAIN times :
       /\ times[i] <= end
       /\ i <= Len(times) - number => times[i] < end - LimitWindow
       /\ i <= Len(times) - number - Burst => times[i] + LimitWindow < end - LimitWindow
  /\ \A i, j \in DOMAIN times : j = i + 2 * Burst => times[j] - times[i] > LimitWindow

LimitTypes ==
  /\ pc \in [Callers -> Stages]
  /\ \A c \in Callers : stamp[c] <= now
  /\ count \in [Keys -> Nat] /\ reset \in [Keys -> Int] /\ admittedAt \in [Keys -> Seq(Nat)]

\* No window starts in the future, nor after the time a caller filters with.
Started(k) ==
  /\ reset[k] - LimitWindow <= now
  /\ \A c \in Callers : pc[c] \in {"limitWait", "limit"} => reset[k] - LimitWindow <= stamp[c]

WindowInv ==
  Limiting => \A k \in Keys : Fits(admittedAt[k], count[k], reset[k]) /\ Started(k)

\* Admitting one more keeps the fit, in the window under way or in a new one.
LEMMA AdmitFits ==
  ASSUME Limiting, NEW times \in Seq(Nat), NEW number \in Nat, NEW end \in Int, NEW t \in Nat,
         Fits(times, number, end), end - LimitWindow <= t,
         NEW before \in Nat, before = IF t > end THEN 0 ELSE number, before < Burst,
         NEW until \in Int, until = IF t > end THEN t + LimitWindow ELSE end
  PROVE  Fits(Append(times, t), before + 1, until) /\ until - LimitWindow <= t
<1> DEFINE more == Append(times, t)
           n == Len(times)
<1>0. LimitWindow \in Nat /\ Burst \in Nat /\ LimitWindow > 0 /\ Burst > 0
  BY WindowsAssumption DEF Limiting
<1>1. /\ n \in Nat /\ DOMAIN times = 1..n /\ DOMAIN more = 1..(n + 1) /\ Len(more) = n + 1
      /\ more[n + 1] = t /\ \A i \in 1..n : more[i] = times[i] /\ times[i] \in Nat
  OBVIOUS
<1> HIDE DEF more, n
<1>2. /\ number <= Burst
      /\ \A i \in 1..n :
           /\ times[i] <= end
           /\ i <= n - number => times[i] < end - LimitWindow
           /\ i <= n - number - Burst => times[i] + LimitWindow < end - LimitWindow
      /\ \A i, j \in 1..n : j = i + 2 * Burst => times[j] - times[i] > LimitWindow
  BY <1>1 DEF Fits, n
<1>3. until - LimitWindow <= t /\ t <= until /\ end <= until
  BY <1>0
<1>4. ASSUME NEW i \in 1..n
      PROVE  /\ more[i] <= until
             /\ i <= (n + 1) - (before + 1) => more[i] < until - LimitWindow
             /\ i <= (n + 1) - (before + 1) - Burst => more[i] + LimitWindow < until - LimitWindow
  <2>1. more[i] = times[i] /\ times[i] \in Nat /\ times[i] <= end
    BY <1>1, <1>2
  <2>2. CASE t > end
    BY <1>0, <1>1, <1>2, <2>1, <2>2
  <2>3. CASE ~(t > end)
    BY <1>0, <1>1, <1>2, <2>1, <2>3
  <2>4. QED
    BY <2>2, <2>3
<1>5. \A i \in 1..(n + 1) :
        /\ more[i] <= until
        /\ i <= (n + 1) - (before + 1) => more[i] < until - LimitWindow
        /\ i <= (n + 1) - (before + 1) - Burst => more[i] + LimitWindow < until - LimitWindow
  <2> SUFFICES ASSUME NEW i \in 1..(n + 1)
               PROVE  /\ more[i] <= until
                      /\ i <= (n + 1) - (before + 1) => more[i] < until - LimitWindow
                      /\ i <= (n + 1) - (before + 1) - Burst
                           => more[i] + LimitWindow < until - LimitWindow
    OBVIOUS
  <2>1. CASE i \in 1..n
    BY <1>4, <2>1
  <2>2. CASE i = n + 1
    BY <1>0, <1>1, <1>3, <2>2
  <2>3. QED
    BY <1>1, <2>1, <2>2
<1>6. ASSUME NEW i \in 1..(n + 1), NEW j \in 1..(n + 1), j = i + 2 * Burst
      PROVE  more[j] - more[i] > LimitWindow
  <2>1. i \in 1..n
    BY <1>0, <1>1, <1>6
  <2>2. CASE j \in 1..n
    BY <1>1, <1>2, <1>6, <2>1, <2>2
  <2>3. CASE j = n + 1
    <3>1. i <= (n + 1) - (before + 1) - Burst
      BY <1>0, <1>1, <1>6, <2>3
    <3>2. more[i] + LimitWindow < until - LimitWindow
      BY <1>4, <2>1, <3>1
    <3>3. more[i] \in Nat /\ more[j] = t
      BY <1>1, <2>1, <2>3
    <3>4. QED
      BY <1>0, <1>3, <3>2, <3>3
  <2>4. QED
    BY <1>1, <2>2, <2>3
<1>7. before + 1 <= Burst
  BY <1>0
<1>8. QED
  BY <1>1, <1>3, <1>5, <1>6, <1>7 DEF Fits, more

\* Initially no window has started.
LEMMA LimitInit == Init => LimitTypes /\ WindowInv
<1> SUFFICES ASSUME Init PROVE LimitTypes /\ WindowInv
  OBVIOUS
<1>1. LimitTypes
  BY DEF Init, LimitTypes, Stages
<1>2. \A k \in Keys : admittedAt[k] = <<>> /\ count[k] = 0 /\ reset[k] = -1 /\ now = 0
  BY DEF Init
<1>3. LimitWindow \in Nat /\ Burst \in Nat
  BY WindowsAssumption
<1>4. \A k \in Keys : Started(k)
  BY <1>2, <1>3 DEF Init, Started
<1>5. \A k \in Keys : Fits(admittedAt[k], count[k], reset[k])
  BY <1>2, <1>3 DEF Fits
<1>6. QED
  BY <1>1, <1>4, <1>5 DEF WindowInv

\* Every step of a caller other than the limiter's own leaves what it keeps; a filter
\* that is about to sample the clock samples the present.
LEMMA LimitFrame ==
  ASSUME Types, LimitTypes, NEW c \in Callers, Process(c)
  PROVE  /\ LimiterFlags(c) \/ LimiterAdmits(c) \/ UNCHANGED <<count, reset, admittedAt>>
         /\ pc' \in [Callers -> Stages] /\ stamp' \in [Callers -> Nat] /\ now' = now
         /\ \A d \in Callers : \/ stamp'[d] = now
                               \/ /\ stamp'[d] = stamp[d]
                                  /\ pc'[d] \in {"limitWait", "limit"} => pc[d] \in {"limitWait", "limit"}
<1> USE DEF stateVars, histVars
<1>0. pc \in [Callers -> Stages] /\ stamp \in [Callers -> Nat] /\ now \in Nat
  BY DEF Types, ClockTypes, LimitTypes
<1>1. LimiterFlags(c) \/ LimiterAdmits(c) \/ UNCHANGED <<count, reset, admittedAt>>
  BY DEF Process, Evaluate, LockDeduper, DedupDrops, DedupPasses, DedupDone, LockLimiter,
         LimitDone, PolicyRefuses, PolicyAccepts, PolicyDone, Handle, DeliverDone, answerVars
<1>2. now' = now
  BY DEF Process, Evaluate, LockDeduper, DedupDrops, DedupPasses, DedupDone, LockLimiter,
         LimiterFlags, LimiterAdmits, LimitDone, PolicyRefuses, PolicyAccepts, PolicyDone,
         Handle, DeliverDone
<1>3. \/ /\ stamp' = [stamp EXCEPT ![c] = now]
         /\ \E s \in {"dedupWait", "limitWait"} : pc' = [pc EXCEPT ![c] = s]
      \/ /\ UNCHANGED stamp
         /\ \/ UNCHANGED pc
            \/ \E s \in {"dedup", "policy", "deliver", "idle"} : pc' = [pc EXCEPT ![c] = s]
            \/ pc[c] = "limitWait" /\ pc' = [pc EXCEPT ![c] = "limit"]
  BY DEF Process, Evaluate, LockDeduper, DedupDrops, DedupPasses, DedupDone, LockLimiter,
         LimiterFlags, LimiterAdmits, LimitDone, PolicyRefuses, PolicyAccepts, PolicyDone,
         Handle, DeliverDone, Deliver, Goto, Return
<1>4. QED
  BY <1>0, <1>1, <1>2, <1>3 DEF Stages

\* With one caller every step keeps what the limiter keeps and what it admitted together.
LEMMA LimitStep ==
  ASSUME \A c, d \in Callers : c = d
  PROVE  Types /\ LimitTypes /\ WindowInv /\ [Next]_vars => LimitTypes' /\ WindowInv'
<1> SUFFICES ASSUME Types, LimitTypes, WindowInv, [Next]_vars PROVE LimitTypes' /\ WindowInv'
  OBVIOUS
<1>0. /\ now \in Nat /\ stamp \in [Callers -> Nat] /\ LimitWindow \in Nat /\ Burst \in Nat
      /\ pc \in [Callers -> Stages] /\ \A c \in Callers : stamp[c] <= now
      /\ count \in [Keys -> Nat] /\ reset \in [Keys -> Int] /\ admittedAt \in [Keys -> Seq(Nat)]
  BY WindowsAssumption DEF Types, ClockTypes, LimitTypes
<1>1. CASE Tick \/ UNCHANGED vars
  <2>1. /\ UNCHANGED <<pc, stamp, count, reset, admittedAt>>
        /\ now' \in Nat /\ now' >= now
    BY <1>0, <1>1 DEF Tick, vars, stateVars, histVars
  <2>2. LimitTypes'
    BY <1>0, <2>1 DEF LimitTypes
  <2>3. ASSUME Limiting, NEW k \in Keys
        PROVE  Fits(admittedAt[k], count[k], reset[k])' /\ Started(k)'
    <3>1. Fits(admittedAt[k], count[k], reset[k]) /\ Started(k)
      BY <2>3 DEF WindowInv
    <3>2. Started(k)'
      BY <1>0, <2>1, <3>1 DEF Started
    <3>3. QED
      BY <2>1, <3>1, <3>2 DEF Fits
  <2>4. QED
    BY <2>2, <2>3 DEF WindowInv, Limiting
<1>2. CASE \E c \in Callers : Process(c)
  <2>0. PICK c \in Callers : Process(c)
    BY <1>2
  <2>1. /\ LimiterFlags(c) \/ LimiterAdmits(c) \/ UNCHANGED <<count, reset, admittedAt>>
        /\ pc' \in [Callers -> Stages] /\ stamp' \in [Callers -> Nat] /\ now' = now
        /\ \A d \in Callers :
             \/ stamp'[d] = now
             \/ /\ stamp'[d] = stamp[d]
                /\ pc'[d] \in {"limitWait", "limit"} => pc[d] \in {"limitWait", "limit"}
    BY <2>0, LimitFrame
  <2>2. \A d \in Callers : stamp'[d] <= now'
    <3> SUFFICES ASSUME NEW d \in Callers PROVE stamp'[d] <= now'
      OBVIOUS
    <3>1. stamp'[d] = now \/ stamp'[d] = stamp[d]
      BY <2>1
    <3>2. QED
      BY <1>0, <2>1, <3>1
  <2>3. ASSUME NEW k \in Keys, Started(k), reset'[k] = reset[k] PROVE Started(k)'
    BY <1>0, <2>1, <2>3 DEF Started
  <2>4. CASE UNCHANGED <<count, reset, admittedAt>>
    <3>1. LimitTypes'
      BY <1>0, <2>1, <2>2, <2>4 DEF LimitTypes
    <3>2. ASSUME Limiting, NEW k \in Keys
          PROVE  Fits(admittedAt[k], count[k], reset[k])' /\ Started(k)'
      <4>1. Fits(admittedAt[k], count[k], reset[k]) /\ Started(k)
        BY <3>2 DEF WindowInv
      <4>2. QED
        BY <2>3, <2>4, <4>1 DEF Fits
    <3>3. QED
      BY <3>1, <3>2 DEF WindowInv, Limiting
  <2>5. CASE LimiterFlags(c)
    <3>1. /\ Limiting /\ ~Room(c) /\ UNCHANGED admittedAt
          /\ count' = [count EXCEPT ![Alert(c).key] = CountBefore(c)]
          /\ reset' = [reset EXCEPT ![Alert(c).key] = ResetBefore(c)]
          /\ Alert(c).key \in Keys
      BY <2>5, AlertRaised DEF LimiterFlags, Types
    <3>2. ~WindowOver(c)
      BY <1>0, <3>1 DEF Room, CountBefore, Limiting
    <3>3. UNCHANGED <<count, reset, admittedAt>>
      BY <1>0, <3>1, <3>2 DEF CountBefore, ResetBefore
    <3>4. QED
      BY <2>4, <3>3
  <2>6. CASE LimiterAdmits(c)
    <3> DEFINE key == Alert(c).key
    <3>1. /\ key \in Keys /\ pc[c] = "limit" /\ UNCHANGED <<pc, stamp>>
          /\ admittedAt' = [admittedAt EXCEPT ![key] = Append(@, stamp[c])]
          /\ Limiting => /\ CountBefore(c) < Burst
                         /\ count' = [count EXCEPT ![key] = CountBefore(c) + 1]
                         /\ reset' = [reset EXCEPT ![key] = ResetBefore(c)]
          /\ ~Limiting => UNCHANGED <<count, reset>>
      BY <2>6, AlertRaised DEF LimiterAdmits, Types, Note, Room
    <3>2. /\ CountBefore(c) \in Nat /\ ResetBefore(c) \in Int /\ stamp[c] \in Nat
          /\ CountBefore(c) = IF stamp[c] > reset[key] THEN 0 ELSE count[key]
          /\ ResetBefore(c) = IF stamp[c] > reset[key] THEN stamp[c] + LimitWindow ELSE reset[key]
      BY <1>0, <3>1 DEF CountBefore, ResetBefore, WindowOver
    <3> HIDE DEF key
    <3>3. LimitTypes'
      <4>1. count' \in [Keys -> Nat] /\ reset' \in [Keys -> Int]
        <5>1. CASE Limiting
          <6>1. CountBefore(c) + 1 \in Nat
            BY <3>2
          <6>2. QED
            BY <1>0, <3>1, <3>2, <5>1, <6>1
        <5>2. CASE ~Limiting
          BY <1>0, <3>1, <5>2
        <5>3. QED
          BY <5>1, <5>2
      <4>2. admittedAt' \in [Keys -> Seq(Nat)]
        BY <1>0, <3>1, <3>2
      <4>3. QED
        BY <2>1, <2>2, <4>1, <4>2 DEF LimitTypes
    <3>4. ASSUME Limiting, NEW k \in Keys
          PROVE  Fits(admittedAt[k], count[k], reset[k])' /\ Started(k)'
      <4>1. Fits(admittedAt[k], count[k], reset[k]) /\ Started(k)
        BY <3>4 DEF WindowInv
      <4>2. CASE k # key
        <5>1. admittedAt'[k] = admittedAt[k] /\ count'[k] = count[k] /\ reset'[k] = reset[k]
          BY <1>0, <3>1, <3>4, <4>2
        <5>2. QED
          BY <2>3, <4>1, <5>1 DEF Fits
      <4>3. CASE k = key
        <5>1. /\ admittedAt'[k] = Append(admittedAt[k], stamp[c])
              /\ count'[k] = CountBefore(c) + 1 /\ reset'[k] = ResetBefore(c)
          BY <1>0, <3>1, <3>4, <4>3
        <5>2. reset[k] - LimitWindow <= stamp[c]
          BY <3>1, <4>1 DEF Started
        <5>3. /\ admittedAt[k] \in Seq(Nat) /\ count[k] \in Nat /\ reset[k] \in Int
          BY <1>0
        <5>4. /\ Fits(Append(admittedAt[k], stamp[c]), CountBefore(c) + 1, ResetBefore(c))
              /\ ResetBefore(c) - LimitWindow <= stamp[c]
          BY <3>1, <3>2, <3>4, <4>1, <4>3, <5>2, <5>3, AdmitFits
        <5>5. \A d \in Callers : stamp'[d] = stamp[c]
          BY <3>1
        <5>6. Started(k)'
          BY <1>0, <2>1, <3>2, <5>1, <5>4, <5>5 DEF Started
        <5>7. QED
          BY <5>1, <5>4, <5>6 DEF Fits
      <4>4. QED
        BY <4>2, <4>3
    <3>5. QED
      BY <3>3, <3>4 DEF WindowInv, Limiting
  <2>7. QED
    BY <2>1, <2>4, <2>5, <2>6
<1>3. QED
  BY <1>1, <1>2 DEF Next, Terminated

\* RateLimiter.Filter (detection.go:187-233): its windows are fixed, so more than a burst
\* may come within a window's length, but never more than two bursts, provided calls do
\* not race, as under CollectAgent's processMu.
THEOREM LimiterBounds ==
  ASSUME \A c, d \in Callers : c = d
  PROVE  Spec => []BurstBounded
<1>1. Init => Types /\ LimitTypes /\ WindowInv
  BY InitFacts, LimitInit
<1>2. Types /\ LimitTypes /\ WindowInv /\ [Next]_vars => Types' /\ LimitTypes' /\ WindowInv'
  BY TypesStep, LimitStep
<1>3. WindowInv => BurstBounded
  BY DEF WindowInv, Fits, BurstBounded
<1>4. QED
  BY <1>1, <1>2, <1>3, PTL DEF Spec

-----------------------------------------------------------------------------
(* Type correctness *)

\* The clock and what is kept for a key stay in their ranges.
RangeInv ==
  /\ wiring \in Wirings
  /\ now \in 0..MaxTime /\ calls \in 0..MaxCalls
  /\ stamp \in [Callers -> 0..MaxTime]
  /\ seen \in [Keys -> 0..(MaxTime + DedupWindow)]
  /\ count \in [Keys -> 0..Burst]
  /\ reset \in [Keys -> -1..(MaxTime + LimitWindow)]
  /\ last \in [Keys -> 0..(MaxTime + Cooldown)]

\* Initially every variable is in its range.
LEMMA RangeInit == Init => RangeInv
<1> SUFFICES ASSUME Init PROVE RangeInv
  OBVIOUS
<1>1. {DedupWindow, LimitWindow, Burst, Cooldown, MaxTime, MaxCalls} \subseteq Nat
  BY WindowsAssumption
<1>2. 0 \in 0..MaxTime /\ 0 \in 0..MaxCalls /\ 0 \in 0..(MaxTime + DedupWindow)
      /\ 0 \in 0..Burst /\ -1 \in -1..(MaxTime + LimitWindow) /\ 0 \in 0..(MaxTime + Cooldown)
  BY <1>1
<1>3. QED
  BY <1>2 DEF Init, RangeInv

\* Every step keeps them there: an alert is admitted only below the burst.
LEMMA RangeStep == Types /\ RangeInv /\ [Next]_vars => RangeInv'
<1> SUFFICES ASSUME Types, RangeInv, [Next]_vars PROVE RangeInv'
  OBVIOUS
<1> USE DEF RangeInv, answerVars
<1>0. /\ DedupWindow \in Nat /\ LimitWindow \in Nat /\ Burst \in Nat /\ Cooldown \in Nat
      /\ MaxTime \in Nat /\ MaxCalls \in Nat
  BY WindowsAssumption
<1>1. CASE Tick \/ UNCHANGED vars
  BY <1>0, <1>1 DEF Tick, vars, stateVars, histVars
<1>2. ASSUME NEW c \in Callers, Process(c) PROVE RangeInv'
  <2>1. CASE Evaluate(c)
    BY <1>0, <2>1 DEF Evaluate, stateVars
  <2>2. CASE DedupPasses(c)
    <3>1. Alert(c).key \in Keys
      BY <2>2, AlertRaised DEF DedupPasses, Types
    <3>2. stamp[c] + DedupWindow \in 0..(MaxTime + DedupWindow)
      BY <1>0
    <3>3. seen' \in [Keys -> 0..(MaxTime + DedupWindow)]
      BY <2>2, <3>1, <3>2 DEF DedupPasses, SeenAfter
    <3>4. QED
      BY <2>2, <3>3 DEF DedupPasses
  <2>3. CASE LimiterFlags(c) \/ LimiterAdmits(c)
    <3>1. Alert(c).key \in Keys
      BY <2>3, AlertRaised DEF LimiterFlags, LimiterAdmits, Types
    <3>2. /\ CountBefore(c) \in 0..Burst
          /\ CountBefore(c) < Burst => CountBefore(c) + 1 \in 0..Burst
      BY <1>0, <3>1 DEF CountBefore
    <3>3. ResetBefore(c) \in -1..(MaxTime + LimitWindow)
      BY <1>0, <3>1 DEF ResetBefore
    <3>4. \/ UNCHANGED <<count, reset>>
          \/ /\ \E n \in 0..Burst : count' = [count EXCEPT ![Alert(c).key] = n]
             /\ reset' = [reset EXCEPT ![Alert(c).key] = ResetBefore(c)]
      <4>1. CASE LimiterFlags(c)
        BY <3>2, <4>1 DEF LimiterFlags
      <4>2. CASE LimiterAdmits(c) /\ Limiting
        <5>1. CountBefore(c) + 1 \in 0..Burst
          BY <3>2, <4>2 DEF LimiterAdmits, Room
        <5>2. QED
          BY <4>2, <5>1 DEF LimiterAdmits
      <4>3. CASE LimiterAdmits(c) /\ ~Limiting
        BY <4>3 DEF LimiterAdmits
      <4>4. QED
        BY <2>3, <4>1, <4>2, <4>3
    <3>5. /\ count' \in [Keys -> 0..Burst]
          /\ reset' \in [Keys -> -1..(MaxTime + LimitWindow)]
      BY <3>1, <3>3, <3>4
    <3>6. QED
      BY <2>3, <3>5 DEF LimiterFlags, LimiterAdmits
  <2>4. CASE PolicyAccepts(c)
    <3>1. Alert(c).key \in Keys
      BY <2>4, AlertRaised DEF PolicyAccepts, Types
    <3>2. now + Cooldown \in 0..(MaxTime + Cooldown)
      BY <1>0
    <3>3. last' \in [Keys -> 0..(MaxTime + Cooldown)]
      BY <2>4, <3>1, <3>2 DEF PolicyAccepts, LastAfter
    <3>4. QED
      BY <2>4, <3>3 DEF PolicyAccepts
  <2>5. CASE DedupDone(c)
    BY <2>5 DEF DedupDone, stateVars
  <2>6. CASE \/ LockDeduper(c) \/ DedupDrops(c) \/ LockLimiter(c) \/ LimitDone(c)
             \/ PolicyRefuses(c) \/ PolicyDone(c) \/ Handle(c) \/ DeliverDone(c)
    BY <2>6 DEF LockDeduper, DedupDrops, LockLimiter, LimitDone, PolicyRefuses, PolicyDone,
                Handle, DeliverDone, stateVars
  <2>7. QED
    BY <1>2, <2>1, <2>2, <2>3, <2>4, <2>5, <2>6 DEF Process
<1>3. QED
  BY <1>1, <1>2 DEF Next, Terminated

\* Every variable has its type, and no key's count ever exceeds the burst, for every
\* window, policy and set of responders.
THEOREM TypeCorrect == Spec => []TypeOK
<1>1. Init => Types /\ LineInv /\ AnswerInv /\ RangeInv
  BY InitFacts, AccountInit, RangeInit
<1>2. Types /\ LineInv /\ AnswerInv /\ RangeInv /\ [Next]_vars
        => Types' /\ LineInv' /\ AnswerInv' /\ RangeInv'
  BY TypesStep, LineStep, AnswerStep, RangeStep
<1>3. ASSUME Types, LineInv, AnswerInv, RangeInv PROVE TypeOK
  <2>1. ASSUME NEW c \in Callers, NEW q \in Seq(Raised), Ids(q) \subseteq T(c) \cup O(c)
        PROVE  Elems(q) \subseteq Alerts
    <3> SUFFICES ASSUME NEW i \in DOMAIN q PROVE q[i] \in Alerts
      BY DEF Elems
    <3>1. q[i] \in Raised /\ q[i].id \in T(c) \cup O(c)
      BY <2>1 DEF Ids
    <3>2. q[i].id \in 1..nextId
      BY <1>3, <3>1 DEF LineInv, Types, ClockTypes, Raised
    <3>3. QED
      BY <3>1, <3>2 DEF Raised, Alerts
  <2>2. \A c \in Callers : Elems(todo[c]) \cup Elems(out[c]) \subseteq Alerts
    BY <1>3, <2>1 DEF Types, AlertTypes, T, O
  <2>3. nextId \in Nat \ {0} /\ pc \in [Callers -> Stages]
    BY <1>3 DEF Types, ClockTypes, LineInv
  <2>4. wiring \in Wirings /\ errs \in [Callers -> Seq(0..Responders)]
        /\ \A c \in Callers : at[c] \in 1..Responders \cup {1}
    BY <1>3 DEF AnswerInv, RangeInv
  <2>5. QED
    BY <1>3, <2>2, <2>3, <2>4 DEF TypeOK, RangeInv
<1>4. QED
  BY <1>1, <1>2, <1>3, PTL DEF Spec

=============================================================================
