----------------------------- MODULE ListsProofs -----------------------------
(***************************************************************************)
(* What the proofs about the components need of numbers, of lists and of   *)
(* sums: induction, what a filter keeps, lists that have each member of a  *)
(* set once, and that larger numbers have a larger sum.                    *)
(***************************************************************************)
EXTENDS Lists, Integers, SequencesExt, FiniteSetTheorems, WellFoundedInduction, TLAPS

(* Induction *)

\* A set of naturals has a least element.
LEMMA Least ==
  ASSUME NEW S \in SUBSET Nat, S # {}
  PROVE  \E n \in S : \A m \in S : n <= m
<1>1. IsWellFoundedOn(OpToRel(<, Nat), Nat)
  BY NatLessThanWellFounded
<1>2. PICK n \in S : \A m \in S : ~(<<m, n>> \in OpToRel(<, Nat))
  BY <1>1, WFMin
<1>3. \A m \in S : ~(<<m, n>> \in OpToRel(<, Nat)) => n <= m
  BY DEF OpToRel
<1>4. QED
  BY <1>2, <1>3

\* Induction: what holds for 0 and passes on to the next number holds for every number.
LEMMA Reached ==
  ASSUME NEW S, 0 \in S, \A n \in Nat : n \in S => n + 1 \in S
  PROVE  Nat \subseteq S
<1> DEFINE Missing == Nat \ S
<1>1. ASSUME Missing # {} PROVE FALSE
  <2>1. PICK n \in Missing : \A m \in Missing : n <= m
    BY <1>1, Least
  <2>2. n - 1 \in Nat /\ n - 1 \in S
    BY <2>1
  <2>3. QED
    BY <2>1, <2>2
<1>2. QED
  BY <1>1

-----------------------------------------------------------------------------
(* Filters *)

\* The function that Kept is the last value of.
IsTable(f, last, rows, positions) ==
  f = [n \in 0..last |->
         IF n = 0 THEN <<>>
         ELSE IF n \in positions THEN Append(f[n - 1], rows[n]) ELSE f[n - 1]]

\* There is one: each row extends it.
LEMMA TableExists ==
  ASSUME NEW rows, NEW positions, NEW last \in Nat
  PROVE  \E f : IsTable(f, last, rows, positions)
<1> DEFINE S == {k \in Nat : \E f : IsTable(f, k, rows, positions)}
<1>1. 0 \in S
  <2>1. IsTable([n \in 0..0 |-> <<>>], 0, rows, positions)
    BY DEF IsTable
  <2>2. QED
    BY <2>1
<1>2. ASSUME NEW k \in Nat, k \in S PROVE k + 1 \in S
  <2>1. PICK f : IsTable(f, k, rows, positions)
    BY <1>2
  <2> DEFINE last1 == IF k + 1 \in positions THEN Append(f[k], rows[k + 1]) ELSE f[k]
             g == [n \in 0..(k + 1) |-> IF n = k + 1 THEN last1 ELSE f[n]]
  <2>2. \A n \in 0..k : g[n] = f[n]
    OBVIOUS
  <2>3. ASSUME NEW n \in 0..(k + 1)
        PROVE  g[n] = IF n = 0 THEN <<>>
                      ELSE IF n \in positions THEN Append(g[n - 1], rows[n]) ELSE g[n - 1]
    <3>1. CASE n = k + 1
      <4>1. n # 0 /\ n - 1 = k /\ g[n - 1] = f[k] /\ g[n] = last1
        BY <3>1
      <4> HIDE DEF g
      <4>2. QED
        BY <4>1, <3>1
    <3>2. CASE n \in 0..k /\ n = 0
      <4>1. f[n] = <<>>
        BY <2>1, <3>2 DEF IsTable
      <4>2. QED
        BY <4>1, <3>2, <2>2
    <3>3. CASE n \in 0..k /\ n # 0
      <4>1. n - 1 \in 0..k
        BY <3>3
      <4>2. f[n] = IF n \in positions THEN Append(f[n - 1], rows[n]) ELSE f[n - 1]
        BY <2>1, <3>3 DEF IsTable
      <4>3. g[n] = f[n] /\ g[n - 1] = f[n - 1]
        BY <2>2, <3>3, <4>1
      <4> HIDE DEF g
      <4>4. QED
        BY <4>2, <4>3, <3>3
    <3>4. QED
      BY <3>1, <3>2, <3>3
  <2>4. IsTable(g, k + 1, rows, positions)
    BY <2>3 DEF IsTable
  <2>5. QED
    BY <2>4
<1>3. Nat \subseteq S
  <2> HIDE DEF S
  <2>1. QED
    BY <1>1, <1>2, Reached
<1>4. QED
  BY <1>3

\* Kept is the last value of one.
LEMMA KeptIsLast ==
  ASSUME NEW rows, NEW positions, Len(rows) \in Nat
  PROVE  \E f : IsTable(f, Len(rows), rows, positions) /\ Kept(rows, positions) = f[Len(rows)]
<1> DEFINE h == CHOOSE f : IsTable(f, Len(rows), rows, positions)
<1>1. IsTable(h, Len(rows), rows, positions)
  BY TableExists
<1>2. Kept(rows, positions) = h[Len(rows)]
  BY DEF Kept, IsTable
<1> HIDE DEF h
<1>3. QED
  BY <1>1, <1>2

\* A filter returns rows at the positions kept, and all rows if all are kept.
LEMMA KeptRows ==
  ASSUME NEW T, NEW rows \in Seq(T), NEW positions
  PROVE  /\ Kept(rows, positions) \in Seq({rows[i] : i \in positions \cap DOMAIN rows})
         /\ DOMAIN rows \subseteq positions => Kept(rows, positions) = rows
<1>1. PICK f : IsTable(f, Len(rows), rows, positions) /\ Kept(rows, positions) = f[Len(rows)]
  BY KeptIsLast
<1> DEFINE R == {rows[i] : i \in positions \cap DOMAIN rows}
           P(n) == /\ f[n] \in Seq(R)
                   /\ DOMAIN rows \subseteq positions => f[n] = SubSeq(rows, 1, n)
           S == {n \in Nat : n \in 0..Len(rows) => P(n)}
<1>2. 0 \in S
  <2>1. f[0] = <<>>
    BY <1>1 DEF IsTable
  <2>2. SubSeq(rows, 1, 0) = <<>> /\ <<>> \in Seq(R)
    OBVIOUS
  <2>3. P(0)
    BY <2>1, <2>2
  <2> HIDE DEF P
  <2>4. QED
    BY <2>3
<1>3. ASSUME NEW n \in Nat, n \in S PROVE n + 1 \in S
  <2> SUFFICES ASSUME n + 1 \in 0..Len(rows) PROVE P(n + 1)
    OBVIOUS
  <2>1. n \in 0..Len(rows) /\ n + 1 \in DOMAIN rows
    OBVIOUS
  <2>2. f[n + 1] = IF n + 1 \in positions THEN Append(f[n], rows[n + 1]) ELSE f[n]
    <3>1. n + 1 # 0 /\ (n + 1) - 1 = n
      OBVIOUS
    <3>2. f[n + 1] = IF n + 1 = 0 THEN <<>>
                     ELSE IF n + 1 \in positions THEN Append(f[(n + 1) - 1], rows[n + 1])
                     ELSE f[(n + 1) - 1]
      BY <1>1, <2>1 DEF IsTable
    <3>3. QED
      BY <3>1, <3>2
  <2>3. P(n)
    BY <1>3, <2>1
  <2>4. CASE n + 1 \in positions
    <3>1. rows[n + 1] \in R
      BY <2>1, <2>4
    <3>2. f[n + 1] = Append(f[n], rows[n + 1])
      BY <2>2, <2>4
    <3>3. f[n + 1] \in Seq(R)
      <4> HIDE DEF R
      <4>1. QED
        BY <3>1, <3>2, <2>3
    <3>4. SubSeq(rows, 1, n + 1) = Append(SubSeq(rows, 1, n), rows[n + 1])
      BY <2>1
    <3>5. QED
      BY <3>2, <3>3, <3>4, <2>3
  <2>5. CASE n + 1 \notin positions
    BY <2>1, <2>2, <2>3, <2>5
  <2>6. QED
    BY <2>4, <2>5
<1>4. Nat \subseteq S
  <2> HIDE DEF S
  <2>1. QED
    BY <1>2, <1>3, Reached
<1>5. P(Len(rows))
  BY <1>4
<1>6. SubSeq(rows, 1, Len(rows)) = rows
  OBVIOUS
<1>7. QED
  BY <1>1, <1>5, <1>6

-----------------------------------------------------------------------------
(* Lists of the members of a set *)

\* A list has the members of a set, each once.
Enumerates(s, T) ==
  /\ s \in Seq(T)
  /\ \A x \in T : \E i \in 1..Len(s) : s[i] = x
  /\ \A i, j \in 1..Len(s) : s[i] = s[j] => i = j

\* The list is as long as the set is large.
LEMMA EnumeratesFinite ==
  ASSUME NEW s, NEW T, Enumerates(s, T)
  PROVE  IsFiniteSet(T) /\ Cardinality(T) = Len(s) /\ Len(s) \in Nat /\ ToSet(s) = T
<1>1. s \in [1..Len(s) -> T] /\ Len(s) \in Nat
  BY DEF Enumerates
<1>2. s \in Bijection(1..Len(s), T)
  BY <1>1 DEF Enumerates, Bijection, Injection, Surjection, IsInjective
<1>3. IsFiniteSet(1..Len(s)) /\ Cardinality(1..Len(s)) = Len(s)
  <2>1. 1 \in Int /\ Len(s) \in Int /\ (IF 1 > Len(s) THEN 0 ELSE Len(s) - 1 + 1) = Len(s)
    BY <1>1
  <2>2. QED
    BY <2>1, FS_Interval
<1>4. IsFiniteSet(T) /\ Cardinality(T) = Len(s)
  BY <1>2, <1>3, FS_Bijection DEF ExistsBijection
<1>5. ToSet(s) = T
  BY <1>1 DEF Enumerates, ToSet
<1>6. QED
  BY <1>1, <1>4, <1>5

\* One list after another, when they have nothing in common.
LEMMA Joined ==
  ASSUME NEW s, NEW T, Enumerates(s, T), NEW t, NEW U, Enumerates(t, U), T \cap U = {}
  PROVE  Enumerates(s \o t, T \cup U)
<1>1. /\ s \in Seq(T) /\ t \in Seq(U) /\ Len(s) \in Nat /\ Len(t) \in Nat
      /\ \A i \in 1..Len(s) : s[i] \in T
      /\ \A i \in 1..Len(t) : t[i] \in U
  BY DEF Enumerates
<1>2. s \o t \in Seq(T \cup U) /\ Len(s \o t) = Len(s) + Len(t)
  BY <1>1
<1>3. /\ \A i \in 1..Len(s) : (s \o t)[i] = s[i]
      /\ \A i \in 1..Len(t) : (s \o t)[Len(s) + i] = t[i]
  BY <1>1
<1>4. \A i \in 1..Len(s \o t) : i \in 1..Len(s) \/ (i - Len(s) \in 1..Len(t) /\ i = Len(s) + (i - Len(s)))
  BY <1>1, <1>2
<1>5. ASSUME NEW x \in T \cup U PROVE \E i \in 1..Len(s \o t) : (s \o t)[i] = x
  <2>1. CASE x \in T
    <3>1. PICK i \in 1..Len(s) : s[i] = x
      BY <2>1 DEF Enumerates
    <3>2. i \in 1..Len(s \o t) /\ (s \o t)[i] = x
      BY <1>1, <1>2, <1>3, <3>1
    <3>3. QED
      BY <3>2
  <2>2. CASE x \in U
    <3>1. PICK i \in 1..Len(t) : t[i] = x
      BY <2>2 DEF Enumerates
    <3>2. Len(s) + i \in 1..Len(s \o t) /\ (s \o t)[Len(s) + i] = x
      BY <1>1, <1>2, <1>3, <3>1
    <3>3. QED
      BY <3>2
  <2>3. QED
    BY <2>1, <2>2
<1>6. ASSUME NEW i \in 1..Len(s \o t), NEW j \in 1..Len(s \o t), (s \o t)[i] = (s \o t)[j] PROVE i = j
  <2>1. CASE i \in 1..Len(s) /\ j \in 1..Len(s)
    BY <1>3, <1>6, <2>1 DEF Enumerates
  <2>2. CASE i \notin 1..Len(s) /\ j \notin 1..Len(s)
    <3>1. /\ i - Len(s) \in 1..Len(t) /\ (s \o t)[i] = t[i - Len(s)]
          /\ j - Len(s) \in 1..Len(t) /\ (s \o t)[j] = t[j - Len(s)]
      BY <1>3, <1>4, <2>2
    <3>2. i - Len(s) = j - Len(s)
      BY <1>6, <3>1 DEF Enumerates
    <3>3. QED
      BY <1>1, <1>2, <3>2
  <2>3. CASE i \in 1..Len(s) /\ j \notin 1..Len(s)
    <3>1. (s \o t)[i] \in T /\ (s \o t)[j] \in U
      BY <1>1, <1>3, <1>4, <2>3
    <3>2. QED
      BY <1>6, <3>1
  <2>4. CASE i \notin 1..Len(s) /\ j \in 1..Len(s)
    <3>1. (s \o t)[j] \in T /\ (s \o t)[i] \in U
      BY <1>1, <1>3, <1>4, <2>4
    <3>2. QED
      BY <1>6, <3>1
  <2>5. QED
    BY <2>1, <2>2, <2>3, <2>4
<1>7. QED
  BY <1>2, <1>5, <1>6 DEF Enumerates

\* The lists of a map's keys, in whatever order it yields them.
LEMMA AnyOrder ==
  ASSUME NEW T, IsFiniteSet(T), NEW s \in SetToSeqs(T)
  PROVE  Enumerates(s, T)
<1>1. Cardinality(T) \in Nat
  BY FS_CardinalityType
<1>2. s \in [1..Cardinality(T) -> T] /\ \A i, j \in 1..Cardinality(T) : i # j => s[i] # s[j]
  BY DEF SetToSeqs
<1>3. s \in Seq(T) /\ Len(s) = Cardinality(T)
  BY <1>1, <1>2
<1>4. s \in Injection(1..Cardinality(T), T)
  BY <1>2 DEF Injection, IsInjective
<1>5. Cardinality(1..Cardinality(T)) = Cardinality(T)
  BY <1>1, FS_Interval
<1>6. s \in Surjection(1..Cardinality(T), T)
  BY <1>4, <1>5, FS_Injection
<1>7. QED
  BY <1>2, <1>3, <1>6 DEF Enumerates, Surjection

\* A filter of such a list lists what it keeps.
LEMMA KeptEnumerates ==
  ASSUME NEW rows, NEW T, Enumerates(rows, T), NEW positions
  PROVE  Enumerates(Kept(rows, positions), {rows[i] : i \in positions \cap 1..Len(rows)})
<1>1. Len(rows) \in Nat /\ \A n \in 1..Len(rows) : rows[n] \in T
  BY DEF Enumerates
<1>2. PICK f : IsTable(f, Len(rows), rows, positions) /\ Kept(rows, positions) = f[Len(rows)]
  BY <1>1, KeptIsLast
<1> DEFINE Before(n) == {rows[i] : i \in positions \cap 1..n}
           S == {n \in Nat : n <= Len(rows) => Enumerates(f[n], Before(n))}
<1>3. 0 \in S
  <2>1. f[0] = <<>> /\ Before(0) = {}
    BY <1>1, <1>2 DEF IsTable
  <2>2. Enumerates(<<>>, {})
    BY DEF Enumerates
  <2> HIDE DEF Before
  <2>3. QED
    BY <2>1, <2>2
<1>4. ASSUME NEW n \in Nat, n \in S PROVE n + 1 \in S
  <2> SUFFICES ASSUME n + 1 <= Len(rows) PROVE Enumerates(f[n + 1], Before(n + 1))
    OBVIOUS
  <2> DEFINE x == rows[n + 1]
  <2>1. Enumerates(f[n], Before(n)) /\ n + 1 \in 1..Len(rows) /\ x \in T
    BY <1>1, <1>4
  <2>2. f[n + 1] = IF n + 1 \in positions THEN Append(f[n], x) ELSE f[n]
    <3>1. n + 1 \in 0..Len(rows) /\ n + 1 # 0 /\ (n + 1) - 1 = n
      BY <1>1
    <3>2. QED
      BY <1>2, <3>1 DEF IsTable
  <2>3. Before(n + 1) = IF n + 1 \in positions THEN Before(n) \cup {x} ELSE Before(n)
    <3>1. 1..(n + 1) = (1..n) \cup {n + 1}
      OBVIOUS
    <3>2. QED
      BY <3>1
  <2>4. x \notin Before(n)
    <3>1. \A i \in 1..n : i \in 1..Len(rows) /\ i # n + 1
      BY <1>1
    <3>2. \A i \in 1..n : rows[i] # x
      BY <2>1, <3>1 DEF Enumerates
    <3>3. QED
      BY <3>2
  <2>5. Enumerates(<<x>>, {x})
    BY DEF Enumerates
  <2>6. f[n] \o <<x>> = Append(f[n], x)
    BY <2>1 DEF Enumerates
  <2> HIDE DEF Before, x
  <2>7. Enumerates(f[n] \o <<x>>, Before(n) \cup {x})
    BY <2>1, <2>4, <2>5, Joined
  <2>8. QED
    BY <2>1, <2>2, <2>3, <2>6, <2>7
<1>5. Len(rows) \in S
  <2> HIDE DEF S
  <2>1. QED
    BY <1>1, <1>3, <1>4, Reached
<1>6. QED
  BY <1>1, <1>2, <1>5

-----------------------------------------------------------------------------
(* Sums *)

Pick(s) == CHOOSE x \in s : TRUE
LEMMA Picked == \A s : s # {} => Pick(s) \in s
  BY DEF Pick

\* The sums of a function over the subsets of a set.
Sums(F, f, S) ==
  F = [s \in SUBSET S |-> IF s = {} THEN 0 ELSE f[Pick(s)] + F[s \ {Pick(s)}]]

\* The same for the subsets of at most n members.
SumsTo(F, f, S, n) ==
  \A s \in SUBSET S : Cardinality(s) <= n =>
    F[s] = IF s = {} THEN 0 ELSE f[Pick(s)] + F[s \ {Pick(s)}]

\* What is left of a set when the next member is taken.
LEMMA Rest ==
  ASSUME NEW S, IsFiniteSet(S), NEW s \in SUBSET S, s # {}
  PROVE  /\ Pick(s) \in s /\ Pick(s) \in S /\ s \ {Pick(s)} \in SUBSET S
         /\ Cardinality(s) \in Nat /\ Cardinality(s \ {Pick(s)}) = Cardinality(s) - 1
         /\ Cardinality(s \ {Pick(s)}) \in Nat
<1>1. Pick(s) \in s
  BY Picked
<1>2. IsFiniteSet(s)
  BY FS_Subset
<1>3. Cardinality(s) \in Nat /\ Cardinality(s \ {Pick(s)}) = Cardinality(s) - 1 /\ IsFiniteSet(s \ {Pick(s)})
  BY <1>1, <1>2, FS_CardinalityType, FS_RemoveElement
<1>4. Cardinality(s \ {Pick(s)}) \in Nat
  BY <1>3, FS_CardinalityType
<1>5. QED
  BY <1>1, <1>3, <1>4

\* A set with no members is empty.
LEMMA NoMembers ==
  ASSUME NEW S, IsFiniteSet(S), NEW s \in SUBSET S, Cardinality(s) <= 0
  PROVE  s = {}
<1>1. IsFiniteSet(s)
  BY FS_Subset
<1>2. Cardinality(s) = 0
  BY <1>1, FS_CardinalityType
<1>3. QED
  BY <1>1, <1>2, FS_EmptySet

\* A sum over the subsets of a finite set exists.
LEMMA SumsExist ==
  ASSUME NEW S, IsFiniteSet(S), NEW f
  PROVE  \E F : Sums(F, f, S)
<1> DEFINE N == {n \in Nat : \E F : SumsTo(F, f, S, n)}
           Next1(F) == [s \in SUBSET S |-> IF s = {} THEN 0 ELSE f[Pick(s)] + F[s \ {Pick(s)}]]
<1>1. ASSUME NEW n \in Nat, NEW F, SumsTo(F, f, S, n) PROVE SumsTo(Next1(F), f, S, n + 1)
  <2> SUFFICES ASSUME NEW s \in SUBSET S, Cardinality(s) <= n + 1
               PROVE  Next1(F)[s] = IF s = {} THEN 0 ELSE f[Pick(s)] + Next1(F)[s \ {Pick(s)}]
    BY DEF SumsTo
  <2>1. CASE s = {}
    BY <2>1
  <2>2. CASE s # {}
    <3> DEFINE t == s \ {Pick(s)}
    <3>1. t \in SUBSET S /\ Cardinality(t) <= n
      BY <2>2, Rest
    <3>2. F[t] = IF t = {} THEN 0 ELSE f[Pick(t)] + F[t \ {Pick(t)}]
      BY <1>1, <3>1 DEF SumsTo
    <3>3. Next1(F)[t] = IF t = {} THEN 0 ELSE f[Pick(t)] + F[t \ {Pick(t)}]
      BY <3>1
    <3>4. Next1(F)[s] = f[Pick(s)] + F[t]
      BY <2>2
    <3> HIDE DEF Next1, t
    <3>5. Next1(F)[s] = f[Pick(s)] + Next1(F)[t]
      BY <3>2, <3>3, <3>4
    <3>6. QED
      BY <2>2, <3>5 DEF t
  <2>3. QED
    BY <2>1, <2>2
<1>2. 0 \in N
  <2>1. ASSUME NEW s \in SUBSET S, Cardinality(s) <= 0 PROVE s = {}
    BY <2>1, NoMembers
  <2>2. SumsTo([s \in SUBSET S |-> 0], f, S, 0)
    BY <2>1 DEF SumsTo
  <2>3. QED
    BY <2>2
<1>3. ASSUME NEW n \in Nat, n \in N PROVE n + 1 \in N
  <2>1. PICK F : SumsTo(F, f, S, n)
    BY <1>3
  <2>2. SumsTo(Next1(F), f, S, n + 1)
    BY <1>1, <2>1
  <2>3. QED
    BY <2>2
<1>4. Nat \subseteq N
  <2> HIDE DEF N
  <2>1. QED
    BY <1>2, <1>3, Reached
<1>5. PICK F : SumsTo(F, f, S, Cardinality(S))
  BY <1>4, FS_CardinalityType
<1>6. \A s \in SUBSET S : F[s] = IF s = {} THEN 0 ELSE f[Pick(s)] + F[s \ {Pick(s)}]
  BY <1>5, FS_Subset DEF SumsTo
<1> DEFINE G == Next1(F)
<1>7. \A s \in SUBSET S : G[s] = F[s]
  BY <1>6
<1>8. ASSUME NEW s \in SUBSET S, s # {} PROVE s \ {Pick(s)} \in SUBSET S
  OBVIOUS
<1>9. G = [s \in SUBSET S |-> IF s = {} THEN 0 ELSE f[Pick(s)] + G[s \ {Pick(s)}]]
  <2>1. \A s \in SUBSET S : (IF s = {} THEN 0 ELSE f[Pick(s)] + F[s \ {Pick(s)}])
                             = (IF s = {} THEN 0 ELSE f[Pick(s)] + G[s \ {Pick(s)}])
    <3> HIDE DEF G
    <3>1. QED
      BY <1>7, <1>8
  <2>2. G = [s \in SUBSET S |-> IF s = {} THEN 0 ELSE f[Pick(s)] + F[s \ {Pick(s)}]]
    OBVIOUS
  <2> HIDE DEF G
  <2>3. QED
    BY <2>1, <2>2
<1>10. QED
  BY <1>9 DEF Sums

\* Larger numbers have larger sums.
LEMMA SumsCompare ==
  ASSUME NEW S, IsFiniteSet(S), NEW f, NEW g, NEW F, NEW G, Sums(F, f, S), Sums(G, g, S),
         \A k \in S : f[k] \in Int /\ g[k] \in Int /\ f[k] <= g[k]
  PROVE  F[S] \in Int /\ G[S] \in Int /\ F[S] <= G[S]
<1> DEFINE Holds(s) == F[s] \in Int /\ G[s] \in Int /\ F[s] <= G[s]
           N == {n \in Nat : \A s \in SUBSET S : Cardinality(s) <= n => Holds(s)}
<1>1. /\ \A s \in SUBSET S : F[s] = IF s = {} THEN 0 ELSE f[Pick(s)] + F[s \ {Pick(s)}]
      /\ \A s \in SUBSET S : G[s] = IF s = {} THEN 0 ELSE g[Pick(s)] + G[s \ {Pick(s)}]
  BY DEF Sums
<1>2. Holds({})
  BY <1>1
<1>3. 0 \in N
  <2>1. ASSUME NEW s \in SUBSET S, Cardinality(s) <= 0 PROVE s = {}
    BY <2>1, NoMembers
  <2>2. QED
    BY <1>2, <2>1
<1>4. ASSUME NEW n \in Nat, n \in N PROVE n + 1 \in N
  <2> SUFFICES ASSUME NEW s \in SUBSET S, Cardinality(s) <= n + 1, s # {} PROVE Holds(s)
    BY <1>2
  <2> DEFINE t == s \ {Pick(s)}
             x == Pick(s)
  <2>1. x \in S /\ t \in SUBSET S /\ Cardinality(t) <= n
    BY Rest
  <2>2. Holds(t)
    BY <1>4, <2>1
  <2>3. F[s] = f[x] + F[t] /\ G[s] = g[x] + G[t]
    BY <1>1
  <2>4. f[x] \in Int /\ g[x] \in Int /\ f[x] <= g[x]
    BY <2>1
  <2> HIDE DEF t, x
  <2>5. QED
    BY <2>2, <2>3, <2>4
<1>5. Nat \subseteq N
  <2> HIDE DEF N
  <2>1. QED
    BY <1>3, <1>4, Reached
<1>6. Cardinality(S) \in N
  BY <1>5, FS_CardinalityType
<1>7. QED
  BY <1>6, FS_CardinalityType

\* The sum of a function over a set.
Total(f, S) == (CHOOSE F : Sums(F, f, S))[S]

\* Whatever sums a function gives its total.
LEMMA TotalUnique ==
  ASSUME NEW S, IsFiniteSet(S), NEW f, \A k \in S : f[k] \in Int, NEW F, Sums(F, f, S)
  PROVE  F[S] = Total(f, S)
<1> DEFINE G == CHOOSE H : Sums(H, f, S)
<1>1. Sums(G, f, S)
  BY SumsExist
<1> HIDE DEF G
<1>2. F[S] \in Int /\ G[S] \in Int /\ F[S] <= G[S]
  BY <1>1, SumsCompare
<1>3. G[S] <= F[S]
  BY <1>1, SumsCompare
<1>4. F[S] = G[S]
  BY <1>2, <1>3
<1>5. QED
  BY <1>4 DEF G, Total

\* Totals compare as the functions do, and functions that are equal have one total.
LEMMA TotalCompare ==
  ASSUME NEW S, IsFiniteSet(S), NEW f, NEW g,
         \A k \in S : f[k] \in Int /\ g[k] \in Int /\ f[k] <= g[k]
  PROVE  Total(f, S) \in Int /\ Total(g, S) \in Int /\ Total(f, S) <= Total(g, S)
<1> DEFINE F == CHOOSE H : Sums(H, f, S)
           G == CHOOSE H : Sums(H, g, S)
<1>1. Sums(F, f, S) /\ Sums(G, g, S)
  BY SumsExist
<1>2. Total(f, S) = F[S] /\ Total(g, S) = G[S]
  BY DEF Total
<1> HIDE DEF F, G
<1>3. QED
  BY <1>1, <1>2, SumsCompare

-----------------------------------------------------------------------------
(* Division *)

\* Division rounds down.
LEMMA DivAtLeast ==
  ASSUME NEW a \in Int, NEW n \in Nat \ {0}, NEW c \in Int
  PROVE  a \div n >= c <=> a >= c * n
<1> DEFINE q == a \div n
<1>1. q \in Int /\ q * n <= a /\ a < q * n + n
  OBVIOUS
<1>2. q * n + n = (q + 1) * n
  BY <1>1
<1>3. ASSUME NEW x \in Int, NEW y \in Int, x <= y PROVE x * n <= y * n
  BY <1>3
<1>4. QED
  OBVIOUS

-----------------------------------------------------------------------------
(* The order of what a filter keeps *)

\* The list s picks rows at these positions, the k-th at at[k], in their order.
Picks(at, s, rows, positions) ==
  /\ DOMAIN s = 1..Len(s) /\ Len(s) \in Nat
  /\ at \in [1..Len(s) -> positions \cap 1..Len(rows)]
  /\ \A k \in 1..Len(s) : s[k] = rows[at[k]]
  /\ \A j, k \in 1..Len(s) : j < k => at[j] < at[k]

\* A filter keeps the order of the rows.
LEMMA KeptInOrder ==
  ASSUME NEW T, NEW rows \in Seq(T), NEW positions
  PROVE  \E at : Picks(at, Kept(rows, positions), rows, positions)
<1>0. Len(rows) \in Nat /\ \A i \in 1..Len(rows) : rows[i] \in T
  OBVIOUS
<1>1. PICK f : IsTable(f, Len(rows), rows, positions) /\ Kept(rows, positions) = f[Len(rows)]
  BY <1>0, KeptIsLast
<1> DEFINE P(n) == /\ f[n] \in Seq(T)
                   /\ \E at : /\ Picks(at, f[n], rows, positions)
                              /\ \A k \in 1..Len(f[n]) : at[k] <= n
           S == {n \in Nat : n <= Len(rows) => P(n)}
<1>2. 0 \in S
  <2>1. f[0] = <<>>
    BY <1>0, <1>1 DEF IsTable
  <2>2. Picks(<<>>, <<>>, rows, positions)
    BY DEF Picks
  <2>3. f[0] \in Seq(T) /\ \A k \in 1..Len(f[0]) : <<>>[k] <= 0
    BY <2>1
  <2>4. P(0)
    BY <2>1, <2>2, <2>3
  <2> HIDE DEF P
  <2>5. QED
    BY <2>4
<1>3. ASSUME NEW n \in Nat, n \in S PROVE n + 1 \in S
  <2> SUFFICES ASSUME n + 1 <= Len(rows) PROVE P(n + 1)
    OBVIOUS
  <2>1. f[n] \in Seq(T) /\ n + 1 \in 1..Len(rows) /\ rows[n + 1] \in T
    BY <1>0, <1>3
  <2>2. f[n + 1] = IF n + 1 \in positions THEN Append(f[n], rows[n + 1]) ELSE f[n]
    <3>1. n + 1 \in 0..Len(rows) /\ n + 1 # 0 /\ (n + 1) - 1 = n
      BY <1>0
    <3>2. QED
      BY <1>1, <3>1 DEF IsTable
  <2>3. PICK at : Picks(at, f[n], rows, positions) /\ \A k \in 1..Len(f[n]) : at[k] <= n
    BY <1>0, <1>3
  <2>4. CASE n + 1 \notin positions
    <3>1. \A k \in 1..Len(f[n]) : at[k] <= n + 1
      BY <2>3 DEF Picks
    <3>2. QED
      BY <2>1, <2>2, <2>3, <2>4, <3>1
  <2>5. CASE n + 1 \in positions
    <3> DEFINE len == Len(f[n])
               s == Append(f[n], rows[n + 1])
               at1 == [k \in 1..(len + 1) |-> IF k = len + 1 THEN n + 1 ELSE at[k]]
    <3>1. /\ len \in Nat /\ s \in Seq(T) /\ Len(s) = len + 1 /\ DOMAIN s = 1..Len(s)
          /\ \A k \in 1..len : s[k] = f[n][k]
          /\ s[len + 1] = rows[n + 1]
      BY <2>1
    <3>2. /\ DOMAIN at1 = 1..(len + 1)
          /\ at1[len + 1] = n + 1
          /\ \A k \in 1..len : at1[k] = at[k] /\ k \in 1..(len + 1)
          /\ \A k \in 1..(len + 1) : k = len + 1 \/ k \in 1..len
      BY <3>1
    <3>3. /\ \A k \in 1..len : at[k] \in positions \cap 1..Len(rows) /\ at[k] <= n /\ f[n][k] = rows[at[k]]
          /\ \A j, k \in 1..len : j < k => at[j] < at[k]
      BY <2>3 DEF Picks
    <3> HIDE DEF s, len
    <3>4. \A k \in 1..(len + 1) : at1[k] \in positions \cap 1..Len(rows) /\ at1[k] <= n + 1 /\ s[k] = rows[at1[k]]
      <4> HIDE DEF at1
      <4> SUFFICES ASSUME NEW k \in 1..(len + 1)
                   PROVE  at1[k] \in positions \cap 1..Len(rows) /\ at1[k] <= n + 1 /\ s[k] = rows[at1[k]]
        OBVIOUS
      <4>1. CASE k = len + 1
        <5>1. at1[k] = n + 1 /\ s[k] = rows[n + 1]
          BY <3>1, <3>2, <4>1
        <5>2. QED
          BY <2>1, <2>5, <5>1
      <4>2. CASE k \in 1..len
        <5>1. at1[k] = at[k] /\ s[k] = f[n][k]
          BY <3>1, <3>2, <4>2
        <5>2. at[k] \in positions \cap 1..Len(rows) /\ at[k] <= n /\ f[n][k] = rows[at[k]]
          BY <3>3, <4>2
        <5>3. at[k] <= n + 1
          BY <5>2, <1>0
        <5>4. QED
          BY <5>1, <5>2, <5>3
      <4>3. QED
        BY <3>2, <4>1, <4>2
    <3>5. \A j, k \in 1..(len + 1) : j < k => at1[j] < at1[k]
      <4> SUFFICES ASSUME NEW j \in 1..(len + 1), NEW k \in 1..(len + 1), j < k PROVE at1[j] < at1[k]
        OBVIOUS
      <4>1. j \in 1..len /\ at1[j] = at[j] /\ at[j] \in 1..Len(rows) /\ at[j] <= n
        BY <3>1, <3>2, <3>3
      <4>2. CASE k = len + 1
        BY <4>1, <4>2, <3>2, <1>0
      <4>3. CASE k \in 1..len
        BY <4>1, <4>3, <3>2, <3>3
      <4>4. QED
        BY <3>2, <4>2, <4>3
    <3>6. at1 \in [1..(len + 1) -> positions \cap 1..Len(rows)]
      BY <3>4
    <3> HIDE DEF at1
    <3>7. Picks(at1, s, rows, positions)
      BY <3>1, <3>4, <3>5, <3>6 DEF Picks
    <3>8. f[n + 1] = s
      BY <2>2, <2>5 DEF s
    <3>9. QED
      BY <3>1, <3>4, <3>7, <3>8
  <2>6. QED
    BY <2>4, <2>5
<1>4. Len(rows) \in S
  <2> HIDE DEF S
  <2>1. QED
    BY <1>0, <1>2, <1>3, Reached
<1>5. QED
  BY <1>0, <1>1, <1>4

\* The smallest member of a set of naturals is one of them.
LEMMA Smallest ==
  ASSUME NEW S \in SUBSET Nat, S # {}
  PROVE  Min(S) \in S
<1>1. \E n \in S : \A m \in S : n <= m
  BY Least
<1>2. QED
  BY <1>1 DEF Min

=============================================================================
