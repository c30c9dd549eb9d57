------------------------- MODULE RotatingFileProofs -------------------------
(***************************************************************************)
(* Theorems about RotatingFile for every limit, set of failing calls and   *)
(* number of records, restarts and milliseconds, proved with TLAPS: types, *)
(* the order of what is stored, the size of the files, and the bound on    *)
(* the acknowledged records that cannot be read back.                      *)
(***************************************************************************)
EXTENDS RotatingFile, SequenceTheorems, FiniteSetTheorems, TLAPS

Piece == [of : Records, torn : BOOLEAN, end : Nat]
Contents == Seq(Piece) \cup {Absent}
Places == {"idle", "ensure", "encode", "stat", "rename", "reopen"}

\* What Path and the rotated file of a millisecond hold; an absent file holds nothing.
F == Pieces(file)
R(t) == Pieces(rotated[t])

Types ==
  /\ now \in Times /\ rec \in 0..MaxRecords /\ size \in Nat /\ pc \in Places
  /\ open \in BOOLEAN /\ encFailed \in BOOLEAN
  /\ file \in Contents /\ rotated \in [Times -> Contents]
  /\ answer \in [Records -> {"none", "ok", "failed"}]
  /\ restarts \in 0..MaxRestarts /\ misses \in Nat

\* A call has a record; Path exists where it is used; a failed encoder stays with its file.
HandleInv ==
  /\ pc # "idle" => rec \in Records
  /\ pc \in {"encode", "stat"} => open
  /\ pc \in {"ensure", "rename", "reopen"} => ~open
  /\ open \/ pc = "rename" => file # Absent
  /\ encFailed => open /\ pc \in {"idle", "encode"}

\* Every piece takes room.
Rising(q) == \A i, j \in 1..(Len(q) + 1) : i < j => Start(q, i) < Start(q, j)

\* Only the last m pieces begin at or past the limit; of those and the next one, only m.
Bound(q, m) == \A i \in 1..Len(q) : i + m <= Len(q) => Start(q, i) < MaxBytes
Room(q, m) == \A i \in 1..(Len(q) + 1) : i + m <= Len(q) + 1 => Start(q, i) < MaxBytes

\* Whatever is not about to be looked at leaves room for one more record.
BoundInv ==
  /\ Rising(F) /\ Bound(F, misses)
  /\ pc \notin {"stat", "rename"} => Room(F, misses)
  /\ \A t \in Times : Rising(R(t)) /\ Bound(R(t), misses)

OfsOf(q) == {q[i].of : i \in DOMAIN q}
Ascending(q) == \A i, j \in DOMAIN q : i < j => q[i].of < q[j].of
Before(q, r) == \A x \in OfsOf(q), y \in OfsOf(r) : x < y

\* Nothing holds a record that was not written yet.
Written(q) == \A x \in OfsOf(q) : x <= rec /\ (pc \in {"ensure", "encode"} => x < rec)

\* Older milliseconds hold older records, later ones none; Path holds the newest.
OrderInv ==
  /\ Ascending(F) /\ \A t \in Times : Ascending(R(t)) /\ Before(R(t), F)
  /\ \A t, u \in Times : t < u => Before(R(t), R(u))
  /\ \A t \in Times : t > now => R(t) = <<>>
  /\ Written(F) /\ \A t \in Times : Written(R(t))

\* A whole line that follows a torn one cannot be read.
SpoiltIn(q) ==
  {q[i].of : i \in {n \in DOMAIN q : n > 1 /\ ~q[n].torn /\ q[n - 1].torn}}
Spoilt == SpoiltIn(F) \cup UNION {SpoiltIn(R(t)) : t \in Times}
EndsTorn(q) == q # <<>> /\ q[Len(q)].torn
One(condition) == IF condition THEN 1 ELSE 0
Has(q, r) == \E i \in DOMAIN q : q[i].of = r /\ ~q[i].torn
Held(r) == Has(F, r) \/ \E t \in Times : Has(R(t), r)

\* A process leaves at most one torn line, the last it writes, which spoils the record
\* that the next process writes.
LossInv ==
  /\ Cardinality(Spoilt) <= restarts
  /\ Cardinality(Spoilt) + One(EndsTorn(F)) <= restarts + One(encFailed)

\* What was acknowledged is in a file, unless that was replaced.
HeldInv ==
  /\ pc \in {"stat", "rename"} => Has(F, rec)
  /\ pc = "reopen" => Held(rec)
  /\ \A r \in Records : answer[r] = "ok" /\ r \notin replaced => Held(r)

IInv == Types /\ HandleInv /\ BoundInv /\ OrderInv /\ LossInv /\ HeldInv

-----------------------------------------------------------------------------
(* Files and their pieces *)

\* An absent file holds nothing and is no sequence of pieces.
LEMMA PiecesFact ==
  /\ \A content \in Contents : Pieces(content) \in Seq(Piece)
  /\ \A content \in Seq(Piece) : content # Absent /\ Pieces(content) = content
  /\ Pieces(Absent) = <<>>
<1>1. Absent \notin Seq(Piece)
  <2> SUFFICES ASSUME Absent \in Seq(Piece) PROVE FALSE
    OBVIOUS
  <2>1. Len(Absent) = 1 /\ Absent[1] = Whole(0, 0)
    BY DEF Absent
  <2>2. Absent[1] \in Piece
    BY <2>1
  <2>3. Whole(0, 0).of \in Records
    BY <2>1, <2>2 DEF Piece
  <2>4. Whole(0, 0).of = 0
    BY DEF Whole
  <2>5. QED
    BY <2>3, <2>4, BoundsAssumption DEF Records
<1>2. QED
  BY <1>1 DEF Pieces, Contents

\* What a line appended to a file changes.
LEMMA AppendFacts ==
  ASSUME NEW q \in Seq(Piece), NEW p \in Piece
  PROVE  /\ Append(q, p) \in Seq(Piece) /\ Len(Append(q, p)) = Len(q) + 1
         /\ OfsOf(Append(q, p)) = OfsOf(q) \cup {p.of}
         /\ EndsTorn(Append(q, p)) <=> p.torn
         /\ \A r : Has(Append(q, p), r) <=> Has(q, r) \/ (p.of = r /\ ~p.torn)
         /\ SpoiltIn(Append(q, p))
              \subseteq SpoiltIn(q) \cup IF EndsTorn(q) /\ ~p.torn THEN {p.of} ELSE {}
         /\ Ascending(q) /\ (\A x \in OfsOf(q) : x < p.of) => Ascending(Append(q, p))
<1> DEFINE a == Append(q, p)
<1>1. a \in Seq(Piece) /\ Len(a) = Len(q) + 1
  OBVIOUS
<1>2. Len(q) \in Nat /\ DOMAIN q = 1..Len(q) /\ DOMAIN a = 1..(Len(q) + 1)
  OBVIOUS
<1>3. a[Len(q) + 1] = p /\ \A i \in 1..Len(q) : a[i] = q[i]
  OBVIOUS
<1>4. \A i \in DOMAIN a : i \in 1..Len(q) \/ i = Len(q) + 1
  BY <1>2
<1> HIDE DEF a
<1>5. OfsOf(a) = OfsOf(q) \cup {p.of}
  <2>1. ASSUME NEW i \in DOMAIN a PROVE a[i].of \in OfsOf(q) \cup {p.of}
    BY <1>2, <1>3, <1>4 DEF OfsOf
  <2>2. ASSUME NEW i \in DOMAIN q PROVE q[i].of \in OfsOf(a)
    <3>1. i \in DOMAIN a /\ a[i].of = q[i].of
      BY <1>2, <1>3
    <3>2. QED
      BY <3>1 DEF OfsOf
  <2>3. p.of \in OfsOf(a)
    <3>1. Len(q) + 1 \in DOMAIN a /\ a[Len(q) + 1].of = p.of
      BY <1>2, <1>3
    <3>2. QED
      BY <3>1 DEF OfsOf
  <2>4. QED
    BY <2>1, <2>2, <2>3 DEF OfsOf
<1>6. EndsTorn(a) <=> p.torn
  BY <1>1, <1>2, <1>3 DEF EndsTorn
<1>7. ASSUME NEW r PROVE Has(a, r) <=> Has(q, r) \/ (p.of = r /\ ~p.torn)
  <2>1. Has(q, r) \/ (p.of = r /\ ~p.torn) => Has(a, r)
    <3>1. Len(q) + 1 \in DOMAIN a /\ \A i \in DOMAIN q : i \in DOMAIN a
      BY <1>2
    <3>2. QED
      BY <1>2, <1>3, <3>1 DEF Has
  <2>2. Has(a, r) => Has(q, r) \/ (p.of = r /\ ~p.torn)
    BY <1>2, <1>3, <1>4 DEF Has
  <2>3. QED
    BY <2>1, <2>2
<1>8. ASSUME NEW n \in DOMAIN a, n > 1, ~a[n].torn, a[n - 1].torn
      PROVE  a[n].of \in SpoiltIn(q) \cup IF EndsTorn(q) /\ ~p.torn THEN {p.of} ELSE {}
  <2>1. n - 1 \in 1..Len(q) /\ a[n - 1] = q[n - 1]
    BY <1>2, <1>3, <1>8
  <2>2. CASE n \in 1..Len(q)
    BY <1>2, <1>3, <1>8, <2>1, <2>2 DEF SpoiltIn
  <2>3. CASE n = Len(q) + 1
    BY <1>2, <1>3, <1>8, <2>1, <2>3 DEF EndsTorn
  <2>4. QED
    BY <1>4, <2>2, <2>3
<1>9. SpoiltIn(a) \subseteq SpoiltIn(q) \cup IF EndsTorn(q) /\ ~p.torn THEN {p.of} ELSE {}
  BY <1>8 DEF SpoiltIn
<1>10. Ascending(q) /\ (\A x \in OfsOf(q) : x < p.of) => Ascending(a)
  <2> SUFFICES ASSUME Ascending(q), \A x \in OfsOf(q) : x < p.of,
                      NEW i \in DOMAIN a, NEW j \in DOMAIN a, i < j
               PROVE  a[i].of < a[j].of
    BY DEF Ascending
  <2>1. i \in 1..Len(q) /\ a[i] = q[i]
    BY <1>2, <1>3
  <2>2. CASE j \in 1..Len(q)
    BY <1>2, <1>3, <2>1, <2>2 DEF Ascending
  <2>3. CASE j = Len(q) + 1
    BY <1>2, <1>3, <2>1, <2>3 DEF OfsOf
  <2>4. QED
    BY <1>4, <2>2, <2>3
<1>11. QED
  BY <1>1, <1>5, <1>6, <1>7, <1>9, <1>10 DEF a

\* The offsets of a file are numbers; an appended piece begins where the file ended.
LEMMA SizesAreNat ==
  ASSUME NEW q \in Seq(Piece)
  PROVE  SizeOf(q) \in Nat /\ \A i \in 1..(Len(q) + 1) : Start(q, i) \in Nat
<1>1. ASSUME NEW i \in 1..(Len(q) + 1) PROVE Start(q, i) \in Nat
  <2>1. CASE i = 1
    BY <2>1 DEF Start
  <2>2. CASE i # 1
    <3>1. i - 1 \in 1..Len(q)
      BY <1>1, <2>2
    <3>2. q[i - 1] \in Piece
      BY <3>1
    <3>3. QED
      BY <2>2, <3>2 DEF Start, Piece
  <2>3. QED
    BY <2>1, <2>2
<1>2. Len(q) + 1 \in 1..(Len(q) + 1)
  OBVIOUS
<1>3. QED
  BY <1>1, <1>2 DEF SizeOf

LEMMA StartFacts ==
  ASSUME NEW q \in Seq(Piece), NEW p \in Piece
  PROVE  /\ SizeOf(Append(q, p)) = p.end
         /\ \A i \in 1..(Len(q) + 1) : Start(Append(q, p), i) = Start(q, i)
         /\ Rising(q) /\ SizeOf(q) < p.end => Rising(Append(q, p))
<1> DEFINE a == Append(q, p)
<1>1. a \in Seq(Piece) /\ Len(a) = Len(q) + 1 /\ Len(q) \in Nat
  OBVIOUS
<1>2. a[Len(q) + 1] = p /\ \A i \in 1..Len(q) : a[i] = q[i]
  OBVIOUS
<1> HIDE DEF a
<1>3. SizeOf(a) = p.end /\ Start(a, Len(q) + 2) = p.end
  BY <1>1, <1>2 DEF SizeOf, Start
<1>4. ASSUME NEW i \in 1..(Len(q) + 1) PROVE Start(a, i) = Start(q, i)
  <2>1. CASE i = 1
    BY <2>1 DEF Start
  <2>2. CASE i # 1
    <3>1. i - 1 \in 1..Len(q)
      BY <1>1, <1>4, <2>2
    <3>2. QED
      BY <1>2, <2>2, <3>1 DEF Start
  <2>3. QED
    BY <2>1, <2>2
<1>5. ASSUME Rising(q), SizeOf(q) < p.end,
             NEW i \in 1..(Len(a) + 1), NEW j \in 1..(Len(a) + 1), i < j
      PROVE  Start(a, i) < Start(a, j)
  <2>1. i \in 1..(Len(q) + 1) /\ Start(a, i) = Start(q, i) /\ Start(q, i) \in Nat
    BY <1>1, <1>4, <1>5, SizesAreNat
  <2>2. CASE j \in 1..(Len(q) + 1)
    BY <1>4, <1>5, <2>1, <2>2 DEF Rising
  <2>3. CASE j = Len(q) + 2
    <3>1. Start(q, i) <= SizeOf(q)
      <4>1. CASE i = Len(q) + 1
        BY <4>1, <2>1 DEF SizeOf
      <4>2. CASE i # Len(q) + 1
        <5>1. i < Len(q) + 1 /\ Len(q) + 1 \in 1..(Len(q) + 1)
          BY <1>1, <2>1, <4>2
        <5>2. Start(q, i) < Start(q, Len(q) + 1) /\ Start(q, Len(q) + 1) \in Nat
          BY <1>5, <2>1, <5>1, SizesAreNat DEF Rising
        <5>3. QED
          BY <2>1, <5>2 DEF SizeOf
      <4>3. QED
        BY <4>1, <4>2
    <3>2. SizeOf(q) \in Nat /\ p.end \in Nat
      BY SizesAreNat DEF Piece
    <3>3. QED
      BY <1>3, <1>5, <2>1, <2>3, <3>1, <3>2
  <2>4. QED
    BY <1>1, <2>2, <2>3
<1>6. QED
  BY <1>3, <1>4, <1>5 DEF a, Rising

\* A file below the limit has room; a file that has room keeps the bound when it grows, and
\* one that keeps the bound has room for one more miss.
LEMMA BoundFacts ==
  ASSUME NEW q \in Seq(Piece), NEW m \in Nat
  PROVE  /\ Rising(q) /\ SizeOf(q) < MaxBytes => Room(q, m)
         /\ \A p \in Piece : Room(q, m) => Bound(Append(q, p), m)
         /\ Bound(q, m) => Room(q, m + 1) /\ Bound(q, m + 1)
         /\ Room(q, m) => Room(q, m + 1)
         /\ Rising(<<>>) /\ Bound(<<>>, m) /\ Room(<<>>, m)
<1>0. MaxBytes \in Nat \ {0} /\ Len(q) \in Nat
  BY SizeAssumption
<1>1. ASSUME Rising(q), SizeOf(q) < MaxBytes, NEW i \in 1..(Len(q) + 1) PROVE Start(q, i) < MaxBytes
  <2>1. i = Len(q) + 1 \/ (i < Len(q) + 1 /\ Len(q) + 1 \in 1..(Len(q) + 1))
    BY <1>0
  <2>2. Start(q, i) \in Nat /\ SizeOf(q) \in Nat
    BY SizesAreNat
  <2>3. Start(q, i) <= SizeOf(q)
    BY <1>1, <2>1, <2>2 DEF Rising, SizeOf
  <2>4. QED
    BY <1>0, <1>1, <2>2, <2>3
<1>2. ASSUME NEW p \in Piece, Room(q, m) PROVE Bound(Append(q, p), m)
  <2>1. Len(Append(q, p)) = Len(q) + 1
    BY AppendFacts
  <2>2. QED
    BY <1>2, <2>1, StartFacts DEF Room, Bound
<1>3. ASSUME Bound(q, m) PROVE Room(q, m + 1) /\ Bound(q, m + 1)
  <2>1. ASSUME NEW i \in 1..(Len(q) + 1), i + (m + 1) <= Len(q) + 1 PROVE Start(q, i) < MaxBytes
    <3>1. i + m <= Len(q) /\ i <= Len(q)
      BY <1>0, <2>1
    <3>2. QED
      BY <1>0, <1>3, <2>1, <3>1 DEF Bound
  <2>2. ASSUME NEW i \in 1..Len(q), i + (m + 1) <= Len(q) PROVE Start(q, i) < MaxBytes
    BY <1>0, <1>3, <2>2 DEF Bound
  <2>3. QED
    BY <2>1, <2>2 DEF Room, Bound
<1>4. ASSUME Room(q, m) PROVE Room(q, m + 1)
  BY <1>0, <1>4 DEF Room
<1>5. Rising(<<>>) /\ Bound(<<>>, m) /\ Room(<<>>, m)
  BY <1>0 DEF Rising, Bound, Room, Start
<1>6. QED
  BY <1>1, <1>2, <1>3, <1>4, <1>5 DEF Room

\* Opening a file changes nothing that it holds.
LEMMA OpenedFacts ==
  ASSUME Types, Opened
  PROVE  /\ open' = TRUE /\ encFailed' = FALSE /\ size' \in Nat
         /\ file' \in Seq(Piece) /\ file' # Absent /\ F' = F
<1>1. file' \in Seq(Piece)
  BY DEF Opened, Types, Contents
<1>2. F' = F
  BY PiecesFact, <1>1 DEF Opened, F, Types
<1>3. size' \in Nat
  BY <1>1, SizesAreNat DEF Opened, Types
<1>4. QED
  BY <1>1, <1>2, <1>3, PiecesFact DEF Opened

\* What a write adds is a piece that ends past the file.
LEMMA PieceWritten ==
  ASSUME Types, HandleInv, pc = "encode"
  PROVE  /\ file \in Seq(Piece)
         /\ Encode => \E p \in Piece : /\ p.of = rec /\ ~p.torn /\ SizeOf(file) < p.end
                                        /\ file' = Append(file, p)
         /\ EncodeFails =>
              \/ file' = file
              \/ ~encFailed /\ \E p \in Piece : /\ p.of = rec /\ p.torn /\ SizeOf(file) < p.end
                                                /\ file' = Append(file, p)
<1>1. file \in Seq(Piece) /\ rec \in Records
  BY DEF HandleInv, Types, Contents
<1>2. SizeOf(file) \in Nat
  BY <1>1, SizesAreNat
<1>3. ASSUME NEW n \in Nat \ {0}
      PROVE  /\ Whole(rec, SizeOf(file) + n) \in Piece /\ Torn(rec, SizeOf(file) + n) \in Piece
             /\ Whole(rec, SizeOf(file) + n).end > SizeOf(file)
             /\ Torn(rec, SizeOf(file) + n).end > SizeOf(file)
  BY <1>1, <1>2 DEF Whole, Torn, Piece
<1>4. ASSUME Encode
      PROVE  \E p \in Piece : /\ p.of = rec /\ ~p.torn /\ SizeOf(file) < p.end
                              /\ file' = Append(file, p)
  <2>1. PICK n \in Lengths : file' = Append(file, Whole(rec, SizeOf(file) + n))
    BY <1>4 DEF Encode
  <2>2. n \in Nat \ {0}
    BY SizeAssumption
  <2>3. Whole(rec, SizeOf(file) + n).of = rec /\ ~Whole(rec, SizeOf(file) + n).torn
    BY DEF Whole
  <2>4. Whole(rec, SizeOf(file) + n) \in Piece /\ SizeOf(file) < Whole(rec, SizeOf(file) + n).end
    BY <1>2, <1>3, <2>2 DEF Piece
  <2>5. QED
    BY <2>1, <2>3, <2>4
<1>5. ASSUME EncodeFails, file' # file
      PROVE  ~encFailed /\ \E p \in Piece : /\ p.of = rec /\ p.torn /\ SizeOf(file) < p.end
                                            /\ file' = Append(file, p)
  <2>1. ~encFailed /\ file' \in Torsos
    BY <1>5 DEF EncodeFails
  <2>2. PICK n \in UNION {1..(m - 1) : m \in Lengths} :
          file' = Append(file, Torn(rec, SizeOf(file) + n))
    BY <1>5, <2>1 DEF Torsos
  <2>3. n \in Nat \ {0}
    BY SizeAssumption
  <2>4. Torn(rec, SizeOf(file) + n).of = rec /\ Torn(rec, SizeOf(file) + n).torn
    BY DEF Torn
  <2>5. Torn(rec, SizeOf(file) + n) \in Piece /\ SizeOf(file) < Torn(rec, SizeOf(file) + n).end
    BY <1>2, <1>3, <2>3 DEF Piece
  <2>6. QED
    BY <2>1, <2>2, <2>4, <2>5
<1>6. QED
  BY <1>1, <1>4, <1>5

-----------------------------------------------------------------------------
(* Types and the handle *)

\* Every step is one of the actions or changes nothing.
StepActions ==
  \/ Consume \/ EnsureFile \/ EnsureFileFails \/ Encode \/ EncodeFails \/ StatFile
  \/ Rename \/ RenameFails \/ Reopen \/ Tick \/ Restart \/ UNCHANGED vars

LEMMA StepCases == [Next]_vars => StepActions
BY DEF Next, Terminated, StepActions

\* Initially there is no file and nothing is open.
LEMMA InitFacts == Init => IInv
<1> SUFFICES ASSUME Init PROVE IInv
  OBVIOUS
<1>1. Types /\ HandleInv
  <2>1. MaxRecords \in Nat /\ MaxRestarts \in Nat /\ MaxTime \in Nat
    BY BoundsAssumption
  <2>2. now \in Times /\ rec \in 0..MaxRecords /\ restarts \in 0..MaxRestarts
    BY <2>1 DEF Init, Times
  <2>3. file \in Contents /\ rotated \in [Times -> Contents]
    BY DEF Init, Contents
  <2>4. Types
    BY <2>2, <2>3 DEF Init, Types, Places
  <2>5. HandleInv
    BY DEF Init, HandleInv
  <2>6. QED
    BY <2>4, <2>5
<1>2. F = <<>> /\ \A t \in Times : R(t) = <<>>
  BY PiecesFact DEF Init, F, R
<1>3. BoundInv
  <2>1. <<>> \in Seq(Piece) /\ 0 \in Nat /\ misses = 0
    BY DEF Init
  <2>2. Rising(<<>>) /\ Bound(<<>>, 0) /\ Room(<<>>, 0)
    BY <2>1, BoundFacts
  <2>3. QED
    BY <1>2, <2>1, <2>2 DEF BoundInv
<1>4. OrderInv
  <2>1. OfsOf(<<>>) = {} /\ Ascending(<<>>)
    BY DEF OfsOf, Ascending
  <2>2. QED
    BY <1>2, <2>1 DEF OrderInv, Written, Before
<1>5. LossInv
  <2>1. SpoiltIn(<<>>) = {} /\ ~EndsTorn(<<>>)
    BY DEF SpoiltIn, EndsTorn
  <2>2. Spoilt = {}
    BY <1>2, <2>1 DEF Spoilt
  <2>3. Cardinality(Spoilt) = 0
    BY <2>2, FS_EmptySet
  <2>4. QED
    BY <1>2, <2>1, <2>3 DEF Init, LossInv, One
<1>6. HeldInv
  BY DEF Init, HeldInv
<1>7. QED
  BY <1>1, <1>3, <1>4, <1>5, <1>6 DEF IInv

\* Every step keeps the variables typed.
LEMMA TypesStep == Types /\ HandleInv /\ [Next]_vars => Types'
<1> SUFFICES ASSUME Types, HandleInv, [Next]_vars PROVE Types'
  OBVIOUS
<1> USE BoundsAssumption DEF handleVars
<1>1. CASE Consume
  BY <1>1 DEF Consume, Types, Places
<1>2. CASE EnsureFile
  BY <1>2, OpenedFacts DEF EnsureFile, Types, Places, Contents
<1>3. ASSUME pc # "idle", NEW how \in {"ok", "failed"}, Answer(how)
      PROVE  answer' \in [Records -> {"none", "ok", "failed"}] /\ pc' \in Places
  BY <1>3 DEF Answer, HandleInv, Types, Places
<1>4. CASE EnsureFileFails
  BY <1>3, <1>4 DEF EnsureFileFails, Types
<1>5. CASE Encode
  <2>1. PICK p \in Piece : file \in Seq(Piece) /\ file' = Append(file, p)
    BY <1>5, PieceWritten DEF Encode
  <2>2. file' \in Contents
    BY <2>1, AppendFacts DEF Contents
  <2>3. QED
    BY <1>5, <2>2 DEF Encode, Types, Places
<1>6. CASE EncodeFails
  <2>1. pc = "encode" /\ file \in Seq(Piece)
    BY <1>6, PieceWritten DEF EncodeFails
  <2>2. file' \in Contents
    <3>1. file' = file \/ \E p \in Piece : file' = Append(file, p)
      BY <1>6, <2>1, PieceWritten
    <3>2. \A p \in Piece : Append(file, p) \in Seq(Piece)
      BY <2>1, AppendFacts
    <3>3. QED
      BY <2>1, <3>1, <3>2 DEF Contents
  <2>3. misses' \in Nat
    BY <1>6 DEF EncodeFails, Types
  <2>4. answer' \in [Records -> {"none", "ok", "failed"}] /\ pc' \in Places
    BY <1>3, <1>6 DEF EncodeFails
  <2>5. QED
    BY <1>6, <2>2, <2>3, <2>4 DEF EncodeFails, Types
<1>7. CASE StatFile
  <2>1. SizeOf(file) \in Nat
    BY <1>7, SizesAreNat DEF StatFile, HandleInv, Types, Contents
  <2>2. PICK known \in {SizeOf(file)} \cup (IF MayFail("stat") THEN {size} ELSE {}) :
          /\ size' = known
          /\ misses' = IF Full(SizeOf(file)) /\ ~Full(known) THEN misses + 1 ELSE misses
          /\ IF Full(known)
               THEN pc' = "rename" /\ open' = FALSE /\ UNCHANGED answer
               ELSE Answer("ok") /\ UNCHANGED open
    BY <1>7 DEF StatFile
  <2>3. size' \in Nat /\ misses' \in Nat /\ open' \in BOOLEAN
    <3>1. known \in Nat
      <4>1. known = SizeOf(file) \/ known = size
        BY <2>2
      <4>2. QED
        BY <2>1, <4>1 DEF Types
    <3>2. misses' = misses \/ misses' = misses + 1
      BY <2>2
    <3>3. open' = FALSE \/ open' = open
      BY <2>2
    <3>4. size' = known
      BY <2>2
    <3>5. size' \in Nat /\ misses' \in Nat
      BY <3>1, <3>2, <3>4 DEF Types
    <3>6. QED
      BY <3>3, <3>5 DEF Types
  <2>4. answer' \in [Records -> {"none", "ok", "failed"}] /\ pc' \in Places
    BY <1>3, <1>7, <2>2 DEF StatFile, Types, Places
  <2>5. QED
    BY <1>7, <2>3, <2>4 DEF StatFile, Types
<1>8. CASE Rename
  BY <1>8 DEF Rename, Types, Places, Contents
<1>9. CASE RenameFails
  BY <1>3, <1>9 DEF RenameFails, Types
<1>10. CASE Reopen
  <2>1. answer' \in [Records -> {"none", "ok", "failed"}] /\ pc' \in Places
    BY <1>3, <1>10 DEF Reopen
  <2>2. QED
    BY <1>10, <2>1, OpenedFacts DEF Reopen, Types, Contents
<1>11. CASE Tick
  BY <1>11 DEF Tick, Types, Times
<1>12. CASE Restart
  <2>1. misses' = misses \/ misses' = misses + 1
    BY <1>12 DEF Restart
  <2>2. restarts' \in 0..MaxRestarts
    BY <1>12 DEF Restart, Types
  <2>3. misses' \in Nat
    BY <2>1 DEF Types
  <2>4. QED
    BY <1>12, <2>2, <2>3 DEF Restart, Types, Places
<1>13. CASE UNCHANGED vars
  BY <1>13 DEF vars, Types
<1>14. QED
  BY <1>1, <1>2, <1>4, <1>5, <1>6, <1>7, <1>8, <1>9, <1>10, <1>11, <1>12, <1>13, StepCases
     DEF StepActions

\* The handle is open for the steps that use it and belongs to a file that exists.
LEMMA HandleStep == Types /\ HandleInv /\ [Next]_vars => HandleInv'
<1> SUFFICES ASSUME Types, HandleInv, [Next]_vars PROVE HandleInv'
  OBVIOUS
<1> USE BoundsAssumption DEF HandleInv, handleVars, Answer
<1>1. CASE Consume
  BY <1>1 DEF Consume, Types, Records
<1>2. CASE EnsureFile
  BY <1>2, OpenedFacts DEF EnsureFile
<1>3. CASE EnsureFileFails
  BY <1>3 DEF EnsureFileFails
<1>4. ASSUME NEW p \in Piece, file # Absent PROVE Append(file, p) # Absent
  BY <1>4, PiecesFact, AppendFacts DEF Types, Contents
<1>5. CASE Encode
  <2>1. file # Absent /\ \E p \in Piece : file' = Append(file, p)
    BY <1>5, PieceWritten DEF Encode
  <2>2. file' # Absent
    BY <1>4, <2>1
  <2>3. QED
    BY <1>5, <2>2 DEF Encode
<1>6. CASE EncodeFails
  <2>1. file # Absent /\ (file' = file \/ \E p \in Piece : file' = Append(file, p))
    BY <1>6, PieceWritten DEF EncodeFails
  <2>2. file' # Absent
    BY <1>4, <2>1
  <2>3. QED
    BY <1>6, <2>2 DEF EncodeFails
<1>7. CASE StatFile
  BY <1>7 DEF StatFile
<1>8. CASE Rename
  BY <1>8 DEF Rename
<1>9. CASE RenameFails
  BY <1>9 DEF RenameFails
<1>10. CASE Reopen
  BY <1>10, OpenedFacts DEF Reopen
<1>11. CASE Tick
  BY <1>11 DEF Tick
<1>12. CASE Restart
  BY <1>12 DEF Restart
<1>13. CASE UNCHANGED vars
  BY <1>13 DEF vars
<1>14. QED
  BY <1>1, <1>2, <1>3, <1>5, <1>6, <1>7, <1>8, <1>9, <1>10, <1>11, <1>12, <1>13, StepCases
     DEF StepActions

-----------------------------------------------------------------------------
(* How the contents change *)

Same == F' = F /\ \A t \in Times : R(t)' = R(t)

\* Only an encoded line and a rename change what the files hold.
LEMMA ContentFacts ==
  ASSUME Types, HandleInv
  PROVE  /\ F \in Seq(Piece) /\ \A t \in Times : R(t) \in Seq(Piece)
         /\ Encode => /\ F = file /\ \A t \in Times : R(t)' = R(t)
                      /\ \E p \in Piece : /\ p.of = rec /\ ~p.torn /\ SizeOf(F) < p.end
                                          /\ F' = Append(F, p)
         /\ EncodeFails => /\ F = file /\ \A t \in Times : R(t)' = R(t)
                           /\ \/ F' = F /\ file' = file
                              \/ /\ ~encFailed /\ F' = file' /\ file' # file
                                 /\ \E p \in Piece : /\ p.of = rec /\ p.torn /\ SizeOf(F) < p.end
                                                     /\ F' = Append(F, p)
         /\ Rename => F' = <<>> /\ \A t \in Times : R(t)' = IF t = now THEN F ELSE R(t)
         /\ StepActions => Encode \/ EncodeFails \/ Rename \/ Same
<1>1. F \in Seq(Piece) /\ \A t \in Times : R(t) \in Seq(Piece)
  BY PiecesFact DEF F, R, Types
<1>2. rotated' = rotated => \A t \in Times : R(t)' = R(t)
  BY DEF R
<1>3. ASSUME file \in Seq(Piece), NEW p \in Piece, file' = Append(file, p)
      PROVE  F' = file' /\ F' = Append(F, p) /\ file' # file
  <2>1. file' \in Seq(Piece) /\ Len(file') = Len(file) + 1
    BY <1>3
  <2>2. F = file /\ F' = file'
    BY <1>3, <2>1, PiecesFact DEF F
  <2>3. QED
    BY <1>3, <2>1, <2>2
<1>4. file \in Seq(Piece) => F = file
  BY PiecesFact DEF F
<1>5. ASSUME Encode
      PROVE  /\ F = file /\ \A t \in Times : R(t)' = R(t)
             /\ \E p \in Piece : /\ p.of = rec /\ ~p.torn /\ SizeOf(F) < p.end
                                 /\ F' = Append(F, p)
  <2>1. pc = "encode" /\ rotated' = rotated
    BY <1>5 DEF Encode
  <2>2. file \in Seq(Piece) /\ F = file
    BY <1>4, <2>1, PieceWritten
  <2>3. PICK p \in Piece : p.of = rec /\ ~p.torn /\ SizeOf(file) < p.end /\ file' = Append(file, p)
    BY <1>5, <2>1, PieceWritten
  <2>4. F' = Append(F, p)
    BY <1>3, <2>2, <2>3
  <2>5. QED
    BY <1>2, <2>1, <2>2, <2>3, <2>4
<1>6. ASSUME EncodeFails
      PROVE  /\ F = file /\ \A t \in Times : R(t)' = R(t)
             /\ \/ F' = F /\ file' = file
                \/ /\ ~encFailed /\ F' = file' /\ file' # file
                   /\ \E p \in Piece : /\ p.of = rec /\ p.torn /\ SizeOf(F) < p.end
                                       /\ F' = Append(F, p)
  <2>1. pc = "encode" /\ rotated' = rotated
    BY <1>6 DEF EncodeFails
  <2>2. file \in Seq(Piece) /\ F = file
    BY <1>4, <2>1, PieceWritten
  <2>3. CASE file' = file
    BY <1>2, <2>1, <2>2, <2>3 DEF F
  <2>4. CASE file' # file
    <3>1. ~encFailed
      BY <1>6, <2>1, <2>4, PieceWritten
    <3>2. PICK p \in Piece : p.of = rec /\ p.torn /\ SizeOf(file) < p.end /\ file' = Append(file, p)
      BY <1>6, <2>1, <2>4, PieceWritten
    <3>3. F' = file' /\ F' = Append(F, p)
      BY <1>3, <2>2, <3>2
    <3>4. QED
      BY <1>2, <2>1, <2>2, <2>4, <3>1, <3>2, <3>3
  <2>5. QED
    BY <2>3, <2>4
<1>7. ASSUME Rename
      PROVE  F' = <<>> /\ \A t \in Times : R(t)' = IF t = now THEN F ELSE R(t)
  BY <1>7, PiecesFact DEF Rename, F, R, Types
<1>8. UNCHANGED <<file, rotated>> => Same
  BY DEF Same, F, R
<1>9. EnsureFile \/ Reopen => Same
  BY <1>2, OpenedFacts DEF EnsureFile, Reopen, Same
<1>10. Consume \/ EnsureFileFails \/ StatFile \/ RenameFails \/ Tick \/ Restart \/ UNCHANGED vars
         => UNCHANGED <<file, rotated>>
  BY DEF Consume, EnsureFileFails, StatFile, RenameFails, Tick, Restart, vars
<1>11. QED
  BY <1>1, <1>5, <1>6, <1>7, <1>8, <1>9, <1>10 DEF StepActions

-----------------------------------------------------------------------------
(* The size of the files *)

\* A rotation that is due leaves room again, or is counted as missed.
LEMMA BoundStep == Types /\ HandleInv /\ BoundInv /\ [Next]_vars => BoundInv'
<1> SUFFICES ASSUME Types, HandleInv, BoundInv, [Next]_vars PROVE BoundInv'
  OBVIOUS
<1>0. /\ MaxBytes \in Nat \ {0} /\ misses \in Nat /\ <<>> \in Seq(Piece)
      /\ F \in Seq(Piece) /\ \A t \in Times : R(t) \in Seq(Piece)
      /\ SizeOf(F) \in Nat
  BY SizeAssumption, ContentFacts, SizesAreNat DEF Types
<1>1. file \in Seq(Piece) => F = file
  BY PiecesFact DEF F
<1>2. pc \in {"stat", "rename", "encode"} => F = file
  BY <1>1 DEF HandleInv, Types, Contents
<1>3. ASSUME Same, misses' = misses, pc' \in {"stat", "rename"} <=> pc \in {"stat", "rename"}
      PROVE  BoundInv'
  BY <1>3 DEF Same, BoundInv
\* A rotation that was missed leaves room for one more.
<1>4. ASSUME Same, misses' = misses + 1 PROVE BoundInv'
  <2>1. Rising(F) /\ Bound(F, misses + 1) /\ Room(F, misses + 1)
    BY <1>0, BoundFacts DEF BoundInv
  <2>2. \A t \in Times : Rising(R(t)) /\ Bound(R(t), misses + 1)
    BY <1>0, BoundFacts DEF BoundInv
  <2>3. QED
    BY <1>4, <2>1, <2>2 DEF Same, BoundInv
\* A file below the limit has room.
<1>5. ASSUME Same, misses' = misses, ~Full(SizeOf(F)) PROVE BoundInv'
  <2>1. SizeOf(F) < MaxBytes
    BY <1>0, <1>5 DEF Full
  <2>2. Room(F, misses)
    BY <1>0, <2>1, BoundFacts DEF BoundInv
  <2>3. QED
    BY <1>5, <2>2 DEF Same, BoundInv
<1>6. ASSUME NEW p \in Piece, SizeOf(F) < p.end, F' = Append(F, p), pc \notin {"stat", "rename"}
      PROVE  Rising(F') /\ Bound(F', misses) /\ F' \in Seq(Piece) /\ SizeOf(F') \in Nat
  <2>1. Rising(Append(F, p)) /\ Bound(Append(F, p), misses) /\ Append(F, p) \in Seq(Piece)
    BY <1>0, <1>6, StartFacts, BoundFacts, AppendFacts DEF BoundInv
  <2>2. SizeOf(Append(F, p)) \in Nat
    BY <2>1, SizesAreNat
  <2>3. QED
    BY <1>6, <2>1, <2>2
<1>7. CASE Encode
  <2>1. PICK p \in Piece : SizeOf(F) < p.end /\ F' = Append(F, p)
    BY <1>7, ContentFacts
  <2>2. pc = "encode" /\ misses' = misses /\ pc' = "stat" /\ \A t \in Times : R(t)' = R(t)
    BY <1>7, ContentFacts DEF Encode
  <2>3. QED
    BY <1>6, <2>1, <2>2 DEF BoundInv
<1>8. CASE EncodeFails
  <2>1. pc = "encode" /\ F = file /\ \A t \in Times : R(t)' = R(t)
    BY <1>8, ContentFacts DEF EncodeFails
  <2>2. pc' = "idle"
    BY <1>8 DEF EncodeFails, Answer
  <2>3. CASE F' = F /\ file' = file
    <3>1. misses' = misses
      BY <1>8, <2>3 DEF EncodeFails
    <3>2. QED
      BY <1>3, <2>1, <2>2, <2>3, <3>1 DEF Same
  <2>4. CASE ~(F' = F /\ file' = file)
    <3>1. F' = file' /\ file' # file /\ \E p \in Piece : SizeOf(F) < p.end /\ F' = Append(F, p)
      BY <1>8, <2>4, ContentFacts
    <3>2. Rising(F') /\ Bound(F', misses) /\ F' \in Seq(Piece) /\ SizeOf(F') \in Nat
      BY <1>6, <2>1, <3>1
    <3>3. misses' = IF Full(SizeOf(F')) THEN misses + 1 ELSE misses
      BY <1>8, <3>1 DEF EncodeFails
    <3>4. CASE Full(SizeOf(F'))
      <4>1. misses' = misses + 1
        BY <3>3, <3>4
      <4>2. Bound(F', misses + 1) /\ Room(F', misses + 1)
        BY <1>0, <3>2, BoundFacts
      <4>3. \A t \in Times : Rising(R(t)) /\ Bound(R(t), misses + 1)
        BY <1>0, BoundFacts DEF BoundInv
      <4>4. QED
        BY <2>1, <3>2, <4>1, <4>2, <4>3 DEF BoundInv
    <3>5. CASE ~Full(SizeOf(F'))
      <4>1. misses' = misses /\ SizeOf(F') < MaxBytes
        BY <1>0, <3>2, <3>3, <3>5 DEF Full
      <4>2. Room(F', misses)
        BY <1>0, <3>2, <4>1, BoundFacts
      <4>3. QED
        BY <2>1, <3>2, <4>1, <4>2 DEF BoundInv
    <3>6. QED
      BY <3>4, <3>5
  <2>5. QED
    BY <2>3, <2>4
<1>9. CASE StatFile
  <2>1. Same /\ F = file
    BY <1>2, <1>9 DEF StatFile, Same, F, R
  <2>2. PICK known \in {SizeOf(file)} \cup (IF MayFail("stat") THEN {size} ELSE {}) :
          /\ misses' = IF Full(SizeOf(file)) /\ ~Full(known) THEN misses + 1 ELSE misses
          /\ IF Full(known)
               THEN pc' = "rename" /\ open' = FALSE /\ UNCHANGED answer
               ELSE Answer("ok") /\ UNCHANGED open
    BY <1>9 DEF StatFile
  <2>3. CASE Full(known)
    <3>1. misses' = misses /\ pc' = "rename" /\ pc = "stat"
      BY <1>9, <2>2, <2>3 DEF StatFile
    <3>2. QED
      BY <1>3, <2>1, <3>1
  <2>4. CASE ~Full(known) /\ Full(SizeOf(F))
    BY <1>4, <2>1, <2>2, <2>4
  <2>5. CASE ~Full(known) /\ ~Full(SizeOf(F))
    BY <1>5, <2>1, <2>2, <2>5
  <2>6. QED
    BY <2>3, <2>4, <2>5
<1>10. CASE Rename
  <2>1. F' = <<>> /\ \A t \in Times : R(t)' = IF t = now THEN F ELSE R(t)
    BY <1>10, ContentFacts
  <2>2. misses' = misses
    BY <1>10 DEF Rename
  <2>3. \A t \in Times : Rising(R(t)') /\ Bound(R(t)', misses)
    BY <2>1 DEF BoundInv
  <2>4. Rising(<<>>) /\ Bound(<<>>, misses) /\ Room(<<>>, misses)
    BY <1>0, BoundFacts
  <2>5. QED
    BY <2>1, <2>2, <2>3, <2>4 DEF BoundInv
<1>11. CASE RenameFails
  BY <1>4, <1>11 DEF RenameFails, Same, F, R
<1>12. CASE Restart
  <2>1. Same
    BY <1>12 DEF Restart, Same, F, R
  <2>2. CASE pc \in {"stat", "rename"} /\ Full(SizeOf(F))
    BY <1>2, <1>4, <1>12, <2>1, <2>2 DEF Restart
  <2>3. CASE pc \in {"stat", "rename"} /\ ~Full(SizeOf(F))
    BY <1>2, <1>5, <1>12, <2>1, <2>3 DEF Restart
  <2>4. CASE pc \notin {"stat", "rename"}
    BY <1>3, <1>12, <2>1, <2>4 DEF Restart
  <2>5. QED
    BY <2>2, <2>3, <2>4
<1>13. CASE Consume \/ EnsureFile \/ EnsureFileFails \/ Reopen \/ Tick \/ UNCHANGED vars
  <2>1. Same
    BY <1>13, OpenedFacts DEF Consume, EnsureFile, EnsureFileFails, Reopen, Tick, vars, Same, F, R
  <2>2. misses' = misses /\ (pc' \in {"stat", "rename"} <=> pc \in {"stat", "rename"})
    BY <1>13 DEF Consume, EnsureFile, EnsureFileFails, Reopen, Tick, vars, Answer
  <2>3. QED
    BY <1>3, <2>1, <2>2
<1>14. QED
  BY <1>7, <1>8, <1>9, <1>10, <1>11, <1>12, <1>13, StepCases DEF StepActions

-----------------------------------------------------------------------------
(* The order of the records *)

\* Records of a file are numbers.
LEMMA OfsAreRecords ==
  ASSUME NEW q \in Seq(Piece) PROVE OfsOf(q) \subseteq Records
<1> SUFFICES ASSUME NEW i \in DOMAIN q PROVE q[i].of \in Records
  BY DEF OfsOf
<1>1. q[i] \in Piece
  OBVIOUS
<1>2. QED
  BY <1>1 DEF Piece

\* A record is newer than everything before it, and a rotation keeps what is older apart.
LEMMA OrderStep == Types /\ HandleInv /\ OrderInv /\ [Next]_vars => OrderInv'
<1> SUFFICES ASSUME Types, HandleInv, OrderInv, [Next]_vars PROVE OrderInv'
  OBVIOUS
<1>0. rec \in Nat /\ now \in Nat /\ \A t \in Times : t \in Nat
  BY DEF Types, Times
<1>1. ASSUME Same, rec' = rec, now' >= now, now' \in Nat,
             pc' \in {"ensure", "encode"} => pc \in {"ensure", "encode"}
      PROVE  OrderInv'
  BY <1>0, <1>1 DEF Same, OrderInv, Written
<1>2. ASSUME NEW p \in Piece, p.of = rec, pc = "encode", pc' \notin {"ensure", "encode"},
             F' = Append(F, p), \A t \in Times : R(t)' = R(t), rec' = rec, now' = now
      PROVE  OrderInv'
  <2>1. /\ OfsOf(F') = OfsOf(F) \cup {rec}
        /\ Ascending(F) /\ (\A x \in OfsOf(F) : x < rec) => Ascending(F')
    BY <1>2, ContentFacts, AppendFacts
  <2>2. (\A x \in OfsOf(F) : x < rec) /\ \A t \in Times : \A x \in OfsOf(R(t)) : x < rec
    BY <1>2 DEF OrderInv, Written
  <2>3. Ascending(F')
    BY <2>1, <2>2 DEF OrderInv
  <2>4. ASSUME NEW t \in Times PROVE Before(R(t), F')
    BY <2>1, <2>2 DEF OrderInv, Before
  <2>5. Written(F)' /\ \A t \in Times : Written(R(t))'
    BY <1>0, <1>2, <2>1, <2>2 DEF OrderInv, Written
  <2>6. QED
    BY <1>0, <1>2, <2>3, <2>4, <2>5 DEF OrderInv
<1>3. CASE Encode
  <2>1. /\ pc = "encode" /\ pc' = "stat" /\ rec' = rec /\ now' = now
        /\ \A t \in Times : R(t)' = R(t)
    BY <1>3, ContentFacts DEF Encode
  <2>2. \E p \in Piece : p.of = rec /\ F' = Append(F, p)
    BY <1>3, ContentFacts
  <2>3. QED
    BY <1>2, <2>1, <2>2
<1>4. CASE EncodeFails
  <2>1. /\ pc = "encode" /\ pc' = "idle" /\ rec' = rec /\ now' = now
        /\ \A t \in Times : R(t)' = R(t)
    BY <1>4, ContentFacts DEF EncodeFails, Answer
  <2>2. F' = F \/ \E p \in Piece : p.of = rec /\ F' = Append(F, p)
    BY <1>4, ContentFacts
  <2>3. QED
    BY <1>0, <1>1, <1>2, <2>1, <2>2 DEF Same
<1>5. CASE Rename
  <2>1. F' = <<>> /\ \A t \in Times : R(t)' = IF t = now THEN F ELSE R(t)
    BY <1>5, ContentFacts
  <2>2. now' = now /\ rec' = rec /\ pc' = "reopen"
    BY <1>5 DEF Rename
  <2>3. OfsOf(<<>>) = {} /\ Ascending(<<>>)
    BY DEF OfsOf, Ascending
  <2>4. ASSUME NEW t \in Times PROVE Ascending(R(t))' /\ Before(R(t), F)' /\ Written(R(t))'
    BY <2>1, <2>2, <2>3, <2>4 DEF OrderInv, Before, Written
  <2>5. ASSUME NEW t \in Times, NEW u \in Times, t < u PROVE Before(R(t), R(u))'
    BY <1>0, <2>1, <2>3, <2>5 DEF OrderInv, Before
  <2>6. ASSUME NEW t \in Times, t > now PROVE R(t)' = <<>>
    BY <1>0, <2>1, <2>6 DEF OrderInv
  <2>7. QED
    BY <2>1, <2>2, <2>3, <2>4, <2>5, <2>6 DEF OrderInv, Written
<1>6. CASE Consume
  <2>1. Same /\ rec' = rec + 1 /\ now' = now
    BY <1>6 DEF Consume, Same, F, R
  <2>2. OfsOf(F) \subseteq Nat /\ \A t \in Times : OfsOf(R(t)) \subseteq Nat
    BY ContentFacts, OfsAreRecords DEF Records
  <2>3. Written(F)' /\ \A t \in Times : Written(R(t))'
    BY <1>0, <2>1, <2>2 DEF Same, OrderInv, Written
  <2>4. QED
    BY <2>1, <2>3 DEF Same, OrderInv
<1>7. CASE EnsureFile \/ EnsureFileFails \/ StatFile \/ RenameFails \/ Reopen \/ Tick
           \/ Restart \/ UNCHANGED vars
  <2>1. Same
    <3>1. CASE EnsureFile \/ Reopen
      BY <3>1, OpenedFacts DEF EnsureFile, Reopen, Same, R
    <3>2. CASE EnsureFileFails \/ StatFile \/ RenameFails \/ Tick \/ Restart \/ UNCHANGED vars
      BY <3>2 DEF EnsureFileFails, StatFile, RenameFails, Tick, Restart, vars, Same, F, R
    <3>3. QED
      BY <1>7, <3>1, <3>2
  <2>2. rec' = rec /\ now' \in Nat /\ now' >= now
    BY <1>0, <1>7 DEF EnsureFile, EnsureFileFails, StatFile, RenameFails, Reopen, Tick, Restart, vars
  <2>3. pc' \in {"ensure", "encode"} => pc \in {"ensure", "encode"}
    BY <1>7 DEF EnsureFile, EnsureFileFails, StatFile, RenameFails, Reopen, Tick, Restart, vars,
                Answer
  <2>4. QED
    BY <1>1, <2>1, <2>2, <2>3
<1>8. QED
  BY <1>3, <1>4, <1>5, <1>6, <1>7, StepCases DEF StepActions

-----------------------------------------------------------------------------
(* What cannot be read back *)

\* The spoilt records are records, finitely many.
LEMMA SpoiltFinite ==
  Types /\ HandleInv => /\ Spoilt \subseteq Records /\ IsFiniteSet(Records)
                        /\ IsFiniteSet(Spoilt) /\ Cardinality(Spoilt) \in Nat
<1> SUFFICES ASSUME Types, HandleInv
             PROVE  /\ Spoilt \subseteq Records /\ IsFiniteSet(Records)
                    /\ IsFiniteSet(Spoilt) /\ Cardinality(Spoilt) \in Nat
  OBVIOUS
<1>1. \A q \in Seq(Piece) : SpoiltIn(q) \subseteq Records
  <2> SUFFICES ASSUME NEW q \in Seq(Piece) PROVE SpoiltIn(q) \subseteq Records
    OBVIOUS
  <2>1. SpoiltIn(q) \subseteq OfsOf(q)
    BY DEF SpoiltIn, OfsOf
  <2>2. QED
    BY <2>1, OfsAreRecords
<1>2. Spoilt \subseteq Records
  BY <1>1, ContentFacts DEF Spoilt
<1>3. IsFiniteSet(Records)
  BY BoundsAssumption, FS_Interval DEF Records
<1>4. IsFiniteSet(Spoilt)
  BY <1>2, <1>3, FS_Subset
<1>5. QED
  BY <1>2, <1>3, <1>4, FS_CardinalityType

\* A line that follows a torn one is spoilt and is the last to be; a torn line spoils
\* none yet, and no encoder writes a second one.
LEMMA SpoiltStep ==
  Types /\ HandleInv /\ LossInv /\ [Next]_vars => LossInv'
<1> SUFFICES ASSUME Types, HandleInv, LossInv, [Next]_vars PROVE LossInv'
  OBVIOUS
<1>0. /\ Cardinality(Spoilt) <= restarts
      /\ Cardinality(Spoilt) + One(EndsTorn(F)) <= restarts + One(encFailed)
      /\ Cardinality(Spoilt) \in Nat /\ restarts \in Nat /\ IsFiniteSet(Spoilt)
  BY SpoiltFinite DEF LossInv, Types
<1>1. /\ One(TRUE) = 1 /\ One(FALSE) = 0
      /\ One(encFailed) \in {0, 1} /\ One(EndsTorn(F)) \in {0, 1}
  BY DEF One
<1>2. ASSUME Spoilt' \subseteq Spoilt
      PROVE  Cardinality(Spoilt') \in Nat /\ Cardinality(Spoilt') <= Cardinality(Spoilt)
  BY <1>0, <1>2, FS_Subset, FS_CardinalityType
<1>3. CASE Encode
  <2>1. F \in Seq(Piece) /\ \A t \in Times : R(t)' = R(t)
    BY <1>3, ContentFacts
  <2>2. /\ ~EndsTorn(F')
        /\ SpoiltIn(F') \subseteq SpoiltIn(F) \cup IF EndsTorn(F) THEN {rec} ELSE {}
    <3>1. PICK p \in Piece : ~p.torn /\ p.of = rec /\ F' = Append(F, p)
      BY <1>3, ContentFacts
    <3>2. QED
      BY <2>1, <3>1, AppendFacts
  <2>3. Spoilt' \subseteq Spoilt \cup IF EndsTorn(F) THEN {rec} ELSE {}
    BY <2>1, <2>2 DEF Spoilt
  <2>4. encFailed = FALSE /\ encFailed' = FALSE /\ restarts' = restarts
    BY <1>3 DEF Encode, handleVars, Types
  <2>5. /\ Cardinality(Spoilt') \in Nat
        /\ Cardinality(Spoilt') <= Cardinality(Spoilt) + One(EndsTorn(F))
    <3>1. CASE EndsTorn(F)
      <4>1. Spoilt' \subseteq Spoilt \cup {rec}
        BY <2>3, <3>1
      <4>2. IsFiniteSet(Spoilt \cup {rec})
            /\ Cardinality(Spoilt \cup {rec}) <= Cardinality(Spoilt) + 1
        BY <1>0, FS_AddElement
      <4>3. Cardinality(Spoilt') \in Nat /\ Cardinality(Spoilt') <= Cardinality(Spoilt \cup {rec})
        BY <4>1, <4>2, FS_Subset, FS_CardinalityType
      <4>4. Cardinality(Spoilt \cup {rec}) \in Nat
        BY <4>2, FS_CardinalityType
      <4>5. QED
        BY <1>0, <3>1, <4>2, <4>3, <4>4 DEF One
    <3>2. CASE ~EndsTorn(F)
      BY <1>0, <1>2, <2>3, <3>2 DEF One
    <3>3. QED
      BY <3>1, <3>2
  <2>6. QED
    BY <1>0, <1>1, <2>2, <2>4, <2>5 DEF LossInv, One
<1>4. CASE EncodeFails
  <2>1. /\ F \in Seq(Piece) /\ \A t \in Times : R(t)' = R(t)
        /\ F' = F \/ (~encFailed /\ \E p \in Piece : p.torn /\ F' = Append(F, p))
    BY <1>4, ContentFacts
  <2>2. encFailed' = TRUE /\ restarts' = restarts
    BY <1>4 DEF EncodeFails
  <2>3. CASE F' = F
    <3>1. Spoilt' = Spoilt
      BY <2>1, <2>3 DEF Spoilt
    <3>2. QED
      BY <1>0, <1>1, <2>2, <2>3, <3>1 DEF LossInv, One
  <2>4. CASE ~encFailed /\ \E p \in Piece : p.torn /\ F' = Append(F, p)
    <3>1. EndsTorn(F') /\ SpoiltIn(F') \subseteq SpoiltIn(F)
      BY <2>1, <2>4, AppendFacts
    <3>2. Spoilt' \subseteq Spoilt
      BY <2>1, <3>1 DEF Spoilt
    <3>3. Cardinality(Spoilt) <= restarts
      BY <1>0, <2>4 DEF One
    <3>4. QED
      BY <1>0, <1>2, <2>2, <3>1, <3>2, <3>3 DEF LossInv, One
  <2>5. QED
    BY <2>1, <2>3, <2>4
<1>5. CASE Rename
  <2>1. F' = <<>> /\ \A t \in Times : R(t)' = IF t = now THEN F ELSE R(t)
    BY <1>5, ContentFacts
  <2>2. SpoiltIn(<<>>) = {} /\ ~EndsTorn(<<>>)
    BY DEF SpoiltIn, EndsTorn
  <2>3. Spoilt' \subseteq Spoilt
    BY <2>1, <2>2 DEF Spoilt
  <2>4. encFailed' = encFailed /\ restarts' = restarts
    BY <1>5 DEF Rename, handleVars
  <2>5. QED
    BY <1>0, <1>2, <2>1, <2>2, <2>3, <2>4 DEF LossInv, One
<1>6. ASSUME Same, restarts' + One(encFailed') >= restarts + One(encFailed),
             restarts' \in Nat, restarts' >= restarts
      PROVE  LossInv'
  <2>1. Spoilt' = Spoilt
    BY <1>6 DEF Spoilt, Same
  <2>2. One(EndsTorn(F')) = One(EndsTorn(F)) /\ One(encFailed') \in {0, 1}
    BY <1>6 DEF Same, One
  <2>3. QED
    BY <1>0, <1>1, <1>6, <2>1, <2>2 DEF LossInv
<1>7. CASE EnsureFile \/ Reopen
  <2>1. Same
    BY <1>7, OpenedFacts DEF EnsureFile, Reopen, Same, R
  <2>2. encFailed = FALSE
    BY <1>7 DEF EnsureFile, Reopen, HandleInv, Types
  <2>3. encFailed' = FALSE /\ restarts' = restarts
    BY <1>7, OpenedFacts DEF EnsureFile, Reopen
  <2>4. QED
    BY <1>0, <1>6, <2>1, <2>2, <2>3 DEF One
<1>8. CASE Restart
  <2>1. Same
    BY <1>8 DEF Restart, Same, F, R
  <2>2. encFailed' = FALSE /\ restarts' = restarts + 1
    BY <1>8 DEF Restart
  <2>3. QED
    BY <1>0, <1>6, <2>1, <2>2 DEF One
<1>9. CASE Consume \/ EnsureFileFails \/ StatFile \/ RenameFails \/ Tick \/ UNCHANGED vars
  <2>1. Same
    BY <1>9 DEF Consume, EnsureFileFails, StatFile, RenameFails, Tick, vars, Same, F, R
  <2>2. encFailed' = encFailed /\ restarts' = restarts
    BY <1>9 DEF Consume, EnsureFileFails, StatFile, RenameFails, Tick, vars, handleVars
  <2>3. QED
    BY <1>0, <1>6, <2>1, <2>2 DEF One
<1>10. QED
  BY <1>3, <1>4, <1>5, <1>7, <1>8, <1>9, StepCases DEF StepActions

\* What was acknowledged stays in a file until that is replaced.
LEMMA HeldStep == Types /\ HandleInv /\ HeldInv /\ [Next]_vars => HeldInv'
<1> SUFFICES ASSUME Types, HandleInv, HeldInv, [Next]_vars PROVE HeldInv'
  OBVIOUS
<1>1. ASSUME Same PROVE \A r : Has(F, r)' = Has(F, r) /\ Held(r)' = Held(r)
  BY <1>1 DEF Same, Held, Has
<1>2. ASSUME NEW p \in Piece, F' = Append(F, p), \A t \in Times : R(t)' = R(t)
      PROVE  \A r : Held(r) => Held(r)'
  BY <1>2, ContentFacts, AppendFacts DEF Held
<1>3. ASSUME NEW how, Answer(how), rec' = rec, how = "ok" => Held(rec)'
      PROVE  \A r \in Records : answer'[r] = "ok" => answer[r] = "ok" \/ Held(r)'
  <2> SUFFICES ASSUME NEW r \in Records, answer'[r] = "ok"
               PROVE  answer[r] = "ok" \/ Held(r)'
    OBVIOUS
  <2>1. CASE r = rec
    BY <1>3, <2>1 DEF Answer, Types, Held
  <2>2. CASE r # rec
    BY <1>3, <2>2 DEF Answer, Types
  <2>3. QED
    BY <2>1, <2>2
<1>4. CASE Encode
  <2>0. PICK p \in Piece : p.of = rec /\ ~p.torn /\ F' = Append(F, p)
    BY <1>4, ContentFacts
  <2>1. F \in Seq(Piece) /\ \A t \in Times : R(t)' = R(t)
    BY <1>4, ContentFacts
  <2>2. pc' = "stat" /\ rec' = rec /\ answer' = answer /\ replaced' = replaced
    BY <1>4 DEF Encode
  <2>3. Has(F', rec)
    BY <2>0, <2>1, AppendFacts
  <2>4. QED
    BY <1>2, <2>0, <2>1, <2>2, <2>3 DEF HeldInv
<1>5. CASE EncodeFails
  <2>1. /\ \A t \in Times : R(t)' = R(t)
        /\ F' = F \/ \E p \in Piece : F' = Append(F, p)
    BY <1>5, ContentFacts
  <2>2. \A r : Held(r) => Held(r)'
    BY <1>1, <1>2, <2>1 DEF Same
  <2>3. pc' = "idle" /\ replaced' = replaced
    BY <1>5 DEF EncodeFails, Answer
  <2>4. \A r \in Records : answer'[r] = "ok" => answer[r] = "ok"
    BY <1>5 DEF EncodeFails, Answer, Types
  <2>5. QED
    BY <2>2, <2>3, <2>4 DEF HeldInv
<1>6. CASE StatFile
  <2>1. Same /\ rec' = rec /\ replaced' = replaced
    BY <1>6 DEF StatFile, Same, F, R
  <2>2. Held(rec)' /\ Has(F, rec)'
    BY <1>1, <1>6, <2>1 DEF StatFile, HeldInv, Held, Same
  <2>3. (pc' = "rename" /\ UNCHANGED answer) \/ Answer("ok")
    BY <1>6 DEF StatFile
  <2>4. \A r \in Records : answer'[r] = "ok" => answer[r] = "ok" \/ Held(r)'
    BY <1>3, <2>1, <2>2, <2>3
  <2>5. pc' \in {"rename", "idle"}
    BY <2>3 DEF Answer
  <2>6. QED
    BY <1>1, <2>1, <2>2, <2>4, <2>5 DEF HeldInv
<1>7. CASE Rename
  <2>1. F' = <<>> /\ \A t \in Times : R(t)' = IF t = now THEN F ELSE R(t)
    BY <1>7, ContentFacts
  <2>2. now \in Times
    BY DEF Types
  <2>3. replaced' = replaced \cup OfsOf(R(now))
    BY <1>7 DEF Rename, OfsOf, R
  <2>4. \A r : Has(F, r) => Held(r)'
    BY <2>1, <2>2 DEF Held
  <2>5. \A t \in Times : \A r : t # now /\ Has(R(t), r) => Held(r)'
    BY <2>1 DEF Held
  <2>6. \A r : Has(R(now), r) => r \in OfsOf(R(now))
    BY DEF Has, OfsOf
  <2>7. \A r : Held(r) /\ r \notin OfsOf(R(now)) => Held(r)'
    BY <2>4, <2>5, <2>6 DEF Held
  <2>8. pc' = "reopen" /\ rec' = rec /\ answer' = answer /\ Held(rec)'
    BY <1>7, <2>4 DEF Rename, HeldInv
  <2>9. QED
    BY <2>3, <2>7, <2>8 DEF HeldInv
<1>8. CASE Reopen
  <2>1. Same /\ rec' = rec /\ replaced' = replaced /\ Answer("ok")
    BY <1>8, OpenedFacts DEF Reopen, Same, R
  <2>2. Held(rec)'
    BY <1>1, <1>8, <2>1 DEF Reopen, HeldInv, Held, Same
  <2>3. \A r \in Records : answer'[r] = "ok" => answer[r] = "ok" \/ Held(r)'
    BY <1>3, <2>1, <2>2
  <2>4. QED
    BY <1>1, <2>1, <2>3 DEF HeldInv, Answer
<1>9. CASE EnsureFileFails \/ RenameFails
  <2>1. Same /\ rec' = rec /\ replaced' = replaced /\ Answer("failed")
    BY <1>9 DEF EnsureFileFails, RenameFails, Same, F, R
  <2>2. \A r \in Records : answer'[r] = "ok" => answer[r] = "ok" \/ Held(r)'
    BY <1>3, <2>1
  <2>3. QED
    BY <1>1, <2>1, <2>2 DEF HeldInv, Answer
<1>10. CASE EnsureFile
  <2>1. Same /\ replaced' = replaced /\ answer' = answer /\ pc' = "encode"
    BY <1>10, OpenedFacts DEF EnsureFile, Same, R
  <2>2. QED
    BY <1>1, <2>1 DEF HeldInv
<1>11. CASE Consume \/ Restart
  <2>1. Same /\ replaced' = replaced /\ answer' = answer /\ pc' \in {"idle", "ensure", "encode"}
    BY <1>11 DEF Consume, Restart, Same, F, R
  <2>2. QED
    BY <1>1, <2>1 DEF HeldInv
<1>12. CASE Tick \/ UNCHANGED vars
  <2>1. Same /\ replaced' = replaced /\ answer' = answer /\ pc' = pc /\ rec' = rec
    BY <1>12 DEF Tick, vars, Same, F, R
  <2>2. QED
    BY <1>1, <2>1 DEF HeldInv
<1>13. QED
  BY <1>4, <1>5, <1>6, <1>7, <1>8, <1>9, <1>10, <1>11, <1>12, StepCases DEF StepActions

-----------------------------------------------------------------------------
(* The theorems *)

\* The invariant holds in every reachable state.
LEMMA Invariance == Spec => []IInv
<1>1. IInv /\ [Next]_vars => IInv'
  BY TypesStep, HandleStep, BoundStep, OrderStep, SpoiltStep, HeldStep DEF IInv
<1>2. QED
  BY InitFacts, <1>1, PTL DEF Spec

\* What the files hold, by their pieces.
LEMMA FilesFact ==
  ASSUME NEW content \in Files PROVE Pieces(content) = F \/ \E t \in Times : Pieces(content) = R(t)
BY DEF Files, F, R

\* telemetry.go:37: a call uses a handle that is open and belongs to a file that exists.
THEOREM TypeCorrect == Spec => []TypeOK
<1>1. IInv => TypeOK
  <2> SUFFICES ASSUME IInv PROVE TypeOK
    OBVIOUS
  <2> USE DEF IInv
  <2>1. ASSUME NEW content \in Files, NEW i \in DOMAIN Pieces(content)
        PROVE  content[i].of \in Records /\ Start(content, i) < content[i].end
    <3>1. content \in Contents /\ Rising(Pieces(content))
      BY FilesFact DEF Files, Types, BoundInv
    <3>2. content \in Seq(Piece) /\ Pieces(content) = content
      BY <3>1, PiecesFact DEF Contents
    <3>3. content[i].of \in Records
      BY <3>2, OfsAreRecords DEF OfsOf
    <3>4. /\ i \in 1..(Len(content) + 1) /\ i + 1 \in 1..(Len(content) + 1) /\ i < i + 1
          /\ i \in Nat
      BY <3>2
    <3>5. Start(content, i) < Start(content, i + 1)
      BY <3>1, <3>2, <3>4 DEF Rising
    <3>6. Start(content, i + 1) = content[i].end
      BY <3>2, <3>4 DEF Start
    <3>7. QED
      BY <3>3, <3>5, <3>6
  <2>2. {open, encFailed} \subseteq BOOLEAN
    BY DEF Types
  <2>3. pc \in {"encode", "stat"} => open /\ file # Absent
    BY DEF HandleInv
  <2>4. QED
    BY <2>1, <2>2, <2>3 DEF TypeOK, Types, Places
<1>2. QED
  BY <1>1, Invariance, PTL

\* telemetry.go:51: lines begin past the limit only for the rotations that were missed.
THEOREM SizesBounded == Spec => []OverrunBounded
<1>1. IInv => OverrunBounded
  <2> SUFFICES ASSUME IInv, NEW content \in Files
               PROVE  Cardinality({i \in DOMAIN Pieces(content) : Start(content, i) >= MaxBytes})
                        <= misses
    BY DEF OverrunBounded
  <2> DEFINE q == Pieces(content)
             late == {i \in DOMAIN q : Start(content, i) >= MaxBytes}
             tail == (Len(q) - misses + 1)..Len(q)
  <2>1. q \in Seq(Piece) /\ Bound(q, misses) /\ content \in Contents
    BY FilesFact, ContentFacts DEF IInv, BoundInv, Files, Types
  <2>2. content = Absent \/ content = q
    BY <2>1, PiecesFact DEF Contents
  <2>3. MaxBytes \in Nat /\ misses \in Nat /\ Len(q) \in Nat
    BY <2>1, SizeAssumption DEF IInv, Types
  <2>4. ASSUME NEW i \in late PROVE i \in tail
    <3>1. i \in 1..Len(q) /\ Start(content, i) >= MaxBytes
      BY <2>1
    <3>2. content = q
      <4>1. content = Absent => Len(q) = 0
        BY PiecesFact
      <4>2. QED
        BY <2>2, <2>3, <3>1, <4>1
    <3>3. Start(q, i) \in Nat
      BY <2>1, <2>3, <3>1, SizesAreNat
    <3>4. ~(i + misses <= Len(q))
      BY <2>1, <2>3, <3>1, <3>2, <3>3 DEF Bound
    <3>5. QED
      BY <2>3, <3>1, <3>4
  <2>5. IsFiniteSet(tail) /\ Cardinality(tail) = misses
    <3> DEFINE a == Len(q) - misses + 1
               b == Len(q)
    <3>1. a \in Int /\ b \in Int
      BY <2>3
    <3>2. (IF a > b THEN 0 ELSE b - a + 1) = misses
      BY <2>3
    <3> HIDE DEF a, b
    <3>3. IsFiniteSet(a..b) /\ Cardinality(a..b) = IF a > b THEN 0 ELSE b - a + 1
      BY <3>1, FS_Interval
    <3>4. QED
      BY <3>2, <3>3 DEF a, b
  <2> HIDE DEF late, tail
  <2>6. Cardinality(late) <= Cardinality(tail)
    BY <2>4, <2>5, FS_Subset
  <2>7. QED
    BY <2>5, <2>6 DEF late, q
<1>2. QED
  BY <1>1, Invariance, PTL

\* telemetry.go:76: rotations and restarts keep the order in which records were written.
THEOREM OrderKept == Spec => []StoredInOrder
<1>1. IInv => StoredInOrder
  <2> SUFFICES ASSUME IInv PROVE StoredInOrder
    OBVIOUS
  <2> USE DEF IInv, OrderInv
  <2>1. \A content : /\ DOMAIN Stored(content) = DOMAIN Pieces(content)
                     /\ \A i \in DOMAIN Pieces(content) :
                          /\ Stored(content)[i] = Pieces(content)[i].of
                          /\ Stored(content)[i] \in OfsOf(Pieces(content))
    BY DEF Stored, OfsOf
  <2>2. ASSUME NEW content \in Files PROVE Increasing(Stored(content))
    <3>1. Ascending(Pieces(content))
      BY FilesFact
    <3>2. QED
      BY <2>1, <3>1 DEF Increasing, Ascending
  <2>3. ASSUME NEW a, NEW b, Before(Pieces(a), Pieces(b)),
               NEW i \in DOMAIN Stored(a), NEW j \in DOMAIN Stored(b)
        PROVE  Stored(a)[i] < Stored(b)[j]
    BY <2>1, <2>3 DEF Before
  <2>4. QED
    BY <2>2, <2>3 DEF StoredInOrder, F, R
<1>2. QED
  BY <1>1, Invariance, PTL

\* telemetry.go:45: of the records that were acknowledged, at most one per restart cannot be
\* read back, but for those of a rotated file that another one replaced.
THEOREM LossBounded == Spec => []LossOnlyAfterRestart
<1>1. IInv => LossOnlyAfterRestart
  <2> SUFFICES ASSUME IInv PROVE LossOnlyAfterRestart
    OBVIOUS
  <2> USE DEF IInv
  <2>1. ASSUME NEW q, NEW r, Has(q, r), DOMAIN q \subseteq Nat \ {0}
        PROVE  \/ r \in SpoiltIn(q)
               \/ \E i \in DOMAIN q : q[i].of = r /\ ~q[i].torn /\ (i > 1 => ~q[i - 1].torn)
    <3>1. PICK i \in DOMAIN q : q[i].of = r /\ ~q[i].torn
      BY <2>1 DEF Has
    <3>2. QED
      BY <3>1 DEF SpoiltIn
  <2>2. ASSUME NEW content \in Files, NEW r, Has(Pieces(content), r),
               r \notin Readable(content)
        PROVE  r \in Spoilt
    <3>1. DOMAIN Pieces(content) \subseteq Nat \ {0}
      BY FilesFact, ContentFacts
    <3>2. r \in SpoiltIn(Pieces(content))
      BY <2>1, <2>2, <3>1 DEF Readable
    <3>3. QED
      BY <3>2, FilesFact DEF Spoilt
  <2>3. ASSUME NEW r \in Unreadable \ replaced PROVE r \in Spoilt
    <3>1. Held(r) /\ \A content \in Files : r \notin Readable(content)
      BY DEF Unreadable, HeldInv
    <3>2. \E content \in Files : Has(Pieces(content), r)
      BY <3>1 DEF Held, F, R, Files
    <3>3. QED
      BY <2>2, <3>1, <3>2
  <2>4. Cardinality(Unreadable \ replaced) <= Cardinality(Spoilt)
    BY <2>3, SpoiltFinite, FS_Subset
  <2>5. Cardinality(Unreadable \ replaced) \in Nat
    BY <2>3, SpoiltFinite, FS_Subset, FS_CardinalityType
  <2>6. QED
    BY <2>4, <2>5, SpoiltFinite DEF LossInv, LossOnlyAfterRestart, Types
<1>2. QED
  BY <1>1, Invariance, PTL

=============================================================================
