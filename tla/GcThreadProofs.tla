--------------------------- MODULE GcThreadProofs ---------------------------
(***************************************************************************)
(* Theorems about GcThread: the shares of the threads are disjoint and     *)
(* together the input, all of it is written when the threads agree on      *)
(* where their records are, and nothing is written of an input with a      *)
(* missing file.                                                           *)
(*                                                                         *)
(* The argument is a thread's count of records: as long as the records of  *)
(* its block may come, it is the number of records before its place in the *)
(* input, although it read some and skipped others.                        *)
(***************************************************************************)
EXTENDS GcThread, FiniteSetTheorems, FunctionTheorems, TLAPS

-----------------------------------------------------------------------------
(* Arithmetic of blocks and turns. *)

(* A product grows with its first factor. *)
LEMMA TimesGrows ==
    ASSUME NEW a \in Nat, NEW b \in Nat, NEW c \in Nat, a <= b
    PROVE  a * c \in Nat /\ a * c <= b * c
<1>1. PICK d \in Nat : b = a + d
  BY b - a \in Nat, b = a + (b - a)
<1>2. b * c = a * c + d * c /\ d * c \in Nat /\ a * c \in Nat
  BY <1>1
<1> QED BY <1>2

(* Division rounds down. *)
LEMMA DivRounds ==
    ASSUME NEW a \in Nat, NEW n \in Nat \ {0}
    PROVE  /\ a \div n \in Nat
           /\ (a \div n) * n <= a
           /\ a < (a \div n + 1) * n
<1> DEFINE q == a \div n
<1>1. q \in Nat /\ n * q + (a % n) = a /\ a % n \in 0 .. n - 1
  OBVIOUS
<1>2. n * q = q * n /\ (q + 1) * n = q * n + n
  BY <1>1
<1> QED BY <1>1, <1>2

(* A multiple has no remainder. *)
LEMMA MultipleMod ==
    ASSUME NEW n \in Nat \ {0}, NEW x \in Int, NEW j \in Int, x = n * j
    PROVE  x % n = 0
OBVIOUS

(* A multiple of n between -n and n is 0. *)
LEMMA SmallMultiple ==
    ASSUME NEW n \in Nat \ {0}, NEW x \in Int, -n < x, x < n, x % n = 0
    PROVE  x = 0
OBVIOUS

-----------------------------------------------------------------------------
(* The input as data: L is lens, e is estimate, o is org. *)

Input == [1 .. NumFiles -> Nat]

RecordsIn(L) == UNION {{<<f, i>> : i \in 1 .. L[f]} : f \in 1 .. NumFiles}

(* The records up to the i-th one of file f. *)
UpTo(L, f, i) == {r \in RecordsIn(L) : r[1] < f \/ (r[1] = f /\ r[2] <= i)}

Position(L, f, i) == Cardinality(UpTo(L, f, i))

BlockOf(e) == IF e \div NThreads = 0 THEN 1 ELSE e \div NThreads

SkipOf(e, t) == (t - 1) * BlockOf(e)

StopOf(e, t) == IF t = NThreads THEN 0 ELSE t * BlockOf(e)

(* The share of thread t. *)
InTurn(t, i) == (i - t) % NThreads = 0

InBlock(e, t, n) == n > SkipOf(e, t) /\ (StopOf(e, t) > 0 => n <= StopOf(e, t))

Own(L, o, e, t, r) == IF o = "variable" THEN InTurn(t, r[2])
                                        ELSE InBlock(e, t, Position(L, r[1], r[2]))

(* A record is the pair of its file and of its place in it. *)
LEMMA RecordsAre ==
    ASSUME NEW L \in Input, NEW r
    PROVE  r \in RecordsIn(L) <=>
               /\ r = <<r[1], r[2]>>
               /\ r[1] \in 1 .. NumFiles
               /\ r[2] \in 1 .. L[r[1]]
<1>1. ASSUME r \in RecordsIn(L)
      PROVE  r = <<r[1], r[2]>> /\ r[1] \in 1 .. NumFiles /\ r[2] \in 1 .. L[r[1]]
  <2>1. PICK f \in 1 .. NumFiles : r \in {<<f, i>> : i \in 1 .. L[f]}
    BY <1>1 DEF RecordsIn
  <2>2. PICK i \in 1 .. L[f] : r = <<f, i>>
    BY <2>1
  <2> QED BY <2>2
<1>2. ASSUME r = <<r[1], r[2]>>, r[1] \in 1 .. NumFiles, r[2] \in 1 .. L[r[1]]
      PROVE  r \in RecordsIn(L)
  <2> DEFINE f == r[1]
             i == r[2]
  <2>1. <<f, i>> \in {<<f, j>> : j \in 1 .. L[f]}
    BY <1>2
  <2>2. {<<f, j>> : j \in 1 .. L[f]} \in {{<<g, j>> : j \in 1 .. L[g]} : g \in 1 .. NumFiles}
    BY <1>2
  <2> QED BY <1>2, <2>1, <2>2 DEF RecordsIn
<1> QED BY <1>1, <1>2

(* The records of one file are as many as their places. *)
LEMMA PlacesCount ==
    ASSUME NEW f, NEW n \in Nat
    PROVE  /\ IsFiniteSet({<<f, i>> : i \in 1 .. n})
           /\ Cardinality({<<f, i>> : i \in 1 .. n}) = n
<1> DEFINE S == {<<f, i>> : i \in 1 .. n}
           B == [i \in 1 .. n |-> <<f, i>>]
<1>1. IsFiniteSet(1 .. n) /\ Cardinality(1 .. n) = n
  <2>1. PICK a \in Int, b \in Int : a = 1 /\ b = n
    OBVIOUS
  <2> QED BY <2>1, FS_Interval
<1>2. B \in Bijection(1 .. n, S)
  <2>1. B \in [1 .. n -> S]
    OBVIOUS
  <2>2. \A i, j \in 1 .. n : B[i] = B[j] => i = j
    OBVIOUS
  <2>3. \A s \in S : \E i \in 1 .. n : B[i] = s
    OBVIOUS
  <2> HIDE DEF S, B
  <2> QED BY <2>1, <2>2, <2>3, Fun_IsBij
<1>3. ExistsBijection(1 .. n, S)
  BY <1>2 DEF ExistsBijection
<1>4. IsFiniteSet(S) /\ Cardinality(S) = n
  <2> HIDE DEF S, B
  <2> QED BY <1>1, <1>3, FS_Bijection
<1> QED BY <1>4

(* The input is finite. *)
LEMMA RecordsFinite ==
    ASSUME NEW L \in Input
    PROVE  IsFiniteSet(RecordsIn(L))
<1> DEFINE F == 1 .. NumFiles
           Of == [f \in F |-> {<<f, i>> : i \in 1 .. L[f]}]
           S == {{<<f, i>> : i \in 1 .. L[f]} : f \in F}
<1>1. IsFiniteSet(F)
  <2>1. PICK a \in Int, b \in Int : a = 1 /\ b = NumFiles
    BY ThreadAssumption
  <2> QED BY <2>1, FS_Interval
<1>2. \A f \in F : Of[f] \in S
  OBVIOUS
<1>3. \A s \in S : \E f \in F : Of[f] = s
  OBVIOUS
<1>4. Of \in Surjection(F, S)
  <2>1. Of \in [F -> S]
    OBVIOUS
  <2> QED BY <2>1, <1>3 DEF Surjection
<1>5. IsFiniteSet(S)
  <2> HIDE DEF F, Of, S
  <2> QED BY <1>1, <1>4, FS_Surjection
<1>6. \A s \in S : IsFiniteSet(s)
  <2>1. TAKE s \in S
  <2>2. PICK f \in F : s = {<<f, i>> : i \in 1 .. L[f]}
    OBVIOUS
  <2>3. L[f] \in Nat
    BY DEF Input
  <2> QED BY <2>2, <2>3, PlacesCount
<1> QED
  <2>1. RecordsIn(L) = UNION S
    BY DEF RecordsIn
  <2> HIDE DEF S
  <2> QED BY <2>1, <1>5, <1>6, FS_UNION

(* What is up to a place is finite, and its size is a number. *)
LEMMA UpToFinite ==
    ASSUME NEW L \in Input, NEW f, NEW i
    PROVE  IsFiniteSet(UpTo(L, f, i)) /\ Position(L, f, i) \in Nat
<1>1. UpTo(L, f, i) \subseteq RecordsIn(L)
  BY DEF UpTo
<1>2. IsFiniteSet(UpTo(L, f, i))
  BY <1>1, RecordsFinite, FS_Subset
<1> QED BY <1>2, FS_CardinalityType DEF Position

(* Positions grow with the place. *)
LEMMA PositionGrows ==
    ASSUME NEW L \in Input, NEW f \in Int, NEW i \in Int, NEW g \in Int, NEW j \in Int,
           f < g \/ (f = g /\ i <= j)
    PROVE  Position(L, f, i) <= Position(L, g, j)
<1>1. UpTo(L, f, i) \subseteq UpTo(L, g, j)
  <2> SUFFICES ASSUME NEW r \in UpTo(L, f, i)
               PROVE  r \in UpTo(L, g, j)
    OBVIOUS
  <2>1. r \in RecordsIn(L) /\ (r[1] < f \/ (r[1] = f /\ r[2] <= i))
    BY DEF UpTo
  <2>2. r[1] \in Int /\ r[2] \in Int
    <3>1. r[1] \in 1 .. NumFiles /\ r[2] \in 1 .. L[r[1]]
      BY <2>1, RecordsAre
    <3>2. L[r[1]] \in Nat
      BY <3>1 DEF Input
    <3> QED BY <3>1, <3>2, ThreadAssumption
  <2>3. r[1] < g \/ (r[1] = g /\ r[2] <= j)
    BY <2>1, <2>2
  <2> QED BY <2>1, <2>3 DEF UpTo
<1>2. Cardinality(UpTo(L, f, i)) <= Cardinality(UpTo(L, g, j))
  BY <1>1, UpToFinite, FS_Subset
<1> QED BY <1>2 DEF Position

(* The next record of a file is at the next position. *)
LEMMA PositionNext ==
    ASSUME NEW L \in Input, NEW f \in 1 .. NumFiles, NEW i \in 1 .. L[f]
    PROVE  Position(L, f, i) = Position(L, f, i - 1) + 1
<1> DEFINE r == <<f, i>>
<1>0. L[f] \in Nat /\ f \in Int /\ i \in Int
  BY ThreadAssumption DEF Input
<1>1. r \in RecordsIn(L)
  BY RecordsAre
<1>2. UpTo(L, f, i) = UpTo(L, f, i - 1) \cup {r}
  <2>1. ASSUME NEW s \in UpTo(L, f, i), s # r
        PROVE  s \in UpTo(L, f, i - 1)
    <3>1. s \in RecordsIn(L) /\ (s[1] < f \/ (s[1] = f /\ s[2] <= i))
      BY DEF UpTo
    <3>2. s = <<s[1], s[2]>> /\ s[1] \in 1 .. NumFiles /\ s[2] \in 1 .. L[s[1]]
      BY <3>1, RecordsAre
    <3>3. s[2] \in Int
      BY <3>2 DEF Input
    <3>4. s[1] = f => s[2] # i
      BY <3>2, <2>1
    <3>5. s[1] < f \/ (s[1] = f /\ s[2] <= i - 1)
      BY <3>1, <3>3, <3>4, <1>0
    <3> QED BY <3>1, <3>5 DEF UpTo
  <2>2. UpTo(L, f, i - 1) \subseteq UpTo(L, f, i)
    <3> SUFFICES ASSUME NEW s \in UpTo(L, f, i - 1)
                 PROVE  s \in UpTo(L, f, i)
      OBVIOUS
    <3>1. s \in RecordsIn(L) /\ (s[1] < f \/ (s[1] = f /\ s[2] <= i - 1))
      BY DEF UpTo
    <3>2. s[1] \in 1 .. NumFiles /\ s[2] \in 1 .. L[s[1]]
      BY <3>1, RecordsAre
    <3>3. s[2] \in Int
      BY <3>2 DEF Input
    <3> QED BY <3>1, <3>3, <1>0 DEF UpTo
  <2>3. r \in UpTo(L, f, i)
    BY <1>0, <1>1 DEF UpTo
  <2> QED BY <2>1, <2>2, <2>3
<1>3. r \notin UpTo(L, f, i - 1)
  BY <1>0 DEF UpTo
<1>4. Cardinality(UpTo(L, f, i)) = Cardinality(UpTo(L, f, i - 1)) + 1
  BY <1>2, <1>3, UpToFinite, FS_AddElement
<1> QED BY <1>4 DEF Position

(* The position does not change from the end of a file to the next one. *)
LEMMA PositionAtEnd ==
    ASSUME NEW L \in Input, NEW f \in 1 .. NumFiles, NEW i \in Int, i >= L[f]
    PROVE  Position(L, f + 1, 0) = Position(L, f, i)
<1>1. ASSUME NEW r \in RecordsIn(L)
      PROVE  (r[1] < f + 1 \/ (r[1] = f + 1 /\ r[2] <= 0))
                 <=> (r[1] < f \/ (r[1] = f /\ r[2] <= i))
  <2>1. r[1] \in 1 .. NumFiles /\ r[2] \in 1 .. L[r[1]]
    BY RecordsAre
  <2>2. L[r[1]] \in Nat /\ L[f] \in Nat
    BY <2>1 DEF Input
  <2> QED BY <2>1, <2>2, ThreadAssumption
<1>2. UpTo(L, f + 1, 0) = UpTo(L, f, i)
  BY <1>1 DEF UpTo
<1> QED BY <1>2 DEF Position

(* In the first file the position is the place. *)
LEMMA PositionFirst ==
    ASSUME NEW L \in Input, NEW i \in 0 .. L[1]
    PROVE  Position(L, 1, i) = i
<1>0. L[1] \in Nat /\ 1 \in 1 .. NumFiles
  BY ThreadAssumption DEF Input
<1>1. ASSUME NEW r
      PROVE  r \in UpTo(L, 1, i) <=> r \in {<<1, j>> : j \in 1 .. i}
  <2>1. ASSUME r \in UpTo(L, 1, i)
        PROVE  r \in {<<1, j>> : j \in 1 .. i}
    <3>1. r \in RecordsIn(L) /\ (r[1] < 1 \/ (r[1] = 1 /\ r[2] <= i))
      BY <2>1 DEF UpTo
    <3>2. r = <<r[1], r[2]>> /\ r[1] \in 1 .. NumFiles /\ r[2] \in 1 .. L[r[1]]
      BY <3>1, RecordsAre
    <3>3. r[1] = 1 /\ r[2] \in 1 .. i
      BY <3>1, <3>2, <1>0, ThreadAssumption
    <3> QED BY <3>2, <3>3
  <2>2. ASSUME r \in {<<1, j>> : j \in 1 .. i}
        PROVE  r \in UpTo(L, 1, i)
    <3>1. PICK j \in 1 .. i : r = <<1, j>>
      BY <2>2
    <3>2. r[1] = 1 /\ r[2] = j /\ j \in 1 .. L[1]
      BY <3>1, <1>0
    <3>3. r \in RecordsIn(L)
      BY <3>1, <3>2, <1>0, RecordsAre
    <3> QED BY <3>2, <3>3 DEF UpTo
  <2> QED BY <2>1, <2>2
<1>2. UpTo(L, 1, i) = {<<1, j>> : j \in 1 .. i}
  BY <1>1
<1>3. Cardinality({<<1, j>> : j \in 1 .. i}) = i
  BY <1>0, PlacesCount
<1> QED BY <1>2, <1>3 DEF Position

(* A record behind a place has a greater position. *)
LEMMA PositionBehind ==
    ASSUME NEW L \in Input, NEW f \in Int, NEW i \in Int, NEW r \in RecordsIn(L),
           ~ (r[1] < f \/ (r[1] = f /\ r[2] <= i))
    PROVE  Position(L, r[1], r[2]) > Position(L, f, i)
<1>1. r[1] \in 1 .. NumFiles /\ r[2] \in 1 .. L[r[1]] /\ L[r[1]] \in Nat
  BY RecordsAre DEF Input
<1>2. r[1] \in Int /\ r[2] \in Int
  BY <1>1, ThreadAssumption
<1>3. Position(L, r[1], r[2]) = Position(L, r[1], r[2] - 1) + 1
  BY <1>1, PositionNext
<1>4. Position(L, f, i) <= Position(L, r[1], r[2] - 1)
  <2>1. f < r[1] \/ (f = r[1] /\ i <= r[2] - 1)
    BY <1>2
  <2> QED BY <1>2, <2>1, PositionGrows
<1>5. Position(L, f, i) \in Nat /\ Position(L, r[1], r[2] - 1) \in Nat
  BY UpToFinite
<1> QED BY <1>3, <1>4, <1>5

-----------------------------------------------------------------------------
(* Shares. *)

(* A block has a record; shares begin and end at numbers, in order. *)
LEMMA SharesAre ==
    ASSUME NEW e \in Nat, NEW t \in Threads
    PROVE  /\ BlockOf(e) \in Nat \ {0}
           /\ SkipOf(e, t) \in Nat
           /\ StopOf(e, t) \in Nat
           /\ t = NThreads => StopOf(e, t) = 0
           /\ t # NThreads => StopOf(e, t) = SkipOf(e, t) + BlockOf(e) /\ StopOf(e, t) > 0
           /\ t = 1 => SkipOf(e, t) = 0
<1> DEFINE b == BlockOf(e)
<1>1. t \in Nat /\ t >= 1 /\ t - 1 \in Nat
  BY ThreadAssumption DEF Threads
<1>2. b \in Nat \ {0}
  BY ThreadAssumption, DivRounds DEF BlockOf
<1> HIDE DEF b
<1>3. (t - 1) * b \in Nat /\ t * b \in Nat
  BY <1>1, <1>2, TimesGrows
<1>4. t * b = (t - 1) * b + b
  BY <1>1, <1>2
<1>5. t = 1 => (t - 1) * b = 0
  BY <1>2
<1> QED BY <1>2, <1>3, <1>4, <1>5 DEF b, SkipOf, StopOf

(* The share of a later thread begins where the one before it ends, or     *)
(* behind.                                                                 *)
LEMMA SharesInOrder ==
    ASSUME NEW e \in Nat, NEW t \in Threads, NEW u \in Threads, t < u
    PROVE  StopOf(e, t) > 0 /\ StopOf(e, t) <= SkipOf(e, u)
<1>1. t \in Nat /\ u - 1 \in Nat /\ t <= u - 1 /\ t # NThreads
  BY ThreadAssumption DEF Threads
<1>2. BlockOf(e) \in Nat
  BY SharesAre
<1>3. t * BlockOf(e) <= (u - 1) * BlockOf(e)
  BY <1>1, <1>2, TimesGrows
<1> QED BY <1>1, <1>3, SharesAre DEF SkipOf, StopOf

(* No two threads own a record. *)
LEMMA OwnDisjoint ==
    ASSUME NEW L \in Input, NEW o, NEW e \in Nat, NEW t \in Threads, NEW u \in Threads,
           NEW r \in RecordsIn(L), Own(L, o, e, t, r), Own(L, o, e, u, r)
    PROVE  t = u
<1>1. t \in Int /\ u \in Int /\ t >= 1 /\ t <= NThreads /\ u >= 1 /\ u <= NThreads
  BY ThreadAssumption DEF Threads
<1>2. CASE o = "variable"
  <2>1. (r[2] - t) % NThreads = 0 /\ (r[2] - u) % NThreads = 0
    BY <1>2 DEF Own, InTurn
  <2>2. r[2] \in Int
    <3>1. r[1] \in 1 .. NumFiles /\ r[2] \in 1 .. L[r[1]]
      BY RecordsAre
    <3> QED BY <3>1 DEF Input
  <2>3. (t - u) % NThreads = 0
    <3>0. PICK i \in Int : i = r[2]
      BY <2>2
    <3> DEFINE x == i - t
               y == i - u
               n == NThreads
    <3>1. x \in Int /\ y \in Int /\ n \in Nat \ {0} /\ x % n = 0 /\ y % n = 0 /\ t - u = y - x
      <4>1. x \in Int /\ y \in Int /\ t - u = y - x
        BY <1>1
      <4>2. n \in Nat \ {0} /\ x % n = 0 /\ y % n = 0
        BY <3>0, <2>1, ThreadAssumption
      <4> QED BY <4>1, <4>2
    <3> HIDE DEF x, y, n
    <3>2. x = n * (x \div n) /\ y = n * (y \div n) /\ x \div n \in Int /\ y \div n \in Int
      BY <3>1
    <3>3. PICK p \in Int, q \in Int : x = n * p /\ y = n * q
      BY <3>2
    <3>4. y - x = n * (q - p)
      BY <3>1, <3>3
    <3>5. (y - x) % n = 0
      BY <3>1, <3>4
    <3> QED BY <3>1, <3>5 DEF n
  <2> QED BY <1>1, <2>3, SmallMultiple, ThreadAssumption
<1>3. CASE o # "variable"
  <2> DEFINE n == Position(L, r[1], r[2])
  <2>1. InBlock(e, t, n) /\ InBlock(e, u, n) /\ n \in Nat
    BY <1>3, UpToFinite DEF Own
  <2>2. ASSUME NEW v \in Threads, NEW w \in Threads, v < w, InBlock(e, v, n), InBlock(e, w, n)
        PROVE  FALSE
    <3>1. StopOf(e, v) > 0 /\ StopOf(e, v) <= SkipOf(e, w)
      BY <2>2, SharesInOrder
    <3>2. StopOf(e, v) \in Nat /\ SkipOf(e, w) \in Nat
      BY SharesAre
    <3>3. n <= StopOf(e, v) /\ n > SkipOf(e, w)
      BY <2>2, <3>1 DEF InBlock
    <3> QED BY <2>1, <3>1, <3>2, <3>3
  <2>3. t < u \/ u < t \/ t = u
    BY <1>1
  <2> QED BY <2>1, <2>2, <2>3
<1> QED BY <1>2, <1>3

(* Every record is somebody's. *)
LEMMA SomebodyOwns ==
    ASSUME NEW L \in Input, NEW o, NEW e \in Nat, NEW r \in RecordsIn(L)
    PROVE  \E t \in Threads : Own(L, o, e, t, r)
<1>1. r[1] \in 1 .. NumFiles /\ r[2] \in 1 .. L[r[1]] /\ L[r[1]] \in Nat
  BY RecordsAre DEF Input
<1>2. r[2] \in Nat \ {0}
  BY <1>1
<1>3. CASE o = "variable"
  <2> DEFINE t == ((r[2] - 1) % NThreads) + 1
             q == (r[2] - 1) \div NThreads
  <2>1. t \in Threads
    BY <1>2, ThreadAssumption DEF Threads
  <2>2. r[2] - t = NThreads * q /\ q \in Int
    <3>1. PICK i \in Nat : i = r[2] - 1 /\ r[2] = i + 1
      BY <1>2
    <3>2. i = NThreads * (i \div NThreads) + (i % NThreads) /\ i \div NThreads \in Int
             /\ i % NThreads \in Int
      BY ThreadAssumption
    <3>3. t = (i % NThreads) + 1 /\ q = i \div NThreads /\ r[2] = i + 1
      BY <3>1
    <3> HIDE DEF t, q
    <3>4. r[2] - t = i - (i % NThreads)
      BY <3>2, <3>3
    <3>5. NThreads * q = i - (i % NThreads)
      <4>1. PICK m \in Int, c \in Int : m = NThreads * q /\ c = i % NThreads
        BY <3>2, <3>3, ThreadAssumption
      <4>2. i = m + c
        BY <4>1, <3>2, <3>3
      <4> QED BY <4>1, <4>2
    <3> QED BY <3>2, <3>3, <3>4, <3>5
  <2>3. (r[2] - t) % NThreads = 0
    <3> HIDE DEF t, q
    <3> QED BY <2>2, ThreadAssumption
  <2> QED BY <1>3, <2>1, <2>3 DEF Own, InTurn
<1>4. CASE o # "variable"
  <2> DEFINE n == Position(L, r[1], r[2])
             b == BlockOf(e)
             m == (NThreads - 1) * b
  <2>1. n \in Nat \ {0} /\ b \in Nat \ {0} /\ m \in Nat
    <3>1. n = Position(L, r[1], r[2] - 1) + 1 /\ Position(L, r[1], r[2] - 1) \in Nat
      BY <1>1, PositionNext, UpToFinite
    <3>2. 1 \in Threads /\ NThreads - 1 \in Nat
      BY ThreadAssumption DEF Threads
    <3>3. b \in Nat \ {0}
      BY <3>2, SharesAre
    <3> HIDE DEF n, b
    <3> QED BY <3>1, <3>2, <3>3, TimesGrows
  <2>2. CASE n > m
    <3>1. NThreads \in Threads
      BY ThreadAssumption DEF Threads
    <3>2. InBlock(e, NThreads, n)
      BY <2>1, <2>2, ThreadAssumption DEF InBlock, SkipOf, StopOf
    <3> QED BY <1>4, <3>1, <3>2 DEF Own
  <2>3. CASE ~ n > m
    <3> DEFINE q == (n - 1) \div b
               t == q + 1
    <3>1. q \in Nat /\ q * b <= n - 1 /\ n - 1 < (q + 1) * b
      BY <2>1, DivRounds
    <3> HIDE DEF n, b, q
    <3>2. q < NThreads - 1
      <4>1. SUFFICES ASSUME NThreads - 1 <= q
                     PROVE  FALSE
        BY <3>1, ThreadAssumption
      <4>2. m <= q * b
        BY <4>1, <3>1, <2>1, TimesGrows, ThreadAssumption
      <4> QED BY <4>2, <3>1, <2>1, <2>3
    <3>3. t \in Threads /\ t # NThreads
      BY <3>1, <3>2, ThreadAssumption DEF Threads
    <3>4. SkipOf(e, t) = q * b /\ StopOf(e, t) = (q + 1) * b
      BY <3>1, <3>3 DEF SkipOf, StopOf, b
    <3>5. (q + 1) * b \in Nat /\ q * b \in Nat
      BY <3>1, <2>1, TimesGrows
    <3>6. InBlock(e, t, n)
      BY <3>1, <3>4, <3>5, <2>1 DEF InBlock
    <3> QED BY <1>4, <3>3, <3>6 DEF Own, n
  <2> QED BY <2>2, <2>3
<1> QED BY <1>3, <1>4

(* Whole slots of what is before a share are not more than that, and not   *)
(* more than a file of as many records as its size promised has.           *)
LEMMA SlotsInFile ==
    ASSUME NEW e \in Nat, NEW t \in Threads
    PROVE  /\ (SkipOf(e, t) \div Slot) * Slot \in Nat
           /\ (SkipOf(e, t) \div Slot) * Slot <= SkipOf(e, t)
           /\ (SkipOf(e, t) \div Slot) * Slot <= e
<1> DEFINE s == SkipOf(e, t)
           n == NThreads
           d == e \div n
<1>1. s \in Nat /\ Slot \in Nat \ {0} /\ n \in Nat \ {0} /\ Slot >= n
  BY SharesAre, ThreadAssumption
<1>2. t - 1 \in Nat /\ t - 1 < n
  BY ThreadAssumption DEF Threads
<1>3. s \div Slot \in Nat /\ (s \div Slot) * Slot <= s
  BY <1>1, DivRounds
<1>4. (s \div Slot) * Slot \in Nat
  BY <1>1, <1>3, TimesGrows
<1>5. d \in Nat /\ d * n <= e
  BY <1>1, DivRounds
<1>6. CASE d = 0
  <2>1. s = t - 1
    BY <1>2, <1>6 DEF SkipOf, BlockOf
  <2>2. s < Slot
    BY <1>1, <1>2, <2>1
  <2>3. s \div Slot = 0
    <3> HIDE DEF s
    <3> QED BY <1>1, <2>2
  <2> QED BY <1>1, <1>3, <1>4, <2>3
<1>7. CASE d # 0
  <2>1. s = (t - 1) * d
    BY <1>7 DEF SkipOf, BlockOf
  <2>2. (t - 1) * d <= n * d /\ n * d = d * n
    BY <1>1, <1>2, <1>5, TimesGrows
  <2>3. s <= e
    <3> HIDE DEF s, d, n
    <3>1. n * d \in Nat
      BY <1>1, <1>5
    <3> QED BY <2>1, <2>2, <1>5, <3>1, <1>1
  <2> QED BY <1>1, <1>3, <1>4, <2>3
<1> QED BY <1>6, <1>7

(* With an estimate of at most twice the records of a file that is not     *)
(* empty, the share of the second thread begins in the file.               *)
LEMMA SecondBegins ==
    ASSUME NEW e \in Nat, NEW m \in Nat \ {0}, e <= 2 * m, 2 \in Threads
    PROVE  SkipOf(e, 2) <= m
<1> DEFINE n == NThreads
           d == e \div n
<1>1. n \in Nat /\ n >= 2
  BY ThreadAssumption DEF Threads
<1>2. d \in Nat /\ d * n <= e
  BY <1>1, DivRounds
<1>3. 2 * d <= n * d /\ n * d = d * n
  BY <1>1, <1>2, TimesGrows
<1>4. d <= m
  <2> HIDE DEF d, n
  <2>1. n * d \in Nat
    BY <1>1, <1>2
  <2> QED BY <1>2, <1>3, <2>1
<1>5. BlockOf(e) <= m /\ BlockOf(e) \in Nat
  BY <1>2, <1>4 DEF BlockOf
<1>6. SkipOf(e, 2) = BlockOf(e)
  BY <1>5 DEF SkipOf
<1> QED BY <1>5, <1>6

(* A thread whose turn is 1 takes the record it reads, and its turn comes  *)
(* again after NThreads records; the other records are not its own.        *)
LEMMA TurnsComeRound ==
    ASSUME NEW t \in Threads, NEW i \in Nat \ {0}, NEW n \in 1 .. NThreads,
           (n + i - 1 - t) % NThreads = 0
    PROVE  /\ n = 1 => InTurn(t, i) /\ (NThreads + (i + 1) - 1 - t) % NThreads = 0
           /\ n # 1 => ~ InTurn(t, i) /\ ((n - 1) + (i + 1) - 1 - t) % NThreads = 0
<1> DEFINE N == NThreads
<1>1. N \in Nat \ {0} /\ t \in Int /\ n \in Int /\ n >= 1 /\ n <= N
  BY ThreadAssumption DEF Threads
<1>2. CASE n = 1
  <2>1. PICK x \in Int : x = i - t
    BY <1>1
  <2>2. n + i - 1 - t = x /\ NThreads + (i + 1) - 1 - t = x + N
    BY <1>1, <1>2, <2>1
  <2>3. x % N = 0
    BY <2>2
  <2>4. (x + N) % N = 0
    <3> HIDE DEF N
    <3>1. x = N * (x \div N) /\ x \div N \in Int
      BY <1>1, <2>3
    <3>2. PICK k \in Int : x = N * k
      BY <3>1
    <3>3. PICK j \in Int : j = k + 1
      BY <3>2
    <3>4. x + N = N * j
      BY <1>1, <3>2, <3>3
    <3>5. PICK y \in Int : y = x + N
      BY <1>1
    <3>6. y % N = 0
      BY <1>1, <3>4, <3>5, MultipleMod
    <3> QED BY <3>5, <3>6
  <2> QED BY <1>2, <2>1, <2>2, <2>3, <2>4 DEF InTurn
<1>3. CASE n # 1
  <2>1. (n - 1) + (i + 1) - 1 - t = n + i - 1 - t
    BY <1>1
  <2>2. ASSUME InTurn(t, i)
        PROVE  FALSE
    <3>1. PICK x \in Int : x = i - t
      BY <1>1
    <3>2. x % N = 0 /\ (x + (n - 1)) % N = 0
      <4>1. n + i - 1 - t = x + (n - 1)
        BY <1>1, <3>1
      <4> QED BY <2>2, <3>1, <4>1 DEF InTurn
    <3>3. (n - 1) % N = 0
      <4> HIDE DEF N
      <4>1. x = N * (x \div N) /\ x \div N \in Int
        BY <1>1, <3>2
      <4>2. x + (n - 1) = N * ((x + (n - 1)) \div N) /\ (x + (n - 1)) \div N \in Int
        BY <1>1, <3>2
      <4>3. PICK p \in Int, q \in Int : x = N * p /\ x + (n - 1) = N * q
        BY <4>1, <4>2
      <4>4. n - 1 = N * (q - p)
        BY <1>1, <4>3
      <4> QED BY <1>1, <4>4
    <3> QED BY <1>1, <1>3, <3>3, SmallMultiple
  <2> QED BY <1>3, <2>1, <2>2
<1> QED BY <1>2, <1>3

-----------------------------------------------------------------------------
(* The invariant. *)

(* Thread t stands behind record at[t] - 1 of an open file ... *)
InFile(t) == \/ pc[t] \in {"skip", "read", "round"}
             \/ pc[t] = "save" /\ more[t]
             \/ pc[t] = "file" /\ GoesOn(t)

(* ... or before the next file. *)
Here(t) == IF InFile(t) THEN at[t] - 1 ELSE 0

Passed(t, r) == r[1] < idx[t] \/ (r[1] = idx[t] /\ r[2] <= Here(t))

(* The share of t begins behind the first file: t ends at once. *)
PastEnd(t) == org = "line" /\ SkipOf(estimate, t) > lens[1]

Skips(t) == ~ RoundRobin /\ SkipOf(estimate, t) > 0

(* t went on with its old turn at the next file. *)
Strays(t) == RoundRobin /\ NumFiles > 1 /\ seg[t]

InputInv ==
    /\ lens \in Input
    /\ org \in {"sequential", "line", "variable"}
    /\ estimate \in Nat /\ estimate <= 2 * lens[1]
    /\ org # "line" => estimate = lens[1]
    /\ missing \subseteq 1 .. NumFiles

FunInv ==
    /\ lock \in Threads \cup {Free}
    /\ pc \in [Threads -> {"round", "file", "skip", "read", "save", "ended"}]
    /\ seg \in [Threads -> BOOLEAN]
    /\ curr \in [Threads -> 1 .. NumFiles]
    /\ recCount \in [Threads -> Nat]
    /\ idx \in [Threads -> 1 .. NumFiles + 1]
    /\ eofIn \in [Threads -> BOOLEAN]
    /\ at \in [Threads -> Nat \ {0}]
    /\ atEnd \in [Threads -> BOOLEAN]
    /\ firstDone \in [Threads -> BOOLEAN]
    /\ turn \in [Threads -> 0 .. NThreads]
    /\ more \in [Threads -> BOOLEAN]
    /\ nRC \in [Threads -> {0, -1}]
    /\ mem \in [Threads -> SUBSET RecordsIn(lens)]
    /\ tmp \in [Threads -> SUBSET RecordsIn(lens)]

(* Where a thread is, and what that says of its job. *)
PlaceInv(t) ==
    /\ curr[t] <= idx[t]
    /\ ~ seg[t] => curr[t] = 1
    /\ pc[t] = "round" => IF seg[t] THEN idx[t] = curr[t] ELSE idx[t] = 1 /\ at[t] = 1
    /\ pc[t] \in {"skip", "read"} => idx[t] <= NumFiles
    /\ pc[t] = "file" /\ ~ eofIn[t] => idx[t] = curr[t]
    /\ pc[t] = "file" /\ eofIn[t] => idx[t] > 1
    /\ pc[t] = "save" => idx[t] = IF more[t] THEN curr[t] ELSE NumFiles + 1
    /\ more[t] => seg[t] /\ pc[t] \in {"save", "round"}
    /\ InFile(t) => at[t] <= lens[idx[t]] + 1
    /\ InFile(t) /\ ~ PastEnd(t) => ~ atEnd[t]
    /\ Skips(t) /\ ~ firstDone[t] =>
         /\ pc[t] \in {"round", "file", "skip", "ended"}
         /\ ~ seg[t] /\ idx[t] = 1 /\ ~ eofIn[t]
         /\ pc[t] # "round" => recCount[t] = 0
    /\ pc[t] = "skip" => Skips(t) /\ ~ firstDone[t] /\ at[t] = 1 /\ recCount[t] = 0
    /\ PastEnd(t) =>
         /\ pc[t] # "save" /\ ~ seg[t] /\ idx[t] = 1 /\ ~ eofIn[t]
         /\ mem[t] = {}
         /\ pc[t] \in {"round", "file"} => ~ firstDone[t]
         /\ pc[t] = "read" => atEnd[t] /\ at[t] > lens[1]

(* How a thread ends. *)
FoundInv(t) ==
    /\ \A f \in missing : f >= idx[t]
    /\ InFile(t) /\ (pc[t] = "round" => seg[t]) => idx[t] \notin missing
    /\ seg[t] => curr[t] \notin missing
    /\ pc[t] # "ended" => nRC[t] = 0
    /\ pc[t] = "ended" => \/ idx[t] = NumFiles + 1 /\ nRC[t] = 0
                          \/ idx[t] \in missing /\ lock = t /\ nRC[t] = -1
                          \/ PastEnd(t) /\ nRC[t] = -1

(* The count of a block: exact, until the block has ended. *)
CountInv(t) ==
    ~ RoundRobin /\ ~ PastEnd(t) =>
        /\ recCount[t] <= Position(lens, idx[t], Here(t))
        /\ \/ recCount[t] = Position(lens, idx[t], Here(t))
           \/ StopOf(estimate, t) > 0 /\ recCount[t] > StopOf(estimate, t)

(* The turn points to the next record of one's own. *)
TurnInv(t) ==
    /\ RoundRobin /\ (seg[t] \/ pc[t] = "read") => turn[t] # 0
    /\ RoundRobin /\ ~ Strays(t) /\ InFile(t) /\ (pc[t] = "round" => seg[t]) =>
          (turn[t] + at[t] - 1 - t) % NThreads = 0

(* A thread keeps those of the records it passed that are its own. *)
KeptInv(t) ==
    /\ ~ seg[t] => tmp[t] = {}
    /\ pc[t] = "round" => mem[t] \subseteq tmp[t]
    /\ pc[t] = "ended" /\ nRC[t] = 0 /\ seg[t] => mem[t] \subseteq tmp[t]
    /\ ~ Strays(t) =>
         /\ \A r \in Kept(t) : Own(lens, org, estimate, t, r)
         /\ ~ PastEnd(t) => \A r \in RecordsIn(lens) :
               Passed(t, r) /\ Own(lens, org, estimate, t, r) => r \in Kept(t)

ThreadInv(t) == PlaceInv(t) /\ FoundInv(t) /\ CountInv(t) /\ TurnInv(t) /\ KeptInv(t)

MainInv ==
    /\ main \in {"join", "merge", "returned"}
    /\ main # "join" => \A t \in Threads : pc[t] = "ended"
    /\ out = IF main # "returned" THEN {}
             ELSE IF seg[1] THEN UNION {tmp[t] : t \in Threads}
                            ELSE UNION {mem[t] : t \in Threads}

SystemInv == InputInv /\ FunInv /\ MainInv /\ \A t \in Threads : ThreadInv(t)

-----------------------------------------------------------------------------
(* Each step of a thread. *)

(* What a step of t leaves alone. *)
OthersKept(t) ==
    /\ UNCHANGED input
    /\ \A u \in Threads \ {t} :
         /\ lock = u => lock' = u
         /\ pc'[u] = pc[u] /\ seg'[u] = seg[u] /\ curr'[u] = curr[u]
         /\ recCount'[u] = recCount[u] /\ idx'[u] = idx[u] /\ eofIn'[u] = eofIn[u]
         /\ at'[u] = at[u] /\ atEnd'[u] = atEnd[u] /\ firstDone'[u] = firstDone[u]
         /\ turn'[u] = turn[u] /\ more'[u] = more[u] /\ nRC'[u] = nRC[u]
         /\ mem'[u] = mem[u] /\ tmp'[u] = tmp[u]

(* The other threads' invariant holds on. *)
LEMMA OthersStep ==
    ASSUME NEW t \in Threads, NEW u \in Threads \ {t}, OthersKept(t), ThreadInv(u)
    PROVE  ThreadInv(u)'
<1>1. /\ lens' = lens /\ org' = org /\ estimate' = estimate /\ missing' = missing
      /\ lock = u => lock' = u
      /\ pc'[u] = pc[u] /\ seg'[u] = seg[u] /\ curr'[u] = curr[u]
      /\ recCount'[u] = recCount[u] /\ idx'[u] = idx[u] /\ eofIn'[u] = eofIn[u]
      /\ at'[u] = at[u] /\ atEnd'[u] = atEnd[u] /\ firstDone'[u] = firstDone[u]
      /\ turn'[u] = turn[u] /\ more'[u] = more[u] /\ nRC'[u] = nRC[u]
      /\ mem'[u] = mem[u] /\ tmp'[u] = tmp[u]
  BY DEF OthersKept, input
<1>2. /\ InFile(u)' = InFile(u) /\ Here(u)' = Here(u)
      /\ PastEnd(u)' = PastEnd(u) /\ Skips(u)' = Skips(u) /\ Strays(u)' = Strays(u)
      /\ Kept(u)' = Kept(u)
  BY <1>1 DEF InFile, Here, GoesOn, PastEnd, Skips, Strays, RoundRobin, Kept
<1>3. PlaceInv(u)'
  BY <1>1, <1>2 DEF ThreadInv, PlaceInv
<1>4. FoundInv(u)'
  BY <1>1, <1>2 DEF ThreadInv, FoundInv
<1>5. CountInv(u)'
  BY <1>1, <1>2 DEF ThreadInv, CountInv, RoundRobin
<1>6. TurnInv(u)'
  BY <1>1, <1>2 DEF ThreadInv, TurnInv, RoundRobin
<1>7. KeptInv(u)'
  BY <1>1, <1>2 DEF ThreadInv, KeptInv, Passed
<1> QED BY <1>3, <1>4, <1>5, <1>6, <1>7 DEF ThreadInv

(* The start of a round of loading. *)
LEMMA StartRoundStep ==
    ASSUME InputInv, FunInv, NEW t \in Threads, ThreadInv(t), StartRound(t)
    PROVE  FunInv' /\ OthersKept(t) /\ ThreadInv(t)'
<1>1. FunInv'
  <2>1. recCount' \in [Threads -> Nat]
    BY DEF FunInv, StartRound
  <2>2. idx' \in [Threads -> 1 .. NumFiles + 1]
    <3>1. curr[t] \in 1 .. NumFiles + 1
      BY ThreadAssumption DEF FunInv
    <3> QED BY <3>1 DEF FunInv, StartRound
  <2> QED BY <2>1, <2>2 DEF FunInv, StartRound, Go, input
<1>2. OthersKept(t)
  BY DEF FunInv, StartRound, Go, input, place, OthersKept
<1>3. /\ lens' = lens /\ org' = org /\ estimate' = estimate /\ missing' = missing
      /\ lock' = lock /\ pc[t] = "round" /\ pc'[t] = "file"
      /\ seg'[t] = seg[t] /\ curr'[t] = curr[t]
      /\ recCount'[t] = IF seg[t] THEN recCount[t] ELSE 0
      /\ idx'[t] = curr[t] /\ eofIn'[t] = FALSE
      /\ at'[t] = at[t] /\ atEnd'[t] = atEnd[t] /\ firstDone'[t] = firstDone[t]
      /\ turn'[t] = turn[t] /\ more'[t] = FALSE /\ nRC'[t] = nRC[t]
      /\ mem'[t] = {} /\ tmp'[t] = tmp[t]
  BY DEF FunInv, StartRound, Go, input, place
<1>4. /\ curr[t] \in 1 .. NumFiles /\ idx'[t] = idx[t] /\ at[t] \in Nat \ {0}
      /\ seg[t] \in BOOLEAN /\ firstDone[t] \in BOOLEAN
  BY <1>3 DEF FunInv, ThreadInv, PlaceInv
<1>5. /\ InFile(t) /\ Here(t) = at[t] - 1
      /\ InFile(t)' = seg[t] /\ Here(t)' = Here(t)
      /\ PastEnd(t)' = PastEnd(t) /\ Skips(t)' = Skips(t) /\ Strays(t)' = Strays(t)
      /\ Kept(t)' = Kept(t)
  <2>1. InFile(t) /\ Here(t) = at[t] - 1 /\ InFile(t)' = seg[t]
    BY <1>3, <1>4 DEF InFile, Here, GoesOn
  <2>2. ~ seg[t] => at[t] = 1
    BY <1>3 DEF ThreadInv, PlaceInv
  <2>3. Here(t)' = Here(t)
    BY <2>1, <2>2, <1>3 DEF Here
  <2>4. Kept(t)' = Kept(t)
    BY <1>3 DEF Kept, ThreadInv, KeptInv
  <2> QED BY <1>3, <2>1, <2>3, <2>4 DEF PastEnd, Skips, Strays, RoundRobin
<1>6. PlaceInv(t)'
  BY <1>3, <1>4, <1>5 DEF ThreadInv, PlaceInv
<1>7. FoundInv(t)'
  BY <1>3, <1>4, <1>5 DEF ThreadInv, FoundInv
<1>8. CountInv(t)'
  <2>1. ~ seg[t] => Position(lens, idx[t], Here(t)) = 0
    <3>1. ~ seg[t] => idx[t] = 1 /\ Here(t) = 0
      BY <1>3, <1>5 DEF ThreadInv, PlaceInv
    <3>2. Position(lens, 1, 0) = 0
      BY PositionFirst, ThreadAssumption DEF InputInv, Input
    <3> QED BY <3>1, <3>2
  <2> QED BY <1>3, <1>4, <1>5, <2>1 DEF ThreadInv, CountInv, RoundRobin
<1>9. TurnInv(t)'
  BY <1>3, <1>4, <1>5 DEF ThreadInv, TurnInv, RoundRobin
<1>10. KeptInv(t)'
  BY <1>3, <1>4, <1>5 DEF ThreadInv, KeptInv, Passed
<1> QED BY <1>1, <1>2, <1>6, <1>7, <1>8, <1>9, <1>10 DEF ThreadInv

(* A round goes on with the file it stopped in. *)
LEMMA ResumeFileStep ==
    ASSUME InputInv, FunInv, NEW t \in Threads, ThreadInv(t), ResumeFile(t)
    PROVE  FunInv' /\ OthersKept(t) /\ ThreadInv(t)'
<1>0. t \in 0 .. NThreads
  BY ThreadAssumption DEF Threads
<1>1. FunInv'
  BY <1>0 DEF FunInv, ResumeFile, EnterFile, Go, input
<1>2. OthersKept(t)
  BY DEF FunInv, ResumeFile, EnterFile, Go, input, OthersKept
<1>3. /\ lens' = lens /\ org' = org /\ estimate' = estimate /\ missing' = missing
      /\ lock' = lock /\ pc[t] = "file" /\ pc'[t] \in {"skip", "read"} /\ seg[t] /\ ~ eofIn[t]
      /\ pc'[t] = "skip" => Skips(t) /\ ~ firstDone[t]
      /\ seg'[t] = seg[t] /\ curr'[t] = curr[t] /\ recCount'[t] = recCount[t]
      /\ idx[t] <= NumFiles /\ idx'[t] = idx[t] /\ eofIn'[t] = eofIn[t]
      /\ at'[t] = at[t] /\ atEnd'[t] = atEnd[t] /\ firstDone'[t] = firstDone[t]
      /\ turn'[t] = turn[t] /\ more'[t] = more[t] /\ nRC'[t] = nRC[t]
      /\ mem'[t] = mem[t] /\ tmp'[t] = tmp[t]
  BY DEF FunInv, ResumeFile, EnterFile, GoesOn, Go, input, Skips, MTSkipRec, SkipOf, Block, BlockOf
<1>4. pc'[t] = "read" /\ ~ PastEnd(t)
  BY <1>3 DEF ThreadInv, PlaceInv
<1>5. /\ InFile(t) /\ InFile(t)' /\ Here(t)' = Here(t)
      /\ PastEnd(t)' = PastEnd(t) /\ Skips(t)' = Skips(t) /\ Strays(t)' = Strays(t)
      /\ Kept(t)' = Kept(t)
  BY <1>3, <1>4 DEF InFile, Here, GoesOn, PastEnd, Skips, Strays, RoundRobin, Kept
<1>6. PlaceInv(t)'
  BY <1>3, <1>4, <1>5 DEF ThreadInv, PlaceInv
<1>7. FoundInv(t)'
  BY <1>3, <1>4, <1>5 DEF ThreadInv, FoundInv
<1>8. CountInv(t)'
  BY <1>3, <1>4, <1>5 DEF ThreadInv, CountInv, RoundRobin
<1>9. TurnInv(t)'
  BY <1>3, <1>4, <1>5 DEF ThreadInv, TurnInv, RoundRobin
<1>10. KeptInv(t)'
  BY <1>3, <1>4, <1>5 DEF ThreadInv, KeptInv, Passed
<1> QED BY <1>1, <1>2, <1>6, <1>7, <1>8, <1>9, <1>10 DEF ThreadInv

(* A file is opened. *)
LEMMA OpenFileStep ==
    ASSUME InputInv, FunInv, NEW t \in Threads, ThreadInv(t), OpenFile(t)
    PROVE  FunInv' /\ OthersKept(t) /\ ThreadInv(t)'
<1>0. t \in 0 .. NThreads /\ t # 0
  BY ThreadAssumption DEF Threads
<1>1. FunInv'
  BY <1>0 DEF FunInv, OpenFile, EnterFile, Go, input
<1>2. OthersKept(t)
  BY DEF FunInv, OpenFile, EnterFile, Go, input, OthersKept
<1>3. /\ lens' = lens /\ org' = org /\ estimate' = estimate /\ missing' = missing
      /\ lock' = lock /\ pc[t] = "file" /\ ~ GoesOn(t)
      /\ pc'[t] = IF Skips(t) /\ ~ firstDone[t] THEN "skip" ELSE "read"
      /\ seg'[t] = seg[t] /\ curr'[t] = curr[t] /\ recCount'[t] = recCount[t]
      /\ idx[t] <= NumFiles /\ idx[t] \notin missing /\ idx'[t] = idx[t]
      /\ eofIn'[t] = FALSE /\ at'[t] = 1 /\ atEnd'[t] = FALSE /\ firstDone'[t] = firstDone[t]
      /\ turn'[t] = IF RoundRobin /\ ~ seg[t] THEN t ELSE turn[t]
      /\ more'[t] = more[t] /\ nRC'[t] = nRC[t] /\ mem'[t] = mem[t] /\ tmp'[t] = tmp[t]
  BY DEF FunInv, OpenFile, EnterFile, Go, input, Skips, MTSkipRec, SkipOf, Block, BlockOf
<1>4. /\ ~ more[t] /\ idx[t] \in 1 .. NumFiles /\ lens[idx[t]] \in Nat
      /\ seg[t] \in BOOLEAN /\ firstDone[t] \in BOOLEAN /\ recCount[t] \in Nat
  BY <1>3, ThreadAssumption DEF FunInv, InputInv, Input, ThreadInv, PlaceInv
<1>5. /\ ~ InFile(t) /\ Here(t) = 0 /\ InFile(t)' /\ Here(t)' = 0
      /\ PastEnd(t)' = PastEnd(t) /\ Skips(t)' = Skips(t) /\ Strays(t)' = Strays(t)
      /\ Kept(t)' = Kept(t)
  BY <1>3, <1>4 DEF InFile, Here, GoesOn, PastEnd, Skips, Strays, RoundRobin, Kept
<1>6. pc'[t] = "skip" => recCount[t] = 0
  BY <1>3 DEF ThreadInv, PlaceInv
<1>7. PlaceInv(t)'
  <2>1. PastEnd(t) => Skips(t)
    <3>1. SkipOf(estimate, t) \in Nat /\ lens[1] \in Nat
      BY SharesAre, ThreadAssumption DEF InputInv, Input
    <3> QED BY <3>1 DEF PastEnd, Skips, RoundRobin
  <2>2. PastEnd(t) => ~ firstDone[t]
    BY <1>3 DEF ThreadInv, PlaceInv
  <2> QED BY <1>3, <1>4, <1>5, <1>6, <2>1, <2>2 DEF ThreadInv, PlaceInv
<1>8. FoundInv(t)'
  BY <1>3, <1>4, <1>5 DEF ThreadInv, FoundInv
<1>9. CountInv(t)'
  BY <1>3, <1>4, <1>5 DEF ThreadInv, CountInv, RoundRobin
<1>10. TurnInv(t)'
  <2>1. RoundRobin /\ ~ Strays(t) => ~ seg[t]
    <3>1. seg[t] => idx[t] > 1 \/ ~ eofIn[t]
      BY <1>3 DEF ThreadInv, PlaceInv
    <3>2. seg[t] => eofIn[t]
      BY <1>3 DEF GoesOn, FunInv
    <3> QED BY <3>1, <3>2, <1>4, ThreadAssumption DEF Strays
  <2>2. (t + 1 - 1 - t) % NThreads = 0
    <3>1. t + 1 - 1 - t = 0 /\ 0 = NThreads * 0
      BY ThreadAssumption DEF Threads
    <3> QED BY <3>1, ThreadAssumption
  <2> QED BY <1>0, <1>3, <1>4, <1>5, <2>1, <2>2 DEF ThreadInv, TurnInv, RoundRobin
<1>11. KeptInv(t)'
  BY <1>3, <1>4, <1>5 DEF ThreadInv, KeptInv, Passed
<1> QED BY <1>1, <1>2, <1>7, <1>8, <1>9, <1>10, <1>11 DEF ThreadInv

(* A file is missing: t ends and keeps the mutex. *)
LEMMA OpenFailsStep ==
    ASSUME InputInv, FunInv, NEW t \in Threads, ThreadInv(t), OpenFails(t)
    PROVE  FunInv' /\ OthersKept(t) /\ ThreadInv(t)'
<1>0. \A u \in Threads : u # Free
  BY ThreadAssumption DEF Threads, Free
<1>1. FunInv'
  BY DEF FunInv, OpenFails, Go, input, place
<1>2. OthersKept(t)
  BY <1>0 DEF FunInv, OpenFails, Go, input, place, OthersKept
<1>3. /\ lens' = lens /\ org' = org /\ estimate' = estimate /\ missing' = missing
      /\ lock' = t /\ pc[t] = "file" /\ ~ GoesOn(t) /\ pc'[t] = "ended"
      /\ seg'[t] = seg[t] /\ curr'[t] = curr[t] /\ recCount'[t] = recCount[t]
      /\ idx[t] <= NumFiles /\ idx[t] \in missing /\ idx'[t] = idx[t]
      /\ eofIn'[t] = eofIn[t] /\ at'[t] = at[t] /\ atEnd'[t] = atEnd[t]
      /\ firstDone'[t] = firstDone[t] /\ turn'[t] = turn[t] /\ more'[t] = more[t]
      /\ nRC'[t] = -1 /\ mem'[t] = mem[t] /\ tmp'[t] = tmp[t]
  BY DEF FunInv, OpenFails, Go, input, place
<1>4. ~ more[t]
  BY <1>3 DEF ThreadInv, PlaceInv
<1>5. /\ ~ InFile(t) /\ Here(t) = 0 /\ ~ InFile(t)' /\ Here(t)' = 0
      /\ PastEnd(t)' = PastEnd(t) /\ Skips(t)' = Skips(t) /\ Strays(t)' = Strays(t)
      /\ Kept(t)' = Kept(t)
  BY <1>3, <1>4 DEF InFile, Here, GoesOn, PastEnd, Skips, Strays, RoundRobin, Kept
<1>6. PlaceInv(t)'
  BY <1>3, <1>4, <1>5 DEF ThreadInv, PlaceInv
<1>7. FoundInv(t)'
  BY <1>3, <1>4, <1>5 DEF ThreadInv, FoundInv
<1>8. CountInv(t)'
  BY <1>3, <1>4, <1>5 DEF ThreadInv, CountInv, RoundRobin
<1>9. TurnInv(t)'
  BY <1>3, <1>4, <1>5 DEF ThreadInv, TurnInv, RoundRobin
<1>10. KeptInv(t)'
  BY <1>3, <1>4, <1>5 DEF ThreadInv, KeptInv, Passed
<1> QED BY <1>1, <1>2, <1>6, <1>7, <1>8, <1>9, <1>10 DEF ThreadInv

(* The records before the share are skipped, in whole slots, or t finds    *)
(* the end of the file.                                                    *)
LEMMA SkipRecordsStep ==
    ASSUME InputInv, FunInv, NEW t \in Threads, ThreadInv(t), SkipRecords(t)
    PROVE  FunInv' /\ OthersKept(t) /\ ThreadInv(t)'
<1> DEFINE s == SkipOf(estimate, t)
           skip == IF org = "line" THEN s ELSE (s \div Slot) * Slot
           past == at[t] + skip > lens[idx[t]] + 1
<1>0. /\ pc[t] = "skip" /\ idx[t] = 1 /\ at[t] = 1 /\ recCount[t] = 0 /\ Skips(t)
      /\ ~ firstDone[t] /\ ~ seg[t] /\ ~ eofIn[t] /\ curr[t] = 1 /\ ~ more[t]
      /\ lens[1] \in Nat /\ 1 \in 1 .. NumFiles /\ org # "variable"
  BY ThreadAssumption DEF SkipRecords, ThreadInv, PlaceInv, InputInv, Input, Skips, RoundRobin
<1>1. /\ skip \in Nat /\ skip <= s /\ s \in Nat
      /\ ~ PastEnd(t) => skip <= lens[1]
      /\ PastEnd(t) => skip > lens[1]
      /\ past = PastEnd(t)
  <2>1. s \in Nat /\ (s \div Slot) * Slot \in Nat /\ (s \div Slot) * Slot <= s
           /\ (s \div Slot) * Slot <= estimate
    BY SlotsInFile, SharesAre DEF InputInv
  <2> HIDE DEF s
  <2>2. PastEnd(t) <=> org = "line" /\ s > lens[1]
    BY DEF PastEnd, s
  <2>3. org # "line" => skip <= lens[1]
    BY <2>1 DEF InputInv
  <2>4. skip \in Nat /\ skip <= s
    BY <2>1
  <2>5. past <=> skip > lens[1]
    BY <1>0, <2>4
  <2>6. past \in BOOLEAN /\ PastEnd(t) \in BOOLEAN
    BY DEF PastEnd
  <2> QED BY <1>0, <2>1, <2>2, <2>3, <2>4, <2>5, <2>6
<1>2. skip = IF org = "line" THEN MTSkipRec(t) ELSE (MTSkipRec(t) \div Slot) * Slot
  BY DEF MTSkipRec, SkipOf, Block, BlockOf
<1> HIDE DEF s, skip
<1>3. /\ lens' = lens /\ org' = org /\ estimate' = estimate /\ missing' = missing
      /\ lock' = lock /\ pc'[t] = "read"
      /\ seg'[t] = seg[t] /\ curr'[t] = curr[t] /\ recCount'[t] = skip /\ idx'[t] = idx[t]
      /\ eofIn'[t] = eofIn[t]
      /\ at'[t] = IF past THEN lens[1] + 1 ELSE skip + 1
      /\ atEnd'[t] = past
      /\ firstDone'[t] = TRUE /\ turn'[t] = turn[t] /\ more'[t] = more[t]
      /\ nRC'[t] = nRC[t] /\ mem'[t] = mem[t] /\ tmp'[t] = tmp[t]
  BY <1>0, <1>1, <1>2 DEF FunInv, SkipRecords, Go, input
<1>4. FunInv'
  <2>1. recCount' \in [Threads -> Nat] /\ at' \in [Threads -> Nat \ {0}]
           /\ atEnd' \in [Threads -> BOOLEAN]
    BY <1>0, <1>1, <1>2 DEF FunInv, SkipRecords
  <2> QED BY <2>1 DEF FunInv, SkipRecords, Go, input
<1>5. OthersKept(t)
  BY DEF FunInv, SkipRecords, Go, input, OthersKept
<1>6. /\ InFile(t) /\ Here(t) = 0 /\ InFile(t)' 
      /\ Here(t)' = IF past THEN lens[1] ELSE skip
      /\ PastEnd(t)' = PastEnd(t) /\ Skips(t)' = Skips(t) /\ Strays(t)' = Strays(t)
      /\ Kept(t)' = Kept(t)
  BY <1>0, <1>1, <1>3 DEF InFile, Here, GoesOn, PastEnd, Skips, Strays, RoundRobin, Kept
<1>7. PlaceInv(t)'
  BY <1>0, <1>1, <1>3, <1>6 DEF ThreadInv, PlaceInv
<1>8. FoundInv(t)'
  BY <1>0, <1>3, <1>6 DEF ThreadInv, FoundInv
<1>9. CountInv(t)'
  <2>1. ~ PastEnd(t) => Position(lens, 1, skip) = skip
    BY <1>1, PositionFirst DEF InputInv
  <2> QED BY <1>0, <1>1, <1>3, <1>6, <2>1 DEF CountInv, RoundRobin
<1>10. TurnInv(t)'
  BY <1>0, <1>3, <1>6 DEF TurnInv, RoundRobin
<1>11. KeptInv(t)'
  <2>1. ASSUME ~ PastEnd(t), NEW r \in RecordsIn(lens), r[1] < 1 \/ (r[1] = 1 /\ r[2] <= skip),
               Own(lens, org, estimate, t, r)
        PROVE  FALSE
    <3>1. r[1] = 1 /\ r[2] \in 1 .. lens[1]
      BY <2>1, RecordsAre DEF InputInv
    <3>2. Position(lens, r[1], r[2]) = r[2] /\ r[2] <= s
      BY <3>1, <2>1, <1>0, <1>1, PositionFirst DEF InputInv
    <3>3. Position(lens, r[1], r[2]) > s
      BY <2>1, <1>0 DEF Own, InBlock, s
    <3> QED BY <3>1, <3>2, <3>3, <1>1, <1>0
  <2>2. ~ PastEnd(t) => \A r \in RecordsIn(lens) : Passed(t, r)' => r[1] < 1 \/ (r[1] = 1 /\ r[2] <= skip)
    BY <1>0, <1>1, <1>3, <1>6 DEF Passed
  <2> QED BY <1>0, <1>3, <1>6, <2>1, <2>2 DEF ThreadInv, KeptInv
<1> QED BY <1>4, <1>5, <1>7, <1>8, <1>9, <1>10, <1>11 DEF ThreadInv

(* What t knows of the record it reads. *)
LEMMA AboutNextRecord ==
    ASSUME InputInv, FunInv, NEW t \in Threads, ThreadInv(t), pc[t] = "read",
           at[t] <= lens[idx[t]]
    PROVE  /\ ~ PastEnd(t)
           /\ idx[t] \in 1 .. NumFiles /\ lens[idx[t]] \in Nat
           /\ <<idx[t], at[t]>> \in RecordsIn(lens)
           /\ InFile(t) /\ Here(t) = at[t] - 1
           /\ Position(lens, idx[t], at[t]) = Position(lens, idx[t], at[t] - 1) + 1
           /\ Position(lens, idx[t], at[t] - 1) \in Nat
           /\ PastBlock(t) => StopOf(estimate, t) \in Nat /\ StopOf(estimate, t) > 0
                                 /\ Position(lens, idx[t], at[t]) > StopOf(estimate, t)
                                 /\ recCount[t] + 1 > StopOf(estimate, t)
           /\ ~ RoundRobin => recCount[t] + 1 <= Position(lens, idx[t], at[t])
           /\ ~ RoundRobin /\ ~ PastBlock(t) =>
                 recCount[t] + 1 = Position(lens, idx[t], at[t])
           /\ ~ Strays(t) =>
                 (Own(lens, org, estimate, t, <<idx[t], at[t]>>) <=> MyTurn(t) \/ MyBlock(t))
<1>1. /\ idx[t] \in 1 .. NumFiles /\ at[t] \in Nat \ {0} /\ recCount[t] \in Nat
      /\ lens[idx[t]] \in Nat /\ estimate \in Nat /\ lens \in Input
  <2>1. idx[t] \in 1 .. NumFiles + 1 /\ idx[t] <= NumFiles
    BY DEF FunInv, ThreadInv, PlaceInv
  <2>2. idx[t] \in 1 .. NumFiles
    BY <2>1, ThreadAssumption
  <2> QED BY <2>2 DEF FunInv, InputInv, Input
<1>2. ~ PastEnd(t)
  BY <1>1 DEF ThreadInv, PlaceInv
<1>3. InFile(t) /\ Here(t) = at[t] - 1
  BY DEF InFile, Here
<1>4. at[t] \in 1 .. lens[idx[t]] /\ at[t] - 1 \in Int
  BY <1>1
<1> DEFINE f == idx[t]
           i == at[t]
           r == <<f, i>>
           before == Position(lens, f, i - 1)
           n == Position(lens, f, i)
<1>5. r \in RecordsIn(lens)
  <2>1. r[1] = f /\ r[2] = i /\ r = <<r[1], r[2]>>
    OBVIOUS
  <2> HIDE DEF r
  <2> QED BY <1>1, <1>4, <2>1, RecordsAre
<1>6. n = before + 1 /\ before \in Nat /\ n \in Nat
  <2>1. f \in 1 .. NumFiles /\ i \in 1 .. lens[f]
    BY <1>1, <1>4
  <2> HIDE DEF f, i
  <2> QED BY <1>1, <2>1, PositionNext, UpToFinite
<1>7. MTSkipRec(t) = SkipOf(estimate, t) /\ MTStopAft(t) = StopOf(estimate, t)
  BY DEF MTSkipRec, MTStopAft, SkipOf, StopOf, Block, BlockOf
<1>8. /\ SkipOf(estimate, t) \in Nat /\ StopOf(estimate, t) \in Nat
      /\ StopOf(estimate, t) > 0 => SkipOf(estimate, t) < StopOf(estimate, t)
  BY <1>1, SharesAre
<1>9. ~ RoundRobin =>
          /\ recCount[t] <= before
          /\ recCount[t] = before \/ (StopOf(estimate, t) > 0 /\ recCount[t] > StopOf(estimate, t))
  BY <1>2, <1>3 DEF ThreadInv, CountInv
<1>10. PastBlock(t) <=> /\ ~ RoundRobin
                        /\ recCount[t] + 1 > SkipOf(estimate, t)
                        /\ StopOf(estimate, t) > 0 /\ recCount[t] + 1 > StopOf(estimate, t)
  BY <1>7 DEF PastBlock
<1>11. MyBlock(t) <=> /\ ~ RoundRobin
                      /\ recCount[t] + 1 > SkipOf(estimate, t)
                      /\ StopOf(estimate, t) > 0 => recCount[t] + 1 <= StopOf(estimate, t)
  BY <1>7 DEF MyBlock
<1>12. ~ RoundRobin => (Own(lens, org, estimate, t, r) <=>
          /\ n > SkipOf(estimate, t)
          /\ StopOf(estimate, t) > 0 => n <= StopOf(estimate, t))
  BY DEF Own, InBlock, RoundRobin
<1>13. RoundRobin => (Own(lens, org, estimate, t, r) <=> InTurn(t, i))
  BY DEF Own, RoundRobin
<1>14. RoundRobin /\ ~ Strays(t) => (InTurn(t, i) <=> MyTurn(t))
  <2> SUFFICES ASSUME RoundRobin, ~ Strays(t)
               PROVE  InTurn(t, i) <=> MyTurn(t)
    OBVIOUS
  <2>1. turn[t] \in 1 .. NThreads /\ (turn[t] + i - 1 - t) % NThreads = 0
    <3>1. turn[t] \in 0 .. NThreads
      BY DEF FunInv
    <3> QED BY <3>1, <1>3, ThreadAssumption DEF ThreadInv, TurnInv
  <2>2. MyTurn(t) <=> turn[t] = 1
    BY <2>1, ThreadAssumption DEF MyTurn
  <2>3. (turn[t] = 1 => InTurn(t, i)) /\ (turn[t] # 1 => ~ InTurn(t, i))
    <3> HIDE DEF i
    <3>1. i \in Nat \ {0}
      BY <1>1 DEF i
    <3> QED BY <2>1, <3>1, TurnsComeRound
  <2> QED BY <2>2, <2>3
<1>15. ~ RoundRobin /\ ~ PastBlock(t) => recCount[t] + 1 = n
  <2> HIDE DEF n, before
  <2> QED BY <1>1, <1>6, <1>8, <1>9, <1>10
<1>16. ~ RoundRobin => recCount[t] + 1 <= n
  <2> HIDE DEF n, before
  <2> QED BY <1>1, <1>6, <1>9
<1>17. PastBlock(t) => n > StopOf(estimate, t)
  <2> HIDE DEF n, before
  <2> QED BY <1>1, <1>6, <1>8, <1>10, <1>16
<1>18. ~ Strays(t) => (Own(lens, org, estimate, t, r) <=> MyTurn(t) \/ MyBlock(t))
  <2>1. CASE RoundRobin
    BY <2>1, <1>11, <1>13, <1>14
  <2>2. CASE ~ RoundRobin
    <3>1. ~ MyTurn(t)
      BY <2>2 DEF MyTurn
    <3>2. Own(lens, org, estimate, t, r) <=> MyBlock(t)
      <4> HIDE DEF n, before, r
      <4>1. CASE PastBlock(t)
        BY <4>1, <2>2, <1>1, <1>6, <1>8, <1>10, <1>11, <1>12, <1>17
      <4>2. CASE ~ PastBlock(t)
        BY <4>2, <2>2, <1>1, <1>6, <1>8, <1>11, <1>12, <1>15
      <4> QED BY <4>1, <4>2
    <3> QED BY <3>1, <3>2
  <2> QED BY <2>1, <2>2
<1> QED BY <1>1, <1>2, <1>3, <1>5, <1>6, <1>8, <1>10, <1>15, <1>16, <1>17, <1>18

(* The types that every read keeps. *)
LEMMA ReadTypes ==
    ASSUME InputInv, FunInv, NEW t \in Threads, ThreadInv(t), ReadRecord(t)
    PROVE  FunInv' /\ OthersKept(t)
<1>1. /\ pc[t] = "read" /\ at[t] <= lens[idx[t]] /\ lens' = lens
  BY DEF ReadRecord, input
<1>2. idx[t] \in 1 .. NumFiles /\ <<idx[t], at[t]>> \in RecordsIn(lens) /\ NumFiles \in Nat
  BY <1>1, AboutNextRecord, ThreadAssumption
<1>3. at' \in [Threads -> Nat \ {0}] /\ recCount' \in [Threads -> Nat]
  BY DEF FunInv, ReadRecord
<1>4. turn' \in [Threads -> 0 .. NThreads]
  <2>1. turn' = [turn EXCEPT ![t] =
                   IF ~ RoundRobin THEN @ ELSE IF MyTurn(t) THEN NThreads ELSE @ - 1]
    BY DEF ReadRecord
  <2>2. RoundRobin => turn[t] \in 1 .. NThreads
    <3>1. turn[t] \in 0 .. NThreads
      BY DEF FunInv
    <3> QED BY <1>1, <3>1, ThreadAssumption DEF ThreadInv, TurnInv
  <2>3. (IF ~ RoundRobin THEN turn[t] ELSE IF MyTurn(t) THEN NThreads ELSE turn[t] - 1)
            \in 0 .. NThreads
    BY <2>2, ThreadAssumption DEF FunInv
  <2> QED BY <2>1, <2>3 DEF FunInv
<1>5. mem' \in [Threads -> SUBSET RecordsIn(lens)]
  BY <1>2 DEF FunInv, ReadRecord
<1>6. /\ pc' \in [Threads -> {"round", "file", "skip", "read", "save", "ended"}]
      /\ seg' \in [Threads -> BOOLEAN] /\ more' \in [Threads -> BOOLEAN]
      /\ eofIn' \in [Threads -> BOOLEAN]
  BY DEF FunInv, ReadRecord, CloseFile, Go
<1>7. curr' \in [Threads -> 1 .. NumFiles]
  BY <1>2 DEF FunInv, ReadRecord
<1>8. idx' \in [Threads -> 1 .. NumFiles + 1]
  <2>1. idx[t] + 1 \in 1 .. NumFiles + 1
    BY <1>2
  <2> QED BY <2>1 DEF FunInv, ReadRecord, CloseFile
<1>9. FunInv'
  BY <1>1, <1>3, <1>4, <1>5, <1>6, <1>7, <1>8 DEF FunInv, ReadRecord
<1>10. OthersKept(t)
  BY DEF FunInv, ReadRecord, CloseFile, Go, input, OthersKept
<1> QED BY <1>9, <1>10

(* A record of t's own is kept, and memory may be full then. *)
LEMMA ReadKeeps ==
    ASSUME InputInv, FunInv, NEW t \in Threads, ThreadInv(t), ReadRecord(t),
           MyTurn(t) \/ MyBlock(t)
    PROVE  ThreadInv(t)'
<1> DEFINE r == <<idx[t], at[t]>>
<1>1. /\ pc[t] = "read" /\ at[t] <= lens[idx[t]]
      /\ lens' = lens /\ org' = org /\ estimate' = estimate /\ missing' = missing
      /\ lock' = lock
      /\ recCount'[t] = recCount[t] + 1 /\ idx'[t] = idx[t] /\ eofIn'[t] = eofIn[t]
      /\ at'[t] = at[t] + 1 /\ atEnd'[t] = atEnd[t] /\ firstDone'[t] = firstDone[t]
      /\ turn'[t] = IF ~ RoundRobin THEN turn[t] ELSE IF MyTurn(t) THEN NThreads ELSE turn[t] - 1
      /\ nRC'[t] = nRC[t] /\ mem'[t] = mem[t] \cup {r} /\ tmp'[t] = tmp[t]
      /\ \/ pc'[t] = "read" /\ seg'[t] = seg[t] /\ curr'[t] = curr[t] /\ more'[t] = more[t]
         \/ pc'[t] = "save" /\ seg'[t] = TRUE /\ curr'[t] = idx[t] /\ more'[t] = TRUE
  BY DEF FunInv, ReadRecord, Go, input
<1>2. /\ ~ PastEnd(t) /\ ~ PastBlock(t) /\ r \in RecordsIn(lens)
      /\ idx[t] \in 1 .. NumFiles /\ lens[idx[t]] \in Nat
      /\ InFile(t) /\ Here(t) = at[t] - 1
      /\ ~ RoundRobin => recCount[t] + 1 = Position(lens, idx[t], at[t])
      /\ Position(lens, idx[t], at[t]) \in Nat
      /\ ~ Strays(t) => Own(lens, org, estimate, t, r)
  <2>1. /\ ~ PastEnd(t) /\ r \in RecordsIn(lens)
        /\ idx[t] \in 1 .. NumFiles /\ lens[idx[t]] \in Nat
        /\ InFile(t) /\ Here(t) = at[t] - 1
        /\ ~ RoundRobin /\ ~ PastBlock(t) => recCount[t] + 1 = Position(lens, idx[t], at[t])
        /\ ~ Strays(t) => Own(lens, org, estimate, t, r)
    BY <1>1, AboutNextRecord
  <2>2. ~ PastBlock(t)
    <3>1. recCount[t] \in Nat
      BY DEF FunInv
    <3>2. MTStopAft(t) \in Nat
      <4>1. StopOf(estimate, t) \in Nat
        BY SharesAre DEF InputInv
      <4> QED BY <4>1 DEF MTStopAft, StopOf, Block, BlockOf
    <3> QED BY <3>1, <3>2 DEF PastBlock, MyTurn, MyBlock
  <2>3. Position(lens, idx[t], at[t]) \in Nat
    BY UpToFinite DEF InputInv
  <2> QED BY <2>1, <2>2, <2>3
<1>3. at[t] \in Nat \ {0} /\ seg[t] \in BOOLEAN /\ firstDone[t] \in BOOLEAN /\ ~ more[t]
  BY <1>1 DEF FunInv, ThreadInv, PlaceInv
<1>4. /\ InFile(t)' /\ Here(t)' = at[t]
      /\ PastEnd(t)' = PastEnd(t) /\ Skips(t)' = Skips(t)
      /\ ~ Strays(t)' => ~ Strays(t)
      /\ Kept(t)' = Kept(t) \cup {r}
      /\ seg[t] => seg'[t]
      /\ (pc' [t] # "read" /\ pc'[t] = "save" => more'[t])
  <2>1. InFile(t)'
    BY <1>1 DEF InFile
  <2>2. Here(t)' = at[t]
    BY <1>1, <1>3, <2>1 DEF Here
  <2> QED BY <1>1, <1>3, <2>1, <2>2 DEF PastEnd, Skips, Strays, RoundRobin, Kept
<1> HIDE DEF r
<1>5. PlaceInv(t)'
  <2>1. /\ Skips(t) => firstDone[t]
        /\ ~ seg[t] => curr[t] = 1
        /\ curr[t] <= idx[t]
        /\ ~ atEnd[t]
    BY <1>1, <1>2, <1>3 DEF ThreadInv, PlaceInv
  <2>2. at[t] + 1 <= lens[idx[t]] + 1
    BY <1>1, <1>2, <1>3
  <2> QED BY <1>1, <1>2, <1>3, <1>4, <2>1, <2>2 DEF PlaceInv
<1>6. FoundInv(t)'
  BY <1>1, <1>2, <1>3, <1>4 DEF ThreadInv, FoundInv
<1>7. CountInv(t)'
  BY <1>1, <1>2, <1>4 DEF CountInv, RoundRobin
<1>8. TurnInv(t)'
  <2>1. RoundRobin => turn'[t] # 0 /\ turn'[t] = NThreads
    BY <1>1, ThreadAssumption DEF MyBlock
  <2>2. RoundRobin /\ ~ Strays(t) => (turn'[t] + at'[t] - 1 - t) % NThreads = 0
    <3> SUFFICES ASSUME RoundRobin, ~ Strays(t)
                 PROVE  (turn'[t] + at'[t] - 1 - t) % NThreads = 0
      OBVIOUS
    <3>1. turn[t] \in 0 .. NThreads /\ turn[t] # 0 /\ (turn[t] + at[t] - 1 - t) % NThreads = 0
      BY <1>1, <1>2 DEF FunInv, ThreadInv, TurnInv
    <3>2. turn[t] = 1
      BY <3>1, ThreadAssumption DEF MyTurn, MyBlock
    <3>3. (NThreads + (at[t] + 1) - 1 - t) % NThreads = 0
      <4>0. turn[t] \in 1 .. NThreads
        BY <3>2, ThreadAssumption
      <4>1. PICK n \in 1 .. NThreads, i \in Nat \ {0} : n = turn[t] /\ i = at[t]
        BY <4>0, <1>3
      <4>2. (n + i - 1 - t) % NThreads = 0 /\ n = 1
        BY <3>1, <3>2, <4>1
      <4> QED BY <4>1, <4>2, TurnsComeRound
    <3> QED BY <1>1, <2>1, <3>3
  <2> QED BY <1>1, <1>4, <2>1, <2>2 DEF TurnInv, RoundRobin
<1>9. KeptInv(t)'
  <2>1. ~ seg'[t] => tmp'[t] = {}
    BY <1>1, <1>4 DEF ThreadInv, KeptInv
  <2>2. \A x \in RecordsIn(lens) : Passed(t, x)' => Passed(t, x) \/ x = r
    <3> TAKE x \in RecordsIn(lens)
    <3>1. x = <<x[1], x[2]>> /\ x[1] \in 1 .. NumFiles /\ x[2] \in 1 .. lens[x[1]]
             /\ lens[x[1]] \in Nat
      BY RecordsAre DEF InputInv, Input
    <3>2. x[1] = idx[t] /\ x[2] = at[t] => x = r
      BY <3>1 DEF r
    <3> QED BY <1>1, <1>2, <1>3, <1>4, <3>1, <3>2 DEF Passed
  <2> QED BY <1>1, <1>2, <1>4, <2>1, <2>2 DEF ThreadInv, KeptInv
<1> QED BY <1>5, <1>6, <1>7, <1>8, <1>9 DEF ThreadInv

(* A record before t's block, or of another thread's turn, is passed. *)
LEMMA ReadPasses ==
    ASSUME InputInv, FunInv, NEW t \in Threads, ThreadInv(t), ReadRecord(t),
           ~ (MyTurn(t) \/ MyBlock(t)), ~ PastBlock(t)
    PROVE  ThreadInv(t)'
<1> DEFINE r == <<idx[t], at[t]>>
<1>1. /\ pc[t] = "read" /\ at[t] <= lens[idx[t]]
      /\ lens' = lens /\ org' = org /\ estimate' = estimate /\ missing' = missing
      /\ lock' = lock /\ pc'[t] = pc[t] /\ seg'[t] = seg[t] /\ curr'[t] = curr[t]
      /\ recCount'[t] = recCount[t] + 1 /\ idx'[t] = idx[t] /\ eofIn'[t] = eofIn[t]
      /\ at'[t] = at[t] + 1 /\ atEnd'[t] = atEnd[t] /\ firstDone'[t] = firstDone[t]
      /\ turn'[t] = IF ~ RoundRobin THEN turn[t] ELSE turn[t] - 1
      /\ more'[t] = more[t] /\ nRC'[t] = nRC[t] /\ mem'[t] = mem[t] /\ tmp'[t] = tmp[t]
  BY DEF FunInv, ReadRecord, input
<1>2. /\ ~ PastEnd(t) /\ idx[t] \in 1 .. NumFiles /\ lens[idx[t]] \in Nat
      /\ InFile(t) /\ Here(t) = at[t] - 1
      /\ ~ RoundRobin => recCount[t] + 1 = Position(lens, idx[t], at[t])
      /\ ~ Strays(t) => ~ Own(lens, org, estimate, t, r)
  BY <1>1, AboutNextRecord
<1>3. Position(lens, idx[t], at[t]) \in Nat
  BY UpToFinite DEF InputInv
<1>4. at[t] \in Nat \ {0} /\ seg[t] \in BOOLEAN /\ firstDone[t] \in BOOLEAN /\ ~ more[t]
  BY <1>1 DEF FunInv, ThreadInv, PlaceInv
<1>5. /\ InFile(t)' /\ Here(t)' = at[t]
      /\ PastEnd(t)' = PastEnd(t) /\ Skips(t)' = Skips(t) /\ Strays(t)' = Strays(t)
      /\ Kept(t)' = Kept(t)
  <2>1. InFile(t)'
    BY <1>1 DEF InFile
  <2>2. Here(t)' = at[t]
    BY <1>1, <1>4, <2>1 DEF Here
  <2> QED BY <1>1, <2>1, <2>2 DEF PastEnd, Skips, Strays, RoundRobin, Kept
<1> HIDE DEF r
<1>6. PlaceInv(t)'
  <2>1. /\ Skips(t) => firstDone[t]
        /\ ~ seg[t] => curr[t] = 1
        /\ curr[t] <= idx[t]
        /\ ~ atEnd[t]
    BY <1>1, <1>2, <1>4 DEF ThreadInv, PlaceInv
  <2>2. at[t] + 1 <= lens[idx[t]] + 1
    BY <1>1, <1>2, <1>4
  <2> QED BY <1>1, <1>2, <1>4, <1>5, <2>1, <2>2 DEF PlaceInv
<1>7. FoundInv(t)'
  BY <1>1, <1>2, <1>4, <1>5 DEF ThreadInv, FoundInv
<1>8. CountInv(t)'
  BY <1>1, <1>2, <1>3, <1>5 DEF CountInv, RoundRobin
<1>9. TurnInv(t)'
  <2>1. RoundRobin => turn[t] \in 0 .. NThreads /\ turn[t] # 0 /\ turn[t] # 1
    BY <1>1, ThreadAssumption DEF FunInv, ThreadInv, TurnInv, MyTurn
  <2>2. RoundRobin => turn'[t] # 0
    BY <1>1, <2>1, ThreadAssumption
  <2>3. RoundRobin /\ ~ Strays(t) => (turn'[t] + at'[t] - 1 - t) % NThreads = 0
    <3> SUFFICES ASSUME RoundRobin, ~ Strays(t)
                 PROVE  (turn'[t] + at'[t] - 1 - t) % NThreads = 0
      OBVIOUS
    <3>1. (turn[t] + at[t] - 1 - t) % NThreads = 0
      BY <1>1, <1>2 DEF FunInv, ThreadInv, TurnInv
    <3>2. turn[t] \in 1 .. NThreads
      BY <2>1, ThreadAssumption
    <3>3. ((turn[t] - 1) + (at[t] + 1) - 1 - t) % NThreads = 0
      <4>1. PICK n \in 1 .. NThreads, i \in Nat \ {0} : n = turn[t] /\ i = at[t]
        BY <3>2, <1>4
      <4>2. (n + i - 1 - t) % NThreads = 0 /\ n # 1
        BY <3>1, <2>1, <4>1
      <4> QED BY <4>1, <4>2, TurnsComeRound
    <3> QED BY <1>1, <3>3
  <2> QED BY <1>1, <1>5, <2>2, <2>3, <2>1 DEF TurnInv, RoundRobin
<1>10. KeptInv(t)'
  <2>1. \A x \in RecordsIn(lens) : Passed(t, x)' => Passed(t, x) \/ x = r
    <3> TAKE x \in RecordsIn(lens)
    <3>1. x = <<x[1], x[2]>> /\ x[1] \in 1 .. NumFiles /\ x[2] \in 1 .. lens[x[1]]
             /\ lens[x[1]] \in Nat
      BY RecordsAre DEF InputInv, Input
    <3>2. x[1] = idx[t] /\ x[2] = at[t] => x = r
      BY <3>1 DEF r
    <3> QED BY <1>1, <1>2, <1>4, <1>5, <3>1, <3>2 DEF Passed
  <2> QED BY <1>1, <1>2, <1>5, <2>1 DEF ThreadInv, KeptInv
<1> QED BY <1>6, <1>7, <1>8, <1>9, <1>10 DEF ThreadInv

(* The first record behind t's block closes the file, which has no more    *)
(* records of t's.                                                         *)
LEMMA ReadCloses ==
    ASSUME InputInv, FunInv, NEW t \in Threads, ThreadInv(t), ReadRecord(t),
           ~ (MyTurn(t) \/ MyBlock(t)), PastBlock(t)
    PROVE  ThreadInv(t)'
<1> DEFINE stop == StopOf(estimate, t)
<1>1. /\ pc[t] = "read" /\ at[t] <= lens[idx[t]] /\ ~ RoundRobin
      /\ lens' = lens /\ org' = org /\ estimate' = estimate /\ missing' = missing
      /\ lock' = lock /\ pc'[t] = "file" /\ seg'[t] = seg[t] /\ curr'[t] = curr[t]
      /\ recCount'[t] = recCount[t] + 1 /\ idx'[t] = idx[t] + 1 /\ eofIn'[t] = TRUE
      /\ at'[t] = at[t] + 1 /\ atEnd'[t] = atEnd[t] /\ firstDone'[t] = firstDone[t]
      /\ turn'[t] = turn[t]
      /\ more'[t] = more[t] /\ nRC'[t] = nRC[t] /\ mem'[t] = mem[t] /\ tmp'[t] = tmp[t]
  BY DEF FunInv, ReadRecord, CloseFile, Go, PastBlock, input
<1>2. /\ ~ PastEnd(t) /\ idx[t] \in 1 .. NumFiles /\ lens[idx[t]] \in Nat
      /\ InFile(t) /\ Here(t) = at[t] - 1
      /\ Position(lens, idx[t], at[t]) = Position(lens, idx[t], at[t] - 1) + 1
      /\ Position(lens, idx[t], at[t] - 1) \in Nat
      /\ stop \in Nat /\ stop > 0 /\ Position(lens, idx[t], at[t]) > stop
      /\ recCount[t] + 1 > stop
      /\ recCount[t] + 1 <= Position(lens, idx[t], at[t])
  BY <1>1, AboutNextRecord
<1>3. at[t] \in Nat \ {0} /\ seg[t] \in BOOLEAN /\ firstDone[t] \in BOOLEAN /\ ~ more[t]
         /\ recCount[t] \in Nat /\ idx[t] \in Int
  BY <1>1, <1>2 DEF FunInv, ThreadInv, PlaceInv
<1>4. /\ ~ InFile(t)' /\ Here(t)' = 0
      /\ PastEnd(t)' = PastEnd(t) /\ Skips(t)' = Skips(t) /\ Strays(t)' = Strays(t)
      /\ Kept(t)' = Kept(t) /\ ~ Strays(t)
  BY <1>1, <1>3 DEF InFile, Here, GoesOn, PastEnd, Skips, Strays, RoundRobin, Kept
<1>5. PlaceInv(t)'
  <2>1. /\ Skips(t) => firstDone[t]
        /\ ~ seg[t] => curr[t] = 1
        /\ curr[t] <= idx[t] /\ curr[t] \in Int
    BY <1>1, <1>2, <1>3 DEF FunInv, ThreadInv, PlaceInv
  <2> QED BY <1>1, <1>2, <1>3, <1>4, <2>1 DEF PlaceInv
<1>6. FoundInv(t)'
  <2>1. \A f \in missing : f >= idx[t] /\ f # idx[t] /\ f \in Int
    BY <1>1, <1>2, ThreadAssumption DEF ThreadInv, FoundInv, InputInv
  <2> QED BY <1>1, <1>2, <1>3, <1>4, <2>1 DEF ThreadInv, FoundInv
<1>7. CountInv(t)'
  <2>1. Position(lens, idx[t], at[t]) <= Position(lens, idx[t] + 1, 0)
    <3>1. at[t] \in Int /\ idx[t] + 1 \in Int /\ 0 \in Int /\ idx[t] < idx[t] + 1
      BY <1>3
    <3> QED BY <1>3, <3>1, PositionGrows DEF InputInv
  <2>2. Position(lens, idx[t] + 1, 0) \in Nat
    BY UpToFinite DEF InputInv
  <2> QED BY <1>1, <1>2, <1>3, <1>4, <2>1, <2>2 DEF CountInv, RoundRobin
<1>8. TurnInv(t)'
  BY <1>1 DEF TurnInv, RoundRobin
<1>9. KeptInv(t)'
  <2>1. ASSUME NEW x \in RecordsIn(lens), ~ Passed(t, x), Own(lens, org, estimate, t, x)
        PROVE  FALSE
    <3>1. Position(lens, x[1], x[2]) > Position(lens, idx[t], at[t] - 1)
      <4>1. at[t] - 1 \in Int
        BY <1>3
      <4> QED BY <2>1, <1>2, <1>3, <4>1, PositionBehind DEF Passed, InputInv
    <3>2. Position(lens, x[1], x[2]) \in Nat
      BY UpToFinite DEF InputInv
    <3>3. Position(lens, x[1], x[2]) <= stop
      BY <2>1, <1>1, <1>2 DEF Own, InBlock, RoundRobin
    <3> QED BY <1>2, <3>1, <3>2, <3>3
  <2> QED BY <1>1, <1>2, <1>4, <2>1 DEF ThreadInv, KeptInv
<1> QED BY <1>5, <1>6, <1>7, <1>8, <1>9 DEF ThreadInv

(* A record is read. *)
LEMMA ReadRecordStep ==
    ASSUME InputInv, FunInv, NEW t \in Threads, ThreadInv(t), ReadRecord(t)
    PROVE  FunInv' /\ OthersKept(t) /\ ThreadInv(t)'
BY ReadTypes, ReadKeeps, ReadPasses, ReadCloses

(* The end of a file is found. *)
LEMMA EndOfFileStep ==
    ASSUME InputInv, FunInv, NEW t \in Threads, ThreadInv(t), EndOfFile(t)
    PROVE  FunInv' /\ OthersKept(t) /\ ThreadInv(t)'
<1>1. /\ pc[t] = "read" /\ at[t] > lens[idx[t]] /\ ~ atEnd[t]
      /\ lens' = lens /\ org' = org /\ estimate' = estimate /\ missing' = missing
      /\ lock' = lock /\ pc'[t] = "file" /\ seg'[t] = seg[t] /\ curr'[t] = curr[t]
      /\ recCount'[t] = recCount[t] /\ idx'[t] = idx[t] + 1 /\ eofIn'[t] = TRUE
      /\ at'[t] = at[t] /\ atEnd'[t] = TRUE /\ firstDone'[t] = firstDone[t]
      /\ turn'[t] = turn[t]
      /\ more'[t] = more[t] /\ nRC'[t] = nRC[t] /\ mem'[t] = mem[t] /\ tmp'[t] = tmp[t]
  BY DEF FunInv, EndOfFile, CloseFile, Go, input
<1>2. /\ ~ PastEnd(t) /\ ~ more[t] /\ idx[t] <= NumFiles
  BY <1>1 DEF ThreadInv, PlaceInv
<1>3. idx[t] \in 1 .. NumFiles /\ idx[t] \in Int /\ lens[idx[t]] \in Nat
         /\ at[t] \in Nat \ {0} /\ seg[t] \in BOOLEAN /\ firstDone[t] \in BOOLEAN
  <2>1. idx[t] \in 1 .. NumFiles
    BY <1>2, ThreadAssumption DEF FunInv
  <2> QED BY <2>1, ThreadAssumption DEF FunInv, InputInv, Input
<1>4. FunInv'
  <2>1. idx[t] + 1 \in 1 .. NumFiles + 1
    BY <1>3, ThreadAssumption
  <2>2. idx' \in [Threads -> 1 .. NumFiles + 1]
    BY <2>1 DEF FunInv, EndOfFile, CloseFile
  <2> QED BY <2>2 DEF FunInv, EndOfFile, CloseFile, Go, input
<1>5. OthersKept(t)
  BY DEF FunInv, EndOfFile, CloseFile, Go, input, OthersKept
<1>6. /\ InFile(t) /\ Here(t) = at[t] - 1 /\ ~ InFile(t)' /\ Here(t)' = 0
      /\ PastEnd(t)' = PastEnd(t) /\ Skips(t)' = Skips(t) /\ Strays(t)' = Strays(t)
      /\ Kept(t)' = Kept(t)
  BY <1>1, <1>2 DEF InFile, Here, GoesOn, PastEnd, Skips, Strays, RoundRobin, Kept
<1>7. PlaceInv(t)'
  <2>1. /\ Skips(t) => firstDone[t]
        /\ ~ seg[t] => curr[t] = 1
        /\ curr[t] <= idx[t] /\ curr[t] \in Int
    BY <1>1, <1>2, <1>3 DEF FunInv, ThreadInv, PlaceInv
  <2> QED BY <1>1, <1>2, <1>3, <1>6, <2>1 DEF PlaceInv
<1>8. FoundInv(t)'
  <2>1. \A f \in missing : f >= idx[t] /\ f # idx[t] /\ f \in Int
    BY <1>1, <1>3, <1>6, ThreadAssumption DEF ThreadInv, FoundInv, InputInv
  <2> QED BY <1>1, <1>2, <1>3, <1>6, <2>1 DEF ThreadInv, FoundInv
<1>9. CountInv(t)'
  <2>1. Position(lens, idx[t] + 1, 0) = Position(lens, idx[t], at[t] - 1)
    <3>1. at[t] - 1 \in Int /\ at[t] - 1 >= lens[idx[t]]
      BY <1>1, <1>3
    <3> QED BY <1>3, <3>1, PositionAtEnd DEF InputInv
  <2> QED BY <1>1, <1>2, <1>6, <2>1 DEF ThreadInv, CountInv, RoundRobin
<1>10. TurnInv(t)'
  BY <1>1, <1>6 DEF ThreadInv, TurnInv, RoundRobin
<1>11. KeptInv(t)'
  <2>1. \A x \in RecordsIn(lens) : Passed(t, x)' => Passed(t, x)
    <3> TAKE x \in RecordsIn(lens)
    <3>1. x[1] \in 1 .. NumFiles /\ x[2] \in 1 .. lens[x[1]] /\ lens[x[1]] \in Nat
      BY RecordsAre DEF InputInv, Input
    <3> QED BY <1>1, <1>3, <1>6, <3>1, ThreadAssumption DEF Passed
  <2> QED BY <1>1, <1>2, <1>6, <2>1 DEF ThreadInv, KeptInv
<1> QED BY <1>4, <1>5, <1>7, <1>8, <1>9, <1>10, <1>11 DEF ThreadInv

(* A read past the end of the first file ends t. *)
LEMMA ReadFailsStep ==
    ASSUME InputInv, FunInv, NEW t \in Threads, ThreadInv(t), ReadFails(t)
    PROVE  FunInv' /\ OthersKept(t) /\ ThreadInv(t)'
<1>1. FunInv'
  BY DEF FunInv, ReadFails, Go, input, place
<1>2. OthersKept(t)
  BY DEF FunInv, ReadFails, Go, input, place, OthersKept
<1>3. /\ pc[t] = "read" /\ atEnd[t]
      /\ lens' = lens /\ org' = org /\ estimate' = estimate /\ missing' = missing
      /\ lock' = lock /\ pc'[t] = "ended"
      /\ seg'[t] = seg[t] /\ curr'[t] = curr[t] /\ recCount'[t] = recCount[t]
      /\ idx'[t] = idx[t] /\ eofIn'[t] = eofIn[t] /\ at'[t] = at[t] /\ atEnd'[t] = atEnd[t]
      /\ firstDone'[t] = firstDone[t] /\ turn'[t] = turn[t] /\ more'[t] = more[t]
      /\ nRC'[t] = -1 /\ mem'[t] = mem[t] /\ tmp'[t] = tmp[t]
  BY DEF FunInv, ReadFails, Go, input, place
<1>4. /\ InFile(t) /\ PastEnd(t) /\ ~ more[t] /\ ~ seg[t] /\ ~ RoundRobin
      /\ Skips(t) => firstDone[t]
  BY <1>3 DEF InFile, ThreadInv, PlaceInv, PastEnd, RoundRobin
<1>5. /\ ~ InFile(t)'
      /\ PastEnd(t)' = PastEnd(t) /\ Skips(t)' = Skips(t) /\ Strays(t)' = Strays(t)
      /\ Kept(t)' = Kept(t)
  BY <1>3, <1>4 DEF InFile, GoesOn, PastEnd, Skips, Strays, RoundRobin, Kept
<1>6. PlaceInv(t)'
  BY <1>3, <1>4, <1>5 DEF ThreadInv, PlaceInv
<1>7. FoundInv(t)'
  BY <1>3, <1>4, <1>5 DEF ThreadInv, FoundInv
<1>8. CountInv(t)'
  BY <1>4, <1>5 DEF CountInv
<1>9. TurnInv(t)'
  BY <1>3, <1>4 DEF TurnInv, RoundRobin
<1>10. KeptInv(t)'
  BY <1>3, <1>4, <1>5 DEF ThreadInv, KeptInv
<1> QED BY <1>1, <1>2, <1>6, <1>7, <1>8, <1>9, <1>10 DEF ThreadInv

(* All the files have been read. *)
LEMMA EndFilesStep ==
    ASSUME InputInv, FunInv, NEW t \in Threads, ThreadInv(t), EndFiles(t)
    PROVE  FunInv' /\ OthersKept(t) /\ ThreadInv(t)'
<1>1. FunInv'
  BY DEF FunInv, EndFiles, Go, input, place
<1>2. OthersKept(t)
  BY DEF FunInv, EndFiles, Go, input, place, OthersKept
<1>3. /\ pc[t] = "file" /\ idx[t] > NumFiles
      /\ lens' = lens /\ org' = org /\ estimate' = estimate /\ missing' = missing
      /\ lock' = lock /\ pc'[t] = "save"
      /\ seg'[t] = seg[t] /\ curr'[t] = curr[t] /\ recCount'[t] = recCount[t]
      /\ idx'[t] = idx[t] /\ eofIn'[t] = eofIn[t] /\ at'[t] = at[t] /\ atEnd'[t] = atEnd[t]
      /\ firstDone'[t] = firstDone[t] /\ turn'[t] = turn[t] /\ more'[t] = more[t]
      /\ nRC'[t] = nRC[t] /\ mem'[t] = mem[t] /\ tmp'[t] = tmp[t]
  BY DEF FunInv, EndFiles, Go, input, place
<1>4. idx[t] = NumFiles + 1 /\ idx[t] > 1 /\ ~ (idx[t] \in 1 .. NumFiles) /\ NumFiles \in Nat
         /\ curr[t] \in 1 .. NumFiles
  BY <1>3, ThreadAssumption DEF FunInv
<1>5. ~ more[t] /\ eofIn[t] /\ ~ PastEnd(t) /\ (Skips(t) => firstDone[t])
  BY <1>3, <1>4 DEF ThreadInv, PlaceInv
<1>6. /\ ~ InFile(t) /\ ~ InFile(t)' /\ Here(t)' = Here(t)
      /\ PastEnd(t)' = PastEnd(t) /\ Skips(t)' = Skips(t) /\ Strays(t)' = Strays(t)
      /\ Kept(t)' = Kept(t)
  BY <1>3, <1>5 DEF InFile, Here, GoesOn, PastEnd, Skips, Strays, RoundRobin, Kept
<1>7. PlaceInv(t)'
  BY <1>3, <1>4, <1>5, <1>6 DEF ThreadInv, PlaceInv
<1>8. FoundInv(t)'
  BY <1>3, <1>4, <1>6 DEF ThreadInv, FoundInv
<1>9. CountInv(t)'
  BY <1>3, <1>6 DEF ThreadInv, CountInv, RoundRobin
<1>10. TurnInv(t)'
  BY <1>3, <1>6 DEF ThreadInv, TurnInv, RoundRobin
<1>11. KeptInv(t)'
  BY <1>3, <1>6 DEF ThreadInv, KeptInv, Passed
<1> QED BY <1>1, <1>2, <1>7, <1>8, <1>9, <1>10, <1>11 DEF ThreadInv

(* The end of a round: the records go to a temporary file, if the job is   *)
(* segmented.                                                              *)
LEMMA SaveStep ==
    ASSUME InputInv, FunInv, NEW t \in Threads, ThreadInv(t), Save(t)
    PROVE  FunInv' /\ OthersKept(t) /\ ThreadInv(t)'
<1>1. FunInv'
  <2>1. tmp' \in [Threads -> SUBSET RecordsIn(lens)]
    BY DEF FunInv, Save
  <2> QED BY <2>1 DEF FunInv, Save, Go, input, place
<1>2. OthersKept(t)
  BY DEF FunInv, Save, Go, input, place, OthersKept
<1>3. /\ pc[t] = "save"
      /\ lens' = lens /\ org' = org /\ estimate' = estimate /\ missing' = missing
      /\ lock' = lock /\ pc'[t] = IF more[t] THEN "round" ELSE "ended"
      /\ seg'[t] = seg[t] /\ curr'[t] = curr[t] /\ recCount'[t] = recCount[t]
      /\ idx'[t] = idx[t] /\ eofIn'[t] = eofIn[t] /\ at'[t] = at[t] /\ atEnd'[t] = atEnd[t]
      /\ firstDone'[t] = firstDone[t] /\ turn'[t] = turn[t] /\ more'[t] = more[t]
      /\ nRC'[t] = nRC[t] /\ mem'[t] = mem[t]
      /\ tmp'[t] = IF seg[t] THEN tmp[t] \cup mem[t] ELSE tmp[t]
  BY DEF FunInv, Save, Go, input, place
<1>4. /\ ~ PastEnd(t) /\ (Skips(t) => firstDone[t]) /\ (more[t] => seg[t])
      /\ idx[t] = IF more[t] THEN curr[t] ELSE NumFiles + 1
      /\ more[t] \in BOOLEAN /\ seg[t] \in BOOLEAN
  BY <1>3 DEF FunInv, ThreadInv, PlaceInv
<1>5. /\ InFile(t) = more[t] /\ InFile(t)' = more[t] /\ Here(t)' = Here(t)
      /\ PastEnd(t)' = PastEnd(t) /\ Skips(t)' = Skips(t) /\ Strays(t)' = Strays(t)
      /\ Kept(t)' = Kept(t)
  BY <1>3, <1>4 DEF InFile, Here, GoesOn, PastEnd, Skips, Strays, RoundRobin, Kept
<1>6. PlaceInv(t)'
  BY <1>3, <1>4, <1>5 DEF ThreadInv, PlaceInv
<1>7. FoundInv(t)'
  BY <1>3, <1>4, <1>5 DEF ThreadInv, FoundInv
<1>8. CountInv(t)'
  BY <1>3, <1>5 DEF ThreadInv, CountInv, RoundRobin
<1>9. TurnInv(t)'
  BY <1>3, <1>4, <1>5 DEF ThreadInv, TurnInv, RoundRobin
<1>10. KeptInv(t)'
  BY <1>3, <1>4, <1>5 DEF ThreadInv, KeptInv, Passed
<1> QED BY <1>1, <1>2, <1>6, <1>7, <1>8, <1>9, <1>10 DEF ThreadInv

-----------------------------------------------------------------------------
(* The system. *)

(* The operators of GcThread are those of the data above. *)
LEMMA AllRecordsAre == AllRecords = RecordsIn(lens)
BY DEF AllRecords, RecordsIn

(* The program starts where the invariant holds. *)
LEMMA InitSystem == Init => SystemInv
<1> SUFFICES ASSUME Init
             PROVE  SystemInv
  OBVIOUS
<1>1. InputInv
  <2>1. lens \in Input /\ 1 \in 1 .. NumFiles
    BY ThreadAssumption DEF Init, Input
  <2>2. lens[1] \in Nat
    BY <2>1 DEF Input
  <2>3. org \in {"sequential", "line", "variable"}
    BY ThreadAssumption DEF Init
  <2>4. estimate \in Nat /\ estimate <= 2 * lens[1] /\ (org # "line" => estimate = lens[1])
    <3>1. CASE org = "line"
      BY <2>2, <3>1 DEF Init
    <3>2. CASE org # "line"
      BY <2>2, <3>2 DEF Init
    <3> QED BY <3>1, <3>2
  <2>5. missing \subseteq 1 .. NumFiles
    BY DEF Init
  <2> QED BY <2>1, <2>3, <2>4, <2>5 DEF InputInv
<1>2. FunInv
  BY ThreadAssumption DEF Init, FunInv, Free, Threads
<1>3. MainInv
  BY DEF Init, MainInv
<1>4. ASSUME NEW t \in Threads
      PROVE  ThreadInv(t)
  <2>1. /\ pc[t] = "round" /\ ~ seg[t] /\ curr[t] = 1 /\ recCount[t] = 0 /\ idx[t] = 1
        /\ ~ eofIn[t] /\ at[t] = 1 /\ ~ atEnd[t] /\ ~ firstDone[t] /\ ~ more[t] /\ nRC[t] = 0
        /\ mem[t] = {} /\ tmp[t] = {}
    BY <1>4 DEF Init
  <2>2. lens[1] \in Nat /\ 1 \in 1 .. NumFiles
    BY <1>1, ThreadAssumption DEF InputInv, Input
  <2>3. Here(t) = 0 /\ Kept(t) = {} /\ ~ Strays(t)
    BY <2>1 DEF Here, InFile, Kept, Strays
  <2>4. PlaceInv(t)
    BY <2>1, <2>2 DEF PlaceInv
  <2>5. FoundInv(t)
    <3>1. \A f \in missing : f >= 1
      BY <1>1, ThreadAssumption DEF InputInv
    <3> QED BY <2>1, <3>1 DEF FoundInv
  <2>6. CountInv(t)
    <3>1. Position(lens, 1, 0) = 0
      BY <1>1, <2>2, PositionFirst DEF InputInv
    <3> QED BY <2>1, <2>3, <3>1 DEF CountInv
  <2>7. TurnInv(t)
    BY <2>1 DEF TurnInv
  <2>8. KeptInv(t)
    <3>1. \A r \in RecordsIn(lens) : ~ Passed(t, r)
      <4> TAKE r \in RecordsIn(lens)
      <4>1. r[1] \in 1 .. NumFiles /\ r[2] \in 1 .. lens[r[1]] /\ lens[r[1]] \in Nat
        BY <1>1, RecordsAre DEF InputInv, Input
      <4> QED BY <2>1, <2>3, <4>1, ThreadAssumption DEF Passed
    <3> QED BY <2>1, <2>3, <3>1 DEF KeptInv
  <2> QED BY <2>4, <2>5, <2>6, <2>7, <2>8 DEF ThreadInv
<1> QED BY <1>1, <1>2, <1>3, <1>4 DEF SystemInv

(* Every step of the program keeps it. *)
LEMMA NextSystem == SystemInv /\ [Next]_vars => SystemInv'
<1> SUFFICES ASSUME SystemInv, [Next]_vars
             PROVE  SystemInv'
  OBVIOUS
<1>1. ASSUME NEW t \in Threads, ThreadStep(t)
      PROVE  SystemInv'
  <2>1. InputInv /\ FunInv /\ MainInv /\ ThreadInv(t)
    BY DEF SystemInv
  <2>2. FunInv' /\ OthersKept(t) /\ ThreadInv(t)'
    BY <1>1, <2>1, StartRoundStep, ResumeFileStep, OpenFileStep, OpenFailsStep,
       SkipRecordsStep, ReadRecordStep, EndOfFileStep, ReadFailsStep, EndFilesStep, SaveStep
       DEF ThreadStep
  <2>3. InputInv'
    BY <2>1, <2>2 DEF OthersKept, InputInv, input
  <2>4. \A u \in Threads : ThreadInv(u)'
    BY <2>2, OthersStep DEF SystemInv
  <2>5. MainInv'
    <3>1. pc[t] # "ended" /\ main' = main /\ out' = out
      BY <1>1 DEF ThreadStep, StartRound, ResumeFile, OpenFile, OpenFails, SkipRecords,
                  ReadRecord, EndOfFile, ReadFails, EndFiles, Save
    <3>2. main = "join"
      BY <2>1, <3>1 DEF MainInv
    <3> QED BY <2>1, <3>1, <3>2 DEF MainInv
  <2> QED BY <2>2, <2>3, <2>4, <2>5 DEF SystemInv
<1>2. ASSUME UNCHANGED <<input, lock, pc, seg, curr, recCount, place, more, nRC, mem, tmp>>,
             MainInv'
      PROVE  SystemInv'
  <2>1. ASSUME NEW t \in Threads
        PROVE  OthersKept(t)
    BY <1>2 DEF OthersKept, input, place
  <2>2. InputInv' /\ FunInv'
    BY <1>2 DEF SystemInv, InputInv, FunInv, input, place
  <2>3. ASSUME NEW t \in Threads
        PROVE  ThreadInv(t)'
    BY <1>2 DEF SystemInv, ThreadInv, PlaceInv, FoundInv, CountInv, TurnInv, KeptInv, input, place,
                InFile, Here, GoesOn, Passed, PastEnd, Skips, Strays, RoundRobin, Kept
  <2> QED BY <1>2, <2>2, <2>3 DEF SystemInv
<1>3. CASE Join
  <2>1. MainInv'
    BY <1>3 DEF Join, MainInv, SystemInv
  <2> QED BY <1>2, <1>3, <2>1 DEF Join
<1>4. CASE SaveFinal
  <2>1. MainInv'
    BY <1>4 DEF SaveFinal, MainInv, SystemInv
  <2> QED BY <1>2, <1>4, <2>1 DEF SaveFinal
<1>5. CASE UNCHANGED vars
  <2>1. MainInv'
    BY <1>5 DEF vars, MainInv, SystemInv
  <2> QED BY <1>2, <1>5, <2>1 DEF vars
<1> QED BY <1>1, <1>3, <1>4, <1>5 DEF Next, MainStep, Terminated

(* The invariant always holds. *)
LEMMA SystemInvAlways == Spec => []SystemInv
BY InitSystem, NextSystem, PTL DEF Spec

(* A thread that ended well has kept its share, in memory or, if its job   *)
(* was segmented, in temporary files.                                      *)
LEMMA EndedWell ==
    ASSUME SystemInv, NEW t \in Threads, pc[t] = "ended", nRC[t] = 0, ~ TurnsApart
    PROVE  /\ \A r \in AllRecords : Own(lens, org, estimate, t, r) => r \in Kept(t)
           /\ Kept(t) = IF seg[t] THEN tmp[t] ELSE mem[t]
<1>1. ThreadInv(t) /\ InputInv /\ FunInv
  BY DEF SystemInv
<1>2. idx[t] = NumFiles + 1
  BY <1>1 DEF ThreadInv, FoundInv
<1>3. ~ Strays(t) /\ ~ PastEnd(t)
  <2>1. ~ PastEnd(t)
    BY <1>1, <1>2, ThreadAssumption DEF ThreadInv, PlaceInv
  <2> QED BY <2>1 DEF Strays, TurnsApart
<1>4. \A r \in RecordsIn(lens) : Passed(t, r)
  <2> TAKE r \in RecordsIn(lens)
  <2>1. r[1] \in 1 .. NumFiles
    BY <1>1, RecordsAre DEF InputInv
  <2> QED BY <1>2, <2>1, ThreadAssumption DEF Passed
<1>5. Kept(t) = IF seg[t] THEN tmp[t] ELSE mem[t]
  BY <1>1 DEF ThreadInv, KeptInv, Kept
<1> QED BY <1>1, <1>3, <1>4, <1>5, AllRecordsAre DEF ThreadInv, KeptInv

(* The invariant is one of shares. *)
LEMMA SharesFollow == SystemInv => ShareInv
<1> SUFFICES ASSUME SystemInv
             PROVE  ShareInv
  OBVIOUS
<1>1. InputInv /\ FunInv /\ MainInv /\ \A t \in Threads : ThreadInv(t)
  BY DEF SystemInv
<1>2. \A t \in Threads : Kept(t) \subseteq AllRecords
  BY <1>1, AllRecordsAre DEF FunInv, Kept
<1>3. TypeOK
  <2>1. \A t \in Threads : RoundRobin /\ pc[t] = "read" => turn[t] # 0
    BY <1>1 DEF ThreadInv, TurnInv
  <2> QED BY <1>1, <1>2, <2>1 DEF FunInv, TypeOK, Kept
<1>4. SharesDisjoint
  <2> SUFFICES ASSUME ~ TurnsApart, NEW t \in Threads, NEW u \in Threads, t # u,
                      NEW r \in Kept(t) \cap Kept(u)
               PROVE  FALSE
    BY DEF SharesDisjoint
  <2>1. ~ Strays(t) /\ ~ Strays(u)
    BY DEF Strays, TurnsApart
  <2>2. Own(lens, org, estimate, t, r) /\ Own(lens, org, estimate, u, r)
    BY <1>1, <2>1 DEF ThreadInv, KeptInv
  <2>3. r \in RecordsIn(lens)
    BY <1>2, AllRecordsAre
  <2> QED BY <1>1, <2>2, <2>3, OwnDisjoint DEF InputInv
<1>5. SharesComplete
  <2> SUFFICES ASSUME main = "merge", AllWell, ~ TurnsApart
               PROVE  UNION {Kept(t) : t \in Threads} = AllRecords
    BY DEF SharesComplete
  <2>1. \A t \in Threads : pc[t] = "ended" /\ nRC[t] = 0
    BY <1>1 DEF MainInv, AllWell
  <2>2. ASSUME NEW r \in AllRecords
        PROVE  \E t \in Threads : r \in Kept(t)
    <3>1. PICK t \in Threads : Own(lens, org, estimate, t, r)
      BY <1>1, AllRecordsAre, SomebodyOwns DEF InputInv
    <3> QED BY <2>1, <3>1, EndedWell
  <2> QED BY <1>2, <2>2
<1> QED BY <1>3, <1>4, <1>5 DEF ShareInv

(* The shares of the threads are disjoint, and together the input when all *)
(* threads have ended well: gcthreadSkipStop divides the input whatever    *)
(* the size of its first file promises, and each thread's own count of     *)
(* records, skipped slots included, finds its share.                       *)
THEOREM SharesAlwaysRight == Spec => []ShareInv
BY SystemInvAlways, SharesFollow, PTL

(* gcthread_save_final writes all records, when the threads agree on where *)
(* they are.                                                               *)
THEOREM AllIsWritten == Spec => []WritesAllIfAlike
<1>1. SystemInv => WritesAllIfAlike
  <2> SUFFICES ASSUME SystemInv, main = "returned", AllWell, ~ TurnsApart,
                      \A t \in Threads : seg[t] = seg[1]
               PROVE  out = AllRecords
    BY DEF WritesAllIfAlike
  <2>1. \A t \in Threads : pc[t] = "ended" /\ nRC[t] = 0
    BY DEF SystemInv, MainInv, AllWell
  <2>2. \A t \in Threads : Kept(t) = IF seg[1] THEN tmp[t] ELSE mem[t]
    BY <2>1, EndedWell
  <2>3. out = UNION {Kept(t) : t \in Threads}
    BY <2>2 DEF SystemInv, MainInv
  <2>4. \A t \in Threads : Kept(t) \subseteq AllRecords
    BY AllRecordsAre DEF SystemInv, FunInv, Kept
  <2>5. ASSUME NEW r \in AllRecords
        PROVE  \E t \in Threads : r \in Kept(t)
    <3>1. PICK t \in Threads : Own(lens, org, estimate, t, r)
      BY AllRecordsAre, SomebodyOwns DEF SystemInv, InputInv
    <3> QED BY <2>1, <3>1, EndedWell
  <2> QED BY <2>3, <2>4, <2>5
<1> QED BY <1>1, SystemInvAlways, PTL

(* Nothing is written of an input with a missing file, if two threads need *)
(* the mutex: each of them can only end by the error path of               *)
(* job_loadFiles that keeps it, so that main waits for one of them.        *)
THEOREM NothingOfAPart == Spec => []NoPartialOutput
<1>1. SystemInv => NoPartialOutput
  <2> SUFFICES ASSUME SystemInv, missing # {}, TwoNeedTheMutex
               PROVE  out = {}
    BY DEF NoPartialOutput
  <2>1. InputInv /\ FunInv /\ MainInv /\ \A t \in Threads : ThreadInv(t)
    BY DEF SystemInv
  <2>2. 1 \in Threads /\ 2 \in Threads /\ lens[1] \in Nat
    BY <2>1, ThreadAssumption DEF TwoNeedTheMutex, Threads, InputInv, Input
  <2>3. ~ PastEnd(1)
    BY <2>1, <2>2, SharesAre DEF PastEnd, InputInv
  <2>4. ~ PastEnd(2)
    <3> SUFFICES ASSUME org = "line"
                 PROVE  SkipOf(estimate, 2) <= lens[1]
      <4>1. SkipOf(estimate, 2) \in Nat
        BY <2>1, <2>2, SharesAre DEF InputInv
      <4> QED BY <2>2, <4>1 DEF PastEnd
    <3>1. lens[1] \in Nat \ {0}
      BY <2>2 DEF TwoNeedTheMutex
    <3> QED BY <2>1, <2>2, <3>1, SecondBegins DEF InputInv
  <2>5. ASSUME NEW t \in Threads, ~ PastEnd(t), pc[t] = "ended"
        PROVE  lock = t
    <3>1. PICK f \in missing : f >= idx[t] /\ f \in 1 .. NumFiles
      BY <2>1 DEF ThreadInv, FoundInv, InputInv
    <3>2. idx[t] # NumFiles + 1
      BY <3>1, ThreadAssumption
    <3> QED BY <2>1, <2>5, <3>2 DEF ThreadInv, FoundInv
  <2>6. main = "join"
    BY <2>1, <2>2, <2>3, <2>4, <2>5 DEF MainInv
  <2> QED BY <2>1, <2>6 DEF MainInv
<1> QED BY <1>1, SystemInvAlways, PTL
=============================================================================
