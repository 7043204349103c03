---------------------------- MODULE GcMergeProofs ----------------------------
(***************************************************************************)
(* What MERGE FIELDS writes, for every number of files, every input that   *)
(* is sorted, every INCLUDE or OMIT and all the forms of SUM FIELDS.       *)
(***************************************************************************)
EXTENDS GcMerge, FiniteSetTheorems, WellFoundedInduction, TLAPS

-----------------------------------------------------------------------------
(* The invariant. *)

Records == [key : Nat, tail : Nat, val : 0 .. Modulus - 1, file : Files, at : Nat \ {0}]

InputInv ==
    /\ input \in [Files -> Seq(Records)]
    /\ \A f \in Files : /\ KeySorted(input[f])
                        /\ \A i \in DOMAIN input[f] : /\ input[f][i].file = f
                                                      /\ input[f][i].at = i
    /\ omit \subseteq InputRecords
    /\ sum \in {"no", "none", "fields"}

(* The records of f that have been taken; those that are held and left to  *)
(* read follow them.                                                       *)
Gone(f) == Len(input[f]) - Len(rest[f]) - Len(buf[f])

FileInv(f) ==
    /\ rest[f] \in Seq(Records) /\ buf[f] \in Seq(Records)
    /\ Gone(f) \in Nat /\ Len(buf[f]) <= 1
    /\ \A i \in DOMAIN buf[f] : buf[f][i] = input[f][Gone(f) + i]
    /\ \A i \in DOMAIN rest[f] : rest[f][i] = input[f][Gone(f) + Len(buf[f]) + i]
    /\ f <= opened /\ buf[f] = <<>> => rest[f] = <<>>
    /\ f > opened => buf[f] = <<>>
    /\ pc = "open" => Gone(f) = 0

ReadInv ==
    /\ pc \in {"open", "merge", "done", "failed"}
    /\ opened \in 0 .. NumFiles /\ sumEof \in 0 .. MaxFiles
    /\ pc \in {"merge", "done"} => opened = NumFiles
    /\ pc = "merge" => sumEof = MaxFiles - Cardinality(Live)
    /\ pc = "done" => Live = {}
    /\ DOMAIN rest = Files /\ DOMAIN buf = Files
    /\ \A f \in Files : FileInv(f)

Passed == {r \in InputRecords : r.at <= Gone(r.file)}
Ahead  == InputRecords \ Passed
Seen   == Passed \ omit

(* A merge takes the records in the order of their keys. *)
FrontInv == \A q \in Passed, p \in Ahead : q.key <= p.key

KeysGrow(s) == \A i, j \in DOMAIN s : i < j => s[i].key < s[j].key
HasKey(s, k) == \E i \in DOMAIN s : s[i].key = k
Lowest(k, I) == \A p \in I : k <= p.key

PlainInv ==
    sum = "no" =>
        /\ KeySorted(out)
        /\ ToSet(out) = Seen /\ Len(out) = Cardinality(Seen)
        /\ \A i, j \in DOMAIN out :
              i < j /\ out[i].file = out[j].file => out[i].at < out[j].at

(* No record of R with the key of r comes before it in its file. *)
FirstOf(r, R) ==
    r \in R /\ \A q \in R : q.key = r.key /\ q.file = r.file => r.at <= q.at

NoneInv ==
    sum = "none" =>
        /\ KeysGrow(out)
        /\ \A i \in DOMAIN out : FirstOf(out[i], Seen)
        /\ \A r \in Seen : HasKey(out, r.key)
        /\ prev = <<>> => Seen = {}
        /\ prev # <<>> => prev[1] \in Seen /\ \A r \in Seen : r.key <= prev[1].key

(* What is written, of the keys before the one that is owed. *)
Due(k, K, I) ==
    \/ \E r \in K : r.key = k
    \/ Lowest(k, I) /\ \E r \in I : r.key = k

FieldsInv ==
    sum = "fields" =>
        /\ KeysGrow(out)
        /\ \A i \in DOMAIN out : Due(out[i].key, Kept, InputRecords)
        /\ \A r \in Seen : \/ HasKey(out, r.key)
                           \/ pc # "done" /\ prec # <<>> /\ r.key = prec[1].key
        /\ out # <<>> => prec # <<>>

OwedInv ==
    /\ pc = "open" => prec = <<>>
    /\ pc = "merge" /\ prec = <<>> => InputRecords = {}
    /\ sum = "fields" /\ prec # <<>> /\ pc # "done" =>
        /\ \A i \in DOMAIN out : out[i].key < prec[1].key
        /\ \A p \in Ahead : prec[1].key <= p.key
        /\ written => prec[1] \in Seen
        /\ ~ written => Seen = {} /\ out = <<>> /\ Lowest(prec[1].key, InputRecords)

(* The records of R that have the key k. *)
Group(k, R) == {r \in R : r.key = k}

(* What is written of a key, and the total of the key that is owed, is the *)
(* sum of the records of that key that have been taken.                    *)
SumInv ==
    sum = "fields" =>
        /\ \A i \in DOMAIN out : out[i].val = Held(Total(Group(out[i].key, Seen)))
        /\ pc # "done" /\ prec # <<>> =>
              total = Held(Total(Group(prec[1].key, Seen)))

WriteInv ==
    /\ out \in Seq(Records)
    /\ prev \in {<<>>} \cup {<<r>> : r \in InputRecords}
    /\ prec \in {<<>>} \cup {<<r>> : r \in InputRecords}
    /\ total \in 0 .. Modulus - 1
    /\ written \in BOOLEAN
    /\ written => prec # <<>>
    /\ IsFiniteSet(Seen)
    /\ PlainInv /\ NoneInv /\ FieldsInv /\ OwedInv

IInv == InputInv /\ ReadInv /\ FrontInv /\ WriteInv

(* There is a file to merge, and a place in the array for each. *)
LEMMA NumFilesIsNat == NumFiles \in Nat \ {0} /\ MaxFiles \in Nat /\ NumFiles <= MaxFiles
BY MergeAssumption

(* A sequence that is not empty has a first element.                       *)
LEMMA OneElement ==
    ASSUME NEW S, NEW s \in Seq(S), s # <<>>, Len(s) <= 1
    PROVE  Len(s) = 1 /\ s = <<s[1]>> /\ DOMAIN s = {1}
<1> DEFINE n == Len(s)
<1>1. n \in Nat /\ n > 0 /\ n <= 1
  OBVIOUS
<1>2. n = 1
  <2> HIDE DEF n
  <2> QED BY <1>1
<1> QED BY <1>2

-----------------------------------------------------------------------------
(* The input files. *)

(* A record of the input is known by its file and its place in it.         *)
LEMMA PlacesOfRecords ==
    ASSUME InputInv
    PROVE  /\ InputRecords \subseteq Records
           /\ \A f \in Files : \A i \in 1 .. Len(input[f]) : input[f][i] \in InputRecords
           /\ \A r \in InputRecords : /\ r.file \in Files
                                      /\ r.at \in 1 .. Len(input[r.file])
                                      /\ r = input[r.file][r.at]
<1>1. \A f \in Files : input[f] \in Seq(Records) /\ DOMAIN input[f] = 1 .. Len(input[f])
  BY DEF InputInv
<1>2. \A f \in Files : \A i \in 1 .. Len(input[f]) :
         input[f][i] \in Records /\ input[f][i].file = f /\ input[f][i].at = i
  BY <1>1 DEF InputInv
<1>3. \A r : r \in InputRecords <=> \E f \in Files : \E i \in 1 .. Len(input[f]) : r = input[f][i]
  BY <1>1 DEF InputRecords, ToSet
<1> QED BY <1>2, <1>3

(* When all the files are open, a file that has records ahead holds its    *)
(* first one, which has the least key of them.                             *)
LEMMA HeldIsFirst ==
    ASSUME InputInv, ReadInv, opened = NumFiles, NEW p \in Ahead
    PROVE  /\ p.file \in Live
           /\ buf[p.file][1] = input[p.file][Gone(p.file) + 1]
           /\ buf[p.file][1] \in Ahead
           /\ buf[p.file][1].file = p.file /\ buf[p.file][1].at = Gone(p.file) + 1
           /\ buf[p.file][1].at <= p.at
           /\ buf[p.file][1].key <= p.key
<1> DEFINE h == p.file
           q == input[h][Gone(h) + 1]
<1>1. h \in Files /\ p.at \in 1 .. Len(input[h]) /\ p = input[h][p.at]
      /\ Gone(h) \in Nat /\ p.at > Gone(h) /\ p \in InputRecords
  BY PlacesOfRecords DEF Ahead, Passed, ReadInv, FileInv
<1>2. /\ buf[h] \in Seq(Records) /\ rest[h] \in Seq(Records) /\ Len(buf[h]) <= 1
      /\ \A i \in DOMAIN buf[h] : buf[h][i] = input[h][Gone(h) + i]
      /\ buf[h] = <<>> => rest[h] = <<>>
      /\ Len(input[h]) \in Nat
  <2>1. h <= opened
    BY <1>1, NumFilesIsNat DEF Files
  <2>2. FileInv(h) /\ input[h] \in Seq(Records)
    BY <1>1 DEF ReadInv, InputInv
  <2> HIDE DEF h
  <2> QED BY <2>1, <2>2 DEF FileInv
<1>3. buf[h] # <<>>
  <2> SUFFICES ASSUME buf[h] = <<>> PROVE FALSE
    OBVIOUS
  <2>1. Len(rest[h]) = 0 /\ Len(buf[h]) = 0
    BY <1>2
  <2>2. Gone(h) = Len(input[h])
    BY <2>1, <1>2 DEF Gone
  <2> QED BY <2>2, <1>1
<1>4. buf[h][1] = q /\ h \in Live
  BY <1>1, <1>2, <1>3 DEF Live
<1>5. Gone(h) + 1 \in 1 .. Len(input[h])
  BY <1>1, <1>2
<1>6. q \in InputRecords /\ q.file = h /\ q.at = Gone(h) + 1
  BY <1>1, <1>5, PlacesOfRecords DEF InputInv
<1>7. q \in Ahead
  BY <1>1, <1>6 DEF Ahead, Passed
<1>8. q.key <= p.key
  <2>1. \A i, j \in DOMAIN input[h] : i < j => input[h][i].key <= input[h][j].key
    BY <1>1 DEF InputInv, KeySorted
  <2>2. DOMAIN input[h] = 1 .. Len(input[h])
    BY <1>1 DEF InputInv
  <2>3. CASE Gone(h) + 1 < p.at
    BY <2>1, <2>2, <2>3, <1>1, <1>5
  <2>4. CASE Gone(h) + 1 = p.at
    <3>1. p.key \in Nat
      BY <1>1, PlacesOfRecords DEF Records
    <3> QED BY <2>4, <3>1, <1>1
  <2> QED BY <2>3, <2>4, <1>1
<1> QED BY <1>1, <1>4, <1>6, <1>7, <1>8

(* The record that is chosen comes before all that are ahead.              *)
LEMMA ChosenIsLeast ==
    ASSUME InputInv, ReadInv, opened = NumFiles,
           NEW k \in Files, Chosen(k), NEW r, r = buf[k][1]
    PROVE  /\ r \in Ahead /\ r.file = k /\ r.at = Gone(k) + 1 /\ buf[k] = <<r>>
           /\ \A p \in Ahead : r.key <= p.key
           /\ \A p \in Ahead : p.file = k => r.at <= p.at
<1>1. opened = NumFiles /\ k \in Live /\ r = buf[k][1]
      /\ \A h \in Live \ {k} :
           IF h < k THEN Precedes(buf[k][1], buf[h][1]) ELSE ~ Precedes(buf[h][1], buf[k][1])
  BY DEF Chosen
<1>2. /\ buf[k] \in Seq(Records) /\ Len(buf[k]) <= 1 /\ buf[k] # <<>> /\ Gone(k) \in Nat
      /\ rest[k] \in Seq(Records) /\ Len(input[k]) \in Nat
      /\ \A i \in DOMAIN buf[k] : buf[k][i] = input[k][Gone(k) + i]
  BY <1>1 DEF Live, ReadInv, FileInv, InputInv
<1>3. Len(buf[k]) = 1 /\ buf[k] = <<r>> /\ r = input[k][Gone(k) + 1]
  <2>1. Len(buf[k]) = 1 /\ buf[k] = <<buf[k][1]>> /\ DOMAIN buf[k] = {1}
    BY <1>2, OneElement
  <2> QED BY <1>1, <1>2, <2>1
<1>4. Gone(k) + 1 \in 1 .. Len(input[k])
  <2> DEFINE n == Len(input[k])
             m == Len(rest[k])
             g == Gone(k)
  <2>1. n \in Nat /\ m \in Nat /\ g \in Nat
    BY <1>2
  <2>2. g = n - m - 1
    BY <1>3 DEF Gone
  <2>3. g + 1 \in 1 .. n
    <3> HIDE DEF n, m, g
    <3> QED BY <2>1, <2>2
  <2> QED BY <2>3
<1>5. r \in InputRecords /\ r.file = k /\ r.at = Gone(k) + 1
  BY <1>3, <1>4, PlacesOfRecords DEF InputInv
<1>6. r \in Ahead
  BY <1>2, <1>5 DEF Ahead, Passed
<1>7. ASSUME NEW p \in Ahead
      PROVE  r.key <= p.key
  <2>1. p.file \in Live /\ buf[p.file][1] \in Ahead /\ buf[p.file][1].key <= p.key
    BY <1>1, HeldIsFirst
  <2>2. r.key \in Nat /\ p.key \in Nat /\ buf[p.file][1].key \in Nat
    BY <1>6, <2>1, PlacesOfRecords DEF Ahead, Records
  <2>3. CASE p.file = k
    BY <1>1, <2>1, <2>2, <2>3
  <2>4. CASE p.file # k
    <3>1. \/ Precedes(r, buf[p.file][1])
          \/ ~ Precedes(buf[p.file][1], r)
      BY <1>1, <2>1, <2>4
    <3> QED BY <3>1, <2>1, <2>2 DEF Precedes
  <2> QED BY <2>3, <2>4
<1>8. \A p \in Ahead : p.file = k => r.at <= p.at
  BY <1>1, <1>5, HeldIsFirst
<1> QED BY <1>3, <1>5, <1>6, <1>7, <1>8

(* So does the record whose turn it is. *)
LEMMA TurnIsLeast ==
    ASSUME InputInv, ReadInv, NEW k \in Files, NEW r \in InputRecords, Turn(k, r)
    PROVE  /\ r \in Ahead /\ r.file = k /\ r.at = Gone(k) + 1 /\ buf[k] = <<r>>
           /\ \A p \in Ahead : r.key <= p.key
           /\ \A p \in Ahead : p.file = k => r.at <= p.at
<1>1. opened = NumFiles /\ Chosen(k) /\ r = buf[k][1]
  BY DEF Turn, ReadInv
<1> QED BY <1>1, ChosenIsLeast

-----------------------------------------------------------------------------
(* One record is taken. *)

(* The file whose record was taken is read again.                          *)
LEMMA FileRead ==
    ASSUME InputInv, ReadInv, NEW k \in Files, NEW r \in InputRecords,
           Turn(k, r), Advance(k), UNCHANGED settings, pc' \in {pc, "failed"}
    PROVE  /\ DOMAIN rest' = Files /\ DOMAIN buf' = Files
           /\ FileInv(k)' /\ Gone(k)' = Gone(k) + 1
           /\ \A h \in Files \ {k} : FileInv(h)' /\ Gone(h)' = Gone(h)
           /\ Live' = IF rest[k] = <<>> THEN Live \ {k} ELSE Live
<1>1. /\ DOMAIN rest = Files /\ DOMAIN buf = Files /\ FileInv(k) /\ k \in Live
      /\ pc = "merge" /\ opened = NumFiles /\ k <= NumFiles
      /\ \A h \in Files : FileInv(h)
  BY NumFilesIsNat DEF ReadInv, Turn, Chosen, Files
<1>2. /\ DOMAIN rest' = Files /\ DOMAIN buf' = Files
      /\ buf'[k] = OneOf(rest[k]) /\ rest'[k] = Others(rest[k])
      /\ input' = input /\ opened' = opened /\ pc' \in {"merge", "failed"}
      /\ \A h \in Files \ {k} : buf'[h] = buf[h] /\ rest'[h] = rest[h]
  BY <1>1 DEF Advance, settings
<1>3. \A h \in Files \ {k} : FileInv(h)' /\ Gone(h)' = Gone(h)
  <2> SUFFICES ASSUME NEW h \in Files \ {k} PROVE FileInv(h)' /\ Gone(h)' = Gone(h)
    OBVIOUS
  <2>1. /\ buf'[h] = buf[h] /\ rest'[h] = rest[h] /\ input'[h] = input[h]
        /\ opened' = opened /\ pc' # "open" /\ FileInv(h)
    BY <1>1, <1>2
  <2>2. Gone(h)' = Gone(h)
    BY <2>1 DEF Gone
  <2> QED BY <2>1, <2>2 DEF FileInv
<1>4. /\ Len(buf[k]) = 1 /\ Gone(k) \in Nat /\ rest[k] \in Seq(Records)
      /\ Len(rest[k]) \in Nat /\ Len(input[k]) \in Nat
      /\ \A i \in DOMAIN rest[k] : rest[k][i] = input[k][Gone(k) + Len(buf[k]) + i]
      /\ \A i \in DOMAIN rest[k] : rest[k][i] = input[k][Gone(k) + 1 + i]
  <2>1. Len(buf[k]) = 1
    BY <1>1, OneElement DEF FileInv, Live
  <2>2. /\ Gone(k) \in Nat /\ rest[k] \in Seq(Records) /\ input[k] \in Seq(Records)
        /\ \A i \in DOMAIN rest[k] : rest[k][i] = input[k][Gone(k) + Len(buf[k]) + i]
    BY <1>1 DEF FileInv, InputInv
  <2> QED BY <2>1, <2>2
<1>5. CASE rest[k] = <<>>
  <2>1. buf'[k] = <<>> /\ rest'[k] = <<>>
    BY <1>2, <1>5 DEF OneOf, Others
  <2>2. Gone(k)' = Gone(k) + 1
    <3>1. Gone(k) = Len(input[k]) - 0 - 1 /\ Gone(k)' = Len(input[k]) - 0 - 0
      BY <1>2, <1>4, <1>5, <2>1 DEF Gone
    <3> QED BY <3>1, <1>4
  <2>3. FileInv(k)'
    BY <1>1, <1>2, <1>4, <2>1, <2>2 DEF FileInv
  <2>4. Live' = Live \ {k}
    BY <1>2, <2>1 DEF Live
  <2> QED BY <1>2, <1>3, <1>5, <2>2, <2>3, <2>4
<1>6. CASE rest[k] # <<>>
  <2>1. buf'[k] = <<Head(rest[k])>> /\ rest'[k] = Tail(rest[k])
    BY <1>2, <1>6 DEF OneOf, Others
  <2>2. /\ Head(rest[k]) = rest[k][1] /\ Head(rest[k]) \in Records /\ 1 \in DOMAIN rest[k]
        /\ Tail(rest[k]) \in Seq(Records) /\ Len(Tail(rest[k])) = Len(rest[k]) - 1
        /\ \A i \in DOMAIN Tail(rest[k]) : /\ i \in Nat /\ i + 1 \in DOMAIN rest[k]
                                           /\ Tail(rest[k])[i] = rest[k][i + 1]
    BY <1>4, <1>6
  <2>3. /\ Len(buf'[k]) = 1 /\ Len(rest'[k]) = Len(rest[k]) - 1
        /\ DOMAIN buf'[k] = {1} /\ buf'[k] \in Seq(Records) /\ buf'[k] # <<>>
        /\ rest'[k] \in Seq(Records) /\ buf'[k][1] = rest[k][1]
    BY <2>1, <2>2
  <2>4. Gone(k)' = Gone(k) + 1
    <3> DEFINE n == Len(input[k])
               m == Len(rest[k])
    <3>1. Gone(k) = n - m - 1 /\ Gone(k)' = n - (m - 1) - 1 /\ n \in Nat /\ m \in Nat
      BY <1>2, <1>4, <2>3 DEF Gone
    <3> HIDE DEF n, m
    <3> QED BY <3>1
  <2>5. \A i \in DOMAIN buf'[k] : buf'[k][i] = input[k][Gone(k)' + i]
    <3>1. rest[k][1] = input[k][Gone(k) + 1 + 1]
      BY <1>4, <2>2
    <3> QED BY <2>3, <2>4, <3>1
  <2>6. \A i \in DOMAIN rest'[k] : rest'[k][i] = input[k][Gone(k)' + 1 + i]
    <3> SUFFICES ASSUME NEW i \in DOMAIN rest'[k] PROVE rest'[k][i] = input[k][Gone(k)' + 1 + i]
      OBVIOUS
    <3>1. i \in Nat /\ rest'[k][i] = rest[k][i + 1] /\ i + 1 \in DOMAIN rest[k]
      BY <2>1, <2>2
    <3>2. rest[k][i + 1] = input[k][Gone(k) + 1 + (i + 1)]
      BY <1>4, <3>1
    <3>3. Gone(k) + 1 + (i + 1) = Gone(k)' + 1 + i
      BY <1>4, <2>4, <3>1
    <3> QED BY <3>1, <3>2, <3>3
  <2>7. FileInv(k)'
    <3>1. Len(buf'[k]) <= 1
      BY <2>3
    <3>2. \A i \in DOMAIN rest'[k] : rest'[k][i] = input[k][Gone(k)' + Len(buf'[k]) + i]
      BY <2>3, <2>6
    <3>3. Gone(k)' \in Nat
      BY <1>4, <2>4
    <3>4. ~ (k > opened)
      BY <1>1, NumFilesIsNat DEF Files
    <3> QED BY <1>1, <1>2, <2>3, <2>5, <3>1, <3>2, <3>3, <3>4 DEF FileInv
  <2>8. Live' = Live
    BY <1>1, <1>2, <2>3 DEF Live
  <2> QED BY <1>2, <1>3, <1>6, <2>4, <2>7, <2>8
<1> QED BY <1>5, <1>6

(* There are at most as many files held as there are files.                *)
LEMMA SomeFiles ==
    ASSUME NEW L \in SUBSET Files
    PROVE  IsFiniteSet(L) /\ Cardinality(L) \in 0 .. NumFiles
<1>1. PICK n \in Int : n = NumFiles
  BY NumFilesIsNat
<1>2. IsFiniteSet(Files) /\ Cardinality(Files) = NumFiles
  <2>1. PICK a \in Int : a = 1
    OBVIOUS
  <2>2. IsFiniteSet(a .. n) /\ Cardinality(a .. n) = IF a > n THEN 0 ELSE n - a + 1
    BY FS_Interval
  <2>3. Files = a .. n /\ ~ (a > n) /\ n - a + 1 = NumFiles
    BY <1>1, <2>1, NumFilesIsNat DEF Files
  <2> QED BY <2>2, <2>3
<1>3. IsFiniteSet(L) /\ Cardinality(L) <= NumFiles
  BY <1>2, FS_Subset
<1>4. Cardinality(L) \in Nat
  BY <1>3, FS_CardinalityType
<1> QED BY <1>3, <1>4, NumFilesIsNat

(* What a turn of the merge does to the input, whatever is done with r:    *)
(* r was the least of the records ahead, and has been passed.              *)
LEMMA TurnTaken ==
    ASSUME InputInv, ReadInv, FrontInv, IsFiniteSet(Seen),
           NEW k \in Files, NEW r \in InputRecords,
           Turn(k, r), Advance(k), UNCHANGED settings, pc' \in {pc, "failed"}
    PROVE  /\ InputInv' /\ ReadInv' /\ FrontInv'
           /\ InputRecords' = InputRecords /\ Kept' = Kept
           /\ Ahead' = Ahead \ {r} /\ r \notin Passed
           /\ IsFiniteSet(Seen')
           /\ Seen' = IF LeftOut(r) THEN Seen ELSE Seen \cup {r}
           /\ ~ LeftOut(r) => r \notin Seen /\ Cardinality(Seen') = Cardinality(Seen) + 1
<1>1. /\ r \in Ahead /\ r.file = k /\ r.at = Gone(k) + 1
      /\ \A p \in Ahead : r.key <= p.key
      /\ \A p \in Ahead : p.file = k => r.at <= p.at
  BY TurnIsLeast
<1>2. /\ DOMAIN rest' = Files /\ DOMAIN buf' = Files
      /\ Gone(k)' = Gone(k) + 1
      /\ \A h \in Files : FileInv(h)'
      /\ \A h \in Files \ {k} : Gone(h)' = Gone(h)
      /\ Live' = IF rest[k] = <<>> THEN Live \ {k} ELSE Live
  BY FileRead
<1>3. input' = input /\ omit' = omit /\ sum' = sum
  BY DEF settings
<1>4. InputRecords' = InputRecords
  BY <1>3 DEF InputRecords
<1>5. InputInv'
  BY <1>3, <1>4 DEF InputInv
<1>6. ReadInv'
  <2>1. pc = "merge" /\ pc' \in {"merge", "failed"} /\ k \in Live /\ opened = NumFiles /\ opened' = opened
        /\ sumEof = MaxFiles - Cardinality(Live)
    BY DEF Turn, Chosen, ReadInv, Advance
  <2>2. IsFiniteSet(Live) /\ Cardinality(Live) \in 0 .. NumFiles /\ Cardinality(Live') \in 0 .. NumFiles
    <3>1. Live \in SUBSET Files /\ Live' \in SUBSET Files
      BY DEF Live
    <3> QED BY <3>1, SomeFiles
  <2>3. sumEof' = MaxFiles - Cardinality(Live')
    <3>1. CASE rest[k] = <<>>
      <4>1. Cardinality(Live') = Cardinality(Live) - 1
        BY <1>2, <2>1, <2>2, <3>1, FS_RemoveElement
      <4>2. sumEof' = sumEof + 1
        BY <3>1 DEF Advance, EofAfter
      <4> QED BY <2>1, <2>2, <4>1, <4>2, NumFilesIsNat
    <3>2. CASE rest[k] # <<>>
      BY <1>2, <2>1, <3>2 DEF Advance, EofAfter
    <3> QED BY <3>1, <3>2
  <2>4. sumEof' \in 0 .. MaxFiles
    BY <2>2, <2>3, NumFilesIsNat
  <2> QED BY <1>2, <2>1, <2>3, <2>4 DEF ReadInv
<1>7. \A p \in InputRecords : p \in Passed' <=> p \in Passed \/ p = r
  <2> SUFFICES ASSUME NEW p \in InputRecords
               PROVE  p.at <= Gone(p.file)' <=> p.at <= Gone(p.file) \/ p = r
    BY <1>4 DEF Passed
  <2>1. p.file \in Files /\ p.at \in Nat /\ p = input[p.file][p.at] /\ r = input[r.file][r.at]
    BY PlacesOfRecords
  <2>2. CASE p.file # k
    BY <1>1, <1>2, <2>1, <2>2
  <2>3. CASE p.file = k
    <3>1. Gone(k) \in Nat
      BY DEF ReadInv, FileInv
    <3>2. p.at = r.at => p = r
      BY <2>1, <2>3, <1>1
    <3> QED BY <1>1, <1>2, <2>1, <2>3, <3>1, <3>2
  <2> QED BY <2>2, <2>3
<1>8. Passed' = Passed \cup {r} /\ Ahead' = Ahead \ {r} /\ r \notin Passed
  <2>1. Passed \subseteq InputRecords /\ Passed' \subseteq InputRecords
    BY <1>4 DEF Passed
  <2>2. Passed' = Passed \cup {r}
    BY <1>7, <2>1
  <2> QED BY <1>1, <1>4, <2>2 DEF Ahead
<1>9. FrontInv'
  BY <1>1, <1>8 DEF FrontInv
<1>10. Seen' = IF LeftOut(r) THEN Seen ELSE Seen \cup {r}
  BY <1>3, <1>8 DEF Seen, LeftOut
<1>11. IsFiniteSet(Seen')
  BY <1>10, FS_AddElement
<1>12. ~ LeftOut(r) => r \notin Seen /\ Cardinality(Seen') = Cardinality(Seen) + 1
  BY <1>8, <1>10, FS_AddElement DEF Seen
<1> QED BY <1>3, <1>4, <1>5, <1>6, <1>8, <1>9, <1>10, <1>11, <1>12 DEF Kept

-----------------------------------------------------------------------------
(* Opening. *)

(* At the start nothing has been read, and the files are what the          *)
(* assumptions say.                                                        *)
LEMMA InputInvInit == Init => InputInv
<1> SUFFICES ASSUME Init PROVE InputInv
  OBVIOUS
<1>1. PICK shape \in Shapes :
        LET ids == UNION {{f} \X (1 .. shape[f]) : f \in Files}
        IN  \E ks \in [ids -> Keys], ts \in [ids -> Tails] :
               input = [f \in Files |-> [i \in 1 .. shape[f] |->
                           [key |-> ks[<<f, i>>], tail |-> ts[<<f, i>>], val |-> Values[<<f, i>>],
                            file |-> f, at |-> i]]]
  BY DEF Init
<1> DEFINE ids == UNION {{f} \X (1 .. shape[f]) : f \in Files}
<1>2. PICK ks \in [ids -> Keys], ts \in [ids -> Tails] :
        input = [f \in Files |-> [i \in 1 .. shape[f] |->
                    [key |-> ks[<<f, i>>], tail |-> ts[<<f, i>>], val |-> Values[<<f, i>>],
                     file |-> f, at |-> i]]]
  BY <1>1
<1>3. \A f \in Files : shape[f] \in Nat
  BY MergeAssumption DEF Files
<1>4. \A f \in Files : \A i \in 1 .. shape[f] :
        /\ ks[<<f, i>>] \in Nat /\ ts[<<f, i>>] \in Nat /\ Values[<<f, i>>] \in 0 .. Modulus - 1
        /\ i \in Nat \ {0}
  <2> SUFFICES ASSUME NEW f \in Files, NEW i \in 1 .. shape[f]
               PROVE  /\ ks[<<f, i>>] \in Nat /\ ts[<<f, i>>] \in Nat
                      /\ Values[<<f, i>>] \in 0 .. Modulus - 1 /\ i \in Nat \ {0}
    OBVIOUS
  <2>1. <<f, i>> \in ids
    OBVIOUS
  <2>2. ks[<<f, i>>] \in Keys /\ ts[<<f, i>>] \in Tails
    BY <2>1
  <2>3. Values[<<f, i>>] \in 0 .. Modulus - 1
    BY MergeAssumption DEF Files
  <2>4. Keys \subseteq Nat /\ Tails \subseteq Nat /\ Modulus \in Nat \ {0}
    BY MergeAssumption
  <2>5. i \in Nat \ {0}
    BY <1>3
  <2> QED BY <2>2, <2>3, <2>4, <2>5
<1> HIDE DEF ids
<1>5. ASSUME NEW f \in Files
      PROVE  /\ input[f] \in Seq(Records) /\ DOMAIN input[f] = 1 .. shape[f]
             /\ \A i \in 1 .. shape[f] : input[f][i].file = f /\ input[f][i].at = i
  <2>1. input[f] = [i \in 1 .. shape[f] |->
                      [key |-> ks[<<f, i>>], tail |-> ts[<<f, i>>], val |-> Values[<<f, i>>],
                       file |-> f, at |-> i]]
    BY <1>2
  <2>2. \A i \in 1 .. shape[f] :
          [key |-> ks[<<f, i>>], tail |-> ts[<<f, i>>], val |-> Values[<<f, i>>], file |-> f, at |-> i]
            \in Records
    BY <1>4 DEF Records
  <2>3. input[f] \in [1 .. shape[f] -> Records]
    BY <2>1, <2>2
  <2>4. input[f] \in Seq(Records) /\ DOMAIN input[f] = 1 .. shape[f]
    <3>1. shape[f] \in Nat
      BY <1>3
    <3> QED BY <2>3, <3>1
  <2>5. \A i \in 1 .. shape[f] : input[f][i].file = f /\ input[f][i].at = i
    BY <2>1
  <2> QED BY <2>4, <2>5
<1>6. input \in [Files -> Seq(Records)]
  BY <1>2, <1>5
<1>7. (\A f \in Files : KeySorted(input[f])) /\ omit \subseteq InputRecords
      /\ sum \in {"no", "none", "fields"}
  BY DEF Init
<1> QED BY <1>5, <1>6, <1>7 DEF InputInv

(* Nothing is passed as long as files are opened. *)
LEMMA OpenPassesNone ==
    ASSUME InputInv, \A f \in Files : Gone(f) = 0
    PROVE  Passed = {} /\ Seen = {}
BY PlacesOfRecords DEF Passed, Seen

(* Before the first file is opened nothing has been taken. *)
LEMMA IInvInit == Init => IInv
<1> SUFFICES ASSUME Init PROVE IInv
  OBVIOUS
<1>1. InputInv
  BY InputInvInit
<1>2. /\ pc = "open" /\ opened = 0 /\ sumEof = 0 /\ rest = input
      /\ buf = [f \in Files |-> <<>>]
      /\ prev = <<>> /\ prec = <<>> /\ total = 0 /\ written = FALSE
      /\ out = <<>>
  BY DEF Init
<1>3. \A f \in Files : Gone(f) = 0 /\ FileInv(f)
  <2> SUFFICES ASSUME NEW f \in Files PROVE Gone(f) = 0 /\ FileInv(f)
    OBVIOUS
  <2>1. rest[f] = input[f] /\ buf[f] = <<>> /\ input[f] \in Seq(Records)
        /\ Len(buf[f]) = 0 /\ Len(input[f]) \in Nat /\ DOMAIN input[f] = 1 .. Len(input[f])
    BY <1>1, <1>2 DEF InputInv
  <2>2. Gone(f) = 0
    <3> DEFINE n == Len(input[f])
    <3>1. Gone(f) = n - n - 0 /\ n \in Nat
      BY <2>1 DEF Gone
    <3> HIDE DEF n
    <3> QED BY <3>1
  <2>3. \A i \in DOMAIN rest[f] : i \in Nat /\ Gone(f) + Len(buf[f]) + i = i
    BY <2>1, <2>2
  <2>4. <<>> \in Seq(Records) /\ f > opened
    BY <1>2 DEF Files
  <2>5. \A i \in DOMAIN rest[f] : rest[f][i] = input[f][Gone(f) + Len(buf[f]) + i]
    BY <2>1, <2>3
  <2>6. DOMAIN buf[f] = {} /\ ~ (f <= opened)
    BY <1>2, <2>1 DEF Files
  <2> QED BY <1>2, <2>1, <2>2, <2>4, <2>5, <2>6 DEF FileInv
<1>4. Passed = {} /\ Seen = {}
  BY <1>1, <1>3, OpenPassesNone
<1>5. ReadInv
  BY <1>1, <1>2, <1>3, NumFilesIsNat DEF ReadInv, InputInv
<1>6. FrontInv
  BY <1>4 DEF FrontInv
<1>7. PlainInv /\ NoneInv /\ FieldsInv /\ OwedInv
  BY <1>2, <1>4, FS_EmptySet
     DEF PlainInv, NoneInv, FieldsInv, OwedInv, KeySorted, KeysGrow, ToSet
<1>8. WriteInv
  <2>1. 0 \in 0 .. Modulus - 1
    BY MergeAssumption
  <2>2. <<>> \in Seq(Records)
    OBVIOUS
  <2> QED BY <1>2, <1>4, <1>7, <2>1, <2>2, FS_EmptySet DEF WriteInv
<1> QED BY <1>1, <1>5, <1>6, <1>8 DEF IInv

(* The first record of a file is read.                                     *)
LEMMA FileOpened ==
    ASSUME InputInv, ReadInv, OpenFile
    PROVE  /\ InputInv' /\ ReadInv' /\ Passed' = Passed /\ Ahead' = Ahead /\ Seen' = Seen
           /\ InputRecords' = InputRecords /\ Kept' = Kept
<1> PICK k : k = opened + 1
  OBVIOUS
<1>1. /\ pc = "open" /\ pc' = pc /\ opened \in 0 .. NumFiles /\ opened < NumFiles /\ opened' = k
      /\ input' = input /\ omit' = omit /\ sum' = sum /\ sumEof' = sumEof
      /\ DOMAIN rest = Files /\ DOMAIN buf = Files
      /\ \A f \in Files : FileInv(f)
  BY DEF OpenFile, ReadInv, settings
<1>2. k \in Files /\ k > opened /\ opened \in Nat /\ opened' \in 0 .. NumFiles
  BY <1>1, NumFilesIsNat DEF Files
<1>3. /\ DOMAIN rest' = Files /\ DOMAIN buf' = Files
      /\ buf'[k] = OneOf(rest[k]) /\ rest'[k] = Others(rest[k])
      /\ \A h \in Files \ {k} : buf'[h] = buf[h] /\ rest'[h] = rest[h]
  BY <1>1, <1>2 DEF OpenFile
<1>4. ASSUME NEW h \in Files \ {k}
      PROVE  FileInv(h)' /\ Gone(h)' = Gone(h)
  <2>1. /\ buf'[h] = buf[h] /\ rest'[h] = rest[h] /\ input'[h] = input[h] /\ pc' = pc
        /\ FileInv(h)
    BY <1>1, <1>3
  <2>2. Gone(h)' = Gone(h)
    BY <2>1 DEF Gone
  <2>3. (h <= opened' => h <= opened) /\ (h > opened' => h > opened)
    BY <1>1, <1>2 DEF Files
  <2> QED BY <2>1, <2>2, <2>3 DEF FileInv
<1>5. /\ buf[k] = <<>> /\ Gone(k) = 0 /\ rest[k] \in Seq(Records)
      /\ Len(rest[k]) \in Nat /\ Len(input[k]) \in Nat /\ Len(buf[k]) = 0
      /\ \A i \in DOMAIN rest[k] : rest[k][i] = input[k][i]
  <2>1. /\ buf[k] = <<>> /\ Gone(k) = 0 /\ rest[k] \in Seq(Records) /\ input[k] \in Seq(Records)
        /\ \A i \in DOMAIN rest[k] : rest[k][i] = input[k][Gone(k) + Len(buf[k]) + i]
    BY <1>1, <1>2 DEF FileInv, InputInv
  <2>2. Len(buf[k]) = 0
    BY <2>1
  <2>3. \A i \in DOMAIN rest[k] : i \in Nat /\ Gone(k) + Len(buf[k]) + i = i
    BY <2>1, <2>2
  <2> QED BY <2>1, <2>2, <2>3
<1>6. FileInv(k)' /\ Gone(k)' = 0
  <2>1. CASE rest[k] = <<>>
    <3>1. buf'[k] = <<>> /\ rest'[k] = <<>>
      BY <1>3, <2>1 DEF OneOf, Others
    <3>2. Gone(k)' = Gone(k)
      BY <1>1, <1>5, <2>1, <3>1 DEF Gone
    <3>3. <<>> \in Seq(Records) /\ Len(<<>>) = 0 /\ DOMAIN <<>> = {}
      OBVIOUS
    <3> QED BY <1>1, <1>2, <1>5, <3>1, <3>2, <3>3 DEF FileInv
  <2>2. CASE rest[k] # <<>>
    <3>1. buf'[k] = <<Head(rest[k])>> /\ rest'[k] = Tail(rest[k])
      BY <1>3, <2>2 DEF OneOf, Others
    <3>2. /\ Head(rest[k]) = rest[k][1] /\ Head(rest[k]) \in Records /\ 1 \in DOMAIN rest[k]
          /\ Tail(rest[k]) \in Seq(Records) /\ Len(Tail(rest[k])) = Len(rest[k]) - 1
          /\ \A i \in DOMAIN Tail(rest[k]) : /\ i \in Nat /\ i + 1 \in DOMAIN rest[k]
                                             /\ Tail(rest[k])[i] = rest[k][i + 1]
      BY <1>5, <2>2
    <3>3. /\ Len(buf'[k]) = 1 /\ Len(rest'[k]) = Len(rest[k]) - 1
          /\ DOMAIN buf'[k] = {1} /\ buf'[k] \in Seq(Records) /\ buf'[k] # <<>>
          /\ rest'[k] \in Seq(Records) /\ buf'[k][1] = input[k][1]
      BY <1>5, <3>1, <3>2
    <3>4. Gone(k)' = 0
      <4> DEFINE n == Len(input[k])
                 m == Len(rest[k])
      <4>1. 0 = n - m - 0 /\ Gone(k)' = n - (m - 1) - 1 /\ n \in Nat /\ m \in Nat
        BY <1>1, <1>5, <3>3 DEF Gone
      <4> HIDE DEF n, m
      <4> QED BY <4>1
    <3>5. \A i \in DOMAIN rest'[k] : rest'[k][i] = input[k][0 + 1 + i]
      <4> SUFFICES ASSUME NEW i \in DOMAIN rest'[k] PROVE rest'[k][i] = input[k][0 + 1 + i]
        OBVIOUS
      <4>1. i \in Nat /\ rest'[k][i] = rest[k][i + 1] /\ i + 1 \in DOMAIN rest[k]
        BY <3>1, <3>2
      <4>2. 0 + 1 + i = i + 1
        BY <4>1
      <4> QED BY <1>5, <4>1, <4>2
    <3>6. ~ (k > opened') /\ Len(buf'[k]) <= 1
      BY <1>1, <1>2, <3>3
    <3>7. \A i \in DOMAIN buf'[k] : buf'[k][i] = input[k][0 + i]
      BY <3>3
    <3> QED BY <1>1, <3>3, <3>4, <3>5, <3>6, <3>7 DEF FileInv
  <2> QED BY <2>1, <2>2
<1>7. ReadInv'
  <2>1. \A f \in Files : FileInv(f)'
    BY <1>4, <1>6
  <2> QED BY <1>1, <1>2, <1>3, <2>1 DEF ReadInv
<1>8. InputRecords' = InputRecords
  BY <1>1 DEF InputRecords
<1>9. InputInv'
  BY <1>1, <1>8 DEF InputInv
<1>10. \A f \in Files : Gone(f)' = Gone(f)
  BY <1>4, <1>5, <1>6
<1>11. Passed' = Passed
  BY <1>8, <1>10, PlacesOfRecords DEF Passed
<1> QED BY <1>1, <1>7, <1>8, <1>9, <1>11 DEF Ahead, Seen, Kept

(* Some natural numbers have a least one. *)
LEMMA LeastOf ==
    ASSUME NEW S \in SUBSET Nat, S # {}
    PROVE  \E m \in S : \A n \in S : m <= n
<1>1. PICK R : R = OpToRel(<, Nat)
  OBVIOUS
<1>2. IsWellFoundedOn(R, Nat)
  BY <1>1, NatLessThanWellFounded
<1>3. PICK m \in S : \A n \in S : ~ (<<n, m>> \in R)
  BY <1>2, WFMin
<1>4. \A n \in S : m <= n
  <2> SUFFICES ASSUME NEW n \in S PROVE m <= n
    OBVIOUS
  <2>1. <<n, m>> \in Nat \X Nat /\ <<n, m>>[1] = n /\ <<n, m>>[2] = m
    OBVIOUS
  <2>2. R = {ss \in Nat \X Nat : ss[1] < ss[2]}
    BY <1>1 DEF OpToRel
  <2>3. ~ (n < m)
    BY <1>3, <2>1, <2>2
  <2> QED BY <2>3
<1> QED BY <1>4

(* As long as a file holds a record, one is chosen: job_IdentifyBufMerge   *)
(* never answers -1.                                                       *)
LEMMA OneIsChosen ==
    ASSUME InputInv, ReadInv, Live # {}
    PROVE  \E k \in Live : Chosen(k)
<1>1. ASSUME NEW f \in Live
      PROVE  f \in Files /\ f \in Nat /\ buf[f][1] \in Records
             /\ buf[f][1].key \in Nat /\ buf[f][1].tail \in Nat
  <2>1. f \in Files /\ buf[f] \in Seq(Records) /\ buf[f] # <<>>
    BY DEF Live, ReadInv, FileInv
  <2>2. buf[f][1] \in Records /\ f \in Nat
    BY <2>1 DEF Files
  <2> QED BY <2>1, <2>2 DEF Records
<1>2. PICK a \in Live : \A f \in Live : buf[a][1].key <= buf[f][1].key
  <2> DEFINE S == {buf[f][1].key : f \in Live}
  <2>1. S \in SUBSET Nat /\ S # {}
    BY <1>1
  <2>2. PICK m \in S : \A n \in S : m <= n
    BY <2>1, LeastOf
  <2> QED BY <2>2
<1> DEFINE A == {f \in Live : buf[f][1].key = buf[a][1].key}
<1>3. PICK b \in A : \A f \in A : buf[b][1].tail <= buf[f][1].tail
  <2> DEFINE S == {buf[f][1].tail : f \in A}
  <2>1. S \in SUBSET Nat /\ S # {}
    BY <1>1
  <2>2. PICK m \in S : \A n \in S : m <= n
    BY <2>1, LeastOf
  <2> QED BY <2>2
<1> DEFINE B == {f \in A : buf[f][1].tail = buf[b][1].tail}
<1>4. PICK c \in B : \A f \in B : c <= f
  <2>1. B \in SUBSET Nat /\ B # {}
    BY <1>1
  <2> QED BY <2>1, LeastOf
<1>5. Chosen(c)
  <2> SUFFICES ASSUME NEW h \in Live \ {c}
               PROVE  IF h < c THEN Precedes(buf[c][1], buf[h][1])
                               ELSE ~ Precedes(buf[h][1], buf[c][1])
    BY DEF Chosen
  <2>1. buf[c][1].key <= buf[h][1].key
    BY <1>2
  <2>2. buf[c][1].key = buf[h][1].key => buf[c][1].tail <= buf[h][1].tail
    BY <1>3
  <2>3. buf[c][1].key = buf[h][1].key /\ buf[c][1].tail = buf[h][1].tail => c <= h
    BY <1>4
  <2>4. /\ c \in Nat /\ h \in Nat /\ buf[c][1].key \in Nat /\ buf[h][1].key \in Nat
        /\ buf[c][1].tail \in Nat /\ buf[h][1].tail \in Nat
    BY <1>1
  <2> QED BY <2>1, <2>2, <2>3, <2>4 DEF Precedes
<1> QED BY <1>5

(* The first record that is owed is the least of all.                      *)
LEMMA FirstOwed ==
    ASSUME IInv, FirstGroup
    PROVE  IInv' /\ Seen' = {} /\ total' = 0 /\ (sum = "fields" => out' = <<>>)
<1>1. /\ InputInv /\ ReadInv /\ FrontInv /\ WriteInv
      /\ pc = "open" /\ pc' = "merge" /\ opened = NumFiles /\ opened' = opened
      /\ rest' = rest /\ buf' = buf /\ input' = input /\ omit' = omit /\ sum' = sum
      /\ sumEof' = MaxFiles - Cardinality(Live)
      /\ prec' = IF Live = {} THEN <<>> ELSE buf[CHOOSE k \in Live : Chosen(k)]
      /\ total' = 0 /\ prev' = prev /\ written' = written /\ out' = out
  BY DEF IInv, FirstGroup, settings
<1>2. InputRecords' = InputRecords /\ Live' = Live /\ Kept' = Kept
      /\ \A f \in Files : Gone(f)' = Gone(f) /\ Gone(f) = 0
  BY <1>1 DEF InputRecords, Live, Gone, Kept, ReadInv, FileInv
<1>3. InputInv'
  BY <1>1, <1>2 DEF InputInv
<1>4. ReadInv'
  <2>1. \A f \in Files : FileInv(f)'
    BY <1>1, <1>2 DEF ReadInv, FileInv
  <2>2. Live \in SUBSET Files
    BY DEF Live
  <2>3. Cardinality(Live) \in 0 .. NumFiles
    BY <2>2, SomeFiles
  <2>4. MaxFiles - Cardinality(Live) \in 0 .. MaxFiles
    BY <2>3, NumFilesIsNat
  <2> QED BY <1>1, <1>2, <2>1, <2>4 DEF ReadInv
<1>5. Passed = {} /\ Seen = {} /\ Passed' = {} /\ Seen' = {} /\ Ahead = InputRecords /\ Ahead' = Ahead
  <2>1. Passed = {} /\ Seen = {}
    BY <1>1, <1>2, OpenPassesNone
  <2>2. Passed' = {}
    BY <1>2, <1>1, <2>1, PlacesOfRecords DEF Passed
  <2> QED BY <1>2, <2>1, <2>2 DEF Ahead, Seen
<1>6. FrontInv'
  BY <1>5 DEF FrontInv
<1>7. /\ prec' \in {<<>>} \cup {<<r>> : r \in InputRecords}
      /\ prec' = <<>> => InputRecords = {}
      /\ prec' # <<>> => \A p \in InputRecords : prec'[1].key <= p.key
  <2>1. CASE Live = {}
    <3>1. prec' = <<>>
      BY <1>1, <2>1
    <3>2. InputRecords = {}
      BY <1>1, <1>5, <2>1, HeldIsFirst
    <3> QED BY <3>1, <3>2
  <2>2. CASE Live # {}
    <3>1. PICK k : k = CHOOSE j \in Live : Chosen(j)
      OBVIOUS
    <3>2. k \in Live /\ Chosen(k) /\ prec' = buf[k]
      BY <1>1, <2>2, <3>1, OneIsChosen
    <3>3. PICK r : r = buf[k][1]
      OBVIOUS
    <3>4. r \in Ahead /\ buf[k] = <<r>> /\ \A p \in Ahead : r.key <= p.key
      BY <1>1, <3>2, <3>3, ChosenIsLeast DEF Live
    <3> QED BY <1>5, <3>2, <3>4
  <2> QED BY <2>1, <2>2
<1>8. prec = <<>> /\ ~ written /\ (sum = "fields" => out = <<>>)
  BY <1>1 DEF WriteInv, OwedInv, FieldsInv
<1>9. PlainInv' /\ NoneInv'
  BY <1>1, <1>5 DEF WriteInv, PlainInv, NoneInv
<1>10. FieldsInv' /\ OwedInv'
  <2>1. sum' = "fields" => out' = <<>> /\ DOMAIN out' = {}
    BY <1>1, <1>8
  <2>2. FieldsInv'
    BY <1>5, <2>1 DEF FieldsInv, KeysGrow
  <2>3. written' = FALSE /\ pc' = "merge"
    BY <1>1, <1>8 DEF WriteInv
  <2>4. OwedInv'
    BY <1>2, <1>5, <1>7, <2>1, <2>3 DEF OwedInv, Lowest
  <2> QED BY <2>2, <2>4
<1>11. WriteInv'
  <2>1. 0 \in 0 .. Modulus - 1
    BY MergeAssumption
  <2> QED BY <1>1, <1>2, <1>5, <1>7, <1>8, <1>9, <1>10, <2>1, FS_EmptySet DEF WriteInv
<1> QED BY <1>1, <1>3, <1>4, <1>5, <1>6, <1>8, <1>11 DEF IInv

-----------------------------------------------------------------------------
(* What is written. *)

(* Nothing is written, and no record that is kept is passed. *)
LEMMA NothingWritten ==
    ASSUME WriteInv, UNCHANGED <<group, out, sum>>,
           InputRecords' = InputRecords, Kept' = Kept, Seen' = Seen, Ahead' \subseteq Ahead,
           pc' \in {"open", "merge", "done", "failed"},
           pc' # pc => \/ pc' = "failed" /\ pc # "done"
                       \/ pc' = "done" /\ pc = "merge" /\ ~ Pending
    PROVE  WriteInv'
<1>1. /\ prev' = prev /\ prec' = prec /\ total' = total /\ written' = written
      /\ out' = out /\ sum' = sum
  BY DEF group
<1>2. PlainInv' /\ NoneInv'
  BY <1>1 DEF WriteInv, PlainInv, NoneInv
<1>3. FieldsInv'
  <2> SUFFICES ASSUME sum = "fields"
               PROVE  /\ KeysGrow(out)
                      /\ \A i \in DOMAIN out : Due(out[i].key, Kept, InputRecords)
                      /\ \A r \in Seen : \/ HasKey(out, r.key)
                                         \/ pc' # "done" /\ prec # <<>> /\ r.key = prec[1].key
                      /\ out # <<>> => prec # <<>>
    BY <1>1 DEF FieldsInv
  <2>1. \A i \in DOMAIN out : Due(out[i].key, Kept, InputRecords)
    BY DEF WriteInv, FieldsInv
  <2>2. /\ KeysGrow(out) /\ (out # <<>> => prec # <<>>)
        /\ \A r \in Seen : \/ HasKey(out, r.key)
                           \/ pc # "done" /\ prec # <<>> /\ r.key = prec[1].key
    BY DEF WriteInv, FieldsInv
  <2>3. CASE pc' = "done" /\ pc # "done"
    <3>1. ~ written /\ pc = "merge"
      BY <2>3 DEF Pending, WriteInv
    <3>2. prec # <<>> => Seen = {}
      BY <3>1 DEF WriteInv, OwedInv
    <3> QED BY <2>1, <2>2, <3>2
  <2>4. CASE ~ (pc' = "done" /\ pc # "done")
    BY <2>1, <2>2, <2>4
  <2> QED BY <2>3, <2>4
<1>4. OwedInv'
  <2>1. /\ pc' = "open" => pc = "open"
        /\ pc' = "merge" => pc = "merge"
        /\ pc' # "done" => pc # "done"
    OBVIOUS
  <2>2. prec # <<>> => (Lowest(prec'[1].key, InputRecords') <=> Lowest(prec[1].key, InputRecords))
    BY <1>1
  <2>3. OwedInv
    BY DEF WriteInv
  <2> QED BY <1>1, <2>1, <2>2, <2>3 DEF OwedInv
<1>5. WriteInv'
  BY <1>1, <1>2, <1>3, <1>4 DEF WriteInv
<1> QED BY <1>5

(* What it is to write one more record. *)
Longer(s, e, t) ==
    /\ t \in Seq(Records) /\ Len(t) = Len(s) + 1 /\ Len(s) \in Nat /\ Len(s) + 1 \in DOMAIN t
    /\ \A i \in DOMAIN s : i \in DOMAIN t /\ t[i] = s[i]
    /\ \A i \in DOMAIN t : \/ i \in DOMAIN s /\ t[i] = s[i]
                           \/ i = Len(s) + 1 /\ t[i] = e
    /\ \A i, j \in DOMAIN t : i < j => i \in DOMAIN s
    /\ t[Len(s) + 1] = e /\ \A i \in DOMAIN s : i < Len(s) + 1
    /\ ToSet(t) = ToSet(s) \cup {e} /\ \A i \in DOMAIN t : t[i] \in Records

(* Append writes one more record. *)
LEMMA OneMore ==
    ASSUME NEW s \in Seq(Records), NEW e \in Records
    PROVE  Longer(s, e, Append(s, e))
<1> DEFINE t == Append(s, e)
           S == Records
<1>1. t \in Seq(S) /\ Len(t) = Len(s) + 1 /\ Len(s) \in Nat
  OBVIOUS
<1>2. DOMAIN s = 1 .. Len(s) /\ DOMAIN t = 1 .. Len(s) + 1
  BY <1>1
<1>3. \A i \in DOMAIN s : i \in DOMAIN t /\ t[i] = s[i]
  BY <1>1, <1>2
<1>4. t[Len(s) + 1] = e
  OBVIOUS
<1>5. \A i \in DOMAIN t : i \in DOMAIN s \/ i = Len(s) + 1
  <2> DEFINE n == Len(s)
  <2> HIDE DEF n
  <2> QED BY <1>1, <1>2 DEF n
<1>6. \A i, j \in DOMAIN t : i < j => i \in DOMAIN s
  BY <1>1, <1>2
<1>7. Len(s) + 1 \in DOMAIN t
  BY <1>1, <1>2
<1>8. ToSet(t) = ToSet(s) \cup {e}
  BY <1>3, <1>4, <1>5, <1>7 DEF ToSet
<1>9. \A i \in DOMAIN s : i < Len(s) + 1
  BY <1>1, <1>2
<1>11. \A i \in DOMAIN t : t[i] \in Records
  <2> HIDE DEF t
  <2> QED BY <1>1
<1> HIDE DEF t
<1>10. Longer(s, e, t)
  BY <1>1, <1>3, <1>4, <1>5, <1>6, <1>7, <1>8, <1>9, <1>11 DEF Longer
<1> QED BY <1>10 DEF t

(* What is known of the record r when it is its turn, whatever is done     *)
(* with it: it comes after all that are seen and before all that are       *)
(* ahead.                                                                  *)
Takes(r) ==
    /\ InputInv' /\ ReadInv' /\ FrontInv'
    /\ pc = "merge" /\ pc' \in {"merge", "failed"} /\ sum' = sum
    /\ InputRecords' = InputRecords /\ Kept' = Kept
    /\ r \in Records /\ r.key \in Nat /\ r \in Ahead /\ r \in InputRecords
    /\ Ahead' = Ahead \ {r} /\ IsFiniteSet(Seen') /\ Cardinality(Seen) \in Nat
    /\ LeftOut(r) => Seen' = Seen
    /\ ~ LeftOut(r) => /\ Seen' = Seen \cup {r} /\ r \notin Seen /\ r \in Kept
                       /\ Cardinality(Seen') = Cardinality(Seen) + 1
    /\ \A p \in Ahead : r.key <= p.key
    /\ \A q \in Seen : /\ q \in Records /\ q.key \in Nat /\ q.key <= r.key
                       /\ q.file = r.file => q.at < r.at

(* The record whose turn it is, once its file has been read again. *)
LEMMA TurnFacts ==
    ASSUME IInv, NEW k \in Files, NEW r \in InputRecords,
           Turn(k, r), Advance(k), UNCHANGED settings, pc' \in {pc, "failed"}
    PROVE  Takes(r)
<1>1. InputInv /\ ReadInv /\ FrontInv /\ WriteInv /\ IsFiniteSet(Seen)
  BY DEF IInv, WriteInv
<1>2. /\ InputInv' /\ ReadInv' /\ FrontInv'
      /\ InputRecords' = InputRecords /\ Kept' = Kept
      /\ Ahead' = Ahead \ {r} /\ r \notin Passed
      /\ IsFiniteSet(Seen')
      /\ Seen' = IF LeftOut(r) THEN Seen ELSE Seen \cup {r}
      /\ ~ LeftOut(r) => r \notin Seen /\ Cardinality(Seen') = Cardinality(Seen) + 1
  BY <1>1, TurnTaken
<1>3. r \in Ahead /\ r.file = k /\ r.at = Gone(k) + 1 /\ \A p \in Ahead : r.key <= p.key
  BY <1>1, TurnIsLeast
<1>4. r \in Records /\ r.key \in Nat
  BY <1>1, PlacesOfRecords DEF Records
<1>5. ASSUME NEW q \in Seen
      PROVE  /\ q \in Records /\ q.key \in Nat /\ q.key <= r.key
             /\ q.file = r.file => q.at < r.at
  <2>1. q \in Passed /\ q \in InputRecords /\ q.at <= Gone(q.file)
    BY DEF Seen, Passed
  <2>2. q \in Records /\ q.key \in Nat /\ q.at \in Nat
    BY <1>1, <2>1, PlacesOfRecords DEF Records
  <2>3. q.key <= r.key
    BY <1>1, <1>3, <2>1 DEF FrontInv
  <2>4. Gone(k) \in Nat
    BY <1>1 DEF ReadInv, FileInv
  <2> QED BY <1>3, <2>1, <2>2, <2>3, <2>4
<1>6. Cardinality(Seen) \in Nat
  BY <1>1, FS_CardinalityType
<1>7. pc = "merge" /\ sum' = sum
  BY DEF Turn, settings
<1>8. ~ LeftOut(r) => r \in Kept
  BY DEF LeftOut, Kept
<1> QED BY <1>2, <1>3, <1>4, <1>5, <1>6, <1>7, <1>8 DEF Takes

(* Without SUM FIELDS the record is written. *)
LEMMA PlainNext ==
    ASSUME IInv, NEW k \in Files, NEW r \in InputRecords, Plain(k, r)
    PROVE  IInv'
<1>1. /\ Turn(k, r) /\ Advance(k) /\ UNCHANGED settings /\ pc' = pc
      /\ ~ LeftOut(r) /\ sum = "no" /\ out' = Append(out, r)
      /\ prev' = prev /\ prec' = prec /\ total' = total /\ written' = written
  BY DEF Plain, group
<1>2. /\ InputInv' /\ ReadInv' /\ FrontInv'
      /\ pc = "merge" /\ pc' = "merge" /\ sum' = "no"
      /\ InputRecords' = InputRecords
      /\ r \in Records /\ r.key \in Nat
      /\ Seen' = Seen \cup {r} /\ IsFiniteSet(Seen')
      /\ Cardinality(Seen') = Cardinality(Seen) + 1
      /\ \A q \in Seen : q.key <= r.key /\ (q.file = r.file => q.at < r.at)
  <2>1. Takes(r)
    BY <1>1, TurnFacts
  <2> QED BY <1>1, <2>1 DEF Takes
<1>3. /\ out \in Seq(Records) /\ KeySorted(out)
      /\ ToSet(out) = Seen /\ Len(out) = Cardinality(Seen)
      /\ \A i, j \in DOMAIN out :
            i < j /\ out[i].file = out[j].file => out[i].at < out[j].at
  BY <1>1 DEF IInv, WriteInv, PlainInv
<1>4. Longer(out, r, out')
  <2>1. Longer(out, r, Append(out, r))
    BY <1>2, <1>3, OneMore
  <2> QED BY <1>1, <2>1
<1>5. \A i \in DOMAIN out : out[i] \in Seen
  BY <1>3 DEF ToSet
<1>6. ASSUME NEW i \in DOMAIN out', NEW j \in DOMAIN out', i < j
      PROVE  /\ out'[i].key <= out'[j].key
             /\ out'[i].file = out'[j].file => out'[i].at < out'[j].at
  <2>1. i \in DOMAIN out /\ out'[i] = out[i]
    BY <1>4, <1>6 DEF Longer
  <2>2. CASE j \in DOMAIN out /\ out'[j] = out[j]
    BY <1>3, <1>6, <2>1, <2>2 DEF KeySorted
  <2>3. CASE out'[j] = r
    BY <1>2, <1>5, <2>1, <2>3
  <2> QED BY <1>4, <2>2, <2>3 DEF Longer
<1>7. PlainInv'
  <2>1. KeySorted(out')
    BY <1>6 DEF KeySorted
  <2>2. ToSet(out') = Seen' /\ Len(out') = Cardinality(Seen')
    BY <1>2, <1>3, <1>4 DEF Longer
  <2>3. \A i, j \in DOMAIN out' :
            i < j /\ out'[i].file = out'[j].file => out'[i].at < out'[j].at
    BY <1>6
  <2> QED BY <2>1, <2>2, <2>3 DEF PlainInv
<1>8. NoneInv' /\ FieldsInv'
  BY <1>2 DEF NoneInv, FieldsInv
<1>9. OwedInv'
  BY <1>1, <1>2 DEF IInv, WriteInv, OwedInv
<1>10. WriteInv'
  BY <1>1, <1>2, <1>4, <1>7, <1>8, <1>9 DEF IInv, WriteInv, Longer
<1> QED BY <1>2, <1>10 DEF IInv

(* A record that is left out.                                              *)
LEMMA SkipNext ==
    ASSUME IInv, NEW k \in Files, NEW r \in InputRecords, Skip(k, r)
    PROVE  IInv'
<1>1. /\ Turn(k, r) /\ Advance(k) /\ UNCHANGED settings /\ pc' = pc /\ LeftOut(r)
      /\ UNCHANGED <<group, out, sum>>
  BY DEF Skip, settings
<1>2. Takes(r)
  BY <1>1, TurnFacts
<1>3. WriteInv'
  <2>1. /\ WriteInv /\ InputRecords' = InputRecords /\ Kept' = Kept /\ Seen' = Seen
        /\ Ahead' \subseteq Ahead /\ pc' \in {"open", "merge", "done", "failed"}
    BY <1>1, <1>2 DEF Takes, IInv
  <2> QED BY <1>1, <2>1, NothingWritten
<1> QED BY <1>2, <1>3 DEF Takes, IInv

(* SUM FIELDS=NONE: the first record of a key is written. *)
LEMMA NoneFirstNext ==
    ASSUME IInv, NEW k \in Files, NEW r \in InputRecords, NoneFirst(k, r)
    PROVE  IInv'
<1>1. /\ Turn(k, r) /\ Advance(k) /\ UNCHANGED settings /\ pc' = pc
      /\ ~ LeftOut(r) /\ sum = "none" /\ ~ SameAsPrevious(r)
      /\ prev' = <<r>> /\ out' = Append(out, r)
      /\ prec' = prec /\ total' = total /\ written' = written
  BY DEF NoneFirst
<1>2. Takes(r)
  BY <1>1, TurnFacts
<1>3. /\ InputRecords' = InputRecords /\ pc = "merge" /\ pc' = "merge" /\ sum' = "none"
      /\ r \in Records /\ r.key \in Nat /\ r \in InputRecords
      /\ Seen' = Seen \cup {r} /\ IsFiniteSet(Seen')
      /\ Cardinality(Seen') = Cardinality(Seen) + 1
      /\ \A q \in Seen : q.key \in Nat /\ q.key <= r.key
  BY <1>1, <1>2 DEF Takes
<1>4. /\ out \in Seq(Records) /\ KeysGrow(out)
      /\ \A i \in DOMAIN out : FirstOf(out[i], Seen)
      /\ \A q \in Seen : HasKey(out, q.key)
      /\ prev = <<>> => Seen = {}
      /\ prev # <<>> => prev[1] \in Seen /\ \A q \in Seen : q.key <= prev[1].key
  BY <1>1 DEF IInv, WriteInv, NoneInv
<1>5. Longer(out, r, out')
  <2>1. Longer(out, r, Append(out, r))
    BY <1>3, <1>4, OneMore
  <2> QED BY <1>1, <2>1
<1>6. \A q \in Seen : q.key < r.key
  <2>1. CASE prev = <<>>
    BY <1>4, <2>1
  <2>2. CASE prev # <<>>
    <3>1. prev[1].key # r.key
      BY <1>1, <2>2 DEF SameAsPrevious
    <3>2. prev[1] \in Seen /\ prev[1].key < r.key
      BY <1>3, <1>4, <2>2, <3>1
    <3> QED BY <1>3, <1>4, <2>2, <3>2
  <2> QED BY <2>1, <2>2
<1>7. \A i \in DOMAIN out : out[i] \in Seen
  BY <1>4 DEF FirstOf
<1>8. KeysGrow(out')
  <2> SUFFICES ASSUME NEW i \in DOMAIN out', NEW j \in DOMAIN out', i < j
               PROVE  out'[i].key < out'[j].key
    BY DEF KeysGrow
  <2>1. i \in DOMAIN out /\ out'[i] = out[i]
    BY <1>5 DEF Longer
  <2>2. CASE j \in DOMAIN out /\ out'[j] = out[j]
    BY <1>4, <2>1, <2>2 DEF KeysGrow
  <2>3. CASE out'[j] = r
    BY <1>6, <1>7, <2>1, <2>3
  <2> QED BY <1>5, <2>2, <2>3 DEF Longer
<1>9. \A q \in Seen' : HasKey(out', q.key)
  <2>1. HasKey(out', r.key)
    BY <1>5 DEF Longer, HasKey
  <2>2. \A q \in Seen : HasKey(out', q.key)
    BY <1>4, <1>5 DEF Longer, HasKey
  <2> QED BY <1>3, <2>1, <2>2
<1>10. NoneInv'
  <2>1. FirstOf(r, Seen')
    BY <1>3, <1>6 DEF FirstOf, Records
  <2>2. \A i \in DOMAIN out' : FirstOf(out'[i], Seen')
    <3>1. ASSUME NEW i \in DOMAIN out
          PROVE  FirstOf(out[i], Seen')
      BY <1>3, <1>4, <1>6, <1>7 DEF FirstOf
    <3> QED BY <1>5, <2>1, <3>1 DEF Longer
  <2>3. prev' # <<>> /\ prev'[1] = r
    BY <1>1
  <2>4. \A q \in Seen' : q.key <= prev'[1].key
    BY <1>3, <2>3
  <2> QED BY <1>3, <1>8, <1>9, <2>2, <2>3, <2>4 DEF NoneInv
<1>11. PlainInv' /\ FieldsInv'
  BY <1>3 DEF PlainInv, FieldsInv
<1>12. OwedInv'
  BY <1>1, <1>3 DEF IInv, WriteInv, OwedInv
<1>13. WriteInv'
  BY <1>1, <1>3, <1>4, <1>5, <1>10, <1>11, <1>12 DEF IInv, WriteInv, Longer
<1> QED BY <1>2, <1>13 DEF IInv, Takes

(* ... and the others are not, whether they are lost or the merge ends.    *)
LEMMA NoneAgainNext ==
    ASSUME IInv, NEW k \in Files, NEW r \in InputRecords, NoneAgain(k, r)
    PROVE  IInv'
<1>1. /\ Turn(k, r) /\ Advance(k) /\ UNCHANGED settings /\ pc' \in {"merge", "failed"}
      /\ ~ LeftOut(r) /\ sum = "none" /\ SameAsPrevious(r)
      /\ prev' = <<r>>
      /\ prec' = prec /\ total' = total /\ written' = written /\ out' = out
  BY DEF NoneAgain, AfterDiscard
<1>2. Takes(r)
  <2>1. pc' \in {pc, "failed"}
    BY <1>1 DEF Turn
  <2> QED BY <1>1, <2>1, TurnFacts
<1>3. /\ InputRecords' = InputRecords /\ pc = "merge" /\ sum' = "none"
      /\ r \in Records /\ r.key \in Nat /\ r \in InputRecords
      /\ Seen' = Seen \cup {r} /\ IsFiniteSet(Seen')
      /\ \A q \in Seen : /\ q \in Records /\ q.key \in Nat /\ q.key <= r.key
                         /\ q.file = r.file => q.at < r.at
  BY <1>1, <1>2 DEF Takes
<1>4. /\ out \in Seq(Records) /\ KeysGrow(out)
      /\ \A i \in DOMAIN out : FirstOf(out[i], Seen)
      /\ \A q \in Seen : HasKey(out, q.key)
      /\ prev # <<>> => prev[1] \in Seen
  BY <1>1 DEF IInv, WriteInv, NoneInv
<1>5. \A i \in DOMAIN out : FirstOf(out[i], Seen')
  <2> SUFFICES ASSUME NEW i \in DOMAIN out
               PROVE  FirstOf(out[i], Seen')
    OBVIOUS
  <2>1. FirstOf(out[i], Seen)
    BY <1>4
  <2>2. out[i].file = r.file => out[i].at <= r.at
    BY <1>3, <2>1 DEF FirstOf, Records
  <2> QED BY <1>3, <2>1, <2>2 DEF FirstOf
<1>6. \A q \in Seen' : HasKey(out', q.key)
  <2>1. HasKey(out, r.key)
    BY <1>1, <1>4 DEF SameAsPrevious
  <2> QED BY <1>1, <1>3, <1>4, <2>1
<1>7. NoneInv'
  <2>1. prev' # <<>> /\ prev'[1] = r
    BY <1>1
  <2>2. \A q \in Seen' : q.key <= prev'[1].key
    BY <1>3, <2>1
  <2> QED BY <1>1, <1>3, <1>4, <1>5, <1>6, <2>1, <2>2 DEF NoneInv
<1>8. PlainInv' /\ FieldsInv'
  BY <1>3 DEF PlainInv, FieldsInv
<1>9. OwedInv'
  BY <1>1, <1>3 DEF IInv, WriteInv, OwedInv
<1>10. WriteInv'
  BY <1>1, <1>3, <1>4, <1>7, <1>8, <1>9 DEF IInv, WriteInv
<1> QED BY <1>2, <1>10 DEF IInv, Takes

-----------------------------------------------------------------------------
(* SUM FIELDS. *)

(* A total fits the field. *)
LEMMA HeldFits ==
    ASSUME NEW n \in Int
    PROVE  Held(n) \in 0 .. Modulus - 1
BY MergeAssumption DEF Held

(* While the merge goes on a record is owed, and it is not of a later key. *)
LEMMA OwedFacts ==
    ASSUME IInv, pc = "merge", sum = "fields", InputRecords # {}
    PROVE  /\ prec # <<>> /\ prec[1] \in InputRecords /\ prec[1] \in Records
           /\ prec[1].key \in Nat /\ total \in Nat
           /\ Owed \in Records /\ Owed.key = prec[1].key /\ Due(prec[1].key, Kept, InputRecords)
           /\ \A i \in DOMAIN out : out[i].key < prec[1].key
           /\ \A p \in Ahead : prec[1].key <= p.key
           /\ written => prec[1] \in Seen
<1>1. /\ InputInv /\ prec \in {<<>>} \cup {<<r>> : r \in InputRecords}
      /\ prec # <<>> /\ total \in 0 .. Modulus - 1
      /\ OwedInv
  BY DEF IInv, WriteInv, OwedInv
<1>2. prec[1] \in InputRecords /\ prec[1] \in Records
  BY <1>1, PlacesOfRecords
<1>3. /\ \A i \in DOMAIN out : out[i].key < prec[1].key
      /\ \A p \in Ahead : prec[1].key <= p.key
      /\ written => prec[1] \in Seen
      /\ ~ written => Lowest(prec[1].key, InputRecords)
  BY <1>1 DEF OwedInv
<1>4. Owed \in Records /\ Owed.key = prec[1].key /\ prec[1].key \in Nat /\ total \in Nat
  BY <1>1, <1>2, MergeAssumption DEF Owed, Records
<1>5. Due(prec[1].key, Kept, InputRecords)
  <2>1. Seen \subseteq Kept
    BY DEF Seen, Passed, Kept
  <2> QED BY <1>2, <1>3, <2>1 DEF Due
<1> QED BY <1>1, <1>2, <1>3, <1>4, <1>5

(* The record is added to what is owed. *)
LEMMA SameKeyNext ==
    ASSUME IInv, NEW k \in Files, NEW r \in InputRecords, SameKey(k, r)
    PROVE  IInv'
<1>1. /\ Turn(k, r) /\ Advance(k) /\ UNCHANGED settings /\ pc' \in {"merge", "failed"}
      /\ ~ LeftOut(r) /\ sum = "fields" /\ prec[1].key = r.key
      /\ total' = Held(total + r.val) /\ prec' = <<r>> /\ written' = TRUE
      /\ prev' = prev /\ out' = out
  BY DEF SameKey, AfterDiscard
<1>2. Takes(r)
  <2>1. pc' \in {pc, "failed"}
    BY <1>1 DEF Turn
  <2> QED BY <1>1, <2>1, TurnFacts
<1>3. /\ InputRecords' = InputRecords /\ pc = "merge" /\ sum' = "fields"
      /\ r \in Records /\ r.key \in Nat /\ r.val \in Nat /\ r \in InputRecords
      /\ Seen' = Seen \cup {r} /\ IsFiniteSet(Seen') /\ Ahead' \subseteq Ahead
      /\ Kept' = Kept
      /\ \A p \in Ahead : r.key <= p.key
  BY <1>1, <1>2 DEF Takes, Records
<1>4. /\ prec # <<>> /\ total \in Nat
      /\ \A i \in DOMAIN out : out[i].key < prec[1].key
  BY <1>1, <1>3, OwedFacts
<1>5. /\ out \in Seq(Records) /\ KeysGrow(out)
      /\ \A i \in DOMAIN out : Due(out[i].key, Kept, InputRecords)
      /\ \A q \in Seen : HasKey(out, q.key) \/ q.key = prec[1].key
  BY <1>1, <1>3 DEF IInv, WriteInv, FieldsInv
<1>7. prec' # <<>> /\ prec'[1] = r
  BY <1>1
<1>8. FieldsInv'
  <2>1. \A i \in DOMAIN out' : Due(out'[i].key, Kept, InputRecords)
    BY <1>1, <1>5
  <2>2. \A q \in Seen' : HasKey(out', q.key) \/ q.key = prec'[1].key
    BY <1>1, <1>3, <1>5, <1>7
  <2> QED BY <1>1, <1>3, <1>5, <1>7, <2>1, <2>2 DEF FieldsInv
<1>9. OwedInv'
  <2>1. \A i \in DOMAIN out' : out'[i].key < prec'[1].key
    BY <1>1, <1>4, <1>7
  <2>2. \A p \in Ahead' : prec'[1].key <= p.key
    BY <1>3, <1>7
  <2>3. written' /\ prec'[1] \in Seen'
    BY <1>1, <1>3, <1>7
  <2>4. pc' # "open"
    BY <1>1, <1>3 DEF Turn
  <2> QED BY <1>3, <1>7, <2>1, <2>2, <2>3, <2>4 DEF OwedInv
<1>10. total' \in 0 .. Modulus - 1
  <2>1. total + r.val \in Int
    BY <1>3, <1>4
  <2> QED BY <1>1, <2>1, HeldFits
<1>11. PlainInv' /\ NoneInv'
  BY <1>3 DEF PlainInv, NoneInv
<1>12. WriteInv'
  BY <1>1, <1>3, <1>5, <1>7, <1>8, <1>9, <1>10, <1>11 DEF IInv, WriteInv
<1> QED BY <1>2, <1>12 DEF IInv, Takes

(* What is owed is written behind the keys that are. *)
LEMMA OwedWritten ==
    ASSUME IInv, pc = "merge", sum = "fields", InputRecords # {}, out' = Append(out, Owed)
    PROVE  /\ Longer(out, Owed, out') /\ KeysGrow(out')
           /\ \A i \in DOMAIN out' : Due(out'[i].key, Kept, InputRecords)
           /\ \A i \in DOMAIN out' : out'[i].key <= prec[1].key
           /\ \A q \in Seen : HasKey(out', q.key)
           /\ \A i \in DOMAIN out : out[i].key \in Nat
<1>1. /\ Owed \in Records /\ Owed.key = prec[1].key /\ Due(prec[1].key, Kept, InputRecords) /\ prec[1].key \in Nat
      /\ \A i \in DOMAIN out : out[i].key < prec[1].key
  BY OwedFacts
<1>2. /\ out \in Seq(Records) /\ KeysGrow(out)
      /\ \A i \in DOMAIN out : Due(out[i].key, Kept, InputRecords)
      /\ \A q \in Seen : HasKey(out, q.key) \/ q.key = prec[1].key
  BY DEF IInv, WriteInv, FieldsInv
<1>3. Longer(out, Owed, out')
  <2>1. Longer(out, Owed, Append(out, Owed))
    BY <1>1, <1>2, OneMore
  <2> QED BY <2>1
<1>4. \A i \in DOMAIN out : out[i] \in Records /\ out[i].key \in Nat
  <2>1. \A i \in DOMAIN out : out[i] \in Records
    BY <1>3 DEF Longer
  <2> QED BY <2>1 DEF Records
<1>5. ASSUME NEW i \in DOMAIN out'
      PROVE  Due(out'[i].key, Kept, InputRecords) /\ out'[i].key <= prec[1].key
  BY <1>1, <1>2, <1>3, <1>4 DEF Longer
<1>6. KeysGrow(out')
  <2> SUFFICES ASSUME NEW i \in DOMAIN out', NEW j \in DOMAIN out', i < j
               PROVE  out'[i].key < out'[j].key
    BY DEF KeysGrow
  <2>1. i \in DOMAIN out /\ out'[i] = out[i]
    BY <1>3 DEF Longer
  <2>2. CASE j \in DOMAIN out /\ out'[j] = out[j]
    BY <1>2, <2>1, <2>2 DEF KeysGrow
  <2>3. CASE out'[j] = Owed
    BY <1>1, <2>1, <2>3
  <2> QED BY <1>3, <2>2, <2>3 DEF Longer
<1>7. \A q \in Seen : HasKey(out', q.key)
  <2>1. HasKey(out', prec[1].key)
    BY <1>1, <1>3 DEF Longer, HasKey
  <2>2. \A q \in Seen : HasKey(out, q.key) => HasKey(out', q.key)
    BY <1>3 DEF Longer, HasKey
  <2> QED BY <1>2, <2>1, <2>2
<1> QED BY <1>3, <1>4, <1>5, <1>6, <1>7

(* The record is the first of another key. *)
LEMMA NewKeyNext ==
    ASSUME IInv, NEW k \in Files, NEW r \in InputRecords, NewKey(k, r)
    PROVE  IInv'
<1>1. /\ Turn(k, r) /\ Advance(k) /\ UNCHANGED settings /\ pc' = pc
      /\ ~ LeftOut(r) /\ sum = "fields" /\ prec[1].key # r.key
      /\ out' = Append(out, Owed)
      /\ total' = TotalOf(r) /\ prec' = <<r>> /\ written' = TRUE
      /\ prev' = prev
  BY DEF NewKey
<1>2. Takes(r)
  BY <1>1, TurnFacts
<1>3. /\ InputRecords' = InputRecords /\ pc = "merge" /\ pc' = "merge" /\ sum' = "fields"
      /\ r \in Records /\ r.key \in Nat /\ r.val \in Nat /\ r \in InputRecords /\ r \in Ahead
      /\ Seen' = Seen \cup {r} /\ IsFiniteSet(Seen') /\ Ahead' \subseteq Ahead
      /\ Kept' = Kept
      /\ \A p \in Ahead : r.key <= p.key
  BY <1>1, <1>2 DEF Takes, Records
<1>4. prec # <<>> /\ prec[1].key \in Nat /\ prec[1].key < r.key
  <2>1. prec # <<>> /\ prec[1].key \in Nat /\ prec[1].key <= r.key
    BY <1>1, <1>3, OwedFacts
  <2> QED BY <1>1, <1>3, <2>1
<1>5. /\ Longer(out, Owed, out') /\ KeysGrow(out')
      /\ \A i \in DOMAIN out' : Due(out'[i].key, Kept, InputRecords)
      /\ \A i \in DOMAIN out' : out'[i].key <= prec[1].key
      /\ \A q \in Seen : HasKey(out', q.key)
  BY <1>1, <1>3, OwedWritten
<1>6. \A i \in DOMAIN out' : out'[i] \in Records /\ out'[i].key \in Nat
  <2>1. \A i \in DOMAIN out' : out'[i] \in Records
    BY <1>5 DEF Longer
  <2> QED BY <2>1 DEF Records
<1>7. prec' # <<>> /\ prec'[1] = r
  BY <1>1
<1>8. FieldsInv'
  <2>2. \A q \in Seen' : HasKey(out', q.key) \/ q.key = prec'[1].key
    BY <1>3, <1>5, <1>7
  <2> QED BY <1>3, <1>5, <1>7, <2>2 DEF FieldsInv
<1>9. OwedInv'
  <2>1. \A i \in DOMAIN out' : out'[i].key < prec'[1].key
    BY <1>3, <1>4, <1>5, <1>6, <1>7
  <2>2. \A p \in Ahead' : prec'[1].key <= p.key
    BY <1>3, <1>7
  <2>3. written' /\ prec'[1] \in Seen'
    BY <1>1, <1>3, <1>7
  <2> QED BY <1>3, <1>7, <2>1, <2>2, <2>3 DEF OwedInv
<1>10. total' \in 0 .. Modulus - 1
  BY <1>1, <1>3, HeldFits DEF TotalOf
<1>11. PlainInv' /\ NoneInv'
  BY <1>3 DEF PlainInv, NoneInv
<1>12. WriteInv'
  BY <1>1, <1>3, <1>5, <1>7, <1>8, <1>9, <1>10, <1>11 DEF IInv, WriteInv, Longer
<1> QED BY <1>2, <1>12 DEF IInv, Takes

-----------------------------------------------------------------------------
(* The end. *)

(* The step changes none of the files. *)
LEMMA ReadingKept ==
    ASSUME IInv, UNCHANGED <<settings, reading>>,
           pc' \in {"open", "merge", "done", "failed"},
           pc' # pc => pc' = "failed" \/ (pc' = "done" /\ pc = "merge" /\ Live = {})
    PROVE  /\ InputInv' /\ ReadInv' /\ FrontInv'
           /\ InputRecords' = InputRecords /\ Kept' = Kept /\ Seen' = Seen /\ Ahead' = Ahead
<1>1. /\ input' = input /\ omit' = omit /\ sum' = sum
      /\ opened' = opened /\ rest' = rest /\ buf' = buf /\ sumEof' = sumEof
  BY DEF settings, reading
<1>2. /\ InputRecords' = InputRecords /\ Live' = Live
      /\ \A f : Gone(f)' = Gone(f)
  BY <1>1 DEF InputRecords, Live, Gone
<1>3. Passed' = Passed
  BY <1>2 DEF Passed
<1>4. Kept' = Kept /\ Seen' = Seen /\ Ahead' = Ahead
  BY <1>1, <1>2, <1>3 DEF Kept, Seen, Ahead
<1>5. InputInv' /\ FrontInv'
  BY <1>1, <1>2, <1>3, <1>4 DEF IInv, InputInv, FrontInv
<1>6. ReadInv'
  <2>1. \A f \in Files : FileInv(f)'
    BY <1>1, <1>2 DEF IInv, ReadInv, FileInv
  <2> QED BY <1>1, <1>2, <2>1 DEF IInv, ReadInv
<1> QED BY <1>2, <1>4, <1>5, <1>6

(* nSumEof tells when no file holds a record. *)
LEMMA EofTells ==
    ASSUME ReadInv, pc = "merge"
    PROVE  sumEof < MaxFiles <=> Live # {}
<1>1. Live \in SUBSET Files
  BY DEF Live
<1>2. IsFiniteSet(Live) /\ Cardinality(Live) \in 0 .. NumFiles
  BY <1>1, SomeFiles
<1>3. Cardinality(Live) = 0 <=> Live = {}
  BY <1>2, FS_EmptySet
<1> QED BY <1>2, <1>3, NumFilesIsNat DEF ReadInv

(* When the files have ended, what is owed is written. *)
LEMMA FinishNext ==
    ASSUME IInv, Finish
    PROVE  IInv'
<1>1. /\ pc = "merge" /\ pc' = "done" /\ UNCHANGED <<settings, reading>>
      /\ UNCHANGED <<group, sum>>
      /\ out' = IF Pending THEN Append(out, Owed) ELSE out
  BY DEF Finish, settings
<1>2. Live = {}
  <2>1. ~ (sumEof < MaxFiles)
    BY NumFilesIsNat DEF Finish, IInv, ReadInv
  <2> QED BY <1>1, <2>1, EofTells DEF IInv
<1>3. /\ InputInv' /\ ReadInv' /\ FrontInv'
      /\ InputRecords' = InputRecords /\ Kept' = Kept /\ Seen' = Seen /\ Ahead' = Ahead
  BY <1>1, <1>2, ReadingKept
<1>4. WriteInv
  BY DEF IInv
<1>5. CASE ~ Pending
  <2>1. UNCHANGED <<group, out, sum>>
    BY <1>1, <1>5
  <2>2. WriteInv'
    BY <1>1, <1>3, <1>4, <1>5, <2>1, NothingWritten
  <2> QED BY <1>3, <2>2 DEF IInv
<1>6. CASE Pending
  <2>1. sum = "fields" /\ written /\ sum' = sum /\ out' = Append(out, Owed)
        /\ prev' = prev /\ prec' = prec /\ total' = total /\ written' = written
    BY <1>1, <1>6 DEF Pending, group
  <2>2. InputRecords # {} /\ prec # <<>>
    BY <1>4, <2>1 DEF WriteInv
  <2>3. /\ Longer(out, Owed, out') /\ KeysGrow(out')
        /\ \A i \in DOMAIN out' : Due(out'[i].key, Kept, InputRecords)
        /\ \A q \in Seen : HasKey(out', q.key)
    BY <1>1, <2>1, <2>2, OwedWritten
  <2>4. FieldsInv'
    BY <1>3, <2>1, <2>2, <2>3 DEF FieldsInv
  <2>5. OwedInv'
    BY <1>1 DEF OwedInv
  <2>6. PlainInv' /\ NoneInv'
    BY <2>1 DEF PlainInv, NoneInv
  <2>7. WriteInv'
    BY <1>3, <1>4, <2>1, <2>3, <2>4, <2>5, <2>6 DEF WriteInv, Longer
  <2> QED BY <1>3, <2>7 DEF IInv
<1> QED BY <1>5, <1>6

(* The invariant is kept by each step. *)
LEMMA IInvNext == IInv /\ [Next]_vars => IInv'
<1> SUFFICES ASSUME IInv, [Next]_vars PROVE IInv'
  OBVIOUS
<1>1. CASE OpenFile
  <2>1. /\ InputInv' /\ ReadInv' /\ Passed' = Passed /\ Ahead' = Ahead /\ Seen' = Seen
        /\ InputRecords' = InputRecords /\ Kept' = Kept
    BY <1>1, FileOpened DEF IInv
  <2>2. UNCHANGED <<group, out, sum>> /\ pc' = pc /\ pc = "open"
    BY <1>1 DEF OpenFile, settings
  <2>3. WriteInv'
    BY <2>1, <2>2, NothingWritten DEF IInv
  <2> QED BY <2>1, <2>3 DEF IInv, FrontInv
<1>2. CASE FirstGroup
  BY <1>2, FirstOwed
<1>3. CASE MergeStep
  BY <1>3, SkipNext, PlainNext, NoneFirstNext, NoneAgainNext, SameKeyNext, NewKeyNext
     DEF MergeStep
<1>4. CASE Finish
  BY <1>4, FinishNext
<1>5. CASE OpenFails \/ WriteFails \/ FinishFails
  <2>1. /\ pc # "done" /\ pc' = "failed" /\ UNCHANGED <<settings, reading>>
        /\ UNCHANGED <<group, out, sum>>
    BY <1>5 DEF OpenFails, WriteFails, FinishFails, Turn, settings
  <2>2. /\ InputInv' /\ ReadInv' /\ FrontInv'
        /\ InputRecords' = InputRecords /\ Kept' = Kept /\ Seen' = Seen /\ Ahead' = Ahead
    BY <2>1, ReadingKept
  <2>3. WriteInv'
    BY <2>1, <2>2, NothingWritten DEF IInv
  <2> QED BY <2>2, <2>3 DEF IInv
<1>6. CASE Terminated \/ UNCHANGED vars
  <2>1. /\ pc' = pc /\ UNCHANGED <<settings, reading>>
        /\ UNCHANGED <<group, out, sum>>
    BY <1>6 DEF Terminated, vars, settings
  <2>2. pc \in {"open", "merge", "done", "failed"}
    BY DEF IInv, ReadInv
  <2>3. /\ InputInv' /\ ReadInv' /\ FrontInv'
        /\ InputRecords' = InputRecords /\ Kept' = Kept /\ Seen' = Seen /\ Ahead' = Ahead
    BY <2>1, <2>2, ReadingKept
  <2>4. WriteInv'
    BY <2>1, <2>2, <2>3, NothingWritten DEF IInv
  <2> QED BY <2>3, <2>4 DEF IInv
<1> QED BY <1>1, <1>2, <1>3, <1>4, <1>5, <1>6 DEF Next

(* So it always holds. *)
LEMMA IInvAlways == Spec => []IInv
BY IInvInit, IInvNext, PTL DEF Spec

-----------------------------------------------------------------------------
(* What the output holds. *)

(* In the end all the records have been taken. *)
LEMMA AllAreTaken ==
    ASSUME IInv, pc = "done"
    PROVE  Seen = Kept
<1>1. InputInv /\ ReadInv /\ opened = NumFiles /\ Live = {}
  BY DEF IInv, ReadInv
<1>2. Ahead = {}
  BY <1>1, HeldIsFirst
<1> QED BY <1>2 DEF Ahead, Passed, Seen, Kept

(* The types, the order of the output, and nSumEof. *)
LEMMA TypesHold ==
    ASSUME IInv
    PROVE  TypeOK
<1>1. \A f \in Files : buf[f] \in {<<>>} \cup {<<r>> : r \in InputRecords}
  <2> SUFFICES ASSUME NEW f \in Files, buf[f] # <<>>
               PROVE  buf[f] \in {<<r>> : r \in InputRecords}
    OBVIOUS
  <2>1. /\ InputInv /\ buf[f] \in Seq(Records) /\ rest[f] \in Seq(Records)
        /\ Len(buf[f]) <= 1 /\ Gone(f) \in Nat /\ Len(input[f]) \in Nat
        /\ \A i \in DOMAIN buf[f] : buf[f][i] = input[f][Gone(f) + i]
    BY DEF IInv, InputInv, ReadInv, FileInv
  <2>2. Len(buf[f]) = 1 /\ buf[f] = <<buf[f][1]>> /\ DOMAIN buf[f] = {1}
    BY <2>1, OneElement
  <2>3. buf[f][1] = input[f][Gone(f) + 1]
    BY <2>1, <2>2
  <2>4. Gone(f) + 1 \in 1 .. Len(input[f])
    <3> DEFINE n == Len(input[f])
               m == Len(rest[f])
               g == Gone(f)
    <3>1. n \in Nat /\ m \in Nat /\ g \in Nat
      BY <2>1
    <3>2. g = n - m - 1
      BY <2>2 DEF Gone
    <3>3. g + 1 \in 1 .. n
      <4> HIDE DEF n, m, g
      <4> QED BY <3>1, <3>2
    <3> QED BY <3>3
  <2>5. buf[f][1] \in InputRecords
    BY <2>1, <2>3, <2>4, PlacesOfRecords
  <2> QED BY <2>2, <2>5
<1> QED BY <1>1 DEF IInv, ReadInv, WriteInv, TypeOK

(* What is written is in key order, whatever SUM FIELDS is. *)
LEMMA OutputInOrder ==
    ASSUME IInv
    PROVE  MergeSorted
<1>1. out \in Seq(Records) /\ sum \in {"no", "none", "fields"}
      /\ PlainInv /\ NoneInv /\ FieldsInv
  BY DEF IInv, InputInv, WriteInv
<1>2. CASE sum = "no"
  BY <1>1, <1>2 DEF PlainInv, MergeSorted
<1>3. CASE KeysGrow(out)
  <2>1. \A i \in DOMAIN out : out[i] \in Records
    BY <1>1
  <2>2. \A i \in DOMAIN out : out[i].key \in Nat
    BY <2>1 DEF Records
  <2> QED BY <1>3, <2>2 DEF KeysGrow, MergeSorted, KeySorted
<1> QED BY <1>1, <1>2, <1>3 DEF NoneInv, FieldsInv

(* The output is in key order, the loop goes on as long as there are       *)
(* records and no longer, and the totals fit their field.                  *)
THEOREM MergeAlwaysRight == Spec => []MergeInv
<1>1. IInv => MergeInv
  <2> SUFFICES ASSUME IInv PROVE MergeInv
    OBVIOUS
  <2>1. TypeOK /\ MergeSorted
    BY TypesHold, OutputInOrder
  <2>2. EofCounted
    BY EofTells DEF IInv, EofCounted
  <2> QED BY <2>1, <2>2 DEF MergeInv
<1> QED BY <1>1, IInvAlways, PTL

(* Without SUM FIELDS what is written is what is kept, each record once    *)
(* and those of a file in their order.                                     *)
THEOREM AllAreKept == Spec => []KeepsAll
<1>1. IInv => KeepsAll
  <2> SUFFICES ASSUME IInv, pc = "done", sum = "no" PROVE KeepsAll
    BY DEF KeepsAll
  <2>1. PlainInv
    BY DEF IInv, WriteInv
  <2> QED BY <2>1, AllAreTaken DEF PlainInv, KeepsAll
<1> QED BY <1>1, IInvAlways, PTL

(* With SUM FIELDS=NONE what is written of a key is a record that is kept, *)
(* the first of its file that has the key.                                 *)
THEOREM FirstAlwaysKept == Spec => []FirstIsKept
<1>1. IInv => FirstIsKept
  <2> SUFFICES ASSUME IInv, pc = "done", sum = "none" PROVE FirstIsKept
    BY DEF FirstIsKept
  <2>1. NoneInv
    BY DEF IInv, WriteInv
  <2> QED BY <2>1, AllAreTaken DEF NoneInv, FirstOf, FirstIsKept
<1> QED BY <1>1, IInvAlways, PTL

(* Where the keys grow a key has one place. *)
LEMMA KeyHasOnePlace ==
    ASSUME NEW s \in Seq(Records), KeysGrow(s), NEW k, HasKey(s, k)
    PROVE  Cardinality({i \in DOMAIN s : s[i].key = k}) = 1
<1>1. PICK i \in DOMAIN s : s[i].key = k
  BY DEF HasKey
<1>2. \A j \in DOMAIN s : s[j] \in Records /\ j \in Nat
  OBVIOUS
<1>3. \A j \in DOMAIN s : s[j].key \in Nat
  BY <1>2 DEF Records
<1>4. ASSUME NEW j \in DOMAIN s, s[j].key = k
      PROVE  j = i
  <2>1. ~ (i < j) /\ ~ (j < i)
    BY <1>1, <1>3, <1>4 DEF KeysGrow
  <2> QED BY <2>1, <1>1, <1>2
<1>5. {j \in DOMAIN s : s[j].key = k} = {i}
  BY <1>1, <1>4
<1> QED BY <1>5, FS_Singleton

(* The lowest key is the least of those there are. *)
LEMMA LeastIsLowest ==
    ASSUME InputInv, NEW r \in InputRecords, Lowest(r.key, InputRecords)
    PROVE  r.key = LowestKey
<1> DEFINE S == {p.key : p \in InputRecords}
<1>1. \A x \in S : x \in Nat /\ r.key <= x
  <2>1. \A p \in InputRecords : p.key \in Nat
    BY PlacesOfRecords DEF Records
  <2> QED BY <2>1 DEF Lowest
<1>2. r.key \in S
  OBVIOUS
<1>3. \A x \in S : (\A y \in S : x <= y) => x = r.key
  BY <1>1, <1>2
<1>4. (CHOOSE x \in S : \A y \in S : x <= y) = r.key
  <2> HIDE DEF S
  <2> QED BY <1>1, <1>2, <1>3
<1> QED BY <1>4 DEF LowestKey, Min

(* With SUM FIELDS each key that is kept is written once, and no other,    *)
(* but for the lowest of all.                                              *)
THEOREM EachKeyOnce == Spec => []OncePerKey
<1>1. IInv => OncePerKey
  <2> SUFFICES ASSUME IInv, pc = "done", sum # "no" PROVE OncePerKey
    BY DEF OncePerKey
  <2>1. Seen = Kept /\ out \in Seq(Records) /\ InputInv
    BY AllAreTaken DEF IInv, WriteInv
  <2>2. KeysGrow(out) /\ \A r \in Kept : HasKey(out, r.key)
    BY <2>1 DEF IInv, InputInv, WriteInv, NoneInv, FieldsInv
  <2>3. \A r \in Kept : Cardinality({i \in DOMAIN out : out[i].key = r.key}) = 1
    BY <2>1, <2>2, KeyHasOnePlace
  <2>4. CASE sum = "none"
    <3>1. \A i \in DOMAIN out : out[i] \in Kept
      BY <2>1, <2>4 DEF IInv, WriteInv, NoneInv, FirstOf
    <3> QED BY <2>3, <2>4, <3>1 DEF OncePerKey
  <2>5. CASE sum = "fields"
    <3>1. ASSUME NEW i \in DOMAIN out
          PROVE  (\E r \in Kept : r.key = out[i].key) \/ out[i].key = LowestKey
      <4>1. Due(out[i].key, Kept, InputRecords)
        BY <2>5 DEF IInv, WriteInv, FieldsInv
      <4> QED BY <4>1, <2>1, LeastIsLowest DEF Due
    <3> QED BY <2>3, <2>5, <3>1 DEF OncePerKey
  <2> QED BY <2>4, <2>5 DEF IInv, InputInv
<1> QED BY <1>1, IInvAlways, PTL

-----------------------------------------------------------------------------
(* The sum of a set of records. *)

(* Among the sets of a collection one is such that no set with one element *)
(* less is in the collection.                                              *)
LEMMA SmallestSet ==
    ASSUME NEW S, IsFiniteSet(S), NEW B \in SUBSET (SUBSET S), B # {}
    PROVE  \E s \in B : \A x \in s : s \ {x} \notin B
<1> DEFINE N == {Cardinality(s) : s \in B}
<1>1. \A s \in SUBSET S : IsFiniteSet(s) /\ Cardinality(s) \in Nat
  BY FS_Subset, FS_CardinalityType
<1>2. N \in SUBSET Nat /\ N # {}
  BY <1>1
<1>3. PICK m \in N : \A n \in N : m <= n
  <2> HIDE DEF N
  <2> QED BY <1>2, LeastOf
<1>4. PICK s \in B : Cardinality(s) = m
  BY <1>3
<1>5. ASSUME NEW x \in s, s \ {x} \in B
      PROVE  FALSE
  <2>1. Cardinality(s \ {x}) = m - 1
    BY <1>1, <1>4, FS_RemoveElement
  <2>2. m <= Cardinality(s \ {x})
    BY <1>3, <1>5
  <2>3. m \in Nat
    BY <1>2, <1>3
  <2> QED BY <2>1, <2>2, <2>3
<1> QED BY <1>5

(* The function that the fold of Total is defined by. *)
First(s) == CHOOSE x \in s : TRUE
Adds(f, S) == f = [s \in SUBSET S |->
                     IF s = {} THEN 0 ELSE First(s).val + f[s \ {First(s)}]]
SumOf(S) == CHOOSE f : Adds(f, S)

(* Total is the value of this function for the whole set. *)
LEMMA TotalIsSum == ASSUME NEW S PROVE Total(S) = SumOf(S)[S]
BY DEF Total, MapThenSumSet, MapThenFoldSet, SumOf, Adds, First

(* Two such functions agree. *)
LEMMA AddsAlike ==
    ASSUME NEW S, NEW T, IsFiniteSet(S), T \subseteq S,
           NEW f, NEW g, Adds(f, S), Adds(g, T)
    PROVE  \A s \in SUBSET T : f[s] = g[s]
<1> DEFINE B == {s \in SUBSET T : f[s] # g[s]}
<1> SUFFICES ASSUME B # {} PROVE FALSE
  OBVIOUS
<1>1. IsFiniteSet(T) /\ B \in SUBSET (SUBSET T)
  BY FS_Subset
<1>2. PICK s \in B : \A x \in s : s \ {x} \notin B
  <2> HIDE DEF B
  <2> QED BY <1>1, SmallestSet
<1>3. s \in SUBSET T /\ s \in SUBSET S
  BY <1>2
<1>4. f[s] = IF s = {} THEN 0 ELSE First(s).val + f[s \ {First(s)}]
  BY <1>3 DEF Adds
<1>5. g[s] = IF s = {} THEN 0 ELSE First(s).val + g[s \ {First(s)}]
  BY <1>3 DEF Adds
<1>6. s # {}
  BY <1>2, <1>4, <1>5
<1>7. First(s) \in s
  BY <1>6 DEF First
<1>8. f[s \ {First(s)}] = g[s \ {First(s)}]
  BY <1>2, <1>3, <1>7
<1> QED BY <1>2, <1>4, <1>5, <1>8

(* There is such a function. *)
LEMMA SumExists ==
    ASSUME NEW S, IsFiniteSet(S)
    PROVE  Adds(SumOf(S), S)
<1> DEFINE B == {s \in SUBSET S : ~ \E f : Adds(f, s)}
<1> SUFFICES ASSUME B # {} PROVE FALSE
  <2>1. \E f : Adds(f, S)
    OBVIOUS
  <2> QED BY <2>1 DEF SumOf
<1>1. B \in SUBSET (SUBSET S)
  OBVIOUS
<1>2. PICK s \in B : \A x \in s : s \ {x} \notin B
  <2> HIDE DEF B
  <2> QED BY <1>1, SmallestSet
<1>3. s \in SUBSET S /\ IsFiniteSet(s) /\ \A x \in s : \E f : Adds(f, s \ {x})
  BY <1>2, FS_Subset
<1>4. ASSUME NEW t \in SUBSET s, t # s
      PROVE  Adds(SumOf(t), t)
  <2>1. PICK x \in s : t \subseteq s \ {x}
    BY <1>4
  <2>2. PICK f : Adds(f, s \ {x})
    BY <1>3, <2>1
  <2> DEFINE h == [u \in SUBSET t |-> f[u]]
  <2>3. ASSUME NEW u \in SUBSET t
        PROVE  f[u] = IF u = {} THEN 0 ELSE First(u).val + h[u \ {First(u)}]
    <3>1. f[u] = IF u = {} THEN 0 ELSE First(u).val + f[u \ {First(u)}]
      BY <2>1, <2>2 DEF Adds
    <3>2. h[u \ {First(u)}] = f[u \ {First(u)}]
      OBVIOUS
    <3> QED BY <3>1, <3>2
  <2>4. Adds(h, t)
    BY <2>3 DEF Adds
  <2> QED BY <2>4 DEF SumOf
<1> DEFINE g == [t \in SUBSET s |->
                   IF t = {} THEN 0
                   ELSE First(t).val + SumOf(t \ {First(t)})[t \ {First(t)}]]
<1>5. ASSUME NEW t \in SUBSET s, t # {}
      PROVE  g[t \ {First(t)}] = SumOf(t \ {First(t)})[t \ {First(t)}]
  <2>1. First(t) \in t
    BY <1>5 DEF First
  <2>2. PICK u : u = t \ {First(t)}
    OBVIOUS
  <2>3. u \in SUBSET s /\ u # s /\ IsFiniteSet(u)
    BY <1>3, <2>1, <2>2, FS_Subset
  <2>4. Adds(SumOf(u), u)
    BY <1>4, <2>3
  <2>5. SumOf(u)[u] = IF u = {} THEN 0 ELSE First(u).val + SumOf(u)[u \ {First(u)}]
    BY <2>4 DEF Adds
  <2>6. CASE u = {}
    BY <2>2, <2>3, <2>5, <2>6
  <2>7. CASE u # {}
    <3>1. First(u) \in u
      BY <2>7 DEF First
    <3>2. PICK v : v = u \ {First(u)}
      OBVIOUS
    <3>3. v \in SUBSET s /\ v # s /\ v \subseteq u
      BY <2>3, <3>1, <3>2
    <3>4. Adds(SumOf(v), v)
      BY <1>4, <3>3
    <3>5. SumOf(u)[v] = SumOf(v)[v]
      BY <2>3, <2>4, <3>3, <3>4, AddsAlike
    <3> QED BY <2>2, <2>3, <2>5, <2>7, <3>2, <3>5
  <2> QED BY <2>6, <2>7
<1>6. ASSUME NEW t \in SUBSET s
      PROVE  g[t] = IF t = {} THEN 0 ELSE First(t).val + g[t \ {First(t)}]
  BY <1>5
<1>7. Adds(g, s)
  <2>1. g = [t \in SUBSET s |-> g[t]]
    OBVIOUS
  <2> HIDE DEF g
  <2> QED BY <1>6, <2>1 DEF Adds
<1> QED BY <1>2, <1>7

(* The sum of a set is that of its first element and of the others. *)
LEMMA TotalStep ==
    ASSUME NEW S, IsFiniteSet(S)
    PROVE  Total(S) = IF S = {} THEN 0 ELSE First(S).val + Total(S \ {First(S)})
<1>1. Adds(SumOf(S), S)
  BY SumExists
<1>2. SumOf(S)[S] = IF S = {} THEN 0 ELSE First(S).val + SumOf(S)[S \ {First(S)}]
  BY <1>1 DEF Adds
<1>3. ASSUME S # {}
      PROVE  SumOf(S)[S \ {First(S)}] = Total(S \ {First(S)})
  <2>1. PICK u : u = S \ {First(S)}
    OBVIOUS
  <2>2. u \subseteq S /\ IsFiniteSet(u)
    BY <2>1, FS_Subset
  <2>3. Adds(SumOf(u), u)
    BY <2>2, SumExists
  <2>4. SumOf(S)[u] = SumOf(u)[u]
    BY <1>1, <2>2, <2>3, AddsAlike
  <2> QED BY <2>1, <2>4, TotalIsSum
<1> QED BY <1>2, <1>3, TotalIsSum

(* It is a whole number. *)
LEMMA TotalType ==
    ASSUME NEW S, IsFiniteSet(S), \A r \in S : r.val \in Nat
    PROVE  Total(S) \in Nat
<1> DEFINE B == {s \in SUBSET S : Total(s) \notin Nat}
<1> SUFFICES ASSUME B # {} PROVE FALSE
  OBVIOUS
<1>1. B \in SUBSET (SUBSET S)
  OBVIOUS
<1>2. PICK s \in B : \A x \in s : s \ {x} \notin B
  <2> HIDE DEF B
  <2> QED BY <1>1, SmallestSet
<1>3. s \in SUBSET S /\ IsFiniteSet(s)
  BY <1>2, FS_Subset
<1>4. Total(s) = IF s = {} THEN 0 ELSE First(s).val + Total(s \ {First(s)})
  BY <1>3, TotalStep
<1>5. CASE s = {}
  BY <1>2, <1>4, <1>5
<1>6. CASE s # {}
  <2>1. First(s) \in s
    BY <1>6 DEF First
  <2>2. Total(s \ {First(s)}) \in Nat /\ First(s).val \in Nat
    BY <1>2, <1>3, <2>1
  <2> QED BY <1>2, <1>4, <1>6, <2>2
<1> QED BY <1>5, <1>6

(* Any element may be the first. *)
LEMMA TotalOfAny ==
    ASSUME NEW S, IsFiniteSet(S), \A r \in S : r.val \in Nat, NEW x \in S
    PROVE  Total(S) = x.val + Total(S \ {x})
<1> DEFINE B == {s \in SUBSET S : \E y \in s : Total(s) # y.val + Total(s \ {y})}
<1> SUFFICES ASSUME B # {} PROVE FALSE
  OBVIOUS
<1>1. B \in SUBSET (SUBSET S)
  OBVIOUS
<1>2. PICK s \in B : \A y \in s : s \ {y} \notin B
  <2> HIDE DEF B
  <2> QED BY <1>1, SmallestSet
<1>3. PICK y \in s : Total(s) # y.val + Total(s \ {y})
  BY <1>2
<1>4. s \in SUBSET S /\ IsFiniteSet(s) /\ s # {}
  BY <1>2, <1>3, FS_Subset
<1>5. PICK p : p = First(s)
  OBVIOUS
<1>6. p \in s /\ Total(s) = p.val + Total(s \ {p})
  BY <1>4, <1>5, TotalStep DEF First
<1>7. p # y
  BY <1>3, <1>6
<1>8. Total(s \ {p}) = y.val + Total((s \ {p}) \ {y})
  BY <1>2, <1>3, <1>4, <1>6, <1>7
<1>9. Total(s \ {y}) = p.val + Total((s \ {y}) \ {p})
  BY <1>2, <1>3, <1>4, <1>6, <1>7
<1>10. (s \ {p}) \ {y} = (s \ {y}) \ {p}
  OBVIOUS
<1>11. Total((s \ {p}) \ {y}) \in Nat /\ p.val \in Nat /\ y.val \in Nat
  <2>1. IsFiniteSet((s \ {p}) \ {y}) /\ \A r \in (s \ {p}) \ {y} : r.val \in Nat
    BY <1>4, FS_Subset
  <2> QED BY <1>3, <1>4, <1>6, <2>1, TotalType
<1>12. PICK n \in Nat, a \in Nat, b \in Nat :
          n = Total((s \ {p}) \ {y}) /\ a = p.val /\ b = y.val
  BY <1>11
<1>13. Total(s) = a + (b + n)
  BY <1>6, <1>8, <1>12
<1>14. y.val + Total(s \ {y}) = b + (a + n)
  BY <1>9, <1>10, <1>12
<1>15. a + (b + n) = b + (a + n)
  OBVIOUS
<1> QED BY <1>3, <1>13, <1>14, <1>15

(* One more record adds its value. *)
LEMMA TotalOfMore ==
    ASSUME NEW S, IsFiniteSet(S), NEW x, x \notin S, \A r \in S \cup {x} : r.val \in Nat
    PROVE  Total(S \cup {x}) = x.val + Total(S) /\ Total(S) \in Nat
<1>1. IsFiniteSet(S \cup {x}) /\ (S \cup {x}) \ {x} = S
  BY FS_AddElement
<1>2. PICK T : T = S \cup {x}
  OBVIOUS
<1>3. Total(T) = x.val + Total(T \ {x})
  BY <1>1, <1>2, TotalOfAny
<1> QED BY <1>1, <1>2, <1>3, TotalType

(* Nothing is the sum of no record. *)
LEMMA TotalOfNone == Total({}) = 0
BY TotalStep, FS_EmptySet

(* There is one remainder. *)
LEMMA OneRemainder ==
    ASSUME NEW m \in Nat \ {0}, NEW q \in Int, NEW p \in Int,
           NEW r \in 0 .. m - 1, NEW s \in 0 .. m - 1, m * q + r = m * p + s, q <= p
    PROVE  r = s
<1>1. PICK d \in Nat : p = q + d
  <2>1. p - q \in Nat /\ p = q + (p - q)
    OBVIOUS
  <2> QED BY <2>1
<1>2. m * p = m * q + m * d
  BY <1>1
<1>3. m * q \in Int /\ m * d \in Int
  BY <1>1
<1>4. r = m * d + s
  BY <1>2, <1>3
<1>5. CASE d = 0
  BY <1>4, <1>5
<1>6. CASE d # 0
  <2>1. PICK e \in Nat : d = e + 1
    <3>1. d - 1 \in Nat /\ d = (d - 1) + 1
      BY <1>6
    <3> QED BY <3>1
  <2>2. m * d = m * e + m /\ m * e \in Nat
    BY <2>1
  <2> QED BY <1>4, <2>2
<1> QED BY <1>5, <1>6

(* Division with a remainder gives back the remainder. *)
LEMMA RemainderIs ==
    ASSUME NEW m \in Nat \ {0}, NEW q \in Int, NEW r \in 0 .. m - 1
    PROVE  (m * q + r) % m = r
<1>1. PICK n \in Int : n = m * q + r
  OBVIOUS
<1>2. PICK p \in Int, s \in 0 .. m - 1 : p = n \div m /\ s = n % m
  OBVIOUS
<1>3. n = m * p + s
  BY <1>2
<1>4. m * q + r = m * p + s /\ m * p + s = m * q + r
  BY <1>1, <1>3
<1>5. q <= p \/ p <= q
  OBVIOUS
<1>6. r = s
  BY <1>4, <1>5, OneRemainder
<1> QED BY <1>1, <1>2, <1>6

(* What is held of a sum does not depend on when the digits are cut off. *)
LEMMA HeldOfSum ==
    ASSUME NEW a \in Nat, NEW b \in Nat
    PROVE  Held(Held(a) + b) = Held(a + b)
<1>1. PICK m \in Nat \ {0} : m = Modulus
  BY MergeAssumption
<1>2. PICK q \in Int, r \in 0 .. m - 1 : q = a \div m /\ r = a % m
  OBVIOUS
<1>3. a = m * q + r
  BY <1>2
<1>4. PICK p \in Int, s \in 0 .. m - 1 : p = (r + b) \div m /\ s = (r + b) % m
  OBVIOUS
<1>5. r + b = m * p + s
  BY <1>4
<1>6. m * q \in Int /\ m * p \in Int /\ m * (q + p) = m * q + m * p
  OBVIOUS
<1>7. a + b = m * (q + p) + s
  BY <1>3, <1>5, <1>6
<1>8. (a + b) % m = s
  <2>1. PICK t \in Int : t = q + p
    OBVIOUS
  <2>2. (m * t + s) % m = s
    BY RemainderIs
  <2> QED BY <1>7, <2>1, <2>2
<1> QED BY <1>1, <1>2, <1>4, <1>8 DEF Held

-----------------------------------------------------------------------------
(* The totals. *)

(* A record that is taken adds to the group of its key, and to no other. *)
LEMMA GroupGrows ==
    ASSUME NEW S, IsFiniteSet(S), NEW r, r \notin S, \A q \in S \cup {r} : q.val \in Nat
    PROVE  /\ Total(Group(r.key, S \cup {r})) = r.val + Total(Group(r.key, S))
           /\ Total(Group(r.key, S)) \in Nat
           /\ \A k : k # r.key => Group(k, S \cup {r}) = Group(k, S)
<1>1. PICK G : G = Group(r.key, S)
  OBVIOUS
<1>2. G \subseteq S /\ r \notin G /\ IsFiniteSet(G)
  BY <1>1, FS_Subset DEF Group
<1>3. Group(r.key, S \cup {r}) = G \cup {r}
  BY <1>1 DEF Group
<1>4. Total(G \cup {r}) = r.val + Total(G) /\ Total(G) \in Nat
  BY <1>2, TotalOfMore
<1>5. \A k : k # r.key => Group(k, S \cup {r}) = Group(k, S)
  BY DEF Group
<1> QED BY <1>1, <1>3, <1>4, <1>5

(* When no record is taken and nothing is written the totals stay right. *)
LEMMA SumsStay ==
    ASSUME SumInv, UNCHANGED <<sum, out, prec, total>>, Seen' = Seen, pc = "done" => pc' = "done"
    PROVE  SumInv'
BY DEF SumInv

(* When the merge begins the totals are reset and no record is taken. *)
LEMMA FirstSum ==
    ASSUME IInv, FirstGroup
    PROVE  SumInv'
<1>1. Seen' = {} /\ total' = 0 /\ (sum = "fields" => out' = <<>>) /\ sum' = sum
  BY FirstOwed DEF FirstGroup, settings
<1>2. \A k : Group(k, Seen') = {}
  BY <1>1 DEF Group
<1>3. Held(0) = 0
  BY MergeAssumption DEF Held
<1>4. sum' = "fields" => DOMAIN out' = {}
  BY <1>1
<1> QED BY <1>1, <1>2, <1>3, <1>4, TotalOfNone DEF SumInv

(* The facts about the record that is taken. *)
LEMMA GroupsTaken ==
    ASSUME IInv, NEW r, Takes(r), ~ LeftOut(r)
    PROVE  /\ r.val \in Nat /\ r.key \in Nat
           /\ Total(Group(r.key, Seen')) = r.val + Total(Group(r.key, Seen))
           /\ Total(Group(r.key, Seen)) \in Nat
           /\ \A k : k # r.key => Group(k, Seen') = Group(k, Seen)
<1>1. /\ IsFiniteSet(Seen) /\ r \notin Seen /\ Seen' = Seen \cup {r}
      /\ r \in Records /\ \A q \in Seen : q \in Records
  BY DEF IInv, WriteInv, Takes
<1>2. \A q \in Seen \cup {r} : q \in Records
  BY <1>1
<1>3. \A q \in Seen \cup {r} : q.val \in Nat /\ q.key \in Nat
  BY <1>2, MergeAssumption DEF Records
<1> QED BY <1>1, <1>3, GroupGrows

(* The record adds to the total of the group that is owed. *)
LEMMA SameKeySum ==
    ASSUME IInv, SumInv, NEW k \in Files, NEW r \in InputRecords, SameKey(k, r)
    PROVE  SumInv'
<1>1. /\ Turn(k, r) /\ Advance(k) /\ UNCHANGED settings /\ pc' \in {"merge", "failed"}
      /\ ~ LeftOut(r) /\ sum = "fields" /\ prec[1].key = r.key
      /\ total' = Held(total + r.val) /\ prec' = <<r>> /\ out' = out
  BY DEF SameKey, AfterDiscard
<1>2. Takes(r)
  <2>1. pc' \in {pc, "failed"}
    BY <1>1 DEF Turn
  <2> QED BY <1>1, <2>1, TurnFacts
<1>3. pc = "merge" /\ sum' = "fields"
  BY <1>1, <1>2 DEF Takes
<1>4. /\ r.val \in Nat /\ r.key \in Nat
      /\ Total(Group(r.key, Seen')) = r.val + Total(Group(r.key, Seen))
      /\ Total(Group(r.key, Seen)) \in Nat
      /\ \A n : n # r.key => Group(n, Seen') = Group(n, Seen)
  BY <1>1, <1>2, GroupsTaken
<1>5. /\ prec # <<>> /\ \A i \in DOMAIN out : out[i].key < r.key
      /\ \A i \in DOMAIN out : out[i] \in Records
  <2>1. /\ prec # <<>> /\ \A i \in DOMAIN out : out[i].key < prec[1].key
    BY <1>1, <1>3, OwedFacts
  <2>2. \A i \in DOMAIN out : out[i] \in Records
    BY DEF IInv, WriteInv
  <2> QED BY <1>1, <2>1, <2>2
<1>6. \A i \in DOMAIN out : Group(out[i].key, Seen') = Group(out[i].key, Seen)
  <2>1. \A i \in DOMAIN out : out[i].key \in Nat
    BY <1>5 DEF Records
  <2>2. \A i \in DOMAIN out : out[i].key # r.key
    BY <1>4, <1>5, <2>1
  <2> QED BY <1>4, <2>2
<1>7. PICK n \in Nat : n = Total(Group(r.key, Seen))
  BY <1>4
<1>8. total = Held(n)
  BY <1>1, <1>3, <1>5, <1>7 DEF SumInv
<1>9. total' = Held(n + r.val)
  BY <1>1, <1>4, <1>8, HeldOfSum
<1>10. Total(Group(r.key, Seen')) = n + r.val
  <2>1. r.val + n = n + r.val
    BY <1>4
  <2> QED BY <1>4, <1>7, <2>1
<1>11. \A i \in DOMAIN out' : out'[i].val = Held(Total(Group(out'[i].key, Seen')))
  BY <1>1, <1>6 DEF SumInv
<1>12. total' = Held(Total(Group(prec'[1].key, Seen')))
  BY <1>1, <1>9, <1>10
<1> QED BY <1>11, <1>12 DEF SumInv

(* What is written has the total that was owed. *)
LEMMA OwedSum ==
    ASSUME IInv, SumInv, pc = "merge", sum = "fields", InputRecords # {},
           out' = Append(out, Owed)
    PROVE  \A i \in DOMAIN out' : out'[i].val = Held(Total(Group(out'[i].key, Seen)))
<1>1. /\ prec # <<>> /\ prec[1] \in Records /\ Owed.key = prec[1].key
  BY OwedFacts
<1>2. Owed.val = total
  BY <1>1 DEF Owed, Records
<1>3. /\ total = Held(Total(Group(prec[1].key, Seen)))
      /\ \A i \in DOMAIN out : out[i].val = Held(Total(Group(out[i].key, Seen)))
  BY <1>1 DEF SumInv
<1>4. \A i \in DOMAIN out' : \/ i \in DOMAIN out /\ out'[i] = out[i]
                             \/ out'[i] = Owed
  <2>1. Longer(out, Owed, out')
    BY OwedWritten
  <2> QED BY <2>1 DEF Longer
<1> QED BY <1>1, <1>2, <1>3, <1>4

(* The group that is owed is complete when a record of another key comes:  *)
(* it is written, and the total is that of the new record.                 *)
LEMMA NewKeySum ==
    ASSUME IInv, SumInv, NEW k \in Files, NEW r \in InputRecords, NewKey(k, r)
    PROVE  SumInv'
<1>1. /\ Turn(k, r) /\ Advance(k) /\ UNCHANGED settings /\ pc' = pc
      /\ ~ LeftOut(r) /\ sum = "fields" /\ prec[1].key # r.key
      /\ out' = Append(out, Owed) /\ total' = TotalOf(r) /\ prec' = <<r>>
  BY DEF NewKey
<1>2. Takes(r)
  BY <1>1, TurnFacts
<1>3. pc = "merge" /\ pc' = "merge" /\ sum' = "fields" /\ r \in Ahead
  BY <1>1, <1>2 DEF Takes
<1>4. /\ r.val \in Nat /\ r.key \in Nat
      /\ Total(Group(r.key, Seen')) = r.val + Total(Group(r.key, Seen))
      /\ \A n : n # r.key => Group(n, Seen') = Group(n, Seen)
  BY <1>1, <1>2, GroupsTaken
<1>5. /\ Longer(out, Owed, out')
      /\ \A i \in DOMAIN out' : out'[i].key <= prec[1].key
      /\ \A q \in Seen : HasKey(out', q.key)
      /\ prec[1].key \in Nat /\ prec[1].key <= r.key
  BY <1>1, <1>3, OwedWritten, OwedFacts
<1>6. \A i \in DOMAIN out' : out'[i].key # r.key
  <2>1. \A i \in DOMAIN out' : out'[i] \in Records
    BY <1>5 DEF Longer
  <2>2. \A i \in DOMAIN out' : out'[i].key \in Nat
    BY <2>1 DEF Records
  <2> QED BY <1>1, <1>4, <1>5, <2>2
<1>7. Group(r.key, Seen) = {}
  BY <1>5, <1>6 DEF Group, HasKey
<1>8. Total(Group(r.key, Seen')) = r.val
  BY <1>4, <1>7, TotalOfNone
<1>9. \A i \in DOMAIN out' : out'[i].val = Held(Total(Group(out'[i].key, Seen)))
  BY <1>1, <1>3, OwedSum
<1>10. \A i \in DOMAIN out' : out'[i].val = Held(Total(Group(out'[i].key, Seen')))
  BY <1>4, <1>6, <1>9
<1>11. total' = Held(Total(Group(prec'[1].key, Seen')))
  BY <1>1, <1>8 DEF TotalOf
<1> QED BY <1>10, <1>11 DEF SumInv

(* The last group is complete when the files have ended. *)
LEMMA FinishSum ==
    ASSUME IInv, SumInv, Finish
    PROVE  SumInv'
<1>1. /\ pc = "merge" /\ pc' = "done" /\ UNCHANGED <<settings, reading>>
      /\ out' = IF Pending THEN Append(out, Owed) ELSE out
      /\ sum' = sum
  BY DEF Finish, settings
<1>2. Seen' = Seen
  BY <1>1 DEF settings, reading, InputRecords, Gone, Passed, Seen
<1>3. SUFFICES ASSUME sum = "fields"
               PROVE  \A i \in DOMAIN out' : out'[i].val = Held(Total(Group(out'[i].key, Seen)))
  BY <1>1, <1>2 DEF SumInv
<1>4. CASE Pending
  <2>1. InputRecords # {}
    BY <1>4 DEF Pending, IInv, WriteInv
  <2> QED BY <1>1, <1>3, <1>4, <2>1, OwedSum
<1>5. CASE ~ Pending
  BY <1>1, <1>3, <1>5 DEF SumInv
<1> QED BY <1>4, <1>5

(* No step makes a total wrong. *)
LEMMA SumInvNext ==
    ASSUME IInv, SumInv, [Next]_vars
    PROVE  SumInv'
<1>1. CASE FirstGroup
  BY <1>1, FirstSum
<1>2. CASE Finish
  BY <1>2, FinishSum
<1>3. ASSUME NEW k \in Files, NEW r \in InputRecords, SameKey(k, r) \/ NewKey(k, r)
      PROVE  SumInv'
  BY <1>3, SameKeySum, NewKeySum
<1>4. ASSUME NEW k \in Files, NEW r \in InputRecords, Skip(k, r)
      PROVE  SumInv'
  <2>1. /\ Turn(k, r) /\ Advance(k) /\ UNCHANGED settings /\ pc' = pc /\ LeftOut(r)
        /\ UNCHANGED <<sum, out, prec, total>>
    BY <1>4 DEF Skip, settings, group
  <2>2. Takes(r)
    BY <2>1, TurnFacts
  <2>3. Seen' = Seen
    BY <2>1, <2>2 DEF Takes
  <2> QED BY <2>1, <2>3, SumsStay
<1>5. ASSUME NEW k \in Files, NEW r \in InputRecords,
             Plain(k, r) \/ NoneFirst(k, r) \/ NoneAgain(k, r)
      PROVE  SumInv'
  BY <1>5 DEF Plain, NoneFirst, NoneAgain, settings, SumInv
<1>6. CASE OpenFile
  <2>1. Seen' = Seen /\ pc' = pc /\ UNCHANGED <<sum, out, prec, total>>
    BY <1>6, FileOpened DEF IInv, OpenFile, settings, group
  <2> QED BY <2>1, SumsStay
<1>7. CASE OpenFails \/ WriteFails \/ FinishFails \/ Terminated \/ UNCHANGED vars
  <2>1. /\ UNCHANGED <<settings, reading, sum, out, prec, total>>
        /\ pc = "done" => pc' = "done"
    BY <1>7 DEF OpenFails, WriteFails, FinishFails, Turn, Terminated, vars, settings, group
  <2>2. Seen' = Seen
    BY <2>1 DEF settings, reading, InputRecords, Gone, Passed, Seen
  <2> QED BY <2>1, <2>2, SumsStay
<1> QED BY <1>1, <1>2, <1>3, <1>4, <1>5, <1>6, <1>7 DEF Next, MergeStep

(* With SUM FIELDS what is written of a key is the sum of the records kept *)
(* that have it, as far as the field holds it.                             *)
THEOREM SumsAlwaysRight == Spec => []SumsAreRight
<1>1. Init => SumInv
  BY DEF Init, SumInv
<1>2. IInv /\ SumInv /\ [Next]_vars => SumInv'
  BY SumInvNext
<1>3. IInv /\ SumInv => SumsAreRight
  <2> SUFFICES ASSUME IInv, SumInv, pc = "done", sum = "fields" PROVE SumsAreRight
    BY DEF SumsAreRight
  <2>1. Seen = Kept
    BY AllAreTaken
  <2> QED BY <2>1 DEF SumInv, SumsAreRight, Group
<1> QED BY <1>1, <1>2, <1>3, IInvAlways, PTL DEF Spec
=============================================================================
