---------------------------- MODULE GcLoadProofs ----------------------------
(***************************************************************************)
(* What GcLoad keeps for every input, every SKIPREC and STOPAFT, every     *)
(* answer of the exit, and wherever memory fills: what has been loaded is  *)
(* what the statements ask for of the records before the next one.         *)
(***************************************************************************)
EXTENDS GcLoad, FiniteSetTheorems, TLAPS

-----------------------------------------------------------------------------
(* The records of the input, and those before a place in it. *)

(* A record is named by its file and its number in the file. *)
LEMMA RecordIs ==
    ASSUME Statements
    PROVE  /\ \A f, i : <<f, i>> \in InputRecords <=> f \in 1 .. NumFiles /\ i \in 1 .. lens[f]
           /\ \A r \in InputRecords :
                 /\ r = <<r[1], r[2]>>
                 /\ r[1] \in 1 .. NumFiles /\ r[2] \in 1 .. lens[r[1]]
                 /\ r[1] \in Nat /\ r[2] \in Nat
           /\ Blank \notin InputRecords /\ Inserted \notin InputRecords /\ Blank # Inserted
<1>1. \A f \in 1 .. NumFiles : lens[f] \in Nat
  BY DEF Statements
<1>2. \A r : r \in InputRecords <=>
         \E f \in 1 .. NumFiles : \E i \in 1 .. lens[f] : r = <<f, i>>
  BY DEF InputRecords
<1>3. \A f, i : <<f, i>> \in InputRecords <=> f \in 1 .. NumFiles /\ i \in 1 .. lens[f]
  BY <1>2
<1>4. ASSUME NEW r \in InputRecords
      PROVE  /\ r = <<r[1], r[2]>>
             /\ r[1] \in 1 .. NumFiles /\ r[2] \in 1 .. lens[r[1]]
             /\ r[1] \in Nat /\ r[2] \in Nat
  <2>0. PICK f \in 1 .. NumFiles : \E i \in 1 .. lens[f] : r = <<f, i>>
    BY <1>2
  <2>1. PICK i \in 1 .. lens[f] : r = <<f, i>>
    BY <2>0
  <2>2. f \in Nat /\ i \in Nat /\ r[1] = f /\ r[2] = i
    BY <1>1, <2>1, LoadAssumption
  <2> QED BY <2>1, <2>2
<1>5. 0 \notin 1 .. NumFiles
  BY LoadAssumption
<1>6. Blank \notin InputRecords /\ Inserted \notin InputRecords
  BY <1>3, <1>5 DEF Blank, Inserted
<1> QED BY <1>3, <1>4, <1>6 DEF Blank, Inserted

(* There are finitely many. *)
LEMMA RecordsFinite ==
    ASSUME Statements
    PROVE  IsFiniteSet(InputRecords)
<1> DEFINE Of(f) == {<<f, i>> : i \in 1 .. lens[f]}
           All == {Of(f) : f \in 1 .. NumFiles}
<1>1. \A f \in 1 .. NumFiles : lens[f] \in Nat
  BY DEF Statements
<1>2. ASSUME NEW f \in 1 .. NumFiles
      PROVE  IsFiniteSet(Of(f))
  <2> DEFINE g == [i \in 1 .. lens[f] |-> <<f, i>>]
  <2>1. IsFiniteSet(1 .. lens[f])
    BY <1>1, FS_Interval
  <2>2. g \in Surjection(1 .. lens[f], Of(f))
    BY DEF Surjection
  <2> QED BY <2>1, <2>2, FS_Surjection
<1>3. IsFiniteSet(All)
  <2> DEFINE g == [f \in 1 .. NumFiles |-> Of(f)]
  <2>1. IsFiniteSet(1 .. NumFiles)
    BY LoadAssumption, FS_Interval
  <2>2. g \in Surjection(1 .. NumFiles, All)
    BY DEF Surjection
  <2> HIDE DEF g, All
  <2> QED BY <2>1, <2>2, FS_Surjection
<1>4. \A T \in All : IsFiniteSet(T)
  BY <1>2
<1>5. InputRecords = UNION All
  BY DEF InputRecords
<1> HIDE DEF All
<1> QED BY <1>3, <1>4, <1>5, FS_UNION

(* Nor are there more before a place. *)
LEMMA PastFinite ==
    ASSUME Statements, NEW r
    PROVE  IsFiniteSet(Past(r)) /\ Cardinality(Past(r)) \in Nat
<1>1. Past(r) \in SUBSET InputRecords
  BY DEF Past
<1>2. IsFiniteSet(Past(r))
  BY <1>1, RecordsFinite, FS_Subset
<1> QED BY <1>2, FS_CardinalityType

(* One record further. *)
LEMMA PastStep ==
    ASSUME Statements, NEW f \in 1 .. NumFiles, NEW i \in 1 .. lens[f]
    PROVE  /\ Past(<<f, i + 1>>) = Past(<<f, i>>) \cup {<<f, i>>}
           /\ <<f, i>> \notin Past(<<f, i>>)
           /\ Cardinality(Past(<<f, i + 1>>)) = Cardinality(Past(<<f, i>>)) + 1
<1>1. f \in Nat /\ i \in Nat /\ <<f, i>> \in InputRecords /\ lens[f] \in Nat
  BY RecordIs, LoadAssumption DEF Statements
<1>2. <<f, i>> \notin Past(<<f, i>>)
  BY <1>1 DEF Past, Precedes
<1>3. ASSUME NEW r \in InputRecords
      PROVE  Precedes(r, <<f, i + 1>>) <=> Precedes(r, <<f, i>>) \/ r = <<f, i>>
  <2>1. r = <<r[1], r[2]>> /\ r[1] \in Nat /\ r[2] \in Nat
    BY RecordIs
  <2> PICK x, y : x = r[1] /\ y = r[2]
    OBVIOUS
  <2>2. Precedes(r, <<f, i + 1>>) <=> x < f \/ (x = f /\ y < i + 1)
    BY DEF Precedes
  <2>3. Precedes(r, <<f, i>>) <=> x < f \/ (x = f /\ y < i)
    BY DEF Precedes
  <2>4. r = <<f, i>> <=> x = f /\ y = i
    BY <2>1
  <2>5. y < i + 1 <=> y < i \/ y = i
    BY <1>1, <2>1
  <2> QED BY <2>2, <2>3, <2>4, <2>5, <1>1, <2>1
<1>4. Past(<<f, i + 1>>) = Past(<<f, i>>) \cup {<<f, i>>}
  BY <1>1, <1>3 DEF Past
<1>5. Cardinality(Past(<<f, i>>) \cup {<<f, i>>}) = Cardinality(Past(<<f, i>>)) + 1
  BY <1>2, PastFinite, FS_AddElement
<1> QED BY <1>2, <1>4, <1>5

(* From the end of a file to the next. *)
LEMMA PastFile ==
    ASSUME Statements, NEW f \in 1 .. NumFiles, NEW i \in Nat
    PROVE  /\ i > lens[f] => Past(<<f, i>>) = Past(<<f + 1, 1>>)
           /\ Past(<<f, i>>) \subseteq Past(<<f + 1, 1>>)
           /\ Cardinality(Past(<<f, i>>)) <= Cardinality(Past(<<f + 1, 1>>))
<1>1. f \in Nat /\ lens[f] \in Nat
  BY LoadAssumption DEF Statements
<1>2. ASSUME NEW r \in InputRecords
      PROVE  /\ Precedes(r, <<f + 1, 1>>) <=> r[1] <= f
             /\ Precedes(r, <<f, i>>) => r[1] <= f
             /\ i > lens[f] /\ r[1] <= f => Precedes(r, <<f, i>>)
  <2>1. /\ r[1] \in Nat /\ r[2] \in Nat /\ r[2] >= 1 /\ r[1] \in 1 .. NumFiles
        /\ r[2] <= lens[r[1]]
    BY RecordIs, LoadAssumption DEF Statements
  <2> PICK x, y : x = r[1] /\ y = r[2]
    OBVIOUS
  <2>2. Precedes(r, <<f + 1, 1>>) <=> x < f + 1 \/ (x = f + 1 /\ y < 1)
    BY DEF Precedes
  <2>3. Precedes(r, <<f, i>>) <=> x < f \/ (x = f /\ y < i)
    BY DEF Precedes
  <2>4. x = f => y <= lens[f]
    BY <2>1
  <2>5. x \in Nat /\ y \in Nat /\ y >= 1
    BY <2>1
  <2> QED BY <1>1, <2>2, <2>3, <2>4, <2>5
<1>3. Past(<<f, i>>) \subseteq Past(<<f + 1, 1>>)
  BY <1>2 DEF Past
<1>4. i > lens[f] => Past(<<f, i>>) = Past(<<f + 1, 1>>)
  BY <1>2 DEF Past
<1>5. Cardinality(Past(<<f, i>>)) <= Cardinality(Past(<<f + 1, 1>>))
  BY <1>3, PastFinite, FS_Subset
<1> QED BY <1>3, <1>4, <1>5

(* Nothing is before the first record, everything before the end. *)
LEMMA PastEnds ==
    ASSUME Statements
    PROVE  /\ Past(<<1, 1>>) = {} /\ Cardinality(Past(<<1, 1>>)) = 0
           /\ \A f \in Nat : \A i : f > NumFiles => Past(<<f, i>>) = InputRecords
<1>1. ASSUME NEW r \in InputRecords
      PROVE  ~ Precedes(r, <<1, 1>>) /\ \A f \in Nat : \A i : f > NumFiles => Precedes(r, <<f, i>>)
  <2>1. r[1] \in 1 .. NumFiles /\ r[2] \in Nat /\ r[2] >= 1 /\ r[1] \in Nat
    BY RecordIs, LoadAssumption DEF Statements
  <2>2. ~ Precedes(r, <<1, 1>>)
    BY <2>1, LoadAssumption DEF Precedes
  <2>3. \A f \in Nat : \A i : f > NumFiles => Precedes(r, <<f, i>>)
    BY <2>1, LoadAssumption DEF Precedes
  <2> QED BY <2>2, <2>3
<1>2. Past(<<1, 1>>) = {}
  BY <1>1 DEF Past
<1>3. \A f \in Nat : \A i : f > NumFiles => Past(<<f, i>>) = InputRecords
  BY <1>1 DEF Past
<1> QED BY <1>2, <1>3, FS_EmptySet

(* The records before a place are a beginning of the input. *)
LEMMA PastClosed ==
    ASSUME Statements, NEW f \in Nat, NEW i \in Nat, NEW q \in Past(<<f, i>>),
           NEW r \in InputRecords, Precedes(r, q)
    PROVE  r \in Past(<<f, i>>)
<1>1. /\ r[1] \in Nat /\ r[2] \in Nat /\ q[1] \in Nat /\ q[2] \in Nat
      /\ Precedes(q, <<f, i>>)
  BY RecordIs DEF Past
<1>2. Precedes(r, <<f, i>>)
  BY <1>1 DEF Precedes
<1> QED BY <1>2 DEF Past

(* A record behind another has the greater number. *)
LEMMA NumberGrows ==
    ASSUME Statements, NEW r \in InputRecords, NEW q \in InputRecords, ~ Precedes(q, r)
    PROVE  Number(r) <= Number(q) /\ Number(r) \in Nat /\ Number(q) \in Nat
<1>1. /\ r[1] \in Nat /\ r[2] \in Nat /\ q[1] \in Nat /\ q[2] \in Nat
  BY RecordIs
<1>2. ASSUME NEW x \in Past(r)
      PROVE  x \in Past(q)
  <2>1. x \in InputRecords /\ x[1] \in Nat /\ x[2] \in Nat /\ Precedes(x, r)
    BY RecordIs DEF Past
  <2>2. Precedes(x, q)
    BY <1>1, <2>1 DEF Precedes
  <2> QED BY <2>1, <2>2 DEF Past
<1>3. Past(r) \in SUBSET Past(q)
  BY <1>2
<1>4. Cardinality(Past(r)) <= Cardinality(Past(q))
  BY <1>3, PastFinite, FS_Subset
<1> QED BY <1>4, PastFinite DEF Number

-----------------------------------------------------------------------------
(* Where the load is. *)

(* The input and the statements stay. *)
LEMMA InputKept ==
    ASSUME UNCHANGED input
    PROVE  /\ lens' = lens /\ skipRec' = skipRec /\ stopAft' = stopAft
           /\ exit' = exit /\ omit' = omit /\ keyed' = keyed /\ Straight' = Straight
           /\ InputRecords' = InputRecords /\ Areas' = Areas /\ CountCap' = CountCap
           /\ Statements' = Statements /\ Sized' = Sized /\ Selected' = Selected
           /\ \A r : Past(r)' = Past(r) /\ Number(r)' = Number(r)
BY DEF input, InputRecords, Areas, CountCap, Statements, Sized, Selected, Past, Number,
       Straight

(* Every step leaves them. *)
LEMMA InputStays == [Next]_vars => UNCHANGED input
BY DEF Next, Step, vars, Terminated, StartRound, StartFile, OpenFails, EndFiles, CloseFile,
       Read, VerifyFirst, VerifyBack, VerifyNext, VerifyAgain, VerifyOther, VerifyEnd, Delivered,
       Count, NoExit, CallExit, AfterInsert, LoadInMemory

(* The next record of the file is one of the input. *)
LEMMA HereIsRecord ==
    ASSUME TypeOK, idx <= NumFiles, at <= lens[idx]
    PROVE  Here \in InputRecords /\ (at < lens[idx] => <<idx, at + 1>> \in InputRecords)
<1>1. idx \in 1 .. NumFiles /\ at \in Nat /\ at >= 1 /\ lens[idx] \in Nat
  BY LoadAssumption DEF TypeOK, Statements
<1> QED BY <1>1, RecordIs DEF TypeOK, Here

(* So is the one before. *)
LEMMA BeforeIsRecord ==
    ASSUME TypeOK, InBounds, Reading, idx <= NumFiles, at > 1
    PROVE  <<idx, at - 1>> \in InputRecords
<1>1. idx \in 1 .. NumFiles /\ at \in Nat /\ lens[idx] \in Nat /\ at <= lens[idx] + 1
  BY LoadAssumption DEF TypeOK, Statements, InBounds
<1>2. at - 1 \in 1 .. lens[idx]
  BY <1>1
<1> QED BY <1>1, <1>2, RecordIs DEF TypeOK

(* Every step keeps the types.  A record that is read is one of the input, *)
(* since only files that exist are read, and no further than their end.    *)
LEMMA TypeNext == TypeOK /\ PlaceInv /\ [Next]_vars => TypeOK'
<1> SUFFICES ASSUME TypeOK, PlaceInv, [Next]_vars
             PROVE  TypeOK'
  OBVIOUS
<1>1. /\ Areas' = Areas /\ CountCap' = CountCap /\ Statements' /\ CountCap \in Nat
      /\ lens' = lens /\ exit' = exit
  BY InputKept, InputStays DEF TypeOK, Statements, CountCap
<1>2. InputRecords \subseteq Areas /\ Blank \in Areas
  BY DEF Areas
<1>3. CASE StartRound
  <2>1. UNCHANGED <<seg, currFile, at, atEnd, area, rec, state, last, rc, nrek, loaded, deleted>>
    BY <1>3 DEF StartRound, story
  <2>2. pc' = "file" /\ eofIn' = FALSE /\ idx' = currFile /\ vr' = <<Blank, Blank>>
    BY <1>3 DEF StartRound
  <2>3. recCount' \in 0 .. CountCap
    BY <1>1, <1>3 DEF TypeOK, StartRound, FirstCount
  <2>4. idx' \in 1 .. NumFiles + 1 /\ vr' \in Areas \X Areas
    BY <1>2, <2>2, LoadAssumption DEF TypeOK
  <2> QED BY <1>1, <2>1, <2>2, <2>3, <2>4 DEF TypeOK
<1>4. CASE StartFile
  <2>1. UNCHANGED <<seg, currFile, recCount, idx, rec, vr, loaded, deleted>>
    BY <1>4 DEF StartFile, ResetExit, kept, story
  <2>2. pc' = "read" /\ state' = 0 /\ last' = FALSE /\ rc' = 0 /\ nrek' = 0
    BY <1>4 DEF StartFile, ResetExit
  <2>3. at' \in Nat \ {0} /\ atEnd' \in BOOLEAN /\ area' \in Areas /\ eofIn' \in BOOLEAN
    <3>1. CASE ~ seg \/ eofIn
      <4>1. at' = 1 /\ area' = Blank
        BY <1>4, <3>1 DEF StartFile
      <4>2. atEnd' = FALSE /\ eofIn' = FALSE
        BY <1>4, <3>1 DEF StartFile
      <4>3. at' \in Nat \ {0}
        BY <4>1
      <4>4. area' \in Areas
        BY <1>2, <4>1
      <4>5. atEnd' \in BOOLEAN /\ eofIn' \in BOOLEAN
        BY <4>2
      <4> QED BY <4>3, <4>4, <4>5
    <3>2. CASE ~ (~ seg \/ eofIn)
      BY <1>4, <3>2 DEF TypeOK, StartFile
    <3> QED BY <3>1, <3>2
  <2> QED BY <1>1, <2>1, <2>2, <2>3 DEF TypeOK
<1>5. CASE OpenFails \/ EndFiles \/ VerifyEnd \/ NoExit
  BY <1>1, <1>5 DEF TypeOK, OpenFails, EndFiles, VerifyEnd, NoExit, kept, e15, story
<1>6. CASE CloseFile
  BY <1>1, <1>6, LoadAssumption DEF TypeOK, PlaceInv, FilesInv, CloseFile, NextFile, kept,
                                        e15, story
<1>7. CASE Read
  <2>1. pc = "read" /\ idx <= NumFiles
    BY <1>7 DEF Read, PlaceInv, FilesInv, Reading
  <2>2. InFile => Here \in Areas
    BY <1>2, <2>1, HereIsRecord DEF InFile
  <2>3. UNCHANGED <<seg, currFile, recCount, idx, eofIn, rec, state, vr, last, rc, nrek,
                    loaded, deleted>>
    BY <1>7 DEF Read, kept, e15, story
  <2>4. pc' \in {"count", "failed", "close"} /\ atEnd' \in BOOLEAN
    BY <1>7 DEF Read
  <2>5. at' \in Nat \ {0} /\ area' \in Areas
    BY <1>7, <2>2 DEF Read, TypeOK
  <2> QED BY <1>1, <2>3, <2>4, <2>5 DEF TypeOK
<1>8. CASE VerifyFirst
  <2>1. pc = "read" /\ idx <= NumFiles
    BY <1>8 DEF VerifyFirst, PlaceInv, FilesInv, Reading
  <2>2. InFile => Here \in Areas /\ (at < lens[idx] => <<idx, at + 1>> \in Areas)
    BY <1>2, <2>1, HereIsRecord DEF InFile
  <2>3. vr \in Areas \X Areas /\ area \in Areas /\ at \in Nat \ {0}
    BY DEF TypeOK
  <2>4. at' \in Nat \ {0} /\ area' \in Areas
    BY <1>8, <2>2, <2>3 DEF VerifyFirst
  <2>5. vr' \in Areas \X Areas
    <3>1. CASE InFile /\ at < lens[idx]
      BY <1>8, <2>2, <3>1 DEF VerifyFirst
    <3>2. CASE InFile /\ ~ (at < lens[idx])
      BY <1>8, <2>2, <2>3, <3>2 DEF VerifyFirst
    <3>3. CASE ~ InFile
      BY <1>8, <2>3, <3>3 DEF VerifyFirst
    <3> QED BY <3>1, <3>2, <3>3
  <2>6. last' \in BOOLEAN /\ atEnd' \in BOOLEAN /\ state' \in {1, 99}
    BY <1>8 DEF VerifyFirst, TypeOK
  <2>7. UNCHANGED <<seg, currFile, recCount, idx, eofIn, rec, rc, nrek, loaded, deleted>>
        /\ pc' = "count"
    BY <1>8 DEF VerifyFirst, Delivered, kept, story
  <2> QED BY <1>1, <2>4, <2>5, <2>6, <2>7 DEF TypeOK
<1>17. CASE VerifyBack
  <2>1. pc = "read" /\ idx <= NumFiles /\ Reading /\ InBounds
    BY <1>17 DEF VerifyBack, PlaceInv, FilesInv, Reading
  <2>2. InFile => Here \in Areas
    BY <1>2, <2>1, HereIsRecord DEF InFile
  <2>3. vr \in Areas \X Areas /\ area \in Areas /\ at \in Nat \ {0}
    BY DEF TypeOK
  <2>4. at' = at /\ area' \in Areas
    BY <1>17, <2>2, <2>3 DEF VerifyBack
  <2>5. at > 1 => <<idx, at - 1>> \in Areas
    BY <1>2, <2>1, BeforeIsRecord
  <2>6. vr' \in Areas \X Areas
    BY <1>17, <2>3, <2>4, <2>5 DEF VerifyBack
  <2>7. last' \in BOOLEAN /\ atEnd' \in BOOLEAN /\ state' \in {1, 99}
    BY <1>17 DEF VerifyBack, TypeOK
  <2>8. UNCHANGED <<seg, currFile, recCount, idx, eofIn, rec, rc, nrek, loaded, deleted>>
        /\ pc' = "count"
    BY <1>17 DEF VerifyBack, Delivered, kept, story
  <2> QED BY <1>1, <2>3, <2>4, <2>6, <2>7, <2>8 DEF TypeOK
<1>9. CASE VerifyNext
  <2>1. pc = "read" /\ idx <= NumFiles /\ state \in {1, 2} /\ Other \in {1, 2}
    BY <1>9 DEF VerifyNext, PlaceInv, FilesInv, Reading, Other
  <2>2. InFile => Here \in Areas
    BY <1>2, <2>1, HereIsRecord DEF InFile
  <2>3. at' \in Nat \ {0} /\ area' \in Areas /\ vr' \in Areas \X Areas
    BY <1>1, <1>9, <2>1, <2>2 DEF TypeOK, VerifyNext
  <2>6. last' \in BOOLEAN /\ atEnd' \in BOOLEAN /\ state' \in {1, 2, 99}
    BY <1>9, <2>1 DEF VerifyNext, TypeOK
  <2>7. UNCHANGED <<seg, currFile, recCount, idx, eofIn, rec, rc, nrek, loaded, deleted>>
        /\ pc' = "count"
    BY <1>9 DEF VerifyNext, Delivered, kept, story
  <2> QED BY <1>1, <2>3, <2>6, <2>7 DEF TypeOK
<1>10. CASE VerifyAgain
  <2>1. state' \in {1, 2}
    BY <1>10 DEF VerifyAgain
  <2>2. area' \in Areas
    BY <1>1, <1>10, <2>1 DEF TypeOK, VerifyAgain
  <2> QED BY <1>1, <1>10, <2>1, <2>2 DEF TypeOK, VerifyAgain, Delivered, kept, e15, story
<1>11. CASE VerifyOther
  BY <1>1, <1>11 DEF TypeOK, VerifyOther, Delivered, kept, e15, story
<1>12. CASE Count
  <2>1. recCount' \in 0 .. CountCap
    BY <1>1, <1>12 DEF TypeOK, Count
  <2> QED BY <1>1, <1>12, <2>1 DEF TypeOK, Count, kept, e15, story
<1>13. CASE CallExit
  <2>1. rec \in Areas /\ state \in {1, 2, 99, 104}
    BY <1>13 DEF TypeOK, PlaceInv, FilesInv, CallExit
  <2>2. PICK answer \in IF last THEN LastAnswers ELSE Answers :
         /\ rc' = answer
         /\ nrek' = IF answer = 8 THEN 8 ELSE 1
         /\ state' = IF answer = 12 /\ state < 100 THEN state + 5 ELSE state
         /\ rec' = IF answer = 12 THEN Inserted ELSE rec
         /\ deleted' = IF answer = 4 THEN deleted \cup {rec} ELSE deleted
         /\ pc' = IF answer = 4 THEN "read" ELSE "load"
    BY <1>13 DEF CallExit
  <2>3. state' \in {1, 2, 6, 7, 99, 104}
    BY <2>1, <2>2
  <2>4. deleted' \subseteq Areas
    BY <2>1, <2>2 DEF TypeOK
  <2> QED BY <1>1, <1>13, <2>2, <2>3, <2>4 DEF TypeOK, CallExit, kept
<1>14. CASE AfterInsert
  BY <1>1, <1>14 DEF TypeOK, AfterInsert, kept, story
<1>15. CASE LoadInMemory
  <2>1. pc = "load" /\ idx \in 1 .. NumFiles
    BY <1>15, LoadAssumption DEF LoadInMemory, PlaceInv, FilesInv, Reading, TypeOK
  <2>2. loaded' \in Seq(Areas \cup {Inserted})
    BY <1>15 DEF LoadInMemory, TypeOK
  <2>3. UNCHANGED <<recCount, idx, eofIn, at, atEnd, area, rec, state, vr, last, rc, nrek, deleted>>
    BY <1>15 DEF LoadInMemory, e15
  <2>4. pc' \in {"read", "round"} /\ seg' \in BOOLEAN /\ currFile' \in 1 .. NumFiles
    BY <1>15, <2>1 DEF LoadInMemory, TypeOK
  <2> QED BY <1>1, <2>2, <2>3, <2>4 DEF TypeOK
<1>16. CASE UNCHANGED vars \/ Terminated
  BY <1>1, <1>16 DEF TypeOK, vars, Terminated, kept, e15, story
<1> QED BY <1>3, <1>4, <1>5, <1>6, <1>7, <1>8, <1>9, <1>10, <1>11, <1>12, <1>13, <1>14,
           <1>15, <1>16, <1>17 DEF Next, Step

(* A file that is read is one of the files, and a round goes on with the   *)
(* file it stopped in.                                                     *)
LEMMA FilesNext == TypeOK /\ FilesInv /\ [Next]_vars => FilesInv'
<1> SUFFICES ASSUME TypeOK, FilesInv, [Next]_vars
             PROVE  FilesInv'
  OBVIOUS
<1>1. exit' = exit
  BY InputKept, InputStays
<1>2. CASE StartRound
  BY <1>2 DEF FilesInv, Reading, StartRound
<1>3. CASE StartFile
  BY <1>3 DEF FilesInv, Reading, StartFile
<1>4. CASE OpenFails \/ EndFiles
  BY <1>4 DEF FilesInv, Reading, OpenFails, EndFiles
<1>5. CASE CloseFile
  BY <1>5 DEF FilesInv, Reading, CloseFile
<1>6. CASE Read
  BY <1>1, <1>6 DEF FilesInv, Reading, Read
<1>7. CASE VerifyFirst
  <2>1. state' \in {1, 99} /\ idx' = idx /\ pc = "read" /\ pc' = "count"
    BY <1>7 DEF VerifyFirst, Delivered
  <2> QED BY <2>1 DEF FilesInv, Reading
<1>16. CASE VerifyBack
  <2>1. state' \in {1, 99} /\ idx' = idx /\ pc = "read" /\ pc' = "count"
    BY <1>16 DEF VerifyBack, Delivered
  <2> QED BY <2>1 DEF FilesInv, Reading
<1>8. CASE VerifyNext
  <2>1. state' \in {1, 2, 99} /\ idx' = idx /\ pc = "read" /\ pc' = "count"
    BY <1>8 DEF VerifyNext, Delivered, Other
  <2> QED BY <2>1 DEF FilesInv, Reading
<1>9. CASE VerifyAgain \/ VerifyOther
  <2>1. state' \in {1, 2, 104} /\ idx' = idx /\ pc = "read" /\ pc' = "count"
    BY <1>9 DEF VerifyAgain, VerifyOther, Delivered
  <2> QED BY <2>1 DEF FilesInv, Reading
<1>10. CASE VerifyEnd \/ NoExit
  BY <1>1, <1>10 DEF FilesInv, Reading, VerifyEnd, NoExit
<1>11. CASE Count
  BY <1>1, <1>11 DEF FilesInv, Reading, Count, e15
<1>12. CASE CallExit
  <2>1. pc' \in {"read", "load"} /\ pc = "exit" /\ idx' = idx
    BY <1>12 DEF CallExit
  <2> QED BY <2>1 DEF FilesInv, Reading
<1>13. CASE AfterInsert
  BY <1>13 DEF FilesInv, Reading, AfterInsert
<1>14. CASE LoadInMemory
  BY <1>14 DEF FilesInv, Reading, LoadInMemory
<1>15. CASE UNCHANGED vars \/ Terminated
  BY <1>15 DEF FilesInv, Reading, vars, Terminated, input, kept, e15, story
<1> QED BY <1>2, <1>3, <1>4, <1>5, <1>6, <1>7, <1>8, <1>9, <1>10, <1>11, <1>12, <1>13, <1>14,
           <1>15, <1>16 DEF Next, Step

(* The end of the file is not passed. *)
LEMMA BoundsNext == TypeOK /\ FilesInv /\ InBounds /\ [Next]_vars => InBounds'
<1> SUFFICES ASSUME TypeOK, FilesInv, InBounds, [Next]_vars
             PROVE  InBounds'
  OBVIOUS
<1>1. /\ lens' = lens /\ at \in Nat \ {0}
      /\ idx <= NumFiles => lens[idx] \in Nat
  BY InputKept, InputStays DEF TypeOK, Statements
<1>2. CASE StartRound
  BY <1>1, <1>2 DEF InBounds, Reading, FilesInv, StartRound
<1>3. CASE StartFile
  <2>1. pc' = "read" /\ idx' = idx /\ pc = "file" /\ lens[idx] \in Nat
    BY <1>1, <1>3 DEF StartFile
  <2>2. at' <= lens[idx] + 1
    <3>1. CASE ~ seg \/ eofIn
      BY <1>3, <2>1, <3>1 DEF StartFile
    <3>2. CASE ~ (~ seg \/ eofIn)
      BY <1>3, <2>1, <3>2 DEF StartFile, InBounds
    <3> QED BY <3>1, <3>2
  <2> QED BY <1>1, <2>1, <2>2 DEF InBounds
<1>4. CASE OpenFails \/ EndFiles \/ VerifyEnd
  BY <1>4 DEF InBounds, Reading, OpenFails, EndFiles, VerifyEnd
<1>5. CASE CloseFile
  <2>1. pc' = "file" /\ eofIn' = TRUE
    BY <1>5 DEF CloseFile
  <2> QED BY <2>1 DEF InBounds, Reading
<1>6. CASE Read \/ VerifyFirst \/ VerifyNext
  <2>1. /\ idx' = idx /\ pc = "read" /\ lens[idx] \in Nat /\ at <= lens[idx] + 1
    BY <1>1, <1>6 DEF Read, VerifyFirst, VerifyNext, Delivered, FilesInv, InBounds, Reading
  <2>2. \/ at' = at \/ (at <= lens[idx] /\ at' = at + 1) \/ (at < lens[idx] /\ at' = at + 2)
    BY <1>6 DEF Read, VerifyFirst, VerifyNext, InFile
  <2> QED BY <1>1, <2>1, <2>2 DEF InBounds
<1>7. CASE VerifyBack \/ VerifyAgain \/ VerifyOther
  <2>1. idx' = idx /\ at' = at /\ pc = "read"
    BY <1>7 DEF VerifyBack, VerifyAgain, VerifyOther, Delivered
  <2> QED BY <1>1, <2>1 DEF InBounds, Reading
<1>8. CASE Count \/ NoExit \/ CallExit \/ AfterInsert \/ LoadInMemory
  <2>1. idx' = idx /\ at' = at /\ Reading
    BY <1>8 DEF Count, NoExit, CallExit, AfterInsert, LoadInMemory, kept, Reading
  <2> QED BY <1>1, <2>1 DEF InBounds
<1>9. CASE UNCHANGED vars \/ Terminated
  BY <1>9 DEF InBounds, Reading, vars, Terminated, input, kept
<1> QED BY <1>2, <1>3, <1>4, <1>5, <1>6, <1>7, <1>8, <1>9 DEF Next, Step

(* Without an exit the record area holds the record before the next one.   *)
LEMMA PlainPlaceNext ==
    TypeOK /\ FilesInv /\ InBounds /\ ~ exit /\ PlaceWithoutExit /\ [Next]_vars => PlaceWithoutExit'
<1> SUFFICES ASSUME TypeOK, FilesInv, InBounds, ~ exit, PlaceWithoutExit, [Next]_vars
             PROVE  PlaceWithoutExit'
  OBVIOUS
<1>1. /\ exit' = exit /\ lens' = lens /\ at \in Nat \ {0}
      /\ idx <= NumFiles => lens[idx] \in Nat
  BY InputKept, InputStays DEF TypeOK, Statements
<1>2. CASE StartRound
  BY <1>1, <1>2 DEF PlaceWithoutExit, FilesInv, StartRound
<1>3. CASE StartFile
  <2>1. state' = 0 /\ pc' = "read"
    BY <1>3 DEF StartFile, ResetExit
  <2> QED BY <2>1 DEF PlaceWithoutExit
<1>4. CASE OpenFails \/ EndFiles
  BY <1>4 DEF PlaceWithoutExit, OpenFails, EndFiles, e15
<1>5. CASE CloseFile
  <2>1. state' = state /\ pc' = "file" /\ eofIn' = TRUE
    BY <1>5 DEF CloseFile, e15
  <2> QED BY <2>1 DEF PlaceWithoutExit
<1>6. CASE Read
  <2>1. state' = state /\ idx' = idx /\ pc = "read" /\ lens[idx] \in Nat
    BY <1>1, <1>6 DEF Read, e15, FilesInv, Reading
  <2>2. CASE InFile
    BY <1>1, <1>6, <2>1, <2>2 DEF PlaceWithoutExit, InBounds, Reading, Read, InFile, Here
  <2>3. CASE ~ InFile
    BY <1>6, <2>1, <2>3 DEF PlaceWithoutExit, Read
  <2> QED BY <2>2, <2>3
<1>7. CASE Count
  <2>1. /\ UNCHANGED <<state, idx, at, area>> /\ rec' = area /\ pc = "count"
        /\ pc' \in {"read", "close", "exit"}
    BY <1>7 DEF Count, e15
  <2> QED BY <1>1, <2>1 DEF PlaceWithoutExit
<1>8. CASE NoExit
  BY <1>1, <1>8 DEF PlaceWithoutExit, FilesInv, NoExit, e15
<1>9. CASE LoadInMemory
  <2>1. /\ UNCHANGED <<state, idx, at, area>> /\ pc = "load" /\ pc' \in {"read", "round"}
    BY <1>9 DEF LoadInMemory, e15
  <2> QED BY <1>1, <2>1 DEF PlaceWithoutExit
<1>10. CASE UNCHANGED vars \/ Terminated
  BY <1>10 DEF PlaceWithoutExit, vars, Terminated, input, kept, e15
<1>11. ~ (VerifyFirst \/ VerifyBack \/ VerifyNext \/ VerifyAgain \/ VerifyOther \/ VerifyEnd)
  BY DEF VerifyFirst, VerifyBack, VerifyNext, VerifyAgain, VerifyOther, VerifyEnd
<1>12. ~ (CallExit \/ AfterInsert)
  BY DEF CallExit, AfterInsert
<1> QED BY <1>2, <1>3, <1>4, <1>5, <1>6, <1>7, <1>8, <1>9, <1>10, <1>11, <1>12 DEF Next, Step

(* With an exit, while memory does not fill, nState tells which of the two *)
(* records read ahead was delivered, and nLastRecord whether it is the     *)
(* last of its file.                                                       *)
LEMMA ExitPlaceNext ==
    TypeOK /\ FilesInv /\ exit /\ Straight /\ PlaceWithExit /\ [Next]_vars
        => PlaceWithExit'
<1> SUFFICES ASSUME TypeOK, FilesInv, exit, Straight, PlaceWithExit, [Next]_vars
             PROVE  PlaceWithExit'
  OBVIOUS
<1>1. /\ exit' = exit /\ lens' = lens /\ at \in Nat \ {0} /\ ~ seg
      /\ idx <= NumFiles => lens[idx] \in Nat
      /\ state \in {0, 1, 2, 6, 7, 99, 104}
      /\ vr = <<vr[1], vr[2]>>
  <2>1. exit' = exit /\ lens' = lens
    BY InputKept, InputStays
  <2>2. at \in Nat \ {0} /\ state \in {0, 1, 2, 6, 7, 99, 104}
    BY DEF TypeOK
  <2>3. ~ seg
    BY DEF PlaceWithExit
  <2>4. idx <= NumFiles => lens[idx] \in Nat
    BY LoadAssumption DEF TypeOK, Statements
  <2>5. vr = <<vr[1], vr[2]>>
    BY DEF TypeOK
  <2> QED BY <2>1, <2>2, <2>3, <2>4, <2>5
<1>2. CASE StartRound
  <2>1. seg' = seg /\ pc' = "file"
    BY <1>2 DEF StartRound
  <2> QED BY <1>1, <2>1 DEF PlaceWithExit, Reading
<1>3. CASE StartFile
  <2>1. /\ state' = 0 /\ pc' = "read" /\ last' = FALSE /\ seg' = seg
        /\ at' = 1 /\ atEnd' = FALSE /\ area' = Blank
    BY <1>1, <1>3 DEF StartFile, ResetExit, kept
  <2> QED BY <1>1, <2>1 DEF PlaceWithExit, Reading
<1>4. CASE OpenFails \/ EndFiles \/ VerifyEnd
  <2>1. seg' = seg /\ pc' \in {"failed", "end", "close"}
    BY <1>4 DEF OpenFails, EndFiles, VerifyEnd, kept
  <2> QED BY <1>1, <2>1 DEF PlaceWithExit, Reading
<1>5. CASE CloseFile
  <2>1. seg' = seg /\ pc' = "file"
    BY <1>5 DEF CloseFile, kept
  <2> QED BY <1>1, <2>1 DEF PlaceWithExit, Reading
<1>6. CASE VerifyFirst
  <2>1. /\ UNCHANGED <<seg, idx, rec>> /\ pc = "read" /\ pc' = "count" /\ state = 0
        /\ at = 1 /\ ~ atEnd /\ idx <= NumFiles /\ lens[idx] \in Nat
    BY <1>1, <1>6 DEF VerifyFirst, Delivered, kept, PlaceWithExit, FilesInv, Reading
  <2>2. CASE InFile /\ at < lens[idx]
    <3>1. /\ area' = <<idx, at>> /\ vr' = <<<<idx, at>>, <<idx, at + 1>>>> /\ state' = 1
          /\ at' = at + 2 /\ last' = last /\ atEnd' = atEnd
      BY <1>6, <2>2 DEF VerifyFirst, Here
    <3>2. ~ last /\ ~ atEnd
      BY <2>1 DEF PlaceWithExit, Reading
    <3>3. at' \in 3 .. lens[idx] + 1 /\ at' - 2 = at /\ at' - 1 = at + 1
      BY <2>1, <2>2, <3>1
    <3> QED BY <1>1, <2>1, <3>1, <3>2, <3>3 DEF PlaceWithExit, Reading
  <2>3. CASE InFile /\ ~ (at < lens[idx])
    <3>1. area' = <<idx, at>> /\ state' = 99 /\ at' = at + 1 /\ last' = TRUE /\ atEnd' = TRUE
      BY <1>6, <2>3 DEF VerifyFirst, Here
    <3>2. at = lens[idx] /\ lens[idx] # 0
      BY <1>1, <2>1, <2>3 DEF InFile
    <3> QED BY <1>1, <2>1, <3>1, <3>2 DEF PlaceWithExit, Reading
  <2>4. CASE ~ InFile
    <3>1. area' = area /\ at' = at /\ state' = 99 /\ last' = TRUE /\ atEnd' = TRUE
      BY <1>6, <2>1, <2>4 DEF VerifyFirst
    <3>2. lens[idx] = 0 /\ area = Blank
      BY <1>1, <2>1, <2>4 DEF InFile, PlaceWithExit, Reading
    <3> QED BY <1>1, <2>1, <3>1, <3>2 DEF PlaceWithExit, Reading
  <2> QED BY <2>2, <2>3, <2>4
<1>7. CASE VerifyNext
  <2>1. /\ UNCHANGED <<seg, idx, rec>> /\ pc = "read" /\ pc' = "count" /\ state \in {1, 2}
        /\ idx <= NumFiles /\ lens[idx] \in Nat
        /\ at \in 3 .. lens[idx] + 1 /\ ~ last /\ ~ atEnd
        /\ vr[state] = <<idx, at - 2>> /\ vr[3 - state] = <<idx, at - 1>>
        /\ area' = vr[3 - state]
    BY <1>1, <1>7 DEF VerifyNext, Delivered, Other, kept, PlaceWithExit, FilesInv, Reading
  <2>2. CASE InFile
    <3>1. /\ vr' = [vr EXCEPT ![state] = <<idx, at>>] /\ at' = at + 1 /\ state' = 3 - state
          /\ last' = last /\ atEnd' = atEnd
      BY <1>7, <2>2 DEF VerifyNext, Here, Other
    <3>2. state' \in {1, 2} /\ 3 - state' = state /\ state' # state
      BY <2>1, <3>1
    <3>3. vr'[state'] = vr[3 - state] /\ vr'[3 - state'] = <<idx, at>>
      BY <1>1, <2>1, <3>1, <3>2
    <3>4. at' \in 3 .. lens[idx] + 1 /\ at' - 2 = at - 1 /\ at' - 1 = at
      BY <1>1, <2>1, <2>2, <3>1 DEF InFile
    <3> QED BY <1>1, <2>1, <3>1, <3>2, <3>3, <3>4 DEF PlaceWithExit, Reading
  <2>3. CASE ~ InFile
    <3>1. at' = at /\ state' = 99 /\ last' = TRUE /\ atEnd' = TRUE
      BY <1>7, <2>1, <2>3 DEF VerifyNext
    <3>2. at = lens[idx] + 1 /\ lens[idx] # 0 /\ at - 1 = lens[idx]
      BY <1>1, <2>1, <2>3 DEF InFile
    <3> QED BY <1>1, <2>1, <3>1, <3>2 DEF PlaceWithExit, Reading
  <2> QED BY <2>2, <2>3
<1>8. CASE VerifyAgain
  <2>1. /\ UNCHANGED <<seg, idx, rec, at, vr, last, atEnd>> /\ pc = "read" /\ pc' = "count"
        /\ state \in {6, 7} /\ state' = state - 5 /\ area' = vr[state']
    BY <1>8 DEF VerifyAgain, Delivered, kept
  <2> QED BY <1>1, <2>1 DEF PlaceWithExit, Reading
<1>9. CASE VerifyOther
  <2>1. /\ UNCHANGED <<seg, idx, rec, at, vr, last, atEnd, area, state>>
        /\ pc = "read" /\ pc' = "count" /\ state = 104
    BY <1>9 DEF VerifyOther, Delivered, kept
  <2> QED BY <1>1, <2>1 DEF PlaceWithExit, Reading
<1>10. CASE Count \/ NoExit \/ AfterInsert
  <2>1. /\ UNCHANGED <<seg, idx, at, vr, last, atEnd, area, state>>
        /\ pc \in {"count", "exit"} /\ pc' \in {"read", "close", "exit", "load"}
        /\ pc' = "load" => rec' = rec /\ pc = "exit"
    BY <1>10 DEF Count, NoExit, AfterInsert, kept, e15
  <2>2. state \in {1, 2, 99, 104} /\ (pc = "exit" => rec = area)
    BY <2>1 DEF FilesInv
  <2>3. pc' = "load" => rec' = area'
    BY <2>1, <2>2
  <2>4. area # Inserted
    BY RecordIs DEF TypeOK, Areas
  <2> QED BY <1>1, <2>1, <2>2, <2>3, <2>4 DEF PlaceWithExit, Reading
<1>11. CASE CallExit
  <2>1. PICK answer : 
          /\ state' = IF answer = 12 /\ state < 100 THEN state + 5 ELSE state
          /\ rec' = IF answer = 12 THEN Inserted ELSE rec
          /\ pc' = IF answer = 4 THEN "read" ELSE "load"
    BY <1>11 DEF CallExit
  <2>2. /\ UNCHANGED <<seg, idx, at, vr, last, atEnd, area>> /\ pc = "exit"
        /\ state \in {1, 2, 99, 104} /\ rec = area /\ area # Inserted
    BY <1>11, RecordIs DEF CallExit, kept, FilesInv, TypeOK, Areas
  <2>3. CASE answer = 12
    <3>1. rec' = Inserted /\ pc' = "load" /\ state' = (IF state < 100 THEN state + 5 ELSE state)
      BY <2>1, <2>3
    <3>2. CASE state \in {1, 2}
      <4>1. state' \in {6, 7} /\ state' - 5 = state
        BY <3>1, <3>2
      <4> QED BY <1>1, <2>2, <3>1, <3>2, <4>1 DEF PlaceWithExit, Reading
    <3>3. CASE state \in {99, 104}
      <4>1. state' = 104
        BY <3>1, <3>3
      <4> QED BY <1>1, <2>2, <3>1, <3>3, <4>1 DEF PlaceWithExit, Reading
    <3> QED BY <2>2, <3>2, <3>3
  <2>4. CASE answer # 12
    <3>1. rec' = rec /\ pc' \in {"read", "load"} /\ state' = state
      BY <2>1, <2>4
    <3> QED BY <1>1, <2>2, <3>1 DEF PlaceWithExit, Reading
  <2> QED BY <2>3, <2>4
<1>12. CASE LoadInMemory
  <2>1. /\ UNCHANGED <<idx, at, vr, last, atEnd, area, state>> /\ pc = "load"
        /\ pc' = "read" /\ seg' = seg
    BY <1>12 DEF LoadInMemory, e15, Straight
  <2>2. state # 0
    BY <2>1 DEF PlaceWithExit, Reading
  <2> QED BY <1>1, <2>1, <2>2 DEF PlaceWithExit, Reading
<1>13. CASE UNCHANGED vars \/ Terminated
  <2>1. UNCHANGED <<seg, pc, rec, idx, at, vr, last, atEnd, area, state>>
    BY <1>13 DEF vars, Terminated, kept, e15
  <2> QED BY <1>1, <2>1 DEF PlaceWithExit, Reading
<1>14. ~ (Read \/ VerifyBack)
  BY DEF Read, VerifyBack, Straight
<1> QED BY <1>2, <1>3, <1>4, <1>5, <1>6, <1>7, <1>8, <1>9, <1>10, <1>11, <1>12, <1>13,
           <1>14 DEF Next, Step

(* Every step keeps the place. *)
LEMMA PlaceNext == TypeOK /\ PlaceInv /\ [Next]_vars => PlaceInv'
<1> SUFFICES ASSUME TypeOK, PlaceInv, [Next]_vars
             PROVE  PlaceInv'
  OBVIOUS
<1>1. exit' = exit /\ Straight' = Straight
  BY InputKept, InputStays
<1>2. FilesInv' /\ InBounds'
  BY FilesNext, BoundsNext DEF PlaceInv
<1>3. ~ exit => PlaceWithoutExit'
  BY PlainPlaceNext DEF PlaceInv
<1>4. exit /\ Straight => PlaceWithExit'
  BY ExitPlaceNext DEF PlaceInv
<1> QED BY <1>1, <1>2, <1>3, <1>4 DEF PlaceInv

-----------------------------------------------------------------------------
(* The next record. *)

(* The record in hand is one of the file that is read, and it is the one   *)
(* the load is at, unless an inserted record stands before it.             *)
LEMMA InHand ==
    ASSUME TypeOK, PlaceInv, Sized, exit => Straight, state # 104,
           pc \in {"count", "exit", "load"} \/ (exit /\ pc = "read" /\ state # 0)
    PROVE  /\ idx \in 1 .. NumFiles /\ area[2] \in 1 .. lens[idx]
           /\ area = <<idx, area[2]>> /\ area \in InputRecords
           /\ ~ exit => at = area[2] + 1
           /\ exit /\ state \in {1, 2} => area[2] = at - 2 /\ ~ last /\ area[2] < lens[idx]
           /\ exit /\ state = 99 => area[2] = lens[idx] /\ last
<1>1. idx \in 1 .. NumFiles /\ lens[idx] \in Nat /\ at \in Nat \ {0}
  <2>1. idx <= NumFiles
    BY DEF PlaceInv, FilesInv, Reading
  <2>2. idx \in 1 .. NumFiles
    BY <2>1, LoadAssumption DEF TypeOK
  <2>3. lens[idx] \in Nat
    BY <2>2 DEF TypeOK, Statements
  <2> QED BY <2>2, <2>3 DEF TypeOK
<1>2. \A k : area = <<idx, k>> /\ k \in 1 .. lens[idx] =>
         /\ area[2] \in 1 .. lens[idx] /\ area[2] = k
         /\ area = <<idx, area[2]>> /\ area \in InputRecords
  BY <1>1, RecordIs DEF TypeOK
<1>3. CASE ~ exit
  <2>1. at \in 2 .. lens[idx] + 1 /\ area = <<idx, at - 1>>
    BY <1>3 DEF PlaceInv, PlaceWithoutExit
  <2>2. at - 1 \in 1 .. lens[idx] /\ at = (at - 1) + 1
    BY <1>1, <2>1
  <2> QED BY <1>1, <1>2, <1>3, <2>1, <2>2
<1>4. CASE exit
  <2>1. PlaceWithExit /\ lens[idx] > 0 /\ Reading
    BY <1>1, <1>4 DEF PlaceInv, Sized, Reading
  <2>2. state \in {1, 2, 6, 7, 99}
    BY <1>4, <2>1 DEF TypeOK, PlaceWithExit
  <2>3. CASE state = 99
    <3>1. area = <<idx, lens[idx]>> /\ last
      BY <1>1, <2>1, <2>3 DEF PlaceWithExit
    <3>2. lens[idx] \in 1 .. lens[idx]
      BY <1>1, <2>1
    <3> QED BY <1>1, <1>2, <1>4, <2>3, <3>1, <3>2
  <2>4. CASE state \in {1, 2, 6, 7}
    <3>1. at \in 3 .. lens[idx] + 1 /\ area = <<idx, at - 2>> /\ ~ last
      <4>1. CASE state < 6
        BY <2>1, <2>4, <4>1 DEF PlaceWithExit
      <4>2. CASE ~ (state < 6)
        BY <2>1, <2>4, <4>2 DEF PlaceWithExit
      <4> QED BY <4>1, <4>2
    <3>2. at - 2 \in 1 .. lens[idx] /\ at - 2 < lens[idx]
      BY <1>1, <3>1
    <3> QED BY <1>1, <1>2, <1>4, <2>4, <3>1, <3>2
  <2> QED BY <2>2, <2>3, <2>4
<1> QED BY <1>3, <1>4

(* The next place is a place. *)
LEMMA AheadIsPlace ==
    ASSUME TypeOK
    PROVE  \E f \in Nat : \E i \in Nat : Ahead = <<f, i>>
<1>1. idx \in Nat /\ at \in Nat /\ idx + 1 \in Nat
  BY LoadAssumption DEF TypeOK
<1>2. /\ area[1] \in Nat /\ area[2] \in Nat /\ area[2] + 1 \in Nat
      /\ area = <<area[1], area[2]>>
  <2>1. CASE area \in InputRecords
    BY <2>1, RecordIs DEF TypeOK
  <2>2. CASE area = Blank
    BY <2>2 DEF Blank
  <2> QED BY <2>1, <2>2 DEF TypeOK, Areas
<1>3. \/ Ahead = <<idx + 1, 1>> \/ Ahead = <<idx, 1>> \/ Ahead = <<area[1], area[2]>>
      \/ Ahead = <<idx, area[2] + 1>> \/ Ahead = <<idx, at>>
  BY <1>2 DEF Ahead
<1> QED BY <1>1, <1>2, <1>3

(* Only Count, CallExit and LoadInMemory deal with a record: nothing else  *)
(* moves the next one.                                                     *)
LEMMA AheadStays ==
    ASSUME TypeOK, PlaceInv, Between, Sized, exit => Straight, state # 104,
           pc' # "failed",
           \/ StartRound \/ StartFile \/ EndFiles \/ CloseFile \/ Read \/ VerifyFirst
           \/ VerifyNext \/ VerifyAgain \/ VerifyEnd \/ NoExit \/ AfterInsert
           \/ UNCHANGED vars \/ Terminated
    PROVE  Past(Ahead)' = Past(Ahead)
<1>1. UNCHANGED input
  BY InputStays DEF Next, Step
<1>2. InputRecords' = InputRecords /\ exit' = exit
  BY <1>1, InputKept
<1>3. Ahead' = Ahead => Past(Ahead)' = Past(Ahead)
  BY <1>2 DEF Past
<1>4. Past(Ahead') = Past(Ahead) => Past(Ahead)' = Past(Ahead)
  BY <1>2 DEF Past
<1>5. CASE StartRound
  <2>1. /\ pc = "round" /\ pc' = "file" /\ idx' = currFile /\ eofIn' = FALSE
        /\ state' = state /\ at' = at /\ seg' = seg
    BY <1>5 DEF StartRound
  <2>2. idx = currFile /\ (~ seg => at = 1)
    BY <2>1 DEF PlaceInv, FilesInv
  <2>3. Ahead = <<idx, at>> /\ Ahead' = <<idx, at>>
    BY <2>1, <2>2 DEF Ahead, Between
  <2> QED BY <1>3, <2>3
<1>6. CASE StartFile
  <2>1. /\ pc = "file" /\ pc' = "read" /\ idx' = idx /\ state' = 0
        /\ at' = IF ~ seg \/ eofIn THEN 1 ELSE at
    BY <1>6 DEF StartFile, ResetExit
  <2>2. Ahead = <<idx, at'>> /\ Ahead' = <<idx, at'>>
    BY <2>1 DEF Ahead, Between
  <2> QED BY <1>3, <2>2
<1>7. CASE EndFiles
  <2>1. pc = "file" /\ pc' = "end" /\ UNCHANGED <<idx, at, state>> /\ idx > NumFiles /\ idx \in Nat
    BY <1>7, LoadAssumption DEF EndFiles, TypeOK, e15
  <2>2. \E i, j : Ahead = <<idx, i>> /\ Ahead' = <<idx, j>>
    BY <2>1 DEF Ahead, Between
  <2>3. Past(Ahead) = InputRecords /\ Past(Ahead') = InputRecords
    BY <2>1, <2>2, PastEnds DEF TypeOK
  <2> QED BY <1>4, <2>3
<1>8. CASE CloseFile
  <2>1. pc = "close" /\ pc' = "file" /\ idx' = idx + 1 /\ eofIn' = TRUE
    BY <1>8 DEF CloseFile, NextFile
  <2>2. Ahead' = <<idx + 1, 1>> /\ Ahead = <<idx + 1, 1>>
    BY <2>1 DEF Ahead
  <2> QED BY <1>3, <2>2
<1>9. CASE Read
  <2>1. pc = "read" /\ ~ exit /\ idx' = idx /\ state' = state /\ state = 0
    BY <1>9 DEF Read, e15, PlaceInv, PlaceWithoutExit
  <2>2. Ahead = <<idx, at>> /\ idx \in 1 .. NumFiles /\ at \in Nat /\ lens[idx] \in Nat
    BY <2>1, LoadAssumption DEF Ahead, PlaceInv, FilesInv, Reading, TypeOK, Statements
  <2>3. CASE InFile
    <3>1. pc' = "count" /\ area' = <<idx, at>>
      BY <1>9, <2>3 DEF Read, Here
    <3> QED BY <1>3, <2>2, <3>1 DEF Ahead
  <2>4. CASE ~ InFile
    <3>1. pc' = "close"
      BY <1>9, <2>4 DEF Read
    <3>2. Ahead' = <<idx + 1, 1>>
      BY <2>1, <3>1 DEF Ahead
    <3>3. Past(<<idx, at>>) = Past(<<idx + 1, 1>>)
      BY <2>2, <2>4, PastFile DEF InFile, TypeOK
    <3> QED BY <1>4, <2>2, <3>2, <3>3
  <2> QED BY <2>3, <2>4
<1>10. CASE VerifyFirst
  <2>1. pc = "read" /\ pc' = "count" /\ exit /\ state = 0 /\ idx <= NumFiles
    BY <1>10 DEF VerifyFirst, Delivered, PlaceInv, FilesInv, Reading
  <2>2. at = 1 /\ idx \in 1 .. NumFiles
    BY <2>1, LoadAssumption DEF PlaceInv, PlaceWithExit, Reading, TypeOK
  <2>3. InFile
    BY <2>1, <2>2 DEF Sized, InFile, TypeOK, Statements
  <2>4. area' = <<idx, at>>
    BY <1>10, <2>3 DEF VerifyFirst, Here
  <2>5. Ahead = <<idx, at>> /\ Ahead' = <<idx, at>>
    BY <2>1, <2>4 DEF Ahead
  <2> QED BY <1>3, <2>5
<1>11. CASE VerifyNext
  <2>1. /\ pc = "read" /\ pc' = "count" /\ exit /\ state \in {1, 2} /\ area' = vr[3 - state]
    BY <1>11 DEF VerifyNext, Delivered, Other
  <2>2. /\ vr[3 - state] = <<idx, at - 1>> /\ area = <<idx, at - 2>>
        /\ at \in Nat
    BY <2>1 DEF PlaceInv, PlaceWithExit, Reading, TypeOK
  <2>3. area[2] + 1 = at - 1
    BY <2>2
  <2>4. Ahead = <<idx, at - 1>> /\ Ahead' = <<idx, at - 1>>
    BY <2>1, <2>2, <2>3 DEF Ahead
  <2> QED BY <1>3, <2>4
<1>12. CASE VerifyAgain
  <2>1. pc = "read" /\ pc' = "count" /\ exit /\ state \in {6, 7} /\ area' = vr[state - 5]
    BY <1>12 DEF VerifyAgain, Delivered
  <2>2. area' = area
    BY <2>1 DEF PlaceInv, PlaceWithExit, Reading
  <2>3. Ahead = area /\ Ahead' = area
    BY <2>1, <2>2 DEF Ahead
  <2> QED BY <1>3, <2>3
<1>13. CASE VerifyEnd
  <2>1. pc = "read" /\ pc' = "close" /\ exit /\ state = 99 /\ idx' = idx
    BY <1>13 DEF VerifyEnd
  <2>2. idx \in 1 .. NumFiles /\ area[2] = lens[idx] /\ lens[idx] \in Nat
    <3>1. state # 0
      BY <2>1
    <3>2. idx \in 1 .. NumFiles /\ area[2] = lens[idx]
      BY <2>1, <3>1, InHand
    <3> QED BY <3>2 DEF TypeOK, Statements
  <2>3. lens[idx] + 1 \in Nat /\ lens[idx] + 1 > lens[idx]
    BY <2>2
  <2>4. Ahead = <<idx, lens[idx] + 1>> /\ Ahead' = <<idx + 1, 1>>
    BY <2>1, <2>2 DEF Ahead
  <2>5. Past(<<idx, lens[idx] + 1>>) = Past(<<idx + 1, 1>>)
    BY <2>2, <2>3, PastFile DEF TypeOK
  <2> QED BY <1>4, <2>4, <2>5
<1>14. CASE NoExit \/ AfterInsert
  <2>1. pc = "exit" /\ pc' = "load" /\ area' = area
    BY <1>14 DEF NoExit, AfterInsert
  <2> QED BY <1>3, <2>1 DEF Ahead
<1>15. CASE UNCHANGED vars \/ Terminated
  <2>1. UNCHANGED <<pc, idx, seg, eofIn, state, at, area>>
    BY <1>15 DEF vars, kept, e15, Terminated
  <2> QED BY <1>3, <2>1 DEF Ahead
<1> QED BY <1>5, <1>6, <1>7, <1>8, <1>9, <1>10, <1>11, <1>12, <1>13, <1>14, <1>15

-----------------------------------------------------------------------------
(* nRecCount. *)

(* Counting one record more, or none when it no longer matters. *)
LEMMA CountsOn ==
    ASSUME NEW s \in Nat, NEW t \in Nat, NEW k \in 0 .. 1 + s + t, NEW c \in Nat,
           k <= c, k < c => s < k /\ t < k,
           NEW n, n = IF k < 1 + s + t THEN k + 1 ELSE k
    PROVE  n \in Nat /\ n >= 1 /\ n <= c + 1 /\ (n < c + 1 => s < n /\ t < n)
OBVIOUS

(* Without an exit the count is the number of the record, or as good: it   *)
(* is not back at 0 after a round, and STOPAFT ends each file in its turn. *)
LEMMA CountNext ==
    ASSUME TypeOK, PlaceInv, ~ exit, CountInv, pc' # "failed", [Next]_vars
    PROVE  CountInv'
<1>1. /\ InputRecords' = InputRecords /\ exit' = exit /\ skipRec' = skipRec /\ stopAft' = stopAft
      /\ skipRec \in Nat /\ stopAft \in Nat
  BY InputStays, InputKept DEF TypeOK, Statements
<1>2. /\ Statements /\ Sized /\ Between /\ state = 0
      /\ state # 104 /\ (exit => Straight)
  <2>1. state = 0
    BY DEF PlaceInv, PlaceWithoutExit
  <2>2. state # 104
    BY <2>1
  <2>3. Between
    BY <2>1 DEF Between
  <2>4. Statements /\ Sized /\ (exit => Straight)
    BY DEF TypeOK, Sized
  <2> QED BY <2>1, <2>2, <2>3, <2>4
<1> DEFINE Told == IF pc \in {"exit", "load"} THEN Number(area) ELSE Cardinality(Past(Ahead))
<1>3. /\ pc # "round" \/ seg => Tells(recCount, Told)
      /\ pc \in {"exit", "load"} =>
            Number(area) > skipRec /\ (stopAft > 0 => Number(area) <= stopAft)
  BY DEF CountInv
<1>4. SUFFICES /\ pc' # "round" \/ seg' => Tells(recCount, Told)'
               /\ pc' \in {"exit", "load"} =>
                     Number(area)' > skipRec /\ (stopAft > 0 => Number(area)' <= stopAft)
  BY <1>1 DEF CountInv
<1>5. Told' = Told /\ recCount' = recCount => Tells(recCount, Told)' = Tells(recCount, Told)
  BY <1>1 DEF Tells
<1>6. Past(area') = Past(area) => Number(area)' = Number(area)
  BY <1>1 DEF Number, Past
<1>7. CASE StartRound
  <2>1. pc = "round" /\ pc' = "file" /\ recCount' = (IF seg THEN recCount ELSE 0)
    BY <1>7 DEF StartRound, FirstCount
  <2>2. Past(Ahead)' = Past(Ahead)
    BY <1>2, <1>7, <2>1, AheadStays
  <2>3. Told' = Told
    BY <2>1, <2>2
  <2>4. CASE seg
    BY <1>3, <1>5, <2>1, <2>3, <2>4
  <2>5. CASE ~ seg
    <3>1. idx = 1 /\ at = 1
      BY <2>1, <2>5 DEF PlaceInv, FilesInv
    <3>2. Ahead = <<1, 1>>
      BY <1>2, <2>1, <3>1 DEF Ahead
    <3>3. Told = 0
      BY <1>2, <2>1, <3>2, PastEnds
    <3>4. recCount' = 0 /\ Told' = 0
      BY <2>1, <2>3, <2>5, <3>3
    <3>5. Tells(recCount, Told)'
      BY <3>4 DEF Tells
    <3> QED BY <2>1, <3>5
  <2> QED BY <2>4, <2>5
<1>8. CASE StartFile \/ EndFiles \/ CloseFile \/ Read
  <2>1. Past(Ahead)' = Past(Ahead)
    BY <1>2, <1>8, AheadStays
  <2>2. /\ pc \in {"file", "close", "read"} /\ pc' \in {"read", "end", "file", "count", "close"}
        /\ recCount' = recCount
    BY <1>8 DEF StartFile, EndFiles, CloseFile, Read, kept
  <2>3. Told' = Told
    BY <2>1, <2>2
  <2> QED BY <1>3, <1>5, <2>2, <2>3
<1>9. CASE Count
  <2> DEFINE n == IF recCount < CountCap THEN recCount + 1 ELSE recCount
             i == area[2]
  <2>1. /\ pc = "count" /\ recCount' = n /\ area' = area /\ idx' = idx /\ at' = at /\ state' = state
        /\ pc' = IF Skipped(n) THEN "read" ELSE IF PastStop(n) THEN "close" ELSE "exit"
    BY <1>9 DEF Count, e15
  <2>2. /\ idx \in 1 .. NumFiles /\ i \in 1 .. lens[idx] /\ area = <<idx, i>> /\ at = i + 1
        /\ area \in InputRecords
    BY <1>2, <2>1, InHand
  <2> DEFINE c == Cardinality(Past(area))
  <2>3. /\ c \in Nat /\ Number(area) = c + 1 /\ Cardinality(Past(<<idx, i + 1>>)) = c + 1
        /\ i + 1 \in Nat
    <3>1. c \in Nat
      BY <1>2, PastFinite
    <3>2. Cardinality(Past(<<idx, i + 1>>)) = c + 1
      BY <1>2, <2>2, PastStep
    <3>3. i + 1 \in Nat
      BY <1>2, <2>2, RecordIs
    <3> QED BY <3>1, <3>2, <3>3 DEF Number
  <2>4. Tells(recCount, c)
    <3>1. Ahead = area
      BY <2>1 DEF Ahead
    <3> QED BY <1>3, <2>1, <3>1
  <2>5. n \in Nat /\ n >= 1 /\ n <= c + 1 /\ (n < c + 1 => skipRec < n /\ stopAft < n)
    <3>1. recCount \in 0 .. 1 + skipRec + stopAft
      BY DEF TypeOK, CountCap
    <3>2. recCount <= c /\ (recCount < c => skipRec < recCount /\ stopAft < recCount)
      BY <2>4 DEF Tells
    <3>3. n = IF recCount < 1 + skipRec + stopAft THEN recCount + 1 ELSE recCount
      BY DEF CountCap
    <3> HIDE DEF n, c
    <3> QED BY <1>1, <2>3, <3>1, <3>2, <3>3, CountsOn
  <2> HIDE DEF n, c, i
  <2>6. CASE Skipped(n)
    <3>1. pc' = "read" /\ Ahead' = <<idx, at>>
      BY <1>2, <2>1, <2>6 DEF Ahead
    <3>2. Told' = c + 1
      BY <1>1, <2>2, <2>3, <3>1 DEF Past
    <3>3. Tells(recCount, Told)'
      BY <1>1, <2>1, <2>5, <3>2 DEF Tells
    <3> QED BY <3>1, <3>3
  <2>7. CASE ~ Skipped(n) /\ PastStop(n)
    <3>1. pc' = "close" /\ Ahead' = <<idx + 1, 1>>
      BY <2>1, <2>7 DEF Ahead
    <3>2. PICK d : d = Cardinality(Past(<<idx + 1, 1>>))
      OBVIOUS
    <3>3. Told' = d
      BY <1>1, <3>1, <3>2 DEF Past
    <3>4. d \in Nat /\ c + 1 <= d
      BY <1>2, <2>2, <2>3, <3>2, PastFile, PastFinite
    <3>5. skipRec < n /\ stopAft < n
      BY <1>1, <2>5, <2>7 DEF Skipped, PastStop
    <3>6. n <= d
      BY <2>3, <2>5, <3>4
    <3>7. Tells(recCount, Told)'
      BY <1>1, <2>1, <3>3, <3>5, <3>6 DEF Tells
    <3> QED BY <3>1, <3>7
  <2>8. CASE ~ Skipped(n) /\ ~ PastStop(n)
    <3>1. pc' = "exit"
      BY <2>1, <2>8
    <3>2. Number(area)' = c + 1
      BY <1>6, <2>1, <2>3
    <3>3. Told' = c + 1
      BY <3>1, <3>2
    <3>4. Tells(recCount, Told)'
      BY <1>1, <2>1, <2>5, <3>3 DEF Tells
    <3>5. c + 1 > skipRec
      BY <1>1, <2>3, <2>5, <2>8 DEF Skipped
    <3>6. stopAft > 0 => c + 1 <= stopAft
      BY <1>1, <2>3, <2>5, <2>8 DEF PastStop
    <3> QED BY <3>1, <3>2, <3>4, <3>5, <3>6
  <2> QED BY <2>6, <2>7, <2>8
<1>10. CASE NoExit
  <2>1. pc = "exit" /\ pc' = "load" /\ area' = area /\ recCount' = recCount
    BY <1>10 DEF NoExit, kept
  <2>2. Number(area)' = Number(area)
    BY <1>6, <2>1
  <2>3. Told' = Told
    BY <2>1, <2>2
  <2> QED BY <1>3, <1>5, <2>1, <2>2, <2>3
<1>11. CASE LoadInMemory
  <2>1. /\ pc = "load" /\ pc' \in {"read", "round"} /\ recCount' = recCount
        /\ state' = state /\ idx' = idx /\ at' = at
    BY <1>11 DEF LoadInMemory, e15
  <2>2. /\ idx \in 1 .. NumFiles /\ area[2] \in 1 .. lens[idx] /\ area = <<idx, area[2]>>
        /\ at = area[2] + 1
    BY <1>2, <2>1, InHand
  <2>3. Cardinality(Past(<<idx, at>>)) = Number(area)
    BY <1>2, <2>2, PastStep DEF Number
  <2>4. Ahead' = <<idx, at>>
    BY <1>2, <2>1 DEF Ahead
  <2>5. Told' = Told
    BY <1>1, <2>1, <2>3, <2>4 DEF Past
  <2> QED BY <1>3, <1>5, <2>1, <2>5
<1>12. CASE UNCHANGED vars \/ Terminated
  <2>1. UNCHANGED <<pc, seg, recCount, area>>
    BY <1>12 DEF vars, kept, Terminated
  <2>2. Past(Ahead)' = Past(Ahead)
    BY <1>2, <1>12, AheadStays
  <2>3. Number(area)' = Number(area)
    BY <1>6, <2>1
  <2>4. Told' = Told
    BY <2>1, <2>2, <2>3
  <2> QED BY <1>3, <1>5, <2>1, <2>3, <2>4
<1>13. ~ (VerifyFirst \/ VerifyBack \/ VerifyNext \/ VerifyAgain \/ VerifyOther \/ VerifyEnd)
  BY DEF VerifyFirst, VerifyBack, VerifyNext, VerifyAgain, VerifyOther, VerifyEnd
<1>14. ~ (CallExit \/ AfterInsert)
  BY DEF CallExit, AfterInsert
<1>15. ~ OpenFails
  BY DEF OpenFails
<1> QED BY <1>7, <1>8, <1>9, <1>10, <1>11, <1>12, <1>13, <1>14, <1>15 DEF Next, Step

-----------------------------------------------------------------------------
(* What has been loaded. *)

(* A record put in memory. *)
LEMMA OneMore ==
    ASSUME NEW S, NEW s \in Seq(S), NEW e \in S
    PROVE  /\ Append(s, e) \in Seq(S) /\ ToSet(Append(s, e)) = ToSet(s) \cup {e}
           /\ InOrder(s) /\ (e # Inserted => \A x \in ToSet(s) \ {Inserted} : Precedes(x, e))
                 => InOrder(Append(s, e))
<1> DEFINE t == Append(s, e)
<1>1. /\ t \in Seq(S) /\ Len(s) \in Nat /\ Len(t) = Len(s) + 1
      /\ DOMAIN s = 1 .. Len(s) /\ DOMAIN t = 1 .. Len(s) + 1
      /\ \A i \in 1 .. Len(s) : t[i] = s[i]
      /\ t[Len(s) + 1] = e
  OBVIOUS
<1> HIDE DEF t
<1>2. ToSet(t) = ToSet(s) \cup {e}
  <2>1. \A i \in 1 .. Len(s) + 1 : i \in 1 .. Len(s) \/ i = Len(s) + 1
    BY <1>1
  <2>2. 1 .. Len(s) \subseteq 1 .. Len(s) + 1 /\ Len(s) + 1 \in 1 .. Len(s) + 1
    BY <1>1
  <2> QED BY <1>1, <2>1, <2>2 DEF ToSet
<1>3. ASSUME InOrder(s), e # Inserted => \A x \in ToSet(s) \ {Inserted} : Precedes(x, e),
             NEW i \in DOMAIN t, NEW j \in DOMAIN t, i < j, t[i] # Inserted, t[j] # Inserted
      PROVE  Precedes(t[i], t[j])
  <2>1. i \in 1 .. Len(s) /\ t[i] = s[i] /\ s[i] \in ToSet(s)
    BY <1>1, <1>3 DEF ToSet
  <2>2. CASE j \in 1 .. Len(s)
    BY <1>1, <1>3, <2>1, <2>2 DEF InOrder
  <2>3. CASE j \notin 1 .. Len(s)
    <3>1. j = Len(s) + 1
      BY <1>1, <1>3, <2>3
    <3>2. t[j] = e
      BY <1>1, <3>1
    <3> QED BY <1>3, <2>1, <3>2
  <2> QED BY <2>2, <2>3
<1>4. InOrder(s) /\ (e # Inserted => \A x \in ToSet(s) \ {Inserted} : Precedes(x, e)) => InOrder(t)
  BY <1>3 DEF InOrder
<1> QED BY <1>1, <1>2, <1>4 DEF t

(* A file with an exit is left from state 99 only. *)
LEMMA BetweenNext ==
    ASSUME TypeOK, PlaceInv, Between, Sized, exit => Straight, [Next]_vars,
           pc' # "failed"
    PROVE  Between' /\ (state = 104 => state' = 104)
<1>1. CASE StartRound \/ EndFiles \/ CloseFile
  <2>1. pc \in {"round", "file", "close"} /\ state' = state
    BY <1>1 DEF StartRound, EndFiles, CloseFile, e15
  <2> QED BY <2>1 DEF Between
<1>2. CASE StartFile
  <2>1. pc = "file" /\ pc' = "read"
    BY <1>2 DEF StartFile
  <2>2. state # 104
    BY <2>1 DEF Between
  <2> QED BY <2>1, <2>2 DEF Between
<1>3. CASE Read
  <2>1. ~ exit /\ state' = state
    BY <1>3 DEF Read, e15
  <2>2. state = 0
    BY <2>1 DEF PlaceInv, PlaceWithoutExit
  <2> QED BY <2>1, <2>2 DEF Between
<1>4. CASE VerifyFirst \/ VerifyBack \/ VerifyNext \/ VerifyAgain \/ VerifyOther
  <2>1. pc' = "count" /\ (state = 104 => state' = state)
    BY <1>4 DEF VerifyFirst, VerifyBack, VerifyNext, VerifyAgain, VerifyOther, Delivered
  <2> QED BY <2>1 DEF Between
<1>5. CASE VerifyEnd
  <2>1. state = 99 /\ state' = state
    BY <1>5 DEF VerifyEnd, e15
  <2> QED BY <2>1 DEF Between
<1>6. CASE Count
  <2>1. state' = state /\ stopAft \in Nat
    BY <1>6 DEF Count, e15, TypeOK, Statements
  <2>2. CASE exit
    <3>1. stopAft = 0
      BY <2>2 DEF Sized
    <3>2. pc' \in {"read", "exit"}
      BY <1>6, <3>1 DEF Count, PastStop
    <3> QED BY <2>1, <3>2 DEF Between
  <2>3. CASE ~ exit
    <3>1. state = 0
      BY <2>3 DEF PlaceInv, PlaceWithoutExit
    <3> QED BY <2>1, <3>1 DEF Between
  <2> QED BY <2>2, <2>3
<1>7. CASE NoExit \/ AfterInsert
  <2>1. pc' = "load" /\ state' = state
    BY <1>7 DEF NoExit, AfterInsert, e15
  <2> QED BY <2>1 DEF Between
<1>8. CASE CallExit
  <2>1. pc' \in {"read", "load"} /\ (state = 104 => state' = 104)
    BY <1>8 DEF CallExit
  <2> QED BY <2>1 DEF Between
<1>9. CASE LoadInMemory
  <2>1. state' = state /\ (pc' = "read" \/ (exit \in MemoryFills /\ pc' = "round"))
    BY <1>9 DEF LoadInMemory, e15
  <2>2. CASE exit
    <3>1. exit = TRUE
      BY <2>2, LoadAssumption DEF TypeOK, Statements
    <3>2. pc' = "read"
      BY <2>1, <2>2, <3>1 DEF Straight
    <3> QED BY <2>1, <3>2 DEF Between
  <2>3. CASE ~ exit
    <3>1. state = 0
      BY <2>3 DEF PlaceInv, PlaceWithoutExit
    <3> QED BY <2>1, <3>1 DEF Between
  <2> QED BY <2>2, <2>3
<1>10. CASE UNCHANGED vars \/ Terminated
  BY <1>10 DEF vars, Terminated, e15, Between
<1>11. ~ OpenFails
  BY DEF OpenFails
<1> QED BY <1>1, <1>2, <1>3, <1>4, <1>5, <1>6, <1>7, <1>8, <1>9, <1>10, <1>11 DEF Next, Step

(* A record is dealt with: the statements or the exit leave it out, or it  *)
(* is loaded behind the others.                                            *)
LEMMA LoadedNext ==
    ASSUME TypeOK, PlaceInv, Sized, exit => Straight, ~ exit => CountInv,
           LoadedInv, pc' # "failed", [Next]_vars
    PROVE  LoadedInv'
<1>1. /\ InputRecords' = InputRecords /\ Selected' = Selected /\ exit' = exit /\ omit' = omit
      /\ Statements /\ skipRec \in Nat /\ stopAft \in Nat
  BY InputStays, InputKept DEF TypeOK, Statements
<1>2. Between /\ Between' /\ (state = 104 => state' = 104)
  BY BetweenNext DEF LoadedInv
<1>3. CASE state = 104
  <2>1. state' = 104
    BY <1>2, <1>3
  <2> QED BY <1>2, <2>1 DEF LoadedInv
<1>4. ASSUME state # 104
      PROVE  LoadedInv'
  <2>1. /\ InOrder(loaded) /\ deleted \subseteq Past(Ahead)
        /\ ToSet(loaded) \ {Inserted} = Wanted \cap Past(Ahead)
    BY <1>4 DEF LoadedInv
  <2>2. loaded' = loaded => InOrder(loaded)' /\ ToSet(loaded)' = ToSet(loaded)
    BY <2>1 DEF InOrder, ToSet, Precedes
  <2>3. deleted' = deleted => Wanted' = Wanted
    BY <1>1 DEF Wanted
  <2>4. \A e : Ahead' = e => Past(Ahead)' = Past(e)
    BY <1>1 DEF Past
  <2>5. Inserted \notin InputRecords
    BY <1>1, RecordIs
  <2>6. CASE \/ StartRound \/ StartFile \/ EndFiles \/ CloseFile \/ Read \/ VerifyFirst
             \/ VerifyNext \/ VerifyAgain \/ VerifyEnd \/ NoExit \/ AfterInsert
             \/ UNCHANGED vars \/ Terminated
    <3>1. Past(Ahead)' = Past(Ahead)
      BY <1>2, <1>4, <2>6, AheadStays
    <3>2. loaded' = loaded /\ deleted' = deleted
      BY <2>6 DEF StartRound, StartFile, EndFiles, CloseFile, Read, VerifyFirst, VerifyNext,
                  VerifyAgain, VerifyEnd, NoExit, AfterInsert, Terminated, Delivered, vars, story
    <3> QED BY <1>2, <2>1, <2>2, <2>3, <3>1, <3>2 DEF LoadedInv
  <2>7. CASE Count
    <3> DEFINE n == IF recCount < CountCap THEN recCount + 1 ELSE recCount
               i == area[2]
    <3>1. /\ pc = "count" /\ area' = area /\ idx' = idx /\ at' = at /\ state' = state
          /\ recCount' = n /\ loaded' = loaded /\ deleted' = deleted
          /\ pc' = IF Skipped(n) THEN "read" ELSE IF PastStop(n) THEN "close" ELSE "exit"
      BY <2>7 DEF Count, e15, story
    <3>2. /\ idx \in 1 .. NumFiles /\ i \in 1 .. lens[idx] /\ area = <<idx, i>>
          /\ area \in InputRecords /\ (~ exit => at = i + 1)
      BY <1>4, <3>1, InHand
    <3>3. Ahead = area
      BY <3>1 DEF Ahead
    <3> HIDE DEF n, i
    <3>4. ASSUME Ahead' = area
          PROVE  LoadedInv'
      BY <1>2, <2>1, <2>2, <2>3, <2>4, <3>1, <3>3, <3>4 DEF LoadedInv
    <3>5. CASE exit
      <4>1. skipRec = 0 /\ stopAft = 0
        BY <3>5 DEF Sized
      <4>2. pc' = "exit"
        BY <3>1, <4>1 DEF Skipped, PastStop
      <4>3. Ahead' = area
        BY <3>1, <4>2 DEF Ahead
      <4> QED BY <3>4, <4>3
    <3>6. CASE ~ exit
      <4>0. state = 0
        BY <3>6 DEF PlaceInv, PlaceWithoutExit
      <4> DEFINE c == Cardinality(Past(area))
      <4>1. c \in Nat /\ Number(area) = c + 1 /\ Number(area) \in Nat
        BY <1>1, PastFinite DEF Number
      <4> HIDE DEF c
      <4>2. recCount \in 0 .. 1 + skipRec + stopAft
        BY DEF TypeOK, CountCap
      <4>3. recCount <= c /\ (recCount < c => skipRec < recCount /\ stopAft < recCount)
        BY <3>1, <3>3, <3>6 DEF CountInv, Tells, c
      <4>4. n = IF recCount < 1 + skipRec + stopAft THEN recCount + 1 ELSE recCount
        BY DEF n, CountCap
      <4>5. n \in Nat /\ n >= 1 /\ n <= c + 1 /\ (n < c + 1 => skipRec < n /\ stopAft < n)
        BY <1>1, <4>1, <4>2, <4>3, <4>4, CountsOn
      <4>6. CASE Skipped(n)
        <5>1. pc' = "read"
          BY <3>1, <4>6
        <5>2. Ahead' = <<idx, at>>
          BY <3>1, <4>0, <5>1 DEF Ahead
        <5>3. Past(Ahead)' = Past(area) \cup {area}
          <6>1. Past(<<idx, i + 1>>) = Past(area) \cup {area}
            BY <1>1, <3>2, PastStep
          <6>2. Past(Ahead)' = Past(<<idx, at>>)
            BY <2>4, <5>2
          <6> QED BY <3>2, <3>6, <6>1, <6>2
        <5>4. area \notin Selected
          <6>1. n <= skipRec
            BY <4>6 DEF Skipped
          <6>2. ~ (Number(area) > skipRec)
            BY <1>1, <4>1, <4>5, <6>1
          <6> QED BY <6>2 DEF Selected
        <5>5. Wanted = Selected /\ Wanted' = Selected
          BY <1>1, <3>6 DEF Wanted
        <5> QED BY <1>2, <2>1, <2>2, <3>1, <3>3, <5>3, <5>4, <5>5 DEF LoadedInv
      <4>7. CASE ~ Skipped(n) /\ PastStop(n)
        <5>1. pc' = "close"
          BY <3>1, <4>7
        <5>2. Ahead' = <<idx + 1, 1>>
          BY <3>1, <5>1 DEF Ahead
        <5>3. Past(Ahead)' = Past(<<idx + 1, 1>>)
          BY <2>4, <5>2
        <5>4. Past(area) \subseteq Past(<<idx + 1, 1>>)
          <6>1. i \in Nat
            BY <1>1, <3>2, RecordIs
          <6> QED BY <1>1, <3>2, <6>1, PastFile
        <5>5. ASSUME NEW r \in Past(<<idx + 1, 1>>), r \notin Past(area)
              PROVE  r \notin Selected
          <6>1. r \in InputRecords /\ ~ Precedes(r, area)
            BY <5>5 DEF Past
          <6>2. Number(area) <= Number(r) /\ Number(r) \in Nat
            BY <1>1, <3>2, <6>1, NumberGrows
          <6>3. stopAft > 0 /\ n > stopAft
            BY <4>7 DEF PastStop
          <6>4. ~ (Number(r) <= stopAft)
            BY <1>1, <4>1, <4>5, <6>2, <6>3
          <6> QED BY <6>3, <6>4 DEF Selected
        <5>6. Wanted = Selected /\ Wanted' = Selected
          BY <1>1, <3>6 DEF Wanted
        <5>7. Selected \cap Past(<<idx + 1, 1>>) = Selected \cap Past(area)
          BY <5>4, <5>5
        <5> QED BY <1>2, <2>1, <2>2, <3>1, <3>3, <5>3, <5>4, <5>6, <5>7 DEF LoadedInv
      <4>8. CASE ~ Skipped(n) /\ ~ PastStop(n)
        <5>1. pc' = "exit"
          BY <3>1, <4>8
        <5>2. Ahead' = area
          BY <3>1, <5>1 DEF Ahead
        <5> QED BY <3>4, <5>2
      <4> QED BY <4>6, <4>7, <4>8
    <3> QED BY <3>5, <3>6
  <2>8. CASE CallExit
    <3>1. PICK answer :
            /\ state' = IF answer = 12 /\ state < 100 THEN state + 5 ELSE state
            /\ deleted' = IF answer = 4 THEN deleted \cup {rec} ELSE deleted
            /\ pc' = IF answer = 4 THEN "read" ELSE "load"
      BY <2>8 DEF CallExit
    <3>2. /\ pc = "exit" /\ exit /\ UNCHANGED <<idx, at, area, loaded>> /\ rec = area
          /\ state \in {1, 2, 99}
      <4>1. pc = "exit" /\ exit /\ UNCHANGED <<idx, at, area, loaded>>
        BY <2>8 DEF CallExit
      <4>2. rec = area /\ state \in {1, 2, 99, 104}
        BY <4>1 DEF PlaceInv, FilesInv
      <4> QED BY <1>4, <4>1, <4>2
    <3>3. Ahead = area
      BY <3>2 DEF Ahead
    <3>4. CASE answer = 4
      <4>1. pc' = "read" /\ state' = state /\ deleted' = deleted \cup {area}
        BY <3>1, <3>2, <3>4
      <4>2. Ahead' = <<idx, area[2] + 1>>
        BY <3>2, <4>1 DEF Ahead
      <4>3. /\ idx \in 1 .. NumFiles /\ area[2] \in 1 .. lens[idx] /\ area = <<idx, area[2]>>
            /\ area \in InputRecords
        BY <1>4, <3>2, InHand
      <4>4. Past(Ahead)' = Past(area) \cup {area} /\ area \notin Past(area)
        BY <1>1, <2>4, <4>2, <4>3, PastStep
      <4>5. Wanted' = Wanted \ {area}
        BY <1>1, <3>2, <4>1 DEF Wanted
      <4> QED BY <1>2, <2>1, <2>2, <3>2, <3>3, <4>1, <4>4, <4>5 DEF LoadedInv
    <3>5. CASE answer # 4
      <4>1. pc' = "load" /\ deleted' = deleted
        BY <3>1, <3>5
      <4>2. Ahead' = area
        BY <3>2, <4>1 DEF Ahead
      <4> QED BY <1>2, <2>1, <2>2, <2>3, <2>4, <3>2, <3>3, <4>1, <4>2 DEF LoadedInv
    <3> QED BY <3>4, <3>5
  <2>9. CASE LoadInMemory
    <3>1. /\ pc = "load" /\ UNCHANGED <<idx, at, area, state, deleted>>
          /\ pc' = "read" \/ (pc' = "round" /\ exit \in MemoryFills)
      BY <2>9 DEF LoadInMemory, e15
    <3>2. rec \in omit => loaded' = loaded
      BY <2>9 DEF LoadInMemory
    <3>3. rec \notin omit => loaded' = Append(loaded, rec)
      <4>1. ~ PastLast
        <5>1. CASE ~ exit
          BY <5>1 DEF PastLast
        <5>2. CASE exit
          BY <1>4, <3>1, <5>2 DEF PastLast, PlaceInv, PlaceWithExit, Reading, TypeOK
        <5> QED BY <5>1, <5>2
      <4> QED BY <2>9, <4>1 DEF LoadInMemory
    <3>4. /\ idx \in 1 .. NumFiles /\ area[2] \in 1 .. lens[idx] /\ area = <<idx, area[2]>>
          /\ area \in InputRecords /\ (~ exit => at = area[2] + 1)
      BY <1>4, <3>1, InHand
    <3>5. loaded \in Seq(Areas \cup {Inserted}) /\ rec \in Areas \cup {Inserted}
      BY DEF TypeOK
    <3>6. Ahead = area
      BY <3>1 DEF Ahead
    <3>7. Wanted' = Wanted
      BY <2>3, <3>1
    <3>8. CASE rec = Inserted
      <4>1. exit /\ state \in {6, 7}
        <5>1. exit
          BY <3>1, <3>4, <3>8, <2>5 DEF PlaceInv, PlaceWithoutExit
        <5>2. state \in {6, 7}
          BY <1>4, <3>1, <3>8, <5>1 DEF PlaceInv, PlaceWithExit, Reading
        <5> QED BY <5>1, <5>2
      <4>2. Ahead' = area
        BY <3>1, <4>1 DEF Ahead
      <4>3. Past(Ahead)' = Past(area)
        BY <2>4, <4>2
      <4>4. CASE rec \in omit
        BY <1>2, <2>1, <2>2, <3>1, <3>2, <3>6, <3>7, <4>3, <4>4 DEF LoadedInv
      <4>5. CASE rec \notin omit
        <5>1. loaded' = Append(loaded, Inserted)
          BY <3>3, <3>8, <4>5
        <5>2. /\ InOrder(Append(loaded, Inserted))
              /\ ToSet(Append(loaded, Inserted)) = ToSet(loaded) \cup {Inserted}
          BY <2>1, <3>5, <3>8, OneMore
        <5>3. InOrder(loaded)' /\ ToSet(loaded)' \ {Inserted} = ToSet(loaded) \ {Inserted}
          BY <5>1, <5>2 DEF InOrder, ToSet, Precedes
        <5> QED BY <1>2, <2>1, <3>1, <3>6, <3>7, <4>3, <5>3 DEF LoadedInv
      <4> QED BY <4>4, <4>5
    <3>9. CASE rec # Inserted
      <4>1. \/ rec = area /\ state \notin {6, 7} /\ state # 0
            \/ ~ exit /\ rec = area /\ state = 0
        <5>1. CASE ~ exit
          BY <3>1, <5>1 DEF PlaceInv, PlaceWithoutExit
        <5>2. CASE exit
          BY <3>1, <3>9, <5>2 DEF PlaceInv, PlaceWithExit, Reading
        <5> QED BY <5>1, <5>2
      <4>2. Ahead' = <<idx, area[2] + 1>>
        <5>1. CASE ~ exit
          <6>1. state' = 0
            BY <3>1, <5>1 DEF PlaceInv, PlaceWithoutExit
          <6>2. Ahead' = <<idx, at>>
            BY <3>1, <6>1 DEF Ahead
          <6> QED BY <3>4, <5>1, <6>2
        <5>2. CASE exit
          <6>1. exit = TRUE
            BY <5>2, LoadAssumption DEF TypeOK, Statements
          <6>2. pc' = "read"
            BY <3>1, <5>2, <6>1 DEF Straight
          <6>3. state \in {1, 2, 99}
            BY <1>4, <4>1, <5>2 DEF TypeOK
          <6> QED BY <3>1, <6>2, <6>3 DEF Ahead
        <5> QED BY <5>1, <5>2
      <4>3. Past(Ahead)' = Past(area) \cup {area} /\ area \notin Past(area)
        BY <1>1, <2>4, <3>4, <4>2, PastStep
      <4>4. rec = area
        BY <4>1
      <4>5. CASE rec \in omit
        <5>1. area \notin Wanted
          BY <4>4, <4>5 DEF Wanted, Selected
        <5> QED BY <1>2, <2>1, <2>2, <3>1, <3>2, <3>6, <3>7, <4>3, <4>5, <5>1 DEF LoadedInv
      <4>6. CASE rec \notin omit
        <5>1. area \in Wanted
          <6>1. CASE ~ exit
            BY <1>1, <3>1, <3>4, <4>4, <4>6, <6>1 DEF Wanted, Selected, CountInv
          <6>2. CASE exit
            BY <2>1, <3>4, <3>6, <4>3, <4>4, <4>6, <6>2 DEF Wanted
          <6> QED BY <6>1, <6>2
        <5>2. \A x \in ToSet(loaded) \ {Inserted} : Precedes(x, area)
          BY <2>1, <3>6 DEF Past
        <5>3. loaded' = Append(loaded, area)
          BY <3>3, <4>4, <4>6
        <5>4. /\ InOrder(Append(loaded, area))
              /\ ToSet(Append(loaded, area)) = ToSet(loaded) \cup {area}
          BY <2>1, <3>5, <4>4, <5>2, OneMore
        <5>5. InOrder(loaded)' /\ ToSet(loaded)' = ToSet(loaded) \cup {area}
          BY <5>3, <5>4 DEF InOrder, ToSet, Precedes
        <5>6. area # Inserted
          BY <2>5, <3>4
        <5>7. ToSet(loaded)' \ {Inserted} = Wanted' \cap Past(Ahead)'
          BY <2>1, <3>6, <3>7, <4>3, <5>1, <5>5, <5>6
        <5>8. deleted' \subseteq Past(Ahead)'
          BY <2>1, <3>1, <3>6, <4>3
        <5> QED BY <1>2, <5>5, <5>7, <5>8 DEF LoadedInv
      <4> QED BY <4>5, <4>6
    <3> QED BY <3>8, <3>9
  <2>10. CASE VerifyOther
    BY <1>4, <2>10 DEF VerifyOther
  <2>11. ~ (OpenFails \/ VerifyBack)
    BY DEF OpenFails, VerifyBack, Straight
  <2> QED BY <2>6, <2>7, <2>8, <2>9, <2>10, <2>11 DEF Next, Step
<1> QED BY <1>3, <1>4

-----------------------------------------------------------------------------
(* The invariant. *)

(* What is selected of the records before a place is a beginning. *)
LEMMA LoadedIsBeginning ==
    TypeOK /\ ~ exit /\ LoadedInv /\ state = 0 /\ Inserted \notin ToSet(loaded) => LoadsInOrder
<1> SUFFICES ASSUME TypeOK, ~ exit, LoadedInv, state = 0, Inserted \notin ToSet(loaded)
             PROVE  LoadsInOrder
  OBVIOUS
<1>1. InOrder(loaded) /\ ToSet(loaded) = Selected \cap Past(Ahead)
  <2>1. state # 104
    OBVIOUS
  <2> QED BY <2>1 DEF LoadedInv, Wanted
<1>2. ASSUME NEW r \in Selected, NEW q \in ToSet(loaded), Precedes(r, q)
      PROVE  r \in ToSet(loaded)
  <2>1. PICK f \in Nat : \E i \in Nat : Ahead = <<f, i>>
    BY AheadIsPlace
  <2>2. PICK i \in Nat : Ahead = <<f, i>>
    BY <2>1
  <2>3. q \in Past(<<f, i>>) /\ r \in InputRecords
    BY <1>1, <1>2, <2>2 DEF Selected
  <2>4. r \in Past(<<f, i>>)
    BY <1>2, <2>3, PastClosed DEF TypeOK
  <2> QED BY <1>1, <1>2, <2>2, <2>4
<1> QED BY <1>1, <1>2 DEF LoadsInOrder

(* A load that fails has loaded nothing more. *)
LEMMA FailureKeeps == [Next]_vars /\ pc' = "failed" => loaded' = loaded
BY DEF Next, Step, vars, story, Terminated, StartRound, StartFile, OpenFails, EndFiles, CloseFile,
       Read, VerifyFirst, VerifyBack, VerifyNext, VerifyAgain, VerifyOther, VerifyEnd, Delivered,
       Count, NoExit, CallExit, AfterInsert, LoadInMemory

(* Without an exit no record is inserted. *)
LEMMA NoneInserted ==
    ASSUME TypeOK, PlaceInv, LoadsInOrder, ~ exit, [Next]_vars
    PROVE  Inserted \notin ToSet(loaded')
<1>1. Inserted \notin ToSet(loaded)
  BY RecordIs DEF TypeOK, LoadsInOrder, Selected
<1>2. CASE LoadInMemory
  <2>1. rec # Inserted /\ loaded \in Seq(Areas \cup {Inserted}) /\ rec \in Areas \cup {Inserted}
    BY <1>2, RecordIs DEF LoadInMemory, PlaceInv, PlaceWithoutExit, TypeOK, Areas
  <2>2. loaded' = loaded \/ loaded' = Append(loaded, rec)
    BY <1>2 DEF LoadInMemory
  <2>3. ToSet(Append(loaded, rec)) = ToSet(loaded) \cup {rec}
    BY <2>1, OneMore
  <2> QED BY <1>1, <2>1, <2>2, <2>3
<1>3. CASE ~ LoadInMemory
  <2>1. loaded' = loaded
    BY <1>3 DEF Next, Step, vars, story, Terminated, StartRound, StartFile, OpenFails, EndFiles,
       CloseFile, Read, VerifyFirst, VerifyBack, VerifyNext, VerifyAgain, VerifyOther,
       VerifyEnd, Delivered,
       Count, NoExit, CallExit, AfterInsert
  <2> QED BY <1>1, <2>1
<1> QED BY <1>2, <1>3

(* Filling memory is invisible, step by step. *)
LEMMA OrderNext ==
    ASSUME TypeOK, TypeOK', PlaceInv, PlaceInv', LoadsInOrder, [Next]_vars,
           ~ exit /\ pc' # "failed" => LoadedInv'
    PROVE  LoadsInOrder'
<1>1. exit' = exit /\ Selected' = Selected
  BY InputStays, InputKept
<1>2. CASE exit
  BY <1>1, <1>2 DEF LoadsInOrder
<1>3. CASE ~ exit /\ pc' = "failed"
  <2>1. loaded' = loaded
    BY <1>3, FailureKeeps
  <2>2. ToSet(loaded)' = ToSet(loaded) /\ InOrder(loaded)' = InOrder(loaded)
    BY <2>1 DEF ToSet, InOrder, Precedes
  <2> QED BY <1>1, <1>3, <2>1, <2>2 DEF LoadsInOrder, Precedes
<1>4. CASE ~ exit /\ pc' # "failed"
  <2>1. Inserted \notin ToSet(loaded')
    BY <1>4, NoneInserted
  <2>2. state' = 0
    BY <1>1, <1>4 DEF PlaceInv, PlaceWithoutExit
  <2>3. (TypeOK /\ ~ exit /\ LoadedInv /\ state = 0 /\ Inserted \notin ToSet(loaded)
            => LoadsInOrder)'
    BY LoadedIsBeginning, PTL
  <2> QED BY <1>1, <1>4, <2>1, <2>2, <2>3 DEF ToSet
<1> QED BY <1>2, <1>3, <1>4

(* The exit is told that a record is the last of its file when it is.      *)
LEMMA FlagNext ==
    ASSUME TypeOK, PlaceInv, FlagTellsFileEnd, TRUE \notin MemoryFills, [Next]_vars
    PROVE  FlagTellsFileEnd'
<1>1. InputRecords' = InputRecords /\ lens' = lens /\ keyed' = keyed
  BY InputStays, InputKept
<1>4. CASE keyed
  BY <1>1, <1>4 DEF FlagTellsFileEnd
<1>2. CASE CallExit /\ ~ keyed
  <2>1. exit /\ pc = "exit" /\ flagged' = <<Flag, rec>> /\ Straight
    BY <1>2 DEF CallExit, Straight
  <2>2. /\ rec = area /\ state \in {1, 2, 99, 104} /\ idx \in 1 .. NumFiles
        /\ lens[idx] \in Nat
    BY <2>1, LoadAssumption DEF PlaceInv, FilesInv, Reading, TypeOK, Statements
  <2>3. PlaceWithExit /\ Reading
    BY <2>1 DEF PlaceInv, Reading
  <2>4. CASE state \in {1, 2}
    <3>1. at \in 3 .. lens[idx] + 1 /\ ~ last /\ area = <<idx, at - 2>>
      BY <2>3, <2>4 DEF PlaceWithExit
    <3>2. at - 2 # lens[idx]
      BY <2>2, <3>1
    <3>3. Flag # 8
      BY <3>1 DEF Flag
    <3>4. area[1] = idx /\ area[2] # lens[idx]
      BY <3>1, <3>2
    <3>5. flagged'[1] # 8 /\ flagged'[2] = area
      BY <2>1, <2>2, <3>3
    <3> QED BY <1>1, <3>4, <3>5 DEF FlagTellsFileEnd
  <2>5. CASE state \in {99, 104}
    <3>1. last /\ area = IF lens[idx] = 0 THEN Blank ELSE <<idx, lens[idx]>>
      BY <2>3, <2>5 DEF PlaceWithExit
    <3>2. Flag = 8
      BY <3>1 DEF Flag
    <3>3. flagged'[1] = 8 /\ flagged'[2] = area
      BY <2>1, <2>2, <3>2
    <3>4. area \in InputRecords => area[1] = idx /\ area[2] = lens[idx]
      BY <3>1, RecordIs DEF TypeOK
    <3> QED BY <1>1, <3>3, <3>4 DEF FlagTellsFileEnd
  <2> QED BY <2>2, <2>4, <2>5
<1>3. CASE ~ CallExit
  <2>1. flagged' = flagged
    BY <1>3 DEF Next, Step, vars, story, Terminated, StartRound, StartFile, OpenFails, EndFiles,
       CloseFile, Read, VerifyFirst, VerifyBack, VerifyNext, VerifyAgain, VerifyOther,
       VerifyEnd, Delivered,
       Count, NoExit, AfterInsert, LoadInMemory
  <2> QED BY <1>1, <2>1 DEF FlagTellsFileEnd
<1> QED BY <1>2, <1>3, <1>4

(* The invariant holds at first ... *)
LEMMA LoadInvInit == Init => LoadInv
<1> SUFFICES ASSUME Init
             PROVE  LoadInv
  OBVIOUS
<1>1. /\ pc = "round" /\ ~ seg /\ currFile = 1 /\ recCount = 0 /\ idx = 1 /\ ~ eofIn /\ at = 1
      /\ area = Blank /\ rec = Blank /\ state = 0 /\ loaded = <<>> /\ deleted = {}
      /\ flagged = <<0, Blank>>
  BY DEF Init
<1>2. Statements
  BY LoadAssumption DEF Init, Statements
<1>3. TypeOK
  <2>1. Blank \in Areas
    BY DEF Areas
  <2>2. vr = <<Blank, Blank>> /\ nrek = 0 /\ rc = 0
    BY DEF Init
  <2>3. atEnd \in BOOLEAN /\ last \in BOOLEAN /\ seg \in BOOLEAN /\ eofIn \in BOOLEAN
    BY DEF Init
  <2>4. vr \in Areas \X Areas
    BY <2>1, <2>2
  <2>5. recCount \in 0 .. CountCap
    BY <1>1, <1>2 DEF CountCap, Statements
  <2>6. currFile \in 1 .. NumFiles /\ idx \in 1 .. NumFiles + 1 /\ at \in Nat \ {0}
    BY <1>1, LoadAssumption
  <2> QED BY <1>1, <1>2, <2>1, <2>2, <2>3, <2>4, <2>5, <2>6 DEF TypeOK
<1>4. PlaceInv
  <2>1. FilesInv
    BY <1>1, LoadAssumption DEF FilesInv, Reading
  <2>2. PlaceWithExit
    BY <1>1 DEF PlaceWithExit, Reading
  <2>3. PlaceWithoutExit
    BY <1>1 DEF PlaceWithoutExit
  <2>4. InBounds
    <3>1. lens[1] \in Nat
      BY <1>2, LoadAssumption DEF Statements
    <3> QED BY <1>1, <3>1 DEF InBounds
  <2> QED BY <2>1, <2>2, <2>3, <2>4 DEF PlaceInv
<1>5. CountInv
  BY <1>1 DEF CountInv
<1>6. Ahead = <<1, 1>>
  BY <1>1 DEF Ahead
<1>7. ToSet(loaded) = {} /\ InOrder(loaded)
  BY <1>1 DEF ToSet, InOrder
<1>8. LoadedInv
  <2>1. Past(Ahead) = {}
    BY <1>2, <1>6, PastEnds
  <2> QED BY <1>1, <1>7, <2>1 DEF LoadedInv, Between
<1>9. LoadsInOrder
  BY <1>7 DEF LoadsInOrder
<1>10. FlagTellsFileEnd
  <2>1. flagged[2] \notin InputRecords
    BY <1>1, <1>2, RecordIs
  <2> QED BY <2>1 DEF FlagTellsFileEnd
<1> QED BY <1>3, <1>4, <1>5, <1>8, <1>9, <1>10 DEF LoadInv

(* ... and every step keeps it. *)
LEMMA LoadInvNext == LoadInv /\ [Next]_vars => LoadInv'
<1> SUFFICES ASSUME LoadInv, [Next]_vars
             PROVE  LoadInv'
  OBVIOUS
<1>1. exit' = exit /\ Sized' = Sized /\ Straight' = Straight
  BY InputStays, InputKept
<1>2. TypeOK /\ PlaceInv /\ LoadsInOrder
  BY DEF LoadInv
<1>3. TypeOK' /\ PlaceInv'
  BY <1>2, TypeNext, PlaceNext
<1>4. pc' # "failed" => pc # "failed"
  BY DEF Next, Step, vars, Terminated, StartRound, StartFile, OpenFails, EndFiles,
       CloseFile, Read, VerifyFirst, VerifyBack, VerifyNext, VerifyAgain, VerifyOther, VerifyEnd,
       Count, NoExit, CallExit, AfterInsert, LoadInMemory
<1>5. ASSUME ~ exit, pc' # "failed"
      PROVE  CountInv'
  <2>1. CountInv
    BY <1>4, <1>5 DEF LoadInv
  <2> QED BY <1>2, <1>5, <2>1, CountNext
<1>6. ASSUME Sized, exit => Straight, pc' # "failed"
      PROVE  LoadedInv'
  <2>1. LoadedInv /\ (~ exit => CountInv)
    BY <1>4, <1>6 DEF LoadInv
  <2> QED BY <1>2, <1>6, <2>1, LoadedNext
<1>7. LoadsInOrder'
  <2>1. ~ exit /\ pc' # "failed" => LoadedInv'
    BY <1>6 DEF Sized
  <2> QED BY <1>2, <1>3, <2>1, OrderNext
<1>8. TRUE \notin MemoryFills => FlagTellsFileEnd'
  BY <1>2, FlagNext DEF LoadInv
<1> QED BY <1>1, <1>3, <1>5, <1>6, <1>7, <1>8 DEF LoadInv

-----------------------------------------------------------------------------
(* Theorems. *)

(* The load is always in a place that nState, nLastRecord, nRecCount and   *)
(* the records read ahead tell, and what it has loaded is what is asked    *)
(* for of the records before that place.                                   *)
THEOREM LoadIsInductive == Spec => []LoadInv
BY LoadInvInit, LoadInvNext, PTL DEF Spec

(* However often memory fills, and wherever, the load without an exit is   *)
(* at every moment a beginning of the records SKIPREC, STOPAFT and INCLUDE *)
(* select, in order.                                                       *)
THEOREM SpillingIsInvisible == Spec => []LoadsInOrder
<1>1. LoadInv => LoadsInOrder
  BY DEF LoadInv
<1> QED BY <1>1, LoadIsInductive, PTL

(* ... and when it ends it has loaded all of them. *)
THEOREM SpillingLosesNothing == Spec => []LoadsAll
<1>1. LoadInv => LoadsAll
  <2> SUFFICES ASSUME LoadInv, ~ exit, pc = "end"
               PROVE  ToSet(loaded) = Selected
    BY DEF LoadsAll
  <2>1. TypeOK /\ LoadedInv /\ LoadsInOrder /\ PlaceInv
    BY DEF LoadInv, Sized
  <2>2. state = 0
    BY <2>1 DEF PlaceInv, PlaceWithoutExit
  <2>3. state # 104
    BY <2>2
  <2>4. Ahead = <<idx, at>> /\ idx \in Nat /\ idx > NumFiles
    BY <2>1, <2>2, LoadAssumption DEF Ahead, PlaceInv, FilesInv, TypeOK
  <2>5. Past(Ahead) = InputRecords
    BY <2>1, <2>4, PastEnds DEF TypeOK
  <2>6. ToSet(loaded) \ {Inserted} = Selected \cap InputRecords
    BY <2>1, <2>3, <2>5 DEF LoadedInv, Wanted
  <2>7. ToSet(loaded) \subseteq Selected /\ Selected \subseteq InputRecords
    BY <2>1 DEF LoadsInOrder, Selected
  <2>8. Inserted \notin InputRecords
    BY <2>1, RecordIs DEF TypeOK
  <2> QED BY <2>6, <2>7, <2>8
<1> QED BY <1>1, LoadIsInductive, PTL

(* While memory does not fill, the exit decides alone what is kept out of  *)
(* sequential files: reading one record ahead neither loses nor repeats    *)
(* nor swaps a record.                                                     *)
THEOREM ReadingAheadKeepsOrder ==
    ASSUME TRUE \notin MemoryFills
    PROVE  Spec => []ExitKeepsOrder
<1>1. LoadInv => ExitKeepsOrder
  <2> SUFFICES ASSUME LoadInv, Sized, exit, ~ keyed, pc = "end"
               PROVE  /\ InOrder(loaded)
                      /\ ToSet(loaded) \ {Inserted} = InputRecords \ (deleted \cup omit)
    BY DEF ExitKeepsOrder
  <2>1. TypeOK /\ LoadedInv /\ PlaceInv
    BY DEF LoadInv, Straight
  <2>2. state \in {0, 99}
    BY <2>1 DEF LoadedInv, Between
  <2>3. state # 104
    BY <2>2
  <2>4. Ahead = <<idx, at>> /\ idx \in Nat /\ idx > NumFiles
    BY <2>1, <2>2, LoadAssumption DEF Ahead, PlaceInv, FilesInv, TypeOK
  <2>5. Past(Ahead) = InputRecords
    BY <2>1, <2>4, PastEnds DEF TypeOK
  <2> QED BY <2>1, <2>3, <2>5 DEF LoadedInv, Wanted
<1> QED BY <1>1, LoadIsInductive, PTL

(* The exit is told 8 with the last record of each sequential file and no  *)
(* other, whatever it answers on the way: this is what the code does with  *)
(* the flag, which its documentation keeps for the last record of all.     *)
THEOREM FileEndIsTold ==
    ASSUME TRUE \notin MemoryFills
    PROVE  Spec => []FlagTellsFileEnd
<1>1. LoadInv => FlagTellsFileEnd
  BY DEF LoadInv
<1> QED BY <1>1, LoadIsInductive, PTL
=============================================================================
