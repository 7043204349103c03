------------------------- MODULE GcTempFilesProofs -------------------------
(***************************************************************************)
(* What GcTempFiles keeps for every number of temporary files, every input *)
(* and every size of the buffers.  First its type and the ring of          *)
(* temporary files; then the order and the completeness of what is         *)
(* written: the files and the output are sorted, no record is lost or      *)
(* repeated, and the job implements SortedOutput.                          *)
(***************************************************************************)
EXTENDS GcTempFiles, FiniteSetTheorems, SequenceTheorems, TLAPS

-----------------------------------------------------------------------------
(* Lemmas about the helpers of the model. *)

(* The next slot of the ring is a slot, and another one. *)
LEMMA SuccSlot == \A k \in Slots : Succ(k) \in Slots /\ Succ(k) # k
BY HandlesAssumption DEF Slots, Succ

(* The first file is one. *)
LEMMA ZeroSlot == 0 \in Slots
BY HandlesAssumption DEF Slots

(* What the sort of a round leaves in the buffer is a sequence of records. *)
LEMMA ArrangementsType ==
    ASSUME NEW S \in SUBSET Records, NEW n \in Nat
    PROVE  Arrangements(S, n) \subseteq Seq(Records)
BY DEF Arrangements

(* A round's records are records, at positions from 1 on. *)
LEMMA NewRecordsType ==
    ASSUME Cardinality(loaded) \in Nat, NEW n \in Nat, NEW new \in NewRecords(n)
    PROVE  new \in SUBSET Records
<1>1. PICK ks \in [1 .. n -> Keys] :
         new = {[key |-> ks[i], pos |-> Cardinality(loaded) + i] : i \in 1 .. n}
  BY DEF NewRecords
<1>2. \A i \in 1 .. n : /\ ks[i] \in Keys
                        /\ Cardinality(loaded) + i \in Nat \ {0}
  OBVIOUS
<1> QED BY <1>1, <1>2 DEF Records, Record

(* ... and finitely many. *)
LEMMA NewRecordsFinite ==
    ASSUME NEW n \in Nat, NEW new \in NewRecords(n)
    PROVE  IsFiniteSet(new)
<1>1. PICK ks \in [1 .. n -> Keys] :
         new = {[key |-> ks[i], pos |-> Cardinality(loaded) + i] : i \in 1 .. n}
  BY DEF NewRecords
<1> DEFINE f == [i \in 1 .. n |-> [key |-> ks[i], pos |-> Cardinality(loaded) + i]]
<1>2. f \in Surjection(1 .. n, new)
  BY <1>1 DEF Surjection
<1>3. IsFiniteSet(1 .. n)
  BY FS_Interval
<1> QED BY <1>2, <1>3, FS_Surjection

(* What a flush leaves are files. *)
LEMMA FlushedType ==
    ASSUME TypeOK
    PROVE  Flushed \in [Slots -> Seq(Records)]
BY DEF TypeOK, Flushed

(* Writing a record leaves files and a cache. *)
LEMMA PutType ==
    ASSUME TypeOK, NEW r \in Records, Put(r)
    PROVE  /\ cache' \in Seq(Records)
           /\ file' \in [Slots -> Seq(Records)]
BY FlushedType DEF TypeOK, Put

(* Dropping the source leaves files, counts and a source. *)
LEMMA DropSourceType ==
    ASSUME TypeOK, NEW f \in [Slots -> Seq(Records)], DropSource(f)
    PROVE  /\ file' \in [Slots -> Seq(Records)]
           /\ count' \in [Slots -> Nat]
           /\ src' \in Seq(Records)
           /\ skip' \in BOOLEAN
           /\ cache' \in Seq(Records)
<1>1. <<>> \in Seq(Records)
  OBVIOUS
<1>2. \A k \in Slots : [f EXCEPT ![k] = <<>>] \in [Slots -> Seq(Records)]
  BY <1>1
<1>3. \A k \in Slots : [count EXCEPT ![k] = 0] \in [Slots -> Nat]
  BY DEF TypeOK
<1>4. Source \in Slots
  BY SuccSlot DEF TypeOK, Source
<1> QED BY <1>1, <1>2, <1>3, <1>4 DEF TypeOK, DropSource

-----------------------------------------------------------------------------
(* Type correctness. *)

(* The records loaded are finitely many, so that positions are numbers. *)
TypeInv == TypeOK /\ IsFiniteSet(loaded)

(* The program starts well typed. *)
LEMMA TypeInvInit == Init => TypeInv
BY ZeroSlot, FS_EmptySet DEF Init, TypeInv, TypeOK

(* Every step keeps the types. *)
LEMMA TypeInvNext == TypeInv /\ [Next]_vars => TypeInv'
<1> SUFFICES ASSUME TypeInv, [Next]_vars
             PROVE  TypeInv'
  OBVIOUS
<1> USE DEF TypeInv
<1>1. CASE Load
  <2>1. PICK n \in 0 .. MaxSegment, full \in BOOLEAN :
           /\ \E new \in NewRecords(n) :
                 /\ loaded' = loaded \cup new
                 /\ buf' \in Arrangements(new, n)
           /\ more' = full
           /\ seg' = (seg \/ full)
    BY <1>1 DEF Load
  <2>2. PICK new \in NewRecords(n) :
           /\ loaded' = loaded \cup new
           /\ buf' \in Arrangements(new, n)
    BY <2>1
  <2>3. n \in Nat
    BY BoundsAssumption
  <2>4. new \in SUBSET Records
    BY <2>3, NewRecordsType, FS_CardinalityType
  <2>5. IsFiniteSet(loaded')
    BY <2>2, <2>3, NewRecordsFinite, FS_Union
  <2>6. loaded' \in SUBSET Records /\ buf' \in Seq(Records)
    BY <2>2, <2>3, <2>4, ArrangementsType DEF TypeOK
  <2> QED BY <1>1, <2>1, <2>5, <2>6 DEF Load, TypeOK, tmp
<1>2. CASE LoadFails \/ SaveNothing \/ TailDone \/ CopyFails \/ CopyTailFails
  BY <1>2 DEF LoadFails, SaveNothing, TailDone, CopyFails, CopyTailFails,
              SaveFails, NextRound, TypeOK, tmp
<1>3. CASE SaveOpen
  <2>1. cur' \in Slots /\ Succ(cur') \in Slots
    BY <1>3, SuccSlot DEF SaveOpen, TypeOK
  <2>2. <<>> \in Seq(Records)
    OBVIOUS
  <2>3. file' \in [Slots -> Seq(Records)]
    BY <1>3, <2>2 DEF SaveOpen, TypeOK
  <2>4. count' \in [Slots -> Nat] /\ used' \in [Slots -> BOOLEAN]
    BY <1>3 DEF SaveOpen, TypeOK
  <2>5. src' \in Seq(Records)
    BY <1>3, <2>1 DEF SaveOpen, TypeOK
  <2> QED BY <1>3, <2>1, <2>3, <2>4, <2>5 DEF SaveOpen, TypeOK
<1>4. CASE CopyOld
  <2>1. Head(src) \in Records /\ Tail(src) \in Seq(Records)
    BY <1>4 DEF CopyOld, TypeOK
  <2>2. /\ cache' \in Seq(Records)
        /\ file' \in [Slots -> Seq(Records)]
    BY <1>4, <2>1, PutType DEF CopyOld
  <2>3. count' \in [Slots -> Nat]
    BY <1>4 DEF CopyOld, TypeOK
  <2> QED BY <1>4, <2>1, <2>2, <2>3 DEF CopyOld, TypeOK
<1>5. CASE CopyNew
  <2>1. Head(buf) \in Records /\ Tail(buf) \in Seq(Records)
    BY <1>5 DEF CopyNew, TypeOK
  <2>2. /\ cache' \in Seq(Records)
        /\ file' \in [Slots -> Seq(Records)]
    BY <1>5, <2>1, PutType DEF CopyNew
  <2>3. count' \in [Slots -> Nat]
    BY <1>5 DEF CopyNew, TypeOK
  <2> QED BY <1>5, <2>1, <2>2, <2>3 DEF CopyNew, TypeOK
<1>6. CASE FlushNew
  BY <1>6, FlushedType DEF FlushNew, TypeOK
<1>7. CASE FlushNewFails
  <2>1. CASE DropSource(file)
    BY <1>7, <2>1, DropSourceType DEF FlushNewFails, TypeOK
  <2>2. CASE UNCHANGED <<file, count, src, skip, cache>>
    BY <1>7, <2>2 DEF FlushNewFails, TypeOK
  <2> QED BY <1>7, <2>1, <2>2 DEF FlushNewFails
<1>8. CASE CopyTail
  <2>1. Head(src) \in Records /\ Tail(src) \in Seq(Records)
    BY <1>8 DEF CopyTail, TypeOK
  <2>2. /\ cache' \in Seq(Records)
        /\ file' \in [Slots -> Seq(Records)]
    BY <1>8, <2>1, PutType DEF CopyTail
  <2>3. count' \in [Slots -> Nat]
    BY <1>8 DEF CopyTail, TypeOK
  <2> QED BY <1>8, <2>1, <2>2, <2>3 DEF CopyTail, TypeOK
<1>9. CASE SaveClose
  BY <1>9, FlushedType, DropSourceType DEF SaveClose, NextRound, TypeOK
<1>10. CASE SaveCloseLoses
  BY <1>10, DropSourceType DEF SaveCloseLoses, NextRound, TypeOK
<1>11. CASE DirectEmit
  BY <1>11 DEF DirectEmit, TypeOK, tmp
<1>12. CASE DirectDone \/ FinalDone \/ OutputFails
  BY <1>12 DEF DirectDone, FinalDone, OutputFails, TypeOK, tmp
<1>13. CASE FinalEmit
  <2>1. PICK k \in Searched :
           /\ out' = Append(out, Head(file[k]))
           /\ file' = [file EXCEPT ![k] = Tail(@)]
    BY <1>13 DEF FinalEmit
  <2>2. k \in Slots /\ file[k] \in Seq(Records) /\ file[k] # <<>>
    BY DEF Searched, Opened, TypeOK
  <2>3. Head(file[k]) \in Records /\ Tail(file[k]) \in Seq(Records)
    BY <2>2
  <2>4. out' \in Seq(Records) /\ file' \in [Slots -> Seq(Records)]
    BY <2>1, <2>2, <2>3 DEF TypeOK
  <2> QED BY <1>13, <2>4 DEF FinalEmit, TypeOK
<1>14. CASE SaveOpenFails
  <2>1. cur' \in Slots
    BY <1>14, SuccSlot DEF SaveOpenFails, TypeOK
  <2>2. file' \in [Slots -> Seq(Records)]
    <3>1. <<>> \in Seq(Records)
      OBVIOUS
    <3> QED BY <1>14, <3>1 DEF SaveOpenFails, TypeOK
  <2>3. count' \in [Slots -> Nat] /\ used' \in [Slots -> BOOLEAN]
    BY <1>14 DEF SaveOpenFails, TypeOK
  <2> QED BY <1>14, <2>1, <2>2, <2>3 DEF SaveOpenFails, TypeOK
<1>15. CASE SaveCloseFails
  BY <1>15, FlushedType DEF SaveCloseFails, TypeOK
<1>16. CASE Terminated \/ UNCHANGED vars
  BY <1>16 DEF Terminated, vars, TypeOK
<1> QED
  BY <1>1, <1>2, <1>3, <1>4, <1>5, <1>6, <1>7, <1>8, <1>9, <1>10,
     <1>11, <1>12, <1>13, <1>14, <1>15, <1>16 DEF Next, SaveStep, OutputStep

(* The types always hold. *)
LEMMA TypeInvAlways == Spec => []TypeInv
BY TypeInvInit, TypeInvNext, PTL DEF Spec

(* The sort phase is well typed for every size of the ring, of the memory  *)
(* and of the input: job_sort's rounds keep every file, buffer and index   *)
(* what the code takes them for.                                           *)
THEOREM TypeCorrect == Spec => []TypeOK
<1>1. TypeInv => TypeOK
  BY DEF TypeInv
<1> QED BY <1>1, TypeInvAlways, PTL

-----------------------------------------------------------------------------
(* The ring of temporary files. *)

(* Until the ring turns the source is a file not used yet; afterwards it   *)
(* is the one that is not live.                                            *)
LEMMA SourceNotLive == TypeOK => Source \in Slots /\ Source \notin Live /\ Source # cur
<1> SUFFICES ASSUME TypeOK
             PROVE  Source \in Slots /\ Source \notin Live /\ Source # cur
  OBVIOUS
<1>1. cur \in Slots /\ Succ(cur) \in Slots /\ Succ(cur) # cur
  BY SuccSlot DEF TypeOK
<1>2. Succ(cur) \notin 1 .. cur
  BY <1>1, HandlesAssumption DEF Succ, Slots
<1> QED BY <1>1, <1>2 DEF Source, Live

(* A sequence just appended to is not empty. *)
LEMMA AppendNotEmpty ==
    \A s \in Seq(Records), r \in Records : Append(s, r) # <<>> /\ <<r>> # <<>>
<1> SUFFICES ASSUME NEW s \in Seq(Records), NEW r \in Records
             PROVE  Append(s, r) # <<>> /\ <<r>> # <<>>
  OBVIOUS
<1>1. Len(Append(s, r)) = Len(s) + 1 /\ Len(s) \in Nat /\ Len(<<r>>) = 1 /\ Len(<<>>) = 0
  OBVIOUS
<1> QED BY <1>1

(* At the start no file is used. *)
LEMMA RingInvInit == Init => RingInv
BY HandlesAssumption DEF Init, RingInv, Slots, Live, Empty, Filled, Saving

(* A step that writes a record leaves something to flush, and changes no   *)
(* file but the one being written.                                         *)
LEMMA PutKeeps ==
    ASSUME TypeOK, NEW r \in Records, Put(r)
    PROVE  /\ cache' # <<>>
           /\ \A k \in Slots \ {cur} : file'[k] = file[k]
           /\ file[cur] # <<>> => file'[cur] # <<>>
<1>1. cache' # <<>>
  BY AppendNotEmpty DEF Put, TypeOK
<1>2. file[cur] \in Seq(Records) /\ cache \in Seq(Records)
  BY DEF TypeOK
<1>3. file[cur] # <<>> => file[cur] \o cache # <<>>
  BY <1>2
<1> QED BY <1>1, <1>3 DEF Put, Flushed, TypeOK

(* Every step keeps the ring right. *)
LEMMA RingInvNext == TypeInv /\ RingInv /\ [Next]_vars => RingInv'
<1> SUFFICES ASSUME TypeOK, RingInv, [Next]_vars
             PROVE  RingInv'
  BY DEF TypeInv
<1>1. CASE Load
  BY <1>1 DEF Load, RingInv, tmp, Live, Empty, Filled, Saving
<1>2. CASE LoadFails \/ SaveOpenFails \/ CopyFails \/ CopyTailFails \/ SaveCloseFails
  BY <1>2 DEF LoadFails, SaveOpenFails, CopyFails, CopyTailFails, SaveCloseFails,
              SaveFails, RingInv, Saving
<1>3. CASE SaveNothing
  BY <1>3 DEF SaveNothing, NextRound, RingInv, tmp, Live, Empty, Filled, Saving
<1>4. CASE SaveOpen
  <2>1. cur' \in Slots /\ cur' # cur /\ cur' = Succ(cur)
    BY <1>4, SuccSlot DEF SaveOpen, TypeOK
  <2>2. /\ used' = [used EXCEPT ![cur'] = TRUE]
        /\ file' = [file EXCEPT ![cur'] = <<>>]
        /\ count' = [count EXCEPT ![cur'] = 0]
        /\ cache' = <<>> /\ pc' = "merge" /\ buf' # <<>>
    BY <1>4 DEF SaveOpen, RingInv
  <2>3. \A k \in Slots : used'[k] <=> used'[0] \/ k \in 1 .. cur'
    <3>1. CASE cur + 1 < Handles
      <4>1. cur' = cur + 1 /\ cur \in Nat
        BY <2>1, <3>1, HandlesAssumption DEF Succ, Slots, TypeOK
      <4>2. used'[0] <=> used[0]
        BY <2>2, <4>1, ZeroSlot DEF TypeOK
      <4> QED BY <1>4, <2>1, <2>2, <4>1, <4>2 DEF SaveOpen, RingInv, Slots, TypeOK
    <3>2. CASE ~ (cur + 1 < Handles)
      <4>1. cur' = 0 /\ cur = Handles - 1
        BY <2>1, <3>2, HandlesAssumption DEF Succ, Slots, TypeOK
      <4>2. used'[0]
        BY <2>2, <4>1, ZeroSlot DEF TypeOK
      <4>3. \A k \in Slots : used'[k]
        BY <1>4, <2>2, <4>1, <4>2, HandlesAssumption
           DEF SaveOpen, RingInv, Slots, TypeOK
      <4> QED BY <4>2, <4>3
    <3> QED BY <3>1, <3>2
  <2>4. used'[cur'] /\ count'[cur'] = 0 /\ file'[cur'] = <<>>
    BY <2>1, <2>2 DEF TypeOK
  <2>5. \A k \in Slots \ {cur'} :
           IF k \in Live' THEN Filled(k)' ELSE used'[k] \/ Empty(k)'
    <3> SUFFICES ASSUME NEW k \in Slots, k # cur'
                 PROVE  IF k \in Live' THEN Filled(k)' ELSE used'[k] \/ Empty(k)'
      BY DEF Slots
    <3>1. IF k \in Live THEN Filled(k) ELSE Empty(k)
      BY <1>4 DEF SaveOpen, RingInv
    <3>2. /\ file'[k] = file[k] /\ count'[k] = count[k]
          /\ used'[k] <=> used[k]
      BY <2>2 DEF TypeOK
    <3>3. CASE used[0]
      <4>1. used'[0] /\ used'[k] /\ k \in Live
        BY <2>1, <2>2, <2>3, <3>3, ZeroSlot DEF Live, TypeOK
      <4> QED BY <3>1, <3>2, <4>1 DEF Filled, Empty
    <3>4. CASE ~ used[0] /\ used'[0]
      <4>1. cur' = 0
        BY <2>2, <3>4, ZeroSlot DEF TypeOK
      <4>2. cur = Handles - 1
        BY <2>1, <4>1, HandlesAssumption DEF Succ, Slots, TypeOK
      <4>3. used'[k] /\ k \in Live
        BY <2>1, <2>3, <3>4, <4>1, <4>2, HandlesAssumption DEF Live, Slots
      <4> QED BY <3>1, <3>2, <4>3 DEF Filled, Empty
    <3>5. CASE ~ used'[0]
      <4>1. ~ used[0] /\ cur' # 0
        BY <2>1, <2>2, <3>5, ZeroSlot DEF TypeOK
      <4>2. cur' = cur + 1
        BY <2>1, <4>1 DEF Succ
      <4>3. k \in Live' <=> k \in Live
        BY <2>1, <3>5, <4>1, <4>2 DEF Live, Slots, TypeOK
      <4> QED BY <3>1, <3>2, <4>3 DEF Filled, Empty
    <3> QED BY <3>3, <3>4, <3>5
  <2> QED BY <2>2, <2>3, <2>4, <2>5 DEF RingInv, Saving, Empty
<1>5. CASE CopyOld \/ CopyNew
  <2>1. PICK r \in Records : Put(r)
    BY <1>5 DEF CopyOld, CopyNew, TypeOK
  <2>2. /\ pc = "merge" /\ pc' = "merge"
        /\ count' = [count EXCEPT ![cur] = @ + 1]
        /\ UNCHANGED <<used, cur, out>>
    BY <1>5 DEF CopyOld, CopyNew
  <2>3. count'[cur] # 0 /\ \A k \in Slots \ {cur} : count'[k] = count[k]
    BY <2>2 DEF TypeOK
  <2> QED BY <2>1, <2>2, <2>3, PutKeeps DEF RingInv, Saving, Live, Filled, Empty
<1>6. CASE FlushNew
  <2>1. cache # <<>> /\ count[cur] # 0
    BY <1>6 DEF FlushNew, RingInv
  <2>2. file'[cur] # <<>> /\ \A k \in Slots \ {cur} : file'[k] = file[k]
    BY <1>6, <2>1 DEF FlushNew, Flushed, TypeOK
  <2> QED BY <1>6, <2>1, <2>2 DEF FlushNew, RingInv, Saving, Live, Filled, Empty
<1>7. CASE FlushNewFails
  BY <1>7 DEF FlushNewFails, RingInv, Saving
<1>8. CASE CopyTail
  <2>1. PICK r \in Records : Put(r)
    BY <1>8 DEF CopyTail, TypeOK
  <2>2. /\ count'[cur] # 0
        /\ \A k \in Slots \ {cur} : count'[k] = count[k]
    BY <1>8 DEF CopyTail, RingInv, Filled, TypeOK
  <2> QED BY <1>8, <2>1, <2>2, PutKeeps
          DEF CopyTail, RingInv, Saving, Live, Filled, Empty
<1>9. CASE TailDone
  BY <1>9 DEF TailDone, RingInv, Saving, Live, Filled, Empty, tmp
<1>10. CASE SaveClose \/ SaveCloseLoses
  <2>1. PICK f \in {file, Flushed} : DropSource(f)
    BY <1>10 DEF SaveClose, SaveCloseLoses
  <2>2. /\ pc = "close" /\ pc' \in {"load", "final"}
        /\ UNCHANGED <<used, cur, out>>
    BY <1>10 DEF SaveClose, SaveCloseLoses, NextRound
  <2>3. f \in [Slots -> Seq(Records)]
    BY <2>1, FlushedType DEF TypeOK
  <2>4. f[cur] # <<>> /\ \A k \in Slots \ {cur} : f[k] = file[k]
    <3>1. file[cur] # <<>> /\ file[cur] \in Seq(Records) /\ cache \in Seq(Records)
      BY <2>2 DEF RingInv, Filled, TypeOK
    <3> QED BY <2>1, <3>1 DEF Flushed, TypeOK
  <2>5. \A k \in Slots : IF k \in Live THEN Filled(k)' ELSE Empty(k)'
    <3> SUFFICES ASSUME NEW k \in Slots
                 PROVE  IF k \in Live THEN Filled(k)' ELSE Empty(k)'
      OBVIOUS
    <3>1. CASE k = Source
      <4>1. k \notin Live /\ k # cur
        BY <3>1, SourceNotLive
      <4>2. used[k] \/ Empty(k)
        BY <2>2, <4>1 DEF RingInv, Saving
      <4> QED BY <2>1, <2>3, <2>4, <3>1, <4>1, <4>2 DEF DropSource, Empty, TypeOK
    <3>2. CASE k # Source
      <4>1. count'[k] = count[k] /\ file'[k] = f[k]
        BY <2>1, <2>3, <3>2, SourceNotLive DEF DropSource, TypeOK
      <4>2. k = cur => k \in Live /\ Filled(k)
        BY <2>2, SourceNotLive DEF RingInv, Saving, Live, Source
      <4>3. k # cur => IF k \in Live THEN Filled(k) ELSE used[k] \/ Empty(k)
        BY <2>2 DEF RingInv, Saving
      <4>4. k \notin Live => ~ used[k]
        BY <2>2, <3>2 DEF RingInv, Live, Source
      <4> QED BY <2>4, <4>1, <4>2, <4>3, <4>4 DEF Filled, Empty
    <3> QED BY <3>1, <3>2
  <2>6. cache' = <<>>
    BY <2>1 DEF DropSource
  <2> QED BY <2>2, <2>5, <2>6 DEF RingInv, Saving, Live, Filled, Empty
<1>11. CASE DirectEmit \/ DirectDone \/ FinalDone \/ OutputFails
  BY <1>11 DEF DirectEmit, DirectDone, FinalDone, OutputFails, RingInv, Saving, tmp
<1>12. CASE FinalEmit
  <2>1. out' # <<>>
    <3>1. PICK k \in Searched : out' = Append(out, Head(file[k]))
      BY <1>12 DEF FinalEmit
    <3>2. Head(file[k]) \in Records
      BY DEF Searched, Opened, TypeOK
    <3> QED BY <3>1, <3>2, AppendNotEmpty DEF TypeOK
  <2> QED BY <1>12, <2>1 DEF FinalEmit, RingInv, Saving, Live
<1>13. CASE Terminated \/ UNCHANGED vars
  BY <1>13 DEF Terminated, vars, RingInv, Saving, Live, Filled, Empty
<1> QED
  BY <1>1, <1>2, <1>3, <1>4, <1>5, <1>6, <1>7, <1>8, <1>9, <1>10, <1>11,
     <1>12, <1>13 DEF Next, SaveStep, OutputStep

(* The files that job_save_tempfile has used, and those that hold records, *)
(* are at every point of every run the ones that RingInv says, whatever    *)
(* the number of files and whichever read or write fails.                  *)
THEOREM RingInvAlways == Spec => []RingInv
<1>1. Init => RingInv
  BY RingInvInit
<1>2. TypeInv /\ RingInv /\ [Next]_vars => RingInv'
  BY RingInvNext
<1> QED BY <1>1, <1>2, TypeInvAlways, PTL DEF Spec

(* job_save_tempfile never truncates a file that holds records, and never  *)
(* maps an empty one, for any number of temporary files.                   *)
THEOREM RingNeverOverwrites == Spec => NeverOverwrites
<1>1. TypeInv /\ RingInv /\ [Next]_vars =>
        [SaveOpen => /\ file[cur'] = <<>>
                     /\ used[Succ(cur')] => file[Succ(cur')] # <<>>]_vars
  <2> SUFFICES ASSUME TypeOK, RingInv, SaveOpen
               PROVE  /\ file[cur'] = <<>>
                      /\ used[Succ(cur')] => file[Succ(cur')] # <<>>
    BY DEF TypeInv
  <2>1. cur' = Succ(cur) /\ cur \in Slots /\ cur' \in Slots /\ Succ(cur') \in Slots
    BY SuccSlot DEF SaveOpen, TypeOK
  <2>2. \A k \in Slots : IF k \in Live THEN Filled(k) ELSE Empty(k)
    BY DEF SaveOpen, RingInv
  <2>3. cur' \notin Live
    BY <2>1, SourceNotLive DEF Source
  <2>4. used[Succ(cur')] => Succ(cur') \in Live
    BY <2>1, SuccSlot DEF SaveOpen, RingInv, Live
  <2> QED BY <2>1, <2>2, <2>3, <2>4 DEF Filled, Empty
<1> QED BY <1>1, TypeInvAlways, RingInvAlways, PTL DEF Spec, NeverOverwrites

(* job_save_tempfinal's test of nCountSrt opens every file with records    *)
(* and no empty one, although job_save_tempfile does not count the pending *)
(* record of a merge.                                                      *)
THEOREM CountsAreRight == Spec => []CountTellsEmpty
<1>1. RingInv => CountTellsEmpty
  BY DEF RingInv, CountTellsEmpty, Filled, Empty
<1> QED BY <1>1, RingInvAlways, PTL

(* How many files are live: one less than the ring has, or those used.     *)
LEMMA LiveCount ==
    ASSUME TypeOK
    PROVE  Cardinality(Live \cap Slots) = IF used[0] THEN Handles - 1 ELSE cur
<1>1. cur \in Slots /\ cur \in Nat
  BY DEF TypeOK, Slots
<1>2. CASE used[0]
  <2>1. Cardinality(Slots) = Handles /\ IsFiniteSet(Slots)
    <3>1. 0 \in Int /\ Handles - 1 \in Int /\ 0 <= Handles - 1 /\ Handles \in Int
      BY HandlesAssumption
    <3>2. ~ (0 > Handles - 1) /\ (Handles - 1) - 0 + 1 = Handles
      BY <3>1
    <3>3. /\ IsFiniteSet(0 .. Handles - 1)
          /\ Cardinality(0 .. Handles - 1) =
               IF 0 > Handles - 1 THEN 0 ELSE (Handles - 1) - 0 + 1
      BY <3>1, FS_Interval
    <3> QED BY <3>2, <3>3 DEF Slots
  <2>2. Cardinality(Slots \ {Succ(cur)}) = Handles - 1
    <3>1. Succ(cur) \in Slots
      BY <1>1, SuccSlot
    <3>2. Cardinality(Slots \ {Succ(cur)}) = Cardinality(Slots) - 1
      BY <2>1, <3>1, FS_RemoveElement
    <3> QED BY <2>1, <3>2
  <2>3. Live \cap Slots = Slots \ {Succ(cur)}
    BY <1>2 DEF Live
  <2> QED BY <1>2, <2>2, <2>3
<1>3. CASE ~ used[0]
  <2>1. Live \cap Slots = 1 .. cur
    <3>1. 1 .. cur \subseteq Slots
      BY <1>1, HandlesAssumption DEF Slots
    <3>2. Live = 1 .. cur
      BY <1>3 DEF Live
    <3> QED BY <3>1, <3>2
  <2>2. Cardinality(1 .. cur) = cur
    BY <1>1, FS_Interval
  <2> QED BY <1>3, <2>1, <2>2
<1> QED BY <1>2, <1>3

(* No temporary file with records left is beyond the buffers that          *)
(* job_IdentifyBuf searches, and it searches no more than there are,       *)
(* whether the ring has turned or not.                                     *)
THEOREM EveryFileIsSearched == Spec => []EverySourceSearched
<1>1. TypeInv /\ RingInv => EverySourceSearched
  <2> SUFFICES ASSUME TypeOK, RingInv, pc = "final"
               PROVE  MaxEle <= Handles /\ \A k \in Opened : k < MaxEle
    BY DEF TypeInv, EverySourceSearched, Searched
  <2>1. {k \in Slots : count[k] # 0} = Live \cap Slots
    BY DEF RingInv
  <2>2. MaxEle = IF used[0] THEN Handles ELSE cur + 1
    <3>1. MaxEle = (IF used[0] THEN Handles - 1 ELSE cur) + 1
      BY <2>1, LiveCount DEF MaxEle
    <3> QED BY <3>1, HandlesAssumption
  <2>3. \A k \in Opened : k \in Slots /\ (~ used[0] => k \in 1 .. cur)
    BY <2>1 DEF Opened, Live
  <2>4. cur \in 0 .. Handles - 1
    BY DEF TypeOK, Slots
  <2> QED BY <2>2, <2>3, <2>4, HandlesAssumption DEF Slots
<1> QED BY <1>1, TypeInvAlways, RingInvAlways, PTL

-----------------------------------------------------------------------------
(* Lemmas about sequences, the records in them and their order. *)

Distinct(s) == \A i, j \in DOMAIN s : i # j => s[i] # s[j]

(* What a sequence holds; an empty one holds nothing.                     *)
LEMMA ElementsOf ==
    ASSUME NEW S, NEW s \in Seq(S)
    PROVE  /\ Elements(s) \in SUBSET S
           /\ s = <<>> => Elements(s) = {} /\ Distinct(s)
           /\ s # <<>> => Head(s) \in Elements(s)
<1>1. DOMAIN s = 1 .. Len(s) /\ Len(s) \in Nat /\ \A i \in 1 .. Len(s) : s[i] \in S
  BY LenProperties, ElementOfSeq
<1>2. s = <<>> => DOMAIN s = {}
  BY <1>1, EmptySeq
<1>3. s # <<>> => 1 \in DOMAIN s /\ Head(s) = s[1]
  BY <1>1, EmptySeq
<1> QED BY <1>1, <1>2, <1>3 DEF Elements, Distinct

(* One more record at the end.                                            *)
LEMMA ElementsAppend ==
    ASSUME NEW S, NEW s \in Seq(S), NEW e \in S
    PROVE  /\ Elements(Append(s, e)) = Elements(s) \cup {e}
           /\ Distinct(s) /\ e \notin Elements(s) => Distinct(Append(s, e))
<1> DEFINE t == Append(s, e)
<1>1. /\ t \in Seq(S) /\ Len(t) = Len(s) + 1 /\ t[Len(s) + 1] = e
      /\ \A i \in 1 .. Len(s) : t[i] = s[i]
  BY AppendProperties
<1>2. DOMAIN s = 1 .. Len(s) /\ Len(s) \in Nat /\ DOMAIN t = 1 .. Len(s) + 1
  BY <1>1, LenProperties
<1> HIDE DEF t
<1>3. DOMAIN t = DOMAIN s \cup {Len(s) + 1} /\ Len(s) + 1 \notin DOMAIN s
  BY <1>2
<1>4. \A i \in DOMAIN s : t[i] = s[i]
  BY <1>1, <1>2
<1>5. Elements(t) = Elements(s) \cup {e}
  BY <1>1, <1>3, <1>4 DEF Elements
<1>6. Distinct(s) /\ e \notin Elements(s) => Distinct(t)
  BY <1>1, <1>3, <1>4 DEF Elements, Distinct
<1> QED BY <1>5, <1>6 DEF t

(* The head and the rest.                                                 *)
LEMMA ElementsTail ==
    ASSUME NEW S, NEW s \in Seq(S), s # <<>>
    PROVE  /\ Elements(s) = {Head(s)} \cup Elements(Tail(s))
           /\ Distinct(s) => Distinct(Tail(s)) /\ Head(s) \notin Elements(Tail(s))
<1> DEFINE t == Tail(s)
<1>1. /\ t \in Seq(S) /\ Len(t) = Len(s) - 1
      /\ \A i \in 1 .. Len(t) : t[i] = s[i + 1]
  BY HeadTailProperties
<1>2. /\ DOMAIN s = 1 .. Len(s) /\ Len(s) \in Nat \ {0}
      /\ DOMAIN t = 1 .. Len(s) - 1 /\ Head(s) = s[1]
  BY <1>1, LenProperties, EmptySeq
<1> HIDE DEF t
<1>3. \A i \in DOMAIN t : i + 1 \in DOMAIN s /\ t[i] = s[i + 1] /\ i + 1 # 1
  BY <1>1, <1>2
<1>4. \A i \in DOMAIN s : i # 1 => i - 1 \in DOMAIN t /\ t[i - 1] = s[i]
  BY <1>1, <1>2
<1>5. 1 \in DOMAIN s
  BY <1>2
<1>6. Elements(s) = {Head(s)} \cup Elements(t)
  BY <1>2, <1>3, <1>4, <1>5 DEF Elements
<1>7. Distinct(s) => Head(s) \notin Elements(t)
  BY <1>2, <1>3, <1>5 DEF Elements, Distinct
<1>8. Distinct(s) => Distinct(t)
  <2> SUFFICES ASSUME Distinct(s), NEW i \in DOMAIN t, NEW j \in DOMAIN t, i # j
               PROVE  t[i] # t[j]
    BY DEF Distinct
  <2>1. i + 1 # j + 1
    BY <1>2
  <2> QED BY <1>3, <2>1 DEF Distinct
<1> QED BY <1>6, <1>7, <1>8 DEF t

(* Two sequences, one after the other.                                    *)
LEMMA ElementsConcat ==
    ASSUME NEW S, NEW s \in Seq(S), NEW t \in Seq(S)
    PROVE  /\ Elements(s \o t) = Elements(s) \cup Elements(t)
           /\ Distinct(s) /\ Distinct(t) /\ Elements(s) \cap Elements(t) = {}
                => Distinct(s \o t)
<1> DEFINE u == s \o t
<1>1. /\ u \in Seq(S) /\ Len(u) = Len(s) + Len(t)
      /\ \A i \in 1 .. Len(s) + Len(t) : u[i] = IF i <= Len(s) THEN s[i] ELSE t[i - Len(s)]
  BY ConcatProperties
<1>2. /\ DOMAIN s = 1 .. Len(s) /\ Len(s) \in Nat
      /\ DOMAIN t = 1 .. Len(t) /\ Len(t) \in Nat
      /\ DOMAIN u = 1 .. Len(s) + Len(t)
  BY <1>1, LenProperties
<1> HIDE DEF u
<1>3. \A i \in DOMAIN s : i \in DOMAIN u /\ u[i] = s[i]
  BY <1>1, <1>2
<1>4. \A i \in DOMAIN t : i + Len(s) \in DOMAIN u /\ u[i + Len(s)] = t[i]
  BY <1>1, <1>2
<1>5. \A i \in DOMAIN u : \/ i \in DOMAIN s /\ u[i] = s[i]
                          \/ i - Len(s) \in DOMAIN t /\ u[i] = t[i - Len(s)]
  BY <1>1, <1>2
<1>6. Elements(u) = Elements(s) \cup Elements(t)
  BY <1>3, <1>4, <1>5 DEF Elements
<1>7. ASSUME Distinct(s), Distinct(t), Elements(s) \cap Elements(t) = {},
             NEW i \in DOMAIN u, NEW j \in DOMAIN u, i # j
      PROVE  u[i] # u[j]
  <2>1. i - Len(s) # j - Len(s)
    BY <1>2, <1>7
  <2> QED BY <1>5, <1>7, <2>1 DEF Elements, Distinct
<1> QED BY <1>6, <1>7 DEF u, Distinct

(* An order of records as the set of the pairs that are in order: so that  *)
(* what holds of the order by key and of the order by key and position is  *)
(* said, and proved, once.                                                 *)
Ordered(s, R) == \A i, j \in DOMAIN s : i < j => <<s[i], s[j]>> \in R
Upto(A, B, R) == \A a \in A, b \in B : <<a, b>> \in R

(* Nothing is in any order.                                               *)
LEMMA OrderedEmpty == \A R : Ordered(<<>>, R)
BY DEF Ordered

(* A record that goes after all of an ordered sequence.                   *)
LEMMA OrderedAppend ==
    ASSUME NEW S, NEW s \in Seq(S), NEW e \in S, NEW R,
           Ordered(s, R), Upto(Elements(s), {e}, R)
    PROVE  Ordered(Append(s, e), R)
<1> DEFINE t == Append(s, e)
<1>1. /\ t \in Seq(S) /\ Len(t) = Len(s) + 1 /\ t[Len(s) + 1] = e
      /\ \A i \in 1 .. Len(s) : t[i] = s[i]
  BY AppendProperties
<1>2. DOMAIN s = 1 .. Len(s) /\ Len(s) \in Nat /\ DOMAIN t = 1 .. Len(s) + 1
  BY <1>1, LenProperties
<1> HIDE DEF t
<1>3. ASSUME NEW i \in DOMAIN t, NEW j \in DOMAIN t, i < j
      PROVE  <<t[i], t[j]>> \in R
  <2>1. i \in DOMAIN s /\ t[i] = s[i] /\ s[i] \in Elements(s)
    BY <1>1, <1>2, <1>3 DEF Elements
  <2>2. CASE j \in DOMAIN s
    <3>1. t[j] = s[j]
      BY <1>1, <1>2, <2>2
    <3> QED BY <1>3, <2>1, <2>2, <3>1 DEF Ordered
  <2>3. CASE j = Len(s) + 1
    BY <1>1, <2>1, <2>3 DEF Upto
  <2> QED BY <1>2, <1>3, <2>2, <2>3
<1> QED BY <1>3 DEF t, Ordered

(* The head of an ordered sequence goes before the rest of it.            *)
LEMMA OrderedTail ==
    ASSUME NEW S, NEW s \in Seq(S), s # <<>>, NEW R, Ordered(s, R)
    PROVE  Ordered(Tail(s), R) /\ Upto({Head(s)}, Elements(Tail(s)), R)
<1> DEFINE t == Tail(s)
<1>1. /\ t \in Seq(S) /\ Len(t) = Len(s) - 1
      /\ \A i \in 1 .. Len(t) : t[i] = s[i + 1]
  BY HeadTailProperties
<1>2. /\ DOMAIN s = 1 .. Len(s) /\ Len(s) \in Nat \ {0}
      /\ DOMAIN t = 1 .. Len(s) - 1 /\ Head(s) = s[1]
  BY <1>1, LenProperties, EmptySeq
<1> HIDE DEF t
<1>3. \A i \in DOMAIN t : i + 1 \in DOMAIN s /\ t[i] = s[i + 1] /\ 1 < i + 1
  BY <1>1, <1>2
<1>4. 1 \in DOMAIN s
  BY <1>2
<1>5. Upto({Head(s)}, Elements(t), R)
  BY <1>2, <1>3, <1>4 DEF Ordered, Upto, Elements
<1>6. \A i, j \in DOMAIN t : i < j => i + 1 < j + 1
  BY <1>2
<1>7. Ordered(t, R)
  BY <1>3, <1>6 DEF Ordered
<1> QED BY <1>5, <1>7 DEF t

(* An ordered sequence after another all of which it may follow.          *)
LEMMA OrderedConcat ==
    ASSUME NEW S, NEW s \in Seq(S), NEW t \in Seq(S), NEW R,
           Ordered(s, R), Ordered(t, R), Upto(Elements(s), Elements(t), R)
    PROVE  Ordered(s \o t, R)
<1> DEFINE u == s \o t
<1>1. /\ u \in Seq(S) /\ Len(u) = Len(s) + Len(t)
      /\ \A i \in 1 .. Len(s) + Len(t) : u[i] = IF i <= Len(s) THEN s[i] ELSE t[i - Len(s)]
  BY ConcatProperties
<1>2. /\ DOMAIN s = 1 .. Len(s) /\ Len(s) \in Nat
      /\ DOMAIN t = 1 .. Len(t) /\ Len(t) \in Nat
      /\ DOMAIN u = 1 .. Len(s) + Len(t)
  BY <1>1, LenProperties
<1> HIDE DEF u
<1>3. ASSUME NEW i \in DOMAIN u, NEW j \in DOMAIN u, i < j
      PROVE  <<u[i], u[j]>> \in R
  <2>1. CASE j \in DOMAIN s
    BY <1>1, <1>2, <1>3, <2>1 DEF Ordered
  <2>2. CASE i \in DOMAIN s /\ j \notin DOMAIN s
    <3>1. u[i] = s[i] /\ j - Len(s) \in DOMAIN t /\ u[j] = t[j - Len(s)]
      BY <1>1, <1>2, <1>3, <2>2
    <3> QED BY <2>2, <3>1 DEF Upto, Elements
  <2>3. CASE i \notin DOMAIN s
    <3>1. /\ i - Len(s) \in DOMAIN t /\ u[i] = t[i - Len(s)]
          /\ j - Len(s) \in DOMAIN t /\ u[j] = t[j - Len(s)]
          /\ i - Len(s) < j - Len(s)
      BY <1>1, <1>2, <1>3, <2>3
    <3> QED BY <3>1 DEF Ordered
  <2> QED BY <1>2, <1>3, <2>1, <2>2, <2>3
<1> QED BY <1>3 DEF u, Ordered

-----------------------------------------------------------------------------
(* Where the records may be, from phase to phase. *)

PhaseInv ==
    /\ pc \in {"load", "tail", "close", "final", "done"} => buf = <<>>
    /\ pc \in {"load", "save", "direct", "close", "final", "done"} => src = <<>>
    /\ pc \in {"load", "save", "direct", "final", "done"} => cache = <<>>
    /\ pc \in {"load", "save", "merge", "tail", "close"} => out = <<>>
    /\ seg \/ pc \in {"load", "direct", "done", "failed"}
    /\ pc = "direct" => ~ seg
    /\ ~ seg => \A k \in Slots : file[k] = <<>> /\ ~ used[k]
    /\ pc = "final" => \A k \in Slots : count[k] = 0 => file[k] = <<>>
    /\ pc = "done" => \A k \in Slots : file[k] = <<>>

(* It holds at the start of the job.                                      *)
LEMMA PhaseInvInit == Init => PhaseInv
BY DEF Init, PhaseInv

(* Every step keeps it: one case per action.                              *)
LEMMA PhaseInvNext == TypeInv /\ RingInv /\ PhaseInv /\ [Next]_vars => PhaseInv'
<1> SUFFICES ASSUME TypeOK, RingInv, PhaseInv, [Next]_vars
             PROVE  PhaseInv'
  BY DEF TypeInv
<1>1. CASE Load
  BY <1>1 DEF Load, PhaseInv, TypeOK, tmp
<1>2. CASE LoadFails \/ CopyFails \/ CopyTailFails \/ OutputFails
  BY <1>2 DEF LoadFails, CopyFails, CopyTailFails, SaveFails, OutputFails, PhaseInv, tmp
<1>3. CASE SaveNothing
  <2>1. pc = "save" /\ pc' \in {"load", "final"} /\ buf = <<>> /\ seg
    BY <1>3 DEF SaveNothing, NextRound, PhaseInv
  <2>2. \A k \in Slots : count[k] = 0 => file[k] = <<>>
    BY <2>1 DEF RingInv, Filled, Empty
  <2> QED BY <1>3, <2>1, <2>2 DEF SaveNothing, PhaseInv, tmp
<1>4. CASE SaveOpen \/ SaveOpenFails
  <2>1. pc = "save" /\ seg /\ seg' = seg /\ out' = out /\ pc' \in {"merge", "failed"}
    BY <1>4 DEF SaveOpen, SaveOpenFails, PhaseInv
  <2> QED BY <2>1 DEF PhaseInv
<1>5. CASE CopyOld \/ CopyNew \/ FlushNew \/ FlushNewFails \/ CopyTail \/ TailDone
  <2>1. /\ pc \in {"merge", "tail"} /\ pc' \in {"merge", "tail", "close", "failed"}
        /\ seg /\ seg' = seg /\ out' = out
    BY <1>5 DEF CopyOld, CopyNew, FlushNew, FlushNewFails, CopyTail, TailDone, PhaseInv
  <2>2. pc' \in {"tail", "close"} => buf' = <<>>
    BY <1>5 DEF CopyOld, CopyNew, FlushNew, FlushNewFails, CopyTail, TailDone, PhaseInv
  <2>3. pc' = "close" => src' = <<>>
    BY <1>5 DEF CopyOld, CopyNew, FlushNew, FlushNewFails, CopyTail, TailDone, tmp
  <2> QED BY <2>1, <2>2, <2>3 DEF PhaseInv
<1>6. CASE SaveClose \/ SaveCloseLoses
  <2>1. /\ pc = "close" /\ pc' \in {"load", "final"} /\ buf = <<>> /\ seg
        /\ UNCHANGED <<buf, seg, out>> /\ src' = <<>> /\ cache' = <<>>
    BY <1>6 DEF SaveClose, SaveCloseLoses, NextRound, DropSource, PhaseInv
  <2>2. PICK f \in [Slots -> Seq(Records)] :
          /\ f = file \/ f = Flushed
          /\ DropSource(f)
    BY <1>6, FlushedType DEF SaveClose, SaveCloseLoses, TypeOK
  <2>3. /\ Source \in Slots /\ Source # cur /\ cur \in Slots /\ count[cur] # 0
        /\ \A k \in Slots : /\ k # cur /\ ~ (used[k] /\ k = Source)
                            => (count[k] = 0 => file[k] = <<>>)
    <3>1. Source \in Slots /\ Source # cur /\ cur \in Slots /\ count[cur] # 0
      BY <2>1, SourceNotLive DEF RingInv, Filled, TypeOK
    <3>2. ASSUME NEW k \in Slots, k # cur, ~ (used[k] /\ k = Source)
          PROVE  count[k] = 0 => file[k] = <<>>
      <4>1. k \notin Live => ~ used[k]
        BY <2>1, <3>2 DEF RingInv, Live, Source
      <4>2. IF k \in Live THEN Filled(k) ELSE used[k] \/ Empty(k)
        BY <2>1, <3>2 DEF RingInv, Saving
      <4> QED BY <4>1, <4>2 DEF Filled, Empty
    <3> QED BY <3>1, <3>2
  <2>4. \A k \in Slots : k # cur => f[k] = file[k]
    BY <2>2 DEF Flushed, TypeOK
  <2>5. \A k \in Slots : count'[k] = 0 => file'[k] = <<>>
    <3> SUFFICES ASSUME NEW k \in Slots, count'[k] = 0
                 PROVE  file'[k] = <<>>
      OBVIOUS
    <3>1. k # cur
      BY <2>2, <2>3 DEF DropSource, TypeOK
    <3>2. CASE used[Source] /\ k = Source
      BY <2>2, <3>2 DEF DropSource
    <3>3. CASE ~ (used[Source] /\ k = Source)
      <4>1. count'[k] = count[k] /\ file'[k] = f[k]
        BY <2>2, <2>3, <3>3 DEF DropSource, TypeOK
      <4> QED BY <2>3, <2>4, <3>1, <3>3, <4>1
    <3> QED BY <3>2, <3>3
  <2> QED BY <2>1, <2>5 DEF PhaseInv
<1>7. CASE SaveCloseFails
  BY <1>7 DEF SaveCloseFails, PhaseInv
<1>8. CASE DirectEmit \/ DirectDone
  BY <1>8 DEF DirectEmit, DirectDone, PhaseInv, tmp
<1>9. CASE FinalEmit
  <2>1. PICK k \in Searched : file' = [file EXCEPT ![k] = Tail(@)]
    BY <1>9 DEF FinalEmit
  <2>2. k \in Slots /\ count[k] # 0
    BY <2>1 DEF Searched, Opened
  <2>3. \A h \in Slots : count[h] = 0 => file'[h] = <<>>
    BY <1>9, <2>1, <2>2 DEF FinalEmit, PhaseInv, TypeOK
  <2> QED BY <1>9, <2>3 DEF FinalEmit, PhaseInv
<1>10. CASE FinalDone
  BY <1>10 DEF FinalDone, Opened, PhaseInv, tmp
<1>11. CASE Terminated \/ UNCHANGED vars
  BY <1>11 DEF Terminated, vars, PhaseInv
<1> QED
  BY <1>1, <1>2, <1>3, <1>4, <1>5, <1>6, <1>7, <1>8, <1>9, <1>10, <1>11
     DEF Next, SaveStep, OutputStep

(* So it always holds.                                                    *)
LEMMA PhaseInvAlways == Spec => []PhaseInv
BY PhaseInvInit, PhaseInvNext, TypeInvAlways, RingInvAlways, PTL DEF Spec

(* The order of what is written, of which R may be the order by key or the *)
(* order by key and position: what has been written of a file, what the    *)
(* cache owes it, and what a save has still to write follow each other.    *)
OrderInv(R) ==
    /\ Ordered(buf, R) /\ Ordered(src, R) /\ Ordered(cache, R) /\ Ordered(out, R)
    /\ \A k \in Slots : Ordered(file[k], R)
    /\ Upto(Elements(file[cur]), Elements(cache), R)
    /\ Saving => /\ Upto(Elements(file[cur]), Elements(src) \cup Elements(buf), R)
                 /\ Upto(Elements(cache), Elements(src) \cup Elements(buf), R)
    /\ pc = "direct" => Upto(Elements(out), Elements(buf), R)
    /\ pc = "final" => \A k \in Slots : Upto(Elements(out), Elements(file[k]), R)

ByKey == {p \in Records \X Records : p[1].key <= p[2].key}
ByPosition == {p \in Records \X Records : Before(p[1], p[2])}

(* Until the ring has turned no merge compares two records. *)
StableInv ==
    ~ used[0] => /\ src = <<>>
                 /\ FixedLength => OrderInv(ByPosition)

Transitive(R) ==
    \A a, b, c \in Records : <<a, b>> \in R /\ <<b, c>> \in R => <<a, c>> \in R

(* Membership of the two orders, and the numbers they compare. *)
LEMMA Orders ==
    \A a, b \in Records : /\ a.key \in Nat /\ a.pos \in Nat
                          /\ <<a, b>> \in ByKey <=> a.key <= b.key
                          /\ <<a, b>> \in ByPosition <=> Before(a, b)
<1>1. \A a \in Records : a.key \in Nat /\ a.pos \in Nat
  BY KeysAssumption DEF Records, Record
<1>2. \A a, b \in Records : <<a, b>> \in ByKey <=> a.key <= b.key
  BY DEF ByKey
<1>3. \A a, b \in Records : <<a, b>> \in ByPosition <=> Before(a, b)
  BY DEF ByPosition
<1> QED BY <1>1, <1>2, <1>3

(* The order by key is transitive,                                        *)
LEMMA ByKeyTransitive == Transitive(ByKey)
<1> SUFFICES ASSUME NEW a \in Records, NEW b \in Records, NEW c \in Records,
                    a.key <= b.key, b.key <= c.key
             PROVE  a.key <= c.key
  BY Orders DEF Transitive
<1>1. a.key \in Nat /\ b.key \in Nat /\ c.key \in Nat
  BY Orders
<1> QED BY <1>1

(* and the order by key and position too.                                 *)
LEMMA ByPositionTransitive == Transitive(ByPosition)
<1> SUFFICES ASSUME NEW a \in Records, NEW b \in Records, NEW c \in Records,
                    Before(a, b), Before(b, c)
             PROVE  Before(a, c)
  BY Orders DEF Transitive
<1>1. /\ a.key \in Nat /\ b.key \in Nat /\ c.key \in Nat
      /\ a.pos \in Nat /\ b.pos \in Nat /\ c.pos \in Nat
  BY Orders
<1> QED BY <1>1 DEF Before

(* What goes before the head of an ordered sequence goes before all of it. *)
LEMMA BeforeHead ==
    ASSUME NEW R, Transitive(R), NEW s \in Seq(Records), s # <<>>, Ordered(s, R),
           NEW r \in Records, <<r, Head(s)>> \in R
    PROVE  Upto({r}, Elements(s), R)
<1>1. /\ Elements(s) = {Head(s)} \cup Elements(Tail(s))
      /\ Upto({Head(s)}, Elements(Tail(s)), R)
      /\ Head(s) \in Records /\ Elements(Tail(s)) \subseteq Records
  BY ElementsTail, OrderedTail, HeadTailProperties, ElementsOf
<1> QED BY <1>1 DEF Upto, Transitive

(* write_buffered keeps the order of the file being written. *)
LEMMA PutKeepsOrder ==
    ASSUME TypeOK, NEW R, NEW r \in Records, Put(r),
           Ordered(cache, R), \A k \in Slots : Ordered(file[k], R),
           Upto(Elements(file[cur]), Elements(cache), R),
           Upto(Elements(file[cur]), {r}, R), Upto(Elements(cache), {r}, R)
    PROVE  /\ Ordered(cache', R) /\ \A k \in Slots : Ordered(file'[k], R)
           /\ Upto(Elements(file'[cur]), Elements(cache'), R)
           /\ Elements(file'[cur]) \cup Elements(cache') =
                Elements(file[cur]) \cup Elements(cache) \cup {r}
           /\ \A k \in Slots \ {cur} : file'[k] = file[k]
<1>1. cache \in Seq(Records) /\ file[cur] \in Seq(Records) /\ cur \in Slots
  BY DEF TypeOK
<1>2. CASE CacheFull
  <2>1. /\ cache' = <<r>>
        /\ file'[cur] = file[cur] \o cache
        /\ \A k \in Slots \ {cur} : file'[k] = file[k]
    BY <1>1, <1>2 DEF Put, Flushed, TypeOK
  <2>2. Ordered(<<r>>, R) /\ Elements(<<r>>) = {r}
    BY DEF Ordered, Elements
  <2>3. /\ Ordered(file[cur] \o cache, R)
        /\ Elements(file[cur] \o cache) = Elements(file[cur]) \cup Elements(cache)
    BY <1>1, OrderedConcat, ElementsConcat
  <2> QED BY <2>1, <2>2, <2>3 DEF Upto
<1>3. CASE ~ CacheFull
  <2>1. cache' = Append(cache, r) /\ file' = file
    BY <1>3 DEF Put
  <2>2. /\ Ordered(Append(cache, r), R)
        /\ Elements(Append(cache, r)) = Elements(cache) \cup {r}
    BY <1>1, OrderedAppend, ElementsAppend
  <2> QED BY <2>1, <2>2 DEF Upto
<1> QED BY <1>2, <1>3

(* Every step keeps an order that a round's sort gives to its records and  *)
(* that the comparisons of the two merges decide.                          *)
LEMMA OrderInvNext ==
    ASSUME TypeOK, RingInv, PhaseInv, NEW R, Transitive(R), OrderInv(R), [Next]_vars,
           Load => Ordered(buf', R),
           CopyOld => <<Head(src), Head(buf)>> \in R,
           CopyNew /\ src # <<>> => <<Head(buf), Head(src)>> \in R,
           FinalEmit => \E k \in Opened :
               /\ \A h \in Opened \ {k} : <<Head(file[k]), Head(file[h])>> \in R
               /\ out' = Append(out, Head(file[k]))
               /\ file' = [file EXCEPT ![k] = Tail(@)]
    PROVE  OrderInv(R)'
<1> USE DEF OrderInv
<1>a. /\ buf \in Seq(Records) /\ src \in Seq(Records) /\ cache \in Seq(Records)
      /\ out \in Seq(Records) /\ cur \in Slots /\ \A k \in Slots : file[k] \in Seq(Records)
  BY DEF TypeOK
<1>b. Elements(<<>>) = {} /\ Ordered(<<>>, R) /\ \A X : Upto({}, X, R) /\ Upto(X, {}, R)
  BY OrderedEmpty DEF Elements, Upto
<1>1. CASE Load
  <2>1. out = <<>> /\ ~ Saving'
    BY <1>1 DEF Load, PhaseInv, Saving
  <2> QED BY <1>1, <1>b, <2>1 DEF Load, tmp
<1>2. CASE LoadFails \/ CopyFails \/ CopyTailFails \/ OutputFails
  BY <1>2 DEF LoadFails, CopyFails, CopyTailFails, SaveFails, OutputFails, tmp, Saving
<1>3. CASE SaveNothing
  <2>1. out = <<>> /\ ~ Saving' /\ pc' # "direct"
    BY <1>3 DEF SaveNothing, NextRound, PhaseInv, Saving
  <2> QED BY <1>3, <1>b, <2>1 DEF SaveNothing, tmp
<1>4. CASE SaveOpen
  <2>1. /\ cur' \in Slots /\ file' = [file EXCEPT ![cur'] = <<>>]
        /\ UNCHANGED <<buf, cache, out>> /\ cache = <<>> /\ out = <<>>
        /\ pc' = "merge"
    BY <1>4, SuccSlot DEF SaveOpen, PhaseInv, TypeOK
  <2>2. src' = <<>> \/ \E k \in Slots : src' = file[k]
    BY <1>4, <2>1, SuccSlot DEF SaveOpen
  <2>3. \A k \in Slots : file'[k] = <<>> \/ file'[k] = file[k]
    BY <2>1 DEF TypeOK
  <2>4. file'[cur'] = <<>>
    BY <2>1 DEF TypeOK
  <2> QED BY <1>b, <2>1, <2>2, <2>3, <2>4
<1>5. CASE SaveOpenFails
  <2>1. /\ cur' \in Slots /\ (file' = file \/ file' = [file EXCEPT ![cur'] = <<>>])
        /\ UNCHANGED <<buf, src, cache, out>> /\ cache = <<>>
        /\ pc' = "failed"
    BY <1>5, SuccSlot DEF SaveOpenFails, PhaseInv, TypeOK
  <2>3. \A k \in Slots : file'[k] = <<>> \/ file'[k] = file[k]
    BY <2>1 DEF TypeOK
  <2> QED BY <1>b, <2>1, <2>3 DEF Saving
<1>6. CASE CopyOld
  <2>1. /\ pc = "merge" /\ pc' = pc /\ buf # <<>> /\ src # <<>> /\ Put(Head(src))
        /\ src' = Tail(src) /\ UNCHANGED <<buf, cur, out>>
    BY <1>6 DEF CopyOld
  <2>2. /\ Elements(src) = {Head(src)} \cup Elements(Tail(src))
        /\ Ordered(Tail(src), R) /\ Upto({Head(src)}, Elements(Tail(src)), R)
        /\ Head(src) \in Records
    BY <1>a, <2>1, ElementsTail, OrderedTail, HeadTailProperties
  <2>3. Upto({Head(src)}, Elements(buf), R)
    BY <1>6, <1>a, <2>1, <2>2, BeforeHead
  <2>4. Upto(Elements(file[cur]), {Head(src)}, R) /\ Upto(Elements(cache), {Head(src)}, R)
    BY <2>1, <2>2 DEF Saving, Upto
  <2>5. /\ Ordered(cache', R) /\ \A k \in Slots : Ordered(file'[k], R)
        /\ Upto(Elements(file'[cur]), Elements(cache'), R)
        /\ Elements(file'[cur]) \cup Elements(cache') =
             Elements(file[cur]) \cup Elements(cache) \cup {Head(src)}
    BY <2>1, <2>2, <2>4, PutKeepsOrder
  <2>6. \A x \in Elements(file[cur]) \cup Elements(cache) \cup {Head(src)} :
           \A y \in Elements(src') \cup Elements(buf') : <<x, y>> \in R
    BY <2>1, <2>2, <2>3 DEF Upto, Saving
  <2>7. Upto(Elements(file'[cur]), Elements(src') \cup Elements(buf'), R)
        /\ Upto(Elements(cache'), Elements(src') \cup Elements(buf'), R)
    BY <2>5, <2>6 DEF Upto
  <2> QED BY <2>1, <2>2, <2>5, <2>7
<1>7. CASE CopyNew
  <2>1. /\ pc = "merge" /\ pc' = pc /\ buf # <<>> /\ Put(Head(buf))
        /\ buf' = Tail(buf) /\ UNCHANGED <<src, cur, out>>
    BY <1>7 DEF CopyNew
  <2>2. /\ Elements(buf) = {Head(buf)} \cup Elements(Tail(buf))
        /\ Ordered(Tail(buf), R) /\ Upto({Head(buf)}, Elements(Tail(buf)), R)
        /\ Head(buf) \in Records
    BY <1>a, <2>1, ElementsTail, OrderedTail, HeadTailProperties
  <2>3. Upto({Head(buf)}, Elements(src), R)
    BY <1>7, <1>a, <1>b, <2>1, <2>2, BeforeHead
  <2>4. Upto(Elements(file[cur]), {Head(buf)}, R) /\ Upto(Elements(cache), {Head(buf)}, R)
    BY <2>1, <2>2 DEF Saving, Upto
  <2>5. /\ Ordered(cache', R) /\ \A k \in Slots : Ordered(file'[k], R)
        /\ Upto(Elements(file'[cur]), Elements(cache'), R)
        /\ Elements(file'[cur]) \cup Elements(cache') =
             Elements(file[cur]) \cup Elements(cache) \cup {Head(buf)}
    BY <2>1, <2>2, <2>4, PutKeepsOrder
  <2>6. \A x \in Elements(file[cur]) \cup Elements(cache) \cup {Head(buf)} :
           \A y \in Elements(src') \cup Elements(buf') : <<x, y>> \in R
    BY <2>1, <2>2, <2>3 DEF Upto, Saving
  <2>7. Upto(Elements(file'[cur]), Elements(src') \cup Elements(buf'), R)
        /\ Upto(Elements(cache'), Elements(src') \cup Elements(buf'), R)
    BY <2>5, <2>6 DEF Upto
  <2> QED BY <2>1, <2>2, <2>5, <2>7
<1>8. CASE FlushNew
  <2>1. /\ file'[cur] = file[cur] \o cache /\ cache' = <<>>
        /\ \A k \in Slots \ {cur} : file'[k] = file[k]
        /\ UNCHANGED <<buf, src, cur, out>> /\ pc' = "tail" /\ Saving
    BY <1>8 DEF FlushNew, Flushed, TypeOK, Saving
  <2>2. /\ Ordered(file[cur] \o cache, R)
        /\ Elements(file[cur] \o cache) = Elements(file[cur]) \cup Elements(cache)
    BY <1>a, OrderedConcat, ElementsConcat
  <2>3. Upto(Elements(file'[cur]), Elements(src) \cup Elements(buf), R)
    BY <2>1, <2>2 DEF Upto
  <2> QED BY <1>b, <2>1, <2>2, <2>3
<1>9. CASE CopyTail
  <2>1. /\ pc = "tail" /\ pc' = pc /\ src # <<>> /\ Put(Head(src))
        /\ src' = Tail(src) /\ UNCHANGED <<buf, cur, out>> /\ buf = <<>>
    BY <1>9 DEF CopyTail, PhaseInv
  <2>2. /\ Elements(src) = {Head(src)} \cup Elements(Tail(src))
        /\ Ordered(Tail(src), R) /\ Upto({Head(src)}, Elements(Tail(src)), R)
        /\ Head(src) \in Records
    BY <1>a, <2>1, ElementsTail, OrderedTail, HeadTailProperties
  <2>4. Upto(Elements(file[cur]), {Head(src)}, R) /\ Upto(Elements(cache), {Head(src)}, R)
    BY <2>1, <2>2 DEF Saving, Upto
  <2>5. /\ Ordered(cache', R) /\ \A k \in Slots : Ordered(file'[k], R)
        /\ Upto(Elements(file'[cur]), Elements(cache'), R)
        /\ Elements(file'[cur]) \cup Elements(cache') =
             Elements(file[cur]) \cup Elements(cache) \cup {Head(src)}
    BY <2>1, <2>2, <2>4, PutKeepsOrder
  <2>6. \A x \in Elements(file[cur]) \cup Elements(cache) \cup {Head(src)} :
           \A y \in Elements(src') \cup Elements(buf') : <<x, y>> \in R
    BY <1>b, <2>1, <2>2 DEF Upto, Saving
  <2>7. Upto(Elements(file'[cur]), Elements(src') \cup Elements(buf'), R)
        /\ Upto(Elements(cache'), Elements(src') \cup Elements(buf'), R)
    BY <2>5, <2>6 DEF Upto
  <2> QED BY <2>1, <2>2, <2>5, <2>7
<1>10. CASE TailDone
  BY <1>10 DEF TailDone, tmp, Saving
<1>11. CASE FlushNewFails \/ SaveClose \/ SaveCloseLoses \/ SaveCloseFails
  <2>1. /\ UNCHANGED <<buf, cur, out>> /\ out = <<>> /\ ~ Saving' /\ pc' # "direct"
    BY <1>11 DEF FlushNewFails, SaveClose, SaveCloseLoses, SaveCloseFails, NextRound,
                 PhaseInv, Saving
  <2>2. src' = src \/ src' = <<>>
    BY <1>11 DEF FlushNewFails, SaveClose, SaveCloseLoses, SaveCloseFails, DropSource
  <2>3. PICK f \in [Slots -> Seq(Records)] :
          /\ f = file \/ f = Flushed
          /\ DropSource(f) \/ (file' = f /\ (cache' = <<>> \/ (cache' = cache /\ f = file)))
    BY <1>11, FlushedType DEF FlushNewFails, SaveClose, SaveCloseLoses, SaveCloseFails, TypeOK
  <2>4. \A k \in Slots : Ordered(f[k], R)
    <3>1. Ordered(file[cur] \o cache, R)
      BY <1>a, OrderedConcat
    <3> QED BY <2>3, <3>1 DEF Flushed, TypeOK
  <2>5. \A k \in Slots : file'[k] = f[k] \/ file'[k] = <<>>
    BY <2>3, SuccSlot DEF DropSource, Source, TypeOK
  <2>6. cache' = <<>> \/ (cache' = cache /\ file' = file)
    BY <2>3 DEF DropSource
  <2>7. \A k \in Slots : Ordered(file'[k], R)
    BY <1>b, <2>4, <2>5
  <2> QED BY <1>b, <2>1, <2>2, <2>6, <2>7
<1>12. CASE DirectEmit
  <2>1. /\ pc = "direct" /\ buf # <<>> /\ out' = Append(out, Head(buf))
        /\ buf' = Tail(buf) /\ pc' = pc /\ UNCHANGED <<src, cache, file, cur>>
    BY <1>12 DEF DirectEmit, tmp
  <2>2. /\ Elements(buf) = {Head(buf)} \cup Elements(Tail(buf))
        /\ Ordered(Tail(buf), R) /\ Upto({Head(buf)}, Elements(Tail(buf)), R)
        /\ Head(buf) \in Records
    BY <1>a, <2>1, ElementsTail, OrderedTail, HeadTailProperties
  <2>3. Upto(Elements(out), {Head(buf)}, R) /\ Upto(Elements(out), Elements(Tail(buf)), R)
    BY <2>1, <2>2 DEF Upto
  <2>4. Ordered(out', R) /\ Elements(out') = Elements(out) \cup {Head(buf)}
    <3>1. Ordered(out, R)
      OBVIOUS
    <3>2. Ordered(Append(out, Head(buf)), R)
      BY <1>a, <2>2, <2>3, <3>1, OrderedAppend
    <3>3. Elements(Append(out, Head(buf))) = Elements(out) \cup {Head(buf)}
      BY <1>a, <2>2, ElementsAppend
    <3> QED BY <2>1, <3>2, <3>3
  <2>5. Upto(Elements(out'), Elements(buf'), R)
    BY <2>1, <2>2, <2>3, <2>4 DEF Upto
  <2> QED BY <2>1, <2>2, <2>4, <2>5 DEF Saving
<1>13. CASE FinalEmit
  <2>1. PICK k \in Opened :
          /\ \A h \in Opened \ {k} : <<Head(file[k]), Head(file[h])>> \in R
          /\ out' = Append(out, Head(file[k]))
          /\ file' = [file EXCEPT ![k] = Tail(@)]
    BY <1>13
  <2>2. /\ pc = "final" /\ pc' = pc /\ UNCHANGED <<buf, src, cache, cur>> /\ cache = <<>>
    BY <1>13 DEF FinalEmit, PhaseInv
  <2>3. /\ k \in Slots /\ file[k] # <<>> /\ file'[k] = Tail(file[k])
        /\ \A h \in Slots \ {k} : file'[h] = file[h]
    BY <2>1 DEF Opened, TypeOK
  <2>4. /\ Elements(file[k]) = {Head(file[k])} \cup Elements(Tail(file[k]))
        /\ Ordered(Tail(file[k]), R) /\ Upto({Head(file[k])}, Elements(Tail(file[k])), R)
        /\ Head(file[k]) \in Records
    BY <1>a, <2>3, ElementsTail, OrderedTail, HeadTailProperties
  <2>5. \A h \in Slots \ {k} : Upto({Head(file[k])}, Elements(file[h]), R)
    <3> SUFFICES ASSUME NEW h \in Slots \ {k}
                 PROVE  Upto({Head(file[k])}, Elements(file[h]), R)
      OBVIOUS
    <3>1. CASE file[h] = <<>>
      BY <1>b, <3>1
    <3>2. CASE file[h] # <<>>
      <4>1. h \in Opened
        BY <2>2, <3>2 DEF PhaseInv, Opened
      <4> QED BY <1>a, <2>1, <2>4, <3>2, <4>1, BeforeHead
    <3> QED BY <3>1, <3>2
  <2>6. Upto(Elements(out), {Head(file[k])}, R)
    BY <2>2, <2>3, <2>4 DEF Upto
  <2>7. Ordered(out', R) /\ Elements(out') = Elements(out) \cup {Head(file[k])}
    <3>1. Ordered(out, R)
      OBVIOUS
    <3>2. Ordered(Append(out, Head(file[k])), R)
      BY <1>a, <2>4, <2>6, <3>1, OrderedAppend
    <3>3. Elements(Append(out, Head(file[k]))) = Elements(out) \cup {Head(file[k])}
      BY <1>a, <2>4, ElementsAppend
    <3> QED BY <2>1, <3>2, <3>3
  <2>8. \A h \in Slots : Ordered(file'[h], R)
    BY <2>3, <2>4
  <2>9. \A h \in Slots : Upto(Elements(out'), Elements(file'[h]), R)
    <3> SUFFICES ASSUME NEW h \in Slots
                 PROVE  Upto(Elements(out'), Elements(file'[h]), R)
      OBVIOUS
    <3>1. Elements(file'[h]) \subseteq Elements(file[h])
      BY <2>3, <2>4
    <3>2. Upto({Head(file[k])}, Elements(file'[h]), R)
      BY <2>3, <2>4, <2>5
    <3> QED BY <2>2, <2>7, <3>1, <3>2 DEF Upto
  <2> QED BY <1>b, <2>2, <2>7, <2>8, <2>9 DEF Saving
<1>14. CASE DirectDone \/ FinalDone
  BY <1>14 DEF DirectDone, FinalDone, tmp, Saving
<1>15. CASE Terminated \/ UNCHANGED vars
  BY <1>15 DEF Terminated, vars, Saving
<1> QED
  BY <1>1, <1>2, <1>3, <1>4, <1>5, <1>6, <1>7, <1>8, <1>9, <1>10, <1>11,
     <1>12, <1>13, <1>14, <1>15 DEF Next, SaveStep, OutputStep

(* The properties of the model in terms of the two orders.                *)
LEMMA SortedMeansOrdered ==
    ASSUME NEW s \in Seq(Records)
    PROVE  /\ KeySorted(s) <=> Ordered(s, ByKey)
           /\ Stable(s) <=> Ordered(s, ByPosition)
           /\ Ordered(s, ByPosition) => Ordered(s, ByKey)
<1>1. \A i \in DOMAIN s : s[i] \in Records
  BY LenProperties, ElementOfSeq
<1>2. KeySorted(s) <=> Ordered(s, ByKey)
  BY <1>1, Orders DEF KeySorted, Ordered
<1>3. Stable(s) <=> Ordered(s, ByPosition)
  BY <1>1, Orders DEF Stable, Ordered
<1>4. \A a, b \in Records : <<a, b>> \in ByPosition => <<a, b>> \in ByKey
  <2> SUFFICES ASSUME NEW a \in Records, NEW b \in Records, Before(a, b)
               PROVE  a.key <= b.key
    BY Orders
  <2>1. a.key \in Nat /\ b.key \in Nat
    BY Orders
  <2> QED BY <2>1 DEF Before
<1>5. Ordered(s, ByPosition) => Ordered(s, ByKey)
  BY <1>1, <1>4 DEF Ordered
<1> QED BY <1>2, <1>3, <1>5

(* What qsort leaves is in order by key and position. *)
LEMMA LoadOrders ==
    ASSUME TypeInv, Load
    PROVE  buf' \in Seq(Records) /\ Ordered(buf', ByPosition)
<1>1. PICK n \in 0 .. MaxSegment : \E new \in NewRecords(n) : buf' \in Arrangements(new, n)
  BY DEF Load
<1>2. PICK new \in NewRecords(n) : buf' \in Arrangements(new, n)
  BY <1>1
<1>3. n \in Nat
  BY BoundsAssumption
<1>4. new \in SUBSET Records
  BY <1>3, NewRecordsType, FS_CardinalityType DEF TypeInv
<1>5. buf' \in Seq(Records)
  BY <1>2, <1>3, <1>4, ArrangementsType
<1>6. Stable(buf')
  BY <1>2 DEF Arrangements
<1> QED BY <1>5, <1>6, SortedMeansOrdered

KeyInv == OrderInv(ByKey)

(* Nothing is written at the start.                                       *)
LEMMA KeyInvInit == Init => KeyInv
<1> SUFFICES ASSUME Init
             PROVE  OrderInv(ByKey)
  BY DEF KeyInv
<1>1. cur \in Slots /\ file[cur] = <<>>
  BY ZeroSlot DEF Init
<1>2. Elements(<<>>) = {}
  BY DEF Elements
<1> QED BY <1>1, <1>2, OrderedEmpty DEF Init, OrderInv, Upto, Saving

(* The comparisons of the two merges decide the order by key.             *)
LEMMA KeyInvNext ==
    TypeInv /\ RingInv /\ EverySourceSearched /\ PhaseInv /\ KeyInv /\ [Next]_vars => KeyInv'
<1> SUFFICES ASSUME TypeInv, RingInv, EverySourceSearched, PhaseInv, OrderInv(ByKey),
                    [Next]_vars
             PROVE  OrderInv(ByKey)'
  BY DEF KeyInv
<1>1. TypeOK
  BY DEF TypeInv
<1>2. Load => Ordered(buf', ByKey)
  BY LoadOrders, SortedMeansOrdered
<1>3. CopyOld => <<Head(src), Head(buf)>> \in ByKey
  <2> SUFFICES ASSUME CopyOld
               PROVE  <<Head(src), Head(buf)>> \in ByKey
    OBVIOUS
  <2>1. Head(src) \in Records /\ Head(buf) \in Records
    BY <1>1, HeadTailProperties DEF CopyOld, TypeOK
  <2> QED BY <2>1, Orders DEF CopyOld, OldFirst, MayPrecede
<1>4. CopyNew /\ src # <<>> => <<Head(buf), Head(src)>> \in ByKey
  <2> SUFFICES ASSUME CopyNew, src # <<>>
               PROVE  <<Head(buf), Head(src)>> \in ByKey
    OBVIOUS
  <2>1. Head(src) \in Records /\ Head(buf) \in Records
    BY <1>1, HeadTailProperties DEF CopyNew, TypeOK
  <2> QED BY <2>1, Orders DEF CopyNew, NewFirst, MayPrecede
<1>5. FinalEmit => \E k \in Opened :
               /\ \A h \in Opened \ {k} : <<Head(file[k]), Head(file[h])>> \in ByKey
               /\ out' = Append(out, Head(file[k]))
               /\ file' = [file EXCEPT ![k] = Tail(@)]
  <2> SUFFICES ASSUME FinalEmit
               PROVE  \E k \in Opened :
               /\ \A h \in Opened \ {k} : <<Head(file[k]), Head(file[h])>> \in ByKey
               /\ out' = Append(out, Head(file[k]))
               /\ file' = [file EXCEPT ![k] = Tail(@)]
    OBVIOUS
  <2>1. PICK k \in Searched :
         /\ \A h \in Searched : Beats(k, h)
         /\ out' = Append(out, Head(file[k]))
         /\ file' = [file EXCEPT ![k] = Tail(@)]
    BY DEF FinalEmit
  <2>2. Searched = Opened
    BY DEF FinalEmit, EverySourceSearched
  <2>3. \A h \in Opened : Head(file[h]) \in Records
    BY <1>1, HeadTailProperties DEF Opened, TypeOK
  <2>4. ASSUME NEW h \in Opened
        PROVE  <<Head(file[k]), Head(file[h])>> \in ByKey
    <3>1. Head(file[k]).key \in Nat /\ Head(file[h]).key \in Nat
      BY <2>2, <2>3, Orders
    <3>2. Head(file[k]).key <= Head(file[h]).key
      BY <2>1, <2>2, <3>1 DEF Beats, MayPrecede, Before
    <3> QED BY <2>2, <2>3, <3>2, Orders
  <2> QED BY <2>1, <2>2, <2>4
<1> QED BY <1>1, <1>2, <1>3, <1>4, <1>5, ByKeyTransitive, OrderInvNext

(* So the order by key always holds.                                      *)
LEMMA KeyInvAlways == Spec => []KeyInv
BY KeyInvInit, KeyInvNext, TypeInvAlways, RingInvAlways, EveryFileIsSearched,
   PhaseInvAlways, PTL DEF Spec

(* The output is in key order at every point of every run, whether it is   *)
(* written from memory or merged from the temporary files, and whichever   *)
(* read or write fails.                                                    *)
THEOREM OutputAlwaysSorted == Spec => []OutputSorted
<1>1. TypeInv /\ KeyInv => OutputSorted
  BY SortedMeansOrdered DEF TypeInv, TypeOK, KeyInv, OrderInv, OutputSorted
<1> QED BY <1>1, TypeInvAlways, KeyInvAlways, PTL

(* Every temporary file is in key order, with what the cache owes it: the  *)
(* promise job_save_tempfinal's merge rests on, through any number of      *)
(* rounds of the ring.                                                     *)
THEOREM FilesAlwaysSorted == Spec => []FilesSorted
<1>1. TypeInv /\ KeyInv => FilesSorted
  <2> SUFFICES ASSUME TypeOK, OrderInv(ByKey), NEW k \in Slots
               PROVE  KeySorted(file[k] \o (IF k = cur THEN cache ELSE <<>>))
    BY DEF TypeInv, KeyInv, FilesSorted
  <2> DEFINE c == IF k = cur THEN cache ELSE <<>>
  <2>1. file[k] \in Seq(Records) /\ c \in Seq(Records)
    BY EmptySeq DEF TypeOK
  <2>2. /\ Ordered(file[k], ByKey) /\ Ordered(c, ByKey)
        /\ Upto(Elements(file[k]), Elements(c), ByKey)
    BY OrderedEmpty DEF OrderInv, Upto, Elements
  <2>3. Ordered(file[k] \o c, ByKey) /\ file[k] \o c \in Seq(Records)
    BY <2>1, <2>2, OrderedConcat, ConcatProperties
  <2> QED BY <2>3, SortedMeansOrdered
<1> QED BY <1>1, TypeInvAlways, KeyInvAlways, PTL

(* The places by their numbers, and what they may hold. *)
Spots == 1 .. Handles + 4
Buf == 1
Src == 2
Cache == 3
At(k) == k + 5

Layouts == [Spots -> Seq(Records)]

(* No record is in two places, or twice in one. *)
Apart(P) ==
    \A d \in DOMAIN P :
        /\ Distinct(P[d])
        /\ \A e \in DOMAIN P : d # e => Elements(P[d]) \cap Elements(P[e]) = {}

AllOf(P) == UNION {Elements(P[d]) : d \in DOMAIN P}

OnceInv ==
    /\ \A r \in loaded : r.pos <= Cardinality(loaded)
    /\ pc # "failed" => Apart(Places) /\ AllOf(Places) \subseteq loaded
    /\ ~ IOErrors => pc # "failed" /\ AllOf(Places) = loaded

(* The first record of one place goes to the end of another. *)
LEMMA MoveOne ==
    ASSUME NEW P \in Layouts, NEW Q \in Layouts,
           NEW a \in Spots, NEW b \in Spots, a # b, P[a] # <<>>,
           Q[a] = Tail(P[a]), Q[b] = Append(P[b], Head(P[a])),
           \A d \in Spots \ {a, b} : Q[d] = P[d], Apart(P)
    PROVE  Apart(Q) /\ AllOf(Q) = AllOf(P)
<1> USE DEF Layouts
<1> DEFINE h == Head(P[a])
<1>1. P[a] \in Seq(Records) /\ P[b] \in Seq(Records) /\ h \in Records
  BY HeadTailProperties
<1>2. /\ Elements(P[a]) = {h} \cup Elements(Q[a]) /\ Distinct(Q[a]) /\ h \notin Elements(Q[a])
  BY <1>1, ElementsTail DEF Apart
<1>3. Elements(P[a]) \cap Elements(P[b]) = {} /\ Distinct(P[b])
  BY DEF Apart
<1>4. Elements(Q[b]) = Elements(P[b]) \cup {h} /\ Distinct(Q[b])
  BY <1>1, <1>2, <1>3, ElementsAppend
<1> HIDE DEF h
<1>5. \A d \in Spots : Distinct(Q[d])
  BY <1>2, <1>4 DEF Apart
<1>6. \A d, e \in Spots : d # e => Elements(Q[d]) \cap Elements(Q[e]) = {}
  <2>1. \A d \in Spots \ {a, b} : /\ Elements(Q[d]) \cap Elements(P[a]) = {}
                              /\ Elements(Q[d]) \cap Elements(P[b]) = {}
    BY DEF Apart
  <2>2. \A d, e \in Spots \ {a, b} : d # e => Elements(Q[d]) \cap Elements(Q[e]) = {}
    BY DEF Apart
  <2>3. Elements(Q[a]) \cap Elements(Q[b]) = {}
    BY <1>2, <1>3, <1>4
  <2>4. \A d \in Spots \ {a, b} : /\ Elements(Q[d]) \cap Elements(Q[a]) = {}
                              /\ Elements(Q[d]) \cap Elements(Q[b]) = {}
    BY <1>2, <1>4, <2>1
  <2> SUFFICES ASSUME NEW d \in Spots, NEW e \in Spots, d # e
               PROVE  Elements(Q[d]) \cap Elements(Q[e]) = {}
    OBVIOUS
  <2>5. CASE d \notin {a, b} /\ e \notin {a, b}
    BY <2>2, <2>5
  <2>6. CASE d \in {a, b} /\ e \in {a, b}
    <3>1. \/ d = a /\ e = b
          \/ d = b /\ e = a
      BY <2>6
    <3>2. Elements(Q[b]) \cap Elements(Q[a]) = {}
      BY <2>3
    <3> QED BY <2>3, <3>1, <3>2
  <2>7. CASE d \in {a, b} /\ e \notin {a, b}
    BY <2>4, <2>7
  <2>8. CASE d \notin {a, b} /\ e \in {a, b}
    BY <2>4, <2>8
  <2> QED BY <2>5, <2>6, <2>7, <2>8
<1>7. AllOf(Q) = AllOf(P)
  <2>1. ASSUME NEW x PROVE x \in AllOf(P) <=> \E d \in Spots : x \in Elements(P[d])
    BY DEF AllOf
  <2>2. ASSUME NEW x PROVE x \in AllOf(Q) <=> \E d \in Spots : x \in Elements(Q[d])
    BY DEF AllOf
  <2>3. ASSUME NEW x
        PROVE  (\E d \in Spots : x \in Elements(P[d])) <=> (\E d \in Spots : x \in Elements(Q[d]))
    BY <1>2, <1>4
  <2> QED BY <2>1, <2>2, <2>3
<1> QED BY <1>5, <1>6, <1>7 DEF Apart

(* All of one place goes to the end of another. *)
LEMMA MoveAll ==
    ASSUME NEW P \in Layouts, NEW Q \in Layouts,
           NEW a \in Spots, NEW b \in Spots, a # b,
           Q[a] = <<>>, Q[b] = P[b] \o P[a],
           \A d \in Spots \ {a, b} : Q[d] = P[d], Apart(P)
    PROVE  Apart(Q) /\ AllOf(Q) = AllOf(P)
<1> USE DEF Layouts
<1>1. P[a] \in Seq(Records) /\ P[b] \in Seq(Records)
  OBVIOUS
<1>2. Elements(Q[a]) = {} /\ Distinct(Q[a])
  BY DEF Elements, Distinct
<1>3. Elements(P[a]) \cap Elements(P[b]) = {} /\ Distinct(P[b]) /\ Distinct(P[a])
  BY DEF Apart
<1>4. Elements(Q[b]) = Elements(P[b]) \cup Elements(P[a]) /\ Distinct(Q[b])
  BY <1>1, <1>3, ElementsConcat
<1>5. \A d \in Spots : Distinct(Q[d])
  BY <1>2, <1>4 DEF Apart
<1>6. \A d, e \in Spots : d # e => Elements(Q[d]) \cap Elements(Q[e]) = {}
  <2>1. \A d \in Spots \ {a, b} : /\ Elements(Q[d]) \cap Elements(P[a]) = {}
                              /\ Elements(Q[d]) \cap Elements(P[b]) = {}
    BY DEF Apart
  <2>2. \A d, e \in Spots \ {a, b} : d # e => Elements(Q[d]) \cap Elements(Q[e]) = {}
    BY DEF Apart
  <2>4. \A d \in Spots \ {a, b} : Elements(Q[d]) \cap Elements(Q[b]) = {}
    BY <1>4, <2>1
  <2> QED BY <1>2, <2>2, <2>4
<1>7. AllOf(Q) = AllOf(P)
  <2>1. ASSUME NEW x PROVE x \in AllOf(P) <=> \E d \in Spots : x \in Elements(P[d])
    BY DEF AllOf
  <2>2. ASSUME NEW x PROVE x \in AllOf(Q) <=> \E d \in Spots : x \in Elements(Q[d])
    BY DEF AllOf
  <2>3. ASSUME NEW x
        PROVE  (\E d \in Spots : x \in Elements(P[d])) <=> (\E d \in Spots : x \in Elements(Q[d]))
    BY <1>2, <1>4
  <2> QED BY <2>1, <2>2, <2>3
<1> QED BY <1>5, <1>6, <1>7 DEF Apart

(* Some places are emptied. *)
LEMMA MoveOut ==
    ASSUME NEW P \in Layouts, NEW Q \in Layouts,
           \A d \in Spots : Q[d] = P[d] \/ Q[d] = <<>>, Apart(P)
    PROVE  Apart(Q) /\ AllOf(Q) \subseteq AllOf(P)
<1> USE DEF Layouts
<1>1. Elements(<<>>) = {} /\ Distinct(<<>>)
  BY DEF Elements, Distinct
<1> QED BY <1>1 DEF Apart, AllOf

(* An empty place is filled with records that were nowhere. *)
LEMMA MoveIn ==
    ASSUME NEW P \in Layouts, NEW Q \in Layouts,
           NEW a \in Spots, P[a] = <<>>, Distinct(Q[a]), Elements(Q[a]) \cap AllOf(P) = {},
           \A d \in Spots \ {a} : Q[d] = P[d], Apart(P)
    PROVE  Apart(Q) /\ AllOf(Q) = AllOf(P) \cup Elements(Q[a])
<1> USE DEF Layouts
<1>1. Elements(P[a]) = {}
  BY DEF Elements
<1>2. \A d \in Spots \ {a} : Elements(Q[d]) \subseteq AllOf(P)
  BY DEF AllOf
<1>3. Apart(Q)
  BY <1>2 DEF Apart
<1>4. ASSUME NEW x PROVE x \in AllOf(P) <=> \E d \in Spots : x \in Elements(P[d])
  BY DEF AllOf
<1>5. ASSUME NEW x PROVE x \in AllOf(Q) <=> \E d \in Spots : x \in Elements(Q[d])
  BY DEF AllOf
<1>6. ASSUME NEW x
      PROVE  (\E d \in Spots : x \in Elements(Q[d]))
                <=> (\E d \in Spots : x \in Elements(P[d])) \/ x \in Elements(Q[a])
  BY <1>1
<1> QED BY <1>3, <1>4, <1>5, <1>6

(* A sequence of four places followed by the files. *)
LEMMA FourAndTheFiles ==
    ASSUME NEW S, NEW n \in Nat, NEW s \in Seq(S), Len(s) = 4, NEW F \in [1 .. n -> S]
    PROVE  /\ s \o F \in [1 .. n + 4 -> S]
           /\ (s \o F)[1] = s[1] /\ (s \o F)[2] = s[2]
           /\ (s \o F)[3] = s[3] /\ (s \o F)[4] = s[4]
<1>1. F \in Seq(S) /\ Len(F) = n
  OBVIOUS
<1>2. /\ s \o F \in Seq(S) /\ Len(s \o F) = Len(s) + Len(F)
      /\ \A i \in 1 .. Len(s) + Len(F) :
            (s \o F)[i] = IF i <= Len(s) THEN s[i] ELSE F[i - Len(s)]
  BY <1>1, ConcatProperties
<1> DEFINE P == s \o F
<1>3. P \in Seq(S) /\ Len(P) = n + 4
  BY <1>1, <1>2
<1>4. P \in [1 .. Len(P) -> S]
  BY <1>3, LenProperties
<1>5. \A i \in 1 .. 4 : P[i] = s[i]
  BY <1>1, <1>2
<1> QED BY <1>3, <1>4, <1>5

(* What is in each place.                                                 *)
LEMMA PlacesNow ==
    TypeOK => /\ Places \in Layouts
              /\ Places[Buf] = buf /\ Places[Src] = src /\ Places[Cache] = cache
              /\ Places[OutPlace] = out
              /\ \A k \in Slots :
                    Places[At(k)] = IF Saving /\ k = Source THEN <<>> ELSE file[k]
<1> SUFFICES ASSUME TypeOK
             PROVE  /\ Places \in Layouts
                    /\ Places[Buf] = buf /\ Places[Src] = src /\ Places[Cache] = cache
                    /\ Places[OutPlace] = out
                    /\ \A k \in Slots :
                          Places[At(k)] = IF Saving /\ k = Source THEN <<>> ELSE file[k]
  OBVIOUS
<1>1. \A i \in 1 .. Handles : i - 1 \in Slots
  BY HandlesAssumption DEF Slots
<1>2. PICK files \in [1 .. Handles -> Seq(Records)] :
        files = [i \in 1 .. Handles |-> IF Saving /\ i - 1 = Source THEN <<>> ELSE file[i - 1]]
  BY <1>1, EmptySeq DEF TypeOK
<1>3. \A k \in Slots : k + 1 \in 1 .. Handles /\ (k + 1) - 1 = k /\ (k + 1) + 4 = k + 5
  BY HandlesAssumption DEF Slots
<1>4. \A k \in Slots : files[k + 1] = IF Saving /\ k = Source THEN <<>> ELSE file[k]
  BY <1>2, <1>3
<1>5. /\ Places \in [1 .. Handles + 4 -> Seq(Records)]
      /\ Places[1] = buf /\ Places[2] = src /\ Places[3] = cache /\ Places[4] = out
      /\ \A i \in 1 .. Handles : Places[i + 4] = files[i]
  <2>0. PICK four : four = <<buf, src, cache, out>>
    OBVIOUS
  <2>1. Places = four \o files
    BY <1>2, <2>0 DEF Places
  <2>2. Handles \in Nat
    BY HandlesAssumption
  <2>3. /\ four \in Seq(Seq(Records)) /\ Len(four) = 4
        /\ four[1] = buf /\ four[2] = src /\ four[3] = cache /\ four[4] = out
    BY <2>0 DEF TypeOK
  <2> DEFINE Lists == Seq(Records)
  <2> HIDE DEF Lists
  <2>5. four \in Seq(Lists) /\ files \in [1 .. Handles -> Lists]
    BY <1>2, <2>3 DEF Lists
  <2>6. /\ four \o files \in [1 .. Handles + 4 -> Lists]
        /\ (four \o files)[1] = four[1] /\ (four \o files)[2] = four[2]
        /\ (four \o files)[3] = four[3] /\ (four \o files)[4] = four[4]
    BY <2>2, <2>3, <2>5, FourAndTheFiles
  <2>7. ASSUME NEW i \in 1 .. Handles
        PROVE  (four \o files)[i + 4] = files[i]
    <3>1. files \in Seq(Lists) /\ Len(files) = Handles
      BY <2>2, <2>5
    <3>2. (four \o files)[i + 4] =
             IF i + 4 <= Len(four) THEN four[i + 4] ELSE files[(i + 4) - Len(four)]
      <4>1. i + 4 \in 1 .. Len(four) + Len(files)
        BY <2>2, <2>3, <3>1
      <4> QED BY <2>5, <3>1, <4>1, ConcatProperties
    <3>3. ~ (i + 4 <= Len(four)) /\ (i + 4) - Len(four) = i
      BY <2>2, <2>3
    <3>4. (four \o files)[i + 4] = files[(i + 4) - Len(four)]
      BY <3>2, <3>3
    <3> QED BY <3>3, <3>4
  <2> QED BY <2>1, <2>3, <2>6, <2>7 DEF Lists
<1> QED BY <1>3, <1>4, <1>5 DEF Layouts, Spots, Buf, Src, Cache, OutPlace, At

(* ... and the same after a step. *)
LEMMA PlacesThen ==
    TypeOK' => /\ Places' \in Layouts
               /\ Places'[Buf] = buf' /\ Places'[Src] = src' /\ Places'[Cache] = cache'
               /\ Places'[OutPlace] = out'
               /\ \A k \in Slots :
                     Places'[At(k)] = IF Saving' /\ k = Source' THEN <<>> ELSE file'[k]
<1>1. (TypeOK => /\ Places \in Layouts
                 /\ Places[Buf] = buf /\ Places[Src] = src /\ Places[Cache] = cache
                 /\ Places[OutPlace] = out
                 /\ \A k \in Slots :
                       Places[At(k)] = IF Saving /\ k = Source THEN <<>> ELSE file[k])'
  BY PlacesNow, PTL
<1> QED BY <1>1

(* The numbers of the places. *)
LEMMA SpotsAre ==
    /\ Spots = {Buf, Src, Cache, OutPlace} \cup {At(k) : k \in Slots}
    /\ Buf # Src /\ Buf # Cache /\ Buf # OutPlace /\ Src # Cache /\ Src # OutPlace
    /\ Cache # OutPlace
    /\ \A k \in Slots : At(k) \notin {Buf, Src, Cache, OutPlace}
    /\ \A k, h \in Slots : k # h => At(k) # At(h)
<1>1. \A d \in Spots : d \in {1, 2, 3, 4} \/ (d - 5 \in Slots /\ d = (d - 5) + 5)
  BY HandlesAssumption DEF Spots, Slots
<1>2. Spots \subseteq {Buf, Src, Cache, OutPlace} \cup {At(k) : k \in Slots}
  BY <1>1 DEF Buf, Src, Cache, OutPlace, At
<1>3. {Buf, Src, Cache, OutPlace} \cup {At(k) : k \in Slots} \subseteq Spots
  <2>1. \A k \in Slots : At(k) \in Spots
    BY HandlesAssumption DEF Spots, Slots, At
  <2>2. Buf \in Spots /\ Src \in Spots /\ Cache \in Spots /\ OutPlace \in Spots
    BY HandlesAssumption DEF Spots, Buf, Src, Cache, OutPlace
  <2> QED BY <2>1, <2>2
<1>4. \A k \in Slots : At(k) \notin {Buf, Src, Cache, OutPlace}
  BY HandlesAssumption DEF Slots, Buf, Src, Cache, OutPlace, At
<1>5. \A k, h \in Slots : k # h => At(k) # At(h)
  BY HandlesAssumption DEF Slots, At
<1>6. /\ Buf # Src /\ Buf # Cache /\ Buf # OutPlace /\ Src # Cache /\ Src # OutPlace
      /\ Cache # OutPlace
  BY DEF Buf, Src, Cache, OutPlace
<1> QED BY <1>2, <1>3, <1>4, <1>5, <1>6

(* A record is written to the file of a save: through the cache, which is  *)
(* emptied into the file first when it is full.                            *)
LEMMA PutMoves ==
    ASSUME TypeOK, TypeOK', Apart(Places), Saving, Saving', cur' = cur, out' = out,
           NEW a \in {Buf, Src}, Places[a] # <<>>, Put(Head(Places[a])),
           Places'[a] = Tail(Places[a]),
           \A d \in {Buf, Src} \ {a} : Places'[d] = Places[d]
    PROVE  Apart(Places') /\ AllOf(Places') = AllOf(Places)
<1>P. PICK P, Q : P = Places /\ Q = Places'
  OBVIOUS
<1> DEFINE r == Head(P[a])
<1>1. /\ P \in Layouts /\ Q \in Layouts
      /\ a \in Spots /\ Cache \in Spots /\ cur \in Slots /\ At(cur) \in Spots
      /\ cur # Source /\ Source' = Source
  BY <1>P, PlacesNow, PlacesThen, SpotsAre, SourceNotLive DEF TypeOK, Source
<1>2. /\ P[Cache] = cache /\ P[At(cur)] = file[cur] /\ P[OutPlace] = out
      /\ \A k \in Slots : P[At(k)] = IF k = Source THEN <<>> ELSE file[k]
  BY <1>P, <1>1, PlacesNow
<1>3. /\ Q[Cache] = cache' /\ Q[At(cur)] = file'[cur] /\ Q[OutPlace] = out
      /\ \A k \in Slots : Q[At(k)] = IF k = Source THEN <<>> ELSE file'[k]
  BY <1>P, <1>1, PlacesThen
<1>4. a # Cache /\ a # At(cur) /\ Cache # At(cur) /\ r \in Records
  BY <1>P, <1>1, SpotsAre, HeadTailProperties DEF Layouts
<1>5. \A k \in Slots \ {cur} : file'[k] = file[k]
  BY DEF Put, Flushed, TypeOK
<1> HIDE DEF r
<1>6. \A d \in Spots \ {a, Cache, At(cur)} : Q[d] = P[d]
  <2>1. Buf \in {a, Cache, At(cur)} \/ Q[Buf] = P[Buf]
    BY <1>P
  <2>2. Src \in {a, Cache, At(cur)} \/ Q[Src] = P[Src]
    BY <1>P
  <2>3. Q[OutPlace] = P[OutPlace]
    BY <1>2, <1>3
  <2>4. \A k \in Slots : At(k) \in {a, Cache, At(cur)} \/ Q[At(k)] = P[At(k)]
    BY <1>2, <1>3, <1>5
  <2> QED BY <2>1, <2>2, <2>3, <2>4, SpotsAre
<1>7. CASE ~ CacheFull
  <2>1. Q[Cache] = Append(P[Cache], r) /\ Q[At(cur)] = P[At(cur)]
    BY <1>P, <1>2, <1>3, <1>7 DEF Put, r
  <2>2. \A d \in Spots \ {a, Cache} : Q[d] = P[d]
    BY <1>6, <2>1
  <2>3. Q[a] = Tail(P[a]) /\ P[a] # <<>> /\ Apart(P)
    BY <1>P
  <2>4. Apart(Q) /\ AllOf(Q) = AllOf(P)
    BY <1>1, <1>4, <2>1, <2>2, <2>3, MoveOne DEF r
  <2> QED BY <1>P, <2>4
<1>8. CASE CacheFull
  <2> DEFINE M == [P EXCEPT ![Cache] = <<>>, ![At(cur)] = P[At(cur)] \o P[Cache]]
  <2>1. /\ M \in Layouts
        /\ M[Cache] = <<>> /\ M[At(cur)] = P[At(cur)] \o P[Cache]
        /\ \A d \in Spots \ {Cache, At(cur)} : M[d] = P[d]
    BY <1>1, <1>4, ConcatProperties, EmptySeq DEF Layouts
  <2> HIDE DEF M
  <2>2. Apart(M) /\ AllOf(M) = AllOf(P)
    <3>1. Apart(P)
      BY <1>P
    <3> QED BY <1>1, <1>4, <2>1, <3>1, MoveAll
  <2>3. Q[Cache] = <<r>> /\ Q[At(cur)] = M[At(cur)]
    BY <1>P, <1>1, <1>2, <1>3, <1>8, <2>1 DEF Put, Flushed, r, TypeOK
  <2>4. Q[Cache] = Append(M[Cache], Head(M[a])) /\ M[a] = P[a]
    <3>1. Append(<<>>, r) = <<r>>
      BY <1>4
    <3>2. M[a] = P[a]
      BY <1>1, <1>4, <2>1
    <3> QED BY <2>1, <2>3, <3>1, <3>2 DEF r
  <2>5. \A d \in Spots \ {a, Cache} : Q[d] = M[d]
    BY <1>6, <2>1, <2>3
  <2>6. Q[a] = Tail(M[a]) /\ M[a] # <<>>
    BY <1>P, <2>4
  <2>7. Apart(Q) /\ AllOf(Q) = AllOf(M)
    <3>1. /\ M \in Layouts /\ Q \in Layouts /\ a \in Spots /\ Cache \in Spots /\ a # Cache
          /\ Q[Cache] = Append(M[Cache], Head(M[a])) /\ Apart(M)
      BY <1>1, <1>4, <2>1, <2>2, <2>4
    <3> QED BY <2>5, <2>6, <3>1, MoveOne
  <2> QED BY <1>P, <2>2, <2>7
<1> QED BY <1>7, <1>8

(* The cache is emptied into the file being written. *)
LEMMA FlushMoves ==
    ASSUME TypeOK, TypeOK', Apart(Places), Saving,
           UNCHANGED <<buf, cur, out>>, src' = src, cache' = <<>>,
           file'[cur] = Flushed[cur],
           \A k \in Slots \ {cur, Source} : file'[k] = file[k],
           Saving' \/ file'[Source] = <<>>
    PROVE  Apart(Places') /\ AllOf(Places') = AllOf(Places)
<1>P. PICK P, Q : P = Places /\ Q = Places'
  OBVIOUS
<1>1. /\ P \in Layouts /\ Q \in Layouts
      /\ Cache \in Spots /\ cur \in Slots /\ At(cur) \in Spots /\ Cache # At(cur)
      /\ Source \in Slots /\ cur # Source /\ Source' = Source
  BY <1>P, PlacesNow, PlacesThen, SpotsAre, SourceNotLive DEF TypeOK, Source
<1>2. /\ P[Cache] = cache /\ P[At(cur)] = file[cur]
      /\ \A k \in Slots : P[At(k)] = IF k = Source THEN <<>> ELSE file[k]
  BY <1>P, <1>1, PlacesNow
<1>3. /\ Q[Cache] = <<>> /\ Q[At(cur)] = file'[cur]
      /\ \A k \in Slots : Q[At(k)] = IF k = Source THEN <<>> ELSE file'[k]
  BY <1>P, <1>1, PlacesThen
<1>4. Q[Buf] = P[Buf] /\ Q[Src] = P[Src] /\ Q[OutPlace] = P[OutPlace]
  BY <1>P, PlacesNow, PlacesThen
<1>5. Q[At(cur)] = P[At(cur)] \o P[Cache]
  BY <1>1, <1>2, <1>3 DEF Flushed, TypeOK
<1>6. Apart(P)
  BY <1>P
<1>7. \A k \in Slots : At(k) \in {Cache, At(cur)} \/ Q[At(k)] = P[At(k)]
  BY <1>2, <1>3
<1>8. \A d \in Spots \ {Cache, At(cur)} : Q[d] = P[d]
  BY <1>4, <1>7, SpotsAre
<1>9. Apart(Q) /\ AllOf(Q) = AllOf(P)
  BY <1>1, <1>3, <1>5, <1>6, <1>8, MoveAll
<1> QED BY <1>P, <1>9

(* A round's records are new: their positions are those after the ones     *)
(* that were read before.                                                  *)
LEMMA LoadIsNew ==
    ASSUME TypeInv, OnceInv, Load
    PROVE  \E new \in SUBSET Records :
              /\ loaded' = loaded \cup new /\ loaded \cap new = {}
              /\ buf' \in Seq(Records) /\ Elements(buf') = new /\ Distinct(buf')
              /\ \A r \in loaded' : r.pos <= Cardinality(loaded')
<1>1. PICK n \in 0 .. MaxSegment : \E new \in NewRecords(n) :
              loaded' = loaded \cup new /\ buf' \in Arrangements(new, n)
  BY DEF Load
<1>2. PICK new \in NewRecords(n) : loaded' = loaded \cup new /\ buf' \in Arrangements(new, n)
  BY <1>1
<1>3. n \in Nat /\ Cardinality(loaded) \in Nat /\ IsFiniteSet(loaded)
  BY BoundsAssumption, FS_CardinalityType DEF TypeInv
<1>4. PICK ks \in [1 .. n -> Keys] :
         new = {[key |-> ks[i], pos |-> Cardinality(loaded) + i] : i \in 1 .. n}
  BY <1>2 DEF NewRecords
<1>5. new \in SUBSET Records
  BY <1>2, <1>3, NewRecordsType
<1>6. \A r \in new : r.pos > Cardinality(loaded) /\ r.pos <= Cardinality(loaded) + n
  BY <1>3, <1>4
<1>7. loaded \cap new = {}
  <2> SUFFICES ASSUME NEW r \in loaded, r \in new
               PROVE  FALSE
    OBVIOUS
  <2>1. r.pos \in Nat
    BY <1>5, Orders
  <2> QED BY <1>3, <1>6, <2>1 DEF OnceInv
<1>8. Cardinality(new) = n /\ IsFiniteSet(new)
  <2> DEFINE f == [i \in 1 .. n |-> [key |-> ks[i], pos |-> Cardinality(loaded) + i]]
  <2>1. f \in Surjection(1 .. n, new)
    BY <1>4 DEF Surjection
  <2>2. \A i, j \in 1 .. n : i # j => f[i].pos # f[j].pos
    BY <1>3
  <2>3. f \in Injection(1 .. n, new)
    BY <2>1, <2>2 DEF Injection, Surjection, IsInjective
  <2>4. IsFiniteSet(1 .. n) /\ Cardinality(1 .. n) = n
    BY <1>3, FS_Interval
  <2> QED BY <2>1, <2>3, <2>4, FS_Surjection
<1>9. Cardinality(loaded') = Cardinality(loaded) + n
  <2>1. Cardinality(loaded \cup new) = Cardinality(loaded) + n - Cardinality(loaded \cap new)
    BY <1>3, <1>8, FS_Union
  <2>2. Cardinality(loaded \cap new) = 0
    BY <1>7, FS_EmptySet
  <2> QED BY <1>2, <1>3, <2>1, <2>2
<1>10. \A r \in loaded' : r.pos <= Cardinality(loaded')
  <2> SUFFICES ASSUME NEW r \in loaded'
               PROVE  r.pos <= Cardinality(loaded) + n
    BY <1>9
  <2>1. r \in Records
    BY <1>2, <1>5 DEF TypeInv, TypeOK
  <2>2. r.pos \in Nat
    BY <2>1, Orders
  <2>3. CASE r \in loaded
    BY <1>3, <2>2, <2>3 DEF OnceInv
  <2> QED BY <1>2, <1>6, <2>3
<1>11. buf' \in Seq(Records) /\ Elements(buf') = new
  BY <1>2, <1>3, <1>5, ArrangementsType DEF Arrangements
<1>12. Distinct(buf')
  <2>1. \A i \in DOMAIN buf' : buf'[i] \in Records
    BY <1>11, LenProperties, ElementOfSeq
  <2>2. Ordered(buf', ByPosition)
    BY LoadOrders
  <2>3. DOMAIN buf' \subseteq Nat
    BY <1>11, LenProperties
  <2> SUFFICES ASSUME NEW i \in DOMAIN buf', NEW j \in DOMAIN buf', i < j
               PROVE  buf'[i] # buf'[j]
    BY <2>3 DEF Distinct
  <2>4. Before(buf'[i], buf'[j])
    BY <2>1, <2>2, Orders DEF Ordered
  <2>5. buf'[i].key \in Nat /\ buf'[i].pos \in Nat
    BY <2>1, Orders
  <2> QED BY <2>4, <2>5 DEF Before
<1> QED BY <1>2, <1>5, <1>7, <1>10, <1>11, <1>12

(* There are no records at the start.                                     *)
LEMMA OnceInvInit == Init => OnceInv
<1> SUFFICES ASSUME Init
             PROVE  OnceInv
  OBVIOUS
<1>1. TypeOK /\ loaded = {} /\ Cardinality(loaded) = 0 /\ pc = "load"
  BY TypeInvInit, FS_EmptySet DEF Init, TypeInv
<1>2. PICK P : P = Places
  OBVIOUS
<1>3. P \in Layouts /\ \A d \in Spots : P[d] = <<>>
  <2>1. /\ P[Buf] = <<>> /\ P[Src] = <<>> /\ P[Cache] = <<>> /\ P[OutPlace] = <<>>
        /\ \A k \in Slots : P[At(k)] = <<>>
    BY <1>1, <1>2, PlacesNow DEF Init
  <2> QED BY <1>1, <1>2, <2>1, PlacesNow, SpotsAre
<1>4. DOMAIN P = Spots /\ Elements(<<>>) = {} /\ Distinct(<<>>)
  BY <1>3 DEF Layouts, Elements, Distinct
<1>5. Apart(P) /\ AllOf(P) = {}
  BY <1>3, <1>4 DEF Apart, AllOf
<1> QED BY <1>1, <1>2, <1>5 DEF OnceInv

(* Every step moves records between places, or takes in new ones.         *)
LEMMA OnceInvNext ==
    TypeInv /\ TypeInv' /\ RingInv /\ PhaseInv /\ OnceInv /\ [Next]_vars => OnceInv'
<1> SUFFICES ASSUME TypeInv, TypeOK, TypeOK', RingInv, PhaseInv, OnceInv, [Next]_vars
             PROVE  OnceInv'
  BY DEF TypeInv
<1>P. PICK P, Q : P = Places /\ Q = Places'
  OBVIOUS
<1>a. P \in Layouts /\ Q \in Layouts
  BY <1>P, PlacesNow, PlacesThen
<1>b. ASSUME loaded' = loaded, IOErrors, pc' = "failed"
      PROVE  OnceInv'
  BY <1>b DEF OnceInv
<1>c. ASSUME loaded' = loaded, pc # "failed", pc' # "failed",
             Apart(P) => Apart(Q) /\ AllOf(Q) = AllOf(P)
      PROVE  OnceInv'
  BY <1>P, <1>c DEF OnceInv
<1>d. ASSUME loaded' = loaded, pc # "failed", pc' # "failed", Places' = Places
      PROVE  OnceInv'
  BY <1>P, <1>c, <1>d
<1>1. CASE Load
  <2>1. PICK new \in SUBSET Records :
              /\ loaded' = loaded \cup new /\ loaded \cap new = {}
              /\ buf' \in Seq(Records) /\ Elements(buf') = new /\ Distinct(buf')
              /\ \A r \in loaded' : r.pos <= Cardinality(loaded')
    BY <1>1, LoadIsNew
  <2>2. /\ buf = <<>> /\ ~ Saving /\ ~ Saving' /\ pc # "failed" /\ pc' # "failed"
        /\ UNCHANGED <<src, cache, out, file>>
    BY <1>1 DEF Load, PhaseInv, Saving, tmp
  <2>3. P[Buf] = <<>> /\ Q[Buf] = buf' /\ Buf \in Spots
    BY <1>P, <2>2, PlacesNow, PlacesThen, SpotsAre
  <2>4. \A d \in Spots \ {Buf} : Q[d] = P[d]
    BY <1>P, <2>2, PlacesNow, PlacesThen, SpotsAre
  <2>5. Apart(P) /\ AllOf(P) \subseteq loaded /\ (~ IOErrors => AllOf(P) = loaded)
    BY <1>P, <2>2 DEF OnceInv
  <2>6. Apart(Q) /\ AllOf(Q) = AllOf(P) \cup new
    BY <1>a, <2>1, <2>3, <2>4, <2>5, MoveIn
  <2> QED BY <1>P, <2>1, <2>2, <2>5, <2>6 DEF OnceInv
<1>2. CASE LoadFails \/ CopyFails \/ CopyTailFails \/ OutputFails \/ SaveOpenFails
           \/ FlushNewFails \/ SaveCloseFails
  <2>1. loaded' = loaded /\ IOErrors /\ pc' = "failed"
    BY <1>2 DEF LoadFails, CopyFails, CopyTailFails, SaveFails, OutputFails, SaveOpenFails,
                FlushNewFails, SaveCloseFails
  <2> QED BY <1>b, <2>1
<1>3. CASE SaveNothing \/ TailDone \/ DirectDone \/ FinalDone
  <2>1. /\ loaded' = loaded /\ pc # "failed" /\ pc' # "failed"
        /\ UNCHANGED <<buf, src, cache, out, file, cur>> /\ (Saving' <=> Saving)
    BY <1>3 DEF SaveNothing, TailDone, DirectDone, FinalDone, NextRound, Saving, tmp
  <2>2. Places' = Places
    BY <2>1 DEF Places, Source, Succ
  <2> QED BY <1>d, <2>1, <2>2
<1>4. CASE SaveOpen
  <2> DEFINE s == Source'
  <2>1. /\ s = Succ(cur') /\ s \in Slots /\ cur' \in Slots /\ s # cur' /\ cur' = Source
        /\ ~ Saving /\ Saving' /\ src = <<>>
        /\ loaded' = loaded /\ pc # "failed" /\ pc' # "failed" /\ UNCHANGED <<buf, cache, out>>
    BY <1>4, SuccSlot DEF SaveOpen, TypeOK, Source, Saving, PhaseInv
  <2>2. file[cur'] = <<>> /\ (~ used[s] => file[s] = <<>>)
    <3>1. \A k \in Slots : IF k \in Live THEN Filled(k) ELSE Empty(k)
      BY <1>4 DEF SaveOpen, RingInv
    <3>2. cur' \notin Live
      BY <2>1, SourceNotLive
    <3>3. \A k \in Slots : ~ used[k] => k \notin Live
      BY <1>4 DEF SaveOpen, RingInv, Live
    <3> QED BY <2>1, <3>1, <3>2, <3>3 DEF Empty
  <2>3. /\ src' = file[s] /\ file'[cur'] = <<>>
        /\ \A k \in Slots \ {cur'} : file'[k] = file[k]
    <3>1. used'[s] = used[s]
      BY <1>4, <2>1 DEF SaveOpen, TypeOK
    <3> QED BY <1>4, <2>1, <2>2, <3>1 DEF SaveOpen, TypeOK
  <2> HIDE DEF s
  <2>4. /\ P[Src] = <<>> /\ P[At(s)] = file[s] /\ Q[Src] = file[s] /\ Q[At(s)] = <<>>
        /\ Src \in Spots /\ At(s) \in Spots /\ Src # At(s)
    BY <1>P, <2>1, <2>3, PlacesNow, PlacesThen, SpotsAre DEF s
  <2>5. \A d \in Spots \ {At(s), Src} : Q[d] = P[d]
    <3>1. Q[Buf] = P[Buf] /\ Q[Cache] = P[Cache] /\ Q[OutPlace] = P[OutPlace]
      BY <1>P, <2>1, PlacesNow, PlacesThen
    <3>2. \A k \in Slots \ {s} : Q[At(k)] = P[At(k)]
      BY <1>P, <2>1, <2>2, <2>3, PlacesNow, PlacesThen DEF s
    <3> QED BY <3>1, <3>2, SpotsAre
  <2>6. Q[Src] = P[Src] \o P[At(s)]
    BY <2>1, <2>4, ConcatEmptySeq DEF TypeOK
  <2>7. Apart(P) => Apart(Q) /\ AllOf(Q) = AllOf(P)
    BY <1>a, <2>4, <2>5, <2>6, MoveAll
  <2> QED BY <1>c, <2>1, <2>7
<1>5. CASE CopyOld \/ CopyNew \/ CopyTail
  <2>1. /\ loaded' = loaded /\ pc # "failed" /\ pc' # "failed" /\ Saving /\ Saving'
        /\ cur' = cur /\ out' = out
    BY <1>5 DEF CopyOld, CopyNew, CopyTail, Saving
  <2>2. P[Buf] = buf /\ P[Src] = src /\ Q[Buf] = buf' /\ Q[Src] = src' /\ Buf # Src
    BY <1>P, PlacesNow, PlacesThen, SpotsAre
  <2>3. \E a \in {Buf, Src} :
           /\ P[a] # <<>> /\ Put(Head(P[a])) /\ Q[a] = Tail(P[a])
           /\ \A d \in {Buf, Src} \ {a} : Q[d] = P[d]
    <3>1. CASE CopyOld \/ CopyTail
      BY <2>2, <3>1 DEF CopyOld, CopyTail
    <3>2. CASE CopyNew
      BY <2>2, <3>2 DEF CopyNew
    <3> QED BY <1>5, <3>1, <3>2
  <2>4. Apart(P) => Apart(Q) /\ AllOf(Q) = AllOf(P)
    BY <1>P, <2>1, <2>3, PutMoves
  <2> QED BY <1>c, <2>1, <2>4
<1>6. CASE FlushNew
  <2>1. /\ loaded' = loaded /\ pc # "failed" /\ pc' # "failed" /\ Saving /\ Saving'
        /\ UNCHANGED <<buf, cur, out, src>> /\ cache' = <<>> /\ file' = Flushed
        /\ \A k \in Slots \ {cur, Source} : file'[k] = file[k]
    BY <1>6 DEF FlushNew, Flushed, Saving, TypeOK
  <2>2. Apart(P) => Apart(Q) /\ AllOf(Q) = AllOf(P)
    BY <1>P, <2>1, FlushMoves
  <2> QED BY <1>c, <2>1, <2>2
<1>7. CASE SaveClose
  <2>1. /\ loaded' = loaded /\ pc # "failed" /\ pc' # "failed" /\ Saving
        /\ UNCHANGED <<buf, cur, out, src>> /\ cache' = <<>> /\ src = <<>>
        /\ file' = IF used[Source] THEN [Flushed EXCEPT ![Source] = <<>>] ELSE Flushed
    BY <1>7 DEF SaveClose, DropSource, NextRound, Saving, PhaseInv
  <2>2. Source \in Slots /\ Source # cur /\ (~ used[Source] => file[Source] = <<>>)
    <3>1. Source \in Slots /\ Source # cur /\ Source \notin Live
      BY SourceNotLive
    <3> QED BY <2>1, <3>1 DEF RingInv, Empty
  <2>3. /\ file'[cur] = Flushed[cur] /\ file'[Source] = <<>>
        /\ \A k \in Slots \ {cur, Source} : file'[k] = file[k]
    BY <2>1, <2>2 DEF Flushed, TypeOK
  <2>4. Apart(P) => Apart(Q) /\ AllOf(Q) = AllOf(P)
    BY <1>P, <2>1, <2>3, FlushMoves
  <2> QED BY <1>c, <2>1, <2>4
<1>8. CASE SaveCloseLoses
  <2>1. /\ loaded' = loaded /\ pc # "failed" /\ pc' # "failed" /\ Saving /\ ~ Saving' /\ IOErrors
        /\ UNCHANGED <<buf, cur, out, src>> /\ cache' = <<>> /\ src = <<>>
        /\ file' = IF used[Source] THEN [file EXCEPT ![Source] = <<>>] ELSE file
    BY <1>8 DEF SaveCloseLoses, DropSource, NextRound, Saving, PhaseInv
  <2>2. Source \in Slots /\ (~ used[Source] => file[Source] = <<>>)
    <3>1. Source \in Slots /\ Source # cur /\ Source \notin Live
      BY SourceNotLive
    <3> QED BY <2>1, <3>1 DEF RingInv, Empty
  <2>3. file'[Source] = <<>> /\ \A k \in Slots \ {Source} : file'[k] = file[k]
    BY <2>1, <2>2 DEF TypeOK
  <2>4. \A d \in Spots : Q[d] = P[d] \/ Q[d] = <<>>
    <3>1. Q[Buf] = P[Buf] /\ Q[Src] = P[Src] /\ Q[Cache] = <<>> /\ Q[OutPlace] = P[OutPlace]
      BY <1>P, <2>1, PlacesNow, PlacesThen
    <3>2. \A k \in Slots : Q[At(k)] = P[At(k)] \/ Q[At(k)] = <<>>
      BY <1>P, <2>1, <2>3, PlacesNow, PlacesThen
    <3> QED BY <3>1, <3>2, SpotsAre
  <2>5. Apart(P) => Apart(Q) /\ AllOf(Q) \subseteq AllOf(P)
    BY <1>a, <2>4, MoveOut
  <2> QED BY <1>P, <2>1, <2>5 DEF OnceInv
<1>9. CASE DirectEmit
  <2>1. /\ loaded' = loaded /\ pc # "failed" /\ pc' # "failed" /\ ~ Saving /\ ~ Saving'
        /\ buf # <<>> /\ buf' = Tail(buf) /\ out' = Append(out, Head(buf))
        /\ UNCHANGED <<src, cache, file>>
    BY <1>9 DEF DirectEmit, Saving, tmp
  <2>2. /\ P[Buf] = buf /\ Q[Buf] = Tail(buf)
        /\ P[OutPlace] = out /\ Q[OutPlace] = Append(out, Head(buf))
        /\ Buf \in Spots /\ OutPlace \in Spots /\ Buf # OutPlace
    BY <1>P, <2>1, PlacesNow, PlacesThen, SpotsAre
  <2>3. \A d \in Spots \ {Buf, OutPlace} : Q[d] = P[d]
    BY <1>P, <2>1, PlacesNow, PlacesThen, SpotsAre
  <2>4. Apart(P) => Apart(Q) /\ AllOf(Q) = AllOf(P)
    BY <1>a, <2>1, <2>2, <2>3, MoveOne
  <2> QED BY <1>c, <2>1, <2>4
<1>10. CASE FinalEmit
  <2>1. PICK k \in Searched : /\ out' = Append(out, Head(file[k]))
                              /\ file' = [file EXCEPT ![k] = Tail(@)]
    BY <1>10 DEF FinalEmit
  <2>2. /\ loaded' = loaded /\ pc # "failed" /\ pc' # "failed" /\ ~ Saving /\ ~ Saving'
        /\ UNCHANGED <<buf, src, cache>>
    BY <1>10 DEF FinalEmit, Saving
  <2>3. /\ k \in Slots /\ file[k] # <<>> /\ file'[k] = Tail(file[k])
        /\ \A h \in Slots \ {k} : file'[h] = file[h]
    BY <2>1 DEF Searched, Opened, TypeOK
  <2>4. /\ P[At(k)] = file[k] /\ Q[At(k)] = Tail(file[k])
        /\ P[OutPlace] = out /\ Q[OutPlace] = Append(out, Head(file[k]))
        /\ At(k) \in Spots /\ OutPlace \in Spots /\ At(k) # OutPlace
    BY <1>P, <2>1, <2>2, <2>3, PlacesNow, PlacesThen, SpotsAre
  <2>5. \A d \in Spots \ {At(k), OutPlace} : Q[d] = P[d]
    <3>1. Q[Buf] = P[Buf] /\ Q[Src] = P[Src] /\ Q[Cache] = P[Cache]
      BY <1>P, <2>2, PlacesNow, PlacesThen
    <3>2. \A h \in Slots \ {k} : Q[At(h)] = P[At(h)]
      BY <1>P, <2>2, <2>3, PlacesNow, PlacesThen
    <3> QED BY <3>1, <3>2, SpotsAre
  <2>6. Apart(P) => Apart(Q) /\ AllOf(Q) = AllOf(P)
    BY <1>a, <2>3, <2>4, <2>5, MoveOne
  <2> QED BY <1>c, <2>2, <2>6
<1>11. CASE Terminated \/ UNCHANGED vars
  <2>1. UNCHANGED <<pc, loaded, buf, src, cache, out, file, cur>>
    BY <1>11 DEF Terminated, vars
  <2>2. Places' = Places
    BY <2>1 DEF Places, Source, Succ, Saving
  <2> QED BY <2>1, <2>2 DEF OnceInv
<1> QED
  BY <1>1, <1>2, <1>3, <1>4, <1>5, <1>6, <1>7, <1>8, <1>9, <1>10, <1>11
     DEF Next, SaveStep, OutputStep

(* So no record is ever in two places.                                    *)
LEMMA OnceInvAlways == Spec => []OnceInv
BY OnceInvInit, OnceInvNext, TypeInvAlways, RingInvAlways, PhaseInvAlways, PTL DEF Spec

(* Places that are apart hold at most one copy of a record.               *)
LEMMA CopiesOf ==
    ASSUME TypeOK, Apart(Places), NEW r
    PROVE  /\ Cardinality(Copies(r)) <= 1
           /\ r \in AllOf(Places) => Cardinality(Copies(r)) = 1
<1>P. PICK P : P = Places
  OBVIOUS
<1>1. P \in Layouts /\ Apart(P)
  BY <1>P, PlacesNow
<1> DEFINE C == UNION {{p} \X {i \in DOMAIN P[p] : P[p][i] = r} : p \in DOMAIN P}
<1>2. \A c \in C : \E p \in DOMAIN P : \E i \in DOMAIN P[p] : c = <<p, i>> /\ P[p][i] = r
  OBVIOUS
<1>3. \A p \in DOMAIN P : \A i \in DOMAIN P[p] : P[p][i] = r => <<p, i>> \in C
  OBVIOUS
<1>4. C = Copies(r)
  BY <1>P DEF Copies
<1> HIDE DEF C
<1>5. ASSUME NEW c \in C, NEW e \in C
      PROVE  c = e
  <2>1. PICK p \in DOMAIN P : \E i \in DOMAIN P[p] : c = <<p, i>> /\ P[p][i] = r
    BY <1>2
  <2>2. PICK i \in DOMAIN P[p] : c = <<p, i>> /\ P[p][i] = r
    BY <2>1
  <2>3. PICK q \in DOMAIN P : \E j \in DOMAIN P[q] : e = <<q, j>> /\ P[q][j] = r
    BY <1>2
  <2>4. PICK j \in DOMAIN P[q] : e = <<q, j>> /\ P[q][j] = r
    BY <2>3
  <2>5. r \in Elements(P[p]) /\ r \in Elements(P[q])
    BY <2>2, <2>4 DEF Elements
  <2>6. p = q
    BY <1>1, <2>5 DEF Apart
  <2>7. i = j
    BY <1>1, <2>2, <2>4, <2>6 DEF Apart, Distinct
  <2> QED BY <2>2, <2>4, <2>6, <2>7
<1>6. CASE C = {}
  <2>1. r \notin AllOf(P)
    BY <1>3, <1>6 DEF AllOf, Elements
  <2>2. Cardinality(C) = 0
    BY <1>6, FS_EmptySet
  <2> QED BY <1>P, <1>4, <2>1, <2>2
<1>7. CASE C # {}
  <2>1. PICK c : C = {c}
    BY <1>5, <1>7
  <2>2. Cardinality(C) = 1
    BY <2>1, FS_Singleton
  <2> QED BY <1>4, <2>2
<1> QED BY <1>6, <1>7

(* Whatever fails, no record is written twice, through any number of turns *)
(* of the ring: job_save_tempfile's failing paths lose records, and repeat *)
(* none.                                                                   *)
THEOREM NoRecordTwice == Spec => []NeverTwice
<1>1. TypeInv /\ OnceInv => NeverTwice
  BY CopiesOf DEF TypeInv, OnceInv, NeverTwice
<1> QED BY <1>1, TypeInvAlways, OnceInvAlways, PTL

(* As long as no read or write fails, every record read is in exactly one  *)
(* place, whatever the number of files and the sizes of the memory and of  *)
(* the cache.                                                              *)
THEOREM EveryRecordOnce ==
    ASSUME ~ IOErrors
    PROVE  Spec => []ExactlyOnce
<1>1. TypeInv /\ OnceInv => ExactlyOnce
  BY CopiesOf DEF TypeInv, OnceInv, ExactlyOnce
<1> QED BY <1>1, TypeInvAlways, OnceInvAlways, PTL

-----------------------------------------------------------------------------
(* The order of records with equal keys. *)

(* The ring has not turned at the start.                                  *)
LEMMA StableInvInit == Init => StableInv
<1> SUFFICES ASSUME Init
             PROVE  src = <<>> /\ OrderInv(ByPosition)
  BY DEF StableInv
<1>1. cur \in Slots /\ file[cur] = <<>>
  BY ZeroSlot DEF Init
<1>2. Elements(<<>>) = {}
  BY DEF Elements
<1> QED BY <1>1, <1>2, OrderedEmpty DEF Init, OrderInv, Upto, Saving

(* Once used, a file of the ring stays so; and no file is mapped for       *)
(* reading before the first one has been used.                             *)
LEMMA NotTurned ==
    ASSUME TypeInv, RingInv, PhaseInv, StableInv, [Next]_vars, ~ used'[0]
    PROVE  ~ used[0] /\ src = <<>> /\ src' = <<>>
<1> USE DEF TypeInv
<1>1. ~ used[0]
  <2>1. CASE SaveOpen \/ SaveOpenFails
    BY <2>1, ZeroSlot DEF SaveOpen, SaveOpenFails, TypeOK
  <2>2. CASE ~ (SaveOpen \/ SaveOpenFails)
    <3>1. used' = used
      BY <2>2 DEF Next, SaveStep, OutputStep, Load, LoadFails, SaveNothing, CopyOld, CopyNew,
         CopyFails, FlushNew, FlushNewFails, CopyTail, CopyTailFails, TailDone, SaveClose,
         SaveCloseLoses, SaveCloseFails, SaveFails, DirectEmit, DirectDone, FinalEmit, FinalDone,
         OutputFails, Terminated, vars, tmp
    <3> QED BY <3>1
  <2> QED BY <2>1, <2>2
<1>2. src = <<>>
  BY <1>1 DEF StableInv
<1>3. src' = <<>>
  <2>1. CASE SaveOpen
    <3>1. /\ cur' = Succ(cur) /\ cur \in Slots /\ cur' \in Slots /\ Succ(cur') \in Slots
          /\ used' = [used EXCEPT ![cur'] = TRUE]
          /\ \A k \in Slots : used[k] <=> k \in 1 .. cur
      BY <1>1, <2>1, SuccSlot DEF SaveOpen, RingInv, TypeOK
    <3>2. cur' # 0
      BY <3>1 DEF TypeOK
    <3>3. Succ(cur') \notin 1 .. cur
      BY <3>1, <3>2, HandlesAssumption DEF Succ, Slots
    <3> QED BY <2>1, <3>1, <3>3 DEF SaveOpen
  <2>2. CASE SaveOpenFails
    BY <1>2, <2>2 DEF SaveOpenFails
  <2>3. CASE ~ (SaveOpen \/ SaveOpenFails)
    <3>1. src' = src \/ src' = <<>> \/ src # <<>>
      BY <2>3 DEF Next, SaveStep, OutputStep, Load, LoadFails, SaveNothing, CopyOld, CopyNew,
         CopyFails, FlushNew, FlushNewFails, CopyTail, CopyTailFails, TailDone, SaveClose,
         SaveCloseLoses, SaveCloseFails, SaveFails, DirectEmit, DirectDone, FinalEmit, FinalDone,
         OutputFails, Terminated, vars, tmp, DropSource
    <3> QED BY <1>2, <3>1
  <2> QED BY <2>1, <2>2, <2>3
<1> QED BY <1>1, <1>2, <1>3

(* Before the ring turns, only positions compared rightly decide.         *)
LEMMA StableInvNext ==
    /\ TypeInv /\ RingInv /\ EverySourceSearched /\ PhaseInv /\ OnceInv /\ StableInv
    /\ [Next]_vars
    => StableInv'
<1> SUFFICES ASSUME TypeInv, RingInv, EverySourceSearched, PhaseInv, OnceInv, StableInv,
                    [Next]_vars, ~ used'[0]
             PROVE  src' = <<>> /\ (FixedLength => OrderInv(ByPosition)')
  BY DEF StableInv
<1>1. ~ used[0] /\ src = <<>> /\ src' = <<>>
  BY NotTurned
<1>2. ASSUME FixedLength
      PROVE  OrderInv(ByPosition)'
  <2>1. TypeOK /\ OrderInv(ByPosition)
    BY <1>1, <1>2 DEF TypeInv, StableInv
  <2>2. Load => Ordered(buf', ByPosition)
    BY LoadOrders
  <2>3. ~ CopyOld /\ ~ (CopyNew /\ src # <<>>)
    BY <1>1 DEF CopyOld
  <2>4. ASSUME FinalEmit
        PROVE  \E k \in Opened :
               /\ \A h \in Opened \ {k} : <<Head(file[k]), Head(file[h])>> \in ByPosition
               /\ out' = Append(out, Head(file[k]))
               /\ file' = [file EXCEPT ![k] = Tail(@)]
    <3>1. PICK k \in Searched :
           /\ \A h \in Searched : Beats(k, h)
           /\ out' = Append(out, Head(file[k]))
           /\ file' = [file EXCEPT ![k] = Tail(@)]
      BY <2>4 DEF FinalEmit
    <3>2. Searched = Opened /\ pc = "final" /\ ~ Saving
      BY <2>4 DEF FinalEmit, EverySourceSearched, Saving
    <3>3. \A h \in Opened : /\ h \in Slots /\ Head(file[h]) \in Records
                            /\ Head(file[h]) \in Elements(file[h])
      BY <2>1, HeadTailProperties, ElementsOf DEF Opened, TypeOK
    <3>4. ASSUME NEW h \in Opened \ {k}
          PROVE  <<Head(file[k]), Head(file[h])>> \in ByPosition
      <4> DEFINE a == Head(file[k])
                 b == Head(file[h])
      <4>1. a # b
        <5>P. PICK P : P = Places
          OBVIOUS
        <5>1. /\ P \in Layouts /\ Apart(P)
              /\ P[At(k)] = file[k] /\ P[At(h)] = file[h]
              /\ At(k) \in Spots /\ At(h) \in Spots /\ At(k) # At(h)
          BY <2>1, <3>2, <3>3, <5>P, PlacesNow, SpotsAre DEF OnceInv
        <5>2. Elements(file[k]) \cap Elements(file[h]) = {}
          BY <5>1 DEF Apart, Layouts
        <5> QED BY <3>2, <3>3, <5>2
      <4>2. ~ Before(b, a)
        BY <1>2, <3>1, <3>2 DEF Beats
      <4>3. a \in Records /\ b \in Records
        BY <3>2, <3>3
      <4> HIDE DEF a, b
      <4>4. a.key # b.key \/ a.pos # b.pos
        BY <4>1, <4>3 DEF Records, Record
      <4>5. a.key \in Nat /\ b.key \in Nat /\ a.pos \in Nat /\ b.pos \in Nat
        BY <4>3, Orders
      <4>6. Before(a, b)
        BY <4>2, <4>4, <4>5 DEF Before
      <4> QED BY <4>3, <4>6, Orders DEF a, b
    <3> QED BY <3>1, <3>2, <3>4
  <2> QED BY <2>1, <2>2, <2>3, <2>4, ByPositionTransitive, OrderInvNext
<1> QED BY <1>1, <1>2

(* So until the ring has turned the order by position holds.              *)
LEMMA StableInvAlways == Spec => []StableInv
BY StableInvInit, StableInvNext, TypeInvAlways, RingInvAlways, EveryFileIsSearched,
   PhaseInvAlways, OnceInvAlways, PTL DEF Spec

(* The position key of job_compare_qsort and job_IdentifyBuf keeps records *)
(* with equal keys in the order of reading as long as the ring has not     *)
(* turned, for any number of files: up to Handles - 1 rounds that write.   *)
THEOREM StableUntilTurned == Spec => []StableWithoutReuse
<1>1. TypeInv /\ StableInv => StableWithoutReuse
  BY SortedMeansOrdered DEF TypeInv, TypeOK, StableInv, OrderInv, StableWithoutReuse
<1> QED BY <1>1, TypeInvAlways, StableInvAlways, PTL

-----------------------------------------------------------------------------
(* The refinement of SortedOutput. *)

(* What is held is what was read and not yet written; it is in the buffer, *)
(* in the source of a merge, in the cache or in a file.                    *)
LEMMA HeldIs ==
    ASSUME TypeOK, OnceInv, ~ IOErrors
    PROVE  /\ Held = loaded \ Elements(out) /\ Elements(out) \subseteq loaded
           /\ Elements(buf) \subseteq Held
           /\ ~ Saving => \A k \in Slots : Elements(file[k]) \subseteq Held
           /\ ~ Saving => \A q \in Held : \/ q \in Elements(buf) \cup Elements(src)
                                          \/ q \in Elements(cache)
                                          \/ \E k \in Slots : q \in Elements(file[k])
<1>P. PICK P : P = Places
  OBVIOUS
<1>1. /\ P \in Layouts /\ DOMAIN P = Spots /\ Apart(P) /\ AllOf(P) = loaded
      /\ P[Buf] = buf /\ P[Src] = src /\ P[Cache] = cache /\ P[OutPlace] = out
      /\ ~ Saving => \A k \in Slots : P[At(k)] = file[k]
      /\ OutPlace \in Spots /\ Buf \in Spots /\ Buf # OutPlace
  BY <1>P, PlacesNow, SpotsAre DEF OnceInv, Layouts
<1>2. Held = UNION {Elements(P[d]) : d \in Spots \ {OutPlace}}
  BY <1>P, <1>1 DEF Held
<1>3. Held = loaded \ Elements(out) /\ Elements(out) \subseteq loaded
  <2>1. \A d \in Spots \ {OutPlace} : Elements(P[d]) \cap Elements(out) = {}
    BY <1>1 DEF Apart
  <2>2. loaded = UNION {Elements(P[d]) : d \in Spots}
    BY <1>1 DEF AllOf
  <2> QED BY <1>1, <1>2, <2>1, <2>2
<1>4. \A d \in Spots \ {OutPlace} : Elements(P[d]) \subseteq Held
  BY <1>2
<1>5. \A q \in Held : \E d \in Spots \ {OutPlace} : q \in Elements(P[d])
  BY <1>2
<1>6. ASSUME ~ Saving, NEW k \in Slots
      PROVE  At(k) \in Spots \ {OutPlace} /\ P[At(k)] = file[k]
  BY <1>1, <1>6, SpotsAre
<1>7. ASSUME ~ Saving, NEW q \in Held
      PROVE  \/ q \in Elements(buf) \cup Elements(src)
             \/ q \in Elements(cache)
             \/ \E k \in Slots : q \in Elements(file[k])
  BY <1>1, <1>5, <1>6, <1>7, SpotsAre
<1> QED BY <1>1, <1>3, <1>4, <1>6, <1>7

(* The first of these as an implication, to be said of the next state.    *)
LEMMA HeldIsNow == TypeOK /\ OnceInv /\ ~ IOErrors => Held = loaded \ Elements(out)
BY HeldIs

(* A step of the job is a step of SortedOutput or changes nothing there. *)
LEMMA StepImplements ==
    ASSUME ~ IOErrors, TypeInv, TypeInv', PhaseInv, OnceInv, OnceInv', KeyInv, EverySourceSearched,
           [Next]_vars
    PROVE  [Abstract!Next]_(Abstract!vars)
<1> USE DEF TypeInv
<1>1. /\ Held = loaded \ Elements(out) /\ Elements(out) \subseteq loaded
      /\ Held' = loaded' \ Elements(out')
  <2>1. Held = loaded \ Elements(out) /\ Elements(out) \subseteq loaded
    BY HeldIs
  <2>2. (TypeOK /\ OnceInv /\ ~ IOErrors => Held = loaded \ Elements(out))'
    BY HeldIsNow, PTL
  <2> QED BY <2>1, <2>2
<1>2. ASSUME loaded' = loaded, out' = out, Phase' = Phase
      PROVE  UNCHANGED Abstract!vars
  BY <1>1, <1>2 DEF Abstract!vars
<1>3. ASSUME loaded \subseteq loaded', out' = out, Phase = "read", Phase' \in {"read", "write"}
      PROVE  Abstract!Read
  <2>1. Held \subseteq Held' /\ Held' \ Held \subseteq Records
    BY <1>1, <1>3 DEF TypeOK
  <2> QED BY <1>3, <2>1 DEF Abstract!Read, Abstract!Record, Records, Record
<1>4. ASSUME NEW r \in Held, \A q \in Held : r.key <= q.key, loaded' = loaded,
             out' = Append(out, r), Phase = "write", Phase' = Phase
      PROVE  Abstract!Emit(r)
  <2>1. r \in Records
    BY <1>1 DEF TypeOK
  <2>2. Elements(out') = Elements(out) \cup {r}
    BY <1>4, <2>1, ElementsAppend DEF TypeOK
  <2>3. Held' = Held \ {r}
    BY <1>1, <1>4, <2>2
  <2> QED BY <1>4, <2>3 DEF Abstract!Emit
<1>5. ASSUME Held = {}, loaded' = loaded, out' = out, Phase = "write", Phase' = "done"
      PROVE  Abstract!Finish
  BY <1>1, <1>5 DEF Abstract!Finish
<1>6. CASE Load
  BY <1>3, <1>6 DEF Load, Phase, Abstract!Next
<1>7. CASE SaveNothing \/ SaveClose
  <2>1. loaded' = loaded /\ out' = out /\ pc \in {"save", "close"} /\ pc' \in {"load", "final"}
    BY <1>7 DEF SaveNothing, SaveClose, NextRound
  <2> QED BY <1>3, <2>1 DEF Phase, Abstract!Next
<1>8. CASE SaveOpen \/ CopyOld \/ CopyNew \/ FlushNew \/ CopyTail \/ TailDone
  <2>1. /\ loaded' = loaded /\ out' = out /\ pc \in {"save", "merge", "tail"}
        /\ pc' \in {"merge", "tail", "close"}
    BY <1>8 DEF SaveOpen, CopyOld, CopyNew, FlushNew, CopyTail, TailDone
  <2> QED BY <1>2, <2>1 DEF Phase
<1>9. CASE LoadFails \/ CopyFails \/ CopyTailFails \/ OutputFails \/ SaveOpenFails
           \/ FlushNewFails \/ SaveCloseFails \/ SaveCloseLoses
  BY <1>9 DEF LoadFails, CopyFails, CopyTailFails, SaveFails, OutputFails, SaveOpenFails,
              FlushNewFails, SaveCloseFails, SaveCloseLoses
<1>10. CASE DirectEmit \/ DirectDone
  <2>1. /\ loaded' = loaded /\ pc = "direct" /\ ~ Saving /\ Phase = "write"
        /\ src = <<>> /\ cache = <<>> /\ \A k \in Slots : file[k] = <<>>
    BY <1>10 DEF DirectEmit, DirectDone, PhaseInv, Saving, Phase
  <2>2. Held = Elements(buf)
    <3>1. Elements(<<>>) = {}
      BY DEF Elements
    <3> QED BY <2>1, <3>1, HeldIs
  <2>3. CASE DirectEmit
    <3>1. buf # <<>> /\ out' = Append(out, Head(buf)) /\ Phase' = Phase
      BY <2>3 DEF DirectEmit, Phase
    <3>2. /\ Head(buf) \in Records /\ Head(buf) \in Elements(buf)
          /\ Elements(buf) = {Head(buf)} \cup Elements(Tail(buf))
          /\ Elements(buf) \subseteq Records
          /\ Upto({Head(buf)}, Elements(Tail(buf)), ByKey)
      BY <3>1, HeadTailProperties, ElementsOf, ElementsTail, OrderedTail
         DEF TypeOK, KeyInv, OrderInv
    <3>3. \A q \in Held : Head(buf).key <= q.key
      <4> SUFFICES ASSUME NEW q \in Held
                   PROVE  Head(buf).key <= q.key
        OBVIOUS
      <4>1. q \in Records /\ (q = Head(buf) \/ <<Head(buf), q>> \in ByKey)
        BY <2>2, <3>2 DEF Upto
      <4>2. Head(buf).key \in Nat /\ q.key \in Nat
        BY <3>2, <4>1, Orders
      <4> QED BY <3>2, <4>1, <4>2, Orders
    <3> QED BY <1>4, <2>1, <2>2, <3>1, <3>2, <3>3 DEF Abstract!Next
  <2>4. CASE DirectDone
    <3>1. buf = <<>> /\ out' = out /\ Phase' = "done"
      BY <2>4 DEF DirectDone, Phase
    <3>2. Held = {}
      BY <2>2, <3>1 DEF Elements
    <3> QED BY <1>5, <2>1, <3>1, <3>2 DEF Abstract!Next
  <2> QED BY <1>10, <2>3, <2>4
<1>11. CASE FinalEmit \/ FinalDone
  <2>1. /\ loaded' = loaded /\ pc = "final" /\ ~ Saving /\ Phase = "write"
        /\ buf = <<>> /\ src = <<>> /\ cache = <<>>
    BY <1>11 DEF FinalEmit, FinalDone, PhaseInv, Saving, Phase
  <2>2. /\ \A k \in Slots : Elements(file[k]) \subseteq Held
        /\ \A q \in Held : \E h \in Slots : q \in Elements(file[h])
    <3>1. Elements(<<>>) = {}
      BY DEF Elements
    <3> QED BY <2>1, <3>1, HeldIs
  <2>3. \A h \in Slots : h \in Opened \/ Elements(file[h]) = {}
    BY <2>1 DEF PhaseInv, Opened, Elements
  <2>4. CASE FinalEmit
    <3>1. PICK k \in Searched : /\ \A h \in Searched : Beats(k, h)
                                /\ out' = Append(out, Head(file[k]))
      BY <2>4 DEF FinalEmit
    <3>2. Searched = Opened /\ Phase' = Phase
      BY <2>1, <2>4 DEF FinalEmit, EverySourceSearched, Phase
    <3>3. \A h \in Opened : /\ h \in Slots /\ Head(file[h]) \in Records
                            /\ Head(file[h]) \in Elements(file[h])
                            /\ Elements(file[h]) = {Head(file[h])} \cup Elements(Tail(file[h]))
                            /\ Elements(file[h]) \subseteq Records
                            /\ Upto({Head(file[h])}, Elements(Tail(file[h])), ByKey)
      BY HeadTailProperties, ElementsOf, ElementsTail, OrderedTail
         DEF Opened, TypeOK, KeyInv, OrderInv
    <3>4. \A h \in Opened : Head(file[k]).key <= Head(file[h]).key
      <4> SUFFICES ASSUME NEW h \in Opened
                   PROVE  Head(file[k]).key <= Head(file[h]).key
        OBVIOUS
      <4>1. Head(file[k]).key \in Nat /\ Head(file[h]).key \in Nat
        BY <3>2, <3>3, Orders
      <4> QED BY <3>1, <3>2, <4>1 DEF Beats, MayPrecede, Before
    <3>5. \A q \in Held : Head(file[k]).key <= q.key
      <4> SUFFICES ASSUME NEW q \in Held
                   PROVE  Head(file[k]).key <= q.key
        OBVIOUS
      <4>1. PICK h \in Opened : q \in Elements(file[h])
        BY <2>2, <2>3
      <4>2. q \in Records /\ (q = Head(file[h]) \/ <<Head(file[h]), q>> \in ByKey)
        BY <3>3, <4>1 DEF Upto
      <4>3. Head(file[k]).key \in Nat /\ Head(file[h]).key \in Nat /\ q.key \in Nat
        BY <3>2, <3>3, <4>2, Orders
      <4>4. Head(file[h]).key <= q.key
        <5>1. CASE q = Head(file[h])
          BY <4>3, <5>1
        <5>2. CASE <<Head(file[h]), q>> \in ByKey
          BY <5>2 DEF ByKey
        <5> QED BY <4>2, <5>1, <5>2
      <4> QED BY <3>4, <4>3, <4>4
    <3>6. Head(file[k]) \in Held
      BY <2>2, <3>2, <3>3
    <3> QED BY <1>4, <2>1, <3>1, <3>2, <3>5, <3>6 DEF Abstract!Next
  <2>5. CASE FinalDone
    <3>1. Opened = {} /\ out' = out /\ Phase' = "done"
      BY <2>5 DEF FinalDone, Phase
    <3>2. Held = {}
      BY <2>2, <2>3, <3>1
    <3> QED BY <1>5, <2>1, <3>1, <3>2 DEF Abstract!Next
  <2> QED BY <1>11, <2>4, <2>5
<1>12. CASE Terminated \/ UNCHANGED vars
  <2>1. UNCHANGED <<loaded, out, pc>>
    BY <1>12 DEF Terminated, vars
  <2> QED BY <1>2, <2>1 DEF Phase
<1> QED
  BY <1>6, <1>7, <1>8, <1>9, <1>10, <1>11, <1>12 DEF Next, SaveStep, OutputStep

(* As long as no read or write fails, the job is a sort, for every number  *)
(* of temporary files and every size of memory and cache: it reads, then   *)
(* writes each record it read once, always one with the least key of those *)
(* it still holds, and is done when it holds none.                         *)
THEOREM JobImplementsSort ==
    ASSUME ~ IOErrors
    PROVE  Spec => ImplementsSort
<1>1. Init => Abstract!Init
  <2> SUFFICES ASSUME Init
               PROVE  Abstract!Init
    OBVIOUS
  <2>1. TypeOK /\ OnceInv /\ loaded = {} /\ out = <<>> /\ pc = "load"
    BY TypeInvInit, OnceInvInit DEF Init, TypeInv
  <2>2. Held = {}
    BY <2>1, HeldIs
  <2> QED BY <2>1, <2>2 DEF Abstract!Init, Phase
<1>2. /\ TypeInv /\ TypeInv' /\ PhaseInv /\ OnceInv /\ OnceInv' /\ KeyInv
      /\ EverySourceSearched /\ [Next]_vars
      => [Abstract!Next]_(Abstract!vars)
  BY StepImplements
<1> QED
  BY <1>1, <1>2, TypeInvAlways, PhaseInvAlways, OnceInvAlways, KeyInvAlways,
     EveryFileIsSearched, PTL DEF Spec, ImplementsSort, Abstract!Spec
=============================================================================
