---------------------------- MODULE GcTempFiles ----------------------------
(***************************************************************************)
(* The sort phase of one GCSORT job (src/tools/GCSORT/job.c): job_sort's   *)
(* loop of load, sort and save rounds; the ring of temporary files that    *)
(* job_save_tempfile rotates through when the input does not fit in        *)
(* memory; and the two ways to the output, job_save_out (one round) and    *)
(* job_save_tempfinal (a merge of the temporary files).                    *)
(*                                                                         *)
(* Without SUM, OUTREC, OUTFIL and E35, which act on a record after its    *)
(* place in the order is decided.                                          *)
(***************************************************************************)
EXTENDS GcRecords, FiniteSets

CONSTANTS
    Keys,         \* the sort keys
    Handles,      \* MAX_HANDLE_TEMPFILE: the number of temporary files
    MaxRecords,   \* bound: records in the input
    MaxSegment,   \* bound: records that fit in memory at once
    CacheSize,    \* MAX_SIZE_CACHE_WRITE, in records
    FixedLength,  \* every record is as long as the output record
    IOErrors      \* a read, an open or a write may fail

ASSUME KeysAssumption == Keys \subseteq Nat
ASSUME HandlesAssumption == Handles \in Nat /\ Handles >= 2
ASSUME BoundsAssumption ==
    MaxRecords \in Nat /\ MaxSegment \in Nat \ {0} /\ CacheSize \in Nat \ {0}
ASSUME SwitchesAssumption == FixedLength \in BOOLEAN /\ IOErrors \in BOOLEAN

VARIABLES
    pc,      \* where job_sort is
    loaded,  \* history: the records read so far
    buf,     \* buffertSort, sorted; while saving, the records from i on
    seg,     \* bIsPresentSegmentation
    more,    \* nContinueSrtTmp: the load stopped because memory was full
    file,    \* the contents of the temporary files
    count,   \* nCountSrt
    used,    \* array_FileTmpHandle # -1: the file was opened once
    cur,     \* nIndextmp: the file being written, or last written
    src,     \* what is left of the mapped source file, its pending record included
    skip,    \* bSkip: the head of src was read and waits to be written
    cache,   \* bufferwriteglobal: records not yet handed to write(2)
    out      \* the output file

vars == <<pc, loaded, buf, seg, more, file, count, used, cur, src, skip, cache, out>>
tmp  == <<file, count, used, cur, src, skip, cache>>

Slots == 0 .. Handles - 1
Succ(k) == IF k + 1 >= Handles THEN 0 ELSE k + 1

(* Mutation: the source is the file written before this one. *)
SourceBehind == IF cur = 0 THEN Handles - 1 ELSE cur - 1

Source == Succ(cur)            \* nIndextmp2
Saving == pc \in {"merge", "tail", "close"}

Init ==
    /\ pc = "load" /\ loaded = {} /\ buf = <<>> /\ seg = FALSE /\ more = FALSE
    /\ file = [k \in Slots |-> <<>>]
    /\ count = [k \in Slots |-> 0]
    /\ used = [k \in Slots |-> FALSE]
    /\ cur = 0 /\ src = <<>> /\ skip = FALSE /\ cache = <<>> /\ out = <<>>

-----------------------------------------------------------------------------
(* job_sort: one round's load and sort. *)

(* Mutation: positions counted from 0. *)
NewRecordsFromZero(n) ==
    LET at == Cardinality(loaded)
    IN  {{[key |-> ks[i], pos |-> at + i - 1] : i \in 1 .. n} : ks \in [1 .. n -> Keys]}

(* n records of any keys, at the next positions of the input. *)
NewRecords(n) ==
    LET at == Cardinality(loaded)
    IN {{[key |-> ks[i], pos |-> at + i] : i \in 1 .. n} : ks \in [1 .. n -> Keys]}

(* job_loadFiles reads until the end of the input or until memory is full  *)
(* (-2); job_sort_data sorts what was read.                                *)
Load ==
    /\ pc = "load"
    /\ \E n \in 0 .. MaxSegment, full \in BOOLEAN :
         /\ Cardinality(loaded) + n <= MaxRecords
         /\ full => n > 0
         /\ \E new \in NewRecords(n) :
              /\ loaded' = loaded \cup new
              /\ buf' \in Arrangements(new, n)
         /\ more' = full
         /\ seg' = (seg \/ full)
    /\ pc' = IF seg' THEN "save" ELSE "direct"
    /\ UNCHANGED <<tmp, out>>

(* job_loadFiles returns -1: an input file cannot be opened or read. *)
LoadFails ==
    /\ pc = "load"
    /\ IOErrors
    /\ pc' = "failed"
    /\ UNCHANGED <<loaded, buf, seg, more, tmp, out>>

(* Mutation: the rounds never end. *)
NextRoundAlways == "load"

NextRound == IF more THEN "load" ELSE "final"

-----------------------------------------------------------------------------
(* write_buffered and write_buffered_final on the file being written. *)

CacheFull == Len(cache) >= CacheSize

Flushed == [file EXCEPT ![cur] = @ \o cache]

Put(r) ==
    /\ cache' = IF CacheFull THEN <<r>> ELSE Append(cache, r)
    /\ file' = IF CacheFull THEN Flushed ELSE file

(* Mutation: the source is not truncated. *)
DropSourceKept(f) ==
    /\ file' = f
    /\ UNCHANGED count
    /\ src' = <<>> /\ skip' = FALSE /\ cache' = <<>>

(* Mutation: the count of the source is not reset. *)
DropSourceCounted(f) ==
    /\ file' = IF used[Source] THEN [f EXCEPT ![Source] = <<>>] ELSE f
    /\ UNCHANGED count
    /\ src' = <<>> /\ skip' = FALSE /\ cache' = <<>>

(* job_save_exit: the source is closed, opened again with O_TRUNC, closed. *)
DropSource(f) ==
    /\ file' = IF used[Source] THEN [f EXCEPT ![Source] = <<>>] ELSE f
    /\ count' = IF used[Source] THEN [count EXCEPT ![Source] = 0] ELSE count
    /\ src' = <<>> /\ skip' = FALSE /\ cache' = <<>>

SaveFails ==
    /\ IOErrors
    /\ pc' = "failed"
    /\ UNCHANGED <<loaded, buf, seg, more, tmp, out>>

-----------------------------------------------------------------------------
(* job_save_tempfile *)

(* Nothing was loaded in this round: nothing to write. *)
SaveNothing ==
    /\ pc = "save"
    /\ buf = <<>>
    /\ pc' = NextRound
    /\ UNCHANGED <<loaded, buf, seg, more, tmp, out>>

(* The next file of the ring is truncated and opened for writing; the one  *)
(* after it, once it has been used, is mapped for reading.                 *)
SaveOpen ==
    /\ pc = "save"
    /\ buf # <<>>
    /\ cur' = Succ(cur)
    /\ file' = [file EXCEPT ![cur'] = <<>>]
    /\ count' = [count EXCEPT ![cur'] = 0]
    /\ used' = [used EXCEPT ![cur'] = TRUE]
    /\ src' = IF used[Succ(cur')] THEN file[Succ(cur')] ELSE <<>>
    /\ skip' = FALSE
    /\ pc' = "merge"
    /\ UNCHANGED <<loaded, buf, seg, more, cache, out>>

(* Mutation: the source goes first without a comparison. *)
OldAlwaysFirst == TRUE

(* One of the two cannot be opened. *)
SaveOpenFails ==
    /\ IOErrors
    /\ pc = "save" /\ buf # <<>>
    /\ cur' = Succ(cur)
    /\ count' = [count EXCEPT ![cur'] = 0]
    /\ \/ UNCHANGED <<file, used>>
       \/ /\ used[Succ(cur')]
          /\ file' = [file EXCEPT ![cur'] = <<>>]
          /\ used' = [used EXCEPT ![cur'] = TRUE]
    /\ pc' = "failed"
    /\ UNCHANGED <<loaded, buf, seg, more, src, skip, cache, out>>

(* job_compare_rek(szBuffTmp, recordBuffer, CHECK_RECORD_POSITION_YES, 0): *)
(* the buffers hold the record and then its position, but the position is  *)
(* looked for SIZEINT bytes further on, in the middle of it and of what    *)
(* lies behind it: a tie goes either way.                                  *)
OldFirst == MayPrecede(Head(src), Head(buf))
NewFirst == src # <<>> => MayPrecede(Head(buf), Head(src))

CopyOld ==
    /\ pc = "merge" /\ buf # <<>> /\ src # <<>>
    /\ OldFirst
    /\ Put(Head(src))
    /\ count' = [count EXCEPT ![cur] = @ + 1]
    /\ src' = Tail(src)
    /\ skip' = FALSE
    /\ UNCHANGED <<pc, loaded, buf, seg, more, used, cur, out>>

CopyNew ==
    /\ pc = "merge" /\ buf # <<>>
    /\ NewFirst
    /\ Put(Head(buf))
    /\ count' = [count EXCEPT ![cur] = @ + 1]
    /\ buf' = Tail(buf)
    /\ skip' = (src # <<>>)
    /\ UNCHANGED <<pc, loaded, seg, more, used, cur, src, out>>

CopyFails == pc = "merge" /\ buf # <<>> /\ CacheFull /\ SaveFails

(* The sort buffer is written: the cache is flushed, with a check. *)
FlushNew ==
    /\ pc = "merge" /\ buf = <<>>
    /\ file' = Flushed
    /\ cache' = <<>>
    /\ pc' = "tail"
    /\ UNCHANGED <<loaded, buf, seg, more, count, used, cur, src, skip, out>>

FlushNewFails ==
    /\ pc = "merge" /\ buf = <<>> /\ cache # <<>>
    /\ IOErrors
    /\ pc' = "failed"
    /\ DropSource(file) \/ UNCHANGED <<file, count, src, skip, cache>>
    /\ UNCHANGED <<loaded, buf, seg, more, used, cur, out>>

(* What is left of the source.  Its pending record is not counted, and the *)
(* result of writing it not looked at: the cache being empty, nothing can  *)
(* fail there.                                                             *)
CopyTail ==
    /\ pc = "tail" /\ src # <<>>
    /\ Put(Head(src))
    /\ count' = IF skip THEN count ELSE [count EXCEPT ![cur] = @ + 1]
    /\ src' = Tail(src)
    /\ skip' = FALSE
    /\ UNCHANGED <<pc, loaded, buf, seg, more, used, cur, out>>

CopyTailFails == pc = "tail" /\ src # <<>> /\ ~ skip /\ CacheFull /\ SaveFails

TailDone ==
    /\ pc = "tail" /\ src = <<>>
    /\ pc' = "close"
    /\ UNCHANGED <<loaded, buf, seg, more, tmp, out>>

(* The last flush, the truncation of the source, and job_sort's next round. *)
SaveClose ==
    /\ pc = "close"
    /\ DropSource(Flushed)
    /\ pc' = NextRound
    /\ UNCHANGED <<loaded, buf, seg, more, used, cur, out>>

(* S045: the last flush fails; the message is printed, the function goes   *)
(* on and returns 0.                                                       *)
SaveCloseLoses ==
    /\ pc = "close"
    /\ IOErrors /\ cache # <<>>
    /\ DropSource(file)
    /\ pc' = NextRound
    /\ UNCHANGED <<loaded, buf, seg, more, used, cur, out>>

(* The source cannot be opened again to truncate it: -1. *)
SaveCloseFails ==
    /\ pc = "close"
    /\ IOErrors /\ used[Source]
    /\ file' = Flushed /\ cache' = <<>>
    /\ pc' = "failed"
    /\ UNCHANGED <<loaded, buf, seg, more, count, used, cur, src, skip, out>>

-----------------------------------------------------------------------------
(* job_save_out: everything fitted in memory. *)
DirectEmit ==
    /\ pc = "direct"
    /\ buf # <<>>
    /\ out' = Append(out, Head(buf))
    /\ buf' = Tail(buf)
    /\ UNCHANGED <<pc, loaded, seg, more, tmp>>

DirectDone ==
    /\ pc = "direct"
    /\ buf = <<>>
    /\ pc' = "done"
    /\ UNCHANGED <<loaded, buf, seg, more, tmp, out>>

-----------------------------------------------------------------------------
(* job_save_tempfinal and job_IdentifyBuf *)

(* The files that are opened and read: those with a count. *)
Opened == {k \in Slots : count[k] # 0 /\ file[k] # <<>>}

(* Mutation: the number of files opened. *)
MaxEleOpened == Cardinality({k \in Slots : count[k] # 0})

(* nMaxEle: one more than the number of files opened; ptrBuf is searched   *)
(* below it only.                                                          *)
MaxEle == Cardinality({k \in Slots : count[k] # 0}) + 1
Searched == {k \in Opened : k < MaxEle}

(* Mutation: the position is not compared. *)
BeatsByKey(k, h) == MayPrecede(Head(file[k]), Head(file[h]))

(* Mutation: the comparison is the wrong way round. *)
BeatsReversed(k, h) == Head(file[h]).key <= Head(file[k]).key

(* Here the buffers start with the length, so that the position is where   *)
(* job_compare_rek looks for it if the record has the output's length.     *)
Beats(k, h) == IF FixedLength THEN ~ Before(Head(file[h]), Head(file[k]))
                              ELSE MayPrecede(Head(file[k]), Head(file[h]))

FinalEmit ==
    /\ pc = "final"
    /\ \E k \in Searched :
         /\ \A h \in Searched : Beats(k, h)
         /\ out' = Append(out, Head(file[k]))
         /\ file' = [file EXCEPT ![k] = Tail(@)]
    /\ UNCHANGED <<pc, loaded, buf, seg, more, count, used, cur, src, skip, cache>>

FinalDone ==
    /\ pc = "final"
    /\ Opened = {}
    /\ pc' = "done"
    /\ UNCHANGED <<loaded, buf, seg, more, tmp, out>>

(* The output, or a temporary file, cannot be opened, or a write to the    *)
(* output fails: -1.                                                       *)
OutputFails ==
    /\ IOErrors
    /\ \/ pc = "direct" /\ (out = <<>> \/ buf # <<>>)
       \/ pc = "final" /\ (out = <<>> \/ Opened # {})
    /\ pc' = "failed"
    /\ UNCHANGED <<loaded, buf, seg, more, tmp, out>>

Terminated == pc \in {"done", "failed"} /\ UNCHANGED vars

SaveStep ==
    \/ SaveNothing \/ SaveOpen \/ SaveOpenFails \/ CopyOld \/ CopyNew \/ CopyFails
    \/ FlushNew \/ FlushNewFails \/ CopyTail \/ CopyTailFails
    \/ TailDone \/ SaveClose \/ SaveCloseLoses \/ SaveCloseFails

OutputStep == DirectEmit \/ DirectDone \/ FinalEmit \/ FinalDone \/ OutputFails

Next == Load \/ LoadFails \/ SaveStep \/ OutputStep \/ Terminated

Spec == Init /\ [][Next]_vars

(* One thread runs the job to its end. *)
FairSpec == Spec /\ WF_vars(Load) /\ WF_vars(SaveStep) /\ WF_vars(OutputStep)
-----------------------------------------------------------------------------
(* Properties. *)

Records == Record(Keys)

(* The type invariant: every file, buffer and cache holds records, every   *)
(* index is a slot of the ring.                                            *)
TypeOK ==
    /\ pc \in {"load", "save", "merge", "tail", "close", "direct", "final",
               "done", "failed"}
    /\ loaded \in SUBSET Records
    /\ buf \in Seq(Records)
    /\ seg \in BOOLEAN /\ more \in BOOLEAN
    /\ file \in [Slots -> Seq(Records)]
    /\ count \in [Slots -> Nat]
    /\ used \in [Slots -> BOOLEAN]
    /\ cur \in Slots
    /\ src \in Seq(Records)
    /\ skip \in BOOLEAN
    /\ cache \in Seq(Records)
    /\ out \in Seq(Records)

(* The sequences a record may be in and still reach the output; while a    *)
(* save runs, the file it reads is replaced by what is left to read.       *)
Places == <<buf, src, cache, out>> \o
          [i \in 1 .. Handles |->
              IF Saving /\ i - 1 = Source THEN <<>> ELSE file[i - 1]]

OutPlace == 4

Copies(r) ==
    UNION {{p} \X {i \in DOMAIN Places[p] : Places[p][i] = r} : p \in DOMAIN Places}

(* No record is lost and none is duplicated, through any number of rounds  *)
(* and turns of the ring: until the job fails, each record read is in      *)
(* exactly one place (job_save_tempfile's merge, flushes and truncation).  *)
ExactlyOnce ==
    pc # "failed" => \A r \in loaded : Cardinality(Copies(r)) = 1

(* Whatever fails, a job that goes on never writes a record twice: the     *)
(* failed paths drop records, they do not repeat them.                     *)
NeverTwice == pc # "failed" => \A r \in loaded : Cardinality(Copies(r)) <= 1

(* The output is in key order, whichever way it was written.               *)
OutputSorted == KeySorted(out)

(* Every temporary file is in key order, what the cache still owes the one *)
(* being written included: job_save_tempfinal merges on that promise.      *)
FilesSorted ==
    \A k \in Slots : KeySorted(file[k] \o (IF k = cur THEN cache ELSE <<>>))

(* job_save_tempfinal opens the files whose count is not 0 and no others.  *)
(* Between saves the count says that exactly when a file has records, even *)
(* though the pending record of a merge is never counted.                  *)
CountTellsEmpty ==
    (pc \in {"load", "save"} \/ (pc = "final" /\ out = <<>>)) =>
        \A k \in Slots : count[k] = 0 <=> file[k] = <<>>

(* job_IdentifyBuf searches the first nMaxEle buffers: no file with        *)
(* records left may lie beyond them, or the final merge indexes with -1;   *)
(* and nMaxEle may not exceed the number of buffers, or the search runs    *)
(* off the end of ptrBuf.                                                  *)
EverySourceSearched == pc = "final" => Opened = Searched /\ MaxEle <= Handles

(* The ring never overwrites: the file that SaveOpen truncates is empty,   *)
(* and the one it maps, being used, is not (mmfio_Open of an empty file    *)
(* does not map it).                                                       *)
NeverOverwrites ==
    [][SaveOpen => /\ file[cur'] = <<>>
                   /\ used[Succ(cur')] => file[Succ(cur')] # <<>>]_vars

(* Between saves exactly these files hold records: the first ones, until   *)
(* the ring has turned; then all but the one that is written next.         *)
Live == IF used[0] THEN Slots \ {Succ(cur)} ELSE 1 .. cur

Empty(k) == count[k] = 0 /\ file[k] = <<>>
Filled(k) == count[k] # 0 /\ file[k] # <<>>

(* The invariant of the ring, from which the three properties above        *)
(* follow: which files job_save_tempfile has used, which of them hold      *)
(* records between saves, and how far the one being written and the one    *)
(* being read may depart from that while a save runs.                      *)
RingInv ==
    /\ pc # "failed" => \A k \in Slots : used[k] <=> used[0] \/ k \in 1 .. cur
    /\ pc \in {"load", "save"} => cache = <<>>
    /\ (pc \in {"load", "save"} \/ (pc = "final" /\ out = <<>>)) =>
           \A k \in Slots : IF k \in Live THEN Filled(k) ELSE Empty(k)
    /\ pc = "final" => \A k \in Slots : count[k] # 0 <=> k \in Live
    /\ Saving =>
         /\ used[cur]
         /\ \A k \in Slots \ {cur} :
               IF k \in Live THEN Filled(k) ELSE used[k] \/ Empty(k)
    /\ pc = "merge" =>
         /\ buf # <<>> \/ cache # <<>>
         /\ IF cache = <<>> THEN Empty(cur) ELSE count[cur] # 0
    /\ pc \in {"tail", "close"} => Filled(cur)

(* As long as the ring has not turned, no merge has compared positions in  *)
(* the wrong place, and records with equal keys are written in the order   *)
(* of reading (the position key of job_compare_qsort and job_IdentifyBuf). *)
StableWithoutReuse == FixedLength /\ ~ used[0] => Stable(out)

(* "check pospnt": records with equal keys are written in the order of     *)
(* reading, however much input there is.                                   *)
StableOutput == FixedLength => Stable(out)

(* "Return code : 0 (ok)" (README.md): a job that ends well has written    *)
(* every record it read.                                                   *)
DoneMeansWritten == pc = "done" => loaded \subseteq Elements(out)

(* Once the last round is loaded the job reaches an end.                   *)
Terminates == <>(pc \in {"done", "failed"})

(* The implementation of the abstract sort. *)
Held == UNION {Elements(Places[i]) : i \in {j \in DOMAIN Places : j # OutPlace}}

Phase ==
    CASE pc \in {"direct", "final"} -> "write"
      [] pc \in {"done", "failed"} -> pc
      [] OTHER -> "read"

Abstract == INSTANCE SortedOutput
    WITH pending <- Held, phase <- Phase

(* The job implements SortedOutput: it reads, then writes the least record *)
(* it holds, each once, and is done only when it holds none.               *)
ImplementsSort == Abstract!Spec
=============================================================================
