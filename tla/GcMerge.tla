------------------------------ MODULE GcMerge ------------------------------
(***************************************************************************)
(* MERGE FIELDS of GCSORT: job_merge_files (src/tools/GCSORT/job.c) holds  *)
(* one record of each input file, always takes the least of them, and      *)
(* writes it, or adds it to a group under SUM FIELDS.  A group is written  *)
(* one record late, when a record with another key arrives or the files    *)
(* have ended: szPrecSumFields is the record that is owed.                 *)
(*                                                                         *)
(* Without INREC, OUTREC and OUTFIL, which rewrite what is written.        *)
(***************************************************************************)
EXTENDS Integers, Sequences, SequencesExt, FiniteSets, FiniteSetsExt

CONSTANTS
    Keys,      \* the merge keys
    Tails,     \* what job_compare_rek may read where it looks for a position
    NumFiles,  \* the number of input files (nIdx1)
    MaxFiles,  \* MAX_FILES_INPUT
    Shapes,    \* the lengths the input files may have
    Values,    \* the summed field of the ith record of file f
    Modulus,   \* what the summed field can hold, and one more
    IOErrors   \* an open or a write may fail

ASSUME MergeAssumption ==
    /\ Keys \subseteq Nat /\ Tails \subseteq Nat
    /\ NumFiles \in Nat \ {0} /\ MaxFiles \in Nat /\ NumFiles <= MaxFiles
    /\ Shapes \subseteq [1 .. NumFiles -> Nat]
    /\ Modulus \in Nat \ {0}
    /\ \A shape \in Shapes, f \in 1 .. NumFiles : \A i \in 1 .. shape[f] :
          Values[<<f, i>>] \in 0 .. Modulus - 1
    /\ IOErrors \in BOOLEAN

VARIABLES
    input,    \* the files
    omit,     \* the records INCLUDE or OMIT leave out
    sum,      \* sumFields: "no", "none" or "fields"
    xsum,     \* nXSumFilePresent: SUM FIELDS has XSUM
    pc,       \* where job_merge_files is
    opened,   \* nIdx1: the files opened
    rest,     \* what is left to read of each file
    buf,      \* ptrBuf: the record read of each file, or none
    sumEof,   \* nSumEof, the unused places of the array included
    prev,     \* recordBufferPrevious, or none
    prec,     \* szKeyPrec and szPrecSumFields, or none
    total,    \* pCobFieldTotRes
    written,  \* bIsWrited
    out       \* the output file

settings == <<input, omit, sum, xsum>>
reading  == <<opened, rest, buf, sumEof>>
group    == <<prev, prec, total, written>>
vars     == <<settings, pc, reading, group, out>>

Files == 1 .. NumFiles

KeySorted(s) == \A i, j \in DOMAIN s : i < j => s[i].key <= s[j].key

InputRecords == UNION {ToSet(input[f]) : f \in Files}

Init ==
    /\ \E shape \in Shapes :
         LET ids == UNION {{f} \X (1 .. shape[f]) : f \in Files}
         IN  \E ks \in [ids -> Keys], ts \in [ids -> Tails] :
               input = [f \in Files |-> [i \in 1 .. shape[f] |->
                           [key |-> ks[<<f, i>>], tail |-> ts[<<f, i>>], val |-> Values[<<f, i>>],
                            file |-> f, at |-> i]]]
    \* "It is mandatory that the input data is already sorted" (GCSORT_Manual.odt)
    /\ \A f \in Files : KeySorted(input[f])
    /\ omit \in SUBSET InputRecords
    /\ sum \in {"no", "none", "fields"}
    /\ xsum \in {b \in BOOLEAN : b => sum # "no"}
    /\ pc = "open" /\ opened = 0
    /\ rest = input
    /\ buf = [f \in Files |-> <<>>]
    /\ sumEof = 0
    /\ prev = <<>> /\ prec = <<>> /\ total = 0 /\ written = FALSE
    /\ out = <<>>

-----------------------------------------------------------------------------
(* Opening: each file is opened and its first record read. *)

OneOf(s) == IF s = <<>> THEN <<>> ELSE <<Head(s)>>
Others(s) == IF s = <<>> THEN <<>> ELSE Tail(s)

OpenFile ==
    /\ pc = "open" /\ opened < NumFiles
    /\ opened' = opened + 1
    /\ buf' = [buf EXCEPT ![opened'] = OneOf(rest[opened'])]
    /\ rest' = [rest EXCEPT ![opened'] = Others(@)]
    /\ UNCHANGED <<settings, pc, sumEof, group, out>>

(* The output, which is opened first, or an input cannot be opened. *)
OpenFails ==
    /\ IOErrors
    /\ pc = "open" /\ opened < NumFiles
    /\ pc' = "failed"
    /\ UNCHANGED <<settings, reading, group, out>>

(* Mutation: the comparison is the wrong way round. *)
PrecedesReversed(r, s) == r.key > s.key

(* job_compare_rek with CHECK_RECORD_POSITION_YES: a record just read has  *)
(* no position; bytes of its end are compared in its stead.                *)
Precedes(r, s) == r.key < s.key \/ (r.key = s.key /\ r.tail < s.tail)

Live == {f \in Files : buf[f] # <<>>}

(* job_IdentifyBufMerge: the first of the least. *)
Chosen(k) ==
    /\ k \in Live
    /\ \A h \in Live \ {k} :
         IF h < k THEN Precedes(buf[k][1], buf[h][1])
                  ELSE ~ Precedes(buf[h][1], buf[k][1])

(* The totals are reset, and the least record is the first that is owed:   *)
(* without regard to INCLUDE and OMIT.                                     *)
FirstGroup ==
    /\ pc = "open" /\ opened = NumFiles
    /\ sumEof' = MaxFiles - Cardinality(Live)
    /\ prec' = IF Live = {} THEN <<>> ELSE buf[CHOOSE k \in Live : Chosen(k)]
    /\ total' = 0
    /\ pc' = "merge"
    /\ UNCHANGED <<settings, opened, rest, buf, prev, written, out>>

-----------------------------------------------------------------------------
(* The merge loop: record r of file k. *)

EofAfter(k) == IF rest[k] = <<>> THEN sumEof + 1 ELSE sumEof

(* job_ReadFileMerge: the file whose record was taken is read again. *)
Advance(k) ==
    /\ buf' = [buf EXCEPT ![k] = OneOf(rest[k])]
    /\ rest' = [rest EXCEPT ![k] = Others(@)]
    /\ sumEof' = EofAfter(k)
    /\ UNCHANGED opened

Turn(k, r) == pc = "merge" /\ sumEof < MaxFiles /\ Chosen(k) /\ r = buf[k][1]

(* Mutation: the condition is not tested. *)
LeftOutNever(r) == FALSE

LeftOut(r) == r \in omit

Skip(k, r) ==
    /\ Turn(k, r) /\ LeftOut(r)
    /\ Advance(k)
    /\ UNCHANGED <<settings, pc, group, out>>

Plain(k, r) ==
    /\ Turn(k, r) /\ ~ LeftOut(r) /\ sum = "no"
    /\ out' = Append(out, r)
    /\ Advance(k)
    /\ UNCHANGED <<settings, pc, group>>

(* SUM FIELDS=NONE: the first record of a key is written, the others are   *)
(* discarded.                                                              *)
SameAsPrevious(r) == prev # <<>> /\ prev[1].key = r.key

NoneFirst(k, r) ==
    /\ Turn(k, r) /\ ~ LeftOut(r) /\ sum = "none"
    /\ ~ SameAsPrevious(r)
    /\ prev' = <<r>>
    /\ out' = Append(out, r)
    /\ Advance(k)
    /\ UNCHANGED <<settings, pc, prec, total, written>>

(* XSUM: job_merge_files never opens the file of the discarded records     *)
(* (job_save_out does), so that writing the first one fails and ends it.   *)
AfterDiscard == IF xsum THEN "failed" ELSE "merge"

(* Mutation: the record takes the place of the one that was written. *)
NoneAgainLast(k, r) ==
    /\ Turn(k, r) /\ ~ LeftOut(r) /\ sum = "none"
    /\ SameAsPrevious(r)
    /\ prev' = <<r>>
    /\ out' = Append(Front(out), r)
    /\ Advance(k)
    /\ pc' = AfterDiscard
    /\ UNCHANGED <<settings, prec, total, written>>

NoneAgain(k, r) ==
    /\ Turn(k, r) /\ ~ LeftOut(r) /\ sum = "none"
    /\ SameAsPrevious(r)
    /\ prev' = <<r>>
    /\ Advance(k)
    /\ pc' = AfterDiscard
    /\ UNCHANGED <<settings, prec, total, written, out>>

(* cob_add: the digits that do not fit are cut off. *)
Held(n) == n % Modulus

(* SUM FIELDS: SumFields_KeyCheck, the same key.  The record is added, and *)
(* takes the place of the one that was owed.                               *)
SameKey(k, r) ==
    /\ Turn(k, r) /\ ~ LeftOut(r) /\ sum = "fields"
    /\ prec[1].key = r.key
    /\ total' = Held(total + r.val)
    /\ prec' = <<r>>
    /\ written' = TRUE
    /\ Advance(k)
    /\ pc' = AfterDiscard
    /\ UNCHANGED <<settings, prev, out>>

Owed == [prec[1] EXCEPT !.val = total]

(* Mutation: the totals are not reset. *)
TotalKept(r) == Held(total + r.val)

TotalOf(r) == Held(r.val)

(* Another key: what is owed is written with its total, and r is owed. *)
NewKey(k, r) ==
    /\ Turn(k, r) /\ ~ LeftOut(r) /\ sum = "fields"
    /\ prec[1].key # r.key
    /\ out' = Append(out, Owed)
    /\ total' = TotalOf(r)
    /\ prec' = <<r>>
    /\ written' = TRUE
    /\ Advance(k)
    /\ UNCHANGED <<settings, pc, prev>>

WriteFails ==
    /\ IOErrors
    /\ \E k \in Files, r \in InputRecords : Turn(k, r) /\ ~ LeftOut(r)
    /\ pc' = "failed"
    /\ UNCHANGED <<settings, reading, group, out>>

(* Mutation: nothing is owed when the files have ended. *)
PendingNone == FALSE

Pending == sum = "fields" /\ written

(* All the files have ended: what is owed is written. *)
Finish ==
    /\ pc = "merge" /\ sumEof >= MaxFiles
    /\ out' = IF Pending THEN Append(out, Owed) ELSE out
    /\ pc' = "done"
    /\ UNCHANGED <<settings, reading, group>>

FinishFails ==
    /\ IOErrors
    /\ pc = "merge" /\ sumEof >= MaxFiles /\ Pending
    /\ pc' = "failed"
    /\ UNCHANGED <<settings, reading, group, out>>

Terminated == pc \in {"done", "failed"} /\ UNCHANGED vars

MergeStep ==
    \E k \in Files, r \in InputRecords :
        \/ Skip(k, r) \/ Plain(k, r) \/ NoneFirst(k, r) \/ NoneAgain(k, r)
        \/ SameKey(k, r) \/ NewKey(k, r)

Next ==
    \/ OpenFile \/ OpenFails \/ FirstGroup
    \/ MergeStep \/ WriteFails \/ Finish \/ FinishFails
    \/ Terminated

Spec == Init /\ [][Next]_vars

-----------------------------------------------------------------------------
(* Properties. *)

(* The type invariant: the totals fit the field. *)
TypeOK ==
    /\ pc \in {"open", "merge", "done", "failed"}
    /\ opened \in 0 .. NumFiles /\ sumEof \in 0 .. MaxFiles
    /\ \A f \in Files : buf[f] \in {<<>>} \cup {<<r>> : r \in InputRecords}
    /\ prev \in {<<>>} \cup {<<r>> : r \in InputRecords}
    /\ prec \in {<<>>} \cup {<<r>> : r \in InputRecords}
    /\ total \in 0 .. Modulus - 1
    /\ written \in BOOLEAN

Kept == InputRecords \ omit

(* The output is in key order, although a group is written after the       *)
(* record that ends it was read.                                           *)
MergeSorted == KeySorted(out)

(* nSumEof counts the files that have ended: the loop goes on exactly as   *)
(* long as job_IdentifyBufMerge finds a record, and never indexes with -1. *)
EofCounted == pc = "merge" => (sumEof < MaxFiles <=> Live # {})

MergeInv == TypeOK /\ MergeSorted /\ EofCounted

(* Without SUM FIELDS each file's records are all written, in their order, *)
(* whatever the bytes are that decide between equal keys.                  *)
KeepsAll ==
    pc = "done" /\ sum = "no" =>
        /\ Len(out) = Cardinality(Kept) /\ ToSet(out) = Kept
        /\ \A i, j \in DOMAIN out :
              i < j /\ out[i].file = out[j].file => out[i].at < out[j].at

LowestKey == Min({r.key : r \in InputRecords})

(* "Insert into output file one occurrence of same key": every key that a  *)
(* record has which is not left out is written once, and no other; but for *)
(* the lowest of all, which is owed before OMIT is looked at (FirstGroup). *)
OncePerKey ==
    pc = "done" /\ sum # "no" =>
        /\ \A r \in Kept : Cardinality({i \in DOMAIN out : out[i].key = r.key}) = 1
        /\ \A i \in DOMAIN out :
              \/ \E r \in Kept : r.key = out[i].key
              \/ sum = "fields" /\ out[i].key = LowestKey

Total(R) == MapThenSumSet(LAMBDA r : r.val, R)

(* "All fields present in SUM FIELDS are aggregate when more records has   *)
(* same key": what is written of a key is the sum of its records, as far   *)
(* as the field holds it, whichever file they came from.                   *)
SumsAreRight ==
    pc = "done" /\ sum = "fields" =>
        \A i \in DOMAIN out : out[i].val = Held(Total({r \in Kept : r.key = out[i].key}))

(* SUM FIELDS=NONE: of the records of a key the output has one that is     *)
(* kept, and no record of the same file came before it, although the files *)
(* take turns and the record compared is the last read, not the one that   *)
(* was written.                                                            *)
FirstIsKept ==
    pc = "done" /\ sum = "none" =>
        \A i \in DOMAIN out :
            /\ out[i] \in Kept
            /\ \A r \in Kept :
                  r.key = out[i].key /\ r.file = out[i].file => out[i].at <= r.at

(* SUM FIELDS=NONE,XSUM "produces a separate file with the records         *)
(* discarded": when nothing fails the merge comes to its end.              *)
MergeEndsWell == ~ IOErrors => pc # "failed"
=============================================================================
