------------------------------- MODULE GcLoad -------------------------------
(***************************************************************************)
(* job_loadFiles of GCSORT (src/tools/GCSORT/job.c): the input files are   *)
(* read one after the other, through SKIPREC, STOPAFT, the E15 exit and    *)
(* INCLUDE/OMIT, into memory; when memory is full the round ends (-2), the *)
(* records are sorted and saved, and job_sort calls it again to go on.     *)
(* What it remembers from one call to the next (the file, the record count *)
(* and the position) is in the job; everything of the E15 exit is local.   *)
(*                                                                         *)
(* Single thread: with MTTHREAD see GcThread (job_check refuses exits).    *)
(***************************************************************************)
EXTENDS Integers, Sequences, SequencesExt, FiniteSets

CONSTANTS
    Lengths,      \* the records each input file may have
    NumFiles,     \* the number of input files (USE)
    SkipRecs,     \* the values of SKIPREC, 0 for none
    StopAfts,     \* the values of STOPAFT, 0 for none
    Omits,        \* the records INCLUDE/OMIT leaves out, set by set
    Exits,        \* BOOLEAN values: is there an E15 exit (nExitRoutine 1 or 3)
    Keyeds,       \* BOOLEAN values: are the input files indexed or relative
    Answers,      \* what the E15 exit may answer on a record
    LastAnswers,  \* what it may answer on a record flagged as the last
    MemoryFills,  \* the jobs whose memory may become full: without an exit, with one
    IOErrors,     \* an input file may fail to open
    MaxLoaded     \* bound: the history loaded, in a load that does not end

ASSUME LoadAssumption ==
    /\ Lengths \subseteq Nat /\ NumFiles \in Nat \ {0}
    /\ SkipRecs \subseteq Nat /\ StopAfts \subseteq Nat /\ Exits \subseteq BOOLEAN
    /\ Keyeds \subseteq BOOLEAN
    /\ Answers \subseteq {0, 4, 8, 12, 20} /\ LastAnswers \subseteq {0, 4, 8, 12, 20}
    /\ MemoryFills \subseteq BOOLEAN /\ IOErrors \in BOOLEAN /\ MaxLoaded \in Nat

VARIABLES
    lens, keyed, skipRec, stopAft, exit, omit,   \* the input and the statements
    pc,        \* where job_loadFiles is
    seg,       \* bIsPresentSegmentation
    currFile,  \* nCurrFileInput
    recCount,  \* nRecCount
    idx,       \* nIdxFileIn, from 1
    eofIn,     \* nEOFFileIn: a file was closed in this call
    at,        \* the next record of the open file
    atEnd,     \* the open file has answered end of file
    area,      \* stFileDef->record->data: the record area of the open file
    rec,       \* szBuffRek
    state,     \* nState
    vr,        \* szVectorRead1 and szVectorRead2
    last,      \* nLastRecord
    rc, nrek,  \* the exit's last answer, and nrekE15
    loaded,    \* history: the records put in memory, in order
    deleted,   \* history: the records E15 deleted
    flagged    \* history: the last call of E15: its flag and its record

input  == <<lens, keyed, skipRec, stopAft, exit, omit>>
kept   == <<seg, currFile, recCount>>
e15    == <<state, vr, last, rc, nrek>>
story  == <<loaded, deleted, flagged>>
vars   == <<input, pc, kept, idx, eofIn, at, atEnd, area, rec, e15, story>>

Blank    == <<0, 0>>   \* a record area no read has filled
Inserted == <<0, 1>>   \* a record made by the E15 exit

(* The records of all the files, and the order they are read in. *)
InputRecords == UNION {{<<f, i>> : i \in 1 .. lens[f]} : f \in 1 .. NumFiles}

Precedes(r, q) == r[1] < q[1] \/ (r[1] = q[1] /\ r[2] < q[2])

InFile == at <= lens[idx]

(* Mutation: the position is taken after the read has advanced it. *)
HereAfter == <<idx, at + 1>>

Here   == <<idx, at>>

(* The locals of one file's turn. *)
ResetExit ==
    /\ state' = 0 /\ last' = FALSE /\ rc' = 0 /\ nrek' = 0
    /\ UNCHANGED vr

Init ==
    /\ lens \in [1 .. NumFiles -> Lengths]
    /\ skipRec \in SkipRecs /\ stopAft \in StopAfts /\ exit \in Exits
    /\ omit \in Omits
    /\ keyed \in {k \in Keyeds : k => exit}   \* without an exit it makes no difference
    /\ pc = "round" /\ seg = FALSE /\ currFile = 1 /\ recCount = 0
    /\ idx = 1 /\ eofIn = FALSE /\ at = 1 /\ atEnd = FALSE
    /\ area = Blank /\ rec = Blank
    /\ state = 0 /\ vr = <<Blank, Blank>> /\ last = FALSE /\ rc = 0 /\ nrek = 0
    /\ loaded = <<>> /\ deleted = {} /\ flagged = <<0, Blank>>

-----------------------------------------------------------------------------
(* One call of job_loadFiles. *)

(* Mutation: each round counts from 0 again. *)
CountAfresh == 0

(* nRecCount goes on once the input has been cut into rounds. *)
FirstCount == IF seg THEN recCount ELSE 0

StartRound ==
    /\ pc = "round"
    /\ recCount' = FirstCount
    /\ idx' = currFile
    /\ eofIn' = FALSE
    /\ vr' = <<Blank, Blank>>
    /\ pc' = "file"
    /\ UNCHANGED <<input, seg, currFile, at, atEnd, area, rec, state, last, rc, nrek, story>>

(* A file is opened unless this call goes on with the one it was reading.  *)
(* Either way the exit's locals start afresh.                              *)
StartFile ==
    /\ pc = "file" /\ idx <= NumFiles
    /\ IF ~ seg \/ eofIn
         THEN at' = 1 /\ atEnd' = FALSE /\ area' = Blank /\ eofIn' = FALSE
         ELSE UNCHANGED <<at, atEnd, area, eofIn>>
    /\ ResetExit
    /\ pc' = "read"
    /\ UNCHANGED <<input, kept, idx, rec, story>>

OpenFails ==
    /\ IOErrors
    /\ pc = "file" /\ idx <= NumFiles
    /\ ~ seg \/ eofIn
    /\ pc' = "failed"
    /\ UNCHANGED <<input, kept, idx, eofIn, at, atEnd, area, rec, e15, story>>

EndFiles ==
    /\ pc = "file" /\ idx > NumFiles
    /\ pc' = "end"
    /\ UNCHANGED <<input, kept, idx, eofIn, at, atEnd, area, rec, e15, story>>

NextFile == idx + 1

CloseFile ==
    /\ pc = "close"
    /\ idx' = NextFile
    /\ eofIn' = TRUE
    /\ pc' = "file"
    /\ UNCHANGED <<input, kept, at, atEnd, area, rec, e15, story>>

-----------------------------------------------------------------------------
(* Reading without an exit: cob_read_next and file_checkFSRead.  A read    *)
(* after the end of file is an error, which ends the job.                  *)
Read ==
    /\ pc = "read" /\ ~ exit
    /\ IF InFile
         THEN at' = at + 1 /\ area' = Here /\ atEnd' = FALSE /\ pc' = "count"
         ELSE /\ UNCHANGED <<at, area>>
              /\ atEnd' = TRUE
              /\ pc' = IF atEnd THEN "failed" ELSE "close"
    /\ UNCHANGED <<input, kept, idx, eofIn, rec, e15, story>>

(* job_Verify_EOF: the exit is told which record is the last, so one is    *)
(* always read ahead.  Its state s (1 or 2) says that vr[s] was delivered  *)
(* and that the other one comes next.                                      *)
Delivered == UNCHANGED <<input, kept, idx, eofIn, rec, rc, nrek, story>> /\ pc' = "count"

(* Case 0, two reads, the second one backwards (COB_READ_PREVIOUS).  A     *)
(* sequential file knows no direction and reads the next record.  The end  *)
(* of file of the first read is not told from that of the second: the      *)
(* record area goes on as a record.                                        *)
VerifyFirst ==
    /\ pc = "read" /\ exit /\ state = 0
    /\ keyed => ~ InFile /\ ~ atEnd
    /\ IF InFile
         THEN /\ area' = Here
              /\ IF at < lens[idx]
                   THEN /\ vr' = <<Here, <<idx, at + 1>>>>
                        /\ state' = 1 /\ at' = at + 2
                        /\ UNCHANGED <<last, atEnd>>
                   ELSE /\ vr' = [vr EXCEPT ![1] = Here]
                        /\ state' = 99 /\ at' = at + 1
                        /\ last' = TRUE /\ atEnd' = TRUE
         ELSE /\ UNCHANGED <<at, area>>
              /\ last' = TRUE /\ atEnd' = TRUE
              /\ IF atEnd THEN state' = 1 /\ vr' = <<area, area>>
                          ELSE state' = 99 /\ UNCHANGED vr
    /\ Delivered

(* In an indexed or relative file the second read goes back to the record  *)
(* before the first one.  At the start of the file there is none: this is  *)
(* an end of file too, and the record just read passes for the last.       *)
VerifyBack ==
    /\ pc = "read" /\ exit /\ state = 0
    /\ keyed /\ (InFile \/ atEnd)
    /\ area' = IF InFile THEN Here ELSE area
    /\ IF at > 1
         THEN vr' = <<area', <<idx, at - 1>>>> /\ state' = 1 /\ UNCHANGED last
         ELSE vr' = [vr EXCEPT ![1] = area'] /\ state' = 99 /\ last' = TRUE
    /\ atEnd' = FALSE
    /\ UNCHANGED at
    /\ Delivered

(* Mutation: the slot that was delivered is delivered again. *)
OtherSame == state

(* The slot whose record comes next. *)
Other == 3 - state

(* Cases 1 and 2: the other record is delivered, this one is read again. *)
VerifyNext ==
    /\ pc = "read" /\ exit /\ state \in {1, 2}
    /\ area' = vr[Other]
    /\ IF InFile
         THEN /\ vr' = [vr EXCEPT ![state] = Here]
              /\ at' = at + 1 /\ state' = Other
              /\ UNCHANGED <<last, atEnd>>
         ELSE /\ last' = TRUE /\ atEnd' = TRUE
              /\ IF atEnd THEN state' = Other /\ vr' = [vr EXCEPT ![state] = area]
                          ELSE state' = 99 /\ UNCHANGED vr
              /\ UNCHANGED at
    /\ Delivered

(* Mutation: the state that says so is not left. *)
VerifyForever ==
    /\ pc = "read" /\ exit /\ state \in {6, 7}
    /\ area' = vr[state - 5]
    /\ UNCHANGED <<at, atEnd, state, vr, last>>
    /\ Delivered

(* Cases 6 and 7: the same record again, after the exit inserted another. *)
VerifyAgain ==
    /\ pc = "read" /\ exit /\ state \in {6, 7}
    /\ state' = state - 5
    /\ area' = vr[state']
    /\ UNCHANGED <<at, atEnd, vr, last>>
    /\ Delivered

(* The default case prints an error and answers 0: 104, that is 99 + 5,    *)
(* which stands for 109, 114... too.                                       *)
VerifyOther ==
    /\ pc = "read" /\ exit /\ state = 104
    /\ UNCHANGED <<at, atEnd, area, state, vr, last>>
    /\ Delivered

VerifyEnd ==
    /\ pc = "read" /\ exit /\ state = 99 /\ last
    /\ pc' = "close"
    /\ UNCHANGED <<input, kept, idx, eofIn, at, atEnd, area, rec, e15, story>>

-----------------------------------------------------------------------------
(* nRecCount, which is only compared with SKIPREC and STOPAFT, counts on   *)
(* through files and rounds.                                               *)
CountCap == 1 + skipRec + stopAft

Skipped(n) == skipRec > 0 /\ n <= skipRec

(* Mutation: the record STOPAFT names is not loaded. *)
PastStopEarly(n) == stopAft > 0 /\ n >= stopAft

PastStop(n) == stopAft > 0 /\ n > stopAft

Count ==
    /\ pc = "count"
    /\ LET n == IF recCount < CountCap THEN recCount + 1 ELSE recCount
       IN  /\ recCount' = n
           /\ pc' = IF Skipped(n) THEN "read"
                    ELSE IF PastStop(n) THEN "close" ELSE "exit"
    /\ rec' = area
    /\ UNCHANGED <<input, seg, currFile, idx, eofIn, at, atEnd, area, e15, story>>

NoExit ==
    /\ pc = "exit"
    /\ ~ exit \/ (rc # 12 /\ nrek = 8)
    /\ pc' = "load"
    /\ UNCHANGED <<input, kept, idx, eofIn, at, atEnd, area, rec, e15, story>>

(* Mutation: a record alone in its file is told to be the first only. *)
FlagFirst == IF nrek = 0 THEN 0 ELSE IF last THEN 8 ELSE 4

(* E15ResetParams: 0 for the first record, 4 for others, 8 for the last. *)
Flag == IF last THEN 8 ELSE IF nrek = 0 THEN 0 ELSE 4

CallExit ==
    /\ pc = "exit" /\ exit
    /\ rc # 12 /\ nrek # 8
    /\ \E answer \in IF last THEN LastAnswers ELSE Answers :
         /\ rc' = answer
         /\ nrek' = IF answer = 8 THEN 8 ELSE 1
         /\ state' = IF answer = 12 /\ state < 100 THEN state + 5 ELSE state
         /\ rec' = IF answer = 12 THEN Inserted ELSE rec
         /\ deleted' = IF answer = 4 THEN deleted \cup {rec} ELSE deleted
         /\ pc' = IF answer = 4 THEN "read" ELSE "load"
    /\ flagged' = <<Flag, rec>>
    /\ UNCHANGED <<input, kept, idx, eofIn, at, atEnd, area, vr, last, loaded>>

(* After an insertion the record comes back and is not shown again. *)
AfterInsert ==
    /\ pc = "exit" /\ exit /\ rc = 12
    /\ rc' = 0
    /\ pc' = "load"
    /\ UNCHANGED <<input, kept, idx, eofIn, at, atEnd, area, rec, state, vr, last,
                   nrek, story>>

(* The exit has been told the last record of the file, and the load goes   *)
(* on with it: it may not end, and its history is not kept for ever.       *)
PastLast == exit /\ last /\ state # 99

(* INCLUDE or OMIT, then job_LoadInMemory, which says when memory is full. *)
LoadInMemory ==
    /\ pc = "load"
    /\ IF rec \in omit
         THEN pc' = "read" /\ UNCHANGED <<seg, currFile, loaded>>
         ELSE /\ loaded' = IF PastLast /\ Len(loaded) >= MaxLoaded
                           THEN loaded ELSE Append(loaded, rec)
              /\ \/ /\ exit \in MemoryFills
                    /\ seg' = TRUE /\ currFile' = idx /\ pc' = "round"
                 \/ UNCHANGED <<seg, currFile>> /\ pc' = "read"
    /\ UNCHANGED <<input, recCount, idx, eofIn, at, atEnd, area, rec, e15,
                   deleted, flagged>>

Terminated == pc \in {"end", "failed"} /\ UNCHANGED vars

Step ==
    \/ StartRound \/ StartFile \/ OpenFails \/ EndFiles \/ CloseFile
    \/ Read \/ VerifyFirst \/ VerifyBack \/ VerifyNext \/ VerifyAgain \/ VerifyOther \/ VerifyEnd
    \/ Count \/ NoExit \/ CallExit \/ AfterInsert \/ LoadInMemory

Next == Step \/ Terminated

Spec == Init /\ [][Next]_vars

(* One thread runs job_sort's loop. *)
FairSpec == Spec /\ WF_vars(Step)

-----------------------------------------------------------------------------
(* Properties. *)

Statements ==
    /\ lens \in [1 .. NumFiles -> Nat]
    /\ skipRec \in Nat /\ stopAft \in Nat /\ exit \in Exits /\ keyed \in BOOLEAN

Areas == InputRecords \cup {Blank}

(* The type invariant. *)
TypeOK ==
    /\ Statements
    /\ pc \in {"round", "file", "read", "count", "exit", "load", "close", "end", "failed"}
    /\ seg \in BOOLEAN /\ eofIn \in BOOLEAN /\ atEnd \in BOOLEAN /\ last \in BOOLEAN
    /\ currFile \in 1 .. NumFiles /\ idx \in 1 .. NumFiles + 1
    /\ recCount \in 0 .. CountCap /\ at \in Nat \ {0}
    /\ area \in Areas /\ vr \in Areas \X Areas
    /\ rec \in Areas \cup {Inserted}
    /\ state \in {0, 1, 2, 6, 7, 99, 104} /\ nrek \in {0, 1, 8}
    /\ rc \in {0} \cup Answers \cup LastAnswers
    /\ loaded \in Seq(Areas \cup {Inserted})
    /\ deleted \subseteq Areas

(* The number of a record in the whole input, which nRecCount counts. *)
Past(r) == {q \in InputRecords : Precedes(q, r)}
Number(r) == Cardinality(Past(r)) + 1

(* What the statements ask for, whatever the memory: the records of all    *)
(* the files, without the first SKIPREC, none after the STOPAFTth and none *)
(* that INCLUDE/OMIT leaves out.                                           *)
Selected ==
    {r \in InputRecords : /\ Number(r) > skipRec
                          /\ stopAft > 0 => Number(r) <= stopAft
                          /\ r \notin omit}

(* The records of the input are in order, and none is twice. *)
InOrder(s) ==
    \A i, j \in DOMAIN s :
        i < j /\ s[i] # Inserted /\ s[j] # Inserted => Precedes(s[i], s[j])

(* Filling memory is invisible: however the load is cut into rounds, what  *)
(* has been loaded is a beginning of what the statements select.           *)
LoadsInOrder ==
    ~ exit =>
        /\ InOrder(loaded) /\ ToSet(loaded) \subseteq Selected
        /\ \A r \in Selected, q \in ToSet(loaded) : Precedes(r, q) => r \in ToSet(loaded)

(* ... and all of it when the last round ends, although each round starts  *)
(* again at the head of the list of files (nCurrFileInput, nRecCount).     *)
LoadsAll == ~ exit /\ pc = "end" => ToSet(loaded) = Selected

(* A job with an exit has no SKIPREC, no STOPAFT and no empty file. *)
Sized == exit => skipRec = 0 /\ stopAft = 0 /\ \A f \in 1 .. NumFiles : lens[f] > 0

(* While memory does not fill, every record of sequential files that the   *)
(* exit does not delete is loaded once and in order, insertions apart:     *)
(* reading ahead changes the record that is delivered, never the sequence  *)
(* of them.  It is not so for keyed files (OnlyDeletedAreMissing).         *)
ExitKeepsOrder ==
    Sized /\ exit /\ ~ keyed /\ pc = "end" =>
        /\ InOrder(loaded)
        /\ ToSet(loaded) \ {Inserted} = InputRecords \ (deleted \cup omit)

(* The exit is told 8 with the last record of each sequential file and     *)
(* with no other: with the exit's answers the look-ahead never loses sight *)
(* of the end.  It is told so file by file (FlagTellsLastPassed).          *)
FlagTellsFileEnd ==
    LET r == flagged[2]
    IN  ~ keyed /\ r \in InputRecords => (flagged[1] = 8 <=> r[2] = lens[r[1]])

(* "8 indicates the last record passed": no record follows in any file.    *)
FlagTellsLastPassed ==
    LET r == flagged[2]
    IN  ~ keyed /\ r \in InputRecords =>
            (flagged[1] = 8 <=> \A q \in InputRecords : ~ Precedes(r, q))

(* "0 No action required", "4 Delete the current record. For E15, the      *)
(* record is not sorted": only the exit's answer 4 keeps a record out.     *)
OnlyDeletedAreMissing ==
    pc = "end" /\ skipRec = 0 /\ stopAft = 0 =>
        InputRecords \subseteq ToSet(loaded) \cup deleted \cup omit

(* Where the load is in the file it reads: with an exit nState says what   *)
(* is in the two records read ahead, and which of them was delivered.      *)
Reading == pc \in {"read", "count", "exit", "load"}

PlaceWithExit ==
    LET slot == IF state < 6 THEN state ELSE state - 5 IN
    /\ ~ seg
    /\ Reading =>
        /\ state = 0 => pc = "read" /\ at = 1 /\ ~ last /\ ~ atEnd /\ area = Blank
        /\ state \in {1, 2, 6, 7} =>
              /\ at \in 3 .. lens[idx] + 1 /\ ~ last /\ ~ atEnd
              /\ vr[slot] = <<idx, at - 2>> /\ vr[3 - slot] = <<idx, at - 1>>
              /\ area = vr[slot]
        /\ state \in {99, 104} =>
              /\ at = lens[idx] + 1 /\ last /\ atEnd
              /\ area = IF lens[idx] = 0 THEN Blank ELSE <<idx, lens[idx]>>
        /\ pc = "load" => rec = Inserted \/ (rec = area /\ state \notin {6, 7})
        /\ pc = "load" /\ rec = Inserted => state \in {6, 7, 104}

PlaceWithoutExit ==
    /\ state = 0
    /\ pc \in {"count", "exit", "load"} => at \in 2 .. lens[idx] + 1 /\ area = <<idx, at - 1>>
    /\ pc = "load" => rec = area

FilesInv ==
    /\ Reading \/ pc = "close" => idx <= NumFiles
    /\ pc = "end" => idx > NumFiles
    /\ pc = "round" => idx = currFile
    /\ ~ seg /\ pc = "round" =>
          idx = 1 /\ at = 1 /\ recCount = 0 /\ loaded = <<>> /\ deleted = {}
    /\ pc = "exit" => rec = area
    /\ exit /\ pc \in {"count", "exit"} => state \in {1, 2, 99, 104}

(* The open file is not read further than its end. *)
InBounds ==
    Reading \/ pc = "round" \/ (pc = "file" /\ seg /\ ~ eofIn) => at <= lens[idx] + 1

(* An exit's job reads the files from end to end: memory does not fill,    *)
(* and they are not keyed.                                                 *)
Straight == TRUE \notin MemoryFills /\ ~ keyed

PlaceInv ==
    /\ FilesInv /\ InBounds
    /\ exit /\ Straight => PlaceWithExit
    /\ ~ exit => PlaceWithoutExit

(* The first record that is not dealt with yet. *)
Ahead ==
    IF pc = "close" THEN <<idx + 1, 1>>
    ELSE IF pc = "file" /\ (~ seg \/ eofIn) THEN <<idx, 1>>
    ELSE IF pc \in {"count", "exit", "load"} \/ state \in {6, 7} THEN area
    ELSE IF pc = "read" /\ state \in {1, 2, 99} THEN <<idx, area[2] + 1>>
    ELSE <<idx, at>>

(* nRecCount tells the number of the record, as far as it matters. *)
Tells(n, c) == n <= c /\ (n < c => skipRec < n /\ stopAft < n)

CountInv ==
    /\ pc # "round" \/ seg =>
          Tells(recCount, IF pc \in {"exit", "load"} THEN Number(area)
                                                     ELSE Cardinality(Past(Ahead)))
    /\ ~ exit /\ pc \in {"exit", "load"} =>
          Number(area) > skipRec /\ (stopAft > 0 => Number(area) <= stopAft)

Wanted == IF exit THEN InputRecords \ (deleted \cup omit) ELSE Selected

(* A file ends with its last record delivered. *)
Between == pc \in {"round", "file", "close", "end"} => state \in {0, 99}

(* What is wanted of the records before is loaded, and nothing else. *)
LoadedInv ==
    /\ Between
    /\ state # 104 =>
          /\ InOrder(loaded)
          /\ ToSet(loaded) \ {Inserted} = Wanted \cap Past(Ahead)
          /\ deleted \subseteq Past(Ahead)

LoadInv ==
    /\ TypeOK /\ PlaceInv
    /\ ~ exit /\ pc # "failed" => CountInv
    /\ Sized /\ (exit => Straight) /\ pc # "failed" => LoadedInv
    /\ LoadsInOrder
    /\ TRUE \notin MemoryFills => FlagTellsFileEnd

(* The input being finite, the load ends.                                  *)
Terminates == <>(pc \in {"end", "failed"})

(* ... with an exit too, as long as it does not insert a record when it is *)
(* shown the last one of a file (VerifyOther).                             *)
ExitTerminates == <>(pc \in {"end", "failed"} \/ state = 104)
=============================================================================
