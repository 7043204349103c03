------------------------------ MODULE GcThread ------------------------------
(***************************************************************************)
(* The multithreaded sort of GCSORT (src/tools/GCSORT/gcthread.c): N jobs  *)
(* are built alike, N threads each read all the input but keep only their  *)
(* own share, sort it and save it when memory fills; the main thread joins *)
(* them and merges what they left.                                         *)
(*                                                                         *)
(* Shares are disjoint only because every thread counts records the same   *)
(* way; the one thing they share is the mutex around each libcob call.  A  *)
(* critical section that is left again is one step here.  Sorting and the  *)
(* temporary files of a thread are GcTempFiles's: here they keep a set.    *)
(***************************************************************************)
EXTENDS Integers, FiniteSets

CONSTANTS
    NThreads,       \* the number of threads (nMaxThread)
    NumFiles,       \* the number of input files
    Inputs,         \* the records of each file, for each input
    Organizations,  \* of the input: "sequential", "line" or "variable"
    Slot,           \* the records one read of job_skip_record skips
    MemoryFills,    \* a thread's memory may become full
    MayMiss         \* an input file may be missing

ASSUME ThreadAssumption ==
    /\ NThreads \in Nat \ {0} /\ NumFiles \in Nat \ {0}
    /\ Inputs \subseteq [1 .. NumFiles -> Nat]
    /\ Organizations \subseteq {"sequential", "line", "variable"}
    /\ Slot \in Nat \ {0}
    /\ Slot >= NThreads     \* at least 250 records of 32768 bytes, at most 16 threads
    /\ MemoryFills \in BOOLEAN /\ MayMiss \in BOOLEAN

VARIABLES
    lens, org, estimate, missing,  \* the input
    lock,       \* the holder of job_thread_mutex, 0 for none
    pc,         \* where each thread is
    seg, curr, recCount,           \* as in GcLoad, for each thread's job
    idx, eofIn, at, atEnd,
    firstDone,  \* bThreadIsFirstRound: the share before this one was skipped
    turn,       \* nCountRecThread: records until this thread's turn
    more,       \* nContinueSrtTmp
    nRC,        \* the thread's nRet
    mem,        \* the records in each thread's buffers
    tmp,        \* the records in each thread's temporary files
    main,       \* "join", "merge" or "returned"
    out         \* the records written to the output

input  == <<lens, org, estimate, missing>>
place  == <<idx, eofIn, at, atEnd, firstDone, turn>>
vars   == <<input, lock, pc, seg, curr, recCount, place, more, nRC, mem, tmp, main, out>>

Threads == 1 .. NThreads
Free == 0

AllRecords == UNION {{<<f, i>> : i \in 1 .. lens[f]} : f \in 1 .. NumFiles}

RoundRobin == org = "variable"     \* job_check: READ_ROUND_ROBIN, else READ_BLOCK_CHUNK

(* gcthreadSkipStop: the share of each thread is a block of the records    *)
(* that the size of the first file promises; the last one has the rest.    *)
Block == IF estimate \div NThreads = 0 THEN 1 ELSE estimate \div NThreads

(* Mutation: a share begins with the last record of the one before. *)
MTSkipRecLess(t) == (t - 1) * Block - 1

MTSkipRec(t) == (t - 1) * Block

(* Mutation: the last share ends like the others. *)
MTStopAftAll(t) == t * Block

MTStopAft(t) == IF t = NThreads THEN 0 ELSE t * Block

Init ==
    /\ lens \in Inputs
    /\ org \in Organizations
    \* the size of fixed records is exact; lines are shorter, or have line ends
    /\ estimate \in IF org = "line" THEN 0 .. 2 * lens[1] ELSE {lens[1]}
    /\ missing \in SUBSET (IF MayMiss THEN 1 .. NumFiles ELSE {})
    /\ lock = Free
    /\ pc = [t \in Threads |-> "round"]
    /\ seg = [t \in Threads |-> FALSE]
    /\ curr = [t \in Threads |-> 1]
    /\ recCount = [t \in Threads |-> 0]
    /\ idx = [t \in Threads |-> 1]
    /\ eofIn = [t \in Threads |-> FALSE]
    /\ at = [t \in Threads |-> 1]
    /\ atEnd = [t \in Threads |-> FALSE]
    /\ firstDone = [t \in Threads |-> FALSE]
    /\ turn = [t \in Threads |-> 0]
    /\ more = [t \in Threads |-> FALSE]
    /\ nRC = [t \in Threads |-> 0]
    /\ mem = [t \in Threads |-> {}]
    /\ tmp = [t \in Threads |-> {}]
    /\ main = "join"
    /\ out = {}

Go(t, label) == pc' = [pc EXCEPT ![t] = label]

-----------------------------------------------------------------------------
(* gcthread_run and job_loadFiles, one thread. *)

StartRound(t) ==
    /\ pc[t] = "round"
    /\ recCount' = [recCount EXCEPT ![t] = IF seg[t] THEN @ ELSE 0]
    /\ idx' = [idx EXCEPT ![t] = curr[t]]
    /\ eofIn' = [eofIn EXCEPT ![t] = FALSE]
    /\ mem' = [mem EXCEPT ![t] = {}]
    /\ more' = [more EXCEPT ![t] = FALSE]
    /\ Go(t, "file")
    /\ UNCHANGED <<input, lock, seg, curr, at, atEnd, firstDone, turn, nRC, tmp, main, out>>

(* The turn of round robin starts again with each file, unless the job has *)
(* been segmented.                                                         *)
EnterFile(t) ==
    /\ turn' = [turn EXCEPT ![t] = IF RoundRobin /\ ~ seg[t] THEN t ELSE @]
    /\ Go(t, IF ~ RoundRobin /\ MTSkipRec(t) > 0 /\ ~ firstDone[t] THEN "skip" ELSE "read")

GoesOn(t) == seg[t] /\ ~ eofIn[t]

ResumeFile(t) ==
    /\ pc[t] = "file" /\ idx[t] <= NumFiles
    /\ GoesOn(t)
    /\ EnterFile(t)
    /\ UNCHANGED <<input, lock, seg, curr, recCount, idx, eofIn, at, atEnd, firstDone,
                   more, nRC, mem, tmp, main, out>>

OpenFile(t) ==
    /\ pc[t] = "file" /\ idx[t] <= NumFiles
    /\ ~ GoesOn(t)
    /\ lock = Free
    /\ idx[t] \notin missing
    /\ at' = [at EXCEPT ![t] = 1]
    /\ atEnd' = [atEnd EXCEPT ![t] = FALSE]
    /\ eofIn' = [eofIn EXCEPT ![t] = FALSE]
    /\ EnterFile(t)
    /\ UNCHANGED <<input, lock, seg, curr, recCount, idx, firstDone, more, nRC,
                   mem, tmp, main, out>>

(* Mutation: the mutex is released. *)
OpenFailsReleases(t) ==
    /\ pc[t] = "file" /\ idx[t] <= NumFiles
    /\ ~ GoesOn(t)
    /\ lock = Free
    /\ idx[t] \in missing
    /\ nRC' = [nRC EXCEPT ![t] = -1]
    /\ Go(t, "ended")
    /\ UNCHANGED <<input, lock, seg, curr, recCount, place, more, mem, tmp, main, out>>

(* cob_open fails: goto lbex, past job_UnlockResource. *)
OpenFails(t) ==
    /\ pc[t] = "file" /\ idx[t] <= NumFiles
    /\ ~ GoesOn(t)
    /\ lock = Free
    /\ idx[t] \in missing
    /\ lock' = t
    /\ nRC' = [nRC EXCEPT ![t] = -1]
    /\ Go(t, "ended")
    /\ UNCHANGED <<input, seg, curr, recCount, place, more, mem, tmp, main, out>>

(* job_skip_record: whole slots of the records before the share in a file  *)
(* of fixed records; in a file of lines all of them, which are counted     *)
(* even when the file has fewer.                                           *)
SkipRecords(t) ==
    /\ pc[t] = "skip"
    /\ lock = Free
    /\ LET skip == IF org = "line" THEN MTSkipRec(t)
                                   ELSE (MTSkipRec(t) \div Slot) * Slot
           next == at[t] + skip
           past == next > lens[idx[t]] + 1
       IN  /\ recCount' = [recCount EXCEPT ![t] = @ + skip]
           /\ at' = [at EXCEPT ![t] = IF past THEN lens[idx[t]] + 1 ELSE next]
           /\ atEnd' = [atEnd EXCEPT ![t] = past]
    /\ firstDone' = [firstDone EXCEPT ![t] = TRUE]
    /\ Go(t, "read")
    /\ UNCHANGED <<input, lock, seg, curr, idx, eofIn, turn, more, nRC, mem, tmp, main, out>>

CloseFile(t) ==
    /\ idx' = [idx EXCEPT ![t] = @ + 1]
    /\ eofIn' = [eofIn EXCEPT ![t] = TRUE]
    /\ Go(t, "file")

(* Whose record it is, once it has been counted. *)
MyTurn(t)    == RoundRobin /\ turn[t] <= 1
MyBlock(t)   == /\ ~ RoundRobin
                /\ recCount[t] + 1 > MTSkipRec(t)
                /\ MTStopAft(t) > 0 => recCount[t] + 1 <= MTStopAft(t)
PastBlock(t) == /\ ~ RoundRobin
                /\ recCount[t] + 1 > MTSkipRec(t)
                /\ MTStopAft(t) > 0 /\ recCount[t] + 1 > MTStopAft(t)

ReadRecord(t) ==
    /\ pc[t] = "read"
    /\ lock = Free
    /\ at[t] <= lens[idx[t]]
    /\ at' = [at EXCEPT ![t] = @ + 1]
    /\ recCount' = [recCount EXCEPT ![t] = @ + 1]
    /\ turn' = [turn EXCEPT ![t] =
                   IF ~ RoundRobin THEN @ ELSE IF MyTurn(t) THEN NThreads ELSE @ - 1]
    /\ IF MyTurn(t) \/ MyBlock(t)
         THEN /\ mem' = [mem EXCEPT ![t] = @ \cup {<<idx[t], at[t]>>}]
              /\ \/ UNCHANGED <<pc, seg, curr, more>>
                 \/ /\ MemoryFills       \* job_LoadInMemory: -2
                    /\ seg' = [seg EXCEPT ![t] = TRUE]
                    /\ curr' = [curr EXCEPT ![t] = idx[t]]
                    /\ more' = [more EXCEPT ![t] = TRUE]
                    /\ Go(t, "save")
              /\ UNCHANGED <<idx, eofIn>>
         ELSE /\ UNCHANGED <<mem, seg, curr, more>>
              /\ IF PastBlock(t) THEN CloseFile(t) ELSE UNCHANGED <<pc, idx, eofIn>>
    /\ UNCHANGED <<input, lock, atEnd, firstDone, nRC, tmp, main, out>>

(* Mutation: the mutex is not released at the end of a file. *)
EndOfFileLocks(t) ==
    /\ pc[t] = "read"
    /\ lock = Free
    /\ at[t] > lens[idx[t]] /\ ~ atEnd[t]
    /\ lock' = t
    /\ atEnd' = [atEnd EXCEPT ![t] = TRUE]
    /\ CloseFile(t)
    /\ UNCHANGED <<input, seg, curr, recCount, at, firstDone, turn, more, nRC,
                   mem, tmp, main, out>>

EndOfFile(t) ==
    /\ pc[t] = "read"
    /\ lock = Free
    /\ at[t] > lens[idx[t]] /\ ~ atEnd[t]
    /\ atEnd' = [atEnd EXCEPT ![t] = TRUE]
    /\ CloseFile(t)
    /\ UNCHANGED <<input, lock, seg, curr, recCount, at, firstDone, turn, more, nRC,
                   mem, tmp, main, out>>

(* A read past the end of file (status 46) is fatal: file_checkFSRead, -1. *)
ReadFails(t) ==
    /\ pc[t] = "read"
    /\ lock = Free
    /\ at[t] > lens[idx[t]] /\ atEnd[t]
    /\ nRC' = [nRC EXCEPT ![t] = -1]
    /\ Go(t, "ended")
    /\ UNCHANGED <<input, lock, seg, curr, recCount, place, more, mem, tmp, main, out>>

EndFiles(t) ==
    /\ pc[t] = "file" /\ idx[t] > NumFiles
    /\ Go(t, "save")
    /\ UNCHANGED <<input, lock, seg, curr, recCount, place, more, nRC, mem, tmp, main, out>>

(* job_sort_data, then job_save_tempfile if the job is segmented: the      *)
(* records stay in memory too until the next round.                        *)
Save(t) ==
    /\ pc[t] = "save"
    /\ tmp' = IF seg[t] THEN [tmp EXCEPT ![t] = @ \cup mem[t]] ELSE tmp
    /\ Go(t, IF more[t] THEN "round" ELSE "ended")
    /\ UNCHANGED <<input, lock, seg, curr, recCount, place, more, nRC, mem, main, out>>

-----------------------------------------------------------------------------
(* gcthread_start, the main thread. *)

Join ==
    /\ main = "join"
    /\ \A t \in Threads : pc[t] = "ended"
    /\ main' = "merge"
    /\ UNCHANGED <<input, lock, pc, seg, curr, recCount, place, more, nRC, mem, tmp, out>>

(* gcthread_save_final: all the temporary files or all the memories,       *)
(* as the first thread's job says.  The threads' nRet is not looked at and *)
(* rtc stays 0.                                                            *)
SaveFinal ==
    /\ main = "merge"
    /\ out' = IF seg[1] THEN UNION {tmp[t] : t \in Threads}
                        ELSE UNION {mem[t] : t \in Threads}
    /\ main' = "returned"
    /\ UNCHANGED <<input, lock, pc, seg, curr, recCount, place, more, nRC, mem, tmp>>

Terminated == main = "returned" /\ UNCHANGED vars

ThreadStep(t) ==
    \/ StartRound(t) \/ ResumeFile(t) \/ OpenFile(t) \/ OpenFails(t) \/ SkipRecords(t)
    \/ ReadRecord(t) \/ EndOfFile(t) \/ ReadFails(t) \/ EndFiles(t) \/ Save(t)

MainStep == Join \/ SaveFinal

Next == (\E t \in Threads : ThreadStep(t)) \/ MainStep \/ Terminated

Spec == Init /\ [][Next]_vars

(* The system runs every thread. *)
FairSpec == Spec /\ WF_vars(MainStep) /\ \A t \in Threads : WF_vars(ThreadStep(t))

-----------------------------------------------------------------------------
(* Properties. *)

(* The type invariant. *)
TypeOK ==
    /\ lock \in Threads \cup {Free}
    /\ pc \in [Threads -> {"round", "file", "skip", "read", "save", "ended"}]
    /\ idx \in [Threads -> 1 .. NumFiles + 1]
    /\ \A t \in Threads :
         /\ at[t] \in Nat \ {0}
         /\ turn[t] \in 0 .. NThreads
         /\ RoundRobin /\ pc[t] = "read" => turn[t] # 0
         /\ mem[t] \cup tmp[t] \subseteq AllRecords

Kept(t) == mem[t] \cup tmp[t]

AllWell == \A t \in Threads : nRC[t] = 0

(* A thread that was segmented goes on with its old turn at the next file, *)
(* the others start again: from there on the shares are not what they were *)
(* meant to be.                                                            *)
TurnsApart == RoundRobin /\ NumFiles > 1 /\ \E t \in Threads : seg[t]

(* No record is in the share of two threads, although each decides alone,  *)
(* from its own count of what it has read, skipped slots included.         *)
SharesDisjoint ==
    ~ TurnsApart =>
        \A t, u \in Threads : t # u => Kept(t) \cap Kept(u) = {}

(* When the threads have ended well, every record was taken by one of      *)
(* them, whatever the size of the file promised (gcthreadSkipStop).        *)
SharesComplete ==
    main = "merge" /\ AllWell /\ ~ TurnsApart =>
        UNION {Kept(t) : t \in Threads} = AllRecords

ShareInv == TypeOK /\ SharesDisjoint /\ SharesComplete

(* ... and gcthread_save_final writes them all, if all the threads agree   *)
(* on where their records are, in memory or in temporary files.            *)
WritesAllIfAlike ==
    main = "returned" /\ AllWell /\ ~ TurnsApart
        /\ (\A t \in Threads : seg[t] = seg[1]) => out = AllRecords

(* "Merge all temporary files" (gcthread.c): what was read is written.     *)
WritesAll == main = "returned" /\ AllWell => out = AllRecords

(* With one thread, or when all threads but the first skip past the end of *)
(* an empty file of lines, the first one ends with the mutex and nobody    *)
(* needs it any more: the records of the files before are written.         *)
TwoNeedTheMutex == NThreads > 1 /\ (org = "line" => lens[1] > 0)

(* Otherwise, when an input file is missing no record is written: a sort   *)
(* of part of the input never replaces the output (job_loadFiles,          *)
(* gcthread_start).                                                        *)
NoPartialOutput == missing # {} /\ TwoNeedTheMutex => out = {}

(* "Return code : 0 (ok) - 4 (warning) - 16 (error)" (README): the program *)
(* returns.                                                                *)
Returns == <>(main = "returned")

(* It does when every input file can be opened: no thread keeps the mutex  *)
(* or waits for a record that does not come.                               *)
ReturnsIfFound == missing = {} => Returns
=============================================================================
