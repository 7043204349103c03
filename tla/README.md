# A TLA+ development of gnucobol-contrib

gnucobol-contrib is a collection of tools, samples and bindings around
GnuCOBOL. Most of it transforms text in one pass. Four of its programs keep
state that is hard to test: **GCSORT** (`src/tools/GCSORT`), an external sort
with temporary files, user exits and threads; **ocsql** (`src/esql/ocsql`), the
runtime of embedded SQL with its cache of prepared statements;
**CBL_GC_SOCKET** (`src/ipc/CBL_GC_SOCKET`), a pool of TCP connections; and
**VFILES** (`src/tools/VFILES-virtual-heap-routines`), heaps made of linked
segments. GCSORT is by far the largest and the one whose failures cost data, so
this development began there.

1. [Inventory](#1-inventory)
2. [Modules and code](#2-modules-and-code)
3. [Runs](#3-runs)
4. [Divergences](#4-divergences)
5. [Proofs](#5-proofs)
6. [What is not modelled](#6-what-is-not-modelled)
7. [Plan](#7-plan)

## 1. Inventory

| Part | State | Operations | Hard behaviour |
|---|---|---|---|
| GCSORT load: `job_loadFiles`, `job_Verify_EOF`, `E15Call` | current file (`nCurrFileInput`), `nRecCount`, the open file's position, the look-ahead of the exit (`nState`, `szVectorRead1/2`, `nLastRecord`), `bIsPresentSegmentation` | open, read, skip, stop, call the exit, keep a record, stop because memory is full (-2), go on | memory fills at any record; answers of the exit; empty and one-record files |
| GCSORT sort and save: `job_sort`, `job_save_tempfile`, `job_save_out`, `job_save_tempfinal` | the sort buffer, 16 temporary files and their `nCountSrt`, `nIndextmp`, the write cache `bufferwriteglobal` | load/sort/save rounds, merge of a round with an old file, final merge | the ring turns only after 16 rounds; a record pending between two loops; failing writes; ties |
| GCSORT threads: `gcthread.c` | a job per thread, `job_thread_mutex` | start, run, join, final merge | shares decided by each thread alone; error paths that keep the mutex; threads that differ in whether memory filled |
| GCSORT merge: `job_merge_files`, `sumfield.c` | one record of each input, `nSumEof`, the record owed (`szPrecSumFields`), the totals, `recordBufferPrevious` | k-way merge, group equal keys, discard repeated ones | files that end at different times; a group written one record late; overflow of a sum |
| GCSORT join: `join.c` | a group of equal keys of each file (`pDataF1`, `pDataF2`), the commands `f1_cmd` and `f2_cmd`, the end of file flags and their sum, the record buffers | sort both files, compare groups, decide by join type what is written and read next, sort the result | repeated keys, one file that ends before the other, an empty file, rows of one file alone that overwrite the buffers |
| GCSORT copy: `copyfile.c` | counts | one loop over the files | - |
| GCSORT records: `inrec.c`, `outrec.c`, `outfil.c`, `changefield.c`, `findreplace.c` | - | rewrite bytes | - |
| GCSORT statements: `parser.y`, `scanner.l`, `condfield.c`, `sortfield.c`, `utils.c`, ... | the job being built | parse, check | none with state |
| CBL_GC_SOCKET: `cob_socket.cpp` | `st_sockets`, the pool of connections; `lst_last_sock` | open, accept, connect, read with a timeout, write, next read, close | short reads and writes, descriptors that are used again, a pool that fills, a peer that dies in the middle of a record |
| VFILES: `cbl_vfiles.c` | `heap_array[512]`, segments | `CBL_OPEN/READ/WRITE/CLOSE_VFILE` | a heap that grows across segments; memory that runs out half way |
| ocsql: `ocsql2.cpp` | `hEnv`, `nConn`, the `sConn` of each connection, a `mysql` per statement with a handle per database (`DBL`), `SQL-PREP` and `SQL-IPTR` in the COBOL program | CONNECT, DISCONNECT, EXECUTE IMMEDIATE, PREPARE, EXECUTE, OPEN, FETCH, CLOSE | handles that outlive a connection, a database or a text; failures between the steps of a CONNECT or a PREPARE |
| esqlOC, cobjapi, cobxref, ocsort, samples, ... | - | - | text transformers, bindings, examples, I/O |

How the parts of GCSORT meet: the parser builds one `job_t`. Without threads,
`job_sort` repeats load, sort and save until the load stops saying -2; a single
round goes straight to the output (`job_save_out`), several go through the
temporary files and a final merge (`job_save_tempfinal`). With threads,
`gcthread_start` builds N jobs alike, each thread reads the *whole* input and
keeps only its share, and `gcthread_save_final` merges what they leave. The
only things threads share are the input files, which each opens for itself, and
the mutex around every call of libcob.

What makes each part correct:

* load: what is loaded does not depend on where memory filled; SKIPREC and
  STOPAFT count through files and rounds; an exit sees each record once, is
  told the last one, and only its answer 4 removes a record;
* sort and save: no record is lost or repeated through any number of rounds,
  the ring never overwrites a file that holds records, every temporary file is
  in order, the final merge sees every file that has records, ties keep the
  order of reading, a failed job does not look like a good one;
* threads: the shares are disjoint, together they are the input, all of them
  reach the output, and the program returns;
* merge: the output is in order, no record is lost or written twice, each key
  is written once under SUM FIELDS with the sum of all its records, and the
  loop ends when the last file has;
* join: every pair of records with equal keys is one row, a record without a
  match is a row when the type asks for it, and the loop ends;
* VFILES: each file is a store of bytes, whatever other files do and wherever
  memory runs out; no segment is lost or linked twice;
* ocsql: what is executed is the statement as it is now, on the connection and
  in the database it is meant for; nothing is left behind by a connect or a
  prepare that failed, and a failed prepare is tried again;
* CBL_GC_SOCKET: the pool is what is open, what is read is a whole record of one
  client, and every client is served.

`PROJECT.json` lists the hazards one by one, at their lines.

## 2. Modules and code

| Module | Models |
|---|---|
| `GcRecords` | a record as its key and its position; the two comparisons; what `qsort` may return |
| `SortedOutput` | abstract: a sort reads records, then writes each once, a least one first |
| `GcTempFiles` | `job_sort`, `job_save_tempfile`, `job_save_out`, `job_save_tempfinal`, `job_IdentifyBuf`, `write_buffered` |
| `GcTempFilesProofs` | theorems about `GcTempFiles`: types, the ring of files, the records and their order, the refinement of `SortedOutput` |
| `GcLoad` | `job_loadFiles` in one thread, `job_Verify_EOF`, the E15 protocol |
| `GcLoadProofs` | theorems about `GcLoad` |
| `GcThread` | `gcthread_start`, `gcthread_run`, `gcthreadSkipStop`, `gcthread_save_final` and what `job_loadFiles` does differently in a thread |
| `GcThreadProofs` | theorems about `GcThread` |
| `GcMerge` | `job_merge_files`, `job_IdentifyBufMerge`, `job_ReadFileMerge`, `SumFields_KeyCheck`, the totals of `sumfield.c` |
| `GcMergeProofs` | theorems about `GcMerge` |
| `GcJoin` | `job_joiner`, `join_join_files`, `join_unpaired`, `join_ReadFile`, `join_empty_fileF1`, `F2` and `F1F2` |
| `GcJoinProofs` | theorems about `GcJoin` |
| `VStore` | abstract: an open virtual file is a store of bytes |
| `VFile` | `CBL_OPEN_VFILE`, `CBL_READ_VFILE`, `CBL_WRITE_VFILE`, `CBL_CLOSE_VFILE`, `LOCATE_SEGMENT`, `CREATE_FIRST_SEGMENT`, `GET_NEW_SEGMENT` |
| `VFileStore` | how `VFile` implements `VStore` |
| `VFileProofs` | theorems about `VFile` and `VFileStore` |
| `OcSql` | the ocsql runtime, called as esqlOC generates the calls |
| `OcSqlProofs` | theorems about `OcSql` |
| `CobSocket` | `cob_socket.cpp` between `MULTISRV.COB` and any number of `CLIENT.COB` |
| `CobSocketProofs` | theorems about `CobSocket` |
| `MC...` | small instances for TLC |

### GcTempFiles

`pc` is where `job_sort` is: *load*, *save* (entry of `job_save_tempfile`),
*merge* (the loop over the sort buffer), *tail* (what is left of the source),
*close* (`job_save_exit`), then *direct* or *final* for the two ways to the
output. `cur` is `nIndextmp` and `Source` is `nIndextmp2`: each save truncates
the file after the last one, and merges into it the file after that, once that
file has been used. `cache` is what `write_buffered` has not handed to
`write(2)`; a write that fails is possible exactly when the cache is flushed.
`src` is what is left of the mapped source, and `skip` is `bSkip`: a record has
been read from it and is pending. A load is one step here, and is `GcLoad`'s
subject; a record is written in one step although the code writes length and
body by two calls.

Ties. `job_compare_rek` looks for the position of a record at an offset that is
right only when the buffer begins with the length *and* the record has the
output's length. In `job_save_tempfile` it does not begin with the length, so
what is compared is part of the position and bytes behind it: the model lets a
tie go either way (`MayPrecede`). In `job_save_tempfinal` it does, and the
comparison is exact for fixed-length records (`FixedLength`). `job_sort_data`'s
`qsort` always compares the true position (`Before`).

### GcLoad

One action per stage of the loop: start of a call, start of a file, read or
look-ahead, count (SKIPREC, STOPAFT), exit, INCLUDE/OMIT and
`job_LoadInMemory`, close. What the job keeps between calls (`seg`, `currFile`,
`recCount`, the open file) is separate from what is local to a call or to one
file's turn (`state`, `vr`, `last`, `rc`, `nrek`): this is the point of the
module, because memory may fill anywhere. Two facts of libcob are used: an end
of file leaves the record area as it was, and a read after it is an error
(status 46). `recCount` stops at `CountCap`, past which nothing reads it.
In an indexed or relative file (`keyed`) the READ PREVIOUS of the look-ahead
goes back (`VerifyBack`), in a sequential one it is one more READ NEXT
(`VerifyFirst`); all files of a job are of one kind here. The history `loaded`
is kept whole, but for the load that goes on for ever with the last record of a
file (divergence 7, `PastLast`), where it stops at `MaxLoaded`. Which records
INCLUDE or OMIT leaves out is any set (`Omits`).

### GcThread

A step of a thread is one critical section of `job_thread_mutex`, or the code
up to the next one; `lock` holds a thread only where the code leaves the
section without releasing it. A share is by blocks of an estimated record count
(`gcthreadSkipStop`), or by turns for variable records (`READ_ROUND_ROBIN`).
The estimate is exact for fixed records; for a line sequential file it is any
number up to twice the truth, since it comes from the file's size.
`job_skip_record` skips whole slots for fixed records and single lines
otherwise. A thread keeps sets of records: their order is `GcTempFiles`'
subject.

### GcMerge

`buf` is `ptrBuf`, the record held of each file; `Chosen` is the file
`job_IdentifyBufMerge` returns, exactly: the least key, then the least of the
bytes that `job_compare_rek` takes for a position (a record just read has none,
so they are the end of its data: `tail`), then the first file. One action per
outcome of the loop's body: left out, plain, first or repeated under
SUM FIELDS=NONE, same or other key under SUM FIELDS. With XSUM the first
discarded record ends the merge, as its write fails (`AfterDiscard`, divergence
13). `prec` and `total` are the group that is owed. Totals wrap at `Modulus`, as
`cob_add` cuts off the digits a field cannot hold.

### GcJoin

`rest` is what is left of each (sorted) file and `group` the records of one key
that are in memory. One action per pair of the two groups: `Commands`, `Ends`,
`EofAfter` and `Fills` are `join_unpaired`. The code writes its table out seven
times, once for each join type; the operators say what the seven have in common
and name the types that differ (`Inner` for the ends, `Turn` and `Late` for the
types that look at the end of the other file, the missing read of the right
outer join), so each of them stands for all of lines 1547-1996 of `join.c`; the
map gives each the table where it shows best. `Round` is the head of the main
loop, which turns a command for a file that has ended into a read of the other.
When one file is empty the check of a SORTED F2 is made after the next read
(`AloneOutOfSequence`), with what an end of file leaves in the area; `LineFiles`
says which of the two F2 is. At most one of SORTED, INCLUDE/OMIT/STOPAFT of a
JOINKEYS, INCLUDE/OMIT of the job and the final SORT FIELDS is used at a time
(`Options`). The model was compared with the functions of `join.c`, compiled
with stubs for the files, on 2527 small inputs: the rows, and the inputs on
which the loop does not end, are the same. A loop that does not end writes the
same rows again and again: the output keeps the first `MaxRows` rows and, of
those that come later, each one that is not there yet, so that no row is lost to
the bound.

### VFile

`seg` is the memory: a segment is named by its address and has the header of the
code (`heap_id`, previous, next, number, first and last location) and its bytes.
The walk of `LOCATE_SEGMENT` and its move loop are one action per turn of the
loops, so that memory may run out at each. `Fresh` is what a new segment holds:
anything in `Garbage`, unless `CBL_MEM_ALLOC_INIT=ON`. A call for a heap that is not open
dereferences NULL (*fault*); nothing is said of what follows.

### OcSql

The program is any sequence of the statements of the instance; a statement is
static (prepared `IF SQL-PREP = 'N'`), has an indicator (always `'A'`) or is
dynamic, as esqlOC generates it. ODBC is external: handles are named by the
ODBC connection they were allocated on, the database the session was in and the
text, and die with the connection; any call may fail. `pc` is between the
`OCSQLPRE` and the `OCSQLEXE` of one EXEC SQL, where WHENEVER may leave it.
`OCSQLOCU` treats the flags as `OCSQLEXE` does and is the same action. COMMIT
and ROLLBACK change none of the variables. The instance keeps `OCSQLMAX` at
least as large as the number of databases, so that the array of handles, which
grows for one connection and is indexed for another, never has to grow.

### CobSocket

A step is one call of the kernel. `fds` is what each descriptor of the server
is, given out lowest first; `avail` bytes of a connection wait to be read; reads
and writes move any number of bytes. MULTISRV loops over function 10 (a new
connection, or the next readable one after the one delivered last), 04 (a
record of 10 bytes) and 06; CLIENT sends records and at last 'close', and may be
killed anywhere. A select or an accept may fail for want of a descriptor
(`NextAcceptFails`) or for another reason, up to `MaxFails` times (`NextFails`):
both are 98, and MULTISRV, which asks for ENTER (`HandleError`) and goes on, then
calls function 04 with the handle it has. This is the last connection, the 0
that function 06 left, or none yet: the server reads its standard input
(`ReadTerminal`) or gets error 3 (`ReadRefused`). If that input ends or says
'close', function 06 closes descriptor 0, the next connection gets it, and from
then on ENTER is read from that client (`HandleErrorOfClient`). Only for what
`CallsAreRight` shows not to come is there no action: errors 3 and 4 of function
10, and those of function 06.

### Refinement

`ImplementsSort` is `SortedOutput!Spec` with `pending` mapped to all records
held in the buffers, the cache and the temporary files, and `phase` to the part
of `job_sort`. Every save, flush and truncation is a stutter: it moves records
and may neither lose nor repeat one. The write of a record is `Emit`, which
demands a least key of everything held. The run has no failures; with failures
records are lost by design (see below), and the abstract sort does not promise
otherwise.

`ImplementsStore` (`VFileStore`) is `VStore!Store` with the byte at a location
found in the segment that holds it, `ByteAt`. While CLOSE runs the file is closed
already (`OpenFiles`) and there is no call (`Call`). The walk is a stutter, a new segment is `Grows` (no byte
that had memory changes), each `memcpy` is `Moves`, which demands that the next
bytes of the caller's buffer and the next locations of the file are moved, in
this file and no other. It is checked with failures: when memory runs out the
call returns 3 and the bytes moved before stay moved.

## 3. Runs

| Run | Instance | States | Shows |
|---|---|---|---|
| `ring` | 3 files, 5 records, rounds of up to 2, cache of 2, no failures | 19 thousand | every record is in exactly one place (`ExactlyOnce`); ties keep the order of reading until the ring has turned (`StableWithoutReuse`); the job refines `SortedOutput` |
| `ring_faults` | 3 files, 5 records, cache of 1, variable length, any open, read or write may fail | 79 thousand | nothing is written twice (`NeverTwice`), output and temporary files are in order, counts tell which files have records, `job_IdentifyBuf` searches all of them inside its array, the ring does not overwrite (`NeverOverwrites`, `RingInv`), the job ends |
| `load` | files of up to 3 records; without an exit SKIPREC and STOPAFT 0-2, memory fills anywhere, opens fail; with an exit sequential or keyed files and every answer on every record | 1.8 million | the load is where its variables tell (`LoadInv`); what is loaded is a beginning of what the statements select, in order, and all of it at the end; reading ahead does not change the sequence of the records of sequential files; the exit is told 8 at the end of each of them and nowhere else; the load ends unless the exit inserted after a last record |
| `threads` | 3 threads, 2 files, all organizations, memory fills, files may be missing | 600 thousand | shares are disjoint and complete (`ShareInv`), all is written when the threads agree on where their records are, nothing is written of an input with a missing file, the program returns when the files exist |
| `threads_merge` | 2 threads, 1 file | violation | divergence 1 |
| `merge` | 3 files in the shapes 1-2-1, 2-0-2 and 0-0-0, 2 keys, any records left out, with and without XSUM | 381 thousand | the merge is in order and complete, the loop ends with the last file (`MergeInv`), keys are written once with the right sums, and of each key a first record is kept (`FirstIsKept`) |
| `join` | files of 0 to 3 records in nine shapes, 3 keys, 7 join types, every option, F2 line sequential | 274 thousand | matched rows are complete and once for any keys; the rows of the inner, the left outer and the F1 only join are exact for unique keys; no false sequence error but that of a lone line sequential F2 (divergence 14); the loop ends but for the inputs of divergence 9 |
| `join_outer` | the same, no failures | violation | divergence 2 |
| `vfile` | 2 files, 5 segments of 4 bytes, memory runs out, addresses symmetric | 26 thousand | the lists stay linked and no segment is lost (`HeapInv`), the routines implement `VStore`, the walk comes nearer at each turn (`ComesNearer`) |
| `ocsql` | 3 statements, 2 connections, 2 databases, 2 texts, any call fails | 34 thousand | environments, connections and cached statements are freed and counted right, what runs is what was asked, a failed prepare is tried again |
| `ocsql_reconnect` | 1 statement, 2 connections | violation | divergence 3 |
| `socket` | 2 clients, descriptors up to 2 or 3, records of 3 bytes, one failure of select or accept | 131 thousand | the pool is what is open; what is read and closed is in it, or what a failure has left (`HandlesRight`), records are whole, every connection is served |

Why the bounds are enough. Three temporary files are the smallest ring in which
the file written, the file read and a third one are distinct, and five records
in rounds of one or two let it turn twice; two keys and several records give
ties on both sides of every merge. The cache of one record makes every write a
flush, the cache of two leaves one pending at every place where the code can
forget it. In `load` three records are what the look-ahead needs to use both
slots and come back to the first, and the second file shows what a file leaves
behind for the next; with an exit memory never becomes full, because divergence
6 would hide everything else (`MemoryFills`). Three threads give a first, a middle
and a last share, the cases of `gcthreadSkipStop`; one skipped slot holds at
least as many records as there are threads, as in the code (250 or more against
at most 16). In `merge` three files
end in every order, one of them at once; the summed fields are distinct powers
of two, so that a total names the records in it, and one shape overflows. In
`join` three records of one file and one of the other put groups before, between
and behind; in `vfile` runs of three bytes on segments of four begin and end in
the middle of a segment, and five segments are two files that compete for memory
or one with a location in its first quarter that is not in the first segment,
the only kind for which the walk goes forward; in `ocsql` two connections are the fewest that
tell the last one from another; in `socket` one descriptor for two clients makes
the second wait, a record of three bytes is cut in two places, and one failure
is enough for descriptor 0 to be read, closed and given to a client.
`MaxRecords`, `MaxSegment`, `MaxLoaded` and `CountCap` are bounds
of the models, as are `Shapes` and `MaxRows` of the join, `Locs`, `Lens`,
`Written` and `Garbage` of `VFile`, `MaxLoc` of `VFileStore`, `MaxDbc` and `MaxConn` of `OcSql`, and `Room` and `MaxFails` of
`CobSocket`; the other constants are parameters of the code.

Fairness. A job is one thread running a loop, so `GcTempFiles` and `GcLoad`
assume weak fairness of each of its phases and no more: a file that always
fails to open is allowed, and ends the job. `GcThread` assumes that the system
runs every thread; waiting for the mutex is not a step, and no strong fairness
is used because the mutex, modelled as held only when it is never released, is
always free or never again. `GcJoin` and `VFile` are one thread each: weak
fairness of its steps, none of the calls or of the failures. (For `VFile` it serves `CallsReturn` in
`MCVFileWalk.cfg`, run by hand: addresses are symmetric in `vfile`, which is not
sound for liveness, and `ComesNearer` is the measure by which calls return.)
`CobSocket` has weak
fairness of the server and of each client, which the scheduler of the system
gives them; none of the kills, the failures, or of what happens at the terminal.
That somebody presses ENTER when MULTISRV shows an error is a premise of
`ReadyIsServed` (`[]<>(~ AtTerminal)`): the server is not for ever waiting there. `OcSql` assumes, for `RetriesRun` alone, that a program which executes a
statement again and again has it prepared at last: strong fairness, because the
server may refuse it any number of times before. Deadlock is checked except
where the system may stop or wait: `threads` (a missing file stops every thread),
`vfile` and `ocsql` (the program need not call, or its memory is used up), and
`socket` (the server waits for connections that nobody makes).

## 4. Divergences

Where the code does something else than its documentation, a comment or a
message says. The first three have a run and an entry under `findings`. The
others have a definition and a configuration that TLC finds violated when it is
run by hand (`tlc -config X.cfg M`); they are not among the runs, which are
kept to the number that can be checked together.

1. **Threads that differ** (`threads_merge`). The final merge looks at the first
   thread alone to decide whether records are in memory or in files.
2. **Full outer join** (`join_outer`). When F1 has ended, the main loop orders a
   read of F2 although the group of F2 in memory has not been dealt with: with
   F1 = {1} and F2 = {2, 3} the record 2 is in no row.
3. **Reconnect** (`ocsql_reconnect`). The references to prepared statements are
   cleared with the last connection only; a program with two of them that
   reconnects one executes a handle that has died.
4. **Ties** (`MCGcTempFilesStableOutput.cfg`, `StableOutput`).
   `job_save_tempfile` asks for the positions to be compared ("check pospnt")
   but compares other bytes, so that records with equal keys may change places
   once more than 16 rounds have been needed. The manual (`GCSORT_Manual.odt`)
   says that for equal keys "GCSORT verified the value of pointer of record into
   file input, selecting the lowest value".
5. **Lost flush** (`MCGcTempFilesDoneMeansWritten.cfg`, `DoneMeansWritten`). A
   failing last flush of a temporary file prints a message and the job goes on,
   without the records, to return 0.
6. **Exit and memory** (`MCGcLoadSegment.cfg`, `OnlyDeletedAreMissing`). The
   look-ahead of the exit is local to one call of `job_loadFiles`; when memory
   fills, the record read ahead is lost.
7. **Insertion after the last record** (`MCGcLoadInsert.cfg`, `Terminates`). It
   moves the look-ahead to a state that has no case, which answers 0 for ever.
8. **A missing file with threads** (`MCGcThreadMissing.cfg`, `Returns`). The
   error path keeps the mutex: the program does not return.
9. **Joins that do not end** (`JoinAlwaysEnds`, under `MCGcJoin.cfg` in the place
   of `JoinEnds`). A right outer join writes the second record of F2 behind the
   last one of F1 for ever, since its command is 'W' without 'R' (`join.c:1762`);
   an inner join whose F1 has two or more groups behind all of F2 reads no more.
10. **No descriptor left** (`MCCobSocketLimit.cfg`, `DataIsDelivered`). Function
    10 tries to accept the waiting client again and again, and delivers none of
    the connections that hold data; the documentation (`documentation_en.odt`)
    has "the newly connected socket connection or the connection that holds data
    is delivered".
11. **Exit and keyed files** (`MCGcLoadKeyed.cfg`, `OnlyDeletedAreMissing`). The
    second read of the look-ahead is a READ PREVIOUS (`job.c:3653`). Of an indexed
    or relative file it goes back from the first record, meets the start, and
    the file ends after one record, told to the exit as the last.
12. **The last record** (`MCGcLoadFlag.cfg`, `FlagTellsLastPassed`). The comment
    at `exitroutines.c:153` has "8 indicates the last record passed"; the code
    tells 8 with the last record of each file. `FlagTellsFileEnd`, which is
    checked and proved, says what it does.
13. **XSUM of a merge** (`MCGcMergeXsum.cfg`, `MergeEndsWell`). The manual has XSUM
    "produces a separate file with the records discarded". Only `job_save_out`
    opens that file (`job.c:4114-4127`): `job_merge_files` writes the first
    discarded record to a file that is not open, and ends with an error. (A sort
    that needed temporary files, `job_save_tempfinal`, and `gcthread_save_final`
    do not open it either; SUM FIELDS of a sort is not modelled.)
14. **False sequence errors** (`MCGcJoinFill.cfg` and `MCGcJoinLine.cfg`,
    `AlarmMeansDisorder`). A SORTED file that is in order is reported ("Sequence
    error for file F1", or F2) when the FILL character is above the keys, because the
    record it is compared with was overwritten by it; and when F1 is empty and F2
    is line sequential, because its last record is compared with the area that
    the end of file has reset. `NoFalseAlarm` says that there is no third case.

More show in the models, where the properties make room for them:

* an answer of 8 ("Do not call this exit again") is forgotten at the next file
  and the next round, because `nrekE15` is local (`ResetExit`);
* with an exit, an empty file yields a record that nothing has read, because
  the look-ahead does not tell the end of file of its first read from that of
  the second (`VerifyFirst`, `VerifyBack`); `load` therefore has no empty file with an exit;
* the result of a thread is not looked at: a thread that fails leaves the
  return code 0 (`SaveFinal`); `AllWell` is the condition under which the
  shares are complete;
* by turns, a thread whose memory filled keeps its turn at the next file while
  the others start again, so that records are taken twice or by none
  (`EnterFile`, `TurnsApart`);
* a MERGE with SUM FIELDS takes the first group's key from the first record
  before INCLUDE and OMIT are tested: if all records of the lowest key are left
  out, one of them is written nevertheless, with sums of 0 (`FirstGroup`);
  `OncePerKey` exempts the lowest key;
* a join of a SORTED file ignores INCLUDE, OMIT and STOPAFT of its JOINKEYS
  (`Sort`); when F2 is empty INCLUDE and OMIT of the job look at a blank record
  or at F1's, by which file is empty (`TestedAlone`), the order of a SORTED
  F1 is not checked then, and records 1 and 2 of F2 are not compared
  (`AloneOutOfSequence`); a pair that INCLUDE or OMIT leaves
  out keeps the commands of the pair before (`Omitted`), so the properties of
  the join speak of jobs without them; with repeated keys in the last groups,
  rows of one file alone are lost or repeated (`UniqueKeysRight` exempts them);
* a CONNECT on a connection that is open is told as 08002, overwritten by 00000,
  and connects again; a failed CONNECT of the unnamed connection forgets the
  environment while other connections use it; a failed SET SCHEMA look-up
  leaves the runtime with the old name: `orderly` is the program that meets none
  of these;
* READ of a virtual file extends it, and the end of the list a search begins at
  is chosen by a quarter of the data, not by the half (`SearchDown`);
* after a select or an accept that failed MULTISRV calls function 04 although
  function 10 delivered nothing: with handle 0 it takes what is typed for a
  client's record, and it may close its standard input; a connection that then
  gets descriptor 0 is read by ACCEPT too, and its records are cut
  (`ReadTerminal`, `HandleErrorOfClient`; `RecordsWhole` exempts descriptor 0);
* function 04 stores four digits and a NUL for the number of bytes of a short
  record where its caller has PIC 9(5) (`cob_socket.cpp:939`); MULTISRV does not
  look at it, and it is not modelled;
* function 03 tells 2 (fewer bytes) when the kernel took the record in two
  writes, although all of it is sent (`Write`).

`NoPartialOutput` holds for a reason worth knowing: not because the failure is
noticed but because of divergence 8. Its mutant releases the mutex, and the
output is then a part of the input with return code 0. The proof showed where
this stops (`TwoNeedTheMutex`): with one thread, or when the first file is a file
of lines without records and a thread ends at its end of file, a thread may end
without the mutex being needed by another, and the records of the files before
the missing one are then written.

## 5. Proofs

`GcTempFilesProofs` proves, for every number of temporary files from two, every
set of keys, input, memory and cache size, with or without failures:

| Theorem | Says |
|---|---|
| `TypeCorrect` | `Spec => []TypeOK` |
| `RingInvAlways` | `Spec => []RingInv` |
| `RingNeverOverwrites` | `Spec => NeverOverwrites` |
| `CountsAreRight` | `Spec => []CountTellsEmpty` |
| `EveryFileIsSearched` | `Spec => []EverySourceSearched` |

The assumptions are the named ones of `GcTempFiles` (`KeysAssumption`,
`HandlesAssumption`, `BoundsAssumption`, `SwitchesAssumption`): keys are
numbers, there are at least two files, memory and cache hold at least a record.

The argument. `TypeInv` is `TypeOK` and that `loaded` is finite, which
`NewRecords` needs to number the records of a round. `CountTellsEmpty` and
`NeverOverwrites` are not inductive: in the middle of a save the file being
written has a count while its records are still in the cache, the source has
records that are being read, and a pending record is written without being
counted. `RingInv` says which files have been used (the first ones, or all once
the ring has turned), which are live between saves (`Live`: the first ones, or
all but the one to be written next), and how far a save departs from it: the
file written is empty or has a count, and at the end of the merge, when the
sort buffer has been written and flushed, has both. That the loop wrote at least
one record (`buf # <<>> \/ cache # <<>>`) is what makes it so, and it holds
because an empty round never opens a file (`SaveNothing`). Each action is one
step of `RingInvNext`. `EveryFileIsSearched` counts: `LiveCount` gives
the cardinality of `Live`, and so `nMaxEle`, in the two shapes of the ring.

`VFileProofs` proves, for every number of files, size of a segment, memory,
sequence of calls, and with memory that may run out at every segment:

| Theorem | Says |
|---|---|
| `ListsAlwaysLinked` | `Spec => []HeapInv` |
| `LoopsComeNearer` | `Spec => ComesNearer` |
| `FileIsStore` | `Spec => ImplementsStore` |

The assumption is `VFileAssumption`: there is a file and a byte in a segment,
NULL is not an address. `HeapInv` is inductive as it is checked. Three parts of
it carry the argument. The number of a segment is unique in its file and at most
the count of segments: hence the segment without a next one is the last one, and
a new segment is put behind it (`AtIsLast`, `GrowKeeps`), and hence what is left
when CLOSE has freed the head begins at the next one (`FreeKeeps`). While CLOSE
runs the list begins where it has got to (`ListHead`), so that the entry of the
heap, which is cleared at the end, may point to freed memory in between. And
`MovesInPlace` says where the call is, which the bounds of each `memcpy` rest on
(`CopyEffect`). `ListKept` carries the lists of the other files over each step,
`RightAfter` says what is left to show for one segment. `LoopsComeNearer` needs
that neighbours are adjacent in location: going back from a segment that begins
behind the location leads to one that does not end before it, so that the walk
never turns. With it a call takes no more turns than there are bytes up to the
location and in the request.

`FileIsStore` assumes `StoreAssumption` as well: no call goes beyond `MaxLoc`,
which is any number, and `Unset` is not a byte. It needs `HeapInv` and that
nothing is left of a call between two calls (`IdleInv`). A location is in one
segment of its file at most, because each segment ends before a later one begins
(`LaterIsBehind`: the first segment of which this was wrong would have a
neighbour of which it is right), so that the byte at a location is that of
whichever segment has it (`ByteIs`). Each kind of step is then a lemma of its
own: the walk is not seen (`WalkStep`), nor are the segments that CLOSE frees, of
a file that is closed already (`FreeStep`); a new segment leaves all bytes where
they are (`GrowStep`); a `memcpy` of WRITE changes the next bytes of the request
and nothing else in this file or another (`WriteMoves`), and one of READ finds
them (`MoveStep`), since they lie in the segment the call has come to
(`RunIsHeld`); a call returns with the code for where it has got to
(`ReturnStep`).

`GcTempFilesProofs` also proves, for the same constants:

| Theorem | Says | Assuming |
|---|---|---|
| `OutputAlwaysSorted` | `Spec => []OutputSorted` | |
| `FilesAlwaysSorted` | `Spec => []FilesSorted` | |
| `NoRecordTwice` | `Spec => []NeverTwice` | |
| `EveryRecordOnce` | `Spec => []ExactlyOnce` | `~ IOErrors` |
| `StableUntilTurned` | `Spec => []StableWithoutReuse` | |
| `JobImplementsSort` | `Spec => ImplementsSort` | `~ IOErrors` |

`~ IOErrors` is part of what two of the properties say: a failing read or write
loses records, and the run that checks them has no failures either. The argument
has four invariants. `PhaseInv` says which of the buffer, the source, the cache
and the output may hold records in each phase of `job_sort`. `OrderInv(R)`, for
any transitive order R, says that what has been written of a file, what the cache
owes it and what the save has still to write follow each other in this order: the
records of `src` and `buf` are bounded below by the last one written, which is
what makes the merge of `job_save_tempfile` keep the order. It is used twice, with
the order by key (`OutputAlwaysSorted`, `FilesAlwaysSorted`) and, as long as the
ring has not turned, with the order by key and position (`StableInv`). `OnceInv`
takes the places of a record as one function from places to sequences: no two
share a record and none repeats one. Most steps move the first record of one
place to the end of another (`MoveOne`) or all of one place (`MoveAll`), and the
number of copies is counted once, at the end (`CopiesOf`). `JobImplementsSort`
then rests on `HeldIs`: what is held is what was loaded and is not in the output.

`GcThreadProofs` proves, for every number of threads and files, every lengths,
organization and estimate of the number of records, with files that are missing
and memory that may fill after any record:

| Theorem | Says |
|---|---|
| `SharesAlwaysRight` | `Spec => []ShareInv` |
| `AllIsWritten` | `Spec => []WritesAllIfAlike` |
| `NothingOfAPart` | `Spec => []NoPartialOutput` |

`SystemInv` is the invariant. A position is the number of the records up to a
place, as a cardinality, so that no sum over the files is needed
(`Position`). A thread's count is its position until its block has ended
(`CountInv`); its turn points to the next record of its own (`TurnInv`); and it
keeps exactly its own of the records it has passed (`KeptInv`), which gives the
shares. `FoundInv` says how a thread may end: at the end of the files, at a
missing file with the mutex, or past the end of the first file. Two threads that
cannot be past the end both need the mutex, and only one has it: hence
`NothingOfAPart`. Each action changes the state of one thread, so that each is
one lemma about `ThreadInv` of that thread, and one lemma carries it for the
others.

`GcMergeProofs` proves, for every number of files, inputs, INCLUDE or OMIT, form
of SUM FIELDS and size of the summed field, with or without failures:

| Theorem | Says |
|---|---|
| `MergeAlwaysRight` | `Spec => []MergeInv` |
| `AllAreKept` | `Spec => []KeepsAll` |
| `EachKeyOnce` | `Spec => []OncePerKey` |
| `SumsAlwaysRight` | `Spec => []SumsAreRight` |
| `FirstAlwaysKept` | `Spec => []FirstIsKept` |

The assumption is `MergeAssumption`: keys are numbers, there is a place in the
array for every file, and each summed field holds what it holds (`Modulus`).
That the files are sorted is part of `Init`; the manual asks for it. A record is
known by its file and its place in it (`PlacesOfRecords`), and `Gone(f)` counts
the records of f that have been taken: what is held and what is left to read
follow them. So `Passed` and `Ahead` divide the input, and `FrontInv` says that
no key that has passed is above one that is ahead. It is kept because a file
that has records ahead holds its first one (`HeldIsFirst`), because some file is
always chosen (`OneIsChosen`: the order of `job_compare_rek` with the bytes it
takes for a position is still an order), and because no key ahead is below that
of the record chosen (`ChosenIsLeast`). `WriteInv` says for each form of
SUM FIELDS what the output is of the records `Seen`, those that have passed and
are not left out. `OwedInv` is for the group that is written one record late: its
key is above all that is written and not above what is ahead, and as long as
nothing has been added to it, it has the lowest key of all, which is why OMIT
may not keep that one out. Every action that takes a record is a case of `Takes`
(`TurnFacts`) and every one that writes of `Longer`. `SumInv` gives the totals.
It needs that the sum of a set does not depend on the order of its elements:
`Total` is a fold, defined by a recursive function, so that first the function
is shown to exist (`SumExists`) and to be one (`AddsAlike`), each by a smallest
set for which it is not so (`SmallestSet`), and then that any element may be
taken first (`TotalOfAny`). `HeldOfSum` says that the digits may be cut off at
every addition or once.

`CobSocketProofs` proves, for any number of clients, descriptors and failures of
select and accept, lengths of a record and ways the kernel cuts a stream:

| Theorem | Says |
|---|---|
| `HandlesAlwaysRight` | `Spec => []HandlesRight` |
| `RecordsAlwaysWhole` | `Spec => []RecordsWhole` |
| `CallsAlwaysRight` | `Spec => []CallsAreRight` |

`CallsAreRight` is what the missing error actions of the model rest on (functions 10
and 06 are called for what they accept, whatever failed before); it is no property of
a run, TLC was asked about it by hand.

`SocketInv` adds to `HandlesRight` where the clients are (one that waits to be
accepted is not in the pool, and waits once), that no descriptor is above the
limit and one is free when the handle of MULTISRV is no connection, that the
listening socket is not descriptor 0, which function 06 may close after a
failure, and how far each connection has been read: all at the end of a record,
but for the one MULTISRV is reading, whose rest is `l_left`, and for one that is
descriptor 0. That the descriptor is free is why an accept that finds none
(`NextAcceptFails`) leaves MULTISRV with a connection to read from, and any other
failure may not. `ServerStep` carries the invariant over the steps that change
neither descriptors nor streams.

`OcSqlProofs` proves, for every set of connection variables, statements and
texts:

| Theorem | Says |
|---|---|
| `NothingEverLeaks` | `Spec => []NothingLeaks` |
| `AlwaysRunsWhatWasAsked` | `Spec => []RunsWhatWasAsked` |

`OcSqlAssumption` says that NULL is not a statement and that there is a text.
Both properties are about orderly programs, and `RuntimeInv` has a part that
holds for all (`CountInv`: the count of connections lies between those that are
open and those that were ever used, and each environment is in use) and a part
for these: the runtime knows the database of the session (`SessionInv`), and each
cached handle was prepared on the connection, in the database and from the text
it is kept for (`CacheInv`), which is what `RunsWhatWasAsked` needs one call
earlier.

`GcLoadProofs` proves, for every number of files and records, SKIPREC, STOPAFT,
set of records that INCLUDE or OMIT leaves out, answers of the exit and opens
that fail:

| Theorem | Says | Assuming |
|---|---|---|
| `LoadIsInductive` | `Spec => []LoadInv` | |
| `SpillingIsInvisible` | `Spec => []LoadsInOrder` | |
| `SpillingLosesNothing` | `Spec => []LoadsAll` | |
| `ReadingAheadKeepsOrder` | `Spec => []ExitKeepsOrder` | `TRUE \notin MemoryFills` |
| `FileEndIsTold` | `Spec => []FlagTellsFileEnd` | `TRUE \notin MemoryFills` |

`TRUE \notin MemoryFills` says that memory does not fill in a load with an exit:
when it does, a record is lost (divergence 6). The two properties of the exit
are about sequential files (divergence 11), and `ExitKeepsOrder` is about jobs
without SKIPREC, STOPAFT and empty files (`Sized`), for which what the exit is
shown is what the files hold. `LoadInv` has four parts. `PlaceInv` says what the
record area, the two records read ahead and `nLastRecord` are in each of the
states of `job_Verify_EOF`, of sequential files; `FlagTellsFileEnd` follows from
it. `Ahead` is the first record that is not dealt with yet, and `Past` the
records before it: only `Count`, `CallExit` and `LoadInMemory` move it
(`AheadStays`), by one record (`PastStep`) or to the next file (`PastFile`).
`CountInv` says that `nRecCount` is the number of the record, or is beyond both
SKIPREC and STOPAFT: STOPAFT ends each file in its turn, so that the count falls
behind the number of the record in the next file, but not below what it is
compared with. `LoadedInv` says that what is wanted of the records before
`Ahead` is loaded, in order, and nothing else, which is the two properties when
the last file has ended. It exempts state 104, the load of divergence 7.

`GcJoinProofs` proves, for two files of any length and any keys, every join type
and option of `Options`, with or without files that fail to open and rows that
fail to be written:

| Theorem | Says | Assuming |
|---|---|---|
| `RowsRightAlways` | `Spec => []RowsRight` | |
| `UniqueKeysRightAlways` | `Spec => []UniqueKeysRight` | |
| `NoFalseAlarmAlways` | `Spec => []NoFalseAlarm` | |

The assumption is `JoinAssumption`. `NoFalseAlarm` names the two cases of
divergence 14 in which a file in order is reported out of sequence, and says
that there is no other; FILL may be above or below the keys, and F2 line
sequential or not. The other two are about a join that ends; that it ends is
`JoinEnds`, and left to TLC.

`JoinInv` is the invariant. `PlaceInv` says where the group in memory is in its
sorted file: `Behind` it are the records that have been passed, all with lower
keys, and what is left has higher ones. `FrontInv` says that a record that has
been passed has a key below all that is left of the other file and, unless that
file has been dealt with to its end, below its group. It is what makes the join
complete, and it is not inductive by itself, since the head of the loop reads
whatever file the commands of the last pair name: `CmdInv` says what commands and
end of file flags the last pair of two groups can have left, so that no file is
moved past its match. Hence `WrittenInv`: a pair of records with equal keys is in
the output exactly when one of the two has been passed, or both are in the
groups and the loops have visited them. It holds at every pair, and not only
between two groups, because with equal keys the loops leave out no pair
(`VisitedNext`, `VisitedLast`). `RowInv` says that each row is one that the type
asks for (`TurnAlone`: the file whose turn it is has no match in the other) and no
matched row is written twice. `LoneInv` adds the records of F1 alone, for
`UniqueKeysRight`: they are in the output when they have been passed, or when the
command to write has been left with them. `AloneInv` is for an empty file and
`FinalInv` for the end of the loop. `BufferInv` bounds the buffer of each file by
what is left of it, unless it was filled with a FILL above the keys, which gives
`NoFalseAlarm`. The two sorts of the model arrange
a set by the rank of each element, the number of those before it: that an
arrangement is sorted and has each element once holds for any total order of a
finite set (`RankIs`, `ArrangedIs`), and is shown once for the two files and for
the final sort by F1.

The inductive invariants, `JoinInv` among them, were also checked by TLC on small
instances.

Only model-checked: liveness (`Terminates`, `ExitTerminates`, `ReturnsIfFound`,
`JoinEnds`, `ReadyIsServed`, `RetriesRun`), since neither fairness nor ENABLED is
in the prover's reach. Every invariant of the runs that pass is proved.

## 6. What is not modelled

* In the modelled parts: the length and the body of a record as two writes (a
  failure between them), short writes, failures of `malloc`, the wrap of an
  `int` in `job_skip_record` beyond 2 GB, an exit that answers 16 (it ends the
  process), INREC, OUTREC, OUTFIL and E35, SUM FIELDS in a sort (a
  merge keeps the last record of a group, a sort the first), SKIPREC and
  STOPAFT together with threads. An exit together with threads is refused by
  `job_check`.
* `MAX_HANDLE_TEMPFILE` is a constant, 16 in the code; the per-thread slices of
  the handle array are not.
* In `GcJoin`: OUTREC and OUTFIL of the rows, the fields of REFORMAT, a group
  that does not fit the memory of its file, return codes of the two sorts.
* In `VFile`: locations and lengths beyond what the heap can hold (they wrap in
  an `unsigned int`), the diagnostics, the other routines of the file.
* In `OcSql`: OCSQLCAL (stored procedures), the conversions of host variables,
  the growth of the array of handles, CANCEL_IS_USED, a connection variable that
  was never connected (a NULL dereference).
* In `CobSocket`: functions 01, 05, 08, 98 and 99; descriptors that are lost when
  `bind`, `listen` or `connect` fails; errors of `read` other than the end.
* Copy (`copyfile.c`): one loop without state but counts.
* Parsing, conditions, conversions of fields, help texts: no state.
* esqlOC, cobjapi, the source tools and the samples: text transformation, I/O,
  bindings and examples.

## 7. Plan

Done: `GcRecords`, `SortedOutput`, `GcTempFiles`, `GcLoad`, `GcThread`, `GcMerge`,
`GcJoin`, `VStore`, `VFile`, `OcSql`, `CobSocket`, and proofs about each of them.

Next: SUM FIELDS in a sort (`job_save_out`, `job_save_tempfinal`, the threads'
merge), where E35 may delete the record of a group; functions 05 and 08 of
CBL_GC_SOCKET with their timeouts; OCSQLCAL.

Proofs done: `GcTempFiles` (all its safety properties and its refinement),
`VFile` (its invariant, the walk, its refinement), `GcThread`, `GcMerge`, `CobSocket` and
`OcSql` (all their safety properties), `GcLoad` and `GcJoin` (all their safety
properties).
