------------------------------- MODULE VFile -------------------------------
(***************************************************************************)
(* VFILES: virtual files in memory (VFILES-virtual-heap-routines,          *)
(* cbl_vfiles.c).  A file is a heap: a doubly linked list of segments of   *)
(* equal size, numbered from 1, that grows at its end.  LOCATE_SEGMENT     *)
(* walks the list to the segment that holds the first location of a READ   *)
(* or WRITE, from the end of the list that a guess says is nearer, and     *)
(* then moves the bytes segment by segment.  Every step may need memory.   *)
(*                                                                         *)
(* A location is a byte; a segment holds DataSize of them.  A segment is   *)
(* named by its address, and is not allocated when its heap_id is 0.       *)
(***************************************************************************)
EXTENDS Integers, Sequences

CONSTANTS
    MaxHeap,    \* MAX_HEAP
    DataSize,   \* default_alloc - sizeof(SEG_HDR)
    Addresses,  \* what malloc may return
    NULL,       \* no address
    Values,     \* what a byte may be, 0 among them
    Garbage,    \* bound: what malloc may leave in a segment
    Locs,       \* bound: the locations calls begin at
    Lens,       \* bound: the lengths of READ
    Written     \* bound: the runs of bytes that are written

ASSUME VFileAssumption ==
    /\ MaxHeap \in Nat \ {0} /\ DataSize \in Nat \ {0}
    /\ NULL \notin Addresses
    /\ 0 \in Values /\ Garbage \subseteq [0 .. DataSize - 1 -> Values]
    /\ Written \subseteq Seq(Values)
    /\ Locs \subseteq Nat /\ Lens \subseteq Nat

VARIABLES
    first_vopen,  \* no file has been opened yet
    alloc_init,   \* CBL_MEM_ALLOC_INIT=ON: segments are zeroed
    heap_array,   \* [first, last, count, total] of each heap
    seg,          \* the segments: header and data
    pc,           \* where the library is
    call,         \* the arguments of READ, WRITE or CLOSE
    at,           \* ptr_seg
    offset,       \* offset of LOCATE_SEGMENT
    moved,        \* data_len - move_len
    got,          \* the bytes read into the caller's buffer
    code          \* return_code

settings == <<first_vopen, alloc_init>>
memory   == <<heap_array, seg>>
moving   == <<offset, moved, got>>
vars     == <<settings, memory, pc, call, at, moving, code>>

Heaps == 1 .. MaxHeap
HeapIds == 0 .. MaxHeap + 1   \* what a program may say

NoHeap == [first |-> NULL, last |-> NULL, count |-> 0, total |-> 0]
NoSegment == [heap |-> 0, prev |-> NULL, next |-> NULL, num |-> 0,
              start |-> 0, end |-> 0, data |-> [i \in 0 .. DataSize - 1 |-> 0]]
NoCall == [op |-> "none", heap |-> 0, loc |-> 0, len |-> 0, data |-> <<>>]
Plain(o, h) == [NoCall EXCEPT !.op = o, !.heap = h]

Init ==
    /\ first_vopen = TRUE /\ alloc_init \in BOOLEAN
    /\ heap_array = [h \in Heaps |-> NoHeap]
    /\ seg = [a \in Addresses |-> NoSegment]
    /\ pc = "idle" /\ call = NoCall /\ at = NULL
    /\ offset = 0 /\ moved = 0 /\ got = <<>> /\ code = 0

Allocated == {a \in Addresses : seg[a].heap # 0}
IsOpen(h) == h \in Heaps /\ heap_array[h].first # NULL

(* malloc leaves whatever the memory held, calloc zeroes. *)
Fresh == IF alloc_init THEN {[i \in 0 .. DataSize - 1 |-> 0]}
                       ELSE Garbage

-----------------------------------------------------------------------------
(* CBL_OPEN_VFILE: the first heap without segments gets one. *)

FirstFree(h) == ~ IsOpen(h) /\ \A g \in 1 .. h - 1 : IsOpen(g)

(* CREATE_FIRST_SEGMENT *)
CreateFirst(h, a, d) ==
    /\ heap_array' = [heap_array EXCEPT ![h] =
           [first |-> a, last |-> a, count |-> 1, total |-> DataSize]]
    /\ seg' = [seg EXCEPT ![a] =
           [heap |-> h, prev |-> NULL, next |-> NULL, num |-> 1,
            start |-> 1, end |-> DataSize, data |-> d]]

OpenVFile ==
    /\ pc = "idle"
    /\ \E h \in Heaps, a \in Addresses \ Allocated :
          FirstFree(h) /\ \E d \in Fresh : CreateFirst(h, a, d)
    /\ first_vopen' = FALSE /\ code' = 0
    /\ UNCHANGED <<alloc_init, pc, call, at, moving>>

(* No unused heap (NO_HEAP_FOUND, 2), or no memory for its first segment   *)
(* (INSUFFICIENT_MEMORY, 3).                                               *)
OpenRefused ==
    /\ pc = "idle"
    /\ code' = IF \A h \in Heaps : IsOpen(h) THEN 2 ELSE 3
    /\ first_vopen' = FALSE
    /\ UNCHANGED <<alloc_init, memory, pc, call, at, moving>>

-----------------------------------------------------------------------------
(* CBL_READ_VFILE and CBL_WRITE_VFILE, and the search of LOCATE_SEGMENT. *)

Requests ==
    {[op |-> "read", heap |-> h, loc |-> l, len |-> n, data |-> <<>>] :
        h \in HeapIds, l \in Locs, n \in Lens}
    \cup
    {[op |-> "write", heap |-> h, loc |-> l, len |-> Len(d), data |-> d] :
        h \in HeapIds, l \in Locs, d \in Written}

(* MISSING_VFILE_OPEN, for READ, WRITE and CLOSE. *)
MissingOpen ==
    /\ pc = "idle" /\ first_vopen
    /\ code' = 7
    /\ UNCHANGED <<settings, memory, pc, call, at, moving>>

(* data_middle is total_data_alloc>>2: a quarter. *)
SearchDown(c) == c.loc > heap_array[c.heap].total \div 4

Start(c) == IF SearchDown(c) THEN heap_array[c.heap].last ELSE heap_array[c.heap].first

Request(c) ==
    /\ pc = "idle" /\ ~ first_vopen /\ IsOpen(c.heap)
    /\ call' = c /\ at' = Start(c)
    /\ pc' = "search" /\ code' = 0
    /\ UNCHANGED <<settings, memory, moving>>

(* A heap that is not open has no segment to start at: ptr_seg is NULL and *)
(* is dereferenced.  Heap 0 has no entry, and above MAX_HEAP the message   *)
(* goes to a log that is not open.                                         *)
RequestClosed(c) ==
    /\ pc = "idle" /\ ~ first_vopen /\ ~ IsOpen(c.heap)
    /\ call' = Plain(c.op, c.heap) /\ pc' = "fault"
    /\ UNCHANGED <<settings, memory, at, moving, code>>

Return(rc) ==
    /\ pc' = "idle" /\ code' = rc
    /\ call' = NoCall /\ at' = NULL
    /\ offset' = 0 /\ moved' = 0 /\ got' = <<>>
    /\ UNCHANGED settings

(* Mutation: off by one. *)
BelowOrAt == call.loc <= seg[at].start

Below == call.loc < seg[at].start
Above == call.loc > seg[at].end

SearchBack ==
    /\ pc = "search" /\ Below /\ seg[at].prev # NULL
    /\ at' = seg[at].prev
    /\ UNCHANGED <<settings, memory, pc, call, moving, code>>

(* ERROR_BEFORE_RELATIVE_LOC_1 *)
SearchBefore ==
    /\ pc = "search" /\ Below /\ seg[at].prev = NULL
    /\ Return(4)
    /\ UNCHANGED memory

SearchForward ==
    /\ pc = "search" /\ Above /\ seg[at].next # NULL
    /\ at' = seg[at].next
    /\ UNCHANGED <<settings, memory, pc, call, moving, code>>

(* Mutation: the segment is put behind the first of the list. *)
NewSegmentUnlinked(h, a, d) ==
    /\ heap_array' = [heap_array EXCEPT ![h].last = a, ![h].count = @ + 1,
                                        ![h].total = DataSize * (heap_array[h].count + 1)]
    /\ seg' = [seg EXCEPT ![a] =
           [heap |-> h, prev |-> heap_array[h].first, next |-> NULL, num |-> seg[at].num + 1,
            start |-> seg[at].end + 1, end |-> seg[at].end + DataSize, data |-> d],
            ![at].next = a]

(* GET_NEW_SEGMENT, behind segment at of heap h. *)
NewSegment(h, a, d) ==
    /\ heap_array' = [heap_array EXCEPT ![h].last = a, ![h].count = @ + 1,
                                        ![h].total = DataSize * (heap_array[h].count + 1)]
    /\ seg' = [seg EXCEPT ![a] =
           [heap |-> h, prev |-> at, next |-> NULL, num |-> seg[at].num + 1,
            start |-> seg[at].end + 1, end |-> seg[at].end + DataSize, data |-> d],
            ![at].next = a]

(* The last segment is reached and the location is behind it: the file is  *)
(* extended, by READ too, and the search goes on in the new segment.       *)
SearchGrow ==
    /\ pc = "search" /\ Above /\ seg[at].next = NULL
    /\ \E a \in Addresses \ Allocated :
          /\ \E d \in Fresh : NewSegment(call.heap, a, d)
          /\ at' = a
    /\ UNCHANGED <<settings, pc, call, moving, code>>

SearchNoMemory ==
    /\ pc = "search" /\ Above /\ seg[at].next = NULL
    /\ Return(3)
    /\ UNCHANGED memory

Found ==
    /\ pc = "search" /\ ~ Below /\ ~ Above
    /\ offset' = call.loc - seg[at].start
    /\ pc' = "move"
    /\ UNCHANGED <<settings, memory, call, at, moved, got, code>>

-----------------------------------------------------------------------------
(* The move loop. *)

DataRemain == DataSize - offset
MoveLen == call.len - moved

(* Mutation: the buffer is not advanced between segments. *)
CopyFromStart(n) ==
    /\ moved' = moved + n
    /\ \/ /\ call.op = "read"
          /\ got' = got \o [i \in 1 .. n |-> seg[at].data[offset + i - 1]]
          /\ UNCHANGED seg
       \/ /\ call.op = "write"
          /\ seg' = [seg EXCEPT ![at].data = [i \in 0 .. DataSize - 1 |->
                        IF i \in offset .. offset + n - 1
                        THEN call.data[i - offset + 1] ELSE @[i]]]
          /\ UNCHANGED got

(* memcpy of n bytes between the buffer and segment at. *)
Copy(n) ==
    /\ moved' = moved + n
    /\ \/ /\ call.op = "read"
          /\ got' = got \o [i \in 1 .. n |-> seg[at].data[offset + i - 1]]
          /\ UNCHANGED seg
       \/ /\ call.op = "write"
          /\ seg' = [seg EXCEPT ![at].data = [i \in 0 .. DataSize - 1 |->
                        IF i \in offset .. offset + n - 1
                        THEN call.data[moved + i - offset + 1] ELSE @[i]]]
          /\ UNCHANGED got

(* The rest fits into this segment. *)
MoveRest ==
    /\ pc = "move" /\ MoveLen > 0 /\ DataRemain >= MoveLen
    /\ Copy(MoveLen)
    /\ UNCHANGED <<settings, heap_array, pc, call, at, offset, code>>

MoveDone ==
    /\ pc = "move" /\ MoveLen = 0
    /\ Return(0)
    /\ UNCHANGED memory

(* It does not: this segment is used up, and the next one is wanted. *)
MovePart ==
    /\ pc = "move" /\ DataRemain < MoveLen
    /\ Copy(DataRemain)
    /\ pc' = "next"
    /\ UNCHANGED <<settings, heap_array, call, at, offset, code>>

NextSegment ==
    /\ pc = "next" /\ seg[at].next # NULL
    /\ at' = seg[at].next /\ offset' = 0
    /\ pc' = "move"
    /\ UNCHANGED <<settings, memory, call, moved, got, code>>

NextGrow ==
    /\ pc = "next" /\ seg[at].next = NULL
    /\ \E a \in Addresses \ Allocated :
          /\ \E d \in Fresh : NewSegment(call.heap, a, d)
          /\ at' = a
    /\ offset' = 0 /\ pc' = "move"
    /\ UNCHANGED <<settings, call, moved, got, code>>

NextNoMemory ==
    /\ pc = "next" /\ seg[at].next = NULL
    /\ Return(3)
    /\ UNCHANGED memory

-----------------------------------------------------------------------------
(* CBL_CLOSE_VFILE frees the segments one after the other, and then clears *)
(* the entry of the heap.  A heap that is not open has none.               *)

CloseVFile(h) ==
    /\ pc = "idle" /\ ~ first_vopen /\ h \in Heaps
    /\ call' = Plain("close", h)
    /\ at' = heap_array[h].first
    /\ pc' = "close" /\ code' = 0
    /\ UNCHANGED <<settings, memory, moving>>

(* HEAP_OUT_BOUNDS, of CLOSE; of READ and WRITE when the log is open. *)
OutOfBounds(h) ==
    /\ pc = "idle" /\ ~ first_vopen /\ h > MaxHeap
    /\ code' = 6
    /\ UNCHANGED <<settings, memory, pc, call, at, moving>>

(* The entry of heap 0 lies before the array. *)
CloseBelowBounds(h) ==
    /\ pc = "idle" /\ ~ first_vopen /\ h = 0
    /\ call' = Plain("close", h) /\ pc' = "fault"
    /\ UNCHANGED <<settings, memory, at, moving, code>>

FreeSegment ==
    /\ pc = "close" /\ at # NULL
    /\ seg' = [seg EXCEPT ![at] = NoSegment]
    /\ at' = seg[at].next
    /\ UNCHANGED <<settings, heap_array, pc, call, moving, code>>

CloseEnd ==
    /\ pc = "close" /\ at = NULL
    /\ heap_array' = [heap_array EXCEPT ![call.heap] = NoHeap]
    /\ Return(0)
    /\ UNCHANGED seg

-----------------------------------------------------------------------------
Step ==
    \/ SearchBack \/ SearchBefore \/ SearchForward \/ SearchGrow \/ SearchNoMemory
    \/ Found \/ MoveRest \/ MoveDone \/ MovePart
    \/ NextSegment \/ NextGrow \/ NextNoMemory
    \/ FreeSegment \/ CloseEnd

Next ==
    \/ OpenVFile \/ OpenRefused \/ MissingOpen
    \/ \E c \in Requests : Request(c) \/ RequestClosed(c)
    \/ \E h \in HeapIds : CloseVFile(h) \/ OutOfBounds(h) \/ CloseBelowBounds(h)
    \/ Step

(* The library runs until it returns; the program need not call it. *)
Spec == Init /\ [][Next]_vars /\ WF_vars(Step)

-----------------------------------------------------------------------------
(* Properties. *)

Segments ==
    [heap : 0 .. MaxHeap, prev : Addresses \cup {NULL}, next : Addresses \cup {NULL},
     num : Nat, start : Int, end : Int, data : [0 .. DataSize - 1 -> Values]]

HeapEntries ==
    [first : Addresses \cup {NULL}, last : Addresses \cup {NULL}, count : Nat, total : Nat]

TypeOK ==
    /\ first_vopen \in BOOLEAN /\ alloc_init \in BOOLEAN
    /\ heap_array \in [Heaps -> HeapEntries]
    /\ seg \in [Addresses -> Segments]
    /\ pc \in {"idle", "search", "move", "next", "close", "fault"}
    /\ call \in Requests \cup {NoCall} \cup
          {Plain(o, h) : o \in {"read", "write", "close"}, h \in HeapIds}
    /\ at \in Addresses \cup {NULL}
    /\ offset \in 0 .. DataSize - 1 /\ moved \in Nat
    /\ code \in {0, 2, 3, 4, 6, 7}

(* While CLOSE runs, the list begins where it has got to. *)
Closing(h) == pc = "close" /\ call.heap = h
ListHead(h) == IF Closing(h) THEN at ELSE heap_array[h].first

(* Segment b is linked behind segment a, and goes on where a ends. *)
Follows(a, b) ==
    /\ seg[a].next = b /\ seg[b].prev = a
    /\ seg[b].heap = seg[a].heap
    /\ seg[b].num = seg[a].num + 1
    /\ seg[b].start = seg[a].end + 1

HeapRight(h) ==
    LET hd == heap_array[h] IN
    /\ hd.first = NULL <=> hd.last = NULL
    /\ hd.first = NULL => hd.count = 0
    /\ hd.total = DataSize * hd.count
    /\ ListHead(h) # NULL =>
          /\ hd.first # NULL
          /\ seg[ListHead(h)].heap = h
          /\ seg[hd.last].heap = h
          /\ seg[hd.last].num = hd.count
          /\ ~ Closing(h) => seg[ListHead(h)].num = 1

SegmentRight(a) ==
    LET s == seg[a]
        hd == heap_array[s.heap] IN
    /\ ListHead(s.heap) # NULL
    /\ s.end = s.start + DataSize - 1
    /\ s.num = 1 => s.start = 1 /\ s.prev = NULL
    /\ s.num \in seg[ListHead(s.heap)].num .. hd.count
    /\ s.num # seg[ListHead(s.heap)].num => s.prev \in Allocated /\ Follows(s.prev, a)
    /\ a # hd.last => s.next \in Allocated /\ Follows(a, s.next)
    /\ a = hd.last => s.next = NULL
    /\ \A b \in Allocated : seg[b].heap = s.heap /\ seg[b].num = s.num => b = a

(* Every heap is one list: from its head the segments are linked both      *)
(* ways, number and locations go on where the segment before ends, the     *)
(* last one is the one new segments are put behind, and the entry counts   *)
(* them.  A broken link loses the rest of a file, or frees it twice.       *)
(* SegmentRight includes that no segment is lost: what is allocated        *)
(* belongs to a file that is open, and that CLOSE has not gone past.       *)
ListsLinked ==
    /\ \A h \in Heaps : HeapRight(h)
    /\ \A a \in Allocated : SegmentRight(a)

(* The bytes that are moved next are the caller's next bytes.              *)
MovesInPlace ==
    /\ pc \in {"search", "move", "next"} =>
          /\ call \in Requests /\ call.heap \in Heaps
          /\ at \in Allocated /\ seg[at].heap = call.heap
          /\ moved \in 0 .. call.len
    /\ pc = "search" => moved = 0
    /\ pc = "move" /\ MoveLen > 0 => seg[at].start + offset = call.loc + moved
    /\ pc = "next" => seg[at].end + 1 = call.loc + moved /\ MoveLen > 0
    /\ pc = "close" => call.heap \in Heaps
    /\ pc = "idle" => moved = 0

HeapInv == TypeOK /\ ListsLinked /\ MovesInPlace

(* How far segment at is from the location, in bytes. *)
Distance ==
    IF Below THEN seg[at].start - call.loc
    ELSE IF Above THEN call.loc - seg[at].end ELSE 0

(* Every turn of the two loops of LOCATE_SEGMENT is towards their end: the *)
(* walk comes nearer to the location and never turns back, and the move    *)
(* goes on by at least a byte in every segment.                            *)
Nearer ==
    /\ pc = "search" /\ pc' = "search" => Distance' < Distance
    /\ pc = "move" /\ pc' \in {"move", "next"} => moved' > moved /\ moved' <= call.len
    /\ pc = "next" /\ pc' = "move" => moved' = moved /\ MoveLen' > 0

ComesNearer == [][Nearer]_vars

(* Every call returns. *)
CallsReturn == pc \notin {"idle", "fault"} ~> pc = "idle"
=============================================================================
