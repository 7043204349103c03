---------------------------- MODULE VFileProofs ----------------------------
(***************************************************************************)
(* What VFile keeps for every number of files, every size of a segment,    *)
(* every memory and every sequence of calls: the segments of each file are *)
(* one list, a call moves the bytes it was asked for, and what the caller  *)
(* sees of all this is a store of bytes.                                   *)
(***************************************************************************)
EXTENDS VFileStore, TLAPS, WellFoundedInduction

-----------------------------------------------------------------------------
(* The types of calls and of memory. *)

LEMMA RequestType ==
    ASSUME NEW c \in Requests
    PROVE  /\ c.op \in {"read", "write"} /\ c.heap \in HeapIds
           /\ c.loc \in Nat /\ c.len \in Nat /\ c.data \in Seq(Values)
           /\ c.op = "write" => c.len = Len(c.data)
<1>1. CASE \E h \in HeapIds, l \in Locs, n \in Lens :
              c = [op |-> "read", heap |-> h, loc |-> l, len |-> n, data |-> <<>>]
  BY <1>1, VFileAssumption
<1>2. CASE \E h \in HeapIds, l \in Locs, d \in Written :
              c = [op |-> "write", heap |-> h, loc |-> l, len |-> Len(d), data |-> d]
  BY <1>2, VFileAssumption
<1> QED BY <1>1, <1>2 DEF Requests

(* The fields of a segment. *)
LEMMA SegmentFields ==
    ASSUME TypeOK, NEW a \in Addresses
    PROVE  /\ seg[a] \in Segments
           /\ seg[a].heap \in 0 .. MaxHeap
           /\ seg[a].prev \in Addresses \cup {NULL} /\ seg[a].next \in Addresses \cup {NULL}
           /\ seg[a].num \in Nat /\ seg[a].start \in Int /\ seg[a].end \in Int
           /\ seg[a].data \in [0 .. DataSize - 1 -> Values]
<1>1. seg \in [Addresses -> Segments]
  BY DEF TypeOK
<1>2. seg[a] \in Segments
  BY <1>1
<1> QED BY <1>2 DEF Segments

(* The fields of an entry of the heap array. *)
LEMMA EntryFields ==
    ASSUME TypeOK, NEW h \in Heaps
    PROVE  /\ heap_array[h] \in HeapEntries
           /\ heap_array[h].first \in Addresses \cup {NULL}
           /\ heap_array[h].last \in Addresses \cup {NULL}
           /\ heap_array[h].count \in Nat /\ heap_array[h].total \in Nat
<1>1. heap_array \in [Heaps -> HeapEntries]
  BY DEF TypeOK
<1>2. heap_array[h] \in HeapEntries
  BY <1>1
<1> QED BY <1>2 DEF HeapEntries

(* A new segment holds bytes. *)
LEMMA FreshType == Fresh \subseteq [0 .. DataSize - 1 -> Values]
BY VFileAssumption DEF Fresh

(* What is allocated belongs to a heap. *)
LEMMA AllocatedHeap ==
    ASSUME TypeOK, NEW a \in Allocated
    PROVE  a \in Addresses /\ a # NULL /\ seg[a].heap \in Heaps
BY SegmentFields, VFileAssumption DEF Allocated, Heaps

-----------------------------------------------------------------------------
(* The effect of the operations on memory, field by field. *)

(* The header of segment x is left alone. *)
SameHeader(x) ==
    /\ seg'[x].heap = seg[x].heap
    /\ seg'[x].prev = seg[x].prev /\ seg'[x].next = seg[x].next
    /\ seg'[x].num = seg[x].num
    /\ seg'[x].start = seg[x].start /\ seg'[x].end = seg[x].end

(* A memcpy changes no header, and moves the call on. *)
LEMMA CopyEffect ==
    ASSUME HeapInv, pc = "move", NEW n \in Nat, n <= MoveLen, n <= DataRemain, Copy(n)
    PROVE  /\ seg' \in [Addresses -> Segments]
           /\ \A x \in Addresses : SameHeader(x)
           /\ moved' = moved + n
<1>1. /\ call \in Requests /\ moved \in 0 .. call.len
      /\ at \in Addresses
  BY DEF HeapInv, MovesInPlace, Allocated
<1>a. call.len \in Nat /\ offset \in 0 .. DataSize - 1 /\ seg \in [Addresses -> Segments]
  BY <1>1, RequestType DEF HeapInv, TypeOK
<1>2. CASE UNCHANGED seg
  BY <1>2, <1>a DEF Copy, SameHeader
<1>3. CASE call.op = "write" /\ ~ UNCHANGED seg
  <2> DEFINE bytes == [i \in 0 .. DataSize - 1 |->
                          IF i \in offset .. offset + n - 1
                          THEN call.data[moved + i - offset + 1] ELSE seg[at].data[i]]
  <2>1. seg' = [seg EXCEPT ![at].data = bytes]
    BY <1>3 DEF Copy
  <2>2. call.data \in Seq(Values) /\ call.len = Len(call.data)
    BY <1>1, <1>3, RequestType
  <2>3. \A i \in offset .. offset + n - 1 : moved + i - offset + 1 \in 1 .. Len(call.data)
    BY <1>1, <1>a, <2>2, VFileAssumption DEF MoveLen
  <2>4. \A i \in 0 .. DataSize - 1 : seg[at].data[i] \in Values
    BY <1>1, SegmentFields DEF HeapInv
  <2>5. bytes \in [0 .. DataSize - 1 -> Values]
    BY <2>2, <2>3, <2>4
  <2> HIDE DEF bytes
  <2>6. seg[at] \in Segments
    BY <1>1, <1>a
  <2>7. [seg[at] EXCEPT !.data = bytes] \in Segments
    BY <2>5, <2>6 DEF Segments
  <2>8. /\ seg' \in [Addresses -> Segments]
        /\ seg'[at] = [seg[at] EXCEPT !.data = bytes]
        /\ \A x \in Addresses \ {at} : seg'[x] = seg[x]
    BY <1>1, <1>a, <2>1, <2>7
  <2> QED BY <1>1, <2>6, <2>8 DEF Copy, Segments, SameHeader
<1> QED BY <1>2, <1>3 DEF Copy

(* GET_NEW_SEGMENT links a segment behind the one the call is at. *)
LEMMA NewSegmentEffect ==
    ASSUME TypeOK, NEW h \in Heaps, NEW a \in Addresses \ Allocated, NEW d \in Fresh,
           at \in Allocated, NewSegment(h, a, d)
    PROVE  /\ seg' \in [Addresses -> Segments] /\ heap_array' \in [Heaps -> HeapEntries]
           /\ a # at
           /\ \A x \in Addresses \ {a, at} : SameHeader(x)
           /\ seg'[at].heap = seg[at].heap /\ seg'[at].prev = seg[at].prev
           /\ seg'[at].num = seg[at].num
           /\ seg'[at].start = seg[at].start /\ seg'[at].end = seg[at].end
           /\ seg'[at].next = a
           /\ seg'[a].heap = h /\ seg'[a].prev = at /\ seg'[a].next = NULL
           /\ seg'[a].num = seg[at].num + 1
           /\ seg'[a].start = seg[at].end + 1 /\ seg'[a].end = seg[at].end + DataSize
           /\ \A g \in Heaps \ {h} : heap_array'[g] = heap_array[g]
           /\ heap_array'[h].first = heap_array[h].first /\ heap_array'[h].last = a
           /\ heap_array'[h].count = heap_array[h].count + 1
           /\ heap_array'[h].total = DataSize * (heap_array[h].count + 1)
<1>1. at \in Addresses /\ a # at
  BY DEF Allocated
<1> DEFINE new == [heap |-> h, prev |-> at, next |-> NULL, num |-> seg[at].num + 1,
                   start |-> seg[at].end + 1, end |-> seg[at].end + DataSize, data |-> d]
           entry == [heap_array[h] EXCEPT !.last = a, !.count = @ + 1,
                                          !.total = DataSize * (heap_array[h].count + 1)]
<1>2. seg' = [seg EXCEPT ![a] = new, ![at].next = a]
  BY DEF NewSegment
<1>3. heap_array' = [heap_array EXCEPT ![h] = entry]
  BY DEF NewSegment
<1>4. new \in Segments
  <2>1. d \in [0 .. DataSize - 1 -> Values]
    BY FreshType
  <2>2. /\ seg[at].num + 1 \in Nat /\ seg[at].end + 1 \in Int
        /\ seg[at].end + DataSize \in Int /\ h \in 0 .. MaxHeap
    BY <1>1, SegmentFields, VFileAssumption DEF Heaps
  <2> QED BY <1>1, <2>1, <2>2 DEF Segments
<1>b. seg \in [Addresses -> Segments] /\ heap_array \in [Heaps -> HeapEntries]
  BY DEF TypeOK
<1>5. /\ entry \in HeapEntries
      /\ entry.first = heap_array[h].first /\ entry.last = a
      /\ entry.count = heap_array[h].count + 1
      /\ entry.total = DataSize * (heap_array[h].count + 1)
  <2>1. heap_array[h] \in HeapEntries /\ heap_array[h].count \in Nat
    BY EntryFields
  <2>2. heap_array[h].count + 1 \in Nat /\ DataSize * (heap_array[h].count + 1) \in Nat
    BY <2>1, VFileAssumption
  <2> QED BY <2>1, <2>2 DEF HeapEntries
<1>c. seg[at] \in Segments
  BY <1>1, <1>b
<1>6. [seg[at] EXCEPT !.next = a] \in Segments
  BY <1>1, <1>c DEF Segments
<1>7. new.heap = h /\ new.prev = at /\ new.next = NULL /\ new.num = seg[at].num + 1
      /\ new.start = seg[at].end + 1 /\ new.end = seg[at].end + DataSize
  OBVIOUS
<1> HIDE DEF new, entry
<1>8. /\ seg' \in [Addresses -> Segments] /\ seg'[a] = new
      /\ seg'[at] = [seg[at] EXCEPT !.next = a]
      /\ \A x \in Addresses \ {a, at} : seg'[x] = seg[x]
  BY <1>1, <1>2, <1>4, <1>6, <1>b
<1>9. /\ heap_array' \in [Heaps -> HeapEntries] /\ heap_array'[h] = entry
      /\ \A g \in Heaps \ {h} : heap_array'[g] = heap_array[g]
  BY <1>3, <1>5, <1>b
<1> QED BY <1>1, <1>5, <1>7, <1>8, <1>9, <1>c DEF SameHeader, Segments

-----------------------------------------------------------------------------
(* The lists. *)

(* What the head of a list is, is a segment. *)
LEMMA HeadType ==
    ASSUME TypeOK, NEW h \in Heaps
    PROVE  ListHead(h) \in Addresses \cup {NULL}
<1>1. at \in Addresses \cup {NULL}
  BY DEF TypeOK
<1> QED BY <1>1, EntryFields DEF ListHead

(* What makes a segment right after a step, said of what it is linked to.  *)
LEMMA RightAfter ==
    ASSUME NEW x, NEW g, NEW f, NEW l, NEW c, NEW p, NEW n,
           seg'[x].heap = g, seg'[x].prev = p, seg'[x].next = n,
           ListHead(g)' = f, f # NULL, heap_array'[g].last = l, heap_array'[g].count = c,
           seg'[x].end = seg'[x].start + DataSize - 1,
           seg'[x].num = 1 => seg'[x].start = 1 /\ seg'[x].prev = NULL,
           seg'[x].num \in seg'[f].num .. c,
           seg'[x].num # seg'[f].num => p \in Allocated' /\ Follows(p, x)',
           x # l => n \in Allocated' /\ Follows(x, n)',
           x = l => n = NULL,
           \A b \in Allocated' : seg'[b].heap = g /\ seg'[b].num = seg'[x].num => b = x
    PROVE  SegmentRight(x)'
<1>1. ListHead(seg[x].heap)' = f
  OBVIOUS
<1>2. seg'[x].num # seg'[f].num => Follows(seg[x].prev, x)'
  OBVIOUS
<1>3. x # l => Follows(x, seg[x].next)'
  OBVIOUS
<1> QED BY <1>1, <1>2, <1>3 DEF SegmentRight, Follows

(* A step that leaves the entry, the head and the segments of a heap alone *)
(* leaves its list as it is.                                               *)
LEMMA ListKept ==
    ASSUME TypeOK, ListsLinked, NEW g \in Heaps, heap_array'[g] = heap_array[g],
           ListHead(g)' = ListHead(g), Closing(g) => Closing(g)',
           \A x \in Addresses : seg[x].heap = g \/ seg'[x].heap = g => SameHeader(x)
    PROVE  /\ HeapRight(g)'
           /\ \A x \in Allocated' : seg'[x].heap = g => SegmentRight(x)'
<1>1. /\ HeapRight(g) /\ ListHead(g) \in Addresses \cup {NULL}
      /\ heap_array[g].last \in Addresses \cup {NULL}
  BY HeadType, EntryFields DEF ListsLinked
<1>2. \A x \in Addresses : seg[x].heap = g \/ seg'[x].heap = g =>
         x \in Allocated /\ x \in Allocated' /\ SegmentRight(x)
  BY DEF Allocated, SameHeader, ListsLinked, Heaps
<1>3. HeapRight(g)'
  BY <1>1 DEF HeapRight, SameHeader
<1>4. ASSUME NEW x \in Allocated', seg'[x].heap = g
      PROVE  SegmentRight(x)'
  <2>1. x \in Addresses /\ SameHeader(x) /\ SegmentRight(x) /\ seg[x].heap = g
    BY <1>2, <1>4 DEF Allocated, SameHeader
  <2> PICK f : f = ListHead(g)
    OBVIOUS
  <2> PICK l : l = heap_array[g].last
    OBVIOUS
  <2> PICK c : c = heap_array[g].count
    OBVIOUS
  <2> PICK p : p = seg[x].prev
    OBVIOUS
  <2> PICK n : n = seg[x].next
    OBVIOUS
  <2>2. f \in Addresses /\ f # NULL /\ seg'[f].num = seg[f].num
    BY <1>1, <2>1 DEF SegmentRight, HeapRight, SameHeader
  <2>3. /\ seg'[x].heap = g /\ seg'[x].prev = p /\ seg'[x].next = n
        /\ seg'[x].end = seg'[x].start + DataSize - 1
        /\ seg'[x].num = 1 => seg'[x].start = 1 /\ seg'[x].prev = NULL
        /\ seg'[x].num \in seg'[f].num .. c
        /\ x = l => n = NULL
    BY <2>1, <2>2 DEF SegmentRight, SameHeader
  <2>4. ASSUME seg'[x].num # seg'[f].num
        PROVE  p \in Allocated' /\ Follows(p, x)'
    <3>1. p \in Allocated /\ Follows(p, x)
      BY <2>1, <2>2, <2>4 DEF SegmentRight, SameHeader
    <3> QED BY <1>2, <2>1, <3>1 DEF Follows, SameHeader, Allocated
  <2>5. ASSUME x # l
        PROVE  n \in Allocated' /\ Follows(x, n)'
    <3>1. n \in Allocated /\ Follows(x, n)
      BY <2>1, <2>5 DEF SegmentRight
    <3> QED BY <1>2, <2>1, <3>1 DEF Follows, SameHeader, Allocated
  <2>6. \A b \in Allocated' : seg'[b].heap = g /\ seg'[b].num = seg'[x].num => b = x
    BY <1>2, <2>1 DEF SegmentRight, SameHeader, Allocated
  <2> QED BY <2>2, <2>3, <2>4, <2>5, <2>6, RightAfter
<1> QED BY <1>3, <1>4

(* What is allocated after a step belongs to a heap. *)
LEMMA ListsOfHeaps ==
    ASSUME seg' \in [Addresses -> Segments],
           \A g \in Heaps : /\ HeapRight(g)'
                            /\ \A x \in Allocated' : seg'[x].heap = g => SegmentRight(x)'
    PROVE  ListsLinked'
<1>1. \A x \in Allocated' : seg'[x] \in Segments /\ seg'[x].heap # 0
  BY DEF Allocated
<1>2. \A x \in Allocated' : seg'[x].heap \in Heaps
  BY <1>1, VFileAssumption DEF Segments, Heaps
<1> QED BY <1>2 DEF ListsLinked

(* Steps that leave the headers and the heads of all lists alone. *)
LEMMA LinksKept ==
    ASSUME TypeOK, ListsLinked, seg' \in [Addresses -> Segments], UNCHANGED heap_array,
           \A x \in Addresses : SameHeader(x),
           \A h \in Heaps : ListHead(h)' = ListHead(h) /\ (Closing(h) => Closing(h)')
    PROVE  ListsLinked'
BY ListKept, ListsOfHeaps

(* The segment a walk has come to, when nothing is behind it, is the last. *)
LEMMA AtIsLast ==
    ASSUME HeapInv, pc \in {"search", "next"}, seg[at].next = NULL
    PROVE  /\ call.heap \in Heaps /\ at \in Allocated /\ at = heap_array[call.heap].last
           /\ seg[at].heap = call.heap /\ seg[at].num = heap_array[call.heap].count
           /\ heap_array[call.heap].first # NULL
           /\ seg[at].num >= 1
<1>1. /\ call.heap \in Heaps /\ at \in Allocated /\ seg[at].heap = call.heap
      /\ TypeOK /\ \A h \in Heaps : ~ Closing(h)
  BY DEF HeapInv, MovesInPlace, Closing
<1>2. SegmentRight(at) /\ HeapRight(call.heap)
  BY <1>1 DEF HeapInv, ListsLinked
<1>3. at = heap_array[call.heap].last
  BY <1>1, <1>2, AllocatedHeap DEF SegmentRight
<1>4. ListHead(call.heap) # NULL
  BY <1>1, <1>2 DEF SegmentRight
<1> QED BY <1>1, <1>2, <1>3, <1>4, SegmentFields, AllocatedHeap
        DEF SegmentRight, HeapRight, ListHead

(* A new segment is the new end of its list. *)
LEMMA GrowKeeps ==
    ASSUME HeapInv, pc \in {"search", "next"}, seg[at].next = NULL, pc' # "close",
           NEW h, h = call.heap, NEW p, p = at,
           NEW a \in Addresses \ Allocated, NEW d \in Fresh, NewSegment(h, a, d)
    PROVE  /\ seg' \in [Addresses -> Segments] /\ heap_array' \in [Heaps -> HeapEntries]
           /\ ListsLinked'
<1>1. /\ h \in Heaps /\ p \in Allocated /\ p = heap_array[h].last
      /\ seg[p].heap = h /\ seg[p].num = heap_array[h].count
      /\ heap_array[h].first # NULL /\ seg[p].num >= 1
  BY AtIsLast
<1>2. TypeOK /\ ListsLinked /\ \A g \in Heaps : ~ Closing(g) /\ ~ Closing(g)'
  BY DEF HeapInv, Closing
<1>3. /\ seg' \in [Addresses -> Segments] /\ heap_array' \in [Heaps -> HeapEntries]
      /\ a # p /\ \A x \in Addresses \ {a, p} : SameHeader(x)
      /\ seg'[p].heap = seg[p].heap /\ seg'[p].prev = seg[p].prev
      /\ seg'[p].num = seg[p].num
      /\ seg'[p].start = seg[p].start /\ seg'[p].end = seg[p].end /\ seg'[p].next = a
      /\ seg'[a].heap = h /\ seg'[a].prev = p /\ seg'[a].next = NULL
      /\ seg'[a].num = seg[p].num + 1
      /\ seg'[a].start = seg[p].end + 1 /\ seg'[a].end = seg[p].end + DataSize
      /\ \A g \in Heaps \ {h} : heap_array'[g] = heap_array[g]
      /\ heap_array'[h].first = heap_array[h].first /\ heap_array'[h].last = a
      /\ heap_array'[h].count = heap_array[h].count + 1
  BY <1>1, <1>2, NewSegmentEffect
<1>t. heap_array'[h].total = DataSize * (heap_array[h].count + 1)
  BY <1>1, <1>2, NewSegmentEffect
<1>4. \A g \in Heaps : ListHead(g)' = heap_array[g].first /\ ListHead(g) = heap_array[g].first
  BY <1>2, <1>3, <1>1 DEF ListHead
<1>5. Allocated' = Allocated \cup {a}
  BY <1>1, <1>3 DEF Allocated, SameHeader, Heaps
<1>6. \A x \in Allocated : /\ x \in Addresses \ {a} /\ x # NULL /\ seg[x].heap \in Heaps
                          /\ SegmentRight(x)
                          /\ seg[x].num \in Nat /\ seg[x].start \in Int /\ seg[x].end \in Int
  BY <1>2, AllocatedHeap, SegmentFields DEF ListsLinked
<1>f. /\ heap_array[h].first \in Allocated /\ seg[heap_array[h].first].heap = h
      /\ seg[heap_array[h].first].num = 1 /\ seg'[heap_array[h].first].heap = h
      /\ seg'[heap_array[h].first].num = 1
  <2>1. HeapRight(h) /\ heap_array[h].first \in Addresses
    BY <1>1, <1>2, EntryFields DEF ListsLinked
  <2>2. /\ heap_array[h].first \in Allocated /\ seg[heap_array[h].first].heap = h
        /\ seg[heap_array[h].first].num = 1
    BY <1>1, <1>2, <1>4, <2>1 DEF HeapRight, Allocated, Heaps
  <2> QED BY <1>1, <1>3, <1>6, <2>2 DEF SameHeader
<1>7. HeapRight(h)'
  <2>1. heap_array'[h].total = DataSize * heap_array'[h].count
    BY <1>3, <1>t
  <2>2. ListHead(h)' = heap_array[h].first
    BY <1>1, <1>4
  <2>3. /\ heap_array'[h].first # NULL /\ heap_array'[h].last # NULL
        /\ seg'[heap_array[h].first].heap = h /\ seg'[heap_array[h].first].num = 1
        /\ seg'[heap_array'[h].last].heap = h
        /\ seg'[heap_array'[h].last].num = heap_array'[h].count
    BY <1>1, <1>3, <1>f, VFileAssumption
  <2> QED BY <2>1, <2>2, <2>3 DEF HeapRight
<1>8. ASSUME NEW x \in Allocated', seg'[x].heap = h
      PROVE  SegmentRight(x)'
  <2>1. CASE x = a
    <3>1. seg'[a].end = seg'[a].start + DataSize - 1 /\ seg'[a].num = heap_array'[h].count
          /\ seg'[a].num >= 2
      <4>1. seg[p].end \in Int /\ seg[p].num \in Nat
        BY <1>1, <1>6
      <4>2. \A e \in Int : e + DataSize = (e + 1) + DataSize - 1
        BY VFileAssumption
      <4>3. seg'[a].start = seg[p].end + 1 /\ seg'[a].end = seg[p].end + DataSize
        BY <1>3
      <4>4. seg'[a].num = seg[p].num + 1 /\ heap_array'[h].count = heap_array[h].count + 1
            /\ seg[p].num = heap_array[h].count /\ seg[p].num >= 1
        BY <1>1, <1>3
      <4>5. seg'[a].num = heap_array'[h].count /\ seg'[a].num >= 2
        BY <4>1, <4>4
      <4> QED BY <4>1, <4>2, <4>3, <4>5
    <3>2. heap_array'[h].count \in Nat
      BY <1>1, <1>2, <1>3, EntryFields
    <3>3. p \in Allocated' /\ Follows(p, a)'
      BY <1>1, <1>3, <1>5 DEF Follows
    <3>4. \A b \in Allocated' : seg'[b].heap = h /\ seg'[b].num = seg'[a].num => b = a
      BY <1>1, <1>3, <1>5, <1>6 DEF SegmentRight, SameHeader
    <3>5. ListHead(h)' = heap_array[h].first
      BY <1>1, <1>4
    <3> QED BY <1>1, <1>3, <1>f, <2>1, <3>1, <3>2, <3>3, <3>4, <3>5 DEF SegmentRight
  <2>2. CASE x = p
    <3>1. SegmentRight(p)
      BY <1>1, <1>6
    <3>2. p # heap_array'[h].last /\ a \in Allocated' /\ Follows(p, a)'
      BY <1>1, <1>3, <1>5 DEF Follows
    <3>3. ASSUME NEW q, q = seg[p].prev, seg[p].num # 1
          PROVE  q \in Allocated' /\ Follows(q, p)'
      <4>1. q \in Allocated /\ Follows(q, p)
        BY <1>1, <1>4, <1>f, <3>1, <3>3 DEF SegmentRight
      <4>2. q # p /\ q # a
        BY <1>6, <4>1 DEF Follows
      <4> QED BY <1>1, <1>3, <1>5, <1>6, <4>1, <4>2 DEF Follows, SameHeader
    <3>4. \A b \in Allocated' : seg'[b].heap = h /\ seg'[b].num = seg'[p].num => b = p
      BY <1>1, <1>3, <1>5, <1>6 DEF SegmentRight, SameHeader
    <3>5. ListHead(h)' = heap_array[h].first /\ ListHead(h) = heap_array[h].first
      BY <1>1, <1>4
    <3>6. seg[p].num <= heap_array'[h].count /\ heap_array'[h].count \in Nat
      BY <1>1, <1>2, <1>3, EntryFields
    <3>7. /\ seg'[p].end = seg'[p].start + DataSize - 1
          /\ seg'[p].num = 1 => seg'[p].start = 1 /\ seg'[p].prev = NULL
          /\ seg'[p].num \in 1 .. heap_array'[h].count
      <4>1. seg[p].end = seg[p].start + DataSize - 1
            /\ (seg[p].num = 1 => seg[p].start = 1 /\ seg[p].prev = NULL)
        BY <3>1 DEF SegmentRight
      <4>2. seg[p].num \in Nat
        BY <1>1, <1>6
      <4> QED BY <1>1, <1>3, <3>6, <4>1, <4>2
    <3> PICK q : q = seg[p].prev
      OBVIOUS
    <3> PICK f : f = heap_array[h].first
      OBVIOUS
    <3> PICK c : c = heap_array'[h].count
      OBVIOUS
    <3>8. seg'[p].num # seg'[f].num => q \in Allocated' /\ Follows(q, p)'
      BY <1>3, <1>f, <3>3
    <3>9. /\ seg'[p].heap = h /\ seg'[p].prev = q /\ seg'[p].next = a /\ p # a
          /\ ListHead(h)' = f /\ f # NULL /\ heap_array'[h].last = a
          /\ seg'[p].num \in seg'[f].num .. c
      BY <1>1, <1>3, <1>f, <3>5, <3>7
    <3> QED BY <2>2, <3>2, <3>4, <3>7, <3>8, <3>9, RightAfter
  <2>3. CASE x \in Allocated \ {p}
    <3>1. SegmentRight(x) /\ seg[x].heap = h /\ x # a /\ SameHeader(x)
      BY <1>3, <1>6, <1>8, <2>3 DEF SameHeader
    <3> PICK q : q = seg[x].prev
      OBVIOUS
    <3> PICK n : n = seg[x].next
      OBVIOUS
    <3> PICK f : f = heap_array[h].first
      OBVIOUS
    <3> PICK c : c = heap_array'[h].count
      OBVIOUS
    <3>2. ListHead(h)' = f /\ ListHead(h) = f /\ f # NULL /\ seg[f].num = 1 /\ seg'[f].num = 1
      BY <1>1, <1>4, <1>f
    <3>3. ASSUME seg'[x].num # seg'[f].num
          PROVE  q \in Allocated' /\ Follows(q, x)'
      <4>1. q \in Allocated /\ Follows(q, x)
        BY <3>1, <3>2, <3>3 DEF SegmentRight, SameHeader
      <4>2. q # p /\ q # a
        BY <1>6, <2>3, <4>1 DEF Follows
      <4> QED BY <1>3, <1>5, <1>6, <3>1, <4>1, <4>2 DEF Follows, SameHeader
    <3>4. n \in Allocated' /\ Follows(x, n)'
      <4>1. n \in Allocated /\ Follows(x, n)
        BY <1>1, <2>3, <3>1 DEF SegmentRight
      <4> QED BY <1>1, <1>3, <1>5, <1>6, <3>1, <4>1 DEF Follows, SameHeader
    <3>5. seg[x].num \in 1 .. heap_array[h].count /\ seg[x].num \in 1 .. c
      <4>1. seg[x].num \in 1 .. heap_array[h].count /\ heap_array[h].count \in Nat
        BY <1>1, <1>2, <3>1, <3>2, EntryFields DEF SegmentRight
      <4> QED BY <1>3, <4>1
    <3>6. \A b \in Allocated' : seg'[b].heap = h /\ seg'[b].num = seg'[x].num => b = x
      <4>1. \A b \in Allocated : seg'[b].heap = seg[b].heap /\ seg'[b].num = seg[b].num
        BY <1>3, <1>6 DEF SameHeader
      <4>2. seg'[a].num # seg'[x].num
        BY <1>1, <1>3, <1>6, <2>3, <3>5, <4>1
      <4>3. \A b \in Allocated : seg[b].heap = h /\ seg[b].num = seg[x].num => b = x
        BY <3>1 DEF SegmentRight
      <4> QED BY <1>5, <2>3, <4>1, <4>2, <4>3
    <3>7. /\ seg'[x].heap = h /\ seg'[x].prev = q /\ seg'[x].next = n
          /\ seg'[x].end = seg'[x].start + DataSize - 1
          /\ seg'[x].num = 1 => seg'[x].start = 1 /\ seg'[x].prev = NULL
          /\ seg'[x].num \in seg'[f].num .. c
          /\ heap_array'[h].last = a /\ x # a
      BY <1>3, <3>1, <3>2, <3>5 DEF SegmentRight, SameHeader
    <3> QED BY <3>2, <3>3, <3>4, <3>6, <3>7, RightAfter
  <2> QED BY <1>5, <2>1, <2>2, <2>3
<1>9. ASSUME NEW g \in Heaps \ {h}
      PROVE  /\ HeapRight(g)'
             /\ \A x \in Allocated' : seg'[x].heap = g => SegmentRight(x)'
  <2>1. \A x \in Addresses : seg[x].heap = g \/ seg'[x].heap = g => SameHeader(x)
    BY <1>1, <1>3, <1>5, <1>6 DEF Allocated, Heaps
  <2> QED BY <1>2, <1>3, <1>4, <2>1, ListKept
<1> QED BY <1>3, <1>7, <1>8, <1>9, ListsOfHeaps

(* A new file is a list of one segment. *)
LEMMA OpenKeeps ==
    ASSUME HeapInv, pc = "idle", pc' = "idle",
           NEW h \in Heaps, NEW a \in Addresses \ Allocated, NEW d \in Fresh,
           FirstFree(h), CreateFirst(h, a, d)
    PROVE  /\ seg' \in [Addresses -> Segments] /\ heap_array' \in [Heaps -> HeapEntries]
           /\ ListsLinked'
<1>1. TypeOK /\ ListsLinked /\ \A g \in Heaps : ~ Closing(g) /\ ~ Closing(g)'
  BY DEF HeapInv, Closing
<1>2. heap_array[h].first = NULL
  BY DEF FirstFree, IsOpen
<1> DEFINE new == [heap |-> h, prev |-> NULL, next |-> NULL, num |-> 1,
                   start |-> 1, end |-> DataSize, data |-> d]
           entry == [first |-> a, last |-> a, count |-> 1, total |-> DataSize]
<1>3. new \in Segments /\ entry \in HeapEntries
  <2>1. d \in [0 .. DataSize - 1 -> Values]
    BY FreshType
  <2> QED BY <2>1, VFileAssumption DEF Segments, HeapEntries, Heaps
<1>4. seg' = [seg EXCEPT ![a] = new] /\ heap_array' = [heap_array EXCEPT ![h] = entry]
  BY DEF CreateFirst
<1>5. seg \in [Addresses -> Segments] /\ heap_array \in [Heaps -> HeapEntries]
  BY <1>1 DEF TypeOK
<1>6. /\ seg' \in [Addresses -> Segments] /\ heap_array' \in [Heaps -> HeapEntries]
      /\ seg'[a] = new /\ \A x \in Addresses \ {a} : seg'[x] = seg[x]
      /\ heap_array'[h] = entry /\ \A g \in Heaps \ {h} : heap_array'[g] = heap_array[g]
  BY <1>3, <1>4, <1>5
<1>7. /\ seg'[a].heap = h /\ seg'[a].prev = NULL /\ seg'[a].next = NULL
      /\ seg'[a].num = 1 /\ seg'[a].start = 1 /\ seg'[a].end = DataSize
      /\ heap_array'[h].first = a /\ heap_array'[h].last = a
      /\ heap_array'[h].count = 1 /\ heap_array'[h].total = DataSize
  BY <1>6
<1> HIDE DEF new, entry
<1>8. \A g \in Heaps : ListHead(g) = heap_array[g].first /\ ListHead(g)' = heap_array'[g].first
  BY <1>1 DEF ListHead
<1>9. Allocated' = Allocated \cup {a}
  BY <1>6, <1>7 DEF Allocated, Heaps
<1>10. \A x \in Allocated : /\ x \in Addresses \ {a} /\ x # NULL /\ SegmentRight(x)
                           /\ seg[x].heap \in Heaps \ {h}
  BY <1>1, <1>2, <1>8, AllocatedHeap DEF ListsLinked, SegmentRight
<1>11. HeapRight(h)'
  BY <1>6, <1>7, <1>8, VFileAssumption DEF HeapRight
<1>12. ASSUME NEW x \in Allocated', seg'[x].heap = h
       PROVE  SegmentRight(x)'
  <2>1. x = a
    BY <1>6, <1>9, <1>10, <1>12
  <2>2. \A b \in Allocated' : seg'[b].heap = h /\ seg'[b].num = 1 => b = x
    BY <1>6, <1>9, <1>10, <2>1
  <2> QED BY <1>7, <1>8, <2>1, <2>2, VFileAssumption, RightAfter
<1>13. ASSUME NEW g \in Heaps \ {h}
       PROVE  /\ HeapRight(g)'
              /\ \A x \in Allocated' : seg'[x].heap = g => SegmentRight(x)'
  <2>1. \A x \in Addresses : seg[x].heap = g \/ seg'[x].heap = g => SameHeader(x)
    BY <1>6, <1>7 DEF SameHeader, Allocated, Heaps
  <2> QED BY <1>1, <1>6, <1>8, <2>1, ListKept
<1> QED BY <1>6, <1>11, <1>12, <1>13, ListsOfHeaps

(* CLOSE frees the head of the list, and the next one becomes the head. *)
LEMMA FreeKeeps ==
    ASSUME HeapInv, FreeSegment
    PROVE  seg' \in [Addresses -> Segments] /\ ListsLinked'
<1> PICK h : h = call.heap
  OBVIOUS
<1> PICK p : p = at
  OBVIOUS
<1> PICK n : n = seg[p].next
  OBVIOUS
<1>1. /\ TypeOK /\ ListsLinked /\ h \in Heaps
      /\ p # NULL /\ p \in Addresses /\ UNCHANGED heap_array
      /\ seg' = [seg EXCEPT ![p] = NoSegment] /\ at' = n
  BY DEF HeapInv, TypeOK, MovesInPlace, FreeSegment
<1>2. /\ \A g \in Heaps : Closing(g) <=> g = h
      /\ \A g \in Heaps : Closing(g)' <=> g = h
  BY DEF FreeSegment, Closing
<1>3. /\ \A g \in Heaps \ {h} : ListHead(g)' = ListHead(g)
      /\ ListHead(h) = p /\ ListHead(h)' = n
  BY <1>1, <1>2 DEF ListHead
<1>4. NoSegment \in Segments /\ NoSegment.heap = 0
  BY VFileAssumption DEF NoSegment, Segments
<1>5. /\ seg' \in [Addresses -> Segments] /\ seg'[p].heap = 0
      /\ \A x \in Addresses \ {p} : seg'[x] = seg[x]
  BY <1>1, <1>4 DEF TypeOK
<1>6. /\ HeapRight(h) /\ seg[p].heap = h /\ p \in Allocated /\ SegmentRight(p)
      /\ heap_array[h].first # NULL
      /\ seg[heap_array[h].last].heap = h /\ seg[heap_array[h].last].num = heap_array[h].count
      /\ heap_array[h].last \in Addresses
  BY <1>1, <1>3, EntryFields DEF ListsLinked, HeapRight, Allocated, Heaps
<1>7. Allocated' = Allocated \ {p}
  BY <1>5 DEF Allocated
<1>8. \A x \in Allocated : /\ x \in Addresses /\ x # NULL /\ SegmentRight(x)
                          /\ seg[x].num \in Nat
  BY <1>1, AllocatedHeap, SegmentFields DEF ListsLinked
<1>9. p # heap_array[h].last =>
         /\ n \in Allocated /\ n # p /\ n # NULL
         /\ seg[n].heap = h /\ seg[n].num = seg[p].num + 1 /\ seg'[n] = seg[n]
  <2> SUFFICES ASSUME p # heap_array[h].last
               PROVE  /\ n \in Allocated /\ n # p /\ n # NULL
                      /\ seg[n].heap = h /\ seg[n].num = seg[p].num + 1 /\ seg'[n] = seg[n]
    OBVIOUS
  <2>1. n \in Allocated /\ Follows(p, n)
    BY <1>6 DEF SegmentRight
  <2>2. seg[n].num = seg[p].num + 1 /\ seg[n].heap = h
    BY <1>6, <2>1 DEF Follows
  <2> QED BY <1>5, <1>6, <1>8, <2>1, <2>2
<1>10. p = heap_array[h].last => n = NULL /\ \A x \in Allocated : seg[x].heap = h => x = p
  <2> SUFFICES ASSUME p = heap_array[h].last
               PROVE  n = NULL /\ \A x \in Allocated : seg[x].heap = h => x = p
    OBVIOUS
  <2>1. n = NULL
    BY <1>6 DEF SegmentRight
  <2>2. ASSUME NEW x \in Allocated, seg[x].heap = h
        PROVE  x = p
    <3>1. seg[x].num \in seg[p].num .. heap_array[h].count
      BY <1>3, <1>8, <2>2 DEF SegmentRight
    <3>2. seg[x].num = seg[p].num
      BY <1>6, <1>8, <3>1
    <3> QED BY <1>6, <2>2, <3>2 DEF SegmentRight
  <2> QED BY <2>1, <2>2
<1>11. HeapRight(h)'
  <2>1. CASE p = heap_array[h].last
    BY <1>1, <1>3, <1>6, <1>10, <2>1 DEF HeapRight
  <2>2. CASE p # heap_array[h].last
    <3>1. seg'[heap_array[h].last] = seg[heap_array[h].last]
      BY <1>5, <1>6, <2>2
    <3> QED BY <1>1, <1>2, <1>3, <1>6, <1>9, <2>2, <3>1 DEF HeapRight
  <2> QED BY <2>1, <2>2
<1>12. ASSUME NEW x \in Allocated', seg'[x].heap = h
       PROVE  SegmentRight(x)'
  <2>1. x \in Allocated /\ x # p /\ seg'[x] = seg[x] /\ seg[x].heap = h /\ SegmentRight(x)
    BY <1>5, <1>7, <1>8, <1>12
  <2>2. p # heap_array[h].last
    BY <1>10, <2>1
  <2> PICK q : q = seg[x].prev
    OBVIOUS
  <2> PICK m : m = seg[x].next
    OBVIOUS
  <2> PICK l : l = heap_array[h].last
    OBVIOUS
  <2> PICK c : c = heap_array[h].count
    OBVIOUS
  <2>3. seg[x].num \in seg[p].num .. c /\ seg[x].num # seg[p].num /\ c \in Nat
    BY <1>1, <1>3, <1>6, <2>1, EntryFields DEF SegmentRight
  <2>4. seg'[x].num \in seg'[n].num .. c
    BY <1>6, <1>8, <1>9, <2>1, <2>2, <2>3
  <2>5. q \in Allocated /\ Follows(q, x)
    BY <1>3, <2>1, <2>3 DEF SegmentRight
  <2>6. ASSUME seg'[x].num # seg'[n].num
        PROVE  q \in Allocated' /\ Follows(q, x)'
    <3>1. q # p
      BY <1>6, <1>8, <1>9, <2>1, <2>2, <2>5, <2>6 DEF Follows
    <3> QED BY <1>5, <1>7, <1>8, <2>1, <2>5, <3>1 DEF Follows
  <2>7. ASSUME x # l
        PROVE  m \in Allocated' /\ Follows(x, m)'
    <3>1. m \in Allocated /\ Follows(x, m)
      BY <2>1, <2>7 DEF SegmentRight
    <3>2. m # p
      BY <1>6, <1>8, <2>1, <2>3, <3>1 DEF Follows
    <3> QED BY <1>5, <1>7, <1>8, <2>1, <3>1, <3>2 DEF Follows
  <2>8. \A b \in Allocated' : seg'[b].heap = h /\ seg'[b].num = seg'[x].num => b = x
    BY <1>5, <1>7, <1>8, <2>1 DEF SegmentRight
  <2>9. /\ seg'[x].heap = h /\ seg'[x].prev = q /\ seg'[x].next = m
        /\ seg'[x].end = seg'[x].start + DataSize - 1
        /\ seg'[x].num = 1 => seg'[x].start = 1 /\ seg'[x].prev = NULL
        /\ x = l => m = NULL
        /\ heap_array'[h].last = l /\ heap_array'[h].count = c
    BY <1>1, <2>1 DEF SegmentRight
  <2> QED BY <1>3, <1>9, <2>2, <2>4, <2>6, <2>7, <2>8, <2>9, RightAfter
<1>13. ASSUME NEW g \in Heaps \ {h}
       PROVE  /\ HeapRight(g)'
              /\ \A x \in Allocated' : seg'[x].heap = g => SegmentRight(x)'
  <2>1. \A x \in Addresses : seg[x].heap = g \/ seg'[x].heap = g => SameHeader(x)
    BY <1>5, <1>6 DEF SameHeader, Heaps
  <2> QED BY <1>1, <1>2, <1>3, <2>1, ListKept
<1> QED BY <1>5, <1>11, <1>12, <1>13, ListsOfHeaps

(* At the end of CLOSE no segment of the file is left. *)
LEMMA CloseKeeps ==
    ASSUME HeapInv, CloseEnd
    PROVE  heap_array' \in [Heaps -> HeapEntries] /\ ListsLinked'
<1> PICK h : h = call.heap
  OBVIOUS
<1>1. /\ TypeOK /\ ListsLinked /\ h \in Heaps /\ UNCHANGED seg
      /\ seg \in [Addresses -> Segments] /\ heap_array \in [Heaps -> HeapEntries]
      /\ heap_array' = [heap_array EXCEPT ![h] = NoHeap]
  BY DEF HeapInv, TypeOK, MovesInPlace, CloseEnd
<1>2. NoHeap \in HeapEntries
  BY DEF NoHeap, HeapEntries
<1>3. /\ heap_array' \in [Heaps -> HeapEntries] /\ heap_array'[h] = NoHeap
      /\ \A g \in Heaps \ {h} : heap_array'[g] = heap_array[g]
  BY <1>1, <1>2
<1>4. /\ ListHead(h) = NULL /\ \A g \in Heaps \ {h} : ListHead(g) = heap_array[g].first
      /\ \A g \in Heaps : ListHead(g)' = heap_array'[g].first /\ (g # h => ~ Closing(g))
  BY DEF CloseEnd, Return, ListHead, Closing
<1>5. \A x \in Allocated : seg[x].heap # h
  BY <1>1, <1>4 DEF ListsLinked, SegmentRight
<1>6. HeapRight(h)'
  <2>1. /\ heap_array'[h].first = NULL /\ heap_array'[h].last = NULL
        /\ heap_array'[h].count = 0 /\ heap_array'[h].total = 0
    BY <1>3 DEF NoHeap
  <2>2. DataSize * 0 = 0
    BY VFileAssumption
  <2>3. ListHead(h)' = NULL
    BY <1>1, <1>4, <2>1
  <2> QED BY <2>1, <2>2, <2>3 DEF HeapRight
<1>7. \A x \in Allocated' : seg'[x].heap # h
  BY <1>1, <1>5 DEF Allocated
<1>8. ASSUME NEW g \in Heaps \ {h}
      PROVE  /\ HeapRight(g)'
             /\ \A x \in Allocated' : seg'[x].heap = g => SegmentRight(x)'
  <2>1. \A x \in Addresses : SameHeader(x)
    BY <1>1 DEF SameHeader
  <2> QED BY <1>1, <1>3, <1>4, <2>1, ListKept
<1> QED BY <1>1, <1>3, <1>6, <1>7, <1>8, ListsOfHeaps

-----------------------------------------------------------------------------
(* The invariant. *)

(* The neighbours of the segment a call is at are of the same file. *)
LEMMA Neighbours ==
    ASSUME HeapInv, pc \in {"search", "next"}
    PROVE  /\ seg[at].next # NULL =>
                 /\ seg[at].next \in Allocated /\ seg[seg[at].next].heap = call.heap
                 /\ seg[seg[at].next].start = seg[at].end + 1
           /\ seg[at].prev # NULL =>
                 /\ seg[at].prev \in Allocated /\ seg[seg[at].prev].heap = call.heap
                 /\ seg[at].start = seg[seg[at].prev].end + 1
<1>1. /\ call.heap \in Heaps /\ at \in Allocated /\ seg[at].heap = call.heap
      /\ SegmentRight(at) /\ HeapRight(call.heap) /\ ~ Closing(call.heap)
  BY DEF HeapInv, MovesInPlace, ListsLinked, Closing
<1>2. ListHead(call.heap) # NULL /\ seg[ListHead(call.heap)].num = 1
  BY <1>1 DEF SegmentRight, HeapRight
<1> QED BY <1>1, <1>2 DEF SegmentRight, Follows

(* At the start no heap is open. *)
LEMMA HeapInvInit == Init => HeapInv
<1> SUFFICES ASSUME Init
             PROVE  HeapInv
  OBVIOUS
<1>1. NoHeap \in HeapEntries /\ NoSegment \in Segments /\ Allocated = {}
  BY VFileAssumption DEF Init, NoHeap, HeapEntries, NoSegment, Segments, Allocated
<1>2. TypeOK
  BY <1>1, VFileAssumption DEF Init, TypeOK
<1>3. ListsLinked
  BY <1>1, VFileAssumption DEF Init, ListsLinked, HeapRight, ListHead, Closing, NoHeap
<1>4. MovesInPlace
  BY DEF Init, MovesInPlace
<1> QED BY <1>2, <1>3, <1>4 DEF HeapInv

(* Steps outside CLOSE that leave the memory alone. *)
LEMMA MemoryKept ==
    ASSUME HeapInv, UNCHANGED memory, pc # "close", pc' # "close"
    PROVE  /\ seg' \in [Addresses -> Segments] /\ heap_array' \in [Heaps -> HeapEntries]
           /\ ListsLinked'
<1>1. /\ TypeOK /\ ListsLinked /\ UNCHANGED heap_array /\ UNCHANGED seg
  BY DEF HeapInv, memory
<1>2. \A x \in Addresses : SameHeader(x)
  BY <1>1 DEF SameHeader
<1>3. \A h \in Heaps : ListHead(h)' = ListHead(h) /\ ~ Closing(h)
  BY <1>1 DEF ListHead, Closing
<1> QED BY <1>1, <1>2, <1>3, LinksKept DEF TypeOK

(* The return of READ and WRITE. *)
LEMMA ReturnKeeps ==
    ASSUME HeapInv, UNCHANGED memory, pc # "close", NEW rc \in {0, 3, 4}, Return(rc)
    PROVE  HeapInv'
<1>1. /\ seg' \in [Addresses -> Segments] /\ heap_array' \in [Heaps -> HeapEntries]
      /\ ListsLinked'
  BY MemoryKept DEF Return
<1>2. TypeOK'
  BY <1>1, VFileAssumption DEF HeapInv, TypeOK, Return, settings
<1>3. MovesInPlace'
  BY DEF MovesInPlace, Return
<1> QED BY <1>1, <1>2, <1>3 DEF HeapInv

(* A call that returns at once. *)
LEMMA RefusalKeeps ==
    ASSUME HeapInv, pc = "idle", UNCHANGED <<alloc_init, memory, pc, call, at, moving>>,
           first_vopen' \in BOOLEAN, code' \in {2, 3, 6, 7}
    PROVE  HeapInv'
<1>1. /\ seg' \in [Addresses -> Segments] /\ heap_array' \in [Heaps -> HeapEntries]
      /\ ListsLinked'
  BY MemoryKept
<1>2. TypeOK'
  BY <1>1 DEF HeapInv, TypeOK, moving
<1>3. MovesInPlace'
  BY DEF HeapInv, MovesInPlace, moving
<1> QED BY <1>1, <1>2, <1>3 DEF HeapInv

(* A new segment becomes the one the call is at. *)
LEMMA GrownSegment ==
    ASSUME HeapInv, pc \in {"search", "next"}, seg[at].next = NULL, pc' # "close",
           NEW a \in Addresses \ Allocated, NEW d \in Fresh,
           NewSegment(call.heap, a, d), at' = a
    PROVE  /\ seg' \in [Addresses -> Segments] /\ heap_array' \in [Heaps -> HeapEntries]
           /\ ListsLinked'
           /\ at' \in Addresses /\ at' \in Allocated' /\ seg'[at'].heap = call.heap
           /\ seg'[at'].start = seg[at].end + 1 /\ seg'[at'].end = seg[at].end + DataSize
<1> PICK h : h = call.heap
  OBVIOUS
<1> PICK p : p = at
  OBVIOUS
<1>1. /\ seg' \in [Addresses -> Segments] /\ heap_array' \in [Heaps -> HeapEntries]
      /\ ListsLinked'
  BY GrowKeeps
<1>2. h \in Heaps /\ at \in Allocated /\ TypeOK
  BY DEF HeapInv, MovesInPlace
<1>3. /\ seg'[a].heap = h
      /\ seg'[a].start = seg[at].end + 1 /\ seg'[a].end = seg[at].end + DataSize
  BY <1>2, NewSegmentEffect
<1>4. a \in Allocated'
  BY <1>2, <1>3 DEF Allocated, Heaps
<1> QED BY <1>1, <1>3, <1>4

(* Every step keeps the lists linked. *)
LEMMA HeapInvNext == HeapInv /\ [Next]_vars => HeapInv'
<1> SUFFICES ASSUME HeapInv, [Next]_vars
             PROVE  HeapInv'
  OBVIOUS
<1>1. TypeOK /\ ListsLinked /\ MovesInPlace
  BY DEF HeapInv
<1>2. CASE OpenVFile
  <2>1. /\ seg' \in [Addresses -> Segments] /\ heap_array' \in [Heaps -> HeapEntries]
        /\ ListsLinked'
    BY <1>2, OpenKeeps DEF OpenVFile
  <2>2. TypeOK'
    <3>1. /\ first_vopen' \in BOOLEAN /\ code' = 0
          /\ UNCHANGED <<alloc_init, pc, call, at, offset, moved>>
      BY <1>2 DEF OpenVFile, moving
    <3> QED BY <1>1, <2>1, <3>1 DEF TypeOK
  <2>3. MovesInPlace'
    BY <1>1, <1>2 DEF OpenVFile, MovesInPlace, moving
  <2> QED BY <2>1, <2>2, <2>3 DEF HeapInv
<1>3. CASE OpenRefused
  BY <1>3, RefusalKeeps DEF OpenRefused
<1>4. CASE MissingOpen
  BY <1>4, <1>1, RefusalKeeps DEF MissingOpen, settings, TypeOK
<1>5. ASSUME NEW c \in Requests, Request(c)
      PROVE  HeapInv'
  <2>1. /\ pc = "idle" /\ c.heap \in Heaps /\ heap_array[c.heap].first # NULL
        /\ at' = Start(c) /\ call' = c /\ pc' = "search" /\ code' = 0
        /\ UNCHANGED <<settings, memory, moving>>
    BY <1>5 DEF Request, IsOpen
  <2>2. /\ seg' \in [Addresses -> Segments] /\ heap_array' \in [Heaps -> HeapEntries]
        /\ ListsLinked'
    BY <2>1, MemoryKept
  <2>3. Start(c) \in Allocated /\ seg[Start(c)].heap = c.heap
    <3>1. HeapRight(c.heap) /\ ListHead(c.heap) = heap_array[c.heap].first
      BY <1>1, <2>1 DEF ListsLinked, ListHead, Closing
    <3>2. /\ heap_array[c.heap].first \in Addresses /\ heap_array[c.heap].last \in Addresses
          /\ seg[heap_array[c.heap].first].heap = c.heap
          /\ seg[heap_array[c.heap].last].heap = c.heap
      BY <1>1, <2>1, <3>1, EntryFields DEF HeapRight
    <3> QED BY <2>1, <3>2 DEF Start, Allocated, Heaps
  <2>4. Allocated \subseteq Addresses /\ Allocated' = Allocated
    BY <2>1 DEF Allocated, memory
  <2>5. TypeOK'
    BY <1>1, <2>1, <2>2, <2>3, <2>4 DEF TypeOK, settings, moving
  <2>6. MovesInPlace'
    <3>1. moved' = 0 /\ c.len \in Nat
      BY <1>1, <2>1, RequestType DEF MovesInPlace, moving
    <3> QED BY <2>1, <2>3, <2>4, <3>1 DEF MovesInPlace, memory
  <2> QED BY <2>2, <2>5, <2>6 DEF HeapInv
<1>6. ASSUME NEW c \in Requests, RequestClosed(c)
      PROVE  HeapInv'
  <2>1. /\ pc = "idle" /\ pc' = "fault" /\ call' = Plain(c.op, c.heap)
        /\ UNCHANGED <<settings, memory, at, moving, code>>
    BY <1>6 DEF RequestClosed
  <2>2. /\ seg' \in [Addresses -> Segments] /\ heap_array' \in [Heaps -> HeapEntries]
        /\ ListsLinked'
    BY <2>1, MemoryKept
  <2>3. TypeOK'
    BY <1>1, <2>1, <2>2, RequestType DEF TypeOK, settings, moving
  <2> QED BY <2>1, <2>2, <2>3 DEF HeapInv, MovesInPlace
<1>7. ASSUME NEW h \in HeapIds, CloseVFile(h)
      PROVE  HeapInv'
  <2>1. /\ pc = "idle" /\ pc' = "close" /\ call' = Plain("close", h) /\ h \in Heaps
        /\ at' = heap_array[h].first /\ code' = 0
        /\ UNCHANGED <<settings, memory, moving>>
    BY <1>7 DEF CloseVFile
  <2>2. call'.heap = h
    BY <2>1 DEF Plain, NoCall
  <2>3. TypeOK'
    BY <1>1, <2>1, EntryFields DEF TypeOK, settings, memory, moving
  <2>4. ListsLinked'
    <3>1. \A x \in Addresses : SameHeader(x)
      BY <2>1 DEF SameHeader, memory
    <3>2. \A g \in Heaps : ListHead(g)' = ListHead(g) /\ ~ Closing(g)
      BY <2>1, <2>2 DEF ListHead, Closing, memory
    <3> QED BY <1>1, <2>1, <2>3, <3>1, <3>2, LinksKept DEF TypeOK, memory
  <2>5. MovesInPlace'
    BY <2>1, <2>2 DEF MovesInPlace
  <2> QED BY <2>3, <2>4, <2>5 DEF HeapInv
<1>8. ASSUME NEW h \in HeapIds, OutOfBounds(h)
      PROVE  HeapInv'
  BY <1>8, <1>1, RefusalKeeps DEF OutOfBounds, settings, TypeOK
<1>9. ASSUME NEW h \in HeapIds, CloseBelowBounds(h)
      PROVE  HeapInv'
  <2>1. /\ pc = "idle" /\ pc' = "fault" /\ call' = Plain("close", h)
        /\ UNCHANGED <<settings, memory, at, moving, code>>
    BY <1>9 DEF CloseBelowBounds
  <2>2. /\ seg' \in [Addresses -> Segments] /\ heap_array' \in [Heaps -> HeapEntries]
        /\ ListsLinked'
    BY <2>1, MemoryKept
  <2>3. TypeOK'
    BY <1>1, <2>1, <2>2 DEF TypeOK, settings, moving
  <2> QED BY <2>1, <2>2, <2>3 DEF HeapInv, MovesInPlace
<1>10. CASE SearchBack \/ SearchForward
  <2>1. /\ pc = "search" /\ pc' = "search" /\ at' \in Allocated /\ seg[at'].heap = call.heap
        /\ UNCHANGED <<settings, memory, call, moving, code>>
    BY <1>10, Neighbours DEF SearchBack, SearchForward
  <2>2. /\ seg' \in [Addresses -> Segments] /\ heap_array' \in [Heaps -> HeapEntries]
        /\ ListsLinked'
    BY <2>1, MemoryKept
  <2>3. Allocated \subseteq Addresses /\ Allocated' = Allocated
    BY <2>1 DEF Allocated, memory
  <2>4. TypeOK'
    BY <1>1, <2>1, <2>2, <2>3 DEF TypeOK, settings, moving
  <2>5. MovesInPlace'
    BY <1>1, <2>1, <2>3 DEF MovesInPlace, memory, moving
  <2> QED BY <2>2, <2>4, <2>5 DEF HeapInv
<1>11. CASE SearchBefore \/ SearchNoMemory \/ MoveDone \/ NextNoMemory
  BY <1>11, ReturnKeeps DEF SearchBefore, SearchNoMemory, MoveDone, NextNoMemory
<1>12. CASE SearchGrow
  <2>1. /\ pc = "search" /\ pc' = "search" /\ UNCHANGED <<settings, call, moving, code>>
    BY <1>12 DEF SearchGrow
  <2>2. /\ seg' \in [Addresses -> Segments] /\ heap_array' \in [Heaps -> HeapEntries]
        /\ ListsLinked'
        /\ at' \in Addresses /\ at' \in Allocated' /\ seg'[at'].heap = call.heap
    BY <1>12, GrownSegment DEF SearchGrow
  <2>3. TypeOK'
    BY <1>1, <2>1, <2>2 DEF TypeOK, settings, moving
  <2>4. MovesInPlace'
    BY <1>1, <2>1, <2>2 DEF MovesInPlace, moving
  <2> QED BY <2>2, <2>3, <2>4 DEF HeapInv
<1>13. CASE Found
  <2>1. /\ pc = "search" /\ pc' = "move" /\ offset' = call.loc - seg[at].start
        /\ UNCHANGED <<settings, memory, call, at, moved, got, code>>
        /\ ~ Below /\ ~ Above
    BY <1>13 DEF Found
  <2>2. /\ seg' \in [Addresses -> Segments] /\ heap_array' \in [Heaps -> HeapEntries]
        /\ ListsLinked'
    BY <2>1, MemoryKept
  <2>3. /\ call \in Requests /\ at \in Addresses /\ moved = 0 /\ SegmentRight(at)
    BY <1>1, <2>1 DEF MovesInPlace, Allocated, ListsLinked
  <2>4. /\ offset' \in 0 .. DataSize - 1
        /\ seg[at].start + offset' = call.loc + moved
    <3>1. seg[at].start \in Int /\ seg[at].end \in Int /\ call.loc \in Nat
      BY <1>1, <2>3, SegmentFields, RequestType
    <3>2. seg[at].end = seg[at].start + DataSize - 1
      BY <2>3 DEF SegmentRight
    <3> QED BY <2>1, <2>3, <3>1, <3>2, VFileAssumption DEF Below, Above
  <2>5. TypeOK'
    BY <1>1, <2>1, <2>2, <2>4 DEF TypeOK, settings
  <2>6. MovesInPlace'
    BY <1>1, <2>1, <2>4 DEF MovesInPlace, memory, Allocated
  <2> QED BY <2>2, <2>5, <2>6 DEF HeapInv
<1>14. CASE MoveRest \/ MovePart
  <2> PICK n : n = IF MoveRest THEN MoveLen ELSE DataRemain
    OBVIOUS
  <2>1. /\ call \in Requests /\ call.heap \in Heaps /\ call.loc \in Nat /\ call.len \in Nat
        /\ at \in Allocated /\ at \in Addresses /\ seg[at].heap = call.heap
        /\ moved \in 0 .. call.len /\ offset \in 0 .. DataSize - 1
        /\ pc = "move" /\ SegmentRight(at)
        /\ seg[at].start \in Int /\ seg[at].end \in Int
    <3>1. pc = "move"
      BY <1>14 DEF MoveRest, MovePart
    <3>2. call \in Requests /\ at \in Allocated /\ at \in Addresses
      BY <1>1, <3>1 DEF MovesInPlace, Allocated
    <3> QED BY <1>1, <3>1, <3>2, RequestType, SegmentFields
            DEF MovesInPlace, ListsLinked, TypeOK
  <2>2. n \in Nat /\ n <= MoveLen /\ n <= DataRemain /\ Copy(n)
    BY <1>14, <2>1, VFileAssumption DEF MoveRest, MovePart, MoveLen, DataRemain
  <2>3. /\ seg' \in [Addresses -> Segments] /\ moved' = moved + n
        /\ \A x \in Addresses : SameHeader(x)
    BY <2>1, <2>2, CopyEffect
  <2>4. /\ pc' \in {"move", "next"} /\ (pc' = "next" <=> MovePart)
        /\ UNCHANGED <<settings, heap_array, call, at, offset, code>>
    BY <1>14, <2>1 DEF MoveRest, MovePart
  <2>5. moved' \in 0 .. call.len
    BY <2>1, <2>2, <2>3 DEF MoveLen
  <2>6. TypeOK'
    BY <1>1, <2>3, <2>4, <2>5 DEF TypeOK, settings
  <2>7. ListsLinked'
    <3>1. \A g \in Heaps : ListHead(g)' = ListHead(g) /\ ~ Closing(g)
      BY <2>1, <2>4 DEF ListHead, Closing
    <3> QED BY <1>1, <2>3, <2>4, <3>1, LinksKept
  <2>8. at \in Allocated' /\ SameHeader(at)
    BY <2>1, <2>3 DEF Allocated, SameHeader
  <2>9. CASE MoveRest
    <3>1. (MoveLen = 0)'
      BY <2>1, <2>3, <2>4, <2>9 DEF MoveLen
    <3>2. pc' = "move"
      BY <2>9 DEF MoveRest
    <3>3. MovesInPlace'
      BY <2>1, <2>4, <2>5, <2>8, <3>1, <3>2 DEF MovesInPlace, SameHeader
    <3> QED BY <2>6, <2>7, <3>3 DEF HeapInv
  <2>10. CASE MovePart /\ ~ MoveRest
    <3>1. seg[at].end + 1 = call.loc + (moved + DataRemain)
      <4>1. seg[at].start + offset = call.loc + moved
        BY <1>1, <2>1, <2>2, <2>10, VFileAssumption DEF MovesInPlace, MovePart, DataRemain, MoveLen
      <4>2. seg[at].end = seg[at].start + DataSize - 1
        BY <2>1 DEF SegmentRight
      <4>3. /\ seg[at].start \in Int /\ seg[at].end \in Int /\ call.loc \in Int
            /\ moved \in Int /\ offset \in Int
        BY <2>1
      <4>4. \A s, e, o, l, m \in Int :
               s + o = l + m /\ e = s + DataSize - 1 => e + 1 = l + (m + (DataSize - o))
        BY VFileAssumption
      <4> QED BY <4>1, <4>2, <4>3, <4>4 DEF DataRemain
    <3>2. pc' = "next"
      BY <2>4, <2>10
    <3>3. MovesInPlace'
      <4>1. moved' = moved + DataRemain
        BY <2>3, <2>10
      <4>2. seg'[at].end + 1 = call.loc + moved'
        BY <2>8, <3>1, <4>1 DEF SameHeader
      <4>3. (MoveLen > 0)'
        BY <2>1, <2>2, <2>4, <2>10, <4>1, VFileAssumption DEF MovePart, MoveLen, DataRemain
      <4> QED BY <2>1, <2>4, <2>5, <2>8, <3>2, <4>2, <4>3 DEF MovesInPlace, SameHeader
    <3> QED BY <2>6, <2>7, <3>3 DEF HeapInv
  <2> QED BY <1>14, <2>9, <2>10
<1>15. CASE NextSegment
  <2>1. /\ pc = "next" /\ pc' = "move" /\ at' = seg[at].next /\ offset' = 0
        /\ seg[at].next # NULL /\ UNCHANGED <<settings, memory, call, moved, got, code>>
    BY <1>15 DEF NextSegment
  <2>2. at' \in Allocated /\ seg[at'].heap = call.heap /\ seg[at'].start = seg[at].end + 1
    BY <2>1, Neighbours
  <2>3. /\ seg' \in [Addresses -> Segments] /\ heap_array' \in [Heaps -> HeapEntries]
        /\ ListsLinked'
    BY <2>1, MemoryKept
  <2>4. Allocated \subseteq Addresses /\ Allocated' = Allocated
    BY <2>1 DEF Allocated, memory
  <2>5. TypeOK'
    BY <1>1, <2>1, <2>2, <2>3, <2>4, VFileAssumption DEF TypeOK, settings
  <2>6. seg[at'].start + 0 = call.loc + moved
    BY <1>1, <2>1, <2>2, <2>4, SegmentFields DEF MovesInPlace
  <2>7. MovesInPlace'
    BY <1>1, <2>1, <2>2, <2>4, <2>6 DEF MovesInPlace, memory
  <2> QED BY <2>3, <2>5, <2>7 DEF HeapInv
<1>16. CASE NextGrow
  <2>1. /\ pc = "next" /\ pc' = "move" /\ offset' = 0
        /\ UNCHANGED <<settings, call, moved, got, code>>
    BY <1>16 DEF NextGrow
  <2>2. /\ seg' \in [Addresses -> Segments] /\ heap_array' \in [Heaps -> HeapEntries]
        /\ ListsLinked'
        /\ at' \in Addresses /\ at' \in Allocated' /\ seg'[at'].heap = call.heap
        /\ seg'[at'].start = seg[at].end + 1
    BY <1>16, GrownSegment DEF NextGrow
  <2>3. TypeOK'
    BY <1>1, <2>1, <2>2, VFileAssumption DEF TypeOK, settings
  <2>4. seg'[at'].start + 0 = call.loc + moved
    <3>1. call \in Requests /\ call.loc \in Nat /\ moved \in Nat
      BY <1>1, <2>1, RequestType DEF MovesInPlace, TypeOK
    <3> QED BY <1>1, <2>1, <2>2, <3>1 DEF MovesInPlace
  <2>5. MovesInPlace'
    BY <1>1, <2>1, <2>2, <2>4 DEF MovesInPlace
  <2> QED BY <2>2, <2>3, <2>5 DEF HeapInv
<1>17. CASE FreeSegment
  <2>1. seg' \in [Addresses -> Segments] /\ ListsLinked'
    BY <1>17, FreeKeeps
  <2>2. at' \in Addresses \cup {NULL}
    BY <1>1, <1>17, SegmentFields DEF FreeSegment, TypeOK
  <2>3. TypeOK'
    BY <1>1, <1>17, <2>1, <2>2 DEF FreeSegment, TypeOK, settings, moving
  <2>4. MovesInPlace'
    BY <1>1, <1>17 DEF FreeSegment, MovesInPlace
  <2> QED BY <2>1, <2>3, <2>4 DEF HeapInv
<1>18. CASE CloseEnd
  <2>1. heap_array' \in [Heaps -> HeapEntries] /\ ListsLinked'
    BY <1>18, CloseKeeps
  <2>2. TypeOK'
    BY <1>1, <1>18, <2>1, VFileAssumption DEF CloseEnd, Return, TypeOK, settings
  <2>3. MovesInPlace'
    BY <1>18 DEF CloseEnd, Return, MovesInPlace
  <2> QED BY <2>1, <2>2, <2>3 DEF HeapInv
<1>19. CASE UNCHANGED vars
  <2>1. TypeOK'
    BY <1>1, <1>19 DEF TypeOK, vars, settings, memory, moving
  <2>2. ListsLinked'
    <3>1. \A x \in Addresses : SameHeader(x)
      BY <1>19 DEF SameHeader, vars, memory
    <3>2. \A g \in Heaps : ListHead(g)' = ListHead(g) /\ (Closing(g) => Closing(g)')
      BY <1>19 DEF ListHead, Closing, vars, memory
    <3> QED BY <1>1, <1>19, <2>1, <3>1, <3>2, LinksKept DEF TypeOK, vars, memory
  <2>3. MovesInPlace'
    BY <1>1, <1>19 DEF MovesInPlace, MoveLen, Allocated, vars, memory, moving
  <2> QED BY <2>1, <2>2, <2>3 DEF HeapInv
<1> QED BY <1>2, <1>3, <1>4, <1>5, <1>6, <1>7, <1>8, <1>9, <1>10, <1>11, <1>12, <1>13,
           <1>14, <1>15, <1>16, <1>17, <1>18, <1>19 DEF Next, Step

(* In every state, for every memory and every sequence of calls, the       *)
(* segments of each file are one list that is linked both ways, no segment *)
(* is lost, and READ and WRITE are at the caller's next byte.              *)
THEOREM ListsAlwaysLinked == Spec => []HeapInv
BY HeapInvInit, HeapInvNext, PTL DEF Spec

-----------------------------------------------------------------------------
(* The loops come to an end. *)

(* The walk's next segment is between this one and the location. *)
LEMMA WalkNearer ==
    ASSUME HeapInv, SearchBack \/ SearchForward \/ SearchGrow
    PROVE  Distance' < Distance
<1>1. /\ pc = "search" /\ TypeOK /\ call \in Requests /\ at \in Addresses /\ at \in Allocated
      /\ SegmentRight(at) /\ call.loc \in Nat /\ call' = call
      /\ seg[at].start \in Int /\ seg[at].end = seg[at].start + DataSize - 1
  <2>1. pc = "search" /\ call' = call
    BY DEF SearchBack, SearchForward, SearchGrow
  <2>2. TypeOK /\ call \in Requests /\ at \in Allocated /\ at \in Addresses /\ SegmentRight(at)
    BY <2>1 DEF HeapInv, MovesInPlace, ListsLinked, Allocated
  <2> QED BY <2>1, <2>2, RequestType, SegmentFields DEF SegmentRight
<1>2. CASE SearchBack
  <2> PICK p : p = seg[at].prev
    OBVIOUS
  <2>1. /\ p \in Allocated /\ p \in Addresses /\ seg[at].start = seg[p].end + 1 /\ at' = p
        /\ seg' = seg /\ call.loc < seg[at].start
    BY <1>1, <1>2, Neighbours DEF SearchBack, Below, memory, Allocated
  <2>2. seg[p].start \in Int /\ seg[p].end = seg[p].start + DataSize - 1
    BY <1>1, <2>1, SegmentFields DEF HeapInv, ListsLinked, SegmentRight
  <2>3. Distance = seg[at].start - call.loc
    BY <2>1 DEF Distance, Below
  <2>4. Distance' = IF call.loc < seg[p].start THEN seg[p].start - call.loc ELSE 0
    <3>1. ~ (call.loc > seg[p].end)
      BY <1>1, <2>1, <2>2, VFileAssumption
    <3>2. seg'[at'] = seg[p] /\ call'.loc = call.loc
      BY <1>1, <2>1
    <3> QED BY <3>1, <3>2 DEF Distance, Below, Above
  <2> DEFINE a == seg[at].start
             b == seg[p].start
  <2>5. /\ a \in Int /\ b \in Int /\ a = b + DataSize
        /\ call.loc \in Nat /\ call.loc < a /\ DataSize \in Nat \ {0}
    BY <1>1, <2>1, <2>2, VFileAssumption
  <2>6. Distance = a - call.loc /\ Distance' = IF call.loc < b THEN b - call.loc ELSE 0
    BY <2>3, <2>4
  <2> HIDE DEF a, b
  <2> QED BY <2>5, <2>6
<1>3. CASE SearchForward \/ SearchGrow
  <2>1. /\ seg'[at'].start = seg[at].end + 1 /\ seg'[at'].end = seg[at].end + DataSize
        /\ call.loc > seg[at].end
    <3>1. CASE SearchForward
      <4>1. /\ at' \in Allocated /\ at' \in Addresses /\ seg' = seg
            /\ seg[at'].start = seg[at].end + 1 /\ call.loc > seg[at].end
        BY <1>1, <3>1, Neighbours DEF SearchForward, Above, memory, Allocated
      <4>2. seg[at'].end = seg[at'].start + DataSize - 1
        BY <4>1 DEF HeapInv, ListsLinked, SegmentRight
      <4> QED BY <1>1, <4>1, <4>2, VFileAssumption
    <3>2. CASE SearchGrow
      BY <1>1, <3>2, GrownSegment DEF SearchGrow, Above
    <3> QED BY <1>3, <3>1, <3>2
  <2>2. Distance = call.loc - seg[at].end
    BY <1>1, <2>1, VFileAssumption DEF Distance, Below, Above
  <2>3. Distance' = IF call.loc > seg[at].end + DataSize
                    THEN call.loc - (seg[at].end + DataSize) ELSE 0
    BY <1>1, <2>1, VFileAssumption DEF Distance, Below, Above
  <2> QED BY <1>1, <2>1, <2>2, <2>3, VFileAssumption
<1> QED BY <1>2, <1>3

(* Each turn of the move loop moves a byte or more, and no more than asked. *)
LEMMA MoveOn ==
    ASSUME HeapInv, MoveRest \/ MovePart
    PROVE  moved' > moved /\ moved' <= call.len
<1>1. /\ pc = "move" /\ call \in Requests /\ moved \in 0 .. call.len
      /\ offset \in 0 .. DataSize - 1
  BY DEF HeapInv, TypeOK, MovesInPlace, MoveRest, MovePart
<1>2. call.len \in Nat
  BY <1>1, RequestType
<1>3. CASE MoveRest
  BY <1>1, <1>2, <1>3 DEF MoveRest, Copy, MoveLen
<1>4. CASE MovePart
  BY <1>1, <1>2, <1>4, VFileAssumption DEF MovePart, Copy, MoveLen, DataRemain
<1> QED BY <1>3, <1>4

(* For every file, location and length, each turn of the two loops of      *)
(* LOCATE_SEGMENT comes nearer to its end: a call takes no more turns than *)
(* there are bytes up to the location and in the request.                  *)
THEOREM LoopsComeNearer == Spec => ComesNearer
<1>1. HeapInv /\ [Next]_vars => [Nearer]_vars
  <2> SUFFICES ASSUME HeapInv, Next
               PROVE  Nearer
    OBVIOUS
  <2>1. CASE SearchBack \/ SearchForward \/ SearchGrow
    BY <2>1, WalkNearer DEF Nearer, SearchBack, SearchForward, SearchGrow
  <2>2. CASE MoveRest \/ MovePart
    BY <2>2, MoveOn DEF Nearer, MoveRest, MovePart
  <2>3. CASE NextSegment \/ NextGrow
    BY <2>3 DEF Nearer, NextSegment, NextGrow, MoveLen, HeapInv, MovesInPlace
  <2>4. CASE Found \/ SearchBefore \/ SearchNoMemory \/ MoveDone \/ NextNoMemory
             \/ FreeSegment \/ CloseEnd
    BY <2>4 DEF Nearer, Found, SearchBefore, SearchNoMemory, MoveDone, NextNoMemory,
                FreeSegment, CloseEnd, Return
  <2>5. CASE pc = "idle"
    BY <2>5 DEF Nearer
  <2> QED BY <2>1, <2>2, <2>3, <2>4, <2>5
          DEF Next, Step, OpenVFile, OpenRefused, MissingOpen, Request, RequestClosed,
              CloseVFile, OutOfBounds, CloseBelowBounds
<1> QED BY <1>1, ListsAlwaysLinked, PTL DEF Spec, ComesNearer

-----------------------------------------------------------------------------
(* The bytes of a file. *)

(* Some natural numbers have a least one. *)
LEMMA LeastOf ==
    ASSUME NEW T \in SUBSET Nat, T # {}
    PROVE  \E m \in T : \A n \in T : m <= n
<1>1. PICK R : R = OpToRel(<, Nat)
  OBVIOUS
<1>2. PICK m \in T : \A n \in T : <<n, m>> \notin R
  BY <1>1, NatLessThanWellFounded, WFMin
<1>3. ASSUME NEW n \in T
      PROVE  ~ (n < m)
  BY <1>1, <1>2 DEF OpToRel
<1> QED BY <1>2, <1>3

(* What is linked behind a segment lies behind it. *)
LEMMA LaterIsBehind ==
    ASSUME HeapInv, NEW h \in Heaps, ~ Closing(h),
           NEW a \in Allocated, NEW b \in Allocated, seg[a].heap = h, seg[b].heap = h,
           seg[a].num < seg[b].num
    PROVE  seg[a].end < seg[b].start
<1> DEFINE Behind == {x \in Allocated : seg[x].heap = h /\ seg[a].num < seg[x].num}
           Bad == {seg[x].num : x \in {y \in Behind : ~ (seg[a].end < seg[y].start)}}
<1>1. /\ Allocated \subseteq Addresses
      /\ \A x \in Allocated : SegmentRight(x) /\ seg[x].num \in Nat
      /\ \A x \in Allocated : seg[x].start \in Int /\ seg[x].end \in Int
      /\ HeapRight(h)
  BY SegmentFields DEF HeapInv, ListsLinked, Allocated
<1>2. seg[ListHead(h)].num = 1 /\ seg[a].num >= 1
  BY <1>1 DEF HeapRight, SegmentRight
<1> SUFFICES ASSUME ~ (seg[a].end < seg[b].start)
             PROVE  FALSE
  OBVIOUS
<1>3. Bad \in SUBSET Nat /\ Bad # {}
  BY <1>1
<1>4. PICK m \in Bad : \A n \in Bad : m <= n
  <2> HIDE DEF Bad
  <2> QED BY <1>3, LeastOf
<1>5. PICK x \in Behind : seg[x].num = m /\ ~ (seg[a].end < seg[x].start)
  BY <1>4
<1>6. PICK p : p = seg[x].prev
  OBVIOUS
<1>7. /\ x \in Allocated /\ seg[x].heap = h /\ m \in Nat /\ seg[a].num < m /\ m # 1
  BY <1>1, <1>2, <1>3, <1>5
<1>8. /\ p \in Allocated /\ seg[p].heap = h /\ m = seg[p].num + 1
      /\ seg[x].start = seg[p].end + 1
  BY <1>1, <1>2, <1>5, <1>6, <1>7 DEF SegmentRight, Follows
<1>9. CASE seg[p].num = seg[a].num
  <2>1. p = a
    BY <1>1, <1>8, <1>9 DEF SegmentRight
  <2> QED BY <1>1, <1>5, <1>8, <2>1
<1>10. CASE seg[p].num # seg[a].num
  <2>1. p \in Behind
    BY <1>1, <1>7, <1>8, <1>10
  <2>2. seg[p].num \notin Bad
    <3> HIDE DEF Bad
    <3> QED BY <1>1, <1>3, <1>4, <1>8
  <2>3. seg[a].end < seg[p].start
    BY <2>1, <2>2
  <2>4. seg[p].end = seg[p].start + DataSize - 1 /\ seg[p].start \in Int
    BY <1>1, <1>8 DEF SegmentRight
  <2> QED BY <1>1, <1>5, <1>8, <2>3, <2>4, VFileAssumption
<1> QED BY <1>9, <1>10

(* A location is in one segment. *)
LEMMA OneHolds ==
    ASSUME HeapInv, NEW h \in Heaps, ~ Closing(h), NEW l \in Int,
           NEW a \in Holds(h, l), NEW b \in Holds(h, l)
    PROVE  a = b
<1>1. /\ a \in Allocated /\ seg[a].heap = h /\ seg[a].start <= l /\ l <= seg[a].end
      /\ b \in Allocated /\ seg[b].heap = h /\ seg[b].start <= l /\ l <= seg[b].end
  BY DEF Holds
<1>2. /\ seg[a].num \in Nat /\ seg[a].start \in Int /\ seg[a].end \in Int
      /\ seg[b].num \in Nat /\ seg[b].start \in Int /\ seg[b].end \in Int
      /\ SegmentRight(a)
  BY <1>1, SegmentFields DEF HeapInv, ListsLinked, Allocated
<1>3. ~ (seg[a].num < seg[b].num) /\ ~ (seg[b].num < seg[a].num)
  BY <1>1, <1>2, LaterIsBehind
<1>4. seg[a].num = seg[b].num
  BY <1>2, <1>3
<1> QED BY <1>1, <1>2, <1>4 DEF SegmentRight

(* So the byte at a location is that of any segment that has it. *)
LEMMA ByteIs ==
    ASSUME HeapInv, NEW h \in Heaps, Shown(h), NEW l \in Int, NEW a \in Holds(h, l)
    PROVE  ByteAt(h, l) = seg[a].data[l - seg[a].start] /\ ByteAt(h, l) \in Values
<1>1. PICK b : b = CHOOSE x \in Holds(h, l) : TRUE
  OBVIOUS
<1>2. b \in Holds(h, l) /\ ByteAt(h, l) = seg[b].data[l - seg[b].start]
  BY <1>1 DEF ByteAt
<1>3. b = a
  BY <1>2, OneHolds DEF Shown
<1>4. /\ a \in Addresses /\ a \in Allocated /\ seg[a].start <= l /\ l <= seg[a].end
  BY DEF Holds, Allocated
<1>5. /\ seg[a].start \in Int /\ seg[a].end = seg[a].start + DataSize - 1
      /\ seg[a].data \in [0 .. DataSize - 1 -> Values]
  BY <1>4, SegmentFields DEF HeapInv, ListsLinked, SegmentRight
<1>6. l - seg[a].start \in 0 .. DataSize - 1
  BY <1>4, <1>5, VFileAssumption
<1> QED BY <1>2, <1>3, <1>5, <1>6

(* The same of all files and locations. *)
ByteOfHolder ==
    \A g \in Heaps, m \in Int, x \in Addresses :
        Shown(g) /\ x \in Holds(g, m) => ByteAt(g, m) = seg[x].data[m - seg[x].start]

(* It is so in every state of the routines. *)
LEMMA ByteIsAlways == HeapInv => ByteOfHolder
BY ByteIs DEF ByteOfHolder

(* And so after a step. *)
LEMMA ByteIsNext ==
    ASSUME HeapInv', NEW h \in Heaps, Shown(h)', NEW l \in Int, NEW a \in Addresses,
           a \in Holds(h, l)'
    PROVE  ByteAt(h, l)' = seg'[a].data[l - seg'[a].start]
<1>1. ByteOfHolder'
  BY ByteIsAlways, PTL
<1> QED BY <1>1 DEF ByteOfHolder

(* What is at a location is a byte of some segment, or it is unset. *)
LEMMA ByteType ==
    ASSUME HeapInv, NEW h \in Heaps, NEW l \in Int
    PROVE  /\ ByteAt(h, l) \in Values \cup {Unset}
           /\ ByteAt(h, l) # Unset => Shown(h) /\ \E a \in Holds(h, l) : TRUE
<1>1. CASE Shown(h) /\ Holds(h, l) # {}
  BY <1>1, ByteIs
<1>2. CASE ~ (Shown(h) /\ Holds(h, l) # {})
  BY <1>2 DEF ByteAt
<1> QED BY <1>1, <1>2

(* The cells of the store hold bytes, or are unset. *)
LEMMA CellsType ==
    HeapInv => Cells \in [Heaps -> [1 .. MaxLoc -> Values \cup {Unset}]]
BY ByteType DEF Cells

(* The segments of a file and their bytes are left alone. *)
SameFile(h) ==
    \A x \in Addresses : seg[x].heap = h \/ seg'[x].heap = h =>
        /\ seg'[x].heap = seg[x].heap /\ seg'[x].data = seg[x].data
        /\ seg'[x].start = seg[x].start /\ seg'[x].end = seg[x].end

(* When a file is left alone its bytes are. *)
LEMMA ByteKept ==
    ASSUME NEW h \in Heaps, Shown(h)' <=> Shown(h), Shown(h) => SameFile(h), NEW l
    PROVE  ByteAt(h, l)' = ByteAt(h, l)
<1>1. CASE ~ Shown(h)
  BY <1>1 DEF ByteAt
<1>2. CASE Shown(h)
  <2>1. \A x \in Addresses : x \in Holds(h, l)' <=> x \in Holds(h, l)
    BY <1>2 DEF SameFile, Holds, Allocated, Heaps
  <2>2. Holds(h, l)' = Holds(h, l) /\ Holds(h, l) \subseteq Addresses
    BY <2>1 DEF Holds, Allocated
  <2>3. PICK a : a = CHOOSE x \in Holds(h, l) : TRUE
    OBVIOUS
  <2>4. a = CHOOSE x \in Holds(h, l)' : TRUE
    BY <2>2, <2>3
  <2>5. CASE Holds(h, l) = {}
    BY <1>2, <2>2, <2>5 DEF ByteAt
  <2>6. CASE Holds(h, l) # {}
    <3>1. a \in Holds(h, l)
      BY <2>3, <2>6
    <3>2. seg'[a].data = seg[a].data /\ seg'[a].start = seg[a].start
      BY <1>2, <2>2, <3>1 DEF SameFile, Holds
    <3>3. ByteAt(h, l) = seg[a].data[l - seg[a].start]
      BY <1>2, <2>3, <2>6 DEF ByteAt
    <3>4. ByteAt(h, l)' = seg'[a].data[l - seg'[a].start]
      BY <1>2, <2>2, <2>4, <2>6 DEF ByteAt
    <3> QED BY <3>2, <3>3, <3>4
  <2> QED BY <2>5, <2>6
<1> QED BY <1>1, <1>2

(* When all the files but one are left alone only its bytes change. *)
LEMMA OneChanges ==
    ASSUME HeapInv, HeapInv', NEW h \in Heaps,
           \A g \in Heaps \ {h} : (Shown(g)' <=> Shown(g)) /\ (Shown(g) => SameFile(g))
    PROVE  /\ Cells'[h] \in [1 .. MaxLoc -> Values \cup {Unset}]
           /\ Cells' = [Cells EXCEPT ![h] = Cells'[h]]
<1>1. /\ Cells \in [Heaps -> [1 .. MaxLoc -> Values \cup {Unset}]]
      /\ Cells' \in [Heaps -> [1 .. MaxLoc -> Values \cup {Unset}]]
  <2>1. Cells \in [Heaps -> [1 .. MaxLoc -> Values \cup {Unset}]]
    BY CellsType
  <2>2. (Cells \in [Heaps -> [1 .. MaxLoc -> Values \cup {Unset}]])'
    BY CellsType, PTL
  <2> QED BY <2>1, <2>2
<1>2. ASSUME NEW g \in Heaps \ {h}
      PROVE  Cells'[g] = Cells[g]
  <2>1. \A l \in 1 .. MaxLoc : ByteAt(g, l)' = ByteAt(g, l)
    BY ByteKept
  <2> QED BY <2>1 DEF Cells
<1> QED BY <1>1, <1>2

(* When all are left alone nothing changes. *)
LEMMA NoneChanges ==
    ASSUME \A g \in Heaps : (Shown(g)' <=> Shown(g)) /\ (Shown(g) => SameFile(g))
    PROVE  OpenFiles' = OpenFiles /\ Cells' = Cells
<1>1. \A g \in Heaps, l \in 1 .. MaxLoc : ByteAt(g, l)' = ByteAt(g, l)
  BY ByteKept
<1>2. Cells' = Cells
  BY <1>1 DEF Cells
<1> QED BY <1>2 DEF OpenFiles

-----------------------------------------------------------------------------
(* The steps of the store. *)

(* Between calls nothing is left of the last one, and CLOSE moves nothing. *)
IdleInv ==
    /\ pc = "idle" => call = NoCall /\ moved = 0 /\ got = <<>>
    /\ pc = "close" => moved = 0 /\ got = <<>> /\ code = 0

(* No step leaves anything behind. *)
LEMMA IdleInvNext == IdleInv /\ [Next]_vars => IdleInv'
<1> SUFFICES ASSUME IdleInv, [Next]_vars PROVE IdleInv'
  OBVIOUS
<1>1. CASE OpenVFile \/ OpenRefused \/ MissingOpen
  BY <1>1 DEF IdleInv, OpenVFile, OpenRefused, MissingOpen, moving
<1>2. ASSUME NEW c \in Requests, Request(c) \/ RequestClosed(c)
      PROVE  IdleInv'
  BY <1>2 DEF IdleInv, Request, RequestClosed
<1>3. ASSUME NEW h \in HeapIds, CloseVFile(h) \/ OutOfBounds(h) \/ CloseBelowBounds(h)
      PROVE  IdleInv'
  BY <1>3 DEF IdleInv, CloseVFile, OutOfBounds, CloseBelowBounds, moving
<1>4. CASE SearchBefore \/ SearchNoMemory \/ MoveDone \/ NextNoMemory \/ CloseEnd
  BY <1>4 DEF IdleInv, SearchBefore, SearchNoMemory, MoveDone, NextNoMemory, CloseEnd, Return
<1>5. CASE \/ SearchBack \/ SearchForward \/ SearchGrow \/ Found \/ MoveRest \/ MovePart
           \/ NextSegment \/ NextGrow \/ FreeSegment
  BY <1>5 DEF IdleInv, SearchBack, SearchForward, SearchGrow, Found, MoveRest, MovePart,
              NextSegment, NextGrow, FreeSegment, moving
<1>6. CASE UNCHANGED vars
  BY <1>6 DEF IdleInv, vars, moving
<1> QED BY <1>1, <1>2, <1>3, <1>4, <1>5, <1>6 DEF Next, Step

(* A file is shown as the entry of its heap says. *)
LEMMA MemoryShown ==
    ASSUME UNCHANGED memory, NEW h, Closing(h)' <=> Closing(h)
    PROVE  (Shown(h)' <=> Shown(h)) /\ SameFile(h)
BY DEF memory, Shown, IsOpen, SameFile

(* A step that leaves memory alone, while CLOSE does not run, shows the    *)
(* same files with the same bytes.                                         *)
LEMMA MemoryAlone ==
    ASSUME UNCHANGED memory, pc # "close", pc' # "close"
    PROVE  OpenFiles' = OpenFiles /\ Cells' = Cells /\ Call' = call' /\ Call = call
<1>1. \A g \in Heaps : (Shown(g)' <=> Shown(g)) /\ SameFile(g)
  BY MemoryShown DEF Closing
<1> QED BY <1>1, NoneChanges DEF Call

(* What is asked for is a call. *)
LEMMA NewCall == \A c \in Requests : c # NoCall
BY RequestType DEF NoCall

(* OPEN shows one more file. *)
LEMMA OpenStep ==
    ASSUME HeapInv, HeapInv', IdleInv, OpenVFile
    PROVE  S!StoreNext
<1>1. /\ pc = "idle" /\ pc' = "idle" /\ call' = call /\ call = NoCall /\ code' = 0
      /\ moved' = moved /\ got' = got
  BY DEF OpenVFile, IdleInv, moving
<1>2. PICK h \in Heaps, a \in Addresses \ Allocated, d \in Fresh :
         FirstFree(h) /\ CreateFirst(h, a, d)
  BY DEF OpenVFile
<1>3. /\ heap_array \in [Heaps -> HeapEntries] /\ seg \in [Addresses -> Segments]
  BY DEF HeapInv, TypeOK
<1>4. /\ heap_array'[h].first = a /\ \A g \in Heaps \ {h} : heap_array'[g] = heap_array[g]
      /\ seg'[a].heap = h /\ \A x \in Addresses \ {a} : seg'[x] = seg[x]
      /\ seg[a].heap = 0
  BY <1>2, <1>3 DEF CreateFirst, Allocated
<1>5. ~ Shown(h) /\ Shown(h)'
  BY <1>1, <1>2, <1>4, VFileAssumption DEF Shown, FirstFree, IsOpen, Closing
<1>6. \A g \in Heaps \ {h} : (Shown(g)' <=> Shown(g)) /\ SameFile(g)
  BY <1>1, <1>4 DEF Shown, IsOpen, Closing, SameFile, Heaps
<1>7. /\ Cells'[h] \in [1 .. MaxLoc -> Values \cup {Unset}]
      /\ Cells' = [Cells EXCEPT ![h] = Cells'[h]]
  BY <1>6, OneChanges
<1>8. OpenFiles' = OpenFiles \cup {h} /\ h \notin OpenFiles
  BY <1>5, <1>6 DEF OpenFiles
<1>9. Call = NoCall /\ Call' = Call
  BY <1>1 DEF Call
<1>10. S!Opens(h)
  BY <1>1, <1>7, <1>8, <1>9 DEF S!Opens, S!Cells, S!Locations, S!NoCall, NoCall
<1> QED BY <1>10 DEF S!StoreNext, S!Files, Heaps

(* CLOSE hides a file at once. *)
LEMMA CloseStep ==
    ASSUME HeapInv, HeapInv', IdleInv, NEW h \in HeapIds, CloseVFile(h)
    PROVE  S!StoreNext
<1>1. /\ pc = "idle" /\ pc' = "close" /\ call = NoCall /\ code' = 0 /\ call'.heap = h
      /\ h \in Heaps /\ UNCHANGED memory /\ moved' = moved /\ got' = got
  BY DEF CloseVFile, IdleInv, moving, Plain, NoCall
<1>2. \A g \in Heaps \ {h} : (Shown(g)' <=> Shown(g)) /\ SameFile(g)
  BY <1>1, MemoryShown DEF Closing
<1>3. ~ Shown(h)'
  BY <1>1 DEF Shown, Closing
<1>4. Cells' = [Cells EXCEPT ![h] = Cells'[h]]
  BY <1>1, <1>2, OneChanges
<1>5. Cells'[h] = [l \in 1 .. MaxLoc |-> Unset]
  BY <1>1, <1>3 DEF Cells, ByteAt
<1>6. OpenFiles' = OpenFiles \ {h}
  BY <1>1, <1>2, <1>3 DEF OpenFiles
<1>7. Call = NoCall /\ Call' = Call
  BY <1>1 DEF Call
<1>8. S!Closes(h)
  BY <1>1, <1>4, <1>5, <1>6, <1>7 DEF S!Closes, S!Nothing, S!Locations, S!NoCall, NoCall
<1> QED BY <1>1, <1>8 DEF S!StoreNext, S!Files, Heaps

(* That its segments are freed one after the other is not seen. *)
LEMMA FreeStep ==
    ASSUME HeapInv, IdleInv, FreeSegment \/ CloseEnd
    PROVE  UNCHANGED S!storeVars
<1> PICK h : h = call.heap
  OBVIOUS
<1>1. /\ pc = "close" /\ h \in Heaps /\ heap_array \in [Heaps -> HeapEntries]
      /\ seg \in [Addresses -> Segments] /\ at \in Addresses \cup {NULL}
      /\ HeapRight(h) /\ Closing(h) /\ ListHead(h) = at
      /\ \A g \in Heaps \ {h} : ~ Closing(g)
  BY DEF HeapInv, MovesInPlace, TypeOK, ListsLinked, Closing, ListHead, FreeSegment, CloseEnd
<1>2. moved = 0 /\ got = <<>> /\ code = 0
  BY <1>1 DEF IdleInv
<1>3. CASE FreeSegment
  <2>1. seg[at].heap = h /\ at \in Addresses
    BY <1>1, <1>3 DEF HeapRight, FreeSegment
  <2>2. /\ UNCHANGED <<heap_array, pc, call, moved, got, code>>
        /\ seg'[at].heap = 0 /\ \A x \in Addresses \ {at} : seg'[x] = seg[x]
    BY <1>1, <1>3, <2>1 DEF FreeSegment, moving, NoSegment
  <2>3. \A g \in Heaps : Closing(g)' <=> Closing(g)
    BY <2>2 DEF Closing
  <2>4. \A g \in Heaps : (Shown(g)' <=> Shown(g)) /\ (Shown(g) => SameFile(g))
    BY <1>1, <2>1, <2>2, <2>3 DEF Shown, IsOpen, SameFile, Heaps
  <2>5. Call' = Call
    BY <2>2 DEF Call
  <2> QED BY <2>2, <2>4, <2>5, NoneChanges DEF S!storeVars
<1>4. CASE CloseEnd
  <2>1. /\ heap_array' = [heap_array EXCEPT ![h] = NoHeap] /\ seg' = seg
        /\ pc' = "idle" /\ call' = NoCall /\ code' = 0 /\ moved' = 0 /\ got' = <<>>
    BY <1>4 DEF CloseEnd, Return
  <2>2. heap_array'[h].first = NULL /\ \A g \in Heaps \ {h} : heap_array'[g] = heap_array[g]
    BY <1>1, <2>1 DEF NoHeap
  <2>3. \A g \in Heaps : (Shown(g)' <=> Shown(g)) /\ (Shown(g) => SameFile(g))
    BY <1>1, <2>1, <2>2 DEF Shown, IsOpen, SameFile, Closing
  <2>4. Call' = Call
    BY <1>1, <2>1 DEF Call
  <2> QED BY <1>2, <2>1, <2>3, <2>4, NoneChanges DEF S!storeVars
<1> QED BY <1>3, <1>4

(* READ and WRITE begin, if the file is open. *)
LEMMA RequestStep ==
    ASSUME HeapInv, IdleInv, NEW c \in Requests, Request(c) \/ RequestClosed(c)
    PROVE  S!StoreNext
<1>1. /\ pc = "idle" /\ call = NoCall /\ UNCHANGED memory /\ moved' = moved /\ got' = got
  BY DEF Request, RequestClosed, IdleInv, moving
<1>2. CASE Request(c)
  <2>1. /\ pc' = "search" /\ call' = c /\ code' = 0 /\ IsOpen(c.heap)
    BY <1>2 DEF Request
  <2>2. OpenFiles' = OpenFiles /\ Cells' = Cells /\ Call' = c /\ Call = NoCall
    BY <1>1, <2>1, MemoryAlone
  <2>3. c.heap \in Heaps /\ c.heap \in OpenFiles
    BY <1>1, <2>1 DEF OpenFiles, Shown, IsOpen, Closing
  <2>4. S!Calls(c.heap)
    BY <1>1, <2>1, <2>2, <2>3, NewCall DEF S!Calls, S!NoCall, NoCall
  <2> QED BY <2>3, <2>4 DEF S!StoreNext, S!Files, Heaps
<1>3. CASE RequestClosed(c)
  <2>1. /\ pc' = "fault" /\ call' = Plain(c.op, c.heap) /\ ~ IsOpen(c.heap)
    BY <1>3 DEF RequestClosed
  <2>2. Call' = Plain(c.op, c.heap) /\ Call = NoCall
    BY <1>1, <2>1 DEF Call
  <2>3. Plain(c.op, c.heap) # NoCall /\ Plain(c.op, c.heap).heap = c.heap
    BY RequestType DEF Plain, NoCall
  <2>4. c.heap \notin OpenFiles
    BY <2>1 DEF OpenFiles, Shown
  <2> QED BY <2>2, <2>3, <2>4 DEF S!StoreNext, S!Misuse, S!NoCall, NoCall
<1> QED BY <1>2, <1>3

(* A call that is refused changes nothing. *)
LEMMA RefuseStep ==
    ASSUME HeapInv, IdleInv,
           \/ OpenRefused \/ MissingOpen
           \/ \E h \in HeapIds : OutOfBounds(h)
    PROVE  S!StoreNext
<1>1. /\ pc = "idle" /\ pc' = pc /\ UNCHANGED <<memory, call, moved, got>> /\ code' # 0
  BY DEF OpenRefused, MissingOpen, OutOfBounds, moving
<1>2. OpenFiles' = OpenFiles /\ Cells' = Cells /\ Call' = Call /\ Call = NoCall
  BY <1>1, MemoryAlone DEF IdleInv
<1>3. S!Refused
  BY <1>1, <1>2 DEF S!Refused, S!NoCall, NoCall
<1> QED BY <1>3 DEF S!StoreNext

(* CLOSE of heap 0 is outside of what the store promises. *)
LEMMA BelowStep ==
    ASSUME HeapInv, IdleInv, NEW h \in HeapIds, CloseBelowBounds(h)
    PROVE  S!StoreNext
<1>1. /\ pc = "idle" /\ pc' = "fault" /\ call' = Plain("close", h) /\ h = 0 /\ call = NoCall
  BY DEF CloseBelowBounds, IdleInv
<1>2. Call = NoCall /\ Call' = Plain("close", h)
  BY <1>1 DEF Call
<1>3. Plain("close", h) # NoCall /\ Plain("close", h).heap = 0
  BY <1>1 DEF Plain, NoCall
<1>4. 0 \notin Heaps
  BY DEF Heaps
<1>5. 0 \notin OpenFiles
  BY <1>4 DEF OpenFiles
<1> QED BY <1>2, <1>3, <1>5 DEF S!StoreNext, S!Misuse, S!NoCall, NoCall

(* The walk, and the change from one segment to the next, are not seen. *)
LEMMA WalkStep ==
    ASSUME HeapInv, SearchBack \/ SearchForward \/ Found \/ NextSegment
    PROVE  UNCHANGED S!storeVars
<1>1. /\ UNCHANGED <<memory, call, moved, got, code>> /\ pc # "close" /\ pc' # "close"
  BY DEF SearchBack, SearchForward, Found, NextSegment, moving
<1> QED BY <1>1, MemoryAlone DEF S!storeVars

(* A call returns 0 when all is moved, 3 when memory ran out before, and 4 *)
(* when there is no such location.                                         *)
LEMMA ReturnStep ==
    ASSUME HeapInv, SearchBefore \/ SearchNoMemory \/ MoveDone \/ NextNoMemory
    PROVE  S!StoreNext
<1>1. /\ UNCHANGED memory /\ pc \in {"search", "move", "next"} /\ pc' = "idle"
      /\ call' = NoCall /\ moved' = 0 /\ got' = <<>>
  BY DEF SearchBefore, SearchNoMemory, MoveDone, NextNoMemory, Return
<1>2. /\ call \in Requests /\ moved \in 0 .. call.len /\ call.len \in Nat /\ call.loc \in Nat
      /\ call # NoCall
  BY <1>1, RequestType, NewCall DEF HeapInv, MovesInPlace
<1>3. /\ OpenFiles' = OpenFiles /\ Cells' = Cells /\ Call' = NoCall /\ Call = call
  BY <1>1, MemoryAlone
<1>4. \/ code' = 0 /\ moved = call.len
      \/ code' = 3 /\ (moved < call.len \/ moved = 0)
      \/ code' = 4 /\ call.loc < 1 /\ moved = 0
  <2>1. CASE SearchBefore
    <3>1. at \in Allocated /\ SegmentRight(at) /\ seg[at].prev = NULL /\ call.loc < seg[at].start
          /\ moved = 0 /\ HeapRight(seg[at].heap) /\ ~ Closing(seg[at].heap)
      BY <1>1, <2>1, AllocatedHeap
         DEF SearchBefore, Below, HeapInv, MovesInPlace, ListsLinked, Closing
    <3>2. seg[at].num = 1
      BY <3>1, VFileAssumption DEF SegmentRight, HeapRight, Allocated
    <3>3. seg[at].start = 1
      BY <3>1, <3>2 DEF SegmentRight
    <3> QED BY <2>1, <3>1, <3>3 DEF SearchBefore, Return
  <2>2. CASE SearchNoMemory
    BY <2>2 DEF SearchNoMemory, Return, HeapInv, MovesInPlace
  <2>3. CASE MoveDone
    BY <1>2, <2>3 DEF MoveDone, Return, MoveLen
  <2>4. CASE NextNoMemory
    BY <1>2, <2>4 DEF NextNoMemory, Return, MoveLen, HeapInv, MovesInPlace
  <2> QED BY <2>1, <2>2, <2>3, <2>4
<1>5. S!Returns
  BY <1>1, <1>2, <1>3, <1>4 DEF S!Returns, S!NoCall, NoCall
<1> QED BY <1>5 DEF S!StoreNext

(* A new segment gives memory to locations that had none. *)
LEMMA GrowStep ==
    ASSUME HeapInv, HeapInv', SearchGrow \/ NextGrow
    PROVE  S!StoreNext
<1> PICK h : h = call.heap
  OBVIOUS
<1>1. /\ pc \in {"search", "next"} /\ pc' \in {"search", "move"} /\ seg[at].next = NULL
      /\ UNCHANGED <<call, moved, got, code>>
  BY DEF SearchGrow, NextGrow, moving
<1>2. PICK a \in Addresses \ Allocated, d \in Fresh : NewSegment(h, a, d)
  BY DEF SearchGrow, NextGrow
<1>3. /\ h \in Heaps /\ at \in Allocated /\ at \in Addresses /\ seg[at].heap = h
      /\ call # NoCall /\ TypeOK
      /\ heap_array \in [Heaps -> HeapEntries] /\ seg \in [Addresses -> Segments]
  BY <1>1, NewCall DEF HeapInv, MovesInPlace, TypeOK, Allocated
<1>4. /\ a # at /\ seg[a].heap = 0 /\ seg'[a].heap = h
      /\ \A x \in Addresses \ {a, at} : SameHeader(x)
      /\ seg'[at].heap = seg[at].heap /\ seg'[at].start = seg[at].start
      /\ seg'[at].end = seg[at].end
      /\ \A g \in Heaps \ {h} : heap_array'[g] = heap_array[g]
      /\ heap_array'[h].first = heap_array[h].first
  BY <1>2, <1>3, NewSegmentEffect DEF Allocated
<1>5. \A x \in Addresses \ {a} : seg'[x].data = seg[x].data
  <2>1. seg[at] \in Segments
    BY <1>3
  <2>2. \A x \in Addresses \ {a, at} : seg'[x] = seg[x]
    BY <1>2, <1>3 DEF NewSegment
  <2>3. seg'[at] = [seg[at] EXCEPT !.next = a]
    BY <1>2, <1>3, <1>4 DEF NewSegment
  <2>4. seg'[at].data = seg[at].data
    BY <2>1, <2>3 DEF Segments
  <2> QED BY <2>2, <2>4
<1>6. \A x \in Addresses \ {a} : /\ seg'[x].heap = seg[x].heap /\ seg'[x].data = seg[x].data
                                 /\ seg'[x].start = seg[x].start /\ seg'[x].end = seg[x].end
  BY <1>4, <1>5 DEF SameHeader
<1>7. \A g \in Heaps : Shown(g)' <=> Shown(g)
  BY <1>1, <1>4 DEF Shown, IsOpen, Closing
<1>8. \A g \in Heaps \ {h} : SameFile(g)
  BY <1>4, <1>6 DEF SameFile, Heaps
<1>9. /\ Cells'[h] \in [1 .. MaxLoc -> Values \cup {Unset}]
      /\ Cells' = [Cells EXCEPT ![h] = Cells'[h]]
  BY <1>3, <1>7, <1>8, OneChanges
<1>10. ASSUME NEW l \in 1 .. MaxLoc, ByteAt(h, l) # Unset
       PROVE  ByteAt(h, l)' = ByteAt(h, l)
  <2>1. l \in Int
    OBVIOUS
  <2>2. Shown(h) /\ \E x \in Holds(h, l) : TRUE
    BY <1>3, <1>10, <2>1, ByteType
  <2>3. PICK x \in Holds(h, l) : TRUE
    BY <2>2
  <2>4. x \in Addresses \ {a} /\ x \in Allocated
    BY <1>2 DEF Holds, Allocated
  <2>5. x \in Holds(h, l)' /\ Shown(h)'
    BY <1>3, <1>6, <1>7, <2>2, <2>4 DEF Holds, Allocated
  <2>6. ByteAt(h, l) = seg[x].data[l - seg[x].start]
    BY <1>3, <2>1, <2>2, <2>3, ByteIs
  <2>7. ByteAt(h, l)' = seg'[x].data[l - seg'[x].start]
    BY <1>3, <2>1, <2>4, <2>5, ByteIsNext
  <2> QED BY <1>6, <2>4, <2>6, <2>7
<1>11. Call = call /\ Call' = Call /\ OpenFiles' = OpenFiles
  BY <1>1, <1>7 DEF Call, OpenFiles
<1>12. \A l \in 1 .. MaxLoc : Cells[h][l] # Unset => Cells'[h][l] = Cells[h][l]
  BY <1>3, <1>10 DEF Cells
<1>13. S!Grows
  BY <1>1, <1>3, <1>9, <1>11, <1>12 DEF S!Grows, S!Cells, S!Locations, S!NoCall, NoCall
<1> QED BY <1>13 DEF S!StoreNext

(* Locations and the places in a segment. *)
LEMMA RunInSegment ==
    ASSUME NEW s \in Int, NEW k \in Nat, NEW n \in Nat, NEW d \in Nat, NEW l \in Int,
           NEW c \in Int, NEW m \in Int, n <= d - k, s + k = c + m
    PROVE  /\ c + m <= l /\ l <= c + m + n - 1 <=> l - s \in k .. k + n - 1
           /\ l - s \in k .. k + n - 1 =>
                 s <= l /\ l <= s + d - 1 /\ l - s \in 0 .. d - 1
           /\ m + (l - s) - k + 1 = l - c + 1
           /\ \A i \in Nat : l = c + m + i - 1 => l - s = k + i - 1
OBVIOUS

(* A file begins at location 1. *)
LEMMA StartsAfterZero ==
    ASSUME HeapInv, NEW a \in Allocated, ~ Closing(seg[a].heap)
    PROVE  seg[a].start >= 1
<1> PICK h : h = seg[a].heap
  OBVIOUS
<1> PICK f : f = ListHead(h)
  OBVIOUS
<1>1. /\ TypeOK /\ SegmentRight(a) /\ h \in Heaps /\ HeapRight(h)
  BY AllocatedHeap DEF HeapInv, ListsLinked
<1>2. /\ f # NULL /\ seg[f].heap = h /\ seg[f].num = 1 /\ seg[a].num >= 1
  BY <1>1 DEF HeapRight, SegmentRight
<1>3. f \in Allocated
  BY <1>1, <1>2, HeadType DEF Allocated, Heaps
<1>4. /\ SegmentRight(f) /\ seg[f].start \in Int /\ seg[a].start \in Int /\ seg[a].num \in Nat
  BY <1>1, <1>3, SegmentFields DEF HeapInv, ListsLinked, Allocated
<1>5. seg[f].start = 1 /\ seg[f].end = DataSize
  BY <1>2, <1>4, VFileAssumption DEF SegmentRight
<1>6. CASE seg[a].num = 1
  BY <1>1, <1>6 DEF SegmentRight
<1>7. CASE seg[a].num # 1
  <2>1. seg[f].num < seg[a].num
    BY <1>2, <1>4, <1>7
  <2>2. seg[f].end < seg[a].start
    BY <1>1, <1>3, <1>2, <2>1, LaterIsBehind
  <2> QED BY <1>4, <1>5, <2>2, VFileAssumption
<1> QED BY <1>6, <1>7

(* The bytes that are moved next are in the segment the call has come to,  *)
(* and among the locations that are looked at.                             *)
LEMMA RunIsHeld ==
    ASSUME HeapInv, pc = "move", NEW n \in Nat, n >= 1, n <= MoveLen, n <= DataRemain,
           NEW l \in Int, call.loc + moved <= l, l <= call.loc + moved + n - 1
    PROVE  /\ at \in Holds(call.heap, l) /\ Shown(call.heap) /\ l \in 1 .. MaxLoc
           /\ l - seg[at].start \in offset .. offset + n - 1
           /\ l - seg[at].start \in 0 .. DataSize - 1
           /\ moved + (l - seg[at].start) - offset + 1 = l - call.loc + 1
           /\ \A i \in Nat :
                 l = call.loc + moved + i - 1 => l - seg[at].start = offset + i - 1
<1> PICK h : h = call.heap
  OBVIOUS
<1>1. /\ call \in Requests /\ h \in Heaps /\ at \in Allocated /\ seg[at].heap = h
      /\ moved \in Nat /\ offset \in 0 .. DataSize - 1 /\ TypeOK /\ ~ Closing(h)
      /\ SegmentRight(at) /\ HeapRight(h)
  BY DEF HeapInv, MovesInPlace, TypeOK, ListsLinked, Closing
<1>2. /\ call.loc \in Nat /\ call.len \in Nat /\ call.loc + call.len <= MaxLoc + 1
      /\ MaxLoc \in Nat
  BY <1>1, RequestType, StoreAssumption
<1>3. /\ seg[at].start \in Int /\ seg[at].end = seg[at].start + DataSize - 1
      /\ seg[at].start >= 1
  BY <1>1, SegmentFields, StartsAfterZero DEF Allocated, SegmentRight
<1>4. n <= call.len - moved /\ n <= DataSize - offset
  BY DEF MoveLen, DataRemain
<1>5. seg[at].start + offset = call.loc + moved
  BY <1>1, <1>2, <1>4 DEF HeapInv, MovesInPlace, MoveLen
<1>6. /\ seg[at].start <= l /\ l <= seg[at].end
      /\ l - seg[at].start \in offset .. offset + n - 1
      /\ l - seg[at].start \in 0 .. DataSize - 1
      /\ moved + (l - seg[at].start) - offset + 1 = l - call.loc + 1
      /\ \A i \in Nat :
            l = call.loc + moved + i - 1 => l - seg[at].start = offset + i - 1
  <2>1. DataSize \in Nat /\ offset \in Nat /\ call.loc \in Int /\ moved \in Int
    BY <1>1, <1>2, VFileAssumption
  <2> QED BY <1>3, <1>4, <1>5, <2>1, RunInSegment
<1>7. l \in 1 .. MaxLoc
  BY <1>1, <1>2, <1>3, <1>4, <1>6
<1>8. at \in Holds(h, l)
  BY <1>1, <1>3, <1>6 DEF Holds
<1>9. Shown(h)
  BY <1>1 DEF Shown, IsOpen, HeapRight, SegmentRight
<1> QED BY <1>6, <1>7, <1>8, <1>9

(* What WRITE does to the segments, and to the file. *)
PutInSegment(n) ==
    seg' = [seg EXCEPT ![at].data = [i \in 0 .. DataSize - 1 |->
                IF i \in offset .. offset + n - 1
                THEN call.data[moved + i - offset + 1] ELSE @[i]]]

PutInFile(n) ==
    Cells' = [Cells EXCEPT ![call.heap] = [l \in 1 .. MaxLoc |->
                 IF l \in call.loc + moved .. call.loc + moved + n - 1
                 THEN call.data[l - call.loc + 1] ELSE Cells[call.heap][l]]]

(* WRITE puts its next bytes where they belong, and leaves the others. *)
LEMMA WriteMoves ==
    ASSUME HeapInv, HeapInv', pc = "move", pc' # "close", NEW n \in Nat, n >= 1,
           n <= MoveLen, n <= DataRemain,
           UNCHANGED <<heap_array, call>>, PutInSegment(n)
    PROVE  OpenFiles' = OpenFiles /\ PutInFile(n)
<1> PICK run : run = call.loc + moved .. call.loc + moved + n - 1
  OBVIOUS
<1> PICK h : h = call.heap
  OBVIOUS
<1>1. /\ call \in Requests /\ h \in Heaps /\ at \in Allocated /\ at \in Addresses
      /\ seg[at].heap = h
      /\ moved \in Nat /\ offset \in 0 .. DataSize - 1 /\ TypeOK
      /\ seg \in [Addresses -> Segments] /\ call.loc \in Nat /\ seg[at].start \in Int
      /\ \A g \in Heaps : ~ Closing(g) /\ ~ Closing(g)'
  BY SegmentFields, RequestType DEF HeapInv, MovesInPlace, TypeOK, Allocated, Closing
<1>2. /\ seg'[at] = [seg[at] EXCEPT !.data = [i \in 0 .. DataSize - 1 |->
                        IF i \in offset .. offset + n - 1
                        THEN call.data[moved + i - offset + 1] ELSE seg[at].data[i]]]
      /\ \A x \in Addresses \ {at} : seg'[x] = seg[x]
  BY <1>1 DEF PutInSegment
<1>3. /\ seg'[at].heap = seg[at].heap /\ seg'[at].start = seg[at].start
      /\ seg'[at].end = seg[at].end
      /\ seg'[at].data = [i \in 0 .. DataSize - 1 |->
            IF i \in offset .. offset + n - 1
            THEN call.data[moved + i - offset + 1] ELSE seg[at].data[i]]
  <2>1. seg[at] \in Segments
    BY <1>1
  <2> DEFINE D == [i \in 0 .. DataSize - 1 |->
                        IF i \in offset .. offset + n - 1
                        THEN call.data[moved + i - offset + 1] ELSE seg[at].data[i]]
  <2>2. seg'[at] = [seg[at] EXCEPT !.data = D]
    BY <1>2
  <2> HIDE DEF D
  <2>3. /\ seg'[at].heap = seg[at].heap /\ seg'[at].start = seg[at].start
        /\ seg'[at].end = seg[at].end /\ seg'[at].data = D
    BY <2>1, <2>2 DEF Segments
  <2> QED BY <2>3 DEF D
<1>4. \A g \in Heaps : Shown(g)' <=> Shown(g)
  BY <1>1 DEF Shown, IsOpen
<1>5. \A g \in Heaps \ {h} : SameFile(g)
  BY <1>1, <1>2, <1>3 DEF SameFile
<1>6. /\ Cells'[h] \in [1 .. MaxLoc -> Values \cup {Unset}]
      /\ Cells' = [Cells EXCEPT ![h] = Cells'[h]]
  BY <1>1, <1>4, <1>5, OneChanges
<1>7. seg[at].start + offset = call.loc + moved /\ n <= DataSize - offset
  <2>1. call.len \in Nat
    BY <1>1, RequestType
  <2>2. MoveLen > 0
    BY <1>1, <2>1 DEF MoveLen
  <2> QED BY <2>2 DEF HeapInv, MovesInPlace, DataRemain
<1>8. ASSUME NEW l \in 1 .. MaxLoc
      PROVE  ByteAt(h, l)' = IF l \in run THEN call.data[l - call.loc + 1] ELSE ByteAt(h, l)
  <2>1. l \in Int
    OBVIOUS
  <2>2. CASE l \in run
    <3>1. call.loc + moved <= l /\ l <= call.loc + moved + n - 1
      BY <1>1, <2>2
    <3> PICK j : j = l - seg[at].start
      OBVIOUS
    <3>2. /\ at \in Holds(h, l) /\ Shown(h) /\ j \in offset .. offset + n - 1
          /\ j \in 0 .. DataSize - 1 /\ moved + j - offset + 1 = l - call.loc + 1
      BY <2>1, <3>1, RunIsHeld
    <3>3. at \in Holds(h, l)' /\ Shown(h)'
      BY <1>1, <1>3, <1>4, <3>2 DEF Holds, Allocated
    <3>4. ByteAt(h, l)' = seg'[at].data[l - seg[at].start]
      <4> PICK x : x = at
        OBVIOUS
      <4>1. /\ x \in Addresses /\ x \in Holds(h, l)' /\ Shown(h)'
            /\ seg'[x].start = seg[x].start /\ h \in Heaps
        BY <1>1, <1>3, <3>3
      <4>2. ByteAt(h, l)' = seg'[x].data[l - seg'[x].start]
        BY <2>1, <4>1, ByteIsNext
      <4> QED BY <4>1, <4>2
    <3>8. seg'[at].data[j] = call.data[moved + j - offset + 1]
      BY <1>3, <3>2
    <3>9. seg'[at].data[j] = call.data[l - call.loc + 1]
      BY <3>2, <3>8
    <3> QED BY <2>2, <3>4, <3>9
  <2>3. CASE l \notin run /\ Holds(h, l) # {} /\ Shown(h)
    <3>1. PICK x \in Holds(h, l) : TRUE
      BY <2>3
    <3>2. x \in Addresses /\ x \in Allocated /\ seg[x].heap = h
          /\ seg[x].start <= l /\ l <= seg[x].end
      BY <3>1 DEF Holds, Allocated
    <3>3. seg'[x].heap = seg[x].heap /\ seg'[x].start = seg[x].start /\ seg'[x].end = seg[x].end
      BY <1>2, <1>3, <3>2
    <3>4. x \in Holds(h, l)' /\ Shown(h)'
      BY <1>1, <1>4, <2>3, <3>1, <3>2, <3>3 DEF Holds, Allocated
    <3>5. ByteAt(h, l)' = seg'[x].data[l - seg[x].start]
      BY <1>1, <2>1, <3>2, <3>3, <3>4, ByteIsNext
    <3>6. ByteAt(h, l) = seg[x].data[l - seg[x].start]
      BY <1>1, <2>1, <2>3, <3>1, ByteIs
    <3>7. CASE x # at
      BY <1>2, <2>3, <3>2, <3>5, <3>6, <3>7
    <3>8. CASE x = at
      <4>1. seg[at].start + offset = call.loc + moved
        BY <1>7
      <4>2. ~ (call.loc + moved <= l /\ l <= call.loc + moved + n - 1)
        BY <1>1, <2>3
      <4>3. l - seg[at].start \notin offset .. offset + n - 1
        BY <1>1, <4>1, <4>2
      <4>4. seg[at].end = seg[at].start + DataSize - 1
        BY <1>1 DEF HeapInv, ListsLinked, SegmentRight
      <4>5. l - seg[at].start \in 0 .. DataSize - 1
        BY <1>1, <3>2, <3>8, <4>4, VFileAssumption
      <4> QED BY <1>3, <2>3, <3>5, <3>6, <3>8, <4>3, <4>5
    <3> QED BY <3>7, <3>8
  <2>4. CASE ~ (Holds(h, l) # {} /\ Shown(h))
    <3>1. ~ (call.loc + moved <= l /\ l <= call.loc + moved + n - 1)
      BY <2>1, <2>4, RunIsHeld
    <3>2. l \notin run
      BY <1>1, <3>1
    <3>3. \A x \in Addresses : /\ seg'[x].heap = seg[x].heap /\ seg'[x].start = seg[x].start
                               /\ seg'[x].end = seg[x].end
      BY <1>2, <1>3
    <3>4. Holds(h, l)' = Holds(h, l)
      BY <1>1, <3>3 DEF Holds, Allocated
    <3>5. ByteAt(h, l) = Unset
      BY <2>4 DEF ByteAt
    <3>6. ByteAt(h, l)' = Unset
      BY <1>1, <1>4, <2>4, <3>4 DEF ByteAt
    <3> QED BY <3>2, <3>5, <3>6
  <2> QED BY <2>2, <2>3, <2>4
<1>9. Cells'[h] = [l \in 1 .. MaxLoc |->
                 IF l \in run THEN call.data[l - call.loc + 1] ELSE Cells[h][l]]
  BY <1>1, <1>8 DEF Cells
<1>10. OpenFiles' = OpenFiles
  BY <1>4 DEF OpenFiles
<1> QED BY <1>6, <1>9, <1>10 DEF PutInFile

(* The next bytes of a call are moved. *)
LEMMA MoveStep ==
    ASSUME HeapInv, HeapInv', MoveRest \/ MovePart
    PROVE  S!StoreNext
<1> PICK h : h = call.heap
  OBVIOUS
<1>1. /\ pc = "move" /\ pc' # "close" /\ call \in Requests /\ h \in Heaps
      /\ moved \in Nat /\ offset \in 0 .. DataSize - 1 /\ TypeOK
      /\ UNCHANGED <<heap_array, call, code>> /\ call # NoCall
  BY NewCall DEF HeapInv, MovesInPlace, TypeOK, MoveRest, MovePart
<1>2. call.loc \in Nat /\ call.len \in Nat /\ call.op \in {"read", "write"}
  BY <1>1, RequestType
<1>3. PICK n : n \in Nat /\ n >= 1 /\ n <= MoveLen /\ n <= DataRemain /\ Copy(n)
  <2>1. MoveLen \in Int /\ DataRemain \in Nat /\ DataRemain >= 1
    BY <1>1, <1>2, VFileAssumption DEF MoveLen, DataRemain
  <2>2. CASE MoveRest
    BY <2>1, <2>2 DEF MoveRest
  <2>3. CASE MovePart
    BY <2>1, <2>3 DEF MovePart
  <2> QED BY <2>2, <2>3
<1>4. moved' = moved + n /\ moved + n <= call.len /\ n \in 1 .. call.len
  BY <1>1, <1>2, <1>3 DEF Copy, MoveLen
<1> PICK run : run = call.loc + moved .. call.loc + moved + n - 1
  OBVIOUS
<1>5. ASSUME NEW l \in run
      PROVE  l \in 1 .. MaxLoc /\ Cells[h][l] = seg[at].data[l - seg[at].start]
             /\ Cells[h][l] # Unset
  <2>1. l \in Int /\ call.loc + moved <= l /\ l <= call.loc + moved + n - 1
    BY <1>1, <1>2, <1>3
  <2>2. l \in 1 .. MaxLoc /\ at \in Holds(h, l) /\ Shown(h)
    BY <1>1, <1>3, <2>1, RunIsHeld
  <2>3. ByteAt(h, l) = seg[at].data[l - seg[at].start] /\ ByteAt(h, l) \in Values
    BY <1>1, <2>1, <2>2, ByteIs
  <2> QED BY <1>1, <2>2, <2>3, StoreAssumption DEF Cells
<1>6. Call = call /\ Call' = call
  BY <1>1 DEF Call
<1>7. CASE call.op = "write"
  <2>1. UNCHANGED got /\ PutInSegment(n)
    BY <1>3, <1>7 DEF Copy, PutInSegment
  <2>2. OpenFiles' = OpenFiles /\ PutInFile(n)
    BY <1>1, <1>3, <2>1, WriteMoves
  <2>3. S!Moves(n)
    BY <1>1, <1>4, <1>5, <1>6, <1>7, <2>1, <2>2 DEF S!Moves, S!Locations, S!NoCall, NoCall,
                                                                       PutInFile
  <2> QED BY <1>4, <1>6, <2>3 DEF S!StoreNext
<1>8. CASE call.op = "read"
  <2>1. /\ UNCHANGED memory
        /\ got' = got \o [i \in 1 .. n |-> seg[at].data[offset + i - 1]]
    BY <1>1, <1>3, <1>8 DEF Copy, memory
  <2>2. OpenFiles' = OpenFiles /\ Cells' = Cells
    BY <1>1, <2>1, MemoryAlone
  <2>3. ASSUME NEW i \in 1 .. n
        PROVE  seg[at].data[offset + i - 1] = Cells[h][call.loc + moved + i - 1]
    <3> PICK l : l = call.loc + moved + i - 1
      OBVIOUS
    <3>1. /\ l \in Int /\ call.loc + moved <= l /\ l <= call.loc + moved + n - 1 /\ i \in Nat
      BY <1>1, <1>2, <1>3
    <3>2. l \in run
      BY <1>1, <1>2, <1>3
    <3>3. l - seg[at].start = offset + i - 1
      BY <1>1, <1>3, <3>1, RunIsHeld
    <3> QED BY <1>5, <3>2, <3>3
  <2>4. [i \in 1 .. n |-> seg[at].data[offset + i - 1]]
          = [i \in 1 .. n |-> Cells[h][call.loc + moved + i - 1]]
    BY <2>3
  <2>5. S!Moves(n)
    BY <1>1, <1>4, <1>5, <1>6, <1>8, <2>1, <2>2, <2>4 DEF S!Moves, S!Locations, S!NoCall, NoCall
  <2> QED BY <1>4, <1>6, <2>5 DEF S!StoreNext
<1> QED BY <1>2, <1>7, <1>8

-----------------------------------------------------------------------------
(* At the start no file is shown, and no call runs. *)
LEMMA StoreInitHolds == Init => S!StoreInit /\ IdleInv
<1> SUFFICES ASSUME Init
             PROVE  S!StoreInit /\ IdleInv
  OBVIOUS
<1>1. \A h \in Heaps : ~ Shown(h)
  BY DEF Init, NoHeap, Shown, IsOpen
<1>2. OpenFiles = {} /\ Cells = [h \in Heaps |-> [l \in 1 .. MaxLoc |-> Unset]]
  BY <1>1 DEF OpenFiles, Cells, ByteAt
<1>3. Call = NoCall /\ moved = 0 /\ got = <<>> /\ code = 0
  BY DEF Init, Call
<1>4. IdleInv
  BY DEF Init, IdleInv
<1> QED BY <1>2, <1>3, <1>4 DEF S!StoreInit, S!Files, S!Nothing, S!Locations, S!NoCall,
                                NoCall, Heaps

(* Every step of the routines is a step of the store, or is not seen. *)
LEMMA StepIsStoreStep ==
    HeapInv /\ HeapInv' /\ IdleInv /\ [Next]_vars => [S!StoreNext]_(S!storeVars)
<1> SUFFICES ASSUME HeapInv, HeapInv', IdleInv, [Next]_vars
             PROVE  S!StoreNext \/ UNCHANGED S!storeVars
  OBVIOUS
<1>1. CASE OpenVFile
  BY <1>1, OpenStep
<1>2. CASE OpenRefused \/ MissingOpen \/ \E h \in HeapIds : OutOfBounds(h)
  BY <1>2, RefuseStep
<1>3. ASSUME NEW c \in Requests, Request(c) \/ RequestClosed(c)
      PROVE  S!StoreNext
  BY <1>3, RequestStep
<1>4. ASSUME NEW h \in HeapIds, CloseVFile(h) \/ CloseBelowBounds(h)
      PROVE  S!StoreNext
  BY <1>4, CloseStep, BelowStep
<1>5. CASE SearchBack \/ SearchForward \/ Found \/ NextSegment
  BY <1>5, WalkStep
<1>6. CASE SearchBefore \/ SearchNoMemory \/ MoveDone \/ NextNoMemory
  BY <1>6, ReturnStep
<1>7. CASE SearchGrow \/ NextGrow
  BY <1>7, GrowStep
<1>8. CASE MoveRest \/ MovePart
  BY <1>8, MoveStep
<1>9. CASE FreeSegment \/ CloseEnd
  BY <1>9, FreeStep
<1>10. CASE UNCHANGED vars
  <2>1. \A g \in Heaps : (Shown(g)' <=> Shown(g)) /\ SameFile(g)
    BY <1>10, MemoryShown DEF vars, Closing
  <2>2. Call' = Call /\ UNCHANGED <<moved, got, code>>
    BY <1>10 DEF vars, moving, Call
  <2> QED BY <2>1, <2>2, NoneChanges DEF S!storeVars
<1> QED BY <1>1, <1>2, <1>3, <1>4, <1>5, <1>6, <1>7, <1>8, <1>9, <1>10 DEF Next, Step

(* A virtual file is a store of bytes: what WRITE has put at a location is *)
(* what READ gives back, whatever segments the file has grown to, and      *)
(* whatever was called for other files; a call returns early only when it  *)
(* says so.                                                                *)
THEOREM FileIsStore == Spec => ImplementsStore
<1>1. Init => S!StoreInit /\ HeapInv /\ IdleInv
  BY StoreInitHolds, HeapInvInit
<1>2. HeapInv /\ IdleInv /\ [Next]_vars => HeapInv' /\ IdleInv'
  BY HeapInvNext, IdleInvNext
<1>3. HeapInv /\ HeapInv' /\ IdleInv /\ [Next]_vars => [S!StoreNext]_(S!storeVars)
  BY StepIsStoreStep
<1> QED BY <1>1, <1>2, <1>3, PTL DEF Spec, ImplementsStore, S!Store
=============================================================================
