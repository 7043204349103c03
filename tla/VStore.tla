------------------------------- MODULE VStore -------------------------------
(***************************************************************************)
(* What the VFILE routines promise: each open virtual file is a store of   *)
(* bytes at locations 1, 2, 3, ...; WRITE puts a run of bytes there and    *)
(* READ gives them back, whatever was called for other files in between.   *)
(*                                                                         *)
(* Nothing is said of segments.  A location that has no memory yet is      *)
(* Unset; it gets some value when the file grows over it.  A call moves    *)
(* its bytes in one or more runs, in order, and may return early when      *)
(* memory runs out: the bytes moved before that are moved.                 *)
(***************************************************************************)
EXTENDS Integers, Sequences

CONSTANTS
    MaxHeap,  \* the number of virtual files there may be
    MaxLoc,   \* bound: the locations that are looked at
    Values,   \* what a byte may be
    Unset     \* what a location is that has no memory yet

VARIABLES
    open,   \* the open files
    cell,   \* cell[h][l]: the byte at location l of file h
    call,   \* the call that runs, or none
    moved,  \* the bytes it has moved
    got,    \* the bytes a READ has put into the caller's buffer
    code    \* what the last call returned

storeVars == <<open, cell, call, moved, got, code>>

Files == 1 .. MaxHeap
Locations == 1 .. MaxLoc
Nothing == [l \in Locations |-> Unset]

NoCall == [op |-> "none", heap |-> 0, loc |-> 0, len |-> 0, data |-> <<>>]

StoreInit ==
    /\ open = {} /\ cell = [h \in Files |-> Nothing]
    /\ call = NoCall /\ moved = 0 /\ got = <<>> /\ code = 0

(* Only file h changes. *)
Cells(h) ==
    /\ cell'[h] \in [Locations -> Values \cup {Unset}]
    /\ cell' = [cell EXCEPT ![h] = cell'[h]]

Opens(h) ==
    /\ call = NoCall /\ h \notin open
    /\ open' = open \cup {h} /\ Cells(h)
    /\ code' = 0
    /\ UNCHANGED <<call, moved, got>>

Closes(h) ==
    /\ call = NoCall
    /\ open' = open \ {h}
    /\ cell' = [cell EXCEPT ![h] = Nothing]
    /\ code' = 0
    /\ UNCHANGED <<call, moved, got>>

(* A call that does not even begin. *)
Refused ==
    /\ call = NoCall /\ code' # 0
    /\ UNCHANGED <<open, cell, call, moved, got>>

Calls(h) ==
    /\ call = NoCall /\ h \in open
    /\ call' # NoCall /\ call'.heap = h
    /\ code' = 0
    /\ UNCHANGED <<open, cell, moved, got>>

(* The file grows: what has memory keeps its value. *)
Grows ==
    /\ call # NoCall /\ Cells(call.heap)
    /\ \A l \in Locations :
         cell[call.heap][l] # Unset => cell'[call.heap][l] = cell[call.heap][l]
    /\ UNCHANGED <<open, call, moved, got, code>>

(* The next n bytes of the call are moved. *)
Moves(n) ==
    LET run == call.loc + moved .. call.loc + moved + n - 1
        bytes == cell[call.heap]
    IN  /\ call # NoCall /\ moved + n <= call.len
        /\ \A l \in run \cap Locations : bytes[l] # Unset
        /\ moved' = moved + n
        /\ \/ /\ call.op = "write"
              /\ cell' = [cell EXCEPT ![call.heap] = [l \in Locations |->
                             IF l \in run THEN call.data[l - call.loc + 1] ELSE bytes[l]]]
              /\ UNCHANGED got
           \/ /\ call.op = "read"
              /\ got' = got \o [i \in 1 .. n |-> bytes[call.loc + moved + i - 1]]
              /\ UNCHANGED cell
        /\ UNCHANGED <<open, call, code>>

(* 0: all is moved.  3, INSUFFICIENT_MEMORY: not all of it.                *)
(* 4, ERROR_BEFORE_RELATIVE_LOC_1: nothing, there is no such location.     *)
Returns ==
    /\ call # NoCall /\ call' = NoCall
    /\ \/ code' = 0 /\ moved = call.len
       \/ code' = 3 /\ (moved < call.len \/ moved = 0)
       \/ code' = 4 /\ call.loc < 1 /\ moved = 0
    /\ moved' = 0 /\ got' = <<>>
    /\ UNCHANGED <<open, cell>>

(* A file that is not open is read or written: nothing is promised. *)
Misuse == call = NoCall /\ call' # NoCall /\ call'.heap \notin open

StoreNext ==
    \/ \E h \in Files : Opens(h) \/ Closes(h) \/ Calls(h)
    \/ Refused \/ Grows \/ Returns \/ Misuse
    \/ \E n \in 1 .. call.len : Moves(n)

Store == StoreInit /\ [][StoreNext]_storeVars
=============================================================================
