----------------------------- MODULE VFileStore -----------------------------
(***************************************************************************)
(* VFile implements VStore: what a file that is open holds at a location   *)
(* is the byte of the one segment that has it.  While CLOSE runs the file  *)
(* is closed already, and there is no call.                                *)
(***************************************************************************)
EXTENDS VFile

CONSTANTS
    Unset,   \* what a location is that has no memory
    MaxLoc   \* bound: the locations that are looked at

(* No call goes beyond the locations that are looked at. *)
ASSUME StoreAssumption ==
    /\ Unset \notin Values /\ MaxLoc \in Nat
    /\ \A c \in Requests : c.loc + c.len <= MaxLoc + 1

Shown(h) == IsOpen(h) /\ ~ Closing(h)

Holds(h, l) == {a \in Allocated : seg[a].heap = h /\ l \in seg[a].start .. seg[a].end}

ByteAt(h, l) ==
    IF Shown(h) /\ Holds(h, l) # {}
    THEN LET a == CHOOSE a \in Holds(h, l) : TRUE IN seg[a].data[l - seg[a].start]
    ELSE Unset

OpenFiles == {h \in Heaps : Shown(h)}
Cells     == [h \in Heaps |-> [l \in 1 .. MaxLoc |-> ByteAt(h, l)]]
Call      == IF pc = "close" THEN NoCall ELSE call

S == INSTANCE VStore WITH open <- OpenFiles, cell <- Cells, call <- Call

(* VFile implements the store of bytes: LOCATE_SEGMENT, cbl_vfiles.c. *)
ImplementsStore == S!Store
=============================================================================
