------------------------------ MODULE MCVFile ------------------------------
(* Small instances of VFile, and of the store that it implements. *)
EXTENDS VFileStore, TLC

MCWritten == {<<1, 0, 1>>}
Alike == Permutations(Addresses)

MCGarbage == {[i \in 0 .. DataSize - 1 |-> 1]}
=============================================================================
