----------------------------- MODULE MCGcMerge -----------------------------
(* Small instances of GcMerge: the summed fields are powers of 2, so that  *)
(* a total tells which records are in it.                                  *)
EXTENDS GcMerge

TwoKeys == {1, 2}
TwoTails == {0, 1}
ThreeFiles == {<<1, 2, 1>>, <<2, 0, 2>>, <<0, 0, 0>>}
Powers == [id \in (1 .. 3) \X (1 .. 2) |-> 2 ^ (2 * id[1] + id[2] - 3)]
=============================================================================
