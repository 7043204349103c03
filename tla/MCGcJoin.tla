------------------------------ MODULE MCGcJoin ------------------------------
(* Two files of up to three records with keys 1 to 3, an empty one among   *)
(* them, for every join type and every option.                             *)
EXTENDS GcJoin

MCShapes == {<<0, 2>>, <<0, 3>>, <<2, 0>>, <<0, 0>>, <<1, 2>>, <<2, 1>>, <<2, 2>>, <<1, 3>>, <<3, 1>>}
=============================================================================
