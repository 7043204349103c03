--------------------------- MODULE MCGcTempFiles ---------------------------
(* Small instances of GcTempFiles: the keys are the first two numbers. *)
EXTENDS GcTempFiles

MCKeys == {1, 2}
=============================================================================
