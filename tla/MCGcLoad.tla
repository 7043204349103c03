------------------------------ MODULE MCGcLoad ------------------------------
(* Small instances of GcLoad: up to two files of up to three records, with *)
(* every SKIPREC and STOPAFT up to two, or with an exit and its answers.   *)
EXTENDS GcLoad

UpToTwo == {0, 1, 2}
Sizes == {0, 1, 3}
Filled == {1, 3}
OnlyOff == {FALSE}
OnlyOn == {TRUE}
AnyAnswer == {0, 4, 8, 12, 20}
DoNothing == {0}

LeftOut == {{}, {<<1, 1>>}, {<<1, 2>>, <<NumFiles, 1>>}}
=============================================================================
