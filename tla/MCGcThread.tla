---------------------------- MODULE MCGcThread ----------------------------
(* Small instances of GcThread: two or three threads, one or two files. *)
EXTENDS GcThread

OneFile == {<<n>> : n \in 0 .. 4}
TwoFiles == {<<6, 0>>, <<2, 1>>, <<0, 1>>}
Fixed == {"sequential"}
AnyOrganization == {"sequential", "line", "variable"}
=============================================================================
