---------------------------- MODULE MCCobSocket ----------------------------
(* Clients, and a server with room for some of them or for all.  *)
EXTENDS CobSocket
CONSTANTS c1, c2, c3
=============================================================================
