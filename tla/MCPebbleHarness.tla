--------------------------- MODULE MCPebbleHarness --------------------------
(***************************************************************************)
(* PebbleHarness for TLC.                                                  *)
(***************************************************************************)
EXTENDS PebbleHarness
=============================================================================
