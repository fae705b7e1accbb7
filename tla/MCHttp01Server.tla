--------------------------- MODULE MCHttp01Server ---------------------------
(***************************************************************************)
(* Http01Server for TLC: each challenge's token is the challenge itself.   *)
(***************************************************************************)
EXTENDS Http01Server

OwnToken == [ch \in Challenges |-> ch]
=============================================================================
