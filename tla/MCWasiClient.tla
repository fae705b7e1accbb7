---------------------------- MODULE MCWasiClient ----------------------------
(***************************************************************************)
(* WasiClient for TLC: a host with room for three bytes, bodies up to      *)
(* four, one text, and return areas left full of zeros or of ones.         *)
(***************************************************************************)
EXTENDS WasiClient

SomeStrings == {<<7, 3>>}
SomeGarbage == {[o \in Offsets |-> b] : b \in {0, 1}}
=============================================================================
