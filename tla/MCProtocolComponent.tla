------------------------ MODULE MCProtocolComponent ------------------------
(***************************************************************************)
(* ProtocolComponent for TLC: five blocks, which is a solver and a call's  *)
(* arguments, two of them lists, with one to lift a list into.             *)
(***************************************************************************)
EXTENDS ProtocolComponent, TLC

BlockSymmetry == Permutations(Blocks)
=============================================================================
