---------------------------- MODULE MCNonceStore ----------------------------
(***************************************************************************)
(* NonceStore for TLC. Its runs check liveness and refinement, so the      *)
(* nonces and the threads are not declared symmetric.                      *)
(***************************************************************************)
EXTENDS NonceStore
=============================================================================
