----------------------------- MODULE MCIssuance -----------------------------
(***************************************************************************)
(* Issuance for TLC.  The caller's solvers, in order: DNS first.           *)
(***************************************************************************)
EXTENDS Issuance

CONSTANTS http, dns, tls

AllKinds == {http, dns, tls}
SomeSolvers == <<dns, http>>
=============================================================================
