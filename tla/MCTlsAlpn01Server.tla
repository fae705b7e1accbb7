-------------------------- MODULE MCTlsAlpn01Server --------------------------
(***************************************************************************)
(* TlsAlpn01Server for TLC: one order with two challenges, or two orders.  *)
(***************************************************************************)
EXTENDS TlsAlpn01Server
==============================================================================
