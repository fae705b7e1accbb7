-------------------------- MODULE IssuanceContract --------------------------
(***************************************************************************)
(* What issue_certificate promises its caller and its solvers, whatever    *)
(* the CA answers: every authorization is proven before the order is       *)
(* finalized, at most one challenge response is exposed at a time, only    *)
(* for an authorization that is not proven yet, and none outlives the      *)
(* call.  Issuance implements it.                                          *)
(***************************************************************************)
EXTENDS Naturals

CONSTANT MaxAuthzs    \* most authorizations in an order

VARIABLES phase,      \* "ordering", "proving", "finalizing", "issued", "failed"
          wanted,     \* the authorizations of the order, 1..n
          proven,     \* those the CA has reported satisfied
          exposed     \* those whose challenge response is visible

vars == <<phase, wanted, proven, exposed>>

Init ==
  /\ phase = "ordering"
  /\ wanted = {}
  /\ proven = {}
  /\ exposed = {}

Order ==
  /\ phase = "ordering"
  /\ phase' = "proving"
  /\ \E n \in 0..MaxAuthzs : wanted' = 1..n
  /\ UNCHANGED <<proven, exposed>>

Expose ==
  /\ phase = "proving"
  /\ exposed = {}
  /\ \E a \in wanted \ proven : exposed' = {a}
  /\ UNCHANGED <<phase, wanted, proven>>

\* An authorization is proven by its own response, or was valid already.
Prove ==
  /\ phase = "proving"
  /\ \E a \in wanted \ proven :
       /\ exposed \subseteq {a}
       /\ proven' = proven \cup {a}
  /\ exposed' = {}
  /\ UNCHANGED <<phase, wanted>>

Finalize ==
  /\ phase = "proving"
  /\ proven = wanted
  /\ exposed = {}
  /\ phase' = "finalizing"
  /\ UNCHANGED <<wanted, proven, exposed>>

Issue ==
  /\ phase = "finalizing"
  /\ phase' = "issued"
  /\ UNCHANGED <<wanted, proven, exposed>>

Fail ==
  /\ phase \in {"ordering", "proving", "finalizing"}
  /\ phase' = "failed"
  /\ exposed' = {}
  /\ UNCHANGED <<wanted, proven>>

Next == Order \/ Expose \/ Prove \/ Finalize \/ Issue \/ Fail

Spec == Init /\ [][Next]_vars
=============================================================================
