-------------------------- MODULE ExchangeContract --------------------------
(***************************************************************************)
(* What HttpClient::head, get and post_jose (src/crates/core/src/          *)
(* transport.rs) promise the drivers: one request per call, sent whole or  *)
(* not at all; Ok only with the whole response; an error at any point.     *)
(* WasiClient implements it.  The drivers' models take each exchange for   *)
(* one step of this kind: it may fail before or after the CA has it.       *)
(***************************************************************************)
EXTENDS Naturals

CONSTANT MaxBody      \* longest request body

VARIABLES phase,      \* "idle", "composing", "sent", "answered", "ended"
          unsent,     \* bytes of the request body the host does not have
          outcome     \* "none" while running, then "ok" or "error"

vars == <<phase, unsent, outcome>>

Init ==
  /\ phase = "idle"
  /\ unsent = 0
  /\ outcome = "none"

Call ==
  /\ phase = "idle"
  /\ phase' = "composing"
  /\ unsent' \in 0..MaxBody
  /\ outcome' = "none"

Compose ==
  /\ phase = "composing"
  /\ unsent' \in 0..unsent
  /\ UNCHANGED <<phase, outcome>>

Send ==
  /\ phase = "composing"
  /\ unsent = 0
  /\ phase' = "sent"
  /\ UNCHANGED <<unsent, outcome>>

Answer ==
  /\ phase = "sent"
  /\ phase' = "answered"
  /\ UNCHANGED <<unsent, outcome>>

Succeed ==
  /\ phase = "answered"
  /\ phase' = "ended"
  /\ outcome' = "ok"
  /\ UNCHANGED unsent

Fail ==
  /\ phase \in {"composing", "sent", "answered"}
  /\ phase' = "ended"
  /\ outcome' = "error"
  /\ UNCHANGED unsent

Return ==
  /\ phase = "ended"
  /\ phase' = "idle"
  /\ UNCHANGED <<unsent, outcome>>

Next == Call \/ Compose \/ Send \/ Answer \/ Succeed \/ Fail \/ Return

Spec == Init /\ [][Next]_vars
=============================================================================
