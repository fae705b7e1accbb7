--------------------------- MODULE NonceLifecycle ---------------------------
(***************************************************************************)
(* What a replay-nonce source promises, whatever its data structures and   *)
(* whichever threads share it: every nonce the CA issues goes once through *)
(* the stages below, never back, and is signed into one request at most.   *)
(* NonceStore, the mutex-guarded FIFO of src/crates/core/src/nonce.rs,     *)
(* implements it (NonceStore!LifecycleImplemented).                        *)
(***************************************************************************)
CONSTANT Nonces       \* the nonces the CA may issue

VARIABLE stage        \* the stage each nonce has reached

Stages ==
  { "unissued",       \* the CA has not sent it to this client
    "offered",        \* in a response that is still being absorbed
    "pooled",         \* absorbed, waiting for a request
    "held",           \* taken by the one request that will sign it
    "spent",          \* signed into a request that was sent
    "dropped" }       \* discarded, or taken by a request that was not sent

Moved(ns, from, to) ==
  /\ \A n \in ns : stage[n] = from
  /\ stage' = [n \in Nonces |-> IF n \in ns THEN to ELSE stage[n]]

Init == stage = [n \in Nonces |-> "unissued"]

Offer   == \E ns \in SUBSET Nonces : Moved(ns, "unissued", "offered")
Pool    == \E n \in Nonces : Moved({n}, "offered", "pooled")
Take    == \E n \in Nonces : Moved({n}, "pooled", "held")
Spend   == \E n \in Nonces : Moved({n}, "held", "spent")
Abandon == \E n \in Nonces : Moved({n}, "held", "dropped")

Discard == \E ns \in SUBSET Nonces : Moved(ns, "pooled", "dropped")

Next == Offer \/ Pool \/ Take \/ Spend \/ Abandon \/ Discard

Spec == Init /\ [][Next]_stage
=============================================================================
