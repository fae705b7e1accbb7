------------------------- MODULE ResponderContract --------------------------
(***************************************************************************)
(* What a challenge responder promises the CA's validator: a probe that    *)
(* is answered while the response it asks for is exposed gets that         *)
(* response, and one that is answered at any other time does not.  The     *)
(* HTTP-01 server implements it for any number of orders at once.          *)
(***************************************************************************)
CONSTANTS Challenges, \* challenges whose response may be exposed
          Probes,     \* connections the validator may make
          Nothing     \* a connection that has asked for nothing yet

VARIABLES exposed,    \* the challenges whose response is visible
          asked,      \* the challenge each probe is for
          verdict     \* "none", then whether it got that response

vars == <<exposed, asked, verdict>>

Init ==
  /\ exposed = {}
  /\ asked = [p \in Probes |-> Nothing]
  /\ verdict = [p \in Probes |-> "none"]

Expose ==
  /\ \E c \in Challenges \ exposed : exposed' = exposed \cup {c}
  /\ UNCHANGED <<asked, verdict>>

Withdraw ==
  /\ \E c \in exposed : exposed' = exposed \ {c}
  /\ UNCHANGED <<asked, verdict>>

Ask(p) ==
  /\ asked[p] = Nothing
  /\ \E c \in Challenges : asked' = [asked EXCEPT ![p] = c]
  /\ UNCHANGED <<exposed, verdict>>

Answer(p) ==
  /\ asked[p] # Nothing
  /\ verdict[p] = "none"
  /\ verdict' = [verdict EXCEPT
                   ![p] = IF asked[p] \in exposed THEN "right" ELSE "wrong"]
  /\ UNCHANGED <<exposed, asked>>

Next == Expose \/ Withdraw \/ \E p \in Probes : Ask(p) \/ Answer(p)

Spec == Init /\ [][Next]_vars
=============================================================================
