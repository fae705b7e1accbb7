---------------------------- MODULE DnsContract ----------------------------
(***************************************************************************)
(* What a caller of with_provisioned_record or of DnsSolverAdapter can     *)
(* count on, whoever keeps the records (src/crates/challenge-dns-01/src/   *)
(* lib.rs, src/crates/testing/src/dns_provider.rs).  A record is published *)
(* for its own call and stays so until that call withdraws it; a call that *)
(* gives up leaves its record behind only when something went wrong with   *)
(* its requests, or when the closure it was given panicked: the record is  *)
(* then not deleted, although lib.rs:70-71 says that it always is.  A      *)
(* provider that deletes by an id of its own does so for every call, and a *)
(* call that gives up leaves one record; one that deletes by name, or by a *)
(* number it uses again, does so only for the calls that nobody else's     *)
(* record has crossed.                                                     *)
(***************************************************************************)
CONSTANTS Calls,
          Records

VARIABLES byId,       \* whether the provider deletes by an id of its own
          phase,      \* "none", "published", or "lost": held, but not there
          contested,  \* holders whose record another call's has crossed
          excused,    \* calls failed by a request, an answer, or a panic of
                      \* the closure
          litter      \* the records that no call is left to delete

vars == <<byId, phase, contested, excused, litter>>

Init ==
  /\ byId \in BOOLEAN
  /\ phase = [c \in Calls |-> "none"]
  /\ contested = {}
  /\ excused = {}
  /\ litter = {}

\* What a step of c may do to the others: take a contested record away.
OthersKeepTheirs(c) ==
  /\ phase' \in [Calls -> {"none", "published", "lost"}]
  /\ \A d \in Calls \ {c} :
       \/ phase'[d] = phase[d]
       \/ phase[d] = "published" /\ phase'[d] = "lost" /\ d \in contested'
  /\ byId => contested' = {}
  /\ UNCHANGED byId

Start(c) ==
  /\ phase[c] = "none"
  /\ excused' = excused \ {c}
  /\ UNCHANGED <<byId, phase, contested, litter>>

Publish(c) ==
  /\ phase[c] = "none"
  /\ phase'[c] = "published"
  /\ OthersKeepTheirs(c)
  /\ contested \subseteq contested'
  /\ litter' \subseteq litter
  /\ UNCHANGED excused

Withdraw(c) ==
  /\ phase[c] # "none"
  /\ phase'[c] = "none"
  /\ OthersKeepTheirs(c)
  /\ contested' = contested \ {c}
  /\ litter' \subseteq litter
  /\ UNCHANGED excused

\* The call ends without its delete, or without knowing what it published.
Abandon(c) ==
  /\ phase'[c] = "none"
  /\ OthersKeepTheirs(c)
  /\ contested \ {c} \subseteq contested'
  /\ c \notin contested'
  /\ excused' = excused \cup {c}
  /\ litter' \subseteq Records
  /\ byId => \A r, s \in litter' \ litter : r = s

Next ==
  \E c \in Calls :
    Start(c) \/ Publish(c) \/ Withdraw(c) \/ Abandon(c)

Spec == Init /\ [][Next]_vars
=============================================================================
