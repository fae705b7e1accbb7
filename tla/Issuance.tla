------------------------------ MODULE Issuance ------------------------------
(***************************************************************************)
(* One call of issue_certificate_with_timeouts (src/crates/core/src/       *)
(* lib.rs): directory, account, order, each authorization in turn          *)
(* (run_one_authorization and poll_challenge), finalize, download.         *)
(*                                                                         *)
(* Every HTTP exchange is one action.  The CA is arbitrary: each answer    *)
(* may carry any status the code tells apart, so what holds here holds     *)
(* whatever the CA does.  The solvers are external: arming and the         *)
(* self-check take time and may fail.  Time is counted in ticks, from the  *)
(* moment the client turns to an authorization or to the finalize step.    *)
(***************************************************************************)
EXTENDS Integers, Sequences, FiniteSets

CONSTANTS Kinds,        \* challenge kinds
          Solvers,      \* the kinds of the caller's solvers, in its order
          NoKind,       \* no challenge is chosen
          MaxAuthzs,    \* most authorizations in an order
          ChallengeTimeout, FinalizeTimeout,
          Interval,     \* poll interval
          MaxLatency,   \* most ticks an HTTP exchange takes
          MaxArming     \* most ticks arm, and self_check, take

ASSUME IssuanceAssumption ==
  /\ Solvers \in Seq(Kinds)
  /\ NoKind \notin Kinds
  /\ MaxAuthzs \in Nat
  /\ ChallengeTimeout \in Nat
  /\ FinalizeTimeout \in Nat
  /\ Interval \in Nat \ {0}
  /\ MaxLatency \in Nat
  /\ MaxArming \in Nat

VARIABLES pc,         \* the next call the client makes
          url,        \* the order's Location was not empty
          count,      \* authorizations in the order; -1 before there is one
          next,       \* the authorization the loop is at
          proof,      \* how the CA reported each authorization satisfied
          chosen,     \* kind of the challenge being driven
          armed,      \* challenge responses now exposed, <<authz, kind>>
          told,       \* history: challenges the CA was asked to validate
          finalized,  \* history: the finalize POST may have reached the CA
          last,       \* the status the last poll read
          clock,      \* ticks since the client turned to this step
          deadline,   \* when the poll loop gives up
          refusal,    \* history: what the CA refused a request with
          result      \* "none" while running, then "ok" or the error

clockVars == <<clock, deadline>>
vars == <<pc, url, count, next, proof, chosen, armed, told, finalized, last,
          clockVars, refusal, result>>

-----------------------------------------------------------------------------
(* What an HTTP exchange may come to.                                      *)

\* The error the exchange is reported as, whether the request reached the CA
\* and took effect, and what the CA refused with, if it did.
Failures(errors, reached, said) ==
  [error : errors, reached : {reached}, said : {said}]

\* A non-2xx answer: a problem document of either type, or none to be read.
ProblemDocuments == {"BadNonce", "Problem"}
Said == ProblemDocuments \cup {"Http", "none"}
Refusals ==
  {[error |-> e, reached |-> FALSE, said |-> e] : e \in Said \ {"none"}}

\* No nonce: the HEAD failed, brought none, or was itself refused, which is
\* reported as a transport error.
NonceFailures ==
       Failures({"Transport", "MissingField"}, FALSE, "none")
  \cup Failures({"Transport"}, FALSE, "Http")

\* The request could not be signed.
SignFailures == Failures({"Jose"}, FALSE, "none")

\* The POST was lost, or its answer.
SendFailures ==
       Failures({"Transport"}, FALSE, "none")
  \cup Failures({"Transport"}, TRUE, "none")

\* Account::post_kid followed by ok().
PostFailures ==
  NonceFailures \cup SignFailures \cup SendFailures \cup Refusals

\* The same where the caller also parses the body.
ReadFailures ==
  PostFailures \cup Failures({"Serialization"}, TRUE, "none")

\* The unsigned GET of the directory.
GetFailures ==
       Failures({"Transport"}, FALSE, "none")
  \cup Refusals
  \cup Failures({"Serialization"}, TRUE, "none")

Errors == {"Transport", "MissingField", "Jose", "BadNonce", "Problem", "Http",
           "Serialization", "UnsupportedIdentifier", "Solver", "Malformed",
           "Timeout", "BadCsr"}

Authzs == 1..MaxAuthzs
ChallengeStatuses == {"pending", "processing", "valid", "invalid", "unknown"}
OrderStatuses == ChallengeStatuses \cup {"ready", "bare"}
    \* "bare": valid, with no certificate field

Locations == {"directory", "account", "order", "authz", "arm", "selfcheck",
              "kick", "poll", "sleep", "csr", "finalize", "refresh", "nap",
              "download", "done"}

Init ==
  /\ pc = "directory"
  /\ url = FALSE
  /\ count = -1
  /\ next = 1
  /\ proof = [a \in Authzs |-> "none"]
  /\ chosen = NoKind
  /\ armed = {}
  /\ told = {}
  /\ finalized = FALSE
  /\ last = "none"
  /\ clock = 0
  /\ deadline = 0
  /\ refusal = "none"
  /\ result = "none"

\* `?` or return: the ready handle, if there is one, is dropped on the way out.
Return(r) ==
  /\ result' = r
  /\ pc' = "done"
  /\ armed' = {}

\* The exchange fails with f and so does the call.
FailWith(f) ==
  /\ Return(f.error)
  /\ refusal' = f.said

Elapse(most) == \E d \in 0..most : clock' = clock + d

\* Everything Return does not assign, for the actions that only fail.
Rest == <<url, count, next, proof, chosen, told, finalized, last, clockVars>>

-----------------------------------------------------------------------------
(* directory::fetch, account::create and order::create.                    *)

FetchDirectory ==
  /\ pc = "directory"
  /\ \/ /\ pc' = "account"
        /\ UNCHANGED <<armed, refusal, result>>
     \/ \E f \in GetFailures : FailWith(f)
  /\ UNCHANGED Rest

CreateAccount ==
  /\ pc = "account"
  /\ \/ /\ pc' = "order"
        /\ UNCHANGED <<armed, refusal, result>>
     \/ \E f \in ReadFailures : FailWith(f)
     \/ Return("MissingField") /\ UNCHANGED refusal      \* no Location
  /\ UNCHANGED Rest

CreateOrder ==
  /\ pc = "order"
  /\ pc' = "authz"
  /\ count' \in 0..MaxAuthzs
  /\ url' \in BOOLEAN
  /\ UNCHANGED <<next, proof, chosen, armed, told, finalized, last, clockVars,
                 refusal, result>>

\* Location is looked for before the status: a refusal without one is
\* reported as a missing header.
OrderFails ==
  /\ pc = "order"
  /\ \/ \E f \in ReadFailures : FailWith(f)
     \/ /\ Return("MissingField")
        /\ refusal' \in Said
  /\ UNCHANGED Rest

-----------------------------------------------------------------------------
(* run_one_authorization.                                                  *)

\* The authorization at hand is satisfied: the ready handle is dropped and the
\* loop goes on.
Satisfied(how) ==
  /\ proof' = [proof EXCEPT ![next] = how]
  /\ next' = next + 1
  /\ chosen' = NoKind
  /\ armed' = {}
  /\ pc' = "authz"
  /\ clock' = 0
  /\ deadline' = 0

AuthzValid ==
  /\ pc = "authz" /\ next <= count
  /\ Satisfied("authorization")
  /\ last' = "none"
  /\ UNCHANGED <<url, count, told, finalized, refusal, result>>

\* Any other status, the final ones included: the first solver, in the
\* caller's order, whose kind is offered.
AuthzOffers ==
  /\ pc = "authz" /\ next <= count
  /\ \E offered \in SUBSET Kinds : \E i \in DOMAIN Solvers :
       /\ Solvers[i] \in offered
       /\ \A j \in 1..(i - 1) : Solvers[j] \notin offered
       /\ chosen' = Solvers[i]
  /\ pc' = "arm"
  /\ UNCHANGED <<url, count, next, proof, armed, told, finalized, last,
                 clockVars, refusal, result>>

\* The fetch fails, no solver matches, or the challenge has no token.
AuthzFails ==
  /\ pc = "authz" /\ next <= count
  /\ \/ \E f \in ReadFailures : FailWith(f)
     \/ /\ \/ Return("UnsupportedIdentifier")
           \/ Return("MissingField")
        /\ UNCHANGED refusal
  /\ UNCHANGED Rest

Arm ==
  /\ pc = "arm"
  /\ armed' = armed \cup {<<next, chosen>>}
  /\ Elapse(MaxArming)
  /\ pc' = "selfcheck"
  /\ UNCHANGED <<url, count, next, proof, chosen, told, finalized, last,
                 deadline, refusal, result>>

SelfCheck ==
  /\ pc = "selfcheck"
  /\ Elapse(MaxArming)
  /\ pc' = "kick"
  /\ UNCHANGED <<url, count, next, proof, chosen, armed, told, finalized, last,
                 deadline, refusal, result>>

SolverFails ==
  /\ pc \in {"arm", "selfcheck"}
  /\ Return("Solver")
  /\ UNCHANGED <<Rest, refusal>>

\* The POST of {} reaches the CA, which will now look for the response.
Tell == told' = told \cup {<<next, chosen>>}

Kick ==
  /\ pc = "kick"
  /\ Tell
  /\ \E d \in 0..MaxLatency :
       /\ clock' = clock + d
       /\ deadline' = clock + d + ChallengeTimeout
  /\ last' = "none"
  /\ pc' = "poll"
  /\ UNCHANGED <<url, count, next, proof, chosen, armed, finalized, refusal,
                 result>>

\* Mutant: an error on the way skips the teardown.
KickFailsExposed ==
  /\ pc = "kick"
  /\ \E f \in PostFailures :
       /\ result' = f.error
       /\ pc' = "done"
       /\ refusal' = f.said
       /\ IF f.reached THEN Tell ELSE UNCHANGED told
  /\ UNCHANGED <<url, count, next, proof, chosen, armed, finalized, last,
                 clockVars>>

KickFails ==
  /\ pc = "kick"
  /\ \E f \in PostFailures :
       /\ FailWith(f)
       /\ IF f.reached THEN Tell ELSE UNCHANGED told
  /\ UNCHANGED <<url, count, next, proof, chosen, finalized, last, clockVars>>

\* A poll answer with status s arrives.
Answer(s) ==
  /\ Elapse(MaxLatency)
  /\ last' = s

PollValid ==
  /\ pc = "poll"
  /\ Satisfied("challenge")
  /\ last' = "none"
  /\ UNCHANGED <<url, count, told, finalized, refusal, result>>

PollInvalid ==
  /\ pc = "poll"
  /\ Answer("invalid")
  /\ Return("Malformed")
  /\ UNCHANGED <<url, count, next, proof, chosen, told, finalized, deadline,
                 refusal>>

\* Mutant: the clock is looked at before the status.
PollClockFirst ==
  /\ pc = "poll"
  /\ \E s \in ChallengeStatuses : Answer(s)
  /\ IF clock' >= deadline THEN Return("Timeout")
     ELSE pc' = "sleep" /\ UNCHANGED <<armed, result>>
  /\ UNCHANGED <<url, count, next, proof, chosen, told, finalized, deadline,
                 refusal>>

\* Mutant: the deadline itself is still in time.
PollPastDeadline ==
  /\ pc = "poll"
  /\ \E s \in {"pending", "processing", "unknown"} : Answer(s)
  /\ IF clock' > deadline THEN Return("Timeout")
     ELSE pc' = "sleep" /\ UNCHANGED <<armed, result>>
  /\ UNCHANGED <<url, count, next, proof, chosen, told, finalized, deadline,
                 refusal>>

\* No verdict yet: give up at the deadline, else sleep for the interval: a
\* Retry-After header, which challenge.rs:163-164 promises to honour, is not
\* looked at.
PollAgain ==
  /\ pc = "poll"
  /\ \E s \in {"pending", "processing", "unknown"} : Answer(s)
  /\ IF clock' >= deadline THEN Return("Timeout")
     ELSE pc' = "sleep" /\ UNCHANGED <<armed, result>>
  /\ UNCHANGED <<url, count, next, proof, chosen, told, finalized, deadline,
                 refusal>>

PollFails ==
  /\ pc = "poll"
  /\ \E f \in ReadFailures : FailWith(f)
  /\ UNCHANGED Rest

Sleep ==
  /\ pc \in {"sleep", "nap"}
  /\ clock' = clock + Interval
  /\ pc' = IF pc = "sleep" THEN "poll" ELSE "refresh"
  /\ UNCHANGED <<url, count, next, proof, chosen, armed, told, finalized, last,
                 deadline, refusal, result>>

-----------------------------------------------------------------------------
(* certificate::finalize_with_deadline and download.                       *)

\* Mutant: the loop stops before the last authorization.
AllButOneAuthorized ==
  /\ pc = "authz" /\ next >= count
  /\ pc' = "csr"
  /\ UNCHANGED <<Rest, armed, refusal, result>>

AllAuthorized ==
  /\ pc = "authz" /\ next > count
  /\ pc' = "csr"
  /\ UNCHANGED <<Rest, armed, refusal, result>>

\* build_csr: no identifier, or one that a CSR cannot carry.
CsrFails == url /\ Return("BadCsr")

BuildCsr ==
  /\ pc = "csr"
  /\ \/ url /\ pc' = "finalize" /\ UNCHANGED <<armed, result>>
     \/ ~url /\ Return("MissingField")
     \/ CsrFails
  /\ UNCHANGED <<Rest, refusal>>

Finalize ==
  /\ pc = "finalize"
  /\ finalized' = TRUE
  /\ \E d \in 0..MaxLatency :
       /\ clock' = clock + d
       /\ deadline' = clock + d + FinalizeTimeout
  /\ pc' = "refresh"
  /\ UNCHANGED <<url, count, next, proof, chosen, armed, told, last, refusal,
                 result>>

FinalizeFails ==
  /\ pc = "finalize"
  /\ \E f \in PostFailures :
       /\ FailWith(f)
       /\ finalized' = f.reached
  /\ UNCHANGED <<url, count, next, proof, chosen, told, last, clockVars>>

\* Mutant: any status with a certificate field will do.
RefreshReady ==
  /\ pc = "refresh"
  /\ \E s \in {"ready", "valid", "bare"} :
       /\ Answer(s)
       /\ IF s # "bare" THEN pc' = "download" /\ UNCHANGED <<armed, result>>
          ELSE Return("MissingField")
  /\ UNCHANGED <<url, count, next, proof, chosen, told, finalized, deadline,
                 refusal>>

RefreshValid ==
  /\ pc = "refresh"
  /\ \E s \in {"valid", "bare"} :
       /\ Answer(s)
       /\ IF s = "valid" THEN pc' = "download" /\ UNCHANGED <<armed, result>>
          ELSE Return("MissingField")
  /\ UNCHANGED <<url, count, next, proof, chosen, told, finalized, deadline,
                 refusal>>

RefreshInvalid ==
  /\ pc = "refresh"
  /\ Answer("invalid")
  /\ Return("Malformed")
  /\ UNCHANGED <<url, count, next, proof, chosen, told, finalized, deadline,
                 refusal>>

\* Mutant: the budget starts over with every answer.
RefreshRestarts ==
  /\ pc = "refresh"
  /\ \E s \in {"pending", "ready", "processing", "unknown"} : last' = s
  /\ clock' = 0
  /\ deadline' = FinalizeTimeout
  /\ IF clock' >= deadline' THEN Return("Timeout")
     ELSE pc' = "nap" /\ UNCHANGED <<armed, result>>
  /\ UNCHANGED <<url, count, next, proof, chosen, told, finalized, refusal>>

RefreshAgain ==
  /\ pc = "refresh"
  /\ \E s \in {"pending", "ready", "processing", "unknown"} : Answer(s)
  /\ IF clock' >= deadline THEN Return("Timeout")
     ELSE pc' = "nap" /\ UNCHANGED <<armed, result>>
  /\ UNCHANGED <<url, count, next, proof, chosen, told, finalized, deadline,
                 refusal>>

RefreshFails ==
  /\ pc = "refresh"
  /\ \E f \in ReadFailures : FailWith(f)
  /\ UNCHANGED Rest

Download ==
  /\ pc = "download"
  /\ Return("ok")
  /\ UNCHANGED <<Rest, refusal>>

DownloadFails ==
  /\ pc = "download"
  /\ \E f \in PostFailures : FailWith(f)
  /\ UNCHANGED Rest

-----------------------------------------------------------------------------

Next ==
  \/ FetchDirectory \/ CreateAccount \/ CreateOrder \/ OrderFails
  \/ AuthzValid \/ AuthzOffers \/ AuthzFails
  \/ Arm \/ SelfCheck \/ SolverFails \/ Kick \/ KickFails
  \/ PollValid \/ PollInvalid \/ PollAgain \/ PollFails \/ Sleep
  \/ AllAuthorized \/ BuildCsr \/ Finalize \/ FinalizeFails
  \/ RefreshValid \/ RefreshInvalid \/ RefreshAgain \/ RefreshFails
  \/ Download \/ DownloadFails

\* The call runs on the caller's thread, and every exchange ends: the
\* transport answers or fails.
Fairness == WF_vars(Next)

Spec == Init /\ [][Next]_vars
FairSpec == Spec /\ Fairness

-----------------------------------------------------------------------------
(* Properties.                                                             *)

Proven == {a \in Authzs : proof[a] # "none"}

\* The type of every variable.
TypeOK ==
  /\ pc \in Locations
  /\ url \in BOOLEAN
  /\ count \in -1..MaxAuthzs
  /\ next \in 1..(MaxAuthzs + 1)
  /\ proof \in [Authzs -> {"none", "authorization", "challenge"}]
  /\ chosen \in Kinds \cup {NoKind}
  /\ armed \in SUBSET (Authzs \X Kinds)
  /\ told \in SUBSET (Authzs \X Kinds)
  /\ finalized \in BOOLEAN
  /\ last \in OrderStatuses \cup {"none"}
  /\ clock \in Nat /\ deadline \in Nat
  /\ refusal \in Said
  /\ result \in Errors \cup {"none", "ok"}
  /\ result = "none" <=> pc # "done"

\* challenge.rs:117-118, 184-227: the response is exposed from arm until the
\* client has the CA's verdict, gives up or fails anywhere in between; it is
\* the one of the challenge being driven; nothing stays exposed afterwards.
ExposureWindow ==
  armed = IF pc \in {"selfcheck", "kick", "poll", "sleep"}
          THEN {<<next, chosen>>} ELSE {}

\* certificate.rs:3, lib.rs:146-174: a certificate is handed out only for an
\* order whose every authorization the CA reported satisfied, that was
\* finalized, and that the CA then reported valid with a certificate.
CertificateEarned ==
  /\ finalized => Proven = 1..count
  /\ result = "ok" => finalized /\ last = "valid"

\* challenge.rs:202-226: the verdict is looked at before the clock: a Timeout
\* means that the deadline has passed and that the last answer had no verdict.
TimeoutHonest ==
  result = "Timeout" =>
    clock >= deadline /\ last \notin {"valid", "bare", "invalid"}

\* challenge.rs:219-225, certificate.rs:108-115: no sleep starts at or after
\* the deadline, so a loop outlives it by less than a sleep and an exchange.
BoundedOvershoot ==
  pc \in {"poll", "sleep", "refresh", "nap"} \/ result = "Timeout" =>
    clock < deadline + Interval + MaxLatency

\* What issue_certificate promises.
Phase ==
  IF result = "ok" THEN "issued"
  ELSE IF result # "none" THEN "failed"
  ELSE IF pc \in {"directory", "account", "order"} THEN "ordering"
  ELSE IF pc \in {"refresh", "nap", "download"} THEN "finalizing"
  ELSE "proving"

Contract ==
  INSTANCE IssuanceContract WITH
    phase <- Phase,
    wanted <- 1..count,
    proven <- Proven,
    exposed <- {p[1] : p \in armed}

\* lib.rs:133-204: authorizations are proven one at a time, each by its own
\* response or because it already was valid, then the order is finalized; the
\* call ends issued or failed with nothing exposed.
ContractImplemented == Contract!Spec

\* Steps the call can still take: one each for the exchanges and the solver
\* calls ahead of it, two for each tick a poll loop may still wait.
TicksLeft == IF clock < deadline THEN deadline - clock ELSE 0
StepsToDrive == 2 * ChallengeTimeout + 5
StepsToClose == 2 * FinalizeTimeout + 5
Ahead(authzs) == authzs * StepsToDrive + StepsToClose
StepsLeft ==
  CASE pc = "directory" -> Ahead(MaxAuthzs) + 3
    [] pc = "account"   -> Ahead(MaxAuthzs) + 2
    [] pc = "order"     -> Ahead(MaxAuthzs) + 1
    [] pc = "authz"     -> Ahead(count + 1 - next)
    [] pc = "arm"       -> Ahead(count + 1 - next) - 1
    [] pc = "selfcheck" -> Ahead(count + 1 - next) - 2
    [] pc = "kick"      -> Ahead(count + 1 - next) - 3
    [] pc = "poll"      -> Ahead(count - next) + 2 * TicksLeft + 1
    [] pc = "sleep"     -> Ahead(count - next) + 2 * TicksLeft
    [] pc = "csr"       -> StepsToClose - 1
    [] pc = "finalize"  -> StepsToClose - 2
    [] pc = "refresh"   -> 2 * TicksLeft + 2
    [] pc = "nap"       -> 2 * TicksLeft + 1
    [] pc = "download"  -> 1
    [] pc = "done"      -> 0

\* challenge.rs:202-226, certificate.rs:95-116: whatever the CA answers, every
\* step brings the end of the call nearer, so no sequence of answers keeps it
\* going: the steps it takes are bounded by the order and the two budgets.
CallShrinks == [][StepsLeft' \in 0..(StepsLeft - 1)]_vars

\* Both poll loops are bounded by their deadline: the call returns.
Returns == <>(result # "none")

-----------------------------------------------------------------------------
(* What the documentation says and the code does not do.                   *)

\* error.rs:31-32: a badNonce answer is retried, not returned.
BadNonceRetried == result # "BadNonce"

\* error.rs:235-238, "after any non-2xx response": a problem document that comes
\* with a refusal, of whatever request, is what the caller gets.
EveryProblemSurfaces == refusal \in ProblemDocuments => result = refusal
=============================================================================
