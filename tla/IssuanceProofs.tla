--------------------------- MODULE IssuanceProofs ---------------------------
(***************************************************************************)
(* For any solvers, budgets, latencies and CA: Issuance exposes a response *)
(* exactly while its challenge is driven, earns the certificate it hands   *)
(* out, is honest and bounded about its deadlines, and implements          *)
(* IssuanceContract.                                                       *)
(***************************************************************************)
EXTENDS Issuance, TLAPS

-----------------------------------------------------------------------------
(* The inductive invariant.                                                *)

Ordering   == {"directory", "account", "order"}
Driving    == {"arm", "selfcheck", "kick", "poll", "sleep"}
Closing    == {"csr", "finalize"}
Finalizing == {"refresh", "nap", "download"}

\* Where the loop over the authorizations stands: those before next, and only
\* those, are proven, and the finalize step starts when none is left.
LoopInv ==
  /\ \A a \in Authzs : proof[a] # "none" <=> a < next
  /\ pc \in Ordering => count = -1 /\ next = 1 /\ ~finalized
  /\ count = -1 => next = 1 /\ ~finalized /\ pc \in Ordering \cup {"done"}
  /\ count # -1 => next <= count + 1
  /\ pc \in Driving => next <= count /\ chosen \in Kinds
  /\ pc \in Closing \cup Finalizing => next = count + 1
  /\ pc \in {"authz"} \cup Driving \cup Closing => ~finalized
  /\ pc \in Finalizing => finalized
  /\ finalized => count # -1 /\ next = count + 1

\* What is known of the last answer and of the clock between two polls.
PollInv ==
  /\ pc \in {"sleep", "nap"} => clock < deadline
  /\ pc \in {"poll", "refresh"} => clock < deadline + Interval
  /\ pc = "download" \/ result = "ok" => finalized /\ last = "valid"

IInv ==
  /\ TypeOK
  /\ ExposureWindow
  /\ LoopInv
  /\ PollInv
  /\ TimeoutHonest
  /\ BoundedOvershoot

-----------------------------------------------------------------------------
(* What an exchange may fail with, and the calls that only fail.           *)

LEMMA FailureFacts ==
  ASSUME NEW f \in ReadFailures \cup GetFailures
  PROVE  /\ f.error \in Errors \ {"Timeout"}
         /\ f.reached \in BOOLEAN
         /\ f.said \in Said
<1>1. CASE f \in Refusals
  <2>1. PICK e \in Said \ {"none"} :
          f = [error |-> e, reached |-> FALSE, said |-> e]
    BY <1>1 DEF Refusals
  <2>2. f.error = e /\ f.reached = FALSE /\ f.said = e
    BY <2>1
  <2>3. e \in Errors \ {"Timeout"}
    BY DEF Errors, Said, ProblemDocuments
  <2>4. QED BY <2>2, <2>3
<1>2. CASE f \notin Refusals
  <2>1. \E said \in {"none", "Http"} :
          f \in Failures(Errors \ {"Timeout"}, TRUE, said)
               \cup Failures(Errors \ {"Timeout"}, FALSE, said)
    BY <1>2 DEF ReadFailures, PostFailures, NonceFailures, SignFailures,
                SendFailures, GetFailures, Failures, Errors
  <2>2. QED BY <2>1 DEF Failures, Said
<1>3. QED BY <1>1, <1>2

LEMMA PostFailuresRead == PostFailures \subseteq ReadFailures
BY DEF ReadFailures

\* Returning an error other than Timeout, at any location, tears down and
\* leaves the rest as it was.
LEMMA ErrorKeepsIInv ==
  ASSUME IInv, pc # "done",
         NEW r \in Errors \ {"Timeout"}, Return(r),
         refusal' \in Said,
         told' \in SUBSET (Authzs \X Kinds),
         finalized' \in BOOLEAN,
         finalized' # finalized => pc = "finalize",
         UNCHANGED <<url, count, next, proof, chosen, deadline>>,
         clock' \in Nat,
         last' \in OrderStatuses \cup {"none"}
  PROVE  IInv'
<1>1. TypeOK'
  BY DEF IInv, TypeOK, Return, Locations, Errors
<1>2. ExposureWindow'
  BY DEF Return, ExposureWindow
<1>3. LoopInv'
  BY DEF IInv, LoopInv, Return, Ordering, Driving, Closing, Finalizing
<1>4. PollInv' /\ TimeoutHonest' /\ BoundedOvershoot'
  BY DEF Return, PollInv, TimeoutHonest, BoundedOvershoot, Errors
<1>5. QED BY <1>1, <1>2, <1>3, <1>4 DEF IInv

\* The same when an exchange that carries nothing else fails.
LEMMA FailureKeepsIInv ==
  ASSUME IInv, pc # "done",
         NEW f \in ReadFailures \cup GetFailures, FailWith(f),
         UNCHANGED <<url, count, next, proof, chosen, last, clockVars>>,
         told' \in SUBSET (Authzs \X Kinds),
         finalized' \in BOOLEAN,
         finalized' # finalized => pc = "finalize"
  PROVE  IInv'
<1>1. /\ f.error \in Errors \ {"Timeout"}
      /\ refusal' \in Said
  BY FailureFacts DEF FailWith, IInv, TypeOK
<1>2. clock' \in Nat /\ last' \in OrderStatuses \cup {"none"}
  BY DEF IInv, TypeOK, clockVars
<1>3. QED BY <1>1, <1>2, ErrorKeepsIInv DEF FailWith, clockVars

-----------------------------------------------------------------------------
(* One lemma per part of the call.                                         *)

LEMMA StartKeepsIInv ==
  ASSUME IInv, FetchDirectory \/ CreateAccount \/ CreateOrder \/ OrderFails
  PROVE  IInv'
<1>1. pc \in Ordering /\ pc # "done"
  BY DEF FetchDirectory, CreateAccount, CreateOrder, OrderFails, Ordering
<1>2. ASSUME UNCHANGED Rest, NEW f \in ReadFailures \cup GetFailures, FailWith(f)
      PROVE  IInv'
  BY <1>1, <1>2, FailureKeepsIInv DEF Rest, IInv, TypeOK
<1>3. ASSUME UNCHANGED Rest, Return("MissingField"),
             refusal' \in Said
      PROVE  IInv'
  BY <1>1, <1>3, ErrorKeepsIInv DEF Rest, clockVars, IInv, TypeOK, Errors
<1>4. ASSUME UNCHANGED <<Rest, armed, refusal, result>>,
             pc' \in {"account", "order"}
      PROVE  IInv'
  <2>1. TypeOK'
    BY <1>1, <1>4 DEF IInv, TypeOK, Rest, clockVars, Locations, Ordering
  <2>2. ExposureWindow' /\ LoopInv'
    BY <1>1, <1>4 DEF IInv, ExposureWindow, LoopInv, Rest, Ordering, Driving,
                      Closing, Finalizing
  <2>3. PollInv' /\ TimeoutHonest' /\ BoundedOvershoot'
    BY <1>1, <1>4 DEF IInv, TypeOK, PollInv, TimeoutHonest, BoundedOvershoot,
                      Rest, clockVars, Ordering
  <2>4. QED BY <2>1, <2>2, <2>3 DEF IInv
<1>5. CASE FetchDirectory
  BY <1>2, <1>4, <1>5 DEF FetchDirectory, Rest
<1>6. CASE CreateAccount
  BY <1>2, <1>3, <1>4, <1>6 DEF CreateAccount, Rest, IInv, TypeOK
<1>7. CASE CreateOrder
  <2>1. count' \in 0..MaxAuthzs
    BY <1>7 DEF CreateOrder
  <2>2. count' \in Nat
    BY <2>1, IssuanceAssumption
  <2>3. /\ pc = "order" /\ pc' = "authz" /\ url' \in BOOLEAN
        /\ UNCHANGED <<next, proof, chosen, armed, told, finalized, last,
                       clockVars, refusal, result>>
    BY <1>7 DEF CreateOrder
  <2>4. next' = 1 /\ ~finalized'
    BY <2>3 DEF IInv, LoopInv, Ordering
  <2>5. TypeOK'
    BY <2>1, <2>3, IssuanceAssumption DEF IInv, TypeOK, clockVars, Locations
  <2>6. ExposureWindow'
    BY <2>3 DEF IInv, ExposureWindow
  <2>7. \A a \in Authzs : proof'[a] # "none" <=> a < next'
    BY <2>3 DEF IInv, LoopInv
  <2>8. LoopInv'
    <3>1. PICK n \in Nat : count' = n
      BY <2>2
    <3>2. pc' = "authz"
      BY <2>3
    <3>3. QED
      BY <2>4, <2>7, <3>1, <3>2
         DEF LoopInv, Ordering, Driving, Closing, Finalizing
  <2>9. PollInv' /\ TimeoutHonest' /\ BoundedOvershoot'
    BY <2>3
       DEF IInv, TypeOK, PollInv, TimeoutHonest, BoundedOvershoot, clockVars
  <2>10. QED BY <2>5, <2>6, <2>8, <2>9 DEF IInv
<1>8. CASE OrderFails
  BY <1>2, <1>3, <1>8 DEF OrderFails
<1>9. QED BY <1>5, <1>6, <1>7, <1>8

\* The authorization at hand is satisfied, by itself or by its challenge.
LEMMA SatisfiedKeepsIInv ==
  ASSUME IInv, AuthzValid \/ PollValid
  PROVE  IInv'
<1>1. \E how \in {"authorization", "challenge"} : Satisfied(how)
  BY DEF AuthzValid, PollValid
<1>2. PICK how \in {"authorization", "challenge"} : Satisfied(how)
  BY <1>1
<1>3. /\ pc \in {"authz", "poll"}
      /\ next <= count /\ next \in Authzs /\ count \in Authzs
      /\ last' = "none"
      /\ UNCHANGED <<url, count, told, finalized, refusal, result>>
  BY IssuanceAssumption
     DEF AuthzValid, PollValid, IInv, LoopInv, TypeOK, Driving, Authzs
<1>4. /\ next' = next + 1 /\ pc' = "authz" /\ armed' = {} /\ chosen' = NoKind
      /\ clock' = 0 /\ deadline' = 0
      /\ proof' = [proof EXCEPT ![next] = how]
  BY <1>2 DEF Satisfied
<1>5. TypeOK'
  BY <1>3, <1>4, IssuanceAssumption DEF IInv, TypeOK, Authzs, Locations
<1>6. \A a \in Authzs : proof'[a] # "none" <=> a < next'
  BY <1>3, <1>4 DEF IInv, LoopInv, TypeOK, Authzs
<1>7. ExposureWindow' /\ LoopInv'
  BY <1>3, <1>4, <1>6, IssuanceAssumption
     DEF IInv, TypeOK, ExposureWindow, LoopInv, Ordering, Driving, Closing,
         Finalizing, Authzs
<1>8. PollInv' /\ TimeoutHonest' /\ BoundedOvershoot'
  BY <1>3, <1>4 DEF IInv, TypeOK, PollInv, TimeoutHonest, BoundedOvershoot
<1>9. QED BY <1>5, <1>7, <1>8 DEF IInv

\* A challenge is chosen: it is one of a kind a solver has.
LEMMA OfferKeepsIInv ==
  ASSUME IInv, AuthzOffers
  PROVE  IInv'
<1>1. chosen' \in Kinds
  <2>1. PICK i \in DOMAIN Solvers : chosen' = Solvers[i]
    BY DEF AuthzOffers
  <2>2. QED BY <2>1, IssuanceAssumption
<1>2. /\ pc = "authz" /\ next <= count /\ pc' = "arm"
      /\ UNCHANGED <<url, count, next, proof, armed, told, finalized, last,
                     clockVars, refusal, result>>
  BY DEF AuthzOffers
<1>3. TypeOK'
  BY <1>1, <1>2 DEF IInv, TypeOK, clockVars, Locations
<1>4. ExposureWindow' /\ LoopInv'
  BY <1>1, <1>2 DEF IInv, ExposureWindow, LoopInv, Ordering, Driving, Closing,
                    Finalizing
<1>5. PollInv' /\ TimeoutHonest' /\ BoundedOvershoot'
  BY <1>2 DEF IInv, TypeOK, PollInv, TimeoutHonest, BoundedOvershoot, clockVars
<1>6. QED BY <1>3, <1>4, <1>5 DEF IInv

\* A step that stays in the loop over the authorizations, or in the finalize
\* step, leaves LoopInv as it was.
LEMMA StaysInPart ==
  ASSUME LoopInv, UNCHANGED <<count, next, proof, chosen, finalized>>,
         \/ pc \in Driving /\ pc' \in Driving
         \/ pc \in Closing /\ pc' \in Closing
         \/ pc \in Finalizing /\ pc' \in Finalizing
  PROVE  LoopInv'
BY DEF LoopInv, Ordering, Driving, Closing, Finalizing

\* The deadline of a new poll loop is not in the past.
LEMMA ArmingKeepsIInv ==
  ASSUME IInv, Arm \/ SelfCheck \/ Kick
  PROVE  IInv'
<1>1. /\ next \in Authzs /\ chosen \in Kinds
      /\ pc \in {"arm", "selfcheck", "kick"}
      /\ pc' \in {"selfcheck", "kick", "poll"}
      /\ UNCHANGED <<url, count, next, proof, chosen, finalized, refusal,
                     result>>
      /\ last' \in {last, "none"}
  <2>1. pc \in Driving
    BY DEF Arm, SelfCheck, Kick, Driving
  <2>2. next \in Authzs /\ chosen \in Kinds
    BY <2>1, IssuanceAssumption DEF IInv, LoopInv, TypeOK, Authzs
  <2>3. QED BY <2>2 DEF Arm, SelfCheck, Kick
<1>2. \E d \in Nat : clock' = clock + d
  BY IssuanceAssumption DEF Arm, SelfCheck, Kick, Elapse
<1>3. clock' \in Nat
  BY <1>2 DEF IInv, TypeOK
<1>4. deadline' \in Nat /\ (pc' = "poll" => clock' <= deadline')
  <2>1. CASE Arm \/ SelfCheck
    BY <2>1 DEF Arm, SelfCheck, IInv, TypeOK
  <2>2. CASE Kick
    <3>1. PICK d \in 0..MaxLatency :
            clock' = clock + d /\ deadline' = clock + d + ChallengeTimeout
      BY <2>2 DEF Kick
    <3>2. d \in Nat /\ clock \in Nat /\ ChallengeTimeout \in Nat
      BY IssuanceAssumption DEF IInv, TypeOK
    <3>3. QED BY <3>1, <3>2
  <2>3. QED BY <2>1, <2>2
<1>5. armed' = {<<next, chosen>>} /\ told' \in SUBSET (Authzs \X Kinds)
  BY <1>1 DEF Arm, SelfCheck, Kick, Tell, IInv, TypeOK, ExposureWindow
<1>6. TypeOK'
  BY <1>1, <1>3, <1>4, <1>5 DEF IInv, TypeOK, Locations
<1>7. ExposureWindow'
  BY <1>1, <1>5 DEF ExposureWindow
<1>8. LoopInv'
  BY <1>1, StaysInPart DEF IInv, Driving
<1>9. PollInv' /\ TimeoutHonest' /\ BoundedOvershoot'
  <2>1. result' = "none"
    BY <1>1 DEF IInv, TypeOK
  <2>2. PICK c \in Nat, d \in Nat : clock' = c /\ deadline' = d
    BY <1>3, <1>4
  <2>3. pc' = "poll" => c < d + Interval /\ c < d + Interval + MaxLatency
    BY <1>4, <2>2, IssuanceAssumption
  <2>4. QED
    BY <1>1, <2>1, <2>2, <2>3 DEF PollInv, TimeoutHonest, BoundedOvershoot
<1>10. QED BY <1>6, <1>7, <1>8, <1>9 DEF IInv

\* A poll without a verdict: the loop goes on before the deadline only.
LEMMA AgainKeepsIInv ==
  ASSUME IInv, PollAgain \/ RefreshAgain
  PROVE  IInv'
<1>1. /\ pc \in {"poll", "refresh"}
      /\ last' \in {"pending", "ready", "processing", "unknown"}
      /\ UNCHANGED <<url, count, next, proof, chosen, told, finalized, deadline,
                     refusal>>
  BY DEF PollAgain, RefreshAgain, Answer
<1>2. PICK d \in 0..MaxLatency : clock' = clock + d
  BY DEF PollAgain, RefreshAgain, Answer, Elapse
<1>3. /\ d \in Nat /\ d <= MaxLatency /\ clock \in Nat /\ deadline \in Nat
      /\ clock < deadline + Interval
  BY <1>1, IssuanceAssumption DEF IInv, TypeOK, PollInv
<1>4. PICK c \in Nat : clock' = c /\ c < deadline + Interval + MaxLatency
  BY <1>2, <1>3, IssuanceAssumption
<1>6. \/ c >= deadline /\ Return("Timeout")
      \/ /\ c < deadline
         /\ \/ pc = "poll" /\ pc' = "sleep"
            \/ pc = "refresh" /\ pc' = "nap"
         /\ UNCHANGED <<armed, result>>
  BY <1>3, <1>4 DEF PollAgain, RefreshAgain
<1>7. TypeOK'
  BY <1>1, <1>4, <1>6
     DEF IInv, TypeOK, Return, Locations, Errors, OrderStatuses,
         ChallengeStatuses
<1>8. ExposureWindow'
  BY <1>1, <1>6 DEF IInv, ExposureWindow, Return
<1>9. LoopInv'
  <2>1. CASE Return("Timeout")
    BY <1>1, <2>1
       DEF IInv, LoopInv, Return, Ordering, Driving, Closing, Finalizing
  <2>2. CASE \/ pc = "poll" /\ pc' = "sleep"
             \/ pc = "refresh" /\ pc' = "nap"
    BY <1>1, <2>2, StaysInPart DEF IInv, Driving, Finalizing
  <2>3. QED BY <1>6, <2>1, <2>2
<1>10. PollInv' /\ TimeoutHonest' /\ BoundedOvershoot'
  <2>1. deadline' = deadline /\ clock' = c
    BY <1>1, <1>4
  <2>2. CASE c >= deadline /\ Return("Timeout")
    BY <1>1, <1>4, <2>1, <2>2
       DEF Return, PollInv, TimeoutHonest, BoundedOvershoot
  <2>3. CASE /\ c < deadline /\ pc' \in {"sleep", "nap"}
             /\ UNCHANGED <<armed, result>>
    <3>1. result' = "none"
      BY <1>1, <2>3 DEF IInv, TypeOK
    <3>2. QED
      BY <1>4, <2>1, <2>3, <3>1 DEF PollInv, TimeoutHonest, BoundedOvershoot
  <2>4. QED BY <1>6, <2>2, <2>3
<1>11. QED BY <1>7, <1>8, <1>9, <1>10 DEF IInv

LEMMA SleepKeepsIInv ==
  ASSUME IInv, Sleep
  PROVE  IInv'
<1>1. /\ \/ pc = "sleep" /\ pc' = "poll"
         \/ pc = "nap" /\ pc' = "refresh"
      /\ clock' = clock + Interval
      /\ UNCHANGED <<url, count, next, proof, chosen, armed, told, finalized,
                     last, deadline, refusal, result>>
  BY DEF Sleep
<1>2. /\ clock \in Nat /\ deadline \in Nat /\ clock < deadline
      /\ Interval \in Nat /\ MaxLatency \in Nat
  BY <1>1, IssuanceAssumption DEF IInv, TypeOK, PollInv
<1>3. PICK c \in Nat : /\ clock' = c
                       /\ c < deadline + Interval
                       /\ c < deadline + Interval + MaxLatency
  BY <1>1, <1>2
<1>4. TypeOK'
  BY <1>1, <1>3 DEF IInv, TypeOK, Locations
<1>5. ExposureWindow' /\ LoopInv'
  BY <1>1, StaysInPart DEF IInv, ExposureWindow, Driving, Finalizing
<1>6. PollInv' /\ TimeoutHonest' /\ BoundedOvershoot'
  <2>1. result' = "none" /\ deadline' = deadline
    BY <1>1 DEF IInv, TypeOK
  <2>2. QED
    BY <1>1, <1>3, <2>1 DEF PollInv, TimeoutHonest, BoundedOvershoot
<1>7. QED BY <1>4, <1>5, <1>6 DEF IInv

\* Every other way out with an error: from a call that fails, a solver that
\* fails, or an answer that settles the challenge or the order against it.
LEMMA ExitKeepsIInv ==
  ASSUME IInv,
         \/ AuthzFails \/ SolverFails \/ KickFails \/ PollInvalid \/ PollFails
         \/ FinalizeFails \/ RefreshInvalid \/ RefreshFails \/ DownloadFails
  PROVE  IInv'
<1>1. pc # "done"
  BY DEF AuthzFails, SolverFails, KickFails, PollInvalid, PollFails,
         FinalizeFails, RefreshInvalid, RefreshFails, DownloadFails
<1>2. ASSUME UNCHANGED Rest, NEW f \in ReadFailures \cup GetFailures, FailWith(f)
      PROVE  IInv'
  BY <1>1, <1>2, FailureKeepsIInv DEF Rest, IInv, TypeOK
<1>3. ASSUME NEW r \in {"UnsupportedIdentifier", "MissingField", "Solver"},
             Return(r), UNCHANGED <<Rest, refusal>>
      PROVE  IInv'
  BY <1>1, <1>3, ErrorKeepsIInv DEF Rest, clockVars, IInv, TypeOK, Errors
<1>4. CASE AuthzFails
  BY <1>2, <1>3, <1>4 DEF AuthzFails, Rest
<1>5. CASE SolverFails
  BY <1>3, <1>5 DEF SolverFails
<1>6. CASE PollFails \/ RefreshFails \/ DownloadFails
  BY <1>2, <1>6, PostFailuresRead DEF PollFails, RefreshFails, DownloadFails
<1>7. CASE KickFails
  <2>1. PICK f \in PostFailures :
          FailWith(f) /\ IF f.reached THEN Tell ELSE UNCHANGED told
    BY <1>7 DEF KickFails
  <2>2. next \in Authzs /\ chosen \in Kinds
    BY <1>7, IssuanceAssumption
       DEF KickFails, IInv, LoopInv, TypeOK, Driving, Authzs
  <2>3. told' \in SUBSET (Authzs \X Kinds)
    BY <2>1, <2>2 DEF Tell, IInv, TypeOK
  <2>4. UNCHANGED <<url, count, next, proof, chosen, finalized, last, clockVars>>
    BY <1>7 DEF KickFails
  <2>5. finalized' \in BOOLEAN
    BY <2>4 DEF IInv, TypeOK
  <2>6. QED
    BY <1>1, <2>1, <2>3, <2>4, <2>5, PostFailuresRead, FailureKeepsIInv
<1>8. CASE FinalizeFails
  <2>1. PICK f \in PostFailures : FailWith(f) /\ finalized' = f.reached
    BY <1>8 DEF FinalizeFails
  <2>2. finalized' \in BOOLEAN
    BY <2>1, FailureFacts, PostFailuresRead
  <2>3. /\ pc = "finalize"
        /\ UNCHANGED <<url, count, next, proof, chosen, told, last, clockVars>>
    BY <1>8 DEF FinalizeFails
  <2>4. told' \in SUBSET (Authzs \X Kinds)
    BY <2>3 DEF IInv, TypeOK
  <2>5. QED
    BY <1>1, <2>1, <2>2, <2>3, <2>4, PostFailuresRead, FailureKeepsIInv
<1>9. CASE PollInvalid \/ RefreshInvalid
  <2>1. /\ Return("Malformed") /\ last' = "invalid"
        /\ UNCHANGED <<url, count, next, proof, chosen, told, finalized, deadline,
                       refusal>>
    BY <1>9 DEF PollInvalid, RefreshInvalid, Answer
  <2>2. PICK d \in 0..MaxLatency : clock' = clock + d
    BY <1>9 DEF PollInvalid, RefreshInvalid, Answer, Elapse
  <2>3. clock' \in Nat
    BY <2>2, IssuanceAssumption DEF IInv, TypeOK
  <2>4. QED
    BY <1>1, <2>1, <2>3, ErrorKeepsIInv
       DEF IInv, TypeOK, Errors, OrderStatuses, ChallengeStatuses
<1>10. QED BY <1>4, <1>5, <1>6, <1>7, <1>8, <1>9

\* The order is finalized and its certificate fetched.
LEMMA ClosingKeepsIInv ==
  ASSUME IInv, AllAuthorized \/ BuildCsr \/ Finalize
  PROVE  IInv'
<1>1. CASE AllAuthorized
  <2>1. /\ pc = "authz" /\ next > count /\ pc' = "csr"
        /\ UNCHANGED <<url, count, next, proof, chosen, told, finalized, last,
                       clock, deadline, armed, refusal, result>>
    BY <1>1 DEF AllAuthorized, Rest, clockVars
  <2>2. next = count + 1
    BY <2>1 DEF IInv, LoopInv, TypeOK, Ordering
  <2>3. TypeOK' /\ ExposureWindow'
    BY <2>1 DEF IInv, TypeOK, ExposureWindow, Locations
  <2>4. LoopInv'
    BY <2>1, <2>2 DEF IInv, LoopInv, Ordering, Driving, Closing, Finalizing
  <2>5. PollInv' /\ TimeoutHonest' /\ BoundedOvershoot'
    BY <2>1 DEF IInv, TypeOK, PollInv, TimeoutHonest, BoundedOvershoot
  <2>6. QED BY <2>3, <2>4, <2>5 DEF IInv
<1>2. CASE BuildCsr
  <2>1. /\ pc = "csr"
        /\ UNCHANGED <<url, count, next, proof, chosen, told, finalized, last,
                       clock, deadline, refusal>>
    BY <1>2 DEF BuildCsr, CsrFails, Rest, clockVars
  <2>2. CASE Return("MissingField") \/ Return("BadCsr")
    BY <2>1, <2>2, ErrorKeepsIInv DEF IInv, TypeOK, Errors
  <2>3. CASE pc' = "finalize" /\ UNCHANGED <<armed, result>>
    <3>1. TypeOK' /\ ExposureWindow'
      BY <2>1, <2>3 DEF IInv, TypeOK, ExposureWindow, Locations
    <3>2. LoopInv'
      BY <2>1, <2>3, StaysInPart DEF IInv, Closing
    <3>3. PollInv' /\ TimeoutHonest' /\ BoundedOvershoot'
      BY <2>1, <2>3 DEF IInv, TypeOK, PollInv, TimeoutHonest, BoundedOvershoot
    <3>4. QED BY <3>1, <3>2, <3>3 DEF IInv
  <2>4. QED BY <1>2, <2>2, <2>3 DEF BuildCsr, CsrFails
<1>3. CASE Finalize
  <2>1. /\ pc = "finalize" /\ pc' = "refresh" /\ finalized' = TRUE
        /\ UNCHANGED <<url, count, next, proof, chosen, armed, told, last, refusal,
                       result>>
    BY <1>3 DEF Finalize
  <2>2. PICK d \in 0..MaxLatency :
          clock' = clock + d /\ deadline' = clock + d + FinalizeTimeout
    BY <1>3 DEF Finalize
  <2>3. PICK c \in Nat, e \in Nat :
          /\ clock' = c /\ deadline' = e
          /\ c < e + Interval /\ c < e + Interval + MaxLatency
    <3>1. /\ d \in Nat /\ clock \in Nat /\ FinalizeTimeout \in Nat
          /\ Interval \in Nat \ {0} /\ MaxLatency \in Nat
      BY IssuanceAssumption DEF IInv, TypeOK
    <3>2. QED BY <2>2, <3>1
  <2>4. TypeOK' /\ ExposureWindow'
    BY <2>1, <2>3 DEF IInv, TypeOK, ExposureWindow, Locations
  <2>5. LoopInv'
    BY <2>1 DEF IInv, LoopInv, Ordering, Driving, Closing, Finalizing
  <2>6. PollInv' /\ TimeoutHonest' /\ BoundedOvershoot'
    BY <2>1, <2>3 DEF IInv, TypeOK, PollInv, TimeoutHonest, BoundedOvershoot
  <2>7. QED BY <2>4, <2>5, <2>6 DEF IInv
<1>4. QED BY <1>1, <1>2, <1>3

LEMMA EndKeepsIInv ==
  ASSUME IInv, RefreshValid \/ Download
  PROVE  IInv'
<1>1. CASE RefreshValid
  <2>1. PICK s \in {"valid", "bare"} :
          /\ Answer(s)
          /\ IF s = "valid" THEN pc' = "download" /\ UNCHANGED <<armed, result>>
             ELSE Return("MissingField")
    BY <1>1 DEF RefreshValid
  <2>2. /\ pc = "refresh" /\ last' = s
        /\ UNCHANGED <<url, count, next, proof, chosen, told, finalized, deadline,
                       refusal>>
    BY <1>1, <2>1 DEF RefreshValid, Answer
  <2>3. PICK d \in 0..MaxLatency : clock' = clock + d
    BY <2>1 DEF Answer, Elapse
  <2>4. clock' \in Nat
    BY <2>3, IssuanceAssumption DEF IInv, TypeOK
  <2>5. CASE s = "valid"
    <3>1. pc' = "download" /\ UNCHANGED <<armed, result>>
      BY <2>1, <2>5
    <3>2. TypeOK' /\ ExposureWindow'
      BY <2>2, <2>4, <3>1
         DEF IInv, TypeOK, ExposureWindow, Locations, OrderStatuses,
             ChallengeStatuses
    <3>3. LoopInv'
      BY <2>2, <3>1, StaysInPart DEF IInv, Finalizing
    <3>4. PollInv' /\ TimeoutHonest' /\ BoundedOvershoot'
      BY <2>2, <2>5, <3>1
         DEF IInv, TypeOK, LoopInv, PollInv, TimeoutHonest, BoundedOvershoot,
             Finalizing
    <3>5. QED BY <3>2, <3>3, <3>4 DEF IInv
  <2>6. CASE s = "bare"
    BY <2>1, <2>2, <2>4, <2>6, ErrorKeepsIInv
       DEF IInv, TypeOK, Errors, OrderStatuses, ChallengeStatuses
  <2>7. QED BY <2>5, <2>6
<1>2. CASE Download
  <2>1. /\ pc = "download" /\ pc' = "done" /\ result' = "ok" /\ armed' = {}
        /\ UNCHANGED <<url, count, next, proof, chosen, told, finalized, last,
                       clock, deadline, refusal>>
    BY <1>2 DEF Download, Return, Rest, clockVars
  <2>2. TypeOK' /\ ExposureWindow'
    BY <2>1 DEF IInv, TypeOK, ExposureWindow, Locations
  <2>3. LoopInv'
    BY <2>1 DEF IInv, LoopInv, Ordering, Driving, Closing, Finalizing
  <2>4. PollInv' /\ TimeoutHonest' /\ BoundedOvershoot'
    BY <2>1 DEF IInv, PollInv, TimeoutHonest, BoundedOvershoot
  <2>5. QED BY <2>2, <2>3, <2>4 DEF IInv
<1>3. QED BY <1>1, <1>2

-----------------------------------------------------------------------------
(* The theorems.                                                           *)

LEMMA InitIInv == Init => IInv
<1> SUFFICES ASSUME Init PROVE IInv
  OBVIOUS
<1>1. TypeOK
  <2>1. /\ count \in -1..MaxAuthzs
        /\ next \in 1..(MaxAuthzs + 1)
    BY IssuanceAssumption DEF Init
  <2>2. proof \in [Authzs -> {"none", "authorization", "challenge"}]
    BY DEF Init
  <2>3. chosen \in Kinds \cup {NoKind}
    BY DEF Init
  <2>4. QED
    BY <2>1, <2>2, <2>3 DEF Init, TypeOK, Locations, Said, ProblemDocuments
<1>2. ExposureWindow
  BY DEF Init, ExposureWindow
<1>3. LoopInv
  BY IssuanceAssumption
     DEF Init, LoopInv, Ordering, Driving, Closing, Finalizing, Authzs
<1>4. PollInv /\ TimeoutHonest /\ BoundedOvershoot
  BY DEF Init, PollInv, TimeoutHonest, BoundedOvershoot
<1>5. QED BY <1>1, <1>2, <1>3, <1>4 DEF IInv

LEMMA NextIInv == IInv /\ [Next]_vars => IInv'
<1> SUFFICES ASSUME IInv, [Next]_vars PROVE IInv'
  OBVIOUS
<1>1. CASE UNCHANGED vars
  BY <1>1
     DEF vars, clockVars, IInv, TypeOK, ExposureWindow, LoopInv, PollInv,
         TimeoutHonest, BoundedOvershoot
<1>2. CASE Next
  BY <1>2, StartKeepsIInv, SatisfiedKeepsIInv, OfferKeepsIInv, ArmingKeepsIInv,
     AgainKeepsIInv, SleepKeepsIInv, ExitKeepsIInv, ClosingKeepsIInv,
     EndKeepsIInv
     DEF Next
<1>3. QED BY <1>1, <1>2

LEMMA InvariantHolds == Spec => []IInv
BY InitIInv, NextIInv, PTL DEF Spec

\* Every variable keeps its type in every reachable state.
THEOREM TypeCorrect == Spec => []TypeOK
<1>1. IInv => TypeOK
  BY DEF IInv
<1>2. QED BY <1>1, InvariantHolds, PTL

\* Whatever the CA and the solvers do, a response is exposed exactly while its
\* challenge is driven, and never once the call has returned.
THEOREM ExposureHolds == Spec => []ExposureWindow
<1>1. IInv => ExposureWindow
  BY DEF IInv
<1>2. QED BY <1>1, InvariantHolds, PTL

\* A certificate is handed out only for a proven, finalized and valid order.
THEOREM CertificateHolds == Spec => []CertificateEarned
<1>1. IInv => CertificateEarned
  <2> SUFFICES ASSUME IInv PROVE CertificateEarned
    OBVIOUS
  <2>1. ASSUME finalized PROVE Proven = 1..count
    <3>1. count \in 0..MaxAuthzs /\ next = count + 1
      BY <2>1 DEF IInv, LoopInv, TypeOK
    <3>2. \A a \in Authzs : proof[a] # "none" <=> a <= count
      BY <3>1, IssuanceAssumption DEF IInv, LoopInv, Authzs
    <3>3. QED BY <3>1, <3>2, IssuanceAssumption DEF Proven, Authzs
  <2>2. result = "ok" => finalized /\ last = "valid"
    BY DEF IInv, PollInv
  <2>3. QED BY <2>1, <2>2 DEF CertificateEarned
<1>2. QED BY <1>1, InvariantHolds, PTL

\* For any budgets and latencies, a Timeout is returned only after the deadline
\* and never instead of a verdict.
THEOREM TimeoutHolds == Spec => []TimeoutHonest
<1>1. IInv => TimeoutHonest
  BY DEF IInv
<1>2. QED BY <1>1, InvariantHolds, PTL

\* For any budgets and latencies, a poll loop outlives its deadline by less
\* than one sleep and one exchange.
THEOREM OvershootHolds == Spec => []BoundedOvershoot
<1>1. IInv => BoundedOvershoot
  BY DEF IInv
<1>2. QED BY <1>1, InvariantHolds, PTL

-----------------------------------------------------------------------------
(* Issuance implements IssuanceContract: every step of the call is a step  *)
(* of the contract or leaves what the contract sees alone.                 *)

\* What the contract sees.
Seen == <<Phase, 1..count, Proven, {p[1] : p \in armed}>>

\* Whatever fails, and wherever, the contract sees Fail.
LEMMA ErrorFails ==
  ASSUME IInv, pc # "done", NEW r \in Errors, Return(r), UNCHANGED <<count, proof>>
  PROVE  Contract!Fail
<1>1. result = "none"
  BY DEF IInv, TypeOK
<1>2. result' # "none" /\ result' # "ok" /\ armed' = {}
  BY DEF Return, Errors
<1>3. Phase \in {"ordering", "proving", "finalizing"} /\ Phase' = "failed"
  BY <1>1, <1>2 DEF Phase
<1>4. {p[1] : p \in armed}' = {}
  BY <1>2
<1>5. (1..count)' = 1..count /\ Proven' = Proven
  BY DEF Proven
<1>6. QED BY <1>3, <1>4, <1>5 DEF Contract!Fail

\* A step that keeps the order, the proofs, the exposure and the phase.
LEMMA QuietStutters ==
  ASSUME UNCHANGED <<count, proof, armed>>, Phase' = Phase
  PROVE  UNCHANGED Seen
BY DEF Seen, Proven

\* The authorizations proven so far are those before next.
LEMMA ProvenPrefix ==
  ASSUME IInv
  PROVE  Proven = {a \in Authzs : a < next}
BY DEF IInv, LoopInv, Proven

\* The authorization at hand is wanted and not proven.
LEMMA AtHand ==
  ASSUME IInv, pc \in {"authz"} \cup Driving, next <= count
  PROVE  /\ next \in Authzs
         /\ next \in (1..count) \ Proven
<1>1. count \in -1..MaxAuthzs /\ next \in 1..(MaxAuthzs + 1)
  BY DEF IInv, TypeOK
<1>2. next \in Authzs /\ next \in 1..count
  BY <1>1, IssuanceAssumption DEF Authzs
<1>3. QED BY <1>1, <1>2, ProvenPrefix

\* Being done with an authorization proves it, and only it.
LEMMA SatisfiedProves ==
  ASSUME IInv, pc \in {"authz", "poll"}, next <= count,
         NEW how \in {"authorization", "challenge"}, Satisfied(how),
         UNCHANGED <<count, result>>
  PROVE  Contract!Prove
<1>1. next \in Authzs /\ next \in (1..count) \ Proven
  BY AtHand DEF Driving
<1>2. Proven' = Proven \cup {next}
  <2>1. proof \in [Authzs -> {"none", "authorization", "challenge"}]
    BY DEF IInv, TypeOK
  <2>2. proof' = [proof EXCEPT ![next] = how]
    BY DEF Satisfied
  <2>3. QED BY <1>1, <2>1, <2>2 DEF Proven
<1>3. {p[1] : p \in armed} \subseteq {next}
  BY DEF IInv, ExposureWindow
<1>4. {p[1] : p \in armed}' = {}
  BY DEF Satisfied
<1>5. result = "none"
  BY DEF IInv, TypeOK
<1>6. Phase = "proving" /\ Phase' = "proving"
  BY <1>5 DEF Phase, Satisfied
<1>7. (1..count)' = 1..count
  OBVIOUS
<1>8. QED BY <1>1, <1>2, <1>3, <1>4, <1>6, <1>7 DEF Contract!Prove

LEMMA InitMaps == Init => Contract!Init
<1> SUFFICES ASSUME Init PROVE Contract!Init
  OBVIOUS
<1>1. Phase = "ordering"
  BY DEF Init, Phase
<1>2. 1..count = {}
  BY DEF Init
<1>3. Proven = {} /\ {p[1] : p \in armed} = {}
  BY DEF Init, Proven
<1>4. QED BY <1>1, <1>2, <1>3 DEF Contract!Init

\* Every step is a step of the contract or one it does not see.
LEMMA StartMaps ==
  ASSUME IInv, FetchDirectory \/ CreateAccount \/ CreateOrder \/ OrderFails
  PROVE  Contract!Next \/ UNCHANGED Seen
<1>1. pc \in Ordering /\ pc # "done" /\ result = "none"
  BY DEF FetchDirectory, CreateAccount, CreateOrder, OrderFails, Ordering,
         IInv, TypeOK
<1>2. ASSUME UNCHANGED Rest, NEW r \in Errors, Return(r)
      PROVE  Contract!Next
  BY <1>1, <1>2, ErrorFails DEF Rest, Contract!Next
<1>3. ASSUME UNCHANGED Rest, NEW f \in ReadFailures \cup GetFailures, FailWith(f)
      PROVE  Contract!Next
  BY <1>2, <1>3, FailureFacts DEF FailWith
<1>4. "MissingField" \in Errors
  BY DEF Errors
<1>5. ASSUME UNCHANGED Rest, UNCHANGED <<armed, result>>,
             pc' \in {"account", "order"}
      PROVE  UNCHANGED Seen
  <2>1. Phase' = Phase
    BY <1>1, <1>5 DEF Phase, Ordering
  <2>2. QED BY <1>5, <2>1, QuietStutters DEF Rest
<1>6. CASE FetchDirectory
  BY <1>3, <1>5, <1>6 DEF FetchDirectory
<1>7. CASE CreateAccount
  BY <1>2, <1>3, <1>4, <1>5, <1>7 DEF CreateAccount
<1>8. CASE OrderFails
  BY <1>2, <1>3, <1>4, <1>8 DEF OrderFails
<1>9. CASE CreateOrder
  <2>1. Phase = "ordering" /\ Phase' = "proving"
    BY <1>1, <1>9 DEF CreateOrder, Phase, Ordering
  <2>2. PICK n \in 0..MaxAuthzs : count' = n
    BY <1>9 DEF CreateOrder
  <2>3. (1..count)' = 1..n
    BY <2>2
  <2>4. Proven' = Proven /\ {p[1] : p \in armed}' = {p[1] : p \in armed}
    BY <1>9 DEF CreateOrder, Proven
  <2>5. Contract!Order
    BY <2>1, <2>2, <2>3, <2>4 DEF Contract!Order
  <2>6. QED BY <2>5 DEF Contract!Next
<1>10. QED BY <1>6, <1>7, <1>8, <1>9

LEMMA DriveMaps ==
  ASSUME IInv,
         \/ AuthzValid \/ AuthzOffers \/ AuthzFails \/ Arm \/ SelfCheck
         \/ SolverFails \/ Kick \/ KickFails
  PROVE  Contract!Next \/ UNCHANGED Seen
<1>1. pc \in {"authz", "arm", "selfcheck", "kick"} /\ pc # "done"
  BY DEF AuthzValid, AuthzOffers, AuthzFails, Arm, SelfCheck, SolverFails,
         Kick, KickFails
<1>2. result = "none" /\ Phase = "proving"
  BY <1>1 DEF IInv, TypeOK, Phase
<1>3. ASSUME UNCHANGED <<count, proof>>, NEW r \in Errors, Return(r)
      PROVE  Contract!Next
  BY <1>1, <1>3, ErrorFails DEF Contract!Next
<1>4. ASSUME UNCHANGED <<count, proof>>,
             NEW f \in ReadFailures \cup GetFailures, FailWith(f)
      PROVE  Contract!Next
  BY <1>3, <1>4, FailureFacts DEF FailWith
<1>5. ASSUME UNCHANGED <<count, proof, armed, result>>,
             pc' \in {"arm", "kick", "poll"}
      PROVE  UNCHANGED Seen
  <2>1. Phase' = Phase
    BY <1>2, <1>5 DEF Phase
  <2>2. QED BY <1>5, <2>1, QuietStutters
<1>6. CASE AuthzValid
  BY <1>6, SatisfiedProves DEF AuthzValid, Contract!Next
<1>7. CASE AuthzOffers
  BY <1>5, <1>7 DEF AuthzOffers, clockVars
<1>8. CASE AuthzFails
  <2>1. {"UnsupportedIdentifier", "MissingField"} \subseteq Errors
    BY DEF Errors
  <2>2. QED BY <1>3, <1>4, <1>8, <2>1 DEF AuthzFails, Rest
<1>9. CASE Arm
  <2>1. next \in Authzs /\ next \in (1..count) \ Proven /\ chosen \in Kinds
    BY <1>9, AtHand DEF Arm, Driving, IInv, LoopInv
  <2>2. armed = {} /\ armed' = {<<next, chosen>>}
    BY <1>9 DEF Arm, IInv, ExposureWindow
  <2>3. {p[1] : p \in armed} = {} /\ {p[1] : p \in armed}' = {next}
    BY <2>2
  <2>4. Phase' = "proving"
    BY <1>2, <1>9 DEF Arm, Phase
  <2>5. (1..count)' = 1..count /\ Proven' = Proven
    BY <1>9 DEF Arm, Proven
  <2>6. Contract!Expose
    BY <1>2, <2>1, <2>3, <2>4, <2>5 DEF Contract!Expose
  <2>7. QED BY <2>6 DEF Contract!Next
<1>10. CASE SelfCheck
  BY <1>5, <1>10 DEF SelfCheck
<1>11. CASE SolverFails
  <2>1. "Solver" \in Errors
    BY DEF Errors
  <2>2. QED BY <1>3, <1>11, <2>1 DEF SolverFails, Rest
<1>12. CASE Kick
  BY <1>5, <1>12 DEF Kick
<1>13. CASE KickFails
  BY <1>4, <1>13, PostFailuresRead DEF KickFails
<1>14. QED BY <1>6, <1>7, <1>8, <1>9, <1>10, <1>11, <1>12, <1>13

LEMMA PollMaps ==
  ASSUME IInv,
         PollValid \/ PollInvalid \/ PollAgain \/ PollFails \/ Sleep
  PROVE  Contract!Next \/ UNCHANGED Seen
<1>1. pc \in {"poll", "sleep", "nap"} /\ pc # "done" /\ result = "none"
  BY DEF PollValid, PollInvalid, PollAgain, PollFails, Sleep, IInv, TypeOK
<1>2. ASSUME UNCHANGED <<count, proof>>, NEW r \in Errors, Return(r)
      PROVE  Contract!Next
  BY <1>1, <1>2, ErrorFails DEF Contract!Next
<1>3. {"Malformed", "Timeout"} \subseteq Errors
  BY DEF Errors
<1>4. CASE PollValid
  <2>1. next <= count
    BY <1>4 DEF PollValid, IInv, LoopInv, Driving
  <2>2. QED BY <1>4, <2>1, SatisfiedProves DEF PollValid, Contract!Next
<1>5. CASE PollInvalid
  BY <1>2, <1>3, <1>5 DEF PollInvalid
<1>6. CASE PollAgain
  <2>1. CASE Return("Timeout")
    BY <1>2, <1>3, <1>6, <2>1 DEF PollAgain
  <2>2. CASE pc' = "sleep" /\ UNCHANGED <<armed, result>>
    <3>1. Phase' = Phase
      BY <1>1, <1>6, <2>2 DEF PollAgain, Phase
    <3>2. QED BY <1>6, <2>2, <3>1, QuietStutters DEF PollAgain
  <2>3. QED BY <1>6, <2>1, <2>2 DEF PollAgain
<1>7. CASE PollFails
  <2>1. PICK f \in ReadFailures : FailWith(f)
    BY <1>7 DEF PollFails
  <2>2. QED BY <1>2, <1>7, <2>1, FailureFacts DEF PollFails, FailWith, Rest
<1>8. CASE Sleep
  <2>1. Phase' = Phase
    BY <1>1, <1>8 DEF Sleep, Phase
  <2>2. QED BY <1>8, <2>1, QuietStutters DEF Sleep
<1>9. QED BY <1>4, <1>5, <1>6, <1>7, <1>8

LEMMA ClosingMaps ==
  ASSUME IInv, AllAuthorized \/ BuildCsr \/ Finalize \/ FinalizeFails
  PROVE  Contract!Next \/ UNCHANGED Seen
<1>1. pc \in {"authz"} \cup Closing /\ pc # "done"
  BY DEF AllAuthorized, BuildCsr, CsrFails, Finalize, FinalizeFails, Closing
<1>2. result = "none" /\ Phase = "proving"
  BY <1>1 DEF IInv, TypeOK, Phase, Closing
<1>3. ASSUME UNCHANGED <<count, proof>>, NEW r \in Errors, Return(r)
      PROVE  Contract!Next
  BY <1>1, <1>3, ErrorFails DEF Contract!Next
<1>4. ASSUME UNCHANGED <<Rest, armed, result>>, pc' \in Closing
      PROVE  UNCHANGED Seen
  <2>1. Phase' = Phase
    BY <1>2, <1>4 DEF Phase, Closing
  <2>2. QED BY <1>4, <2>1, QuietStutters DEF Rest
<1>5. CASE AllAuthorized
  BY <1>4, <1>5 DEF AllAuthorized, Closing
<1>6. CASE BuildCsr
  <2>1. {"MissingField", "BadCsr"} \subseteq Errors
    BY DEF Errors
  <2>2. UNCHANGED Rest
    BY <1>6 DEF BuildCsr, CsrFails
  <2>3. CASE pc' = "finalize" /\ UNCHANGED <<armed, result>>
    BY <1>4, <2>2, <2>3 DEF Closing
  <2>4. CASE Return("MissingField") \/ Return("BadCsr")
    BY <1>3, <2>1, <2>2, <2>4 DEF Rest
  <2>5. QED BY <1>6, <2>3, <2>4 DEF BuildCsr, CsrFails
<1>7. CASE Finalize
  <2>1. count \in 0..MaxAuthzs /\ next = count + 1
    BY <1>7 DEF Finalize, IInv, LoopInv, TypeOK, Closing
  <2>2. Proven = 1..count
    <3>1. \A a \in Int : a \in 1..count <=> a \in Authzs /\ a < next
      BY <2>1, IssuanceAssumption DEF Authzs
    <3>2. Authzs \subseteq Int
      BY DEF Authzs
    <3>3. 1..count \subseteq Int
      OBVIOUS
    <3>4. QED BY <3>1, <3>2, <3>3, ProvenPrefix
  <2>3. {p[1] : p \in armed} = {} /\ {p[1] : p \in armed}' = {}
    BY <1>7 DEF Finalize, IInv, ExposureWindow
  <2>4. Phase' = "finalizing"
    BY <1>2, <1>7 DEF Finalize, Phase
  <2>5. (1..count)' = 1..count /\ Proven' = Proven
    BY <1>7 DEF Finalize, Proven
  <2>6. Contract!Finalize
    BY <1>2, <2>2, <2>3, <2>4, <2>5 DEF Contract!Finalize
  <2>7. QED BY <2>6 DEF Contract!Next
<1>8. CASE FinalizeFails
  <2>1. PICK f \in PostFailures : FailWith(f)
    BY <1>8 DEF FinalizeFails
  <2>2. f.error \in Errors
    BY FailureFacts, PostFailuresRead
  <2>3. QED BY <1>3, <1>8, <2>1, <2>2 DEF FinalizeFails, FailWith
<1>9. QED BY <1>5, <1>6, <1>7, <1>8

LEMMA EndMaps ==
  ASSUME IInv,
         \/ RefreshValid \/ RefreshInvalid \/ RefreshAgain \/ RefreshFails
         \/ Download \/ DownloadFails
  PROVE  Contract!Next \/ UNCHANGED Seen
<1>1. pc \in {"refresh", "download"} /\ pc # "done"
  BY DEF RefreshValid, RefreshInvalid, RefreshAgain, RefreshFails, Download,
         DownloadFails
<1>2. result = "none" /\ Phase = "finalizing"
  BY <1>1 DEF IInv, TypeOK, Phase
<1>3. ASSUME UNCHANGED <<count, proof>>, NEW r \in Errors, Return(r)
      PROVE  Contract!Next
  BY <1>1, <1>3, ErrorFails DEF Contract!Next
<1>4. {"MissingField", "Malformed", "Timeout"} \subseteq Errors
  BY DEF Errors
<1>5. ASSUME UNCHANGED <<count, proof, armed, result>>,
             pc' \in {"download", "nap"}
      PROVE  UNCHANGED Seen
  <2>1. Phase' = Phase
    BY <1>2, <1>5 DEF Phase
  <2>2. QED BY <1>5, <2>1, QuietStutters
<1>6. ASSUME UNCHANGED Rest, NEW f \in ReadFailures, FailWith(f)
      PROVE  Contract!Next
  BY <1>3, <1>6, FailureFacts DEF FailWith, Rest
<1>7. CASE RefreshValid
  <2>1. CASE pc' = "download" /\ UNCHANGED <<armed, result>>
    BY <1>5, <1>7, <2>1 DEF RefreshValid
  <2>2. CASE Return("MissingField")
    BY <1>3, <1>4, <1>7, <2>2 DEF RefreshValid
  <2>3. QED BY <1>7, <2>1, <2>2 DEF RefreshValid
<1>8. CASE RefreshInvalid
  BY <1>3, <1>4, <1>8 DEF RefreshInvalid
<1>9. CASE RefreshAgain
  <2>1. CASE pc' = "nap" /\ UNCHANGED <<armed, result>>
    BY <1>5, <1>9, <2>1 DEF RefreshAgain
  <2>2. CASE Return("Timeout")
    BY <1>3, <1>4, <1>9, <2>2 DEF RefreshAgain
  <2>3. QED BY <1>9, <2>1, <2>2 DEF RefreshAgain
<1>10. CASE RefreshFails
  BY <1>6, <1>10 DEF RefreshFails
<1>11. CASE Download
  <2>1. result' = "ok" /\ armed' = {} /\ UNCHANGED <<count, proof>>
    BY <1>11 DEF Download, Return, Rest
  <2>2. Phase' = "issued"
    BY <2>1 DEF Phase
  <2>3. {p[1] : p \in armed} = {} /\ {p[1] : p \in armed}' = {}
    BY <1>11, <2>1 DEF Download, IInv, ExposureWindow
  <2>4. (1..count)' = 1..count /\ Proven' = Proven
    BY <2>1 DEF Proven
  <2>5. Contract!Issue
    BY <1>2, <2>2, <2>3, <2>4 DEF Contract!Issue
  <2>6. QED BY <2>5 DEF Contract!Next
<1>12. CASE DownloadFails
  BY <1>6, <1>12, PostFailuresRead DEF DownloadFails
<1>13. QED BY <1>7, <1>8, <1>9, <1>10, <1>11, <1>12

\* The call implements the contract, for any solvers, budgets, latencies and
\* CA: every authorization proven before finalizing, at most one response
\* exposed, only for an unproven authorization, none after the call.
THEOREM ContractHolds == Spec => ContractImplemented
<1>1. Init => Contract!Init
  BY InitMaps
<1>2. IInv /\ [Next]_vars => [Contract!Next]_Seen
  <2> SUFFICES ASSUME IInv, [Next]_vars PROVE Contract!Next \/ UNCHANGED Seen
    OBVIOUS
  <2>1. CASE UNCHANGED vars
    <3>1. UNCHANGED <<count, proof, armed>> /\ Phase' = Phase
      BY <2>1 DEF vars, Phase
    <3>2. QED BY <3>1, QuietStutters
  <2>2. CASE Next
    BY <2>2, StartMaps, DriveMaps, PollMaps, ClosingMaps, EndMaps DEF Next
  <2>3. QED BY <2>1, <2>2
<1>3. [Contract!Next]_Seen => [Contract!Next]_(Contract!vars)
  BY DEF Seen, Contract!vars
<1>4. QED
  BY <1>1, <1>2, <1>3, InvariantHolds, PTL
     DEF Spec, ContractImplemented, Contract!Spec
-----------------------------------------------------------------------------
(* The call ends: StepsLeft is a natural number that every step lowers.    *)

\* The cost of what is ahead grows with the authorizations.
LEMMA AheadFacts ==
  /\ StepsToDrive \in Nat /\ StepsToDrive = 2 * ChallengeTimeout + 5
  /\ StepsToClose \in Nat /\ StepsToClose = 2 * FinalizeTimeout + 5
  /\ Ahead(0) = StepsToClose
  /\ \A n \in Nat : Ahead(n) \in Nat /\ Ahead(n) >= StepsToClose
  /\ \A n \in Int : Ahead(n) \in Int /\ Ahead(n + 1) = Ahead(n) + StepsToDrive
  /\ \A m, n \in Nat : m <= n => Ahead(m) <= Ahead(n)
<1>1. /\ StepsToDrive \in Nat /\ StepsToDrive = 2 * ChallengeTimeout + 5
      /\ StepsToClose \in Nat /\ StepsToClose = 2 * FinalizeTimeout + 5
  BY IssuanceAssumption DEF StepsToDrive, StepsToClose
<1>2. PICK k \in Nat, c \in Nat : k = StepsToDrive /\ c = StepsToClose
  BY <1>1
<1>3. \A n : Ahead(n) = n * k + c
  BY <1>2 DEF Ahead
<1>4. \A n \in Nat : n * k \in Nat
  OBVIOUS
<1>5. \A n \in Int : n * k \in Int /\ (n + 1) * k = n * k + k
  OBVIOUS
<1>6. \A m, d \in Nat : (m + d) * k = m * k + d * k
  OBVIOUS
<1>7. ASSUME NEW m \in Nat, NEW n \in Nat, m <= n
      PROVE  m * k <= n * k
  <2>1. PICK d \in Nat : d = n - m
    BY <1>7
  <2>2. n = m + d
    BY <2>1
  <2>3. n * k = m * k + d * k
    BY <1>6, <2>2
  <2>4. m * k \in Nat /\ d * k \in Nat
    BY <1>4
  <2>5. QED BY <2>3, <2>4
<1>8. 0 * k = 0
  OBVIOUS
<1>9. Ahead(0) = StepsToClose
  BY <1>2, <1>3, <1>8
<1>10. \A n \in Nat : Ahead(n) \in Nat /\ Ahead(n) >= StepsToClose
  BY <1>2, <1>3, <1>4
<1>11. ASSUME NEW n \in Int
       PROVE  Ahead(n) \in Int /\ Ahead(n + 1) = Ahead(n) + StepsToDrive
  <2>1. PICK p \in Int : p = n * k /\ (n + 1) * k = p + k
    BY <1>5
  <2>2. QED BY <1>2, <1>3, <2>1
<1>12. ASSUME NEW m \in Nat, NEW n \in Nat, m <= n
       PROVE  Ahead(m) <= Ahead(n)
  <2>1. PICK p \in Nat, q \in Nat : p = m * k /\ q = n * k /\ p <= q
    BY <1>4, <1>7, <1>12
  <2>2. QED BY <1>3, <2>1
<1>13. QED BY <1>1, <1>9, <1>10, <1>11, <1>12

LEMMA TicksFacts == IInv => TicksLeft \in Nat
BY DEF IInv, TypeOK, TicksLeft

\* The arms of StepsLeft, one by one.
Arms ==
  /\ pc = "directory" => StepsLeft = Ahead(MaxAuthzs) + 3
  /\ pc = "account" => StepsLeft = Ahead(MaxAuthzs) + 2
  /\ pc = "order" => StepsLeft = Ahead(MaxAuthzs) + 1
  /\ pc = "authz" => StepsLeft = Ahead(count + 1 - next)
  /\ pc = "arm" => StepsLeft = Ahead(count + 1 - next) - 1
  /\ pc = "selfcheck" => StepsLeft = Ahead(count + 1 - next) - 2
  /\ pc = "kick" => StepsLeft = Ahead(count + 1 - next) - 3
  /\ pc = "poll" => StepsLeft = Ahead(count - next) + 2 * TicksLeft + 1
  /\ pc = "sleep" => StepsLeft = Ahead(count - next) + 2 * TicksLeft
  /\ pc = "csr" => StepsLeft = StepsToClose - 1
  /\ pc = "finalize" => StepsLeft = StepsToClose - 2
  /\ pc = "refresh" => StepsLeft = 2 * TicksLeft + 2
  /\ pc = "nap" => StepsLeft = 2 * TicksLeft + 1
  /\ pc = "download" => StepsLeft = 1
  /\ pc = "done" => StepsLeft = 0

LEMMA StepsAt == Arms
<1>1. /\ pc = "directory" => StepsLeft = Ahead(MaxAuthzs) + 3
      /\ pc = "account" => StepsLeft = Ahead(MaxAuthzs) + 2
      /\ pc = "order" => StepsLeft = Ahead(MaxAuthzs) + 1
  BY DEF StepsLeft
<1>2. /\ pc = "authz" => StepsLeft = Ahead(count + 1 - next)
      /\ pc = "arm" => StepsLeft = Ahead(count + 1 - next) - 1
      /\ pc = "selfcheck" => StepsLeft = Ahead(count + 1 - next) - 2
      /\ pc = "kick" => StepsLeft = Ahead(count + 1 - next) - 3
  BY DEF StepsLeft
<1>3. /\ pc = "poll" => StepsLeft = Ahead(count - next) + 2 * TicksLeft + 1
      /\ pc = "sleep" => StepsLeft = Ahead(count - next) + 2 * TicksLeft
  BY DEF StepsLeft
<1>4. /\ pc = "csr" => StepsLeft = StepsToClose - 1
      /\ pc = "finalize" => StepsLeft = StepsToClose - 2
      /\ pc = "refresh" => StepsLeft = 2 * TicksLeft + 2
      /\ pc = "nap" => StepsLeft = 2 * TicksLeft + 1
      /\ pc = "download" => StepsLeft = 1
      /\ pc = "done" => StepsLeft = 0
  BY DEF StepsLeft
<1>5. QED BY <1>1, <1>2, <1>3, <1>4 DEF Arms

\* While a call runs it has steps left; when it is over it has none.
Remaining == IF pc = "done" THEN StepsLeft = 0 ELSE StepsLeft \in Nat \ {0}

LEMMA StepsLeftType == IInv => Remaining
<1> SUFFICES ASSUME IInv PROVE Remaining
  OBVIOUS
<1>1. /\ next \in Nat /\ count \in Int /\ MaxAuthzs \in Nat
      /\ TicksLeft \in Nat
      /\ ChallengeTimeout \in Nat /\ FinalizeTimeout \in Nat
  BY TicksFacts, IssuanceAssumption DEF IInv, TypeOK
<1>2. CASE pc \in Ordering
  <2>1. PICK a \in Nat : a = Ahead(MaxAuthzs)
    BY <1>1, AheadFacts
  <2>2. StepsLeft \in {a + 3, a + 2, a + 1}
    BY <1>2, <2>1, StepsAt DEF Ordering, Arms
  <2>3. StepsLeft \in Nat \ {0}
    BY <2>2
  <2>4. QED BY <1>2, <2>3 DEF Ordering, Remaining
<1>3. CASE pc = "authz"
  <2>1. count + 1 - next \in Nat
    BY <1>1, <1>3 DEF IInv, LoopInv, Ordering
  <2>2. QED BY <1>1, <1>3, <2>1, AheadFacts, StepsAt DEF Arms, Remaining
<1>4. CASE pc \in Driving
  <2>1. count + 1 - next \in Nat /\ count - next \in Nat
    BY <1>1, <1>4 DEF IInv, LoopInv
  <2>2. \A n \in Nat : Ahead(n) \in Nat /\ Ahead(n) >= 5
    <3>1. PICK c \in Nat : c = StepsToClose /\ c >= 5
      BY <1>1, AheadFacts
    <3>2. ASSUME NEW n \in Nat PROVE Ahead(n) \in Nat /\ Ahead(n) >= 5
      <4>1. PICK a \in Nat : a = Ahead(n) /\ a >= c
        BY <3>1, AheadFacts
      <4>2. QED BY <3>1, <4>1
    <3>3. QED BY <3>2
  <2>3. PICK a \in Nat, b \in Nat, u \in Nat :
          /\ a = Ahead(count + 1 - next) /\ a >= 5
          /\ b = Ahead(count - next) /\ b >= 5
          /\ u = TicksLeft
    BY <1>1, <2>1, <2>2
  <2>4. StepsLeft \in {a - 1, a - 2, a - 3, b + 2 * u + 1, b + 2 * u}
    BY <1>4, <2>3, StepsAt DEF Driving, Arms
  <2>5. StepsLeft \in Nat \ {0}
    BY <2>3, <2>4
  <2>6. QED BY <1>4, <2>5 DEF Driving, Remaining
<1>5. CASE pc \in Closing \cup Finalizing
  <2>1. PICK a \in Nat, u \in Nat : a = StepsToClose /\ a >= 5 /\ u = TicksLeft
    BY <1>1, AheadFacts
  <2>2. StepsLeft \in {a - 1, a - 2, 2 * u + 2, 2 * u + 1, 1}
    BY <1>5, <2>1, StepsAt DEF Closing, Finalizing, Arms
  <2>3. StepsLeft \in Nat \ {0}
    BY <2>1, <2>2
  <2>4. QED BY <1>5, <2>3 DEF Closing, Finalizing, Remaining
<1>6. CASE pc = "done"
  BY <1>6, StepsAt DEF Arms, Remaining
<1>7. pc \in Ordering \cup {"authz"} \cup Driving \cup Closing \cup Finalizing
              \cup {"done"}
  BY DEF IInv, TypeOK, Locations, Ordering, Driving, Closing, Finalizing
<1>8. QED BY <1>2, <1>3, <1>4, <1>5, <1>6, <1>7

\* The same of the next state.
LEMMA NextFacts ==
  IInv' => Arms' /\ Remaining' /\ (TicksLeft \in Nat)'
BY TicksFacts, StepsAt, StepsLeftType, PTL

\* Returning, with whatever result, leaves no step.
LEMMA ReturnShrinks ==
  ASSUME IInv, IInv', pc # "done", pc' = "done"
  PROVE  StepsLeft' < StepsLeft
<1>1. StepsLeft \in Nat \ {0} /\ StepsLeft' = 0
  BY StepsLeftType, NextFacts DEF Remaining
<1>2. QED BY <1>1

\* The calls before the loop, and the choice to leave it.
LEMMA StartShrinks ==
  ASSUME IInv, IInv', pc' # "done",
         FetchDirectory \/ CreateAccount \/ CreateOrder \/ AllAuthorized
  PROVE  StepsLeft' < StepsLeft
<1>1. MaxAuthzs \in Nat /\ Ahead(MaxAuthzs) \in Nat /\ StepsToClose \in Nat
  BY AheadFacts, IssuanceAssumption
<1>2. CASE FetchDirectory \/ CreateAccount
  <2>1. \/ pc = "directory" /\ pc' = "account"
        \/ pc = "account" /\ pc' = "order"
    BY <1>2 DEF FetchDirectory, CreateAccount, FailWith, Return
  <2>2. PICK a \in Nat : a = Ahead(MaxAuthzs)
    BY <1>1
  <2>3. \/ StepsLeft = a + 3 /\ StepsLeft' = a + 2
        \/ StepsLeft = a + 2 /\ StepsLeft' = a + 1
    <3>1. Ahead(MaxAuthzs)' = Ahead(MaxAuthzs)
      BY DEF Ahead, StepsToDrive, StepsToClose
    <3>2. QED BY <2>1, <2>2, <3>1, StepsAt, NextFacts DEF Arms
  <2>4. QED BY <2>3
<1>3. CASE CreateOrder
  <2>1. pc = "order" /\ pc' = "authz" /\ next' = 1 /\ count' \in 0..MaxAuthzs
    BY <1>3 DEF CreateOrder, IInv, LoopInv, Ordering
  <2>2. PICK n \in Nat : n = count' /\ n <= MaxAuthzs
    BY <1>1, <2>1
  <2>3. (count + 1 - next)' = n
    <3>1. count' = n /\ next' = 1
      BY <2>1, <2>2
    <3>2. QED BY <3>1
  <2>4. StepsLeft' = Ahead(n)
    BY <2>1, <2>3, NextFacts DEF Arms
  <2>5. Ahead(n) <= Ahead(MaxAuthzs) /\ Ahead(n) \in Nat
    BY <1>1, <2>2, AheadFacts
  <2>6. StepsLeft = Ahead(MaxAuthzs) + 1
    BY <2>1, StepsAt DEF Arms
  <2>7. QED BY <1>1, <2>4, <2>5, <2>6
<1>4. CASE AllAuthorized
  <2>1. pc = "authz" /\ pc' = "csr"
    BY <1>4 DEF AllAuthorized
  <2>2. count + 1 - next = 0
    BY <1>4, <2>1 DEF AllAuthorized, IInv, LoopInv, TypeOK, Ordering
  <2>3. StepsLeft = StepsToClose
    BY <2>1, <2>2, AheadFacts, StepsAt DEF Arms
  <2>4. StepsLeft' = StepsToClose - 1
    BY <2>1, NextFacts DEF Arms, StepsToClose
  <2>5. QED BY <1>1, <2>3, <2>4
<1>5. QED BY <1>2, <1>3, <1>4

\* One authorization: a budget of steps is spent on it at most.
LEMMA DriveShrinks ==
  ASSUME IInv, IInv', pc' # "done",
         \/ AuthzValid \/ AuthzOffers \/ Arm \/ SelfCheck \/ Kick
         \/ PollValid \/ PollAgain \/ (Sleep /\ pc = "sleep")
  PROVE  StepsLeft' < StepsLeft
<1>1. PICK n \in Int : /\ n = count - next
                       /\ count + 1 - next = n + 1
                       /\ next \in Nat /\ count \in Int
  BY DEF IInv, TypeOK
<1>2. PICK k \in Nat, base \in Int :
        /\ k = 2 * ChallengeTimeout + 5
        /\ base = Ahead(n) /\ base + k = Ahead(n + 1)
  BY AheadFacts
<1>3. PICK u \in Nat, v \in Nat : u = TicksLeft /\ v = TicksLeft'
  BY TicksFacts, NextFacts
<1>4. /\ pc = "authz" => StepsLeft = base + k
      /\ pc = "arm" => StepsLeft = base + k - 1
      /\ pc = "selfcheck" => StepsLeft = base + k - 2
      /\ pc = "kick" => StepsLeft = base + k - 3
      /\ pc = "poll" => StepsLeft = base + 2 * u + 1
      /\ pc = "sleep" => StepsLeft = base + 2 * u
  BY <1>1, <1>2, <1>3, StepsAt DEF Arms
<1>5. CASE AuthzValid \/ PollValid
  <2>1. /\ pc \in {"authz", "poll"} /\ pc' = "authz"
        /\ next' = next + 1 /\ count' = count
    BY <1>5 DEF AuthzValid, PollValid, Satisfied
  <2>2. (count + 1 - next)' = n
    BY <1>1, <2>1
  <2>3. StepsLeft' = base
    BY <1>2, <2>1, <2>2, NextFacts DEF Arms
  <2>4. QED BY <1>2, <1>4, <2>1, <2>3, IssuanceAssumption
<1>6. ASSUME UNCHANGED <<count, next>>
      PROVE  /\ pc' = "arm" => StepsLeft' = base + k - 1
             /\ pc' = "selfcheck" => StepsLeft' = base + k - 2
             /\ pc' = "kick" => StepsLeft' = base + k - 3
             /\ pc' = "poll" => StepsLeft' = base + 2 * v + 1
             /\ pc' = "sleep" => StepsLeft' = base + 2 * v
  <2>1. (count + 1 - next)' = n + 1 /\ (count - next)' = n
    BY <1>1, <1>6
  <2>2. QED BY <1>2, <1>3, <2>1, NextFacts DEF Arms
<1>7. CASE AuthzOffers \/ Arm \/ SelfCheck
  <2>1. UNCHANGED <<count, next>>
    BY <1>7 DEF AuthzOffers, Arm, SelfCheck
  <2>2. \/ pc = "authz" /\ pc' = "arm"
        \/ pc = "arm" /\ pc' = "selfcheck"
        \/ pc = "selfcheck" /\ pc' = "kick"
    BY <1>7 DEF AuthzOffers, Arm, SelfCheck
  <2>3. QED BY <1>2, <1>4, <1>6, <2>1, <2>2
<1>8. CASE Kick
  <2>1. UNCHANGED <<count, next>> /\ pc = "kick" /\ pc' = "poll"
    BY <1>8 DEF Kick
  <2>2. PICK d \in 0..MaxLatency :
          clock' = clock + d /\ deadline' = clock + d + ChallengeTimeout
    BY <1>8 DEF Kick
  <2>3. v = ChallengeTimeout
    BY <1>3, <2>2, IssuanceAssumption DEF TicksLeft, IInv, TypeOK
  <2>4. QED BY <1>2, <1>4, <1>6, <2>1, <2>3
<1>9. CASE PollAgain
  <2>1. /\ UNCHANGED <<count, next, deadline>> /\ pc = "poll" /\ pc' = "sleep"
    BY <1>9 DEF PollAgain, Return
  <2>2. PICK d \in 0..MaxLatency : clock' = clock + d
    BY <1>9 DEF PollAgain, Answer, Elapse
  <2>3. v <= u
    BY <1>3, <2>1, <2>2, IssuanceAssumption DEF TicksLeft, IInv, TypeOK
  <2>4. QED BY <1>2, <1>4, <1>6, <2>1, <2>3
<1>10. CASE Sleep /\ pc = "sleep"
  <2>1. /\ UNCHANGED <<count, next, deadline>> /\ pc' = "poll"
        /\ clock' = clock + Interval /\ clock < deadline
    BY <1>10 DEF Sleep, IInv, PollInv
  <2>2. v < u
    BY <1>3, <2>1, IssuanceAssumption DEF TicksLeft, IInv, TypeOK
  <2>3. QED BY <1>2, <1>4, <1>6, <1>10, <2>1, <2>2
<1>11. QED BY <1>5, <1>7, <1>8, <1>9, <1>10

\* The finalize step and its poll loop.
LEMMA CloseShrinks ==
  ASSUME IInv, IInv', pc' # "done",
         \/ BuildCsr \/ Finalize \/ RefreshAgain \/ RefreshValid
         \/ (Sleep /\ pc = "nap")
  PROVE  StepsLeft' < StepsLeft
<1>1. PICK u \in Nat, v \in Nat : u = TicksLeft /\ v = TicksLeft'
  BY TicksFacts, NextFacts
<1>2. /\ FinalizeTimeout \in Nat /\ StepsToClose = 2 * FinalizeTimeout + 5
      /\ clock \in Nat /\ deadline \in Nat /\ Interval \in Nat \ {0}
      /\ MaxLatency \in Nat
  BY AheadFacts, IssuanceAssumption DEF IInv, TypeOK
<1>3. /\ pc = "csr" => StepsLeft = StepsToClose - 1
      /\ pc = "finalize" => StepsLeft = StepsToClose - 2
      /\ pc = "refresh" => StepsLeft = 2 * u + 2
      /\ pc = "nap" => StepsLeft = 2 * u + 1
  BY <1>1, StepsAt DEF Arms
<1>4. /\ pc' = "finalize" => StepsLeft' = StepsToClose - 2
      /\ pc' = "refresh" => StepsLeft' = 2 * v + 2
      /\ pc' = "nap" => StepsLeft' = 2 * v + 1
      /\ pc' = "download" => StepsLeft' = 1
  BY <1>1, NextFacts DEF Arms, StepsToClose
<1>5. CASE BuildCsr
  <2>1. pc = "csr" /\ pc' = "finalize"
    BY <1>5 DEF BuildCsr, CsrFails, Return
  <2>2. QED BY <1>2, <1>3, <1>4, <2>1
<1>6. CASE Finalize
  <2>1. pc = "finalize" /\ pc' = "refresh"
    BY <1>6 DEF Finalize
  <2>2. PICK d \in 0..MaxLatency :
          clock' = clock + d /\ deadline' = clock + d + FinalizeTimeout
    BY <1>6 DEF Finalize
  <2>3. v = FinalizeTimeout
    BY <1>1, <1>2, <2>2 DEF TicksLeft
  <2>4. QED BY <1>2, <1>3, <1>4, <2>1, <2>3
<1>7. CASE RefreshAgain
  <2>1. UNCHANGED deadline /\ pc = "refresh" /\ pc' = "nap"
    BY <1>7 DEF RefreshAgain, Return
  <2>2. PICK d \in 0..MaxLatency : clock' = clock + d
    BY <1>7 DEF RefreshAgain, Answer, Elapse
  <2>3. v <= u
    BY <1>1, <1>2, <2>1, <2>2 DEF TicksLeft
  <2>4. QED BY <1>3, <1>4, <2>1, <2>3
<1>8. CASE RefreshValid
  <2>1. pc = "refresh" /\ pc' = "download"
    BY <1>8 DEF RefreshValid, Return
  <2>2. QED BY <1>3, <1>4, <2>1
<1>9. CASE Sleep /\ pc = "nap"
  <2>1. /\ UNCHANGED deadline /\ pc' = "refresh"
        /\ clock' = clock + Interval /\ clock < deadline
    BY <1>9 DEF Sleep, IInv, PollInv
  <2>2. v < u
    BY <1>1, <1>2, <2>1 DEF TicksLeft
  <2>3. QED BY <1>3, <1>4, <1>9, <2>1, <2>2
<1>10. QED BY <1>5, <1>6, <1>7, <1>8, <1>9

\* What fails, times out or is refused returns.
LEMMA FailureReturns ==
  ASSUME \/ OrderFails \/ AuthzFails \/ SolverFails \/ KickFails \/ PollInvalid
         \/ PollFails \/ FinalizeFails \/ RefreshInvalid \/ RefreshFails
         \/ Download \/ DownloadFails
  PROVE  pc' = "done"
<1>1. CASE OrderFails \/ AuthzFails \/ SolverFails \/ KickFails \/ PollInvalid
  BY <1>1 DEF OrderFails, AuthzFails, SolverFails, KickFails, PollInvalid,
              FailWith, Return
<1>2. CASE \/ PollFails \/ FinalizeFails \/ RefreshInvalid \/ RefreshFails
           \/ Download \/ DownloadFails
  BY <1>2 DEF PollFails, FinalizeFails, RefreshInvalid, RefreshFails, Download,
              DownloadFails, FailWith, Return
<1>3. QED BY <1>1, <1>2

\* For any order, budgets, latencies and CA: every step of the call lowers the
\* number of steps it has left, which is finite from the start.
THEOREM CallShrinksHolds == Spec => CallShrinks
<1>1. IInv /\ IInv' /\ [Next]_vars => [StepsLeft' \in 0..(StepsLeft - 1)]_vars
  <2> SUFFICES ASSUME IInv, IInv', Next
               PROVE  StepsLeft' \in 0..(StepsLeft - 1)
    OBVIOUS
  <2>1. StepsLeft \in Nat /\ StepsLeft' \in Nat
    BY StepsLeftType, NextFacts DEF Remaining
  <2>2. pc # "done"
    BY DEF Next, FetchDirectory, CreateAccount, CreateOrder, OrderFails,
           AuthzValid, AuthzOffers, AuthzFails, Arm, SelfCheck, SolverFails,
           Kick, KickFails, PollValid, PollInvalid, PollAgain, PollFails, Sleep,
           AllAuthorized, BuildCsr, CsrFails, Finalize, FinalizeFails,
           RefreshValid, RefreshInvalid, RefreshAgain, RefreshFails, Download,
           DownloadFails
  <2>3. CASE pc' = "done"
    BY <2>1, <2>2, <2>3, ReturnShrinks
  <2>4. CASE pc' # "done"
    <3>1. CASE FetchDirectory \/ CreateAccount \/ CreateOrder \/ AllAuthorized
      BY <2>1, <2>4, <3>1, StartShrinks
    <3>2. CASE \/ AuthzValid \/ AuthzOffers \/ Arm \/ SelfCheck \/ Kick
               \/ PollValid \/ PollAgain \/ (Sleep /\ pc = "sleep")
      BY <2>1, <2>4, <3>2, DriveShrinks
    <3>3. CASE \/ BuildCsr \/ Finalize \/ RefreshAgain \/ RefreshValid
               \/ (Sleep /\ pc = "nap")
      BY <2>1, <2>4, <3>3, CloseShrinks
    <3>4. CASE Sleep
      BY <3>2, <3>3, <3>4 DEF Sleep
    <3>5. CASE \/ OrderFails \/ AuthzFails \/ SolverFails \/ KickFails
               \/ PollInvalid \/ PollFails \/ FinalizeFails \/ RefreshInvalid
               \/ RefreshFails \/ Download \/ DownloadFails
      BY <2>4, <3>5, FailureReturns
    <3>6. \/ FetchDirectory \/ CreateAccount \/ CreateOrder \/ AllAuthorized
          \/ AuthzValid \/ AuthzOffers \/ Arm \/ SelfCheck \/ Kick
          \/ PollValid \/ PollAgain \/ Sleep
          \/ BuildCsr \/ Finalize \/ RefreshAgain \/ RefreshValid
          \/ OrderFails \/ AuthzFails \/ SolverFails \/ KickFails
          \/ PollInvalid \/ PollFails \/ FinalizeFails \/ RefreshInvalid
          \/ RefreshFails \/ Download \/ DownloadFails
      BY DEF Next
    <3>7. QED BY <3>1, <3>2, <3>3, <3>4, <3>5, <3>6
  <2>5. QED BY <2>3, <2>4
<1>2. QED BY <1>1, InvariantHolds, PTL DEF Spec, CallShrinks
=============================================================================
