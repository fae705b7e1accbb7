----------------------------- MODULE NonceStore -----------------------------
(***************************************************************************)
(* ReplayNonceStore (src/crates/core/src/nonce.rs) shared, behind its Arc, *)
(* by threads that each run Account::post_kid (src/crates/core/src/        *)
(* account.rs): get a nonce, sign with it, POST, absorb the response.      *)
(*                                                                         *)
(* The mutex guards one pool operation at a time, never a whole get: it is *)
(* released between get's first pop and the HEAD, between refill's absorb  *)
(* and its emptiness check, and between that check and the second pop.     *)
(* Each of those is a step of its own here.                                *)
(***************************************************************************)
EXTENDS Naturals, Sequences, FiniteSets, Functions

CONSTANTS Threads,    \* the callers that share the store
          Nonces,     \* the nonces the CA may issue (bounds a TLC run)
          Empty,      \* a Replay-Nonce header whose value reads as ""
          None,       \* no nonce in hand
          MaxBurst    \* most Replay-Nonce headers on one response of any CA

ASSUME NonceStoreAssumption ==
  /\ IsFiniteSet(Threads)
  /\ MaxBurst \in Nat
  /\ Empty \notin Nonces
  /\ None \notin Nonces

VARIABLES burst,      \* most Replay-Nonce headers on one response of this CA
          pool,       \* FIFO of unused nonces
          pc,         \* where each thread is in post_kid
          values,     \* header values a thread has received, not yet absorbed
          hand,       \* the nonce a thread took and has not sent
          supplied,   \* history: the response to this get's HEAD had a nonce,
                      \* and nobody has called clear since
          issued,     \* history: nonces the CA has sent to this client
          spent       \* history: nonces signed into a request that was sent

vars == <<burst, pool, pc, values, hand, supplied, issued, spent>>

Locations == {"idle", "head", "refill", "retake", "sign", "posted", "absorb"}

\* The nonces a sequence of header values holds.
NoncesIn(s) == Range(s) \ {Empty}

\* The header values a response may carry: never-issued nonces, each once,
\* and unreadable headers, which the transport hands over as "".
Bursts == UNION {[1..k -> (Nonces \ issued) \cup {Empty}] : k \in 0..burst}
Fresh(s) == \A i, j \in DOMAIN s : s[i] = s[j] /\ s[i] # Empty => i = j

Init ==
  /\ burst \in 0..MaxBurst
  /\ pool = <<>>
  /\ pc = [t \in Threads |-> "idle"]
  /\ values = [t \in Threads |-> <<>>]
  /\ hand = [t \in Threads |-> None]
  /\ supplied = [t \in Threads |-> FALSE]
  /\ issued = {}
  /\ spent = {}

Goto(t, l) == pc' = [pc EXCEPT ![t] = l]

\* Mutant: front().cloned(), the nonce stays in the pool.
PopKeeps(t) ==
  /\ pool # <<>>
  /\ hand' = [hand EXCEPT ![t] = Head(pool)]
  /\ UNCHANGED pool
  /\ Goto(t, "sign")

\* pop_front under the lock: what get hands to its caller.
Pop(t) ==
  /\ pool # <<>>
  /\ hand' = [hand EXCEPT ![t] = Head(pool)]
  /\ pool' = Tail(pool)
  /\ Goto(t, "sign")

\* The request ends, with a response or with an error.
Return(t) ==
  /\ supplied' = [supplied EXCEPT ![t] = FALSE]
  /\ Goto(t, "idle")

\* A response with some Replay-Nonce headers arrives.
Receive(t, s) ==
  /\ Fresh(s)
  /\ values' = [values EXCEPT ![t] = s]
  /\ issued' = issued \cup NoncesIn(s)

-----------------------------------------------------------------------------
(* get: the first pop, and the HEAD when the pool was empty.               *)

GetPooled(t) ==
  /\ pc[t] = "idle"
  /\ Pop(t)
  /\ UNCHANGED <<values, supplied, issued, spent>>

\* Mutant: get refills whether or not the pool is empty.
GetAlwaysRefills(t) ==
  /\ pc[t] = "idle"
  /\ Goto(t, "head")
  /\ UNCHANGED <<pool, values, hand, supplied, issued, spent>>

GetMiss(t) ==
  /\ pc[t] = "idle"
  /\ pool = <<>>
  /\ Goto(t, "head")
  /\ UNCHANGED <<pool, values, hand, supplied, issued, spent>>

HeadReply(t) ==
  /\ pc[t] = "head"
  /\ \E s \in Bursts :
       /\ Receive(t, s)
       /\ supplied' = [supplied EXCEPT ![t] = NoncesIn(s) # {}]
  /\ Goto(t, "refill")
  /\ UNCHANGED <<pool, hand, spent>>

\* The transport fails or the CA answers with a status other than 2xx.
HeadFails(t) ==
  /\ pc[t] = "head"
  /\ Return(t)
  /\ UNCHANGED <<pool, values, hand, issued, spent>>

\* Mutant: a single slot instead of a queue.
AbsorbOverwrites(t) ==
  /\ pc[t] \in {"refill", "absorb"}
  /\ values[t] # <<>>
  /\ pool' = IF Head(values[t]) = Empty THEN pool ELSE <<Head(values[t])>>
  /\ values' = [values EXCEPT ![t] = Tail(@)]
  /\ UNCHANGED <<pc, hand, supplied, issued, spent>>

\* One turn of absorb's loop: the lock is taken for this value alone.
AbsorbValue(t) ==
  /\ pc[t] \in {"refill", "absorb"}
  /\ values[t] # <<>>
  /\ pool' = IF Head(values[t]) = Empty THEN pool
             ELSE Append(pool, Head(values[t]))
  /\ values' = [values EXCEPT ![t] = Tail(@)]
  /\ UNCHANGED <<pc, hand, supplied, issued, spent>>

\* refill looks at the pool again; by now it is not only this thread's.
RefillFound(t) ==
  /\ pc[t] = "refill"
  /\ values[t] = <<>>
  /\ pool # <<>>
  /\ Goto(t, "retake")
  /\ UNCHANGED <<pool, values, hand, supplied, issued, spent>>

\* Mutant: an empty pool sends another HEAD instead of failing.
RefillRetries(t) ==
  /\ pc[t] = "refill"
  /\ values[t] = <<>>
  /\ pool = <<>>
  /\ Goto(t, "head")
  /\ UNCHANGED <<pool, values, hand, supplied, issued, spent>>

\* Err(MissingField), from refill's check or from the second pop.
RefillEmpty(t) ==
  /\ pc[t] = "refill"
  /\ values[t] = <<>>
  /\ pool = <<>>
  /\ Return(t)
  /\ UNCHANGED <<pool, values, hand, issued, spent>>

RetakePooled(t) ==
  /\ pc[t] = "retake"
  /\ Pop(t)
  /\ UNCHANGED <<values, supplied, issued, spent>>

RetakeMiss(t) ==
  /\ pc[t] = "retake"
  /\ pool = <<>>
  /\ Return(t)
  /\ UNCHANGED <<pool, values, hand, issued, spent>>

-----------------------------------------------------------------------------
(* The rest of post_kid.                                                   *)

Release(t) == hand' = [hand EXCEPT ![t] = None]

SignAndPost(t) ==
  /\ pc[t] = "sign"
  /\ spent' = spent \cup {hand[t]}
  /\ Release(t)
  /\ Goto(t, "posted")
  /\ UNCHANGED <<pool, values, supplied, issued>>

\* Signing fails after the nonce left the pool: the nonce is lost.
SignFails(t) ==
  /\ pc[t] = "sign"
  /\ Release(t)
  /\ Return(t)
  /\ UNCHANGED <<pool, values, issued, spent>>

\* Any response, error statuses included, is absorbed.
PostReply(t) ==
  /\ pc[t] = "posted"
  /\ \E s \in Bursts : Receive(t, s)
  /\ Goto(t, "absorb")
  /\ UNCHANGED <<pool, hand, supplied, spent>>

PostFails(t) ==
  /\ pc[t] = "posted"
  /\ Return(t)
  /\ UNCHANGED <<pool, values, hand, issued, spent>>

PostDone(t) ==
  /\ pc[t] = "absorb"
  /\ values[t] = <<>>
  /\ Return(t)
  /\ UNCHANGED <<pool, values, hand, issued, spent>>

-----------------------------------------------------------------------------

\* clear, which any holder of the store may call at any time, though nothing in
\* the repository does.
Clear ==
  /\ pool' = <<>>
  /\ supplied' = [t \in Threads |-> FALSE]
  /\ UNCHANGED <<burst, pc, values, hand, issued, spent>>

\* A caller starts a request when it likes ...
Start(t) ==
  /\ GetPooled(t) \/ GetMiss(t)
  /\ UNCHANGED burst

\* ... and post_kid then runs to its end.
Step(t) ==
  /\ \/ HeadReply(t) \/ HeadFails(t) \/ AbsorbValue(t)
     \/ RefillFound(t) \/ RefillEmpty(t) \/ RetakePooled(t) \/ RetakeMiss(t)
     \/ SignAndPost(t) \/ SignFails(t)
     \/ PostReply(t) \/ PostFails(t) \/ PostDone(t)
  /\ UNCHANGED burst

Next == Clear \/ \E t \in Threads : Start(t) \/ Step(t)

\* The scheduler runs every thread and the transport answers or fails (the
\* blocking client has a request timeout); nobody has to start a request.
Fairness == \A t \in Threads : WF_vars(Step(t))

Spec == Init /\ [][Next]_vars
FairSpec == Spec /\ Fairness

-----------------------------------------------------------------------------
(* Properties.                                                             *)

\* The type of every variable: only nonces the CA has sent are anywhere, and a
\* thread has one in hand, or values to absorb, at the matching steps only.
TypeOK ==
  /\ burst \in 0..MaxBurst
  /\ pool \in Seq(issued)
  /\ pc \in [Threads -> Locations]
  /\ values \in [Threads -> Seq(issued \cup {Empty})]
  /\ hand \in [Threads -> issued \cup {None}]
  /\ supplied \in [Threads -> BOOLEAN]
  /\ issued \in SUBSET Nonces
  /\ spent \in SUBSET issued
  /\ \A t \in Threads : hand[t] # None <=> pc[t] = "sign"
  /\ \A t \in Threads : values[t] # <<>> => pc[t] \in {"refill", "absorb"}

\* The nonces a thread has received or taken, and not put back or sent.
Claims(t) == NoncesIn(values[t]) \cup ({hand[t]} \ {None})

\* Two threads, or a thread and the pool, never hold the same nonce, and none
\* of them holds one that a request has carried: however the lock's sections
\* interleave, pop_front and push_back (nonce.rs:89, 103) keep every nonce in
\* one place.
OnePlace ==
  /\ Fresh(pool)
  /\ \A t \in Threads : Fresh(values[t])
  /\ \A t, u \in Threads : t # u => Claims(t) \cap Claims(u) = {}
  /\ \A t \in Threads : Claims(t) \cap (Range(pool) \cup spent) = {}
  /\ Range(pool) \cap spent = {}

\* RFC 8555 6.5, nonce.rs:3-5: no two requests carry the same nonce.
NoReplay ==
  [][\A t \in Threads : pc[t] = "sign" /\ pc'[t] = "posted"
                          => hand[t] \notin spent]_vars

\* nonce.rs:36-44: a nonce the CA sent is absorbed, used by one request and
\* never returns; only a request that fails to sign, or clear, loses one.
Stage(n) ==
  IF n \notin issued THEN "unissued"
  ELSE IF n \in spent THEN "spent"
  ELSE IF n \in Range(hand) THEN "held"
  ELSE IF n \in Range(pool) THEN "pooled"
  ELSE IF \E t \in Threads : n \in Range(values[t]) THEN "offered"
  ELSE "dropped"

Lifecycle == INSTANCE NonceLifecycle WITH stage <- [n \in Nonces |-> Stage(n)]

LifecycleImplemented == Lifecycle!Spec

\* A CA that sends one nonce per response leaves no more of them with the
\* client than there are threads: each HEAD is paid for by an empty pool, so
\* the queue of nonce.rs:43, which nothing trims, cannot grow without bound.
OwesOrHolds(t) ==
  pc[t] \in {"head", "sign", "posted"} \/ values[t] # <<>>

PoolBounded ==
  burst <= 1 =>
    Len(pool) + Cardinality({t \in Threads : OwesOrHolds(t)})
      <= Cardinality(Threads)

\* nonce.rs:24-25: get returns a nonce, fetching one when the pool is empty: it
\* does not report a missing Replay-Nonce when its HEAD brought one and nobody
\* has cleared the pool since.
SuppliedGetSucceeds ==
  [][\A t \in Threads : pc[t] \in {"refill", "retake"} /\ pc'[t] = "idle"
                          => ~supplied[t]]_vars

\* Steps a thread's request can still take: a value to absorb costs one, and
\* so does each of the places in post_kid ahead of it.
StepsLeft(t) ==
  CASE pc[t] = "head"   -> 2 * burst + 6
    [] pc[t] = "refill" -> Len(values[t]) + burst + 5
    [] pc[t] = "retake" -> burst + 4
    [] pc[t] = "sign"   -> burst + 3
    [] pc[t] = "posted" -> burst + 2
    [] pc[t] = "absorb" -> Len(values[t]) + 1
    [] pc[t] = "idle"   -> 0

\* nonce.rs:61-91: whatever the other threads take from the pool, or clear
\* throws away, no step of theirs sends a request back, and each of its own
\* brings its end nearer: get does not loop until it wins a nonce.
RequestShrinks ==
  [][\A t \in Threads :
       \/ pc[t] = "idle"
       \/ UNCHANGED <<pc[t], values[t], hand[t]>>
       \/ StepsLeft(t)' \in 0..(StepsLeft(t) - 1)]_vars

\* get never waits for another thread's nonce and never retries: whatever the
\* others take from the pool, every request that starts also ends.
RequestEnds == \A t \in Threads : pc[t] # "idle" ~> pc[t] = "idle"
=============================================================================
