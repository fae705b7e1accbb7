-------------------------- MODULE NonceStoreProofs --------------------------
(***************************************************************************)
(* For any threads, nonces and burst size: NonceStore keeps every nonce in *)
(* one place, never signs two requests with the same nonce, and implements *)
(* NonceLifecycle.                                                         *)
(***************************************************************************)
EXTENDS NonceStore, FiniteSetTheorems, TLAPS

-----------------------------------------------------------------------------
(* Facts on the sequences of nonces.                                       *)

\* Appending a value adds it to the range, and a new one keeps it Fresh.
LEMMA AppendFacts ==
  ASSUME NEW S, NEW s \in Seq(S), NEW e \in S
  PROVE  /\ Append(s, e) \in Seq(S)
         /\ Range(Append(s, e)) = Range(s) \cup {e}
         /\ Fresh(s) /\ e \notin Range(s) => Fresh(Append(s, e))
<1>1. /\ Append(s, e) \in Seq(S)
      /\ DOMAIN s = 1..Len(s)
      /\ DOMAIN Append(s, e) = 1..(Len(s) + 1)
      /\ Len(s) \in Nat
  OBVIOUS
<1>2. \A i \in 1..(Len(s) + 1) :
        Append(s, e)[i] = IF i = Len(s) + 1 THEN e ELSE s[i]
  OBVIOUS
<1>3. Range(Append(s, e)) = Range(s) \cup {e}
  BY <1>1, <1>2 DEF Range
<1>4. Fresh(s) /\ e \notin Range(s) => Fresh(Append(s, e))
  BY <1>1, <1>2 DEF Fresh, Range
<1>5. QED BY <1>1, <1>3, <1>4

\* Removing the head of a Fresh sequence removes that value from its range.
LEMMA TailFacts ==
  ASSUME NEW S, NEW s \in Seq(S), s # <<>>
  PROVE  /\ Head(s) \in S
         /\ Tail(s) \in Seq(S)
         /\ Range(s) = Range(Tail(s)) \cup {Head(s)}
         /\ Fresh(s) => Fresh(Tail(s))
         /\ Fresh(s) /\ Head(s) # Empty => Head(s) \notin Range(Tail(s))
<1>1. /\ Len(s) \in Nat /\ Len(s) > 0
      /\ DOMAIN s = 1..Len(s)
      /\ Head(s) = s[1] /\ Head(s) \in S
      /\ Tail(s) \in Seq(S)
      /\ DOMAIN Tail(s) = 1..(Len(s) - 1)
  OBVIOUS
<1>2. \A i \in 1..(Len(s) - 1) : Tail(s)[i] = s[i + 1]
  OBVIOUS
<1>3. Range(s) = Range(Tail(s)) \cup {Head(s)}
  <2>1. ASSUME NEW i \in 1..Len(s)
        PROVE  s[i] \in Range(Tail(s)) \cup {Head(s)}
    <3>1. CASE i = 1
      BY <1>1, <3>1
    <3>2. CASE i # 1
      <4>1. i - 1 \in 1..(Len(s) - 1) /\ s[i] = Tail(s)[i - 1]
        BY <1>1, <1>2, <3>2
      <4>2. QED BY <1>1, <4>1 DEF Range
    <3>3. QED BY <3>1, <3>2
  <2>2. ASSUME NEW i \in 1..(Len(s) - 1)
        PROVE  Tail(s)[i] \in Range(s)
    <3>1. i + 1 \in 1..Len(s) /\ Tail(s)[i] = s[i + 1]
      BY <1>1, <1>2
    <3>2. QED BY <1>1, <3>1 DEF Range
  <2>3. Head(s) \in Range(s)
    BY <1>1 DEF Range
  <2>4. QED BY <1>1, <2>1, <2>2, <2>3 DEF Range
<1>4. Fresh(s) => Fresh(Tail(s))
  BY <1>1, <1>2 DEF Fresh
<1>5. Fresh(s) /\ Head(s) # Empty => Head(s) \notin Range(Tail(s))
  BY <1>1, <1>2 DEF Fresh, Range
<1>6. QED BY <1>1, <1>3, <1>4, <1>5

\* The empty sequence.
LEMMA EmptyFacts ==
  Range(<<>>) = {} /\ NoncesIn(<<>>) = {} /\ Fresh(<<>>)
BY DEF Range, NoncesIn, Fresh

\* A burst holds nonces that were never issued, and unreadable values.
LEMMA BurstFacts ==
  ASSUME NEW s \in Bursts, issued \subseteq Nonces, burst \in 0..MaxBurst
  PROVE  /\ NoncesIn(s) \subseteq Nonces \ issued
         /\ s \in Seq(issued \cup NoncesIn(s) \cup {Empty})
<1>1. PICK k \in 0..burst : s \in [1..k -> (Nonces \ issued) \cup {Empty}]
  BY DEF Bursts
<1>2. NoncesIn(s) \subseteq Nonces \ issued
  BY <1>1 DEF NoncesIn, Range
<1>3. k \in Nat
  BY NonceStoreAssumption
<1>4. s \in [1..k -> NoncesIn(s) \cup {Empty}]
  BY <1>1 DEF NoncesIn, Range
<1>5. s \in Seq(issued \cup NoncesIn(s) \cup {Empty})
  BY <1>3, <1>4
<1>6. QED BY <1>2, <1>5

-----------------------------------------------------------------------------
(* Each kind of step keeps TypeOK and OnePlace.                            *)

\* get's two pops: the head of the pool moves to the thread's hand.
LEMMA PopKeepsOnePlace ==
  ASSUME TypeOK, OnePlace, NEW t \in Threads,
         pc[t] \in {"idle", "retake"}, Pop(t),
         UNCHANGED <<burst, values, supplied, issued, spent>>
  PROVE  TypeOK' /\ OnePlace'
<1> DEFINE n == Head(pool)
<1>1. /\ n \in issued /\ n # None /\ n # Empty
      /\ pool' \in Seq(issued)
      /\ Range(pool) = Range(pool') \cup {n}
      /\ Fresh(pool')
      /\ n \notin Range(pool')
  <2>1. n \in issued /\ n # Empty
    BY TailFacts, NonceStoreAssumption DEF Pop, TypeOK
  <2>2. QED
    BY <2>1, TailFacts, NonceStoreAssumption DEF Pop, TypeOK, OnePlace
<1>2. TypeOK'
  BY <1>1 DEF TypeOK, Pop, Goto, Locations
<1>3. hand[t] = None /\ values[t] = <<>>
  BY DEF TypeOK
<1>4. /\ Claims(t)' = {n}
      /\ \A u \in Threads : u # t => Claims(u)' = Claims(u)
  BY <1>1, <1>3, EmptyFacts DEF Claims, Pop, TypeOK
<1>5. \A u \in Threads : n \notin Claims(u)
  BY <1>1 DEF OnePlace
<1>6. n \notin spent
  BY <1>1 DEF OnePlace
<1>7. OnePlace'
  BY <1>1, <1>4, <1>5, <1>6 DEF OnePlace
<1>8. QED BY <1>2, <1>7

\* A response arrives: its nonces were nowhere.
LEMMA ReceiveKeepsOnePlace ==
  ASSUME TypeOK, OnePlace, NEW t \in Threads, NEW s \in Bursts,
         pc[t] \in {"head", "posted"}, Receive(t, s),
         pc' \in [Threads -> Locations],
         pc'[t] \in {"refill", "absorb"},
         \A u \in Threads : u # t => pc'[u] = pc[u],
         supplied' \in [Threads -> BOOLEAN],
         UNCHANGED <<burst, pool, hand, spent>>
  PROVE  TypeOK' /\ OnePlace'
<1>1. /\ NoncesIn(s) \subseteq Nonces \ issued
      /\ s \in Seq(issued' \cup {Empty})
      /\ issued' = issued \cup NoncesIn(s)
      /\ Fresh(s)
  BY BurstFacts DEF TypeOK, Receive
<1>2. /\ \A S : Seq(issued) \subseteq Seq(issued')
      /\ Seq(issued \cup {Empty}) \subseteq Seq(issued' \cup {Empty})
  BY <1>1
<1>3. TypeOK'
  BY <1>1, <1>2 DEF TypeOK, Receive
<1>4. hand[t] = None
  BY DEF TypeOK
<1>5. /\ Claims(t)' = NoncesIn(s)
      /\ \A u \in Threads : u # t => Claims(u)' = Claims(u)
  BY <1>4 DEF Claims, Receive, TypeOK
<1>6. /\ \A u \in Threads : Claims(u) \subseteq issued
      /\ Range(pool) \subseteq issued
      /\ spent \subseteq issued
  BY DEF TypeOK, Claims, NoncesIn, Range
<1>7. \A u \in Threads : Fresh(values'[u])
  BY <1>1 DEF OnePlace, Receive, TypeOK
<1>8. OnePlace'
  BY <1>1, <1>5, <1>6, <1>7 DEF OnePlace
<1>9. QED BY <1>3, <1>8

\* A value moves from a response to the pool, or is skipped.
LEMMA AbsorbKeepsOnePlace ==
  ASSUME TypeOK, OnePlace, NEW t \in Threads, AbsorbValue(t), UNCHANGED burst
  PROVE  TypeOK' /\ OnePlace'
<1> DEFINE v == Head(values[t])
<1>1. /\ v \in issued \cup {Empty}
      /\ Tail(values[t]) \in Seq(issued \cup {Empty})
      /\ Range(values[t]) = Range(Tail(values[t])) \cup {v}
      /\ Fresh(Tail(values[t]))
      /\ v # Empty => v \notin Range(Tail(values[t]))
  BY TailFacts DEF AbsorbValue, TypeOK, OnePlace
<1>2. /\ hand[t] = None
      /\ v # Empty => v \in Claims(t)
      /\ Claims(t)' = Claims(t) \ {v}
      /\ \A u \in Threads : u # t => Claims(u)' = Claims(u)
  BY <1>1 DEF Claims, NoncesIn, AbsorbValue, TypeOK
<1>3. CASE v = Empty
  <2>1. UNCHANGED pool
    BY <1>3 DEF AbsorbValue
  <2>2. TypeOK'
    BY <1>1, <2>1 DEF TypeOK, AbsorbValue
  <2>3. \A u \in Threads : Fresh(values'[u])
    BY <1>1 DEF OnePlace, AbsorbValue, TypeOK
  <2>4. OnePlace'
    BY <1>2, <2>1, <2>3 DEF OnePlace, AbsorbValue
  <2>5. QED BY <2>2, <2>4
<1>4. CASE v # Empty
  <2>1. /\ v \in issued /\ v \notin Range(pool) /\ v \notin spent
        /\ \A u \in Threads : u # t => v \notin Claims(u)
    BY <1>1, <1>2, <1>4 DEF OnePlace
  <2>2. /\ pool' \in Seq(issued)
        /\ Range(pool') = Range(pool) \cup {v}
        /\ Fresh(pool')
    BY <1>4, <2>1, AppendFacts DEF AbsorbValue, TypeOK, OnePlace
  <2>3. TypeOK'
    BY <1>1, <2>2 DEF TypeOK, AbsorbValue
  <2>4. \A u \in Threads : Fresh(values'[u])
    BY <1>1 DEF OnePlace, AbsorbValue, TypeOK
  <2>5. OnePlace'
    BY <1>2, <2>1, <2>2, <2>4 DEF OnePlace, AbsorbValue
  <2>6. QED BY <2>3, <2>5
<1>5. QED BY <1>3, <1>4

\* A thread gives up its nonce: sent, or lost to a signing error.
LEMMA ReleaseKeepsOnePlace ==
  ASSUME TypeOK, OnePlace, NEW t \in Threads,
         SignAndPost(t) \/ SignFails(t), UNCHANGED burst
  PROVE  TypeOK' /\ OnePlace'
<1>1. /\ hand[t] \in issued /\ hand[t] # None
      /\ values[t] = <<>>
  BY DEF TypeOK, SignAndPost, SignFails
<1>2. TypeOK'
  BY <1>1 DEF TypeOK, SignAndPost, SignFails, Release, Return, Goto, Locations
<1>3. /\ Claims(t) = {hand[t]}
      /\ Claims(t)' = {}
      /\ \A u \in Threads : u # t => Claims(u)' = Claims(u)
      /\ spent' \subseteq spent \cup {hand[t]}
  BY <1>1, EmptyFacts DEF Claims, SignAndPost, SignFails, Release, TypeOK
<1>4. UNCHANGED <<pool, values>>
  BY DEF SignAndPost, SignFails
<1>5. hand[t] \notin Range(pool)
  BY <1>3 DEF OnePlace
<1>6. OnePlace'
  BY <1>3, <1>4, <1>5 DEF OnePlace
<1>7. QED BY <1>2, <1>6

\* The other steps move no nonce.
LEMMA MoveKeepsOnePlace ==
  ASSUME TypeOK, OnePlace, NEW t \in Threads,
         \/ GetMiss(t) \/ HeadFails(t) \/ RefillFound(t) \/ RefillEmpty(t)
         \/ RetakeMiss(t) \/ PostFails(t) \/ PostDone(t),
         UNCHANGED burst
  PROVE  TypeOK' /\ OnePlace'
<1>1. UNCHANGED <<pool, values, hand, issued, spent>>
  BY DEF GetMiss, HeadFails, RefillFound, RefillEmpty, RetakeMiss, PostFails,
         PostDone
<1>2. TypeOK'
  BY <1>1 DEF TypeOK, GetMiss, HeadFails, RefillFound, RefillEmpty, RetakeMiss,
              PostFails, PostDone, Return, Goto, Locations
<1>3. OnePlace'
  BY <1>1 DEF OnePlace, Claims
<1>4. QED BY <1>2, <1>3

\* clear empties the pool and leaves every hand and response as it was.
LEMMA ClearKeepsOnePlace ==
  ASSUME TypeOK, OnePlace, Clear
  PROVE  TypeOK' /\ OnePlace'
<1>1. /\ pool' = <<>>
      /\ supplied' \in [Threads -> BOOLEAN]
      /\ UNCHANGED <<burst, pc, values, hand, issued, spent>>
  BY DEF Clear
<1>2. TypeOK'
  BY <1>1 DEF TypeOK
<1>3. OnePlace'
  BY <1>1, EmptyFacts DEF OnePlace, Claims
<1>4. QED BY <1>2, <1>3

-----------------------------------------------------------------------------
(* The theorems.                                                           *)

LEMMA InitOnePlace == Init => TypeOK /\ OnePlace
<1>1. Init => TypeOK
  BY DEF Init, TypeOK, Locations
<1>2. Init => OnePlace
  BY EmptyFacts DEF Init, OnePlace, Claims
<1>3. QED BY <1>1, <1>2

LEMMA NextOnePlace == TypeOK /\ OnePlace /\ [Next]_vars => TypeOK' /\ OnePlace'
<1> SUFFICES ASSUME TypeOK, OnePlace, [Next]_vars
             PROVE  TypeOK' /\ OnePlace'
  OBVIOUS
<1>1. CASE UNCHANGED vars
  BY <1>1 DEF vars, TypeOK, OnePlace, Claims
<1>2. ASSUME NEW t \in Threads, Start(t) \/ Step(t)
      PROVE  TypeOK' /\ OnePlace'
  <2>0. UNCHANGED burst
    BY <1>2 DEF Start, Step
  <2>1. CASE GetPooled(t) \/ RetakePooled(t)
    BY <2>0, <2>1, PopKeepsOnePlace DEF GetPooled, RetakePooled
  <2>2. CASE HeadReply(t)
    <3>1. PICK s \in Bursts : Receive(t, s)
      BY <2>2 DEF HeadReply
    <3>2. /\ pc[t] = "head" /\ pc'[t] = "refill"
          /\ pc' \in [Threads -> Locations]
          /\ \A u \in Threads : u # t => pc'[u] = pc[u]
          /\ supplied' \in [Threads -> BOOLEAN]
          /\ UNCHANGED <<burst, pool, hand, spent>>
      BY <1>2, <2>2 DEF Start, Step, HeadReply, Goto, TypeOK, Locations
    <3>3. QED BY <3>1, <3>2, ReceiveKeepsOnePlace
  <2>3. CASE PostReply(t)
    <3>1. PICK s \in Bursts : Receive(t, s)
      BY <2>3 DEF PostReply
    <3>2. /\ pc[t] = "posted" /\ pc'[t] = "absorb"
          /\ pc' \in [Threads -> Locations]
          /\ \A u \in Threads : u # t => pc'[u] = pc[u]
          /\ supplied' \in [Threads -> BOOLEAN]
          /\ UNCHANGED <<burst, pool, hand, spent>>
      BY <1>2, <2>3 DEF Start, Step, PostReply, Goto, TypeOK, Locations
    <3>3. QED BY <3>1, <3>2, ReceiveKeepsOnePlace
  <2>4. CASE AbsorbValue(t)
    BY <2>0, <2>4, AbsorbKeepsOnePlace
  <2>5. CASE SignAndPost(t) \/ SignFails(t)
    BY <2>0, <2>5, ReleaseKeepsOnePlace
  <2>6. CASE \/ GetMiss(t) \/ HeadFails(t) \/ RefillFound(t) \/ RefillEmpty(t)
             \/ RetakeMiss(t) \/ PostFails(t) \/ PostDone(t)
    BY <2>0, <2>6, MoveKeepsOnePlace
  <2>7. QED BY <1>2, <2>1, <2>2, <2>3, <2>4, <2>5, <2>6 DEF Start, Step
<1>3. QED BY <1>1, <1>2, ClearKeepsOnePlace DEF Next

\* Every variable keeps its type in every reachable state.
THEOREM TypeCorrect == Spec => []TypeOK
<1>1. QED BY InitOnePlace, NextOnePlace, PTL DEF Spec

\* However the threads interleave, a nonce is in one place: nonce.rs never
\* hands the same nonce to two requests.
THEOREM OnePlaceHolds == Spec => []OnePlace
<1>1. QED BY InitOnePlace, NextOnePlace, PTL DEF Spec

\* No request is signed with a nonce that an earlier one carried.
THEOREM NoReplayHolds == Spec => NoReplay
<1>1. TypeOK /\ OnePlace /\ [Next]_vars =>
        [\A t \in Threads : pc[t] = "sign" /\ pc'[t] = "posted"
                               => hand[t] \notin spent]_vars
  <2>1. ASSUME TypeOK, OnePlace, NEW t \in Threads, pc[t] = "sign"
        PROVE  hand[t] \notin spent
    BY <2>1 DEF TypeOK, OnePlace, Claims
  <2>2. QED BY <2>1
<1>2. QED BY <1>1, TypeCorrect, OnePlaceHolds, PTL DEF Spec, NoReplay

-----------------------------------------------------------------------------
(* The refinement: every step moves nonces one stage on, or none.          *)

\* A step that changes the stage of the nonces ns only, and from one stage
\* to the next, is a step of the abstract specification.
LEMMA MovedIfStaged ==
  ASSUME NEW ns \in SUBSET Nonces, NEW CONSTANT from, NEW CONSTANT to,
         \A n \in ns : Stage(n) = from /\ Stage(n)' = to,
         \A n \in Nonces \ ns : Stage(n)' = Stage(n)
  PROVE  Lifecycle!Moved(ns, from, to)
BY DEF Lifecycle!Moved

\* What decides the stage of a nonce.
LEMMA StageSame ==
  ASSUME NEW n \in Nonces,
         n \in issued' <=> n \in issued,
         n \in spent' <=> n \in spent,
         n \in Range(hand') <=> n \in Range(hand),
         n \in Range(pool') <=> n \in Range(pool),
         (\E t \in Threads : n \in Range(values'[t]))
           <=> (\E t \in Threads : n \in Range(values[t]))
  PROVE  Stage(n)' = Stage(n)
BY DEF Stage

\* In a typed state a nonce is in a hand, a pool or a response only once the
\* CA has issued it, and a nonce of Nonces is a thread's claim exactly when
\* it is in its hand or among its values.
LEMMA Whereabouts ==
  ASSUME TypeOK, OnePlace, NEW n \in Nonces
  PROVE  /\ n \in Range(hand) <=> \E t \in Threads : hand[t] = n
         /\ \A t \in Threads :
              n \in Claims(t) <=> n \in Range(values[t]) \/ hand[t] = n
         /\ \A t, u \in Threads : t # u => n \notin Claims(t) \/ n \notin Claims(u)
         /\ \A t \in Threads : n \in Claims(t) =>
              n \in issued /\ n \notin spent /\ n \notin Range(pool)
         /\ n \in Range(pool) => n \in issued /\ n \notin spent
<1>1. n # Empty /\ n # None
  BY NonceStoreAssumption
<1>2. n \in Range(hand) <=> \E t \in Threads : hand[t] = n
  BY DEF Range, TypeOK
<1>3. \A t \in Threads :
        n \in Claims(t) <=> n \in Range(values[t]) \/ hand[t] = n
  BY <1>1 DEF Claims, NoncesIn
<1>4. \A t \in Threads : n \in Claims(t) => n \in issued
  BY <1>1 DEF Claims, NoncesIn, Range, TypeOK
<1>5. n \in Range(pool) => n \in issued
  BY DEF Range, TypeOK
<1>6. QED BY <1>2, <1>3, <1>4, <1>5 DEF OnePlace

LEMMA PopTakes ==
  ASSUME TypeOK, OnePlace, NEW t \in Threads,
         pc[t] \in {"idle", "retake"}, Pop(t),
         UNCHANGED <<values, supplied, issued, spent>>
  PROVE  Lifecycle!Take
<1>0. PICK n : n = Head(pool)
  OBVIOUS
<1>1. /\ n \in issued /\ n \in Nonces /\ n # Empty
      /\ n \in Range(pool)
  BY <1>0, TailFacts, NonceStoreAssumption DEF Pop, TypeOK
<1>2. /\ Range(pool) = Range(pool') \cup {n}
      /\ n \notin Range(pool')
  BY <1>0, <1>1, TailFacts DEF Pop, TypeOK, OnePlace
<1>3. /\ hand[t] = None
      /\ hand'[t] = n
      /\ \A u \in Threads : u # t => hand'[u] = hand[u]
      /\ hand' \in [Threads -> issued \cup {None}]
  BY <1>0, <1>1 DEF Pop, TypeOK
<1>4. \A m \in Nonces : m \in Range(hand') <=> \E u \in Threads : hand'[u] = m
  BY <1>3 DEF Range
<1>5. Stage(n) = "pooled"
  BY <1>1, Whereabouts DEF Stage
<1>6. Stage(n)' = "held"
  BY <1>1, <1>3, <1>4, Whereabouts DEF Stage
<1>7. ASSUME NEW m \in Nonces \ {n}
      PROVE  Stage(m)' = Stage(m)
  <2>1. m # None
    BY NonceStoreAssumption
  <2>2. m \in Range(hand') <=> m \in Range(hand)
    BY <1>3, <1>4, <2>1, Whereabouts
  <2>3. QED BY <1>2, <2>2, StageSame
<1>8. Lifecycle!Moved({n}, "pooled", "held")
  BY <1>1, <1>5, <1>6, <1>7, MovedIfStaged
<1>9. QED BY <1>1, <1>8 DEF Lifecycle!Take

LEMMA ReceiveOffers ==
  ASSUME TypeOK, OnePlace, NEW t \in Threads, NEW s \in Bursts,
         pc[t] \in {"head", "posted"}, Receive(t, s),
         UNCHANGED <<pool, hand, spent>>
  PROVE  Lifecycle!Offer
<1> DEFINE ns == NoncesIn(s)
<1>1. /\ ns \subseteq Nonces \ issued
      /\ issued' = issued \cup ns
      /\ values'[t] = s /\ values[t] = <<>>
      /\ \A u \in Threads : u # t => values'[u] = values[u]
  BY BurstFacts DEF TypeOK, Receive
<1>2. \A m \in Nonces : m \in Range(s) <=> m \in ns
  BY NonceStoreAssumption DEF NoncesIn
<1>3. ASSUME NEW n \in ns
      PROVE  Stage(n) = "unissued" /\ Stage(n)' = "offered"
  <2>1. n \in Nonces /\ n \notin issued
    BY <1>1
  <2>2. n \notin spent /\ n \notin Range(hand) /\ n \notin Range(pool)
    BY <2>1, Whereabouts DEF TypeOK
  <2>3. n \in issued' /\ \E u \in Threads : n \in Range(values'[u])
    BY <1>1, <1>2, <2>1
  <2>4. QED BY <2>1, <2>2, <2>3 DEF Stage
<1>4. ASSUME NEW m \in Nonces \ ns
      PROVE  Stage(m)' = Stage(m)
  <2>1. m \notin Range(s) /\ m \notin Range(<<>>)
    BY <1>2, EmptyFacts
  <2>2. QED BY <1>1, <2>1, StageSame
<1>5. ns \in SUBSET Nonces
  BY <1>1
<1>6. Lifecycle!Moved(ns, "unissued", "offered")
  BY <1>3, <1>4, <1>5, MovedIfStaged
<1>7. QED BY <1>5, <1>6 DEF Lifecycle!Offer

LEMMA AbsorbPools ==
  ASSUME TypeOK, OnePlace, NEW t \in Threads, AbsorbValue(t)
  PROVE  Lifecycle!Pool \/ \A n \in Nonces : Stage(n)' = Stage(n)
<1>0. PICK v : v = Head(values[t])
  OBVIOUS
<1>1. /\ v \in issued \cup {Empty}
      /\ Range(values[t]) = Range(Tail(values[t])) \cup {v}
      /\ v # Empty => v \notin Range(Tail(values[t]))
  BY <1>0, TailFacts DEF AbsorbValue, TypeOK, OnePlace
<1>2. /\ values'[t] = Tail(values[t])
      /\ \A u \in Threads : u # t => values'[u] = values[u]
      /\ UNCHANGED <<hand, issued, spent>>
  BY DEF AbsorbValue, TypeOK
<1>3. ASSUME NEW m \in Nonces \ {v}
      PROVE  (\E u \in Threads : m \in Range(values'[u]))
               <=> (\E u \in Threads : m \in Range(values[u]))
  BY <1>1, <1>2
<1>4. CASE v = Empty
  <2>1. UNCHANGED pool /\ v \notin Nonces
    BY <1>0, <1>4, NonceStoreAssumption DEF AbsorbValue
  <2>2. QED BY <1>2, <1>3, <2>1, StageSame
<1>5. CASE v # Empty
  <2>1. v \in Nonces /\ v \in Claims(t)
    BY <1>1, <1>5, Whereabouts DEF TypeOK
  <2>2. Range(pool') = Range(pool) \cup {v}
    BY <1>0, <1>1, <1>5, AppendFacts DEF AbsorbValue, TypeOK
  <2>3. hand[t] = None /\ v # None
    BY <2>1, NonceStoreAssumption DEF TypeOK, AbsorbValue
  <2>4. v \notin Range(hand)
    BY <2>1, <2>3, Whereabouts
  <2>5. /\ v \in issued /\ v \notin spent /\ v \notin Range(pool)
        /\ v \in Range(values[t])
    BY <1>1, <2>1, Whereabouts
  <2>6. Stage(v) = "offered"
    BY <2>4, <2>5 DEF Stage
  <2>7. Stage(v)' = "pooled"
    BY <1>2, <2>2, <2>4, <2>5 DEF Stage
  <2>8. ASSUME NEW m \in Nonces \ {v}
        PROVE  Stage(m)' = Stage(m)
    BY <1>2, <1>3, <2>2, <2>8, StageSame
  <2>9. Lifecycle!Moved({v}, "offered", "pooled")
    BY <2>1, <2>6, <2>7, <2>8, MovedIfStaged
  <2>10. QED BY <2>1, <2>9 DEF Lifecycle!Pool
<1>6. QED BY <1>4, <1>5

LEMMA ReleaseSpends ==
  ASSUME TypeOK, OnePlace, NEW t \in Threads, SignAndPost(t) \/ SignFails(t)
  PROVE  Lifecycle!Spend \/ Lifecycle!Abandon
<1>0. PICK n : n = hand[t]
  OBVIOUS
<1>1. /\ n \in Nonces /\ n \in issued /\ n # None
      /\ n \in Claims(t)
  BY <1>0, Whereabouts DEF TypeOK, SignAndPost, SignFails
<1>2. /\ hand'[t] = None
      /\ \A u \in Threads : u # t => hand'[u] = hand[u]
      /\ hand' \in [Threads -> issued \cup {None}]
      /\ UNCHANGED <<pool, values, issued>>
  BY DEF SignAndPost, SignFails, Release, TypeOK
<1>3. \A m \in Nonces : m \in Range(hand') <=> \E u \in Threads : hand'[u] = m
  BY <1>2 DEF Range
<1>4. Stage(n) = "held"
  BY <1>0, <1>1, Whereabouts DEF Stage
<1>5. n \notin Range(hand')
  BY <1>0, <1>1, <1>2, <1>3, Whereabouts
<1>6. /\ n \notin spent
      /\ n \notin Range(pool')
      /\ ~ \E u \in Threads : n \in Range(values'[u])
  <2>1. values[t] = <<>>
    BY DEF TypeOK, SignAndPost, SignFails
  <2>2. n \notin Range(values[t])
    BY <2>1, EmptyFacts
  <2>3. QED BY <1>0, <1>1, <1>2, <2>2, Whereabouts
<1>7. ASSUME NEW m \in Nonces \ {n}
      PROVE  m \in Range(hand') <=> m \in Range(hand)
  <2>1. m # None
    BY NonceStoreAssumption
  <2>2. QED BY <1>0, <1>2, <1>3, <2>1, Whereabouts
<1>8. CASE SignAndPost(t)
  <2>1. spent' = spent \cup {n}
    BY <1>0, <1>8 DEF SignAndPost
  <2>2. Stage(n)' = "spent"
    BY <1>1, <1>2, <2>1 DEF Stage
  <2>3. ASSUME NEW m \in Nonces \ {n}
        PROVE  Stage(m)' = Stage(m)
    BY <1>2, <1>7, <2>1, <2>3, StageSame
  <2>4. Lifecycle!Moved({n}, "held", "spent")
    BY <1>1, <1>4, <2>2, <2>3, MovedIfStaged
  <2>5. QED BY <1>1, <2>4 DEF Lifecycle!Spend
<1>9. CASE SignFails(t)
  <2>1. spent' = spent
    BY <1>9 DEF SignFails
  <2>2. Stage(n)' = "dropped"
    BY <1>1, <1>2, <1>5, <1>6, <2>1 DEF Stage
  <2>3. ASSUME NEW m \in Nonces \ {n}
        PROVE  Stage(m)' = Stage(m)
    BY <1>2, <1>7, <2>1, <2>3, StageSame
  <2>4. Lifecycle!Moved({n}, "held", "dropped")
    BY <1>1, <1>4, <2>2, <2>3, MovedIfStaged
  <2>5. QED BY <1>1, <2>4 DEF Lifecycle!Abandon
<1>10. QED BY <1>8, <1>9

\* clear drops what was pooled and nothing else.
LEMMA ClearDiscards ==
  ASSUME TypeOK, OnePlace, Clear
  PROVE  Lifecycle!Discard
<1> DEFINE ns == {n \in Nonces : Stage(n) = "pooled"}
<1>1. pool' = <<>> /\ UNCHANGED <<values, hand, issued, spent>>
  BY DEF Clear
<1>2. ASSUME NEW n \in ns
      PROVE  Stage(n)' = "dropped"
  <2>1. /\ n \in Nonces /\ n \in issued /\ n \notin spent /\ n \notin Range(hand)
        /\ n \in Range(pool)
    BY DEF Stage
  <2>2. ~ \E t \in Threads : n \in Range(values[t])
    BY <2>1, Whereabouts
  <2>3. QED BY <1>1, <2>1, <2>2, EmptyFacts DEF Stage
<1>3. ASSUME NEW m \in Nonces \ ns
      PROVE  Stage(m)' = Stage(m)
  BY <1>1, <1>3, EmptyFacts DEF Stage
<1>4. ns \in SUBSET Nonces
  OBVIOUS
<1>5. \A n \in ns : Stage(n) = "pooled" /\ Stage(n)' = "dropped"
  BY <1>2
<1>6. Lifecycle!Moved(ns, "pooled", "dropped")
  <2> HIDE DEF ns
  <2>1. QED BY <1>3, <1>4, <1>5, MovedIfStaged
<1>7. QED BY <1>4, <1>6 DEF Lifecycle!Discard

\* A step of the store is a step of the lifecycle or leaves every stage.
LEMMA StepMaps ==
  TypeOK /\ OnePlace /\ [Next]_vars
    => [Lifecycle!Next]_([n \in Nonces |-> Stage(n)])
<1> SUFFICES ASSUME TypeOK, OnePlace, [Next]_vars
             PROVE  \/ Lifecycle!Next
                    \/ \A n \in Nonces : Stage(n)' = Stage(n)
  OBVIOUS
<1>1. ASSUME UNCHANGED <<pool, values, hand, issued, spent>>
      PROVE  \A n \in Nonces : Stage(n)' = Stage(n)
  BY <1>1 DEF Stage
<1>2. CASE UNCHANGED vars
  BY <1>1, <1>2 DEF vars
<1>3. ASSUME NEW t \in Threads, Start(t) \/ Step(t)
      PROVE  \/ Lifecycle!Next
             \/ \A n \in Nonces : Stage(n)' = Stage(n)
  <2>1. CASE GetPooled(t) \/ RetakePooled(t)
    BY <2>1, PopTakes DEF GetPooled, RetakePooled, Lifecycle!Next
  <2>2. CASE HeadReply(t) \/ PostReply(t)
    <3>1. PICK s \in Bursts : Receive(t, s)
      BY <2>2 DEF HeadReply, PostReply
    <3>2. pc[t] \in {"head", "posted"} /\ UNCHANGED <<pool, hand, spent>>
      BY <2>2 DEF HeadReply, PostReply
    <3>3. QED BY <3>1, <3>2, ReceiveOffers DEF Lifecycle!Next
  <2>3. CASE AbsorbValue(t)
    BY <2>3, AbsorbPools DEF Lifecycle!Next
  <2>4. CASE SignAndPost(t) \/ SignFails(t)
    BY <2>4, ReleaseSpends DEF Lifecycle!Next
  <2>5. CASE \/ GetMiss(t) \/ HeadFails(t) \/ RefillFound(t) \/ RefillEmpty(t)
             \/ RetakeMiss(t) \/ PostFails(t) \/ PostDone(t)
    BY <1>1, <2>5 DEF GetMiss, HeadFails, RefillFound, RefillEmpty, RetakeMiss,
                      PostFails, PostDone
  <2>6. QED BY <1>3, <2>1, <2>2, <2>3, <2>4, <2>5 DEF Start, Step
<1>4. QED BY <1>2, <1>3, ClearDiscards DEF Next, Lifecycle!Next

\* The store implements the nonce lifecycle, for any threads and nonces.
THEOREM LifecycleHolds == Spec => LifecycleImplemented
<1>1. Init => Lifecycle!Init
  BY DEF Init, Lifecycle!Init, Stage
<1>2. QED
  BY <1>1, StepMaps, TypeCorrect, OnePlaceHolds, PTL
     DEF Spec, LifecycleImplemented, Lifecycle!Spec

-----------------------------------------------------------------------------
(* The pool's bound: a thread owes the pool a nonce, or holds one for it,  *)
(* from the moment it finds the pool empty or takes a nonce until the      *)
(* response it waits for has been absorbed.                                *)

Debtors == {t \in Threads : OwesOrHolds(t)}
Bounded == Len(pool) + Cardinality(Debtors) <= Cardinality(Threads)
OneValue == \A t \in Threads : Len(values[t]) <= 1

PoolInv == burst <= 1 => OneValue /\ Bounded

\* A set of threads without t, or with t, and its size.
LEMMA DebtorFacts ==
  ASSUME NEW D \in SUBSET Threads, NEW t \in Threads
  PROVE  /\ Cardinality(D) \in Nat /\ Cardinality(Threads) \in Nat
         /\ Cardinality(D) <= Cardinality(Threads)
         /\ t \notin D => Cardinality(D \cup {t}) = Cardinality(D) + 1
         /\ t \in D => Cardinality(D \ {t}) = Cardinality(D) - 1
<1>1. IsFiniteSet(D) /\ Cardinality(D) <= Cardinality(Threads)
  BY NonceStoreAssumption, FS_Subset
<1>2. Cardinality(D) \in Nat /\ Cardinality(Threads) \in Nat
  BY <1>1, NonceStoreAssumption, FS_CardinalityType
<1>3. t \notin D => Cardinality(D \cup {t}) = Cardinality(D) + 1
  BY <1>1, FS_AddElement
<1>4. t \in D => Cardinality(D \ {t}) = Cardinality(D) - 1
  BY <1>1, FS_RemoveElement
<1>5. QED BY <1>1, <1>2, <1>3, <1>4

\* A step of t changes no other thread's debt, so the bound holds if the pool
\* grows only when t's debt ends, by one, and shrinks when its debt begins.
LEMMA DebtMoves ==
  ASSUME TypeOK, TypeOK', Bounded, NEW t \in Threads,
         \A u \in Threads \ {t} : OwesOrHolds(u)' <=> OwesOrHolds(u),
         \/ pool' = <<>>
         \/ Len(pool') <= Len(pool) /\ (OwesOrHolds(t)' => OwesOrHolds(t))
         \/ Len(pool') = Len(pool) - 1
         \/ Len(pool') = Len(pool) + 1 /\ OwesOrHolds(t) /\ ~OwesOrHolds(t)'
  PROVE  Bounded'
<1>1. Len(pool) \in Nat /\ Len(pool') \in Nat /\ Len(<<>>) = 0
  BY DEF TypeOK
<1>2. /\ Debtors \in SUBSET Threads /\ Debtors' \in SUBSET Threads
      /\ t \in Debtors <=> OwesOrHolds(t)
      /\ t \in Debtors' <=> OwesOrHolds(t)'
      /\ Debtors' \ {t} = Debtors \ {t}
  BY DEF Debtors
<1>3. Debtors' = IF OwesOrHolds(t)'
                 THEN IF OwesOrHolds(t) THEN Debtors ELSE Debtors \cup {t}
                 ELSE IF OwesOrHolds(t) THEN Debtors \ {t} ELSE Debtors
  BY <1>2
<1>4. Cardinality(Debtors') =
        IF OwesOrHolds(t)'
        THEN IF OwesOrHolds(t) THEN Cardinality(Debtors)
                               ELSE Cardinality(Debtors) + 1
        ELSE IF OwesOrHolds(t) THEN Cardinality(Debtors) - 1
                               ELSE Cardinality(Debtors)
  BY <1>2, <1>3, DebtorFacts
<1>5. /\ Cardinality(Debtors) \in Nat /\ Cardinality(Threads) \in Nat
      /\ Cardinality(Debtors') \in Nat
      /\ Cardinality(Debtors') <= Cardinality(Threads)
  BY <1>2, DebtorFacts
<1>6. QED BY <1>1, <1>4, <1>5 DEF Bounded

\* A response of at most one header leaves at most one value to absorb.
LEMMA OneValueKept ==
  ASSUME TypeOK, burst <= 1, OneValue, NEW t \in Threads, Start(t) \/ Step(t)
  PROVE  OneValue'
<1>1. CASE HeadReply(t) \/ PostReply(t)
  <2>1. PICK s \in Bursts : Receive(t, s)
    BY <1>1 DEF HeadReply, PostReply
  <2>2. PICK k \in 0..burst : s \in [1..k -> (Nonces \ issued) \cup {Empty}]
    BY <2>1 DEF Bursts
  <2>3. Len(s) = k /\ k <= 1
    BY <2>2, NonceStoreAssumption DEF TypeOK
  <2>4. \A u \in Threads : values'[u] = IF u = t THEN s ELSE values[u]
    BY <2>1 DEF Receive, TypeOK
  <2>5. QED BY <2>3, <2>4 DEF OneValue
<1>2. CASE AbsorbValue(t)
  <2>1. values[t] \in Seq(issued \cup {Empty}) /\ values[t] # <<>>
    BY <1>2 DEF AbsorbValue, TypeOK
  <2>2. Len(Tail(values[t])) <= 1
    BY <2>1 DEF OneValue
  <2>3. \A u \in Threads :
          values'[u] = IF u = t THEN Tail(values[t]) ELSE values[u]
    BY <1>2 DEF AbsorbValue, TypeOK
  <2>4. QED BY <2>2, <2>3 DEF OneValue
<1>3. CASE ~(HeadReply(t) \/ PostReply(t) \/ AbsorbValue(t))
  <2>1. values' = values
    BY <1>3 DEF Start, Step, GetPooled, GetMiss, HeadFails, RefillFound,
                RefillEmpty, RetakePooled, RetakeMiss, SignAndPost, SignFails,
                PostFails, PostDone
  <2>2. QED BY <2>1 DEF OneValue
<1>4. QED BY <1>1, <1>2, <1>3

\* Every step pays for the nonce it takes, or for the one it asked for.
LEMMA BoundKept ==
  ASSUME TypeOK, TypeOK', OneValue, Bounded, NEW t \in Threads, Start(t) \/ Step(t)
  PROVE  Bounded'
<1>1. \A u \in Threads \ {t} : pc'[u] = pc[u] /\ values'[u] = values[u]
  BY DEF TypeOK, Goto, Return, Pop, Receive, Start, Step, GetPooled, GetMiss,
         HeadReply, HeadFails, AbsorbValue, RefillFound, RefillEmpty,
         RetakePooled, RetakeMiss, SignAndPost, SignFails, PostReply, PostFails,
         PostDone
<1>2. \A u \in Threads \ {t} : OwesOrHolds(u)' <=> OwesOrHolds(u)
  BY <1>1 DEF OwesOrHolds
<1>3. CASE GetPooled(t) \/ RetakePooled(t)
  <2>1. pool \in Seq(issued) /\ pool # <<>> /\ pool' = Tail(pool)
    BY <1>3 DEF GetPooled, RetakePooled, Pop, TypeOK
  <2>2. Len(pool') = Len(pool) - 1
    BY <2>1
  <2>3. QED BY <1>2, <2>2, DebtMoves
<1>4. CASE AbsorbValue(t)
  <2>1. /\ values[t] \in Seq(issued \cup {Empty}) /\ values[t] # <<>>
        /\ Len(values[t]) <= 1
        /\ values'[t] = Tail(values[t])
        /\ pc' = pc /\ pc[t] \in {"refill", "absorb"}
    BY <1>4 DEF AbsorbValue, TypeOK, OneValue
  <2>2. values'[t] = <<>>
    BY <2>1
  <2>3. OwesOrHolds(t) /\ ~OwesOrHolds(t)'
    BY <2>1, <2>2 DEF OwesOrHolds
  <2>4. Len(pool') = Len(pool) + 1 \/ Len(pool') = Len(pool)
    <3>1. pool \in Seq(issued) /\ Head(values[t]) \in issued \cup {Empty}
      BY <2>1 DEF TypeOK
    <3>2. \/ pool' = pool
          \/ pool' = Append(pool, Head(values[t])) /\ Head(values[t]) \in issued
      BY <1>4, <3>1 DEF AbsorbValue
    <3>3. QED BY <3>1, <3>2
  <2>5. Len(pool) \in Nat
    BY DEF TypeOK
  <2>6. QED BY <1>2, <2>3, <2>4, <2>5, DebtMoves
<1>5. CASE GetMiss(t)
  BY <1>2, <1>5, DebtMoves DEF GetMiss
<1>6. CASE ~(GetPooled(t) \/ RetakePooled(t) \/ AbsorbValue(t) \/ GetMiss(t))
  <2>1. pool' = pool /\ Len(pool) \in Nat
    BY <1>6 DEF Start, Step, HeadReply, HeadFails, RefillFound, RefillEmpty,
                RetakeMiss, SignAndPost, SignFails, PostReply, PostFails,
                PostDone, TypeOK
  <2>2. OwesOrHolds(t)' => OwesOrHolds(t)
    <3>1. pc[t] \in {"head", "sign", "posted"} => OwesOrHolds(t)
      BY DEF OwesOrHolds
    <3>2. pc[t] \notin {"head", "sign", "posted"}
            => /\ values'[t] = values[t]
               /\ pc'[t] \notin {"head", "sign", "posted"}
      BY <1>6 DEF Start, Step, HeadReply, HeadFails, RefillFound, RefillEmpty,
                  RetakeMiss, SignAndPost, SignFails, PostReply, PostFails,
                  PostDone, TypeOK, Goto, Return
    <3>3. QED BY <3>1, <3>2 DEF OwesOrHolds
  <2>3. Len(pool') <= Len(pool)
    BY <2>1
  <2>4. QED BY <1>2, <2>2, <2>3, DebtMoves
<1>7. QED BY <1>3, <1>4, <1>5, <1>6

\* With at most one Replay-Nonce per response, the pool that nothing trims
\* never holds more nonces than there are threads (nonce.rs:43).
THEOREM PoolBoundHolds == Spec => []PoolBounded
<1>1. Init => PoolInv
  <2> SUFFICES ASSUME Init PROVE OneValue /\ Bounded
    BY DEF PoolInv
  <2>1. OneValue /\ Len(pool) = 0
    BY DEF Init, OneValue
  <2>2. Debtors \in SUBSET Threads
    BY DEF Debtors
  <2>3. Cardinality(Debtors) <= Cardinality(Threads) /\ Cardinality(Debtors) \in Nat
    BY <2>2, NonceStoreAssumption, FS_Subset, FS_CardinalityType
  <2>4. QED BY <2>1, <2>3 DEF Bounded
<1>2. TypeOK /\ TypeOK' /\ PoolInv /\ [Next]_vars => PoolInv'
  <2>0. [Next]_vars => UNCHANGED burst
    BY DEF Next, Start, Step, Clear, vars
  <2> SUFFICES ASSUME TypeOK, TypeOK', burst <= 1, OneValue, Bounded, [Next]_vars
               PROVE  OneValue' /\ Bounded'
    BY <2>0 DEF PoolInv
  <2>1. CASE UNCHANGED vars
    BY <2>1 DEF vars, OneValue, Bounded, Debtors, OwesOrHolds
  <2>2. CASE \E t \in Threads : Start(t) \/ Step(t)
    BY <2>2, OneValueKept, BoundKept
  <2>3. CASE Clear
    <3>1. Len(pool') = 0 /\ UNCHANGED <<pc, values>> /\ Len(pool) \in Nat
      BY <2>3 DEF Clear, TypeOK
    <3>2. Debtors' = Debtors /\ Cardinality(Debtors) \in Nat
          /\ Cardinality(Threads) \in Nat
      <4>1. Debtors \in SUBSET Threads
        BY DEF Debtors
      <4>2. Debtors' = Debtors
        BY <3>1 DEF Debtors, OwesOrHolds
      <4>3. QED BY <4>1, <4>2, NonceStoreAssumption, FS_Subset, FS_CardinalityType
    <3>3. QED BY <3>1, <3>2 DEF OneValue, Bounded
  <2>4. QED BY <2>1, <2>2, <2>3 DEF Next
<1>3. PoolInv => PoolBounded
  BY DEF PoolInv, PoolBounded, Bounded, Debtors
<1>4. QED BY <1>1, <1>2, <1>3, TypeCorrect, PTL DEF Spec
-----------------------------------------------------------------------------
(* A request ends: its own steps lower StepsLeft, the others' leave it.    *)

\* The arms of StepsLeft, one by one, over natural numbers.
Arms(t) ==
  /\ burst \in Nat /\ Len(values[t]) \in Nat
  /\ pc[t] = "head" => StepsLeft(t) = 2 * burst + 6
  /\ pc[t] = "refill" => StepsLeft(t) = Len(values[t]) + burst + 5
  /\ pc[t] = "retake" => StepsLeft(t) = burst + 4
  /\ pc[t] = "sign" => StepsLeft(t) = burst + 3
  /\ pc[t] = "posted" => StepsLeft(t) = burst + 2
  /\ pc[t] = "absorb" => StepsLeft(t) = Len(values[t]) + 1
  /\ pc[t] = "idle" => StepsLeft(t) = 0

AllArms == \A t \in Threads : Arms(t)

LEMMA StepsAt == TypeOK => AllArms
<1> SUFFICES ASSUME TypeOK, NEW t \in Threads PROVE Arms(t)
  BY DEF AllArms
<1>1. burst \in Nat /\ Len(values[t]) \in Nat
  BY NonceStoreAssumption DEF TypeOK
<1>2. /\ pc[t] = "head" => StepsLeft(t) = 2 * burst + 6
      /\ pc[t] = "refill" => StepsLeft(t) = Len(values[t]) + burst + 5
      /\ pc[t] = "retake" => StepsLeft(t) = burst + 4
      /\ pc[t] = "sign" => StepsLeft(t) = burst + 3
  BY DEF StepsLeft
<1>3. /\ pc[t] = "posted" => StepsLeft(t) = burst + 2
      /\ pc[t] = "absorb" => StepsLeft(t) = Len(values[t]) + 1
      /\ pc[t] = "idle" => StepsLeft(t) = 0
  BY DEF StepsLeft
<1>4. QED BY <1>1, <1>2, <1>3 DEF Arms

LEMMA NextStepsAt == TypeOK' => AllArms'
BY StepsAt, PTL

\* A step of one thread leaves the place, the values and the nonce of every
\* other thread as they were.
LEMMA OthersStandStill ==
  ASSUME TypeOK, NEW t \in Threads, Start(t) \/ Step(t), NEW u \in Threads \ {t}
  PROVE  UNCHANGED <<pc[u], values[u], hand[u]>>
<1>1. pc'[u] = pc[u] /\ values'[u] = values[u]
  BY DEF TypeOK, Goto, Return, Pop, Receive, Start, Step, GetPooled, GetMiss,
         HeadReply, HeadFails, AbsorbValue, RefillFound, RefillEmpty,
         RetakePooled, RetakeMiss, SignAndPost, SignFails, PostReply, PostFails,
         PostDone
<1>2. hand'[u] = hand[u]
  BY DEF TypeOK, Pop, Release, Start, Step, GetPooled, GetMiss, HeadReply,
         HeadFails, AbsorbValue, RefillFound, RefillEmpty, RetakePooled,
         RetakeMiss, SignAndPost, SignFails, PostReply, PostFails, PostDone
<1>3. QED BY <1>1, <1>2

\* A response brings no more values than a burst.
LEMMA BurstLength ==
  ASSUME TypeOK, NEW t \in Threads, NEW s \in Bursts, Receive(t, s)
  PROVE  Len(values'[t]) \in 0..burst
<1>1. PICK k \in 0..burst : s \in [1..k -> (Nonces \ issued) \cup {Empty}]
  BY DEF Bursts
<1>2. burst \in Nat /\ k \in Nat
  BY <1>1, NonceStoreAssumption DEF TypeOK
<1>3. Len(s) = k
  BY <1>1, <1>2
<1>4. values'[t] = s
  BY DEF Receive, TypeOK
<1>5. QED BY <1>1, <1>3, <1>4

LEMMA OwnStepShrinks ==
  ASSUME TypeOK, TypeOK', NEW t \in Threads, Step(t)
  PROVE  StepsLeft(t)' < StepsLeft(t)
<1>1. Arms(t) /\ Arms(t)'
  BY StepsAt, NextStepsAt DEF AllArms
<1>2. PICK b \in Nat, v \in Nat, w \in Nat :
        /\ b = burst /\ b = burst'
        /\ v = Len(values[t]) /\ w = Len(values'[t])
  BY <1>1 DEF Arms, Step
<1>3. /\ pc[t] = "head" => StepsLeft(t) = 2 * b + 6
      /\ pc[t] = "refill" => StepsLeft(t) = v + b + 5
      /\ pc[t] = "retake" => StepsLeft(t) = b + 4
      /\ pc[t] = "sign" => StepsLeft(t) = b + 3
      /\ pc[t] = "posted" => StepsLeft(t) = b + 2
      /\ pc[t] = "absorb" => StepsLeft(t) = v + 1
  BY <1>1, <1>2 DEF Arms
<1>4. /\ pc'[t] = "refill" => StepsLeft(t)' = w + b + 5
      /\ pc'[t] = "retake" => StepsLeft(t)' = b + 4
      /\ pc'[t] = "sign" => StepsLeft(t)' = b + 3
      /\ pc'[t] = "posted" => StepsLeft(t)' = b + 2
      /\ pc'[t] = "absorb" => StepsLeft(t)' = w + 1
      /\ pc'[t] = "idle" => StepsLeft(t)' = 0
  BY <1>1, <1>2 DEF Arms
<1>5. CASE HeadReply(t) \/ PostReply(t)
  <2>1. \/ pc[t] = "head" /\ pc'[t] = "refill"
        \/ pc[t] = "posted" /\ pc'[t] = "absorb"
    BY <1>5 DEF HeadReply, PostReply, Goto, TypeOK
  <2>2. w \in 0..b
    BY <1>2, <1>5, BurstLength DEF HeadReply, PostReply
  <2>3. QED BY <1>2, <1>3, <1>4, <2>1, <2>2
<1>6. CASE AbsorbValue(t)
  <2>1. /\ pc[t] \in {"refill", "absorb"} /\ pc'[t] = pc[t]
        /\ values[t] \in Seq(issued \cup {Empty}) /\ values[t] # <<>>
        /\ values'[t] = Tail(values[t])
    BY <1>6 DEF AbsorbValue, TypeOK
  <2>2. w = v - 1
    BY <1>2, <2>1
  <2>3. QED BY <1>2, <1>3, <1>4, <2>1, <2>2
<1>7. CASE \/ HeadFails(t) \/ RefillEmpty(t) \/ RetakeMiss(t) \/ SignFails(t)
           \/ PostFails(t) \/ PostDone(t)
  <2>1. /\ pc[t] \in {"head", "refill", "retake", "sign", "posted", "absorb"}
        /\ pc'[t] = "idle"
    BY <1>7 DEF HeadFails, RefillEmpty, RetakeMiss, SignFails, PostFails,
                PostDone, Return, Goto, TypeOK
  <2>2. QED BY <1>2, <1>3, <1>4, <2>1
<1>8. CASE RefillFound(t) \/ RetakePooled(t) \/ SignAndPost(t)
  <2>1. \/ pc[t] = "refill" /\ pc'[t] = "retake"
        \/ pc[t] = "retake" /\ pc'[t] = "sign"
        \/ pc[t] = "sign" /\ pc'[t] = "posted"
    BY <1>8 DEF RefillFound, RetakePooled, SignAndPost, Pop, Goto, TypeOK
  <2>2. QED BY <1>2, <1>3, <1>4, <2>1
<1>9. QED BY <1>5, <1>6, <1>7, <1>8 DEF Step

\* For any threads and burst size: a request takes at most 2 * burst + 6 steps
\* once its first pop has missed, whatever the others do to the pool.
THEOREM RequestShrinksHolds == Spec => RequestShrinks
<1>1. TypeOK /\ TypeOK' /\ [Next]_vars =>
        [\A t \in Threads :
           \/ pc[t] = "idle"
           \/ UNCHANGED <<pc[t], values[t], hand[t]>>
           \/ StepsLeft(t)' \in 0..(StepsLeft(t) - 1)]_vars
  <2> SUFFICES ASSUME TypeOK, TypeOK', Next, NEW u \in Threads, pc[u] # "idle"
               PROVE  \/ UNCHANGED <<pc[u], values[u], hand[u]>>
                      \/ StepsLeft(u)' \in 0..(StepsLeft(u) - 1)
    OBVIOUS
  <2>1. CASE Clear
    BY <2>1 DEF Clear
  <2>2. ASSUME NEW t \in Threads, Start(t) \/ Step(t), t # u
        PROVE  UNCHANGED <<pc[u], values[u], hand[u]>>
    BY <2>2, OthersStandStill
  <2>3. ASSUME Start(u) \/ Step(u)
        PROVE  StepsLeft(u)' \in 0..(StepsLeft(u) - 1)
    <3>1. Step(u)
      BY <2>3 DEF Start, GetPooled, GetMiss
    <3>2. StepsLeft(u)' < StepsLeft(u)
      BY <3>1, OwnStepShrinks
    <3>3. StepsLeft(u) \in Nat /\ StepsLeft(u)' \in Nat
      <4>1. Arms(u) /\ Arms(u)'
        BY StepsAt, NextStepsAt DEF AllArms
      <4>2. pc[u] \in Locations /\ pc'[u] \in Locations
        BY DEF TypeOK
      <4>3. StepsLeft(u) \in Nat
        <5>1. PICK b \in Nat, v \in Nat : b = burst /\ v = Len(values[u])
          BY <4>1 DEF Arms
        <5>2. StepsLeft(u) \in {2 * b + 6, v + b + 5, b + 4, b + 3, b + 2, v + 1, 0}
          BY <4>1, <4>2, <5>1 DEF Arms, Locations
        <5>3. QED BY <5>2
      <4>4. StepsLeft(u)' \in Nat
        <5>1. PICK b \in Nat, w \in Nat : b = burst' /\ w = Len(values'[u])
          BY <4>1 DEF Arms
        <5>2. StepsLeft(u)' \in {2 * b + 6, w + b + 5, b + 4, b + 3, b + 2, w + 1, 0}
          BY <4>1, <4>2, <5>1 DEF Arms, Locations
        <5>3. QED BY <5>2
      <4>5. QED BY <4>3, <4>4
    <3>4. QED BY <3>2, <3>3
  <2>4. QED BY <2>1, <2>2, <2>3 DEF Next
<1>2. QED BY <1>1, TypeCorrect, PTL DEF Spec, RequestShrinks
=============================================================================
