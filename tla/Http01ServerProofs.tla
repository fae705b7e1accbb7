------------------------- MODULE Http01ServerProofs -------------------------
(***************************************************************************)
(* For any number of orders, connections and backlog places: Http01Server  *)
(* serves exactly the armed responses, has none on the wire after its      *)
(* teardown, and implements ResponderContract.                             *)
(***************************************************************************)
EXTENDS Http01Server, AcceptLoopProofs

Handling == {"open", "looking", "writing", "draining"}

\* A connection has no answer before its token has been looked up.
Unanswered ==
  \A c \in Conns :
    conn[c] \in {"unopened", "waiting", "open", "looking"} => got[c] = "none"

\* The parts of TypeOK that the accept loop does not touch.
ServerTypeOK ==
  /\ pc \in [Challenges -> {"idle", "arming", "armed", "dropping"}]
  /\ map \in SUBSET Tokens
  /\ lock \in Conns \cup {Free}
  /\ got \in [Conns -> {"none", "200", "404"}]

\* The mutex is held exactly by the connection that is answered.
Guarded == \A c \in Conns : conn[c] \in {"writing", "draining"} <=> lock = c

IInv ==
  /\ LoopInv(Handling)
  /\ ServerTypeOK
  /\ Guarded
  /\ ArmedIsServed
  /\ NothingAfterTeardown
  /\ Unanswered

LEMMA HandlingFacts == Handled(Handling) /\ "open" \in Handling
BY DEF Handled, Handling

LEMMA IInvTypeOK == IInv => TypeOK
BY DEF IInv, LoopInv, ServerTypeOK, Guarded, TypeOK, Handling

-----------------------------------------------------------------------------
(* The invariant.                                                          *)

LEMMA InitIInv == Init => IInv
<1> SUFFICES ASSUME Init PROVE IInv
  OBVIOUS
<1>1. LoopInv(Handling)
  BY LoopStarts DEF Init
<1>2. ServerTypeOK
  BY DEF Init, ServerTypeOK
<1>3. \A c \in Conns : conn[c] = "unopened" /\ got[c] = "none" /\ lock # c
  BY Http01Assumption DEF Init, LoopInit
<1>4. ArmedIsServed
  BY DEF Init, ArmedIsServed, Up
<1>5. QED BY <1>1, <1>2, <1>3, <1>4
         DEF IInv, Guarded, NothingAfterTeardown, Unanswered

\* arm and drop: the map follows the handles, and a drop that holds the lock
\* finds no response being written.
LEMMA SolverKeepsIInv ==
  ASSUME IInv, NEW ch \in Challenges, Solver(ch)
  PROVE  IInv'
<1> USE Http01Assumption DEF IInv
<1>1. UNCHANGED <<loopVars, lock, got>>
  BY DEF Solver, BeginArm, Insert, BeginDrop, Remove
<1>2. LoopInv(Handling)'
  BY <1>1, StutterKeepsLoop
<1>3. Guarded' /\ Unanswered'
  BY <1>1 DEF loopVars, Guarded, Unanswered
<1>4. ServerTypeOK'
  BY <1>1 DEF ServerTypeOK, Solver, BeginArm, Insert, BeginDrop, Remove, Goto
<1>5. \A d \in Challenges \ {ch} : /\ pc'[d] = pc[d]
                                   /\ Token[d] \in map' <=> Token[d] \in map
  BY DEF Solver, BeginArm, Insert, BeginDrop, Remove, Goto, ServerTypeOK
<1>6. ch \in Up' <=> Token[ch] \in map'
  BY DEF Solver, BeginArm, Insert, BeginDrop, Remove, Goto, ServerTypeOK,
         ArmedIsServed, Up
<1>7. ArmedIsServed'
  BY <1>5, <1>6 DEF ArmedIsServed, Up
<1>8. NothingAfterTeardown'
  <2>1. CASE Remove(ch)
    BY <1>1, <2>1 DEF Remove, Guarded, NothingAfterTeardown, loopVars
  <2>2. CASE ~Remove(ch)
    <3>1. Up \subseteq Up'
      BY <1>5, <2>2 DEF Up, Solver, BeginArm, Insert, BeginDrop, Goto, ServerTypeOK
    <3>2. QED BY <1>1, <3>1 DEF NothingAfterTeardown, loopVars
  <2>3. QED BY <2>1, <2>2
<1>9. QED BY <1>2, <1>3, <1>4, <1>7, <1>8

\* A connection's thread: it takes the lock only for a token that is armed.
LEMMA HandleKeepsIInv ==
  ASSUME IInv, NEW c \in Conns, Handle(c)
  PROVE  IInv'
<1> USE Http01Assumption DEF IInv
<1>1. UNCHANGED <<asked, backlog, flag, dial, loop, pc, map>>
  BY DEF Handle, ReadRequest, Lookup, Write, PeerCloses, DrainTimesOut
<1>2. conn[c] \in Handling
  BY DEF Handle, ReadRequest, Lookup, Write, PeerCloses, DrainTimesOut, Handling
<1>3. PICK s \in Handling \cup {"closed"} : conn' = [conn EXCEPT ![c] = s]
  BY DEF Handle, ReadRequest, Lookup, Write, PeerCloses, DrainTimesOut, Handling, Move
<1>4. LoopInv(Handling)'
  BY <1>1, <1>2, <1>3, HandlingFacts, MoveKeepsLoop
<1>5. ArmedIsServed'
  BY <1>1 DEF ArmedIsServed, Up
<1>6. conn \in [Conns -> {"unopened", "waiting", "closed"} \cup Handling]
      /\ asked[c] \in Challenges
  BY <1>2 DEF LoopInv, LoopTypeOK, Handling
<1>7. /\ conn'[c] = s
      /\ \A d \in Conns \ {c} : conn'[d] = conn[d]
  BY <1>3, <1>6
<1>8. \/ conn[c] = "open" /\ s \in {"looking", "closed"} /\ UNCHANGED <<lock, got>>
      \/ /\ conn[c] = "looking" /\ lock = Free /\ Token[asked[c]] \in map
         /\ s = "writing" /\ lock' = c /\ got' = [got EXCEPT ![c] = "200"]
      \/ /\ conn[c] = "looking" /\ Token[asked[c]] \notin map
         /\ s = "closed" /\ lock' = lock /\ got' = [got EXCEPT ![c] = "404"]
      \/ conn[c] = "writing" /\ s = "draining" /\ UNCHANGED <<lock, got>>
      \/ /\ conn[c] \in {"writing", "draining"} /\ s = "closed"
         /\ lock' = (IF lock = c THEN Free ELSE lock) /\ got' = got
  <2>1. CASE ReadRequest(c)
    BY <1>6, <1>7, <2>1 DEF ReadRequest, Move
  <2>2. CASE Lookup(c)
    BY <1>6, <1>7, <2>2 DEF Lookup, Move
  <2>3. CASE Write(c)
    BY <1>6, <1>7, <2>3 DEF Write, Move, Release
  <2>4. CASE PeerCloses(c) \/ DrainTimesOut(c)
    BY <1>6, <1>7, <2>4 DEF PeerCloses, DrainTimesOut, Move, Release
  <2>5. QED BY <2>1, <2>2, <2>3, <2>4 DEF Handle
<1>9. ServerTypeOK' /\ Guarded' /\ Unanswered'
  <2>1. \A d \in Conns : d # c => got'[d] = got[d]
    BY <1>8 DEF ServerTypeOK
  <2>2. ServerTypeOK'
    BY <1>1, <1>8 DEF ServerTypeOK
  <2>3. Guarded'
    BY <1>7, <1>8 DEF Guarded
  <2>4. Unanswered'
    <3>1. ASSUME NEW d \in Conns,
                 conn'[d] \in {"unopened", "waiting", "open", "looking"}
          PROVE  got'[d] = "none"
      BY <1>7, <1>8, <2>1, <3>1 DEF Unanswered
    <3>2. QED BY <3>1 DEF Unanswered
  <2>5. QED BY <2>2, <2>3, <2>4
<1>10. NothingAfterTeardown'
  <2>1. asked[c] \in Up \/ s \notin {"writing", "draining"}
    BY <1>6, <1>8 DEF ArmedIsServed, NothingAfterTeardown
  <2>2. QED BY <1>1, <1>7, <2>1 DEF NothingAfterTeardown, Up
<1>11. QED BY <1>4, <1>5, <1>9, <1>10

\* The accept thread, a new connection and the end of the server.
LEMMA ListenKeepsIInv ==
  ASSUME IInv, Listen \/ RaiseFlag, UNCHANGED <<pc, map, lock, got>>
  PROVE  IInv'
<1> USE DEF IInv
<1>1. LoopInv(Handling)'
  BY HandlingFacts, ConnectKeepsLoop, AcceptKeepsLoop, KickKeepsLoop,
     RaiseKeepsLoop DEF Listen
<1>2. ServerTypeOK' /\ ArmedIsServed'
  BY DEF ServerTypeOK, ArmedIsServed, Up
<1>3. \A c \in Conns : \/ conn'[c] = conn[c] /\ asked'[c] = asked[c]
                       \/ /\ conn[c] \in {"unopened", "waiting"}
                          /\ conn'[c] \in {"waiting", "open", "closed"}
  <2>1. ASSUME NEW d \in Conns, Connect(d)
        PROVE  \A c \in Conns : \/ conn'[c] = conn[c] /\ asked'[c] = asked[c]
                                \/ conn[c] = "unopened" /\ conn'[c] = "waiting"
    BY <2>1 DEF Connect, LoopInv, LoopTypeOK
  <2>2. CASE Accept
    <3>1. asked' = asked
      BY <2>2 DEF Accept
    <3>2. QED BY <2>2, <3>1, HandlingFacts, AcceptKeepsLoop
  <2>3. CASE Kick \/ RaiseFlag
    BY <2>3 DEF Kick, RaiseFlag
  <2>4. QED BY <2>1, <2>2, <2>3 DEF Listen
<1>4. Guarded' /\ NothingAfterTeardown' /\ Unanswered'
  BY <1>3 DEF Guarded, NothingAfterTeardown, Unanswered, Up
<1>5. QED BY <1>1, <1>2, <1>4

LEMMA NextIInv == IInv /\ [Next]_vars => IInv'
<1> SUFFICES ASSUME IInv, [Next]_vars PROVE IInv'
  OBVIOUS
<1>1. CASE UNCHANGED vars
  <2>1. LoopInv(Handling)'
    BY <1>1, StutterKeepsLoop DEF vars, IInv
  <2>2. QED BY <1>1, <2>1
            DEF vars, loopVars, IInv, ServerTypeOK, Guarded, ArmedIsServed,
                NothingAfterTeardown, Unanswered, Up
<1>2. CASE Next
  BY <1>2, SolverKeepsIInv, HandleKeepsIInv, ListenKeepsIInv DEF Next, Shutdown
<1>3. QED BY <1>1, <1>2

LEMMA InvariantHolds == Spec => []IInv
<1>1. QED BY InitIInv, NextIInv, PTL DEF Spec

\* Every variable keeps its type, and the mutex its one holder.
THEOREM TypeCorrect == Spec => []TypeOK
<1>1. QED BY InvariantHolds, IInvTypeOK, PTL

\* From arm to the end of the drop, and only then, the server has a response,
\* whatever the other orders on it do (http_server.rs:199-204).
THEOREM ServedHolds == Spec => []ArmedIsServed
<1>1. IInv => ArmedIsServed
  BY DEF IInv
<1>2. QED BY <1>1, InvariantHolds, PTL

\* The drop of a handle waits for the response that is being written.
THEOREM TeardownHolds == Spec => []NothingAfterTeardown
<1>1. IInv => NothingAfterTeardown
  BY DEF IInv
<1>2. QED BY <1>1, InvariantHolds, PTL

\* No wake-up that was sent is lost, for any backlog: once Drop's dial has
\* reached the listener's host, a thread still in accept has a connection to
\* return (http_server.rs:98-101).  A dial that was never sent wakes nobody.
THEOREM WakeUpHolds == Spec => []WakeUpWaits
<1>1. IInv => WakeUpWaits
  BY DEF IInv, LoopInv, Woken, WakeUpWaits
<1>2. QED BY <1>1, InvariantHolds, PTL

-----------------------------------------------------------------------------
(* The refinement: arming exposes, dropping withdraws, connecting asks and *)
(* looking the token up answers; nothing else is seen.                     *)

Exposed == {ch \in Challenges : Token[ch] \in map}
Verdict == [c \in Conns |-> IF got[c] = "200" THEN "right"
                            ELSE IF got[c] = "404" THEN "wrong" ELSE "none"]

\* The solvers' steps change at most what is exposed, by one response.
LEMMA SolverMaps ==
  ASSUME IInv, NEW ch \in Challenges, Solver(ch)
  PROVE  Contract!Next \/ UNCHANGED <<Exposed, asked, Verdict>>
<1> USE Http01Assumption
<1>1. UNCHANGED <<asked, Verdict>>
  BY DEF Solver, BeginArm, Insert, BeginDrop, Remove, Verdict, loopVars
<1>2. CASE Insert(ch)
  <2>1. ch \notin Exposed
    BY <1>2 DEF Insert, Exposed, IInv, ArmedIsServed, Up
  <2>2. Exposed' = Exposed \cup {ch}
    BY <1>2 DEF Insert, Exposed
  <2>3. QED BY <1>1, <2>1, <2>2
            DEF Contract!Next, Contract!Expose, Exposed, Verdict
<1>3. CASE Remove(ch)
  <2>1. ch \in Exposed
    BY <1>3 DEF Remove, Exposed, IInv, ArmedIsServed, Up
  <2>2. Exposed' = Exposed \ {ch}
    BY <1>3 DEF Remove, Exposed
  <2>3. QED BY <1>1, <2>1, <2>2
            DEF Contract!Next, Contract!Withdraw, Exposed, Verdict
<1>4. CASE BeginArm(ch) \/ BeginDrop(ch)
  BY <1>1, <1>4 DEF BeginArm, BeginDrop, Exposed
<1>5. QED BY <1>2, <1>3, <1>4 DEF Solver

\* A lookup answers, and does so only once for a connection.
LEMMA HandleMaps ==
  ASSUME IInv, NEW c \in Conns, Handle(c)
  PROVE  Contract!Next \/ UNCHANGED <<Exposed, asked, Verdict>>
<1>1. UNCHANGED <<asked, Exposed>>
  BY DEF Handle, ReadRequest, Lookup, Write, PeerCloses, DrainTimesOut, Exposed
<1>2. CASE Lookup(c)
  <2>1. asked[c] \in Challenges /\ asked[c] # Nothing
    BY <1>2 DEF IInv, LoopInv, LoopTypeOK, Lookup
  <2>2. Verdict[c] = "none"
    BY <1>2 DEF IInv, Unanswered, Lookup, Verdict
  <2>3. got' = [got EXCEPT ![c] = IF asked[c] \in Exposed THEN "200" ELSE "404"]
    BY <1>2, <2>1 DEF Lookup, Exposed
  <2>4. Verdict' = [Verdict EXCEPT
                      ![c] = IF asked[c] \in Exposed THEN "right" ELSE "wrong"]
    BY <2>3 DEF Verdict, IInv, ServerTypeOK
  <2>5. Contract!Answer(c)
    BY <1>1, <2>1, <2>2, <2>4 DEF Contract!Answer, Exposed, Verdict
  <2>6. QED BY <2>5 DEF Contract!Next
<1>3. CASE ~Lookup(c)
  <2>1. got' = got
    BY <1>3 DEF Handle, ReadRequest, Write, PeerCloses, DrainTimesOut
  <2>2. QED BY <1>1, <2>1 DEF Verdict
<1>4. QED BY <1>2, <1>3

\* A connection asks once, when it is opened.
LEMMA ListenMaps ==
  ASSUME IInv, Listen \/ RaiseFlag, UNCHANGED <<pc, map, lock, got>>
  PROVE  Contract!Next \/ UNCHANGED <<Exposed, asked, Verdict>>
<1>1. UNCHANGED <<Exposed, Verdict>>
  BY DEF Exposed, Verdict
<1>2. ASSUME NEW c \in Conns, Connect(c)
      PROVE  Contract!Next
  <2>1. asked[c] = Nothing
    BY <1>2 DEF IInv, LoopInv, LoopTypeOK, Connect
  <2>2. Contract!Ask(c)
    BY <1>1, <1>2, <2>1 DEF Contract!Ask, Connect, Exposed, Verdict
  <2>3. QED BY <2>2 DEF Contract!Next
<1>3. CASE Accept \/ Kick \/ RaiseFlag
  BY <1>1, <1>3 DEF Accept, Kick, RaiseFlag
<1>4. QED BY <1>2, <1>3 DEF Listen

LEMMA StepMaps ==
  IInv /\ [Next]_vars => Contract!Next \/ UNCHANGED <<Exposed, asked, Verdict>>
<1>1. UNCHANGED vars => UNCHANGED <<Exposed, asked, Verdict>>
  BY DEF vars, loopVars, Exposed, Verdict
<1>2. QED BY <1>1, SolverMaps, HandleMaps, ListenMaps DEF Next, Shutdown

\* The server implements the responder's promise to the validator: a probe is
\* answered with its response exactly while that is exposed.
THEOREM ContractHolds == Spec => ContractImplemented
<1>1. Init => Contract!Init
  BY DEF Init, LoopInit, Contract!Init
<1>2. IInv /\ [Next]_vars => [Contract!Next]_(Contract!vars)
  BY StepMaps DEF Contract!vars, Exposed, Verdict
<1>3. QED
  BY <1>1, <1>2, InvariantHolds, PTL DEF Spec, ContractImplemented, Contract!Spec
=============================================================================
