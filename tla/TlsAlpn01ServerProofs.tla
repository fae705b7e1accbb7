------------------------ MODULE TlsAlpn01ServerProofs ------------------------
(***************************************************************************)
(* For any number of challenges, orders and connections: the single slot   *)
(* of TlsAlpn01Server never shows a certificate whose handle is gone, and  *)
(* serves orders that take turns.                                          *)
(***************************************************************************)
EXTENDS TlsAlpn01Server, AcceptLoopProofs

Handling == {"open", "shaking"}

\* What is loaded belongs to a live handle, and to the only one unless two of
\* them have been alive together.
SlotInv ==
  /\ slot \in armed \cup {Nothing}
  /\ ~crowded => \A ch \in armed : slot = ch

\* A connection has been shown nothing before its handshake.
Unshown ==
  \A c \in Conns :
    conn[c] \in {"unopened", "waiting", "open"} => shown[c] = Nothing

ServerTypeOK ==
  /\ order \in [Challenges -> Orders]
  /\ armed \in SUBSET Challenges
  /\ shown \in [Conns -> Challenges \cup {Nothing}]
  /\ crowded \in BOOLEAN
  /\ armed = {} => ~crowded

IInv == LoopInv(Handling) /\ ServerTypeOK /\ SlotInv /\ Unshown

LEMMA HandlingFacts == Handled(Handling) /\ "open" \in Handling
BY DEF Handled, Handling

-----------------------------------------------------------------------------
(* The invariant.                                                          *)

LEMMA InitIInv == Init => IInv
<1> SUFFICES ASSUME Init PROVE IInv
  OBVIOUS
<1>1. LoopInv(Handling)
  BY LoopStarts DEF Init
<1>2. ServerTypeOK /\ SlotInv /\ Unshown
  BY DEF Init, ServerTypeOK, SlotInv, Unshown
<1>3. QED BY <1>1, <1>2 DEF IInv

\* Loading replaces what is loaded; any handle's drop clears it.
LEMMA HandleKeepsIInv ==
  ASSUME IInv, NEW ch \in Challenges, Install(ch) \/ Clear(ch)
  PROVE  IInv'
<1> USE DEF IInv
<1>1. UNCHANGED <<loopVars, order, shown>>
  BY DEF Install, Clear
<1>2. LoopInv(Handling)'
  BY <1>1, StutterKeepsLoop
<1>3. Unshown'
  BY <1>1 DEF Unshown, loopVars
<1>4. ServerTypeOK'
  BY <1>1 DEF ServerTypeOK, Install, Clear
<1>5. SlotInv'
  <2>1. CASE Install(ch)
    BY <2>1 DEF SlotInv, ServerTypeOK, Install
  <2>2. CASE Clear(ch)
    BY <2>2 DEF SlotInv, ServerTypeOK, Clear
  <2>3. QED BY <2>1, <2>2
<1>6. QED BY <1>2, <1>3, <1>4, <1>5

\* A handshake is shown what is loaded, once.
LEMMA ConnectionKeepsIInv ==
  ASSUME IInv, NEW c \in Conns, Resolve(c) \/ Close(c)
  PROVE  IInv'
<1> USE DEF IInv
<1>1. UNCHANGED <<asked, backlog, flag, dial, loop, order, armed, slot, crowded>>
  BY DEF Resolve, Close
<1>2. PICK s \in {"shaking", "closed"} : conn' = [conn EXCEPT ![c] = s]
  BY DEF Resolve, Close, Move
<1>3. conn[c] \in Handling
  BY DEF Resolve, Close, Handling
<1>4. LoopInv(Handling)'
  BY <1>1, <1>2, <1>3, HandlingFacts, MoveKeepsLoop DEF Handling
<1>5. ServerTypeOK'
  BY <1>1 DEF ServerTypeOK, SlotInv, Resolve, Close
<1>6. SlotInv'
  BY <1>1 DEF SlotInv
<1>7. Unshown'
  BY <1>2 DEF Unshown, ServerTypeOK, LoopInv, LoopTypeOK, Resolve, Close
<1>8. QED BY <1>4, <1>5, <1>6, <1>7

\* The accept thread, a new connection and the end of the server.
LEMMA ListenKeepsIInv ==
  ASSUME IInv, Listen \/ RaiseFlag,
         UNCHANGED <<order, armed, slot, shown, crowded>>
  PROVE  IInv'
<1> USE DEF IInv
<1>1. LoopInv(Handling)'
  BY HandlingFacts, ConnectKeepsLoop, AcceptKeepsLoop, KickKeepsLoop,
     RaiseKeepsLoop DEF Listen
<1>2. ServerTypeOK' /\ SlotInv'
  BY DEF ServerTypeOK, SlotInv
<1>3. \A c \in Conns : conn'[c] = conn[c] \/ conn[c] \in {"unopened", "waiting"}
  <2>1. ASSUME NEW d \in Conns, Connect(d)
        PROVE  \A c \in Conns : conn'[c] = conn[c] \/ conn[c] = "unopened"
    BY <2>1 DEF Connect, LoopInv, LoopTypeOK
  <2>2. CASE Accept
    BY <2>2, HandlingFacts, AcceptKeepsLoop
  <2>3. CASE Kick \/ RaiseFlag
    BY <2>3 DEF Kick, RaiseFlag
  <2>4. QED BY <2>1, <2>2, <2>3 DEF Listen
<1>4. Unshown'
  BY <1>3 DEF Unshown
<1>5. QED BY <1>1, <1>2, <1>4

LEMMA NextIInv == IInv /\ [Next]_vars => IInv'
<1> SUFFICES ASSUME IInv, [Next]_vars PROVE IInv'
  OBVIOUS
<1>1. CASE UNCHANGED vars
  <2>1. LoopInv(Handling)'
    BY <1>1, StutterKeepsLoop DEF vars, IInv
  <2>2. QED BY <1>1, <2>1 DEF vars, loopVars, IInv, ServerTypeOK, SlotInv, Unshown
<1>2. CASE Next
  BY <1>2, HandleKeepsIInv, ConnectionKeepsIInv, ListenKeepsIInv
     DEF Next, Shutdown
<1>3. QED BY <1>1, <1>2

LEMMA InvariantHolds == Spec => []IInv
<1>1. QED BY InitIInv, NextIInv, PTL DEF Spec

-----------------------------------------------------------------------------

\* Every variable keeps its type, and nothing is loaded without a handle.
THEOREM TypeCorrect == Spec => []TypeOK
<1>1. IInv => TypeOK
  BY DEF IInv, LoopInv, ServerTypeOK, SlotInv, TypeOK, Handling
<1>2. QED BY <1>1, InvariantHolds, PTL

\* No wake-up that was sent is lost, for any backlog: once Drop's dial has
\* reached the listener's host, a thread still in accept has a connection to
\* return (tls_server.rs:163-165). A dial that was never sent wakes nobody.
THEOREM WakeUpHolds == Spec => []WakeUpWaits
<1>1. IInv => WakeUpWaits
  BY DEF IInv, LoopInv, Woken, WakeUpWaits
<1>2. QED BY <1>1, InvariantHolds, PTL

\* Only a resolve shows anything, and it shows what is in the slot.
LEMMA ShownIsLoaded ==
  ASSUME IInv, [Next]_vars, NEW c \in Conns, shown'[c] # shown[c]
  PROVE  conn[c] = "open" /\ shown[c] = Nothing /\ shown'[c] = slot
<1>1. PICK d \in Conns : Resolve(d)
  BY DEF Next, Install, Clear, Close, Shutdown, vars
<1>2. d = c /\ shown'[c] = slot
  BY <1>1 DEF Resolve, IInv, ServerTypeOK
<1>3. QED BY <1>1, <1>2 DEF Resolve, IInv, Unshown

\* However many orders share the server, a handshake is shown only the
\* certificate of a challenge whose handle is alive (tls_server.rs:217-218).
THEOREM NoStaleCertHolds == Spec => NoStaleCert
<1>1. IInv /\ [Next]_vars =>
        [\A c \in Conns : shown'[c] # shown[c] => shown'[c] \in armed]_vars
  <2>1. ASSUME IInv, [Next]_vars, NEW c \in Conns, shown'[c] # shown[c]
        PROVE  shown'[c] \in armed
    BY <2>1, ShownIsLoaded DEF IInv, SlotInv
  <2>2. QED BY <2>1
<1>2. QED BY <1>1, InvariantHolds, PTL DEF Spec, NoStaleCert

\* While orders take turns a handshake is shown the certificate it asks for
\* if, and only if, that is armed (tls_server.rs:4-5).
THEOREM TurnsServedHolds == Spec => TurnsServed
<1>1. IInv /\ [Next]_vars =>
        [\A c \in Conns :
           conn[c] = "open" /\ conn'[c] = "shaking" /\ ~crowded
             => (shown'[c] = asked[c] <=> asked[c] \in armed)]_vars
  <2>1. ASSUME IInv, [Next]_vars, NEW c \in Conns,
               conn[c] = "open", conn'[c] = "shaking", ~crowded
        PROVE  shown'[c] = asked[c] <=> asked[c] \in armed
    <3>1. asked[c] \in Challenges /\ asked[c] # Nothing
      BY <2>1 DEF IInv, LoopInv, LoopTypeOK
    <3>2. ~(Accept \/ \E d \in Conns : Connect(d) \/ Close(d))
      <4>1. ~Accept
        BY <2>1, HandlingFacts, AcceptKeepsLoop DEF IInv
      <4>2. \A d \in Conns : ~Connect(d) /\ ~Close(d)
        BY <2>1 DEF Connect, Close, Move, IInv, LoopInv, LoopTypeOK
      <4>3. QED BY <4>1, <4>2
    <3>3. PICK d \in Conns : Resolve(d)
      BY <2>1, <3>2 DEF Next, Listen, Install, Clear, Kick, Shutdown, RaiseFlag,
                        vars, loopVars
    <3>4. d = c /\ shown'[c] = slot
      BY <2>1, <3>3 DEF Resolve, Move, IInv, ServerTypeOK, LoopInv, LoopTypeOK
    <3>5. QED BY <2>1, <3>1, <3>4 DEF IInv, SlotInv
  <2>2. QED BY <2>1
<1>2. QED BY <1>1, InvariantHolds, PTL DEF Spec, TurnsServed
==============================================================================
