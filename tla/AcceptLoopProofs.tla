-------------------------- MODULE AcceptLoopProofs --------------------------
(***************************************************************************)
(* What every step of the accept loop keeps, for any connections and any   *)
(* backlog: the type of its variables, that no connection waits twice and  *)
(* that no wake-up is lost.  The proofs about the two responders rest on   *)
(* it.                                                                     *)
(***************************************************************************)
EXTENDS AcceptLoop, TLAPS

Waiting(c) == \E i \in DOMAIN backlog : backlog[i] = c

\* The kernel queues a connection once, and the dial of Drop at most once.
QueuedOnce ==
  /\ \A i, j \in DOMAIN backlog : backlog[i] = backlog[j] => i = j
  /\ Waiting(Dummy) => dial = "sent"

\* The dial comes after the flag, and once it has reached the listener's host it
\* never leaves accept with nothing to return: when it was not queued, the
\* listener is gone or the backlog is full.
Woken ==
  /\ dial # "none" => flag
  /\ dial = "sent" => loop = "ended" \/ backlog # <<>>

LoopInv(states) == LoopTypeOK(states) /\ QueuedOnce /\ Woken

\* The states a server adds for the connections its threads handle.
Handled(states) == states \cap {"unopened", "waiting", "closed"} = {}

-----------------------------------------------------------------------------
(* The backlog as a sequence.                                              *)

\* A connection that is not in the backlog joins it at the end.
LEMMA AppendFacts ==
  ASSUME NEW S, NEW s \in Seq(S), NEW e \in S,
         \A i, j \in DOMAIN s : s[i] = s[j] => i = j,
         \A i \in DOMAIN s : s[i] # e
  PROVE  /\ Append(s, e) \in Seq(S)
         /\ Len(Append(s, e)) = Len(s) + 1
         /\ \A i, j \in DOMAIN Append(s, e) :
              Append(s, e)[i] = Append(s, e)[j] => i = j
         /\ \A x : (\E i \in DOMAIN Append(s, e) : Append(s, e)[i] = x)
                     <=> x = e \/ \E i \in DOMAIN s : s[i] = x
<1>1. /\ Append(s, e) \in Seq(S)
      /\ Len(Append(s, e)) = Len(s) + 1
      /\ DOMAIN s = 1..Len(s)
      /\ DOMAIN Append(s, e) = 1..(Len(s) + 1)
      /\ Len(s) \in Nat
  OBVIOUS
<1>2. \A i \in 1..(Len(s) + 1) :
        Append(s, e)[i] = IF i = Len(s) + 1 THEN e ELSE s[i]
  OBVIOUS
<1>3. \A i, j \in DOMAIN Append(s, e) :
        Append(s, e)[i] = Append(s, e)[j] => i = j
  BY <1>1, <1>2
<1>4. ASSUME NEW x
      PROVE  (\E i \in DOMAIN Append(s, e) : Append(s, e)[i] = x)
               <=> x = e \/ \E i \in DOMAIN s : s[i] = x
  BY <1>1, <1>2
<1>5. QED BY <1>1, <1>3, <1>4

\* The connection at the head leaves the backlog.
LEMMA TailFacts ==
  ASSUME NEW S, NEW s \in Seq(S), s # <<>>,
         \A i, j \in DOMAIN s : s[i] = s[j] => i = j
  PROVE  /\ Head(s) \in S
         /\ Tail(s) \in Seq(S)
         /\ Len(Tail(s)) = Len(s) - 1
         /\ \E i \in DOMAIN s : s[i] = Head(s)
         /\ \A i, j \in DOMAIN Tail(s) : Tail(s)[i] = Tail(s)[j] => i = j
         /\ \A x : (\E i \in DOMAIN Tail(s) : Tail(s)[i] = x)
                     <=> x # Head(s) /\ \E i \in DOMAIN s : s[i] = x
<1>1. /\ Len(s) \in Nat /\ Len(s) > 0
      /\ DOMAIN s = 1..Len(s)
      /\ Head(s) = s[1] /\ Head(s) \in S
      /\ Tail(s) \in Seq(S)
      /\ Len(Tail(s)) = Len(s) - 1
      /\ DOMAIN Tail(s) = 1..(Len(s) - 1)
  OBVIOUS
<1>2. \A i \in 1..(Len(s) - 1) : Tail(s)[i] = s[i + 1]
  OBVIOUS
<1>3. \A i, j \in DOMAIN Tail(s) : Tail(s)[i] = Tail(s)[j] => i = j
  BY <1>1, <1>2
<1>4. ASSUME NEW i \in DOMAIN Tail(s)
      PROVE  Tail(s)[i] # Head(s) /\ \E k \in DOMAIN s : s[k] = Tail(s)[i]
  <2>1. i + 1 \in DOMAIN s /\ i + 1 # 1 /\ Tail(s)[i] = s[i + 1]
    BY <1>1, <1>2
  <2>2. QED BY <1>1, <2>1
<1>5. ASSUME NEW i \in DOMAIN s, s[i] # Head(s)
      PROVE  \E k \in DOMAIN Tail(s) : Tail(s)[k] = s[i]
  <2>1. i - 1 \in DOMAIN Tail(s) /\ Tail(s)[i - 1] = s[i]
    BY <1>1, <1>2, <1>5
  <2>2. QED BY <2>1
<1>6. ASSUME NEW x
      PROVE  (\E i \in DOMAIN Tail(s) : Tail(s)[i] = x)
               <=> x # Head(s) /\ \E i \in DOMAIN s : s[i] = x
  BY <1>4, <1>5
<1>7. \E i \in DOMAIN s : s[i] = Head(s)
  BY <1>1
<1>8. QED BY <1>1, <1>3, <1>6, <1>7

-----------------------------------------------------------------------------
(* The steps.                                                              *)

\* Nothing waits when the server starts.
LEMMA LoopStarts ==
  ASSUME NEW states, LoopInit
  PROVE  LoopInv(states)
<1> USE AcceptLoopAssumption DEF LoopInit
<1>1. backlog \in Seq(Conns \cup {Dummy}) /\ Len(backlog) = 0 /\ DOMAIN backlog = {}
  OBVIOUS
<1>2. LoopTypeOK(states)
  <2>1. Len(backlog) <= MaxBacklog
    BY <1>1
  <2>2. \A c \in Conns : asked[c] = Nothing /\ conn[c] = "unopened"
    OBVIOUS
  <2>3. conn \in [Conns -> {"unopened", "waiting", "closed"} \cup states]
    OBVIOUS
  <2>4. QED BY <1>1, <2>1, <2>2, <2>3 DEF LoopTypeOK
<1>3. QueuedOnce
  BY <1>1 DEF QueuedOnce, Waiting
<1>4. Woken
  BY DEF Woken
<1>5. QED BY <1>2, <1>3, <1>4 DEF LoopInv

\* A validator joins the end of the backlog.
LEMMA ConnectKeepsLoop ==
  ASSUME NEW states, LoopInv(states), NEW c \in Conns, Connect(c)
  PROVE  LoopInv(states)'
<1> USE AcceptLoopAssumption DEF LoopInv
<1>1. /\ c \in Conns \cup {Dummy}
      /\ backlog \in Seq(Conns \cup {Dummy})
      /\ \A i, j \in DOMAIN backlog : backlog[i] = backlog[j] => i = j
      /\ \A i \in DOMAIN backlog : backlog[i] # c
  BY DEF LoopTypeOK, QueuedOnce, Connect
<1>2. /\ backlog' = Append(backlog, c)
      /\ Len(backlog) < MaxBacklog
      /\ UNCHANGED <<flag, dial, loop>>
  BY DEF Connect
<1>3. /\ backlog' \in Seq(Conns \cup {Dummy})
      /\ Len(backlog') = Len(backlog) + 1
      /\ \A i, j \in DOMAIN backlog' : backlog'[i] = backlog'[j] => i = j
  BY <1>1, <1>2, AppendFacts
<1>4. \A x : Waiting(x)' <=> x = c \/ Waiting(x)
  BY <1>1, <1>2, AppendFacts DEF Waiting
<1>5. PICK ch \in Challenges : asked' = [asked EXCEPT ![c] = ch]
  BY DEF Connect
<1>6. LoopTypeOK(states)'
  <2>1. /\ conn' \in [Conns -> {"unopened", "waiting", "closed"} \cup states]
        /\ asked' \in [Conns -> Challenges \cup {Nothing}]
        /\ \A d \in Conns : asked'[d] = Nothing <=> conn'[d] = "unopened"
    BY <1>5 DEF LoopTypeOK, Connect
  <2>2. \A d \in Conns : conn'[d] = "waiting" <=> Waiting(d)'
    BY <1>4 DEF LoopTypeOK, Connect, Waiting
  <2>3. Len(backlog) \in Nat /\ Len(backlog') <= MaxBacklog
    BY <1>1, <1>2, <1>3
  <2>4. QED BY <1>2, <1>3, <2>1, <2>2, <2>3 DEF LoopTypeOK, Waiting
<1>7. QueuedOnce'
  BY <1>2, <1>3, <1>4 DEF QueuedOnce
<1>8. Woken'
  <2>1. Len(backlog) \in Nat /\ backlog' # <<>>
    BY <1>1, <1>3
  <2>2. QED BY <1>2, <2>1 DEF Woken
<1>9. QED BY <1>6, <1>7, <1>8

\* Drop's dial joins the end of the backlog, once, if there is room.
LEMMA KickKeepsLoop ==
  ASSUME NEW states, LoopInv(states), Kick
  PROVE  LoopInv(states)'
<1> USE AcceptLoopAssumption DEF LoopInv
<1>1. /\ Dummy \in Conns \cup {Dummy}
      /\ backlog \in Seq(Conns \cup {Dummy})
      /\ \A i, j \in DOMAIN backlog : backlog[i] = backlog[j] => i = j
      /\ \A i \in DOMAIN backlog : backlog[i] # Dummy
  BY DEF LoopTypeOK, QueuedOnce, Kick, Waiting
<1>0. CASE NotDialled
  BY <1>0 DEF NotDialled, Kick, LoopTypeOK, QueuedOnce, Waiting, Woken
<1>2. CASE /\ dial' = "sent" /\ backlog' = backlog
           /\ ~(loop = "running" /\ Len(backlog) < MaxBacklog)
  <2>1. LoopTypeOK(states)' /\ QueuedOnce'
    BY <1>2 DEF Kick, LoopTypeOK, QueuedOnce, Waiting
  <2>2. loop = "ended" \/ backlog # <<>>
    BY <1>2 DEF LoopTypeOK
  <2>3. Woken'
    BY <1>2, <2>2 DEF Kick, Woken
  <2>4. QED BY <2>1, <2>3
<1>3. CASE dial' = "sent" /\ backlog' = Append(backlog, Dummy) /\ Len(backlog) < MaxBacklog
  <2>1. /\ backlog' \in Seq(Conns \cup {Dummy})
        /\ Len(backlog') = Len(backlog) + 1
        /\ \A i, j \in DOMAIN backlog' : backlog'[i] = backlog'[j] => i = j
    BY <1>1, <1>3, AppendFacts
  <2>2. \A x : Waiting(x)' <=> x = Dummy \/ Waiting(x)
    BY <1>1, <1>3, AppendFacts DEF Waiting
  <2>3. Len(backlog) \in Nat /\ Len(backlog') <= MaxBacklog
    BY <1>1, <1>3, <2>1
  <2>4. \A d \in Conns : conn'[d] = "waiting" <=> Waiting(d)'
    BY <2>2 DEF LoopTypeOK, Kick, Waiting
  <2>5. LoopTypeOK(states)'
    BY <1>3, <2>1, <2>3, <2>4 DEF LoopTypeOK, Kick, Waiting
  <2>6. QueuedOnce'
    BY <1>3, <2>1, <2>2 DEF QueuedOnce, Kick
  <2>7. Woken'
    BY <1>1, <1>3, <2>1 DEF Woken, Kick
  <2>8. QED BY <2>5, <2>6, <2>7
<1>4. QED BY <1>0, <1>2, <1>3 DEF Kick, Dialled

\* The accept thread takes the oldest connection, or ends.
LEMMA AcceptKeepsLoop ==
  ASSUME NEW states, "open" \in states, LoopInv(states), Accept
  PROVE  /\ LoopInv(states)'
         /\ \A c \in Conns : conn[c] # "waiting" => conn'[c] = conn[c]
         /\ \A c \in Conns : conn[c] = "waiting" =>
              conn'[c] \in {"waiting", "open", "closed"}
<1> USE AcceptLoopAssumption DEF LoopInv
<1>1. /\ backlog \in Seq(Conns \cup {Dummy}) /\ backlog # <<>>
      /\ \A i, j \in DOMAIN backlog : backlog[i] = backlog[j] => i = j
      /\ conn \in [Conns -> {"unopened", "waiting", "closed"} \cup states]
      /\ \A c \in Conns : conn[c] = "waiting" <=> Waiting(c)
  BY DEF LoopTypeOK, QueuedOnce, Accept, Waiting
<1>2. CASE flag /\ EndLoop
  <2>1. /\ backlog' = <<>> /\ backlog' \in Seq(Conns \cup {Dummy})
        /\ Len(backlog') = 0 /\ DOMAIN backlog' = {}
    BY <1>2 DEF EndLoop
  <2>2. \A c \in Conns : conn'[c] = IF conn[c] = "waiting" THEN "closed" ELSE conn[c]
    BY <1>2 DEF EndLoop
  <2>3. /\ conn' \in [Conns -> {"unopened", "waiting", "closed"} \cup states]
        /\ loop' = "ended" /\ UNCHANGED <<asked, flag, dial>>
    BY <1>1, <1>2 DEF EndLoop, Accept
  <2>4. LoopTypeOK(states)'
    BY <2>1, <2>2, <2>3 DEF LoopTypeOK
  <2>5. QueuedOnce'
    BY <2>1 DEF QueuedOnce, Waiting
  <2>6. Woken'
    BY <1>2, <2>3 DEF Woken
  <2>7. QED BY <2>2, <2>4, <2>5, <2>6
<1>3. ASSUME ~flag, backlog' = Tail(backlog),
             UNCHANGED <<loop, asked, flag, dial>>,
             NEW s \in {"open", "closed"},
             conn' = [c \in Conns |-> IF c = Head(backlog) THEN s ELSE conn[c]]
      PROVE  /\ LoopInv(states)'
             /\ \A c \in Conns : conn[c] # "waiting" => conn'[c] = conn[c]
             /\ \A c \in Conns : conn[c] = "waiting" =>
                  conn'[c] \in {"waiting", "open", "closed"}
  <2>1. /\ backlog' \in Seq(Conns \cup {Dummy})
        /\ Len(backlog') = Len(backlog) - 1
        /\ Waiting(Head(backlog))
        /\ \A i, j \in DOMAIN backlog' : backlog'[i] = backlog'[j] => i = j
    BY <1>1, <1>3, TailFacts DEF Waiting
  <2>2. \A x : Waiting(x)' <=> x # Head(backlog) /\ Waiting(x)
    <3>1. \A x : (\E i \in DOMAIN Tail(backlog) : Tail(backlog)[i] = x)
                  <=> x # Head(backlog) /\ \E i \in DOMAIN backlog : backlog[i] = x
      BY <1>1, TailFacts
    <3>2. QED BY <1>3, <3>1 DEF Waiting
  <2>3. Len(backlog) \in Nat /\ Len(backlog') <= MaxBacklog
    BY <1>1, <2>1 DEF LoopTypeOK
  <2>4. \A c \in Conns : conn'[c] = "waiting" <=> Waiting(c)'
    BY <1>1, <1>3, <2>2
  <2>5. /\ conn' \in [Conns -> {"unopened", "waiting", "closed"} \cup states]
        /\ \A c \in Conns : asked'[c] = Nothing <=> conn'[c] = "unopened"
    BY <1>1, <1>3, <2>1 DEF LoopTypeOK
  <2>6. LoopTypeOK(states)'
    BY <1>3, <2>1, <2>3, <2>4, <2>5 DEF LoopTypeOK, Waiting
  <2>7. QueuedOnce'
    BY <1>3, <2>1, <2>2 DEF QueuedOnce
  <2>8. Woken'
    BY <1>3 DEF Woken
  <2>9. QED BY <1>1, <1>3, <2>1, <2>6, <2>7, <2>8
<1>4. QED BY <1>2, <1>3 DEF Accept

\* Raising the flag touches nothing else.
LEMMA RaiseKeepsLoop ==
  ASSUME NEW states, LoopInv(states), RaiseFlag
  PROVE  LoopInv(states)'
BY DEF LoopInv, LoopTypeOK, QueuedOnce, Woken, Waiting, RaiseFlag

\* A server's thread moves a connection it handles to another of its states.
LEMMA MoveKeepsLoop ==
  ASSUME NEW states, LoopInv(states), Handled(states), NEW c \in Conns,
         conn[c] \in states, NEW s \in states \cup {"closed"},
         conn' = [conn EXCEPT ![c] = s],
         UNCHANGED <<asked, backlog, flag, dial, loop>>
  PROVE  LoopInv(states)'
<1> USE DEF LoopInv
<1>1. QueuedOnce' /\ Woken'
  BY DEF QueuedOnce, Woken, Waiting
<1>2. conn[c] \notin {"unopened", "waiting"} /\ s \notin {"unopened", "waiting"}
  BY DEF Handled
<1>3. LoopTypeOK(states)'
  BY <1>2 DEF LoopTypeOK
<1>4. QED BY <1>1, <1>3

\* A step that leaves the loop's variables alone.
LEMMA StutterKeepsLoop ==
  ASSUME NEW states, LoopInv(states), UNCHANGED loopVars
  PROVE  LoopInv(states)'
BY DEF LoopInv, LoopTypeOK, QueuedOnce, Woken, Waiting, loopVars
=============================================================================
