----------------------------- MODULE AcceptLoop -----------------------------
(***************************************************************************)
(* The accept thread that both responders run (accept_loop in src/crates/  *)
(* testing/src/http_server.rs and tls_server.rs) and how dropping the      *)
(* server ends it: raise the flag, then dial the listener once, best       *)
(* effort, so that a thread blocked in accept sees the flag.  The thread   *)
(* is never joined.                                                        *)
(*                                                                         *)
(* A connection waits in the kernel's backlog, is accepted, and then has a *)
(* thread of its own, which the module that extends this one models.       *)
(***************************************************************************)
EXTENDS Naturals, Sequences, FiniteSets

CONSTANTS Conns,      \* connections validators open, each once
          Challenges, \* what a connection may ask for
          Nothing,    \* it has not been opened
          Dummy,      \* the connection the server's Drop opens
          MaxBacklog  \* size of the kernel's backlog

ASSUME AcceptLoopAssumption ==
  /\ Nothing \notin Challenges
  /\ Dummy \notin Conns
  /\ MaxBacklog \in Nat \ {0}

VARIABLES conn,       \* the state of each connection
          asked,      \* the challenge it asks for
          backlog,    \* connections not accepted yet, oldest first
          flag,       \* the shutdown flag
          dial,       \* Drop's dial: "none" yet, "sent" or "unsent"
          loop        \* the accept thread: "running" or "ended"

loopVars == <<conn, asked, backlog, flag, dial, loop>>

LoopInit ==
  /\ conn = [c \in Conns |-> "unopened"]
  /\ asked = [c \in Conns |-> Nothing]
  /\ backlog = <<>>
  /\ flag = FALSE
  /\ dial = "none"
  /\ loop = "running"

\* A validator dials the listener; with a full backlog it has to wait.
Connect(c) ==
  /\ loop = "running"
  /\ conn[c] = "unopened"
  /\ Len(backlog) < MaxBacklog
  /\ \E ch \in Challenges : asked' = [asked EXCEPT ![c] = ch]
  /\ conn' = [conn EXCEPT ![c] = "waiting"]
  /\ backlog' = Append(backlog, c)
  /\ UNCHANGED <<flag, dial, loop>>

\* The flag is up: the loop breaks, the listener is closed and whatever waits
\* in its backlog is reset, the connection just accepted included.
EndLoop ==
  /\ loop' = "ended"
  /\ conn' = [c \in Conns |-> IF conn[c] = "waiting" THEN "closed" ELSE conn[c]]
  /\ backlog' = <<>>

\* accept returns the oldest connection, or an error for it.
Accept ==
  /\ loop = "running"
  /\ backlog # <<>>
  /\ \/ flag /\ EndLoop
     \/ /\ ~flag
        /\ backlog' = Tail(backlog)
        /\ \E s \in {"open", "closed"} :
             conn' = [c \in Conns |-> IF c = Head(backlog) THEN s ELSE conn[c]]
        /\ UNCHANGED loop
  /\ UNCHANGED <<asked, flag, dial>>

\* The last Arc of the server is dropped.
RaiseFlag ==
  /\ ~flag
  /\ flag' = TRUE
  /\ UNCHANGED <<conn, asked, backlog, dial, loop>>

\* Mutant: the flag alone is thought to be enough.
NoKick ==
  /\ flag /\ dial = "none"
  /\ dial' = "sent"
  /\ UNCHANGED <<conn, asked, backlog, flag, loop>>

\* The dial reaches the listener's host, where it finds room in the backlog, or
\* the backlog full or the listener closed.
Dialled ==
  /\ dial' = "sent"
  /\ backlog' = IF loop = "running" /\ Len(backlog) < MaxBacklog
                THEN Append(backlog, Dummy) ELSE backlog

\* The dial fails before that: no descriptor left, no route to the address the
\* listener was bound to, 500 milliseconds without a turn.
NotDialled == dial' = "unsent" /\ UNCHANGED backlog

\* Mutant: Drop dials the listener before it raises the flag.
KickFirst ==
  /\ dial = "none"
  /\ Dialled \/ NotDialled
  /\ UNCHANGED <<conn, asked, flag, loop>>

\* connect_timeout, whose result is thrown away.
Kick ==
  /\ flag /\ dial = "none"
  /\ Dialled \/ NotDialled
  /\ UNCHANGED <<conn, asked, flag, loop>>

\* The type of the accept loop's variables.
LoopTypeOK(states) ==
  /\ conn \in [Conns -> {"unopened", "waiting", "closed"} \cup states]
  /\ asked \in [Conns -> Challenges \cup {Nothing}]
  /\ backlog \in Seq(Conns \cup {Dummy}) /\ Len(backlog) <= MaxBacklog
  /\ flag \in BOOLEAN /\ dial \in {"none", "sent", "unsent"}
  /\ loop \in {"running", "ended"}
  /\ \A c \in Conns : asked[c] = Nothing <=> conn[c] = "unopened"
  /\ \A c \in Conns :
       conn[c] = "waiting" <=> \E i \in DOMAIN backlog : backlog[i] = c

\* No wake-up that was sent is lost: once Drop has raised the flag and its dial
\* has reached the listener's host, the thread has ended or accept has something
\* to return, whether the dial was queued, found the backlog full or came after
\* another connection had ended the thread (tls_server.rs:162-165,
\* http_server.rs:100-101).
WakeUpWaits == flag /\ dial = "sent" => loop = "ended" \/ backlog # <<>>

\* Dropping the server ends its thread, though nothing joins it and the result
\* of the dial is thrown away (http_server.rs:98-101): only a dial that was never
\* sent, with nobody else in the backlog, leaves the thread and its port.
AcceptLoopEnds ==
  flag ~> loop = "ended" \/ (dial = "unsent" /\ backlog = <<>>)
=============================================================================
