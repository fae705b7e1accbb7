---------------------------- MODULE Http01Server ----------------------------
(***************************************************************************)
(* Http01Server (src/crates/testing/src/http_server.rs), the solvers of    *)
(* any number of orders that share it, and the validators' connections.    *)
(*                                                                         *)
(* The mutex of the token map is held for one insert or remove, but        *)
(* handle_connection's `if let` keeps the guard of its lookup until the    *)
(* response has been written and the peer's last bytes were waited for: a  *)
(* slow peer makes arm and the handle's Drop wait, and no teardown         *)
(* overtakes a response that is being written.                             *)
(***************************************************************************)
EXTENDS AcceptLoop

CONSTANTS Tokens,     \* challenge tokens
          Token,      \* the token of each challenge
          Free        \* nobody holds the lock

\* The CA gives every challenge a token of its own.
ASSUME Http01Assumption ==
  /\ Token \in [Challenges -> Tokens]
  /\ \A c, d \in Challenges : Token[c] = Token[d] => c = d
  /\ Free \notin Conns

VARIABLES pc,         \* where the solver of each challenge is
          map,        \* the tokens that have an entry, their key authorization
          lock,       \* the connection that holds the map's mutex
          got         \* what each connection was answered

vars == <<loopVars, pc, map, lock, got>>

Init ==
  /\ LoopInit
  /\ pc = [ch \in Challenges |-> "idle"]
  /\ map = {}
  /\ lock = Free
  /\ got = [c \in Conns |-> "none"]

Goto(ch, l) == pc' = [pc EXCEPT ![ch] = l]
Move(c, s) == conn' = [conn EXCEPT ![c] = s]

-----------------------------------------------------------------------------
(* Http01SolverAdapter::arm, and the drop of its handle.  The adapter's    *)
(* owner keeps the server alive until it is dropped itself.                *)

\* The driver calls arm, which has to take the lock.
BeginArm(ch) ==
  /\ ~flag
  /\ pc[ch] = "idle"
  /\ Goto(ch, "arming")
  /\ UNCHANGED <<loopVars, map, lock, got>>

\* Mutant: arm returns without waiting for the map.
InsertLater(ch) ==
  /\ pc[ch] = "arming"
  /\ map' = IF lock = Free THEN map \cup {Token[ch]} ELSE map
  /\ Goto(ch, "armed")
  /\ UNCHANGED <<loopVars, lock, got>>

Insert(ch) ==
  /\ pc[ch] = "arming"
  /\ lock = Free
  /\ map' = map \cup {Token[ch]}
  /\ Goto(ch, "armed")
  /\ UNCHANGED <<loopVars, lock, got>>

\* The driver has its verdict, or an error: it drops the handle.
BeginDrop(ch) ==
  /\ pc[ch] = "armed"
  /\ Goto(ch, "dropping")
  /\ UNCHANGED <<loopVars, map, lock, got>>

\* Mutant: the whole map is cleared.
RemoveAll(ch) ==
  /\ pc[ch] = "dropping"
  /\ lock = Free
  /\ map' = {}
  /\ Goto(ch, "idle")
  /\ UNCHANGED <<loopVars, lock, got>>

Remove(ch) ==
  /\ pc[ch] = "dropping"
  /\ lock = Free
  /\ map' = map \ {Token[ch]}
  /\ Goto(ch, "idle")
  /\ UNCHANGED <<loopVars, lock, got>>

\* The last Arc goes: every handle has been dropped, and so has the adapter.
Shutdown ==
  /\ \A ch \in Challenges : pc[ch] = "idle"
  /\ RaiseFlag
  /\ UNCHANGED <<pc, map, lock, got>>

-----------------------------------------------------------------------------
(* handle_connection, on the connection's own thread.                      *)

\* The request line and the headers arrive, or the peer is too slow, closes,
\* or sends something other than a GET.
ReadRequest(c) ==
  /\ conn[c] = "open"
  /\ Move(c, "looking") \/ Move(c, "closed")
  /\ UNCHANGED <<asked, backlog, flag, dial, loop, pc, map, lock, got>>

\* Mutant: the guard is dropped before the response is written.
LookupReleases(c) ==
  /\ conn[c] = "looking"
  /\ lock = Free
  /\ IF Token[asked[c]] \in map
     THEN Move(c, "writing") /\ got' = [got EXCEPT ![c] = "200"]
     ELSE Move(c, "closed")  /\ got' = [got EXCEPT ![c] = "404"]
  /\ UNCHANGED <<asked, backlog, flag, dial, loop, pc, map, lock>>

\* A token without an entry gives the guard back before the 404 is written.
Lookup(c) ==
  /\ conn[c] = "looking"
  /\ lock = Free
  /\ IF Token[asked[c]] \in map
     THEN Move(c, "writing") /\ got' = [got EXCEPT ![c] = "200"] /\ lock' = c
     ELSE Move(c, "closed")  /\ got' = [got EXCEPT ![c] = "404"] /\ UNCHANGED lock
  /\ UNCHANGED <<asked, backlog, flag, dial, loop, pc, map>>

Release(c) == lock' = IF lock = c THEN Free ELSE lock

\* The response goes out, or the peer does not take it within five seconds.
Write(c) ==
  /\ conn[c] = "writing"
  /\ \/ Move(c, "draining") /\ UNCHANGED lock
     \/ Move(c, "closed") /\ Release(c)
  /\ UNCHANGED <<asked, backlog, flag, dial, loop, pc, map, got>>

\* The peer sends something or closes ...
PeerCloses(c) ==
  /\ conn[c] = "draining"
  /\ Move(c, "closed")
  /\ Release(c)
  /\ UNCHANGED <<asked, backlog, flag, dial, loop, pc, map, got>>

\* Mutant: a socket without a read timeout.
WaitForever(c) ==
  /\ conn[c] = "draining"
  /\ UNCHANGED vars

\* ... or the last read times out.
DrainTimesOut(c) ==
  /\ conn[c] = "draining"
  /\ Move(c, "closed")
  /\ Release(c)
  /\ UNCHANGED <<asked, backlog, flag, dial, loop, pc, map, got>>

-----------------------------------------------------------------------------

Solver(ch) == BeginArm(ch) \/ Insert(ch) \/ BeginDrop(ch) \/ Remove(ch)

Handle(c) ==
  \/ ReadRequest(c) \/ Lookup(c) \/ Write(c)
  \/ PeerCloses(c) \/ DrainTimesOut(c)

Listen == (\E c \in Conns : Connect(c)) \/ Accept \/ Kick

Next ==
  \/ \E ch \in Challenges : Solver(ch)
  \/ \E c \in Conns : Handle(c)
  \/ Listen /\ UNCHANGED <<pc, map, lock, got>>
  \/ Shutdown

\* Threads run: the accept thread, the dropping thread's dial, solvers that
\* want the lock, and connections, whose sockets have timeouts.  Nobody has to
\* connect, to close, to arm or to drop.
Fairness ==
  /\ WF_vars(Accept /\ UNCHANGED <<pc, map, lock, got>>)
  /\ WF_vars(Kick /\ UNCHANGED <<pc, map, lock, got>>)
  /\ \A ch \in Challenges : WF_vars(Insert(ch)) /\ WF_vars(Remove(ch))
  /\ \A c \in Conns : WF_vars(Write(c)) /\ WF_vars(DrainTimesOut(c))

Spec == Init /\ [][Next]_vars
FairSpec == Spec /\ Fairness

-----------------------------------------------------------------------------
(* Properties.                                                             *)

Up == {ch \in Challenges : pc[ch] \in {"armed", "dropping"}}

\* The type of every variable; the lock is held exactly by the connection that
\* is writing or draining.
TypeOK ==
  /\ LoopTypeOK({"open", "looking", "writing", "draining"})
  /\ pc \in [Challenges -> {"idle", "arming", "armed", "dropping"}]
  /\ map \in SUBSET Tokens
  /\ lock \in Conns \cup {Free}
  /\ got \in [Conns -> {"none", "200", "404"}]
  /\ \A c \in Conns : conn[c] \in {"writing", "draining"} <=> lock = c

\* http_server.rs:199-204: from the moment arm returns until the handle's drop
\* has run, and then no longer, the server has the response, whatever other
\* orders arm and drop on it.
ArmedIsServed == \A ch \in Challenges : ch \in Up <=> Token[ch] \in map

\* http_server.rs:162-163: no response is on the wire once its handle is
\* dropped: the drop waits for the response that is being written.
NothingAfterTeardown ==
  \A c \in Conns : conn[c] \in {"writing", "draining"} => asked[c] \in Up

\* A probe is answered with its response exactly while that is exposed.
Contract ==
  INSTANCE ResponderContract WITH
    Probes <- Conns,
    exposed <- {ch \in Challenges : Token[ch] \in map},
    verdict <- [c \in Conns |-> IF got[c] = "200" THEN "right"
                                ELSE IF got[c] = "404" THEN "wrong" ELSE "none"]

ContractImplemented == Contract!Spec

\* http_server.rs:136-137: whatever a peer does with its connection, arm and
\* drop get the lock.
SolversProceed ==
  \A ch \in Challenges : /\ pc[ch] = "arming" ~> pc[ch] = "armed"
                         /\ pc[ch] = "dropping" ~> pc[ch] = "idle"
=============================================================================
