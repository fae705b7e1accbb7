--------------------------- MODULE TlsAlpn01Server ---------------------------
(***************************************************************************)
(* TlsAlpn01Server (src/crates/testing/src/tls_server.rs): one slot for    *)
(* the certificate of "the current challenge", installed by arm, cleared   *)
(* by the drop of any handle, and handed to every acme-tls/1 handshake     *)
(* whatever name it asks for.  An order drives one challenge at a time     *)
(* (Issuance!ExposureWindow); several orders may share the server.         *)
(***************************************************************************)
EXTENDS AcceptLoop

CONSTANTS Orders      \* the orders that share the server

VARIABLES order,      \* the order each challenge belongs to; never changes
          armed,      \* the challenges whose handle is alive
          slot,       \* the challenge whose certificate is loaded, or Nothing
          shown,      \* what each handshake resolved to
          crowded     \* history: since the last time no handle was alive,
                      \* two of them have been

vars == <<loopVars, order, armed, slot, shown, crowded>>

Init ==
  /\ LoopInit
  /\ order \in [Challenges -> Orders]
  /\ armed = {}
  /\ slot = Nothing
  /\ shown = [c \in Conns |-> Nothing]
  /\ crowded = FALSE

Move(c, s) == conn' = [conn EXCEPT ![c] = s]

-----------------------------------------------------------------------------
(* TlsAlpn01SolverAdapter::arm, and the drop of its handle.                *)

\* The order drives no other challenge: the certificate replaces whatever is
\* loaded.
Install(ch) ==
  /\ ~flag
  /\ \A other \in armed : order[other] # order[ch]
  /\ armed' = armed \cup {ch}
  /\ slot' = ch
  /\ crowded' = (crowded \/ armed # {})
  /\ UNCHANGED <<loopVars, order, shown>>

\* Mutant: the drop leaves the slot alone.
KeepSlot(ch) ==
  /\ ch \in armed
  /\ armed' = armed \ {ch}
  /\ crowded' = (crowded /\ armed' # {})
  /\ UNCHANGED <<loopVars, order, slot, shown>>

\* Whatever is loaded is cleared, this handle's certificate or not.
Clear(ch) ==
  /\ ch \in armed
  /\ armed' = armed \ {ch}
  /\ slot' = Nothing
  /\ crowded' = (crowded /\ armed' # {})
  /\ UNCHANGED <<loopVars, order, shown>>

\* The last Arc goes: every handle has been dropped, and so has the adapter.
Shutdown ==
  /\ armed = {}
  /\ RaiseFlag
  /\ UNCHANGED <<order, armed, slot, shown, crowded>>

-----------------------------------------------------------------------------
(* handle_tls_connection, on the connection's own thread.                  *)

\* The ClientHello of an ACME validator: it gets the certificate in the slot.
Resolve(c) ==
  /\ conn[c] = "open"
  /\ Move(c, "shaking")
  /\ shown' = [shown EXCEPT ![c] = slot]
  /\ UNCHANGED <<asked, backlog, flag, dial, loop, order, armed, slot,
                 crowded>>

\* No acme-tls/1, nothing loaded, an I/O error, a timeout or the end.
Close(c) ==
  /\ conn[c] \in {"open", "shaking"}
  /\ Move(c, "closed")
  /\ UNCHANGED <<asked, backlog, flag, dial, loop, order, armed, slot,
                 shown, crowded>>

-----------------------------------------------------------------------------

Listen == (\E c \in Conns : Connect(c)) \/ Accept \/ Kick

Next ==
  \/ \E ch \in Challenges : Install(ch) \/ Clear(ch)
  \/ \E c \in Conns : Resolve(c) \/ Close(c)
  \/ Listen /\ UNCHANGED <<order, armed, slot, shown, crowded>>
  \/ Shutdown

Spec == Init /\ [][Next]_vars

-----------------------------------------------------------------------------
(* Properties.                                                             *)

\* The type of every variable; something is loaded only while a handle lives.
TypeOK ==
  /\ LoopTypeOK({"open", "shaking"})
  /\ order \in [Challenges -> Orders]
  /\ armed \in SUBSET Challenges
  /\ slot \in Challenges \cup {Nothing}
  /\ shown \in [Conns -> Challenges \cup {Nothing}]
  /\ crowded \in BOOLEAN
  /\ armed = {} => slot = Nothing /\ ~crowded

\* tls_server.rs:217-218: no stale material leaks: however many orders share
\* the server, a handshake is shown only the certificate of a challenge whose
\* handle is alive.
NoStaleCert ==
  [][\A c \in Conns : shown'[c] # shown[c] => shown'[c] \in armed]_vars

\* tls_server.rs:4-5, 140-142: as long as the orders take turns, a handshake
\* that asks for the armed challenge is shown its certificate, and a late one,
\* that asks for another challenge, is not shown that challenge's.
TurnsServed ==
  [][\A c \in Conns :
       conn[c] = "open" /\ conn'[c] = "shaking" /\ ~crowded
         => (shown'[c] = asked[c] <=> asked[c] \in armed)]_vars
==============================================================================
