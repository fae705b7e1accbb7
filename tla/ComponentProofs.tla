--------------------------- MODULE ComponentProofs --------------------------
(***************************************************************************)
(* What the two components do at the boundary their bindings draw.         *)
(* For any room in the host and any bodies: WasiClient never drops or      *)
(* hands over a handle before its children, writes within its permits,     *)
(* returns Ok with whole responses only, and implements ExchangeContract.  *)
(* For any addresses, error variants and calls: every block of             *)
(* ProtocolComponent's memory has one owner and is freed once, and a host  *)
(* reads what was answered.                                                *)
(***************************************************************************)
EXTENDS WasiClient, ProtocolComponent, TLAPS

\* The imports by what they do to handles, and the resources by their roles.
USE DEF NewFields, NewRequest, RequestBody, SubscribeOutput, FinishBody,
        FinishRefused, HandleRefused, SubscribeResponse, GetResponse, Headers,
        GetErrorCode, Outcomes, ConsumeBody, BodyStream, SubscribeInput, Child,
        Take, Refusal, writing, reading, errors, hostVars
USE DEF Fields, OutgoingRequest, OutgoingBody, OutputStream, Pollable,
        FutureIncomingResponse, IncomingResponse, IncomingBody, InputStream

-----------------------------------------------------------------------------
(* The inductive invariant.                                                *)

\* The handles owned when an import is about to be called.
Scope ==
  [idle          |-> {},
   url           |-> {},
   headers       |-> {"fields"},
   request       |-> {"request"},
   write         |-> {"request", "outbody"},
   outpoll       |-> {"request", "outbody", "outstream"},
   wait          |-> {"request", "outbody", "outstream", "outpoll"},
   check         |-> {"request", "outbody", "outstream", "outpoll"},
   push          |-> {"request", "outbody", "outstream", "outpoll"},
   flush         |-> {"request", "outbody", "outstream", "outpoll"},
   drain         |-> {"request", "outbody", "outstream", "outpoll"},
   dropoutpoll   |-> {"request", "outbody", "outstream", "outpoll"},
   dropstream    |-> {"request", "outbody", "outstream"},
   finish        |-> {"request", "outbody"},
   handle        |-> {"request"},
   get           |-> {"future"},
   futpoll       |-> {"future"},
   future        |-> {"future", "futpoll"},
   dropfutpoll   |-> {"future", "futpoll", "incoming"},
   dropfuture    |-> {"future", "incoming"},
   inheaders     |-> {"incoming"},
   dropinheaders |-> {"incoming", "inheaders"},
   consume       |-> {"incoming"},
   dropincoming  |-> {"incoming", "inbody"},
   stream        |-> {"inbody"},
   inpoll        |-> {"inbody", "instream"},
   block         |-> {"inbody", "instream", "inpoll"},
   read          |-> {"inbody", "instream", "inpoll"}]

\* No child outlives its parent.
ParentsAlive == \A c \in live \cap DOMAIN ChildOf : ChildOf[c] \in live

InScope == pc # "unwind" => live = Scope[pc]

\* By the time the body is flushed there is nothing left of it.
Written ==
  pc \in {"flush", "drain", "dropoutpoll", "dropstream", "finish", "handle"}
    => left = 0

IInv ==
  /\ TypeOK
  /\ held + permit <= Capacity
  /\ InScope
  /\ ParentsAlive
  /\ Written
  /\ WholeReply

-----------------------------------------------------------------------------
(* Handles.                                                                *)

\* Who the five children are.
LEMMA Children ==
  /\ DOMAIN ChildOf = {"outstream", "outpoll", "inheaders", "instream", "inpoll"}
  /\ ChildOf["outstream"] = "outbody"
  /\ ChildOf["outpoll"] = "outstream"
  /\ ChildOf["inheaders"] = "incoming"
  /\ ChildOf["instream"] = "inbody"
  /\ ChildOf["inpoll"] = "instream"
BY DEF ChildOf

\* A child is younger than its parent.
LEMMA ChildYounger ==
  ASSUME NEW c \in DOMAIN ChildOf
  PROVE  /\ ChildOf[c] \in Handles
         /\ Age[c] \in Nat /\ Age[ChildOf[c]] \in Nat
         /\ Age[ChildOf[c]] < Age[c]
BY Children DEF Age, Handles

\* A handle may go when it has no child.
Childless(h) == \A c \in live \cap DOMAIN ChildOf : ChildOf[c] # h

\* What goes in a step had no children.
Orderly == \A h \in live \ live' : Childless(h)

LEMMA Untouched == live' = live => Orderly
BY DEF Orderly

\* While the request is composed, written and handed over.
LEMMA RequestingScope ==
  ASSUME IInv, Requesting
  PROVE  InScope' /\ pc' # "unwind" /\ Orderly
<1>1. CASE ParseUrl
  BY <1>1 DEF ParseUrl, Goto, Only, Make, IInv, InScope, Scope, Orderly, Childless
<1>2. CASE BuildRequest
  BY Children, <1>2 DEF BuildRequest, Goto, Only, Trade, IInv, InScope, Scope, Orderly, Childless
<1>3. CASE OpenBody
  BY <1>3 DEF OpenBody, Goto, Only, Make, IInv, InScope, Scope, Orderly, Childless
<1>4. CASE OpenStream
  BY <1>4 DEF OpenStream, Goto, Only, Write, Make, IInv, InScope, Scope, Orderly, Childless
<1>5. CASE SubscribeOut
  BY <1>5 DEF SubscribeOut, Goto, Only, Make, IInv, InScope, Scope, Orderly, Childless
<1>6. CASE AllWritten
  BY Untouched, <1>6 DEF AllWritten, Goto, Only, IInv, InScope, Scope
<1>7. CASE WaitWritable
  BY Untouched, <1>7 DEF WaitWritable, Goto, Only, IInv, InScope, Scope
<1>8. CASE CheckWrite
  BY Untouched, <1>8 DEF CheckWrite, Goto, Only, IInv, InScope, Scope
<1>9. CASE Backpressure
  BY Untouched, <1>9 DEF Backpressure, Goto, Only, IInv, InScope, Scope
<1>10. CASE Push
  BY Untouched, <1>10 DEF Push, Goto, Only, IInv, InScope, Scope
<1>11. CASE Flush
  BY Untouched, <1>11 DEF Flush, Goto, Only, IInv, InScope, Scope
<1>12. CASE FlushDone
  BY Untouched, <1>12 DEF FlushDone, Goto, Only, IInv, InScope, Scope
<1>13. CASE DropOutPoll
  BY Children, <1>13 DEF DropOutPoll, Goto, Only, Drop, IInv, InScope, Scope, Orderly, Childless
<1>14. CASE DropStream
  BY Children, <1>14 DEF DropStream, Goto, Only, Drop, IInv, InScope, Scope, Orderly, Childless
<1>15. CASE Finish
  BY Children, <1>15 DEF Finish, Goto, Only, Drop, IInv, InScope, Scope, Orderly, Childless
<1>16. CASE Dispatch
  BY Children, <1>16 DEF Dispatch, Goto, Only, Handle, Trade, IInv, InScope, Scope, Orderly, Childless
<1>17. QED BY <1>1, <1>2, <1>3, <1>4, <1>5, <1>6, <1>7, <1>8, <1>9, <1>10, <1>11, <1>12, <1>13, <1>14, <1>15, <1>16 DEF Requesting

\* While the response is waited for and read.
LEMMA RespondingScope ==
  ASSUME IInv, Responding, ~(ReadClosed \/ ReadFails)
  PROVE  InScope' /\ pc' # "unwind" /\ Orderly
<1>1. CASE GetNow
  BY <1>1 DEF GetNow, Goto, Only, Got, Make, IInv, InScope, Scope, Orderly, Childless
<1>2. CASE GetLater
  BY Untouched, <1>2 DEF GetLater, Goto, Only, IInv, InScope, Scope
<1>3. CASE SubscribeFuture
  BY <1>3 DEF SubscribeFuture, Goto, Only, Make, IInv, InScope, Scope, Orderly, Childless
<1>4. CASE GetAgain
  BY <1>4 DEF GetAgain, Goto, Only, Got, Make, IInv, InScope, Scope, Orderly, Childless
<1>5. CASE DropFutPoll
  BY Children, <1>5 DEF DropFutPoll, Goto, Only, Drop, IInv, InScope, Scope, Orderly, Childless
<1>6. CASE DropFuture
  BY Children, <1>6 DEF DropFuture, Goto, Only, Drop, IInv, InScope, Scope, Orderly, Childless
<1>7. CASE GetHeaders
  BY <1>7 DEF GetHeaders, Goto, Only, Make, IInv, InScope, Scope, Orderly, Childless
<1>8. CASE DropHeaders
  BY Children, <1>8 DEF DropHeaders, Goto, Only, Drop, IInv, InScope, Scope, Orderly, Childless
<1>9. CASE Consume
  BY <1>9 DEF Consume, Goto, Only, Make, IInv, InScope, Scope, Orderly, Childless
<1>10. CASE DropIncoming
  BY Children, <1>10 DEF DropIncoming, Goto, Only, Drop, IInv, InScope, Scope, Orderly, Childless
<1>11. CASE OpenReply
  BY <1>11 DEF OpenReply, Goto, Only, Make, IInv, InScope, Scope, Orderly, Childless
<1>12. CASE SubscribeIn
  BY <1>12 DEF SubscribeIn, Goto, Only, Make, IInv, InScope, Scope, Orderly, Childless
<1>13. CASE BlockRead
  BY Untouched, <1>13 DEF BlockRead, Goto, Only, IInv, InScope, Scope
<1>14. CASE ReadSome
  BY Untouched, <1>14 DEF ReadSome, Goto, Only, IInv, InScope, Scope
<1>15. CASE ReadNothing
  BY Untouched, <1>15 DEF ReadNothing, Goto, Only, IInv, InScope, Scope
<1>16. QED BY <1>1, <1>2, <1>3, <1>4, <1>5, <1>6, <1>7, <1>8, <1>9, <1>10, <1>11, <1>12, <1>13, <1>14, <1>15 DEF Responding


\* Errors keep what is owned, but for what the failing import took; unwinding
\* drops the youngest, which is nobody's parent.
LEMMA LeavingScope ==
  ASSUME IInv, Leaving
  PROVE  InScope' /\ ParentsAlive' /\ Orderly
<1>1. CASE ImportFails
  BY <1>1, Untouched DEF ImportFails, Return, IInv, InScope, ParentsAlive
<1>2. CASE FinishFails
  BY <1>2, Children DEF FinishFails, Return, Drop, IInv, InScope, Scope,
     ParentsAlive, Orderly, Childless
<1>3. CASE DispatchFails
  BY <1>3, Children DEF DispatchFails, Return, Drop, IInv, InScope, Scope,
     ParentsAlive, Orderly, Childless
<1>4. CASE NoReply
  BY <1>4, Untouched DEF NoReply, Return, IInv, InScope, ParentsAlive
<1>5. CASE Unwind
  <2>1. PICK h \in live : (\A o \in live : Age[o] <= Age[h]) /\ Drop(h)
    BY <1>5 DEF Unwind
  <2>2. ASSUME NEW c \in live \cap DOMAIN ChildOf
        PROVE  ChildOf[c] # h
    <3>1. ~(Age[c] <= Age[ChildOf[c]])
      BY ChildYounger
    <3>2. QED BY <2>1, <3>1
  <2>3. Orderly
    BY <2>1, <2>2 DEF Drop, Orderly, Childless
  <2>4. ParentsAlive'
    BY <2>1, <2>2 DEF Drop, ParentsAlive, IInv
  <2>5. InScope'
    BY <1>5 DEF Unwind, clientVars, InScope
  <2>6. QED BY <2>3, <2>4, <2>5
<1>6. CASE End
  BY <1>6, Untouched, Children DEF End, Only, Goto, IInv, InScope, Scope, ParentsAlive
<1>7. QED BY <1>1, <1>2, <1>3, <1>4, <1>5, <1>6 DEF Leaving

\* The two that return from read_response.
LEMMA ReadEndsScope ==
  ASSUME IInv, ReadClosed \/ ReadFails
  PROVE  InScope' /\ ParentsAlive' /\ Orderly
BY Untouched DEF ReadClosed, ReadFails, Return, IInv, InScope, ParentsAlive

\* Every location's handles come with their parents.
LEMMA ScopeClosed ==
  ASSUME NEW l \in Locations \ {"unwind"}, NEW c \in Scope[l] \cap DOMAIN ChildOf
  PROVE  ChildOf[c] \in Scope[l]
BY Children DEF Locations, Scope

\* Nothing else touches the handles.
LEMMA ScopeKept ==
  ASSUME IInv, [Next]_vars, pc' \in Locations
  PROVE  InScope' /\ ParentsAlive' /\ Orderly
<1>1. CASE Requesting
  BY <1>1, RequestingScope, ScopeClosed DEF InScope, ParentsAlive
<1>2. CASE Responding
  <2>1. CASE ReadClosed \/ ReadFails
    BY <2>1, ReadEndsScope
  <2>2. CASE ~(ReadClosed \/ ReadFails)
    BY <1>2, <2>2, RespondingScope, ScopeClosed DEF InScope, ParentsAlive
  <2>3. QED BY <2>1, <2>2
<1>3. CASE Leaving
  BY <1>3, LeavingScope
<1>4. CASE live' = live /\ (pc' = pc \/ Call)
  <2>1. CASE Call
    <3>1. pc = "idle" /\ pc' = "url"
      BY <2>1 DEF Call, Goto
    <3>2. QED
      BY <1>4, <3>1, Untouched DEF IInv, InScope, ParentsAlive, Scope
  <2>2. CASE pc' = pc
    BY <1>4, <2>2, Untouched DEF IInv, InScope, ParentsAlive
  <2>3. QED BY <1>4, <2>1, <2>2
<1>5. ASSUME Host /\ UNCHANGED clientVars
      PROVE  live' = live /\ pc' = pc
  BY <1>5 DEF Host, Drain, FlushEnds, Resolve, Deliver, EndReply, clientVars
<1>6. ASSUME UNCHANGED vars
      PROVE  live' = live /\ pc' = pc
  BY <1>6 DEF vars, clientVars
<1>7. Call => live' = live
  BY DEF Call
<1>8. QED
  BY <1>1, <1>2, <1>3, <1>4, <1>5, <1>6, <1>7 DEF Next, Step

-----------------------------------------------------------------------------
(* Numbers.                                                                *)

\* The part of the invariant that is not about handles.
Numbers ==
  /\ TypeOK
  /\ held + permit <= Capacity
  /\ Written
  /\ WholeReply

Sound == Numbers' /\ (held' > held => held' - held <= permit)

\* What a usize keeps of a permit is not more than the permit.
LEMMA NarrowBound ==
  ASSUME NEW n \in Nat
  PROVE  Narrow(n) \in 0..n
BY ClientAssumption DEF Narrow

LEMMA RequestingNumbers ==
  ASSUME Numbers, Requesting
  PROVE  Sound
<1>0. /\ Capacity \in Nat \ {0} /\ MaxReply \in Nat /\ MaxBody \in Nat
      /\ held \in Nat /\ permit \in Nat /\ left \in Nat
  BY HostAssumption, ClientAssumption DEF Numbers, TypeOK
<1>1. CASE \/ ParseUrl \/ BuildRequest \/ SubscribeOut \/ AllWritten
           \/ WaitWritable \/ FlushDone \/ DropOutPoll \/ DropStream
           \/ Finish
  <2>1. UNCHANGED <<eager, writing, reading, errors, left, result>>
    BY <1>1 DEF ParseUrl, BuildRequest, SubscribeOut, AllWritten, WaitWritable,
       FlushDone, DropOutPoll, DropStream, Finish, Only
  <2>2. /\ pc \in Locations \ {"unwind"} /\ pc' \in Locations \ {"unwind"}
        /\ Written'
    BY <1>1 DEF ParseUrl, BuildRequest, SubscribeOut, AllWritten, WaitWritable,
       FlushDone, DropOutPoll, DropStream, Finish, Only, Goto,
       Locations, Numbers, Written, Writable
  <2>3. live' \subseteq Handles
    BY <1>1 DEF ParseUrl, BuildRequest, SubscribeOut, AllWritten, WaitWritable,
       FlushDone, DropOutPoll, DropStream, Finish, Make, Trade, Drop,
       Handles, Numbers, TypeOK
  <2>4. QED
    BY <1>0, <2>1, <2>2, <2>3
    DEF Sound, Numbers, TypeOK, WholeReply
<1>2. CASE OpenBody
  BY <1>0, <1>2 DEF OpenBody, Goto, Make, Sound, Numbers,
     TypeOK, Written, WholeReply, Locations, Handles
<1>3. CASE OpenStream
  <2>1. flushing' \in BOOLEAN
    BY <1>3 DEF OpenStream, Write
  <2>2. QED
    BY <1>0, <1>3, <2>1 DEF OpenStream, Write, Goto, Make, Sound, Numbers,
       TypeOK, Written, WholeReply, Locations, Handles
<1>4. CASE CheckWrite
  <2>1. PICK n \in 1..(Capacity - held) : permit' = n /\ held' = held
    BY <1>4 DEF CheckWrite, Granted
  <2>2. n \in 0..Capacity /\ held + n <= Capacity /\ ~(held' > held)
    BY <1>0, <2>1
  <2>3. QED
    BY <1>0, <1>4, <2>1, <2>2 DEF CheckWrite, Goto, Sound, Numbers,
       TypeOK, Written, WholeReply, Locations
<1>5. CASE Backpressure
  <2>1. PICK n \in 0..(Capacity - held) : permit' = n /\ held' = held
    BY <1>0, <1>5 DEF Backpressure, Refused, Granted, Numbers, TypeOK
  <2>2. n \in 0..Capacity /\ held + n <= Capacity /\ ~(held' > held)
    BY <1>0, <2>1
  <2>3. QED
    BY <1>0, <1>5, <2>1, <2>2 DEF Backpressure, Goto, Sound, Numbers,
       TypeOK, Written, WholeReply, Locations
<1>6. CASE Push
  <2>1. Chunk \in 0..left /\ Chunk <= permit
    BY <1>0, NarrowBound DEF Chunk
  <2>2. held' = held + Chunk /\ permit' = 0 /\ left' = left - Chunk
    BY <1>6 DEF Push, Accept
  <2>3. QED
    BY <1>0, <1>6, <2>1, <2>2 DEF Push, Goto, Sound, Numbers,
       TypeOK, Written, WholeReply, Locations
<1>7. CASE Dispatch
  BY <1>0, <1>7 DEF Dispatch, Handle, Goto, Trade, Sound, Numbers,
     TypeOK, Written, WholeReply, Locations, Handles
<1>8. CASE Flush
  BY <1>0, <1>8 DEF Flush, FlushOutput, Goto, Sound, Numbers, TypeOK,
     Written, WholeReply, Locations
<1>9. QED
  BY <1>1, <1>2, <1>3, <1>4, <1>5, <1>6, <1>7, <1>8 DEF Requesting

LEMMA RespondingNumbers ==
  ASSUME Numbers, Responding
  PROVE  Sound
<1>0. /\ held \in Nat /\ permit \in Nat /\ sent \in Nat /\ got \in Nat
      /\ MaxReply \in Nat /\ Capacity \in Nat
  BY HostAssumption DEF Numbers, TypeOK
<1>1. CASE \/ GetNow \/ GetLater \/ SubscribeFuture \/ GetAgain \/ DropFutPoll
           \/ DropFuture \/ GetHeaders \/ DropHeaders \/ Consume
           \/ DropIncoming \/ OpenReply \/ SubscribeIn \/ BlockRead
           \/ ReadNothing
  <2>1. UNCHANGED <<eager, writing, reading, errors, left, result>>
    BY <1>1 DEF GetNow, GetLater, SubscribeFuture, GetAgain, Got, DropFutPoll,
       DropFuture, GetHeaders, DropHeaders, Consume, DropIncoming, OpenReply,
       SubscribeIn, BlockRead, ReadNothing, Only
  <2>2. pc' \in {"futpoll", "future", "dropfutpoll", "dropfuture",
                 "inheaders", "dropinheaders", "consume", "dropincoming",
                 "stream", "inpoll", "block", "read"}
    BY <1>1 DEF GetNow, GetLater, SubscribeFuture, GetAgain, DropFutPoll,
       DropFuture, GetHeaders, DropHeaders, Consume, DropIncoming, OpenReply,
       SubscribeIn, BlockRead, ReadNothing, Only, Goto
  <2>3. live' \subseteq Handles
    BY <1>1 DEF GetNow, GetLater, SubscribeFuture, GetAgain, Got, DropFutPoll,
       DropFuture, GetHeaders, DropHeaders, Consume, DropIncoming, OpenReply,
       SubscribeIn, BlockRead, ReadNothing, Make, Drop, Handles, Numbers, TypeOK
  <2>4. QED
    BY <1>0, <2>1, <2>2, <2>3 DEF Sound, Numbers, TypeOK, Written, WholeReply,
       Locations
<1>2. CASE ReadSome
  BY <1>0, <1>2 DEF ReadSome, ReadBytes, Goto, Sound, Numbers, TypeOK,
     Written, WholeReply, Locations
<1>3. CASE ReadClosed
  BY <1>0, <1>3 DEF ReadClosed, AtEnd, Readable, Return, Sound,
     Numbers, TypeOK, Written, WholeReply, Locations
<1>4. CASE ReadFails
  BY <1>0, <1>4 DEF ReadFails, Return, Sound,
     Numbers, TypeOK, Written, WholeReply, Locations
<1>5. QED BY <1>1, <1>2, <1>3, <1>4 DEF Responding

LEMMA OtherNumbers ==
  ASSUME Numbers, Leaving \/ Call \/ (Host /\ UNCHANGED clientVars)
                            \/ UNCHANGED vars
  PROVE  Sound
<1>0. /\ held \in Nat /\ permit \in Nat /\ sent \in Nat /\ got \in Nat
      /\ MaxReply \in Nat /\ Capacity \in Nat
  BY HostAssumption DEF Numbers, TypeOK
<1>1. CASE ImportFails \/ FinishFails \/ DispatchFails \/ NoReply
  BY <1>0, <1>1 DEF ImportFails, FinishFails, DispatchFails, NoReply, Return,
     Drop, Sound, Numbers, TypeOK, Written,
     WholeReply, Locations
<1>2. CASE Unwind
  BY <1>0, <1>2 DEF Unwind, Drop, clientVars, Sound, Numbers,
     TypeOK, Written, WholeReply, Locations
<1>3. CASE End
  BY <1>0, <1>3 DEF End, Only, Goto, Sound, Numbers, TypeOK,
     Written, WholeReply, Locations
<1>4. CASE Call
  BY <1>0, <1>4 DEF Call, Goto, Sound, Numbers, TypeOK,
     Written, WholeReply, Locations
<1>5. CASE (Drain \/ FlushEnds) /\ UNCHANGED clientVars
  <2>1. flushing' \in BOOLEAN
    BY <1>5 DEF Drain, FlushEnds, Numbers, TypeOK
  <2>2. QED
    BY <1>0, <1>5, <2>1 DEF Drain, FlushEnds, clientVars, Sound, Numbers,
       TypeOK, Written, WholeReply, Locations
<1>6. CASE (Resolve \/ Deliver \/ EndReply) /\ UNCHANGED clientVars
  BY <1>0, <1>6 DEF Resolve, Deliver, EndReply, StreamError, clientVars, Own,
     Sound, Numbers, TypeOK, Written, WholeReply, Locations
<1>7. CASE UNCHANGED vars
  BY <1>0, <1>7 DEF vars, clientVars, Sound, Numbers, TypeOK,
     Written, WholeReply
<1>8. QED
  BY <1>1, <1>2, <1>3, <1>4, <1>5, <1>6, <1>7 DEF Leaving, Host

-----------------------------------------------------------------------------
(* The theorems.                                                           *)

LEMMA InitSound == Init => IInv
<1>1. Init => flushing \in BOOLEAN /\ eager \in BOOLEAN
  BY DEF Init, HostInit
<1>2. QED
  BY <1>1, HostAssumption, ClientAssumption
  DEF Init, HostInit, IInv, TypeOK, InScope, Scope, ParentsAlive, Written,
      WholeReply, Locations, Handles

LEMMA StepSound ==
  ASSUME IInv, [Next]_vars
  PROVE  IInv' /\ Orderly /\ Sound
<1>1. Numbers
  BY DEF IInv, Numbers
<1>2. Sound
  BY <1>1, RequestingNumbers, RespondingNumbers, OtherNumbers DEF Next, Step
<1>3. pc' \in Locations
  BY <1>2 DEF Sound, Numbers, TypeOK
<1>4. QED BY <1>2, <1>3, ScopeKept DEF Sound, Numbers, IInv

LEMMA Invariance == Spec => []IInv
<1>1. IInv /\ [Next]_vars => IInv'
  BY StepSound
<1>2. QED BY <1>1, InitSound, PTL DEF Spec

\* Every variable keeps its type: the host's room is never overrun and no more
\* is read than has arrived (lib.rs:154-261).
THEOREM TypeCorrect == Spec => []TypeOK
<1>1. IInv => TypeOK
  BY DEF IInv
<1>2. QED BY <1>1, Invariance, PTL

\* Ok comes with the whole of a body that came to its end (lib.rs:241-256).
THEOREM RepliesWhole == Spec => []WholeReply
<1>1. IInv => WholeReply
  BY DEF IInv
<1>2. QED BY <1>1, Invariance, PTL

\* On every path, errors included, children go before their parents (lib.rs:
\* 107-261): no exchange makes the host trap by the order of its drops.
THEOREM HandlesOrderly == Spec => ChildrenGoFirst
<1>1. IInv /\ [Next]_vars =>
        [\A h \in live \ live' :
           \A c \in live \cap DOMAIN ChildOf : ChildOf[c] # h]_vars
  BY StepSound DEF Orderly, Childless
<1>2. QED BY <1>1, Invariance, PTL DEF Spec, ChildrenGoFirst

\* No write exceeds its permit, and no permit is used twice (lib.rs:162-178).
THEOREM PermitsKept == Spec => WithinPermit
<1>1. IInv /\ [Next]_vars => [held' > held => held' - held <= permit]_vars
  BY StepSound DEF Sound
<1>2. QED BY <1>1, Invariance, PTL DEF Spec, WithinPermit

\* The seven layouts, and where the parts of their payloads are.
LEMMA LayoutOf ==
  ASSUME NEW c \in Codes
  PROVE  \/ Layout(c) = Row(Nowhere, 0, 12, 14)
         \/ Layout(c) = Row(Nowhere, 4, 0, 1)
         \/ Layout(c) = Row(Nowhere, Nowhere, 0, 8)
         \/ Layout(c) = Row(Nowhere, Nowhere, 0, 4)
         \/ Layout(c) = Row(0, 4, 16, 20)
         \/ Layout(c) = Row(Nowhere, 0, 12, 16)
         \/ Layout(c) = Row(Nowhere, 0, Nowhere, Nowhere)
         \/ Layout(c) = Row(Nowhere, Nowhere, Nowhere, Nowhere)
BY ErrorCodeAssumption DEF Layout

\* Whatever was in the return area, a code that is lowered into it is lifted
\* out of it.
LEMMA LiftedAsLowered ==
  ASSUME NEW e \in ErrorCode, NEW w \in Garbage
  PROVE  LiftedCode(e.code, LoweredCode(e, w)) = e
<1> DEFINE l == Layout(e.code)
           u == LoweredCode(e, w)
<1>1. /\ e = [code |-> e.code, given |-> e.given, text |-> e.text,
              count |-> e.count]
      /\ e.code \in Codes /\ e.given \in BOOLEAN
      /\ e.text # Absent => e.text = <<e.text[1], e.text[2]>>
  BY ErrorCodeAssumption DEF ErrorCode
<1>2. /\ l.outer = Nowhere => e.given
      /\ e.text # Absent => e.given /\ l.text # Nowhere
      /\ e.count # Absent => e.given /\ l.tag # Nowhere
  BY DEF ErrorCode
<1>3. l.outer # Nowhere => u[l.outer] = Bit(e.given)
  BY <1>1, LayoutOf DEF LoweredCode, Row, Nowhere, Offsets
<1>4. ASSUME l.text # Nowhere, e.given
      PROVE  /\ u[l.text] = Bit(e.text # Absent)
             /\ e.text # Absent => /\ u[l.text + 4] = e.text[1]
                                  /\ u[l.text + 8] = e.text[2]
  <2>1. \/ /\ l.text = 0 /\ l.outer = Nowhere
           /\ \/ l.tag = 12 /\ l.count \in {14, 16}
              \/ l.tag = Nowhere /\ l.count = Nowhere
        \/ l.text = 4 /\ l.outer = Nowhere /\ l.tag = 0 /\ l.count = 1
        \/ l.text = 4 /\ l.outer = 0 /\ l.tag = 16 /\ l.count = 20
    BY <1>1, <1>4, LayoutOf DEF Row, Nowhere
  <2>2. u[l.text] = Bit(e.text # Absent)
    BY <1>4, <2>1 DEF LoweredCode, Nowhere, Offsets
  <2>3. ASSUME e.text # Absent
        PROVE  u[l.text + 4] = e.text[1]
    BY <1>4, <2>1, <2>3 DEF LoweredCode, Nowhere, Offsets
  <2>4. ASSUME e.text # Absent
        PROVE  u[l.text + 8] = e.text[2]
    BY <1>4, <2>1, <2>4 DEF LoweredCode, Nowhere, Offsets
  <2>5. QED BY <2>2, <2>3, <2>4
<1>5. ASSUME l.tag # Nowhere, e.given
      PROVE  /\ u[l.tag] = Bit(e.count # Absent)
             /\ e.count # Absent => u[l.count] = e.count
  <2>1. \/ l.text = 0 /\ l.tag = 12 /\ l.count \in {14, 16} /\ l.outer = Nowhere
        \/ l.text = 4 /\ l.tag = 0 /\ l.count = 1 /\ l.outer = Nowhere
        \/ l.text = Nowhere /\ l.tag = 0 /\ l.count \in {4, 8} /\ l.outer = Nowhere
        \/ l.text = 4 /\ l.tag = 16 /\ l.count = 20 /\ l.outer = 0
    BY <1>1, <1>5, LayoutOf DEF Row, Nowhere
  <2>2. e.text # Absent => l.text # Nowhere
    BY <1>2
  <2>3. u[l.tag] = Bit(e.count # Absent)
    BY <1>5, <2>1, <2>2 DEF LoweredCode, Nowhere, Offsets
  <2>4. e.count # Absent => u[l.count] = e.count
    BY <1>5, <2>1, <2>2 DEF LoweredCode, Nowhere, Offsets
  <2>5. QED BY <2>3, <2>4
<1>6. (l.outer # Nowhere => u[l.outer] = 1) = e.given
  BY <1>1, <1>2, <1>3 DEF Bit
<1>7. LiftedCode(e.code, u) = Lifted(e.code, u, e.given)
  BY <1>6 DEF LiftedCode
<1>8. /\ e.given /\ l.text # Nowhere /\ u[l.text] = 1 <=> e.text # Absent
      /\ e.given /\ l.tag # Nowhere /\ u[l.tag] = 1 <=> e.count # Absent
  BY <1>2, <1>4, <1>5 DEF Bit
<1>9. Lifted(e.code, u, e.given)
        = [code |-> e.code, given |-> e.given, text |-> e.text,
           count |-> e.count]
  BY <1>1, <1>2, <1>4, <1>5, <1>8 DEF Lifted
<1>10. QED BY <1>1, <1>7, <1>9

\* On every error of finish, handle and get the caller is told what the host
\* said, whatever the binding's return area held before (lib.rs:149-207).
THEOREM ErrorsTold == Spec => []ErrorTold
<1>1. Init => ErrorTold
  BY DEF Init, HostInit, ErrorTold
<1>2. ASSUME ErrorTold, [Next]_vars PROVE ErrorTold'
  <2>1. CASE Refusal
    BY <2>1, LiftedAsLowered DEF ErrorTold
  <2>2. CASE UNCHANGED errors
    BY <1>2, <2>2 DEF ErrorTold
  <2>3. CASE End
    BY <2>3 DEF End, ErrorTold
  <2>4. Requesting => UNCHANGED errors
    BY DEF Requesting, ParseUrl, BuildRequest, OpenBody, OpenStream,
       SubscribeOut, AllWritten, WaitWritable, CheckWrite, Backpressure, Push,
       Flush, FlushDone, DropOutPoll, DropStream, Finish, Dispatch, Only
  <2>5. Responding => UNCHANGED errors
    BY DEF Responding, GetNow, GetLater, SubscribeFuture, GetAgain, Got,
       DropFutPoll, DropFuture, GetHeaders, DropHeaders, Consume,
       DropIncoming, OpenReply, SubscribeIn, BlockRead, ReadSome, ReadNothing,
       ReadClosed, ReadFails, Only
  <2>6. Leaving => End \/ UNCHANGED errors \/ Refusal
    BY DEF Leaving, ImportFails, FinishFails, DispatchFails, NoReply, Unwind
  <2>7. Call \/ Host \/ UNCHANGED vars => UNCHANGED errors
    BY DEF Call, Host, Drain, FlushEnds, Resolve, Deliver, EndReply, vars
  <2>8. QED
    BY <1>2, <2>1, <2>2, <2>3, <2>4, <2>5, <2>6, <2>7 DEF Next, Step
<1>3. QED BY <1>1, <1>2, PTL DEF Spec

\* What an import does is one step of the contract or none.
LEMMA ContractStep ==
  ASSUME IInv, [Next]_vars
  PROVE  [Contract!Next]_(Contract!vars)
<1> USE DEF Contract!Next, Contract!vars
<1>0. left \in 0..MaxBody /\ MaxBody \in Nat
  BY ClientAssumption DEF IInv, TypeOK
<1>1. CASE Requesting
  <2>1. CASE Dispatch
    BY <1>0, <2>1 DEF Dispatch, Goto, Contract!Send, Phase, IInv, Written
  <2>2. CASE Push
    <3>1. permit \in Nat
      BY HostAssumption DEF IInv, TypeOK
    <3>2. left' \in 0..left
      BY <1>0, <2>2, <3>1, NarrowBound DEF Push, Chunk
    <3>3. QED BY <2>2, <3>2 DEF Push, Goto, Contract!Compose, Phase
  <2>3. CASE OpenBody \/ OpenStream \/ CheckWrite \/ Backpressure
    BY <2>3 DEF OpenBody, OpenStream, CheckWrite, Backpressure, Goto, Phase
  <2>4. CASE \/ ParseUrl \/ BuildRequest \/ SubscribeOut \/ AllWritten
             \/ WaitWritable \/ Flush \/ FlushDone \/ DropOutPoll
             \/ DropStream \/ Finish
    BY <2>4 DEF ParseUrl, BuildRequest, SubscribeOut, AllWritten, WaitWritable,
       Flush, FlushDone, DropOutPoll, DropStream, Finish, Only, Goto, Phase
  <2>5. QED BY <1>1, <2>1, <2>2, <2>3, <2>4 DEF Requesting
<1>2. CASE Responding
  <2>1. CASE GetNow \/ GetAgain
    BY <2>1 DEF GetNow, GetAgain, Got, Goto, Contract!Answer, Phase
  <2>2. CASE ReadClosed
    BY <2>2 DEF ReadClosed, Return, Contract!Succeed, Phase
  <2>3. CASE ReadFails
    BY <2>3 DEF ReadFails, Return, Contract!Fail, Phase
  <2>4. CASE \/ GetLater \/ SubscribeFuture \/ DropFutPoll \/ DropFuture
             \/ GetHeaders \/ DropHeaders \/ Consume \/ DropIncoming
             \/ OpenReply \/ SubscribeIn \/ BlockRead \/ ReadNothing
             \/ ReadSome
    BY <2>4 DEF GetLater, SubscribeFuture, DropFutPoll, DropFuture, GetHeaders,
       DropHeaders, Consume, DropIncoming, OpenReply, SubscribeIn, BlockRead,
       ReadNothing, ReadSome, Only, Goto, Phase
  <2>5. QED BY <1>2, <2>1, <2>2, <2>3, <2>4 DEF Responding
<1>3. CASE Leaving
  <2>1. CASE ImportFails \/ FinishFails \/ DispatchFails \/ NoReply
    BY <2>1 DEF ImportFails, Refusable, FinishFails, DispatchFails, NoReply,
       Return, Contract!Fail, Phase
  <2>2. CASE Unwind
    BY <2>2 DEF Unwind, clientVars, Phase
  <2>3. CASE End
    BY <2>3 DEF End, Only, Goto, Contract!Return, Phase
  <2>4. QED BY <1>3, <2>1, <2>2, <2>3 DEF Leaving
<1>4. CASE Call
  BY <1>4 DEF Call, Goto, Contract!Call, Phase
<1>5. CASE UNCHANGED clientVars
  BY <1>5 DEF clientVars, Phase
<1>6. QED
  BY <1>1, <1>2, <1>3, <1>4, <1>5 DEF Next, Step, vars

\* An exchange is one request sent whole or not at all, Ok only after the
\* answer has been read (lib.rs:75-94): WasiClient implements ExchangeContract.
THEOREM ContractRefined == Spec => ContractImplemented
<1>1. Init => Contract!Init
  BY DEF Init, Contract!Init, Phase
<1>2. IInv /\ [Next]_vars => [Contract!Next]_(Contract!vars)
  BY ContractStep
<1>3. QED
  BY <1>1, <1>2, Invariance, PTL DEF Spec, ContractImplemented, Contract!Spec

-----------------------------------------------------------------------------
(* ProtocolComponent.                                                      *)

\* What each interface's guest may answer.
Fits(i, a) ==
  \/ \E f, s \in Blocks \cup {Empty} :
       a = Ok(f, s) /\ (f = s => f = Empty)
  \/ i = "solver" /\ \E t \in Blocks \cup {Empty} : a = Err(None, t)
  \/ i = "orchestrator" /\ \E v \in Variants \cup {Http}, t \in Blocks \cup {Empty} :
                             a = Err(v, t)

\* What is freed when the words are w.
Pointers(i, w) ==
  {s \in FreedAt(i, w) : w[s + 1] # Length(Empty)}

\* The words hold a's texts, each freed once and with its length, and a host
\* that reads them reads a.
Holds(i, a, w) ==
  /\ w \in [0..4 -> Words]
  /\ {w[s] : s \in Pointers(i, w)} = Texts(a)
  /\ \A s \in Pointers(i, w) : w[s + 1] = Length(w[s])
  /\ \A r, s \in Pointers(i, w) : w[r] = w[s] => r = s
  /\ w[0] \in {"ok", "err"}
  /\ a = IF w[0] = "ok" THEN Ok(w[1], w[3])
         ELSE IF i = "solver" THEN Err(None, w[1])
         ELSE Err(w[1], IF w[1] = Http THEN w[3] ELSE w[2])

\* Whatever was in the area, lowering an answer leaves just that answer in it.
LEMMA LoweredHolds ==
  ASSUME NEW i \in {"solver", "orchestrator"},
         NEW a, Fits(i, a), NEW w \in [0..4 -> Words],
         NEW u, u = Lowered(i, a, w)
  PROVE  Holds(i, a, u)
<1> USE ProtocolAssumption DEF Length
<1> DEFINE Ptr == Blocks \cup {Empty}
           L(b) == Length(b)
<1>0. a # None
  BY DEF Fits, Answers
<1>1. ASSUME NEW f \in Ptr, NEW s \in Ptr, a = Ok(f, s),
             f = s => f = Empty
      PROVE  Holds(i, a, u)
  <2>1. u = [w EXCEPT ![0] = "ok", ![1] = f, ![2] = L(f), ![3] = s, ![4] = L(s)]
    BY <1>1 DEF Lowered, Ok, At
  <2>2. u[0] = "ok" /\ u[1] = f /\ u[2] = L(f) /\ u[3] = s /\ u[4] = L(s)
    BY <2>1
  <2>3. Pointers(i, u) = {r \in {1, 3} : u[r] # Empty}
    BY <2>2 DEF Pointers, FreedAt
  <2>4. u \in [0..4 -> Words]
    BY <1>1, <2>1 DEF Words
  <2>5. Texts(a) = {f, s} \ {Empty}
    BY <1>0, <1>1 DEF Texts, Ok
  <2>6. QED BY <1>1, <2>2, <2>3, <2>4, <2>5 DEF Holds
<1>2. ASSUME NEW t \in Ptr, i = "solver", a = Err(None, t)
      PROVE  Holds(i, a, u)
  <2>1. u = [w EXCEPT ![0] = "err", ![1] = t, ![2] = L(t)]
    BY <1>2 DEF Lowered, Err, At
  <2>2. u[0] = "err" /\ u[1] = t /\ u[2] = L(t)
    BY <2>1
  <2>3. Pointers(i, u) = {r \in {1} : u[r] # Empty}
    BY <1>2, <2>2 DEF Pointers, FreedAt
  <2>4. u \in [0..4 -> Words]
    BY <1>2, <2>1 DEF Words
  <2>5. Texts(a) = {t} \ {Empty}
    BY <1>0, <1>2 DEF Texts, Err
  <2>6. QED BY <1>2, <2>2, <2>3, <2>4, <2>5 DEF Holds
<1>3. ASSUME NEW v \in Variants, NEW t \in Ptr, i = "orchestrator",
             a = Err(v, t)
      PROVE  Holds(i, a, u)
  <2>1. u = [w EXCEPT ![0] = "err", ![1] = v, ![2] = t, ![3] = L(t)]
    BY <1>3 DEF Lowered, Err, At
  <2>2. u[0] = "err" /\ u[1] = v /\ u[2] = t /\ u[3] = L(t)
    BY <2>1
  <2>3. Pointers(i, u) = {r \in {2} : u[r] # Empty}
    BY <1>3, <2>2 DEF Pointers, FreedAt
  <2>4. u \in [0..4 -> Words]
    BY <1>3, <2>1 DEF Words
  <2>5. Texts(a) = {t} \ {Empty}
    BY <1>0, <1>3 DEF Texts, Err
  <2>6. QED BY <1>3, <2>2, <2>3, <2>4, <2>5 DEF Holds
<1>4. ASSUME NEW t \in Ptr, i = "orchestrator", a = Err(Http, t)
      PROVE  Holds(i, a, u)
  <2>1. u = [w EXCEPT ![0] = "err", ![1] = Http, ![2] = StatusWord, ![3] = t, ![4] = L(t)]
    BY <1>4 DEF Lowered, Err, At
  <2>2. u[0] = "err" /\ u[1] = Http /\ u[3] = t /\ u[4] = L(t)
    BY <2>1
  <2>3. Pointers(i, u) = {r \in {3} : u[r] # Empty}
    BY <1>4, <2>2 DEF Pointers, FreedAt
  <2>4. u \in [0..4 -> Words]
    BY <1>4, <2>1 DEF Words
  <2>5. Texts(a) = {t} \ {Empty}
    BY <1>0, <1>4 DEF Texts, Err
  <2>6. QED BY <1>4, <2>2, <2>3, <2>4, <2>5 DEF Holds
<1>5. QED BY <1>1, <1>2, <1>3, <1>4 DEF Fits

\* The answer under way is one of its interface's, has blocks of its own, and
\* is what the area holds once it is lowered; blocks are owned once.
PInv ==
  /\ ProtocolTypeOK
  /\ EveryBlockOwned
  /\ call = "solver" => spines = {}
  /\ answer # None => Fits(call, answer)
  /\ stage = "returned" => Holds(call, answer, area[call])

\* A new instance owns nothing.
LEMMA ProtocolStarts == ProtocolInit => PInv
<1> SUFFICES ASSUME ProtocolInit PROVE PInv
  OBVIOUS
<1>1. area \in [{"solver", "orchestrator"} -> [0..4 -> Words]]
  BY DEF ProtocolInit, Interfaces, Slots, Words
<1>2. ProtocolTypeOK
  BY <1>1 DEF ProtocolInit, ProtocolTypeOK, Interfaces, Slots
<1>3. EveryBlockOwned
  BY DEF ProtocolInit, EveryBlockOwned, Texts
<1>4. QED BY <1>2, <1>3 DEF PInv, ProtocolInit

\* Between two calls a box comes or goes.
LEMMA BoxesKept ==
  ASSUME PInv, Construct \/ Destroy
  PROVE  PInv'
<1> USE ProtocolAssumption DEF PInv
<1>1. /\ stage = "idle" /\ answer = None /\ lent = None
      /\ UNCHANGED <<guest, stage, call, lent, args, spines, answer, area>>
      /\ args = {} /\ Texts(answer) = {}
  BY DEF Construct, Destroy, ProtocolTypeOK, Texts
<1>2. ProtocolTypeOK'
  BY <1>1 DEF Construct, Destroy, ProtocolTypeOK, Free, Interfaces, Slots,
              Words
<1>3. EveryBlockOwned'
  BY <1>1 DEF Construct, Destroy, EveryBlockOwned, Free
<1>4. QED BY <1>1, <1>2, <1>3

\* The host enters with blocks that were free, and lists become the guest's.
LEMMA ArgumentsKept ==
  ASSUME PInv, CallResponderCert \/ CallIssueCertificate \/ LiftList
  PROVE  PInv'
<1> USE ProtocolAssumption DEF PInv
<1>1. /\ answer = None /\ stage' = "entered"
      /\ UNCHANGED <<guest, solvers, answer, area>>
      /\ Texts(answer) = {}
  BY DEF CallResponderCert, CallIssueCertificate,
         LiftList, Enter, ProtocolTypeOK, Texts
<1>2. CASE CallResponderCert \/ CallIssueCertificate
  <2>1. PICK i \in Interfaces, a \in SUBSET Free :
        \E l \in SUBSET a : (i = "solver" => l = {}) /\ Enter(i, a, l)
    <3>1. CASE CallResponderCert
      BY <3>1 DEF CallResponderCert, Arguments, Interfaces
    <3>2. CASE CallIssueCertificate
      BY <3>2 DEF CallIssueCertificate, Arguments, Interfaces
    <3>3. QED BY <1>2, <3>1, <3>2
  <2>2. PICK l \in SUBSET a : (i = "solver" => l = {}) /\ Enter(i, a, l)
    BY <2>1
  <2>3. lent' \in solvers \cup {None}
    BY <1>2 DEF CallResponderCert, CallIssueCertificate, ProtocolTypeOK
  <2>4. args = {}
    BY <2>2 DEF Enter, ProtocolTypeOK
  <2>5. ProtocolTypeOK'
    BY <1>1, <2>2, <2>3
       DEF Enter, ProtocolTypeOK, Free, Interfaces, Slots, Words
  <2>6. EveryBlockOwned'
    BY <1>1, <2>2, <2>4
       DEF Enter, EveryBlockOwned, Free
  <2>7. QED BY <1>1, <2>2, <2>5, <2>6 DEF Enter
<1>3. CASE LiftList
  <2>1. PICK l \in spines, v \in Free :
          /\ heap' = (heap \ {l}) \cup {v}
          /\ args' = (args \ {l}) \cup {v}
          /\ spines' = spines \ {l}
    BY <1>3 DEF LiftList
  <2>2. ProtocolTypeOK'
    BY <1>1, <1>3, <2>1
       DEF LiftList, ProtocolTypeOK, Free, Interfaces, Slots, Words
  <2>3. EveryBlockOwned'
    BY <1>1, <2>1 DEF EveryBlockOwned, Free, ProtocolTypeOK
  <2>4. QED BY <1>1, <1>3, <2>1, <2>2, <2>3 DEF LiftList
<1>4. QED BY <1>2, <1>3

\* The guest answers, in blocks that are free once its arguments are.
LEMMA AnswerKept ==
  ASSUME PInv, RespondCert \/ IssueCertificate
  PROVE  PInv'
<1> USE ProtocolAssumption DEF PInv
<1>1. stage = "entered" /\ answer = None /\ Texts(answer) = {}
  BY DEF RespondCert, IssueCertificate, ProtocolTypeOK, Texts
<1>2. PICK a : /\ Answer(a)
               /\ Fits(call, a)
               /\ Texts(a) \subseteq Room
               /\ a \in Answers
               /\ a # None
  <2>1. Room \subseteq Blocks
    BY DEF Room, Free, ProtocolTypeOK
  <2>2. ASSUME NEW f \in Room \cup {Empty},
               NEW s \in Room \cup {Empty}, f = s => f = Empty,
               Answer(Ok(f, s))
        PROVE  \E a : /\ Answer(a)
                      /\ Fits(call, a)
                      /\ Texts(a) \subseteq Room
                      /\ a \in Answers
                      /\ a # None
    <3>1. /\ Fits(call, Ok(f, s))
          /\ Ok(f, s) \in Answers
      BY <2>1, <2>2 DEF Fits, Answers
    <3>2. Texts(Ok(f, s)) \subseteq Room
      BY <3>1 DEF Texts, Ok
    <3>3. QED BY <2>2, <3>1, <3>2
  <2>3. ASSUME NEW v, NEW t \in Room \cup {Empty},
               \/ call = "solver" /\ v = None
               \/ call = "orchestrator" /\ v \in Variants \cup {Http},
               Answer(Err(v, t))
        PROVE  \E a : /\ Answer(a)
                      /\ Fits(call, a)
                      /\ Texts(a) \subseteq Room
                      /\ a \in Answers
                      /\ a # None
    <3>1. /\ Fits(call, Err(v, t))
          /\ Err(v, t) \in Answers
      BY <2>1, <2>3 DEF Fits, Answers
    <3>2. Texts(Err(v, t)) \subseteq Room
      BY <3>1 DEF Texts, Err
    <3>3. QED BY <2>3, <3>1, <3>2
  <2>4. CASE RespondCert
    BY <2>1, <2>2, <2>3, <2>4 DEF RespondCert
  <2>5. CASE IssueCertificate
    BY <2>2, <2>3, <2>5 DEF IssueCertificate
  <2>6. QED BY <2>4, <2>5
<1>3. /\ answer' = a /\ args' = {} /\ stage' = "answered"
      /\ heap' = (heap \ args) \cup Texts(a)
      /\ UNCHANGED <<guest, call, solvers, lent, spines, area>>
  BY <1>2 DEF Answer
<1>4. spines = {}
  BY <1>1 DEF RespondCert, IssueCertificate
<1>5. ProtocolTypeOK'
  BY <1>2, <1>3, <1>4
     DEF ProtocolTypeOK, Room, Free, Interfaces, Slots, Words
<1>6. EveryBlockOwned'
  BY <1>1, <1>2, <1>3
     DEF EveryBlockOwned, Room, Free
<1>7. QED BY <1>2, <1>3, <1>4, <1>5, <1>6

\* The answer is lowered over whatever earlier calls left in the area.
LEMMA LoweringKept ==
  ASSUME PInv, Lower
  PROVE  PInv'
<1> USE ProtocolAssumption DEF PInv
<1>1. /\ stage = "answered" /\ answer # None /\ stage' = "returned"
      /\ call \in {"solver", "orchestrator"}
      /\ UNCHANGED <<guest, call, heap, solvers, lent, args, spines, answer>>
      /\ area \in [{"solver", "orchestrator"} -> [0..4 -> Words]]
      /\ area' = [area EXCEPT ![call] = Lowered(call, answer, area[call])]
  BY DEF Lower, ProtocolTypeOK, Interfaces, Slots
<1>2. area'[call] = Lowered(call, answer, area[call])
  BY <1>1
<1>3. Holds(call, answer, area'[call])
  BY <1>1, <1>2, LoweredHolds
<1>4. ProtocolTypeOK'
  <2>1. area' \in [{"solver", "orchestrator"} -> [0..4 -> Words]]
    BY <1>1, <1>2, <1>3 DEF Holds
  <2>2. QED
    BY <1>1, <2>1 DEF ProtocolTypeOK, Interfaces, Slots, Words
<1>5. EveryBlockOwned'
  BY <1>1 DEF EveryBlockOwned, Texts
<1>6. QED BY <1>1, <1>3, <1>4, <1>5

\* What post-return frees are the answer's texts, and nothing is left of them.
LEMMA PostReturnKept ==
  ASSUME PInv, PostReturn
  PROVE  PInv'
<1> USE ProtocolAssumption DEF PInv
<1>1. /\ stage = "returned" /\ answer # None /\ args = {}
      /\ stage' = "idle" /\ answer' = None /\ lent' = None
      /\ UNCHANGED <<guest, call, solvers, args, spines, area>>
  BY DEF PostReturn, ProtocolTypeOK
<1>2. {area[call][s] : s \in Freed(call)} = Texts(answer)
  BY <1>1 DEF Holds, Pointers, Freed
<1>3. heap' = heap \ Texts(answer)
  BY <1>2 DEF PostReturn
<1>4. EveryBlockOwned'
  BY <1>1, <1>3 DEF EveryBlockOwned, Texts
<1>5. ProtocolTypeOK'
  BY <1>1, <1>3 DEF ProtocolTypeOK, Interfaces, Slots, Words
<1>6. QED BY <1>1, <1>4, <1>5

LEMMA ProtocolStep ==
  PInv /\ [ProtocolNext]_protocolVars => PInv'
<1> SUFFICES ASSUME PInv, [ProtocolNext]_protocolVars PROVE PInv'
  OBVIOUS
<1>1. CASE UNCHANGED protocolVars
  BY <1>1 DEF protocolVars, PInv, ProtocolTypeOK, EveryBlockOwned,
              Texts, Interfaces, Slots, Words
<1>2. CASE Trap
  BY <1>2 DEF Trap, PInv, ProtocolTypeOK, EveryBlockOwned,
              Texts, Interfaces, Slots, Words
<1>3. QED
  BY <1>1, <1>2, BoxesKept, ArgumentsKept, AnswerKept, LoweringKept,
     PostReturnKept
     DEF ProtocolNext

LEMMA ProtocolInvariance == ProtocolSpec => []PInv
<1>1. ProtocolInit => PInv
  BY ProtocolStarts
<1>2. PInv /\ [ProtocolNext]_protocolVars => PInv'
  BY ProtocolStep
<1>3. QED BY <1>1, <1>2, PTL DEF ProtocolSpec

\* Every variable keeps its type.
THEOREM ProtocolTypeCorrect == ProtocolSpec => []ProtocolTypeOK
<1>1. PInv => ProtocolTypeOK
  BY DEF PInv
<1>2. QED BY <1>1, ProtocolInvariance, PTL

\* Whatever a host calls, a block has one owner, and nothing but the solvers
\* is left between two calls.
THEOREM BlocksOwned == ProtocolSpec => []EveryBlockOwned
<1>1. PInv => EveryBlockOwned
  BY DEF PInv
<1>2. QED BY <1>1, ProtocolInvariance, PTL

\* The host reads what the guest answered, whatever was in the area before.
THEOREM AnswerSeen == ProtocolSpec => []HostSeesAnswer
<1>1. ASSUME PInv, stage = "returned" PROVE HostReads(call) = answer
  <2>1. Holds(call, answer, area[call])
    BY <1>1 DEF PInv
  <2>2. CASE area[call][0] = "ok"
    BY <2>1, <2>2 DEF Holds, HostReads
  <2>3. CASE area[call][0] = "err"
    BY <2>1, <2>3 DEF Holds, HostReads
  <2>4. QED BY <2>1, <2>2, <2>3 DEF Holds
<1>2. PInv => HostSeesAnswer
  BY <1>1 DEF HostSeesAnswer
<1>3. QED BY <1>2, ProtocolInvariance, PTL

\* Post-return frees live blocks, with their lengths, once each.
THEOREM FreedOnce == ProtocolSpec => []FreesOnce
<1>1. PInv => FreesOnce
  BY DEF PInv, Holds, Pointers, FreesOnce, Freed, EveryBlockOwned
<1>2. QED BY <1>1, ProtocolInvariance, PTL
=============================================================================
