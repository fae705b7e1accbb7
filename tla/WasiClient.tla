----------------------------- MODULE WasiClient -----------------------------
(***************************************************************************)
(* WasiHttpClient (src/crates/http-client/src/lib.rs) over the host of     *)
(* WasiHttp: round_trip, write_all, dispatch_and_read and read_response,   *)
(* one call after the other.  Every call of an import that can fail fails  *)
(* at some time, and `?` then drops what is owned, the youngest first.     *)
(***************************************************************************)
EXTENDS WasiHttp

CONSTANTS MaxBody,    \* longest request body
          Word        \* how many values a usize has: 2^32 on wasm32

ASSUME ClientAssumption == MaxBody \in Nat /\ Word \in Nat /\ Word > 1

VARIABLES pc,         \* the next import the client calls
          left,       \* bytes of the request body not written yet
          result      \* "none" while running, then "ok" or "error"

clientVars == <<pc, left, result>>
vars == <<hostVars, clientVars>>

Locations == {"idle", "url", "headers", "request", "write", "outpoll",
              "wait", "check", "push", "flush", "drain", "dropoutpoll",
              "dropstream", "finish", "handle", "get", "futpoll", "future",
              "dropfutpoll", "dropfuture", "inheaders", "dropinheaders",
              "consume", "dropincoming", "stream", "inpoll", "block", "read",
              "unwind"}

Init ==
  /\ HostInit
  /\ pc = "idle"
  /\ left = 0
  /\ result = "none"

\* The order in which the locals and parameters that own handles come to be.
Age == [fields |-> 1, request |-> 2, outbody |-> 3, outstream |-> 4,
        outpoll |-> 5, future |-> 6, futpoll |-> 7, incoming |-> 8,
        inheaders |-> 9, inbody |-> 10, instream |-> 11, inpoll |-> 12]

Goto(from, to) == pc = from /\ pc' = to

\* A step that only works on handles.
Only(from, to) ==
  /\ Goto(from, to)
  /\ UNCHANGED <<eager, writing, reading, errors, left, result>>

\* `?` or return: what is owned by then is dropped on the way out.
Return(r) == pc' = "unwind" /\ result' = r

-----------------------------------------------------------------------------
(* head, get and post_jose; round_trip up to the body.                     *)

\* HEAD and GET have no body; one of length zero is not written either.
Call ==
  /\ Goto("idle", "url")
  /\ left' \in 0..MaxBody
  /\ result' = "none"
  /\ UNCHANGED hostVars

\* parse_url is before the first handle.
ParseUrl == Only("url", "headers") /\ NewFields

\* The host and content-type headers are appended, then new takes them.
BuildRequest ==
  Only("headers", "request") /\ Append /\ NewRequest

OpenBody ==
  /\ Goto("request", IF left = 0 THEN "finish" ELSE "write")
  /\ SetMethod /\ SetScheme /\ SetAuthority /\ SetPathWithQuery
  /\ RequestBody
  /\ UNCHANGED <<eager, writing, reading, errors, left, result>>

-----------------------------------------------------------------------------
(* write_all.                                                              *)

OpenStream ==
  /\ Goto("write", "outpoll")
  /\ Write
  /\ UNCHANGED <<eager, reading, errors, left, result>>

SubscribeOut == Only("outpoll", "wait") /\ SubscribeOutput

\* The loop's head: all is written, or wait until the host has room.
AllWritten == left = 0 /\ Only("wait", "flush") /\ UNCHANGED live

WaitWritable ==
  /\ left > 0
  /\ Block("outpoll", Writable)
  /\ Only("wait", "check")
  /\ UNCHANGED live

\* The permit `as usize`: the upper half of the u64 is cut off.
Narrow(n) == n % Word

CheckWrite ==
  /\ Goto("check", "push")
  /\ Granted
  /\ Narrow(permit') # 0
  /\ UNCHANGED <<live, eager, held, flushing, reading, errors, left, result>>

\* A permit of zero, or one that is zero as a usize: back to the loop's head.
Backpressure ==
  /\ Goto("check", "wait")
  /\ Refused \/ (Granted /\ Narrow(permit') = 0)
  /\ UNCHANGED <<live, eager, held, flushing, reading, errors, left, result>>

\* The rest of the body, as much of it as the permit allows.
Chunk == IF left <= Narrow(permit) THEN left ELSE Narrow(permit)

\* Mutant: a write is taken to be the last one.
PushOnce ==
  /\ Goto("push", "flush")
  /\ Accept(Chunk)
  /\ left' = left - Chunk
  /\ UNCHANGED <<live, eager, flushing, reading, errors, result>>

\* Mutant: the whole rest is written, whatever the permit.
PushAll ==
  /\ Goto("push", "wait")
  /\ Accept(left)
  /\ left' = 0
  /\ UNCHANGED <<live, eager, flushing, reading, errors, result>>

Push ==
  /\ Goto("push", "wait")
  /\ Accept(Chunk)
  /\ left' = left - Chunk
  /\ UNCHANGED <<live, eager, flushing, reading, errors, result>>

Flush ==
  /\ Goto("flush", "drain")
  /\ FlushOutput
  /\ UNCHANGED <<live, eager, held, permit, reading, errors, left, result>>

\* The pollable is ready when the flush is done and there is room again.
FlushDone ==
  /\ Block("outpoll", Writable)
  /\ Only("drain", "dropoutpoll")
  /\ UNCHANGED live

DropOutPoll == Only("dropoutpoll", "dropstream") /\ Drop("outpoll")

DropStream == Only("dropstream", "finish") /\ Drop("outstream")

-----------------------------------------------------------------------------
(* The rest of round_trip, and dispatch_and_read.                          *)

Finish == Only("finish", "handle") /\ FinishBody

Dispatch ==
  /\ Goto("handle", "get")
  /\ Handle
  /\ UNCHANGED <<eager, writing, errors, left, result>>

\* future.get() with an answer there: the response, or the exchange's error.
Got ==
  /\ GetResponse
  /\ UNCHANGED <<eager, writing, reading, errors, left, result>>

GetNow == Goto("get", "dropfuture") /\ Got

GetLater == GetNone /\ Only("get", "futpoll") /\ UNCHANGED live

SubscribeFuture ==
  Only("futpoll", "future") /\ SubscribeResponse

\* block, then the get that must have an answer by now.
GetAgain ==
  Goto("future", "dropfutpoll") /\ Block("futpoll", reply # "none") /\ Got

DropFutPoll == Only("dropfutpoll", "dropfuture") /\ Drop("futpoll")

DropFuture == Only("dropfuture", "inheaders") /\ Drop("future")

-----------------------------------------------------------------------------
(* read_response.                                                          *)

GetHeaders ==
  Only("inheaders", "dropinheaders") /\ Status /\ Headers

\* Mutant: the headers live to the end of the function.
KeepHeaders ==
  Only("dropinheaders", "consume") /\ Entries /\ UNCHANGED live

DropHeaders ==
  Only("dropinheaders", "consume") /\ Entries /\ Drop("inheaders")

Consume == Only("consume", "dropincoming") /\ ConsumeBody

DropIncoming == Only("dropincoming", "stream") /\ Drop("incoming")

OpenReply == Only("stream", "inpoll") /\ BodyStream

SubscribeIn == Only("inpoll", "block") /\ SubscribeInput

\* A pollable may be ready with nothing to read yet.
BlockRead ==
  Block("inpoll", TRUE) /\ Only("block", "read") /\ UNCHANGED live

ReadSome ==
  /\ Readable
  /\ Goto("read", "block")
  /\ ReadBytes
  /\ UNCHANGED <<live, eager, writing, reply, sent, flow, errors, left, result>>

ReadNothing == NoneYet /\ Only("read", "block") /\ UNCHANGED live

\* Mutant: closed is not told apart from an empty read.
ReadOn ==
  /\ AtEnd
  /\ Only("read", "block")
  /\ UNCHANGED live

\* Mutant: whatever ends the stream ends the body.
ReadAnyEnd ==
  /\ pc = "read"
  /\ AtEnd \/ Broken
  /\ Return("ok")
  /\ UNCHANGED <<hostVars, left>>

ReadClosed ==
  /\ pc = "read"
  /\ AtEnd
  /\ Return("ok")
  /\ UNCHANGED <<hostVars, left>>

ReadFails ==
  /\ pc = "read"
  /\ Broken
  /\ Return("error")
  /\ UNCHANGED <<hostVars, left>>

-----------------------------------------------------------------------------
(* Errors, and the way out.                                                *)

\* An import says no (or the URL was refused): what is owned stays so.
Refusable == {"url", "headers", "request", "write", "check", "push", "flush",
              "consume", "stream"}

ImportFails ==
  /\ pc \in Refusable
  /\ Return("error")
  /\ UNCHANGED <<hostVars, left>>

\* finish and handle take their argument even when they fail.
FinishFails ==
  /\ pc = "finish"
  /\ FinishRefused
  /\ Return("error")
  /\ UNCHANGED <<eager, writing, reading, left>>

DispatchFails ==
  /\ pc = "handle"
  /\ HandleRefused
  /\ Return("error")
  /\ UNCHANGED <<eager, writing, reading, left>>

\* The future resolved to an error.
NoReply ==
  /\ pc \in {"get", "future"}
  /\ GetErrorCode
  /\ Return("error")
  /\ UNCHANGED <<live, eager, writing, reading, left>>

Unwind ==
  /\ pc = "unwind"
  /\ \E h \in live : (\A o \in live : Age[o] <= Age[h]) /\ Drop(h)
  /\ UNCHANGED <<eager, writing, reading, errors, clientVars>>

\* The caller has the response or the error.
End ==
  /\ Goto("unwind", "idle")
  /\ live = {}
  /\ said' = NoCode /\ told' = NoCode
  /\ UNCHANGED <<live, eager, writing, reading, left, result>>

-----------------------------------------------------------------------------

Requesting ==
  \/ ParseUrl \/ BuildRequest \/ OpenBody \/ OpenStream \/ SubscribeOut
  \/ AllWritten \/ WaitWritable \/ CheckWrite \/ Backpressure \/ Push
  \/ Flush \/ FlushDone \/ DropOutPoll \/ DropStream \/ Finish \/ Dispatch

Responding ==
  \/ GetNow \/ GetLater \/ SubscribeFuture \/ GetAgain \/ DropFutPoll
  \/ DropFuture \/ GetHeaders \/ DropHeaders \/ Consume \/ DropIncoming
  \/ OpenReply \/ SubscribeIn \/ BlockRead \/ ReadSome \/ ReadNothing
  \/ ReadClosed \/ ReadFails

Leaving == ImportFails \/ FinishFails \/ DispatchFails \/ NoReply \/ Unwind \/ End

Step == Requesting \/ Responding \/ Leaving

Next == Call \/ Step \/ (Host /\ UNCHANGED clientVars)

Spec == Init /\ [][Next]_vars

\* The component runs; the host grants something that is not zero as a usize
\* in the end to who keeps asking, sends on what it can, ends a flush, resolves
\* every request it took and ends every body: handle is given no timeouts, so
\* this last is the host's to see to.
Fairness ==
  /\ WF_vars(Step)
  /\ SF_vars(CheckWrite)
  /\ WF_vars(Drain /\ UNCHANGED clientVars)
  /\ WF_vars(FlushEnds /\ UNCHANGED clientVars)
  /\ WF_vars(Resolve /\ UNCHANGED clientVars)
  /\ WF_vars(EndReply /\ UNCHANGED clientVars)

FairSpec == Spec /\ Fairness

-----------------------------------------------------------------------------
(* Properties.                                                             *)

\* The type of every variable.
TypeOK ==
  /\ live \subseteq Handles
  /\ eager \in BOOLEAN
  /\ held \in 0..Capacity
  /\ permit \in 0..Capacity
  /\ flushing \in BOOLEAN
  /\ reply \in {"none", "ready", "failed"}
  /\ sent \in 0..MaxReply
  /\ got \in 0..sent
  /\ flow \in {"open", "closed", "cut"}
  /\ said \in ErrorCode \cup {NoCode}
  /\ pc \in Locations
  /\ left \in 0..MaxBody
  /\ result \in {"none", "ok", "error"}

\* lib.rs:182-188 and the bindings' comments: a handle is dropped, finished or
\* handed over only when no child of it is alive, on every path: the host
\* traps otherwise, and the component is lost with it.
ChildrenGoFirst ==
  [][\A h \in live \ live' : \A c \in live \cap DOMAIN ChildOf : ChildOf[c] # h]_vars

\* lib.rs:162-178: a write takes no more than the last check_write granted,
\* and no permit is used twice: the host traps on either.
WithinPermit == [][held' > held => held' - held <= permit]_vars

\* lib.rs:241-256: Ok comes with every byte of a body that came to its end; a
\* body that breaks off is an error.
WholeReply ==
  pc = "unwind" /\ result = "ok" => flow = "closed" /\ got = sent

\* bindings.rs:5142-5665, 5749-6293, 6368-6900, lib.rs:149, 194, 207: the error
\* a caller is shown is the one the host answered, whatever the return area
\* held before: nothing is read under a tag that is zero.
ErrorTold == told = said

\* What a driver may take one exchange for.
Phase ==
  IF pc \in {"idle", "unwind"} THEN (IF pc = "idle" THEN "idle" ELSE "ended")
  ELSE IF pc \in {"get", "futpoll", "future"} THEN "sent"
  ELSE IF pc \in {"dropfutpoll", "dropfuture", "inheaders", "dropinheaders",
                  "consume", "dropincoming", "stream", "inpoll", "block",
                  "read"} THEN "answered"
  ELSE "composing"

Contract == INSTANCE ExchangeContract
              WITH phase <- Phase, unsent <- left, outcome <- result

ContractImplemented == Contract!Spec

\* A call ends, if the host takes the body while it is written or has room for
\* it and one byte more: the wait after the flush (lib.rs:184) is for its end
\* and for room.
ExchangeEnds ==
  pc = "url" /\ (eager \/ left < Capacity) ~> pc = "idle"
=============================================================================
