------------------------------ MODULE WasiHttp ------------------------------
(***************************************************************************)
(* The wasi:http host as a component sees it through the generated         *)
(* bindings (src/crates/http-client/src/bindings.rs): which handle each    *)
(* import needs, makes and takes, what it may answer, and when a pollable  *)
(* is ready.  One exchange is under way at a time, so a handle is named    *)
(* for its role in it; its error codes are those of WasiErrorCode.         *)
(*                                                                         *)
(* How the host works inside is external.  An "eager" host passes the      *)
(* request body on while it is written; a "buffering" one keeps it until   *)
(* the request is handled, and has room for less than Capacity + 1 bytes.  *)
(***************************************************************************)
EXTENDS WasiErrorCode

CONSTANTS Capacity,   \* bytes of a request body the host can hold
          MaxReply,   \* longest response body (bounds a TLC run)
          NoCode      \* no error code

ASSUME HostAssumption ==
  /\ Capacity \in Nat \ {0}
  /\ MaxReply \in Nat
  /\ NoCode \notin ErrorCode

VARIABLES live,       \* the handles the component owns
          eager,      \* the host passes the body on while it is written
          held,       \* bytes written that the host still holds
          permit,     \* what the last check_write granted, a u64
          flushing,   \* a flush of the request body is under way
          reply,      \* "none", "ready" or "failed"
          sent,       \* bytes of the response body that have arrived
          got,        \* bytes of them the component has read
          flow,       \* the response body: "open", "closed" or "cut"
          said,       \* history: the error code the host answered
          told        \* history: the one that came out of the bindings

writing == <<held, permit, flushing>>
reading == <<reply, sent, got, flow>>
errors == <<said, told>>
hostVars == <<live, eager, writing, reading, errors>>

\* What each handle is a child of, by the bindings' comments: it must be gone
\* before its parent is dropped, finished or handed over.
ChildOf ==
  [outstream  |-> "outbody",
   outpoll    |-> "outstream",
   inheaders  |-> "incoming",
   instream   |-> "inbody",
   inpoll     |-> "instream"]

\* The resources, each with the roles its handles have in an exchange.
Fields == {"fields", "inheaders"}
OutgoingRequest == {"request"}
OutgoingBody == {"outbody"}
OutputStream == {"outstream"}
FutureIncomingResponse == {"future"}
IncomingResponse == {"incoming"}
IncomingBody == {"inbody"}
InputStream == {"instream"}
Pollable == {"outpoll", "futpoll", "inpoll"}

Handles ==
  UNION {Fields, OutgoingRequest, OutgoingBody, OutputStream, Pollable,
         FutureIncomingResponse, IncomingResponse, IncomingBody, InputStream}

\* What a response's body may end with: the two of StreamError.
StreamError == {"closed", "cut"}

\* What a request may end with: a response, or an error code.
Outcomes == {"ready", "failed"}

HostInit ==
  /\ live = {}
  /\ eager \in BOOLEAN
  /\ held = 0
  /\ permit = 0
  /\ flushing = FALSE
  /\ reply = "none"
  /\ sent = 0
  /\ got = 0
  /\ flow = "open"
  /\ said = NoCode
  /\ told = NoCode

-----------------------------------------------------------------------------
(* Handles.                                                                *)

Own(h) == h \in live
Make(h) == live' = live \cup {h}
Drop(h) == live' = live \ {h}

\* A call on a handle that makes another one.
Child(h, new) == Own(h) /\ Make(new)

\* A call that takes one handle for another.
Trade(h, new) == Own(h) /\ live' = (live \ {h}) \cup {new}

\* A call that takes a handle and makes none.
Take(h) == Own(h) /\ Drop(h)

\* The host answers an error code in whatever area it was handed.
Refusal ==
  \E e \in ErrorCode, w \in Garbage :
    /\ said' = e
    /\ told' = LiftedCode(e.code, LoweredCode(e, w))

-----------------------------------------------------------------------------
(* The request.                                                            *)

NewFields == Make("fields")
Append == Own("fields")
NewRequest == Trade("fields", "request")
SetMethod == Own("request")
SetScheme == Own("request")
SetAuthority == Own("request")
SetPathWithQuery == Own("request")
RequestBody == Child("request", "outbody")

\* finish takes the body, and does so when it answers an error code.
FinishBody == Take("outbody")
FinishRefused == Take("outbody") /\ Refusal

-----------------------------------------------------------------------------
(* The request body's stream.                                              *)

\* OutgoingBody::write: the body's stream.
Write ==
  /\ Child("outbody", "outstream")
  /\ held' = 0 /\ permit' = 0 /\ flushing' = FALSE

SubscribeOutput == Child("outstream", "outpoll")

\* The stream's pollable is ready: no flush is under way, and there is room.
Writable == ~flushing /\ held < Capacity

\* check_write grants some of the room there is, or none; none in a flush.
Granted ==
  /\ Own("outstream")
  /\ ~flushing
  /\ permit' \in 1..(Capacity - held)
Refused == Own("outstream") /\ permit' = 0

\* OutputStream::write takes n bytes out of what was granted.
Accept(n) == Own("outstream") /\ held' = held + n /\ permit' = 0

\* No more is taken until what was written is flushed.
FlushOutput == Own("outstream") /\ flushing' = TRUE

\* An eager host sends on what it holds.
Drain ==
  /\ eager
  /\ held > 0
  /\ held' = 0
  /\ UNCHANGED <<live, eager, permit, flushing, reading, errors>>

\* The flush is done: an eager host has sent all; a buffering one has got it.
FlushEnds ==
  /\ flushing
  /\ eager => held = 0
  /\ flushing' = FALSE
  /\ UNCHANGED <<live, eager, held, permit, reading, errors>>

-----------------------------------------------------------------------------
(* The exchange.                                                           *)

\* outgoing_handler::handle takes the request and gives a future.
Handle == /\ Trade("request", "future")
          /\ reply' = "none" /\ sent' = 0 /\ got' = 0 /\ flow' = "open"

\* It keeps the request when it answers an error code, too.
HandleRefused == Take("request") /\ Refusal

Resolve ==
  /\ Own("future")
  /\ reply = "none"
  /\ reply' \in Outcomes
  /\ UNCHANGED <<live, eager, writing, sent, got, flow, errors>>

SubscribeResponse == Child("future", "futpoll")

\* FutureIncomingResponse::get: nothing yet, the response, an error code.
GetNone == Own("future") /\ reply = "none"
GetResponse == reply = "ready" /\ Child("future", "incoming")
GetErrorCode == Own("future") /\ reply = "failed" /\ Refusal

-----------------------------------------------------------------------------
(* The response.                                                           *)

Status == Own("incoming")
Headers == Child("incoming", "inheaders")
Entries == Own("inheaders")
ConsumeBody == Child("incoming", "inbody")
BodyStream == Child("inbody", "instream")
SubscribeInput == Child("instream", "inpoll")

\* Pollable::block returns once the pollable is ready.
Block(p, ready) == Own(p) /\ ready

Deliver ==
  /\ reply = "ready"
  /\ flow = "open"
  /\ sent < MaxReply
  /\ sent' = sent + 1
  /\ UNCHANGED <<live, eager, writing, reply, got, flow, errors>>

\* The body is over: its end has arrived, or the connection was lost.
EndReply ==
  /\ reply = "ready"
  /\ flow = "open"
  /\ flow' \in StreamError
  /\ UNCHANGED <<live, eager, writing, reply, sent, got, errors>>

\* What InputStream::read may answer: bytes, an empty list, closed, failed.
Readable == got < sent
ReadBytes == got' \in (got + 1)..sent
NoneYet == ~Readable /\ flow = "open"
AtEnd == ~Readable /\ flow = "closed"
Broken == flow = "cut"

Host == Drain \/ FlushEnds \/ Resolve \/ Deliver \/ EndReply
=============================================================================
