------------------------- MODULE ProtocolComponent -------------------------
(***************************************************************************)
(* The exports of the acme-protocol component as its generated bindings    *)
(* serve them (src/crates/protocol/src/bindings.rs): who owns which block  *)
(* of the instance's memory while a host calls responder-cert or issue-    *)
(* certificate, and what is in the static area the answer is returned in.  *)
(* The host allocates the arguments in the guest's memory and gives them   *)
(* away; the guest's answer stays the guest's, which frees it when the     *)
(* host has read it and calls the post-return export.  A host makes one    *)
(* call at a time, the post-return included.  A block is its address; its  *)
(* bytes are left out.                                                     *)
(***************************************************************************)
EXTENDS Naturals, FiniteSets

CONSTANTS Blocks,      \* addresses the allocator hands out
          Empty,       \* the pointer of an empty string or list: no block
          Uninit,      \* a word of the return area nobody has written
          None,        \* no error variant, no answer
          Variants,    \* acme-error variants that carry a string
          Http,        \* the one that carries a status too
          Other,       \* the one the component itself returns
          StatusWord,  \* the status word
          Guests,      \* "component": this crate's orchestrator, which is a
                       \* placeholder; "any": whatever the bindings may serve
          MaxArgs      \* most blocks in the arguments of a call

\* What the guest may answer: two blobs, or an error's string.
Ok(f, s) == [tag |-> "ok", variant |-> None, first |-> f, second |-> s]
Err(v, t) == [tag |-> "err", variant |-> v, first |-> t, second |-> Empty]
Answers == {Ok(f, s) : f, s \in Blocks \cup {Empty}}
             \cup {Err(v, t) : v \in Variants \cup {Http, None},
                               t \in Blocks \cup {Empty}}

ASSUME ProtocolAssumption ==
  /\ Empty \notin Blocks
  /\ Http \notin Variants
  /\ Other \in Variants
  /\ None \notin Variants \cup {Http} \cup Answers
  /\ Guests \subseteq {"component", "any"}

VARIABLES guest,       \* who implements the orchestrator's Guest trait
          stage,       \* "idle", "entered", "answered", "returned", "trapped"
          call,        \* the interface the call under way is of
          heap,        \* the blocks that are allocated
          solvers,     \* the boxes of the solvers whose handle the host owns
          lent,        \* the solver a call has borrowed
          args,        \* the blocks of the arguments
          spines,      \* those of them that are lists not lifted yet
          answer,      \* what the guest answered
          area         \* each interface's _RET_AREA, as five words

protocolVars ==
  <<guest, stage, call, heap, solvers, lent, args, spines, answer, area>>

Interfaces == {"solver", "orchestrator"}
Slots == 0..4
Length(b) == <<b>>    \* the length word of block b; Length(Empty) is zero

ProtocolInit ==
  /\ guest \in Guests
  /\ stage = "idle"
  /\ call \in Interfaces
  /\ heap = {}
  /\ solvers = {}
  /\ lent = None
  /\ args = {}
  /\ spines = {}
  /\ answer = None
  /\ area = [i \in Interfaces |-> [s \in Slots |-> Uninit]]

Free == Blocks \ heap

-----------------------------------------------------------------------------
(* The tls-alpn01-solver resource.                                         *)

\* The value is boxed, and take_handle leaves the wrapper nothing to drop.
Construct ==
  /\ stage = "idle"
  /\ \E b \in Free :
       /\ heap' = heap \cup {b}
       /\ solvers' = solvers \cup {b}
  /\ UNCHANGED <<guest, stage, call, lent, args, spines, answer, area>>

\* The host drops the handle: the dtor export frees the box.
Destroy ==
  /\ stage = "idle"
  /\ \E b \in solvers :
       /\ solvers' = solvers \ {b}
       /\ heap' = heap \ {b}
  /\ UNCHANGED <<guest, stage, call, lent, args, spines, answer, area>>

-----------------------------------------------------------------------------
(* A call: the host has allocated the arguments.                           *)

\* Empty strings and empty lists have no block.
Arguments(most) == {a \in SUBSET Free : Cardinality(a) <= most}

Enter(i, a, l) ==
  /\ stage = "idle"
  /\ stage' = "entered"
  /\ call' = i
  /\ args' = a
  /\ spines' = l
  /\ heap' = heap \cup a
  /\ UNCHANGED <<guest, solvers, answer, area>>

\* kind, value and key authorization, on a solver the host lends.
CallResponderCert ==
  /\ lent' \in solvers
  /\ \E a \in Arguments(3) : Enter("solver", a, {})

\* The contacts and the identifiers are lists.
CallIssueCertificate ==
  /\ UNCHANGED lent
  /\ \E a \in Arguments(MaxArgs) :
       \E l \in {s \in SUBSET a : Cardinality(s) <= 2} :
         Enter("orchestrator", a, l)

\* Mutant: the host's list is left behind.
LiftKeepsSpine ==
  /\ stage = "entered"
  /\ \E l \in spines, v \in Free :
       /\ heap' = heap \cup {v}
       /\ args' = (args \ {l}) \cup {v}
       /\ spines' = spines \ {l}
  /\ UNCHANGED <<guest, stage, call, solvers, lent, answer, area>>

\* A list's elements move into a Vec of the guest, and the host's list is
\* deallocated; a string's block becomes the String.
LiftList ==
  /\ stage = "entered"
  /\ \E l \in spines, v \in Free :
       /\ heap' = (heap \ {l}) \cup {v}
       /\ args' = (args \ {l}) \cup {v}
       /\ spines' = spines \ {l}
  /\ UNCHANGED <<guest, stage, call, solvers, lent, answer, area>>

-----------------------------------------------------------------------------
(* The guest runs, drops its arguments and leaves an answer.               *)

Texts(a) == IF a = None THEN {} ELSE {a.first, a.second} \ {Empty}

Answer(a) ==
  /\ answer' = a
  /\ heap' = (heap \ args) \cup Texts(a)
  /\ args' = {}
  /\ stage' = "answered"
  /\ UNCHANGED <<guest, call, solvers, lent, spines, area>>

\* Where an answer may be: it outlives the arguments, whose blocks it may get.
Room == Free \cup args

\* A certificate and its key, or the text of rcgen's error.
RespondCert ==
  /\ stage = "entered"
  /\ call = "solver"
  /\ \/ \E f, s \in Room : f # s /\ Answer(Ok(f, s))
     \/ \E t \in Room : Answer(Err(None, t))

\* In a debug build the certificate's name is asserted to be a DNS name, and
\* an IP address is not: the panic traps, and the instance is lost.
Trap ==
  /\ stage = "entered"
  /\ call = "solver"
  /\ stage' = "trapped"
  /\ UNCHANGED <<guest, call, heap, solvers, lent, args, spines, answer, area>>

\* The component's own orchestrator refuses; another may answer anything.
IssueCertificate ==
  /\ stage = "entered"
  /\ call = "orchestrator"
  /\ spines = {}
  /\ \/ guest = "component" /\ \E t \in Room : Answer(Err(Other, t))
     \/ /\ guest = "any"
        /\ \/ \E f, s \in Room \cup {Empty} :
                (f = s => f = Empty) /\ Answer(Ok(f, s))
           \/ \E v \in Variants \cup {Http}, t \in Room \cup {Empty} :
                Answer(Err(v, t))

-----------------------------------------------------------------------------
(* The answer is lowered into the area, read by the host and freed.        *)

At(w, s, b) == [w EXCEPT ![s] = b, ![s + 1] = Length(b)]

\* Mutant: http's string is written where the other variants have theirs.
LoweredHttpLikeOthers(i, a, w) ==
  LET t == [w EXCEPT ![0] = a.tag]
  IN CASE a.tag = "ok"   -> At(At(t, 1, a.first), 3, a.second)
       [] a.tag = "err" /\ i = "solver" -> At(t, 1, a.first)
       [] OTHER -> At([t EXCEPT ![1] = a.variant], 2, a.first)

\* The words that hold the answer; the others keep what was in them.
Lowered(i, a, w) ==
  LET t == [w EXCEPT ![0] = a.tag]
  IN CASE a.tag = "ok"   -> At(At(t, 1, a.first), 3, a.second)
       [] a.tag = "err" /\ i = "solver" -> At(t, 1, a.first)
       [] a.tag = "err" /\ i = "orchestrator" /\ a.variant # Http ->
            At([t EXCEPT ![1] = a.variant], 2, a.first)
       [] OTHER -> At([t EXCEPT ![1] = Http, ![2] = StatusWord], 3, a.first)

Lower ==
  /\ stage = "answered"
  /\ area' = [area EXCEPT ![call] = Lowered(call, answer, @)]
  /\ stage' = "returned"
  /\ UNCHANGED <<guest, call, heap, solvers, lent, args, spines, answer>>

\* Mutant: http's string is looked for where the others have theirs.
FreedHttpLikeOthers(i, w) ==
  IF w[0] = "ok" THEN {1, 3} ELSE IF i = "solver" THEN {1} ELSE {2}

\* The slots of the pointers that post-return frees, each before its length.
FreedAt(i, w) ==
  IF w[0] = "ok" THEN {1, 3}
  ELSE IF i = "solver" THEN {1}
  ELSE IF w[1] = Http THEN {3} ELSE {2}

\* cabi_dealloc of nothing is nothing.
Freed(i) ==
  {s \in FreedAt(i, area[i]) : area[i][s + 1] # Length(Empty)}

PostReturn ==
  /\ stage = "returned"
  /\ heap' = heap \ {area[call][s] : s \in Freed(call)}
  /\ answer' = None
  /\ lent' = None
  /\ stage' = "idle"
  /\ UNCHANGED <<guest, call, solvers, args, spines, area>>

\* What the host lifts from the area, by the types of the WIT.
HostReads(i) ==
  LET w == area[i]
  IN CASE w[0] = "ok" -> Ok(w[1], w[3])
       [] w[0] = "err" /\ i = "solver" -> Err(None, w[1])
       [] OTHER -> Err(w[1], IF w[1] = Http THEN w[3] ELSE w[2])

-----------------------------------------------------------------------------

ProtocolNext ==
  \/ Construct \/ Destroy
  \/ CallResponderCert \/ CallIssueCertificate
  \/ LiftList \/ RespondCert \/ Trap \/ IssueCertificate
  \/ Lower \/ PostReturn

ProtocolSpec == ProtocolInit /\ [][ProtocolNext]_protocolVars

-----------------------------------------------------------------------------
(* Properties.                                                             *)

Words == Blocks \cup {Empty, Uninit, Http, StatusWord} \cup Variants
           \cup {Length(b) : b \in Blocks \cup {Empty}} \cup {"ok", "err"}

\* The type of every variable, and which stage has which of them.
ProtocolTypeOK ==
  /\ guest \in Guests
  /\ stage \in {"idle", "entered", "answered", "returned", "trapped"}
  /\ call \in Interfaces
  /\ heap \subseteq Blocks
  /\ solvers \subseteq Blocks
  /\ lent \in solvers \cup {None}
  /\ args \subseteq Blocks
  /\ spines \subseteq args
  /\ answer \in Answers \cup {None}
  /\ area \in [Interfaces -> [Slots -> Words]]
  /\ answer # None <=> stage \in {"answered", "returned"}
  /\ args # {} => stage \in {"entered", "trapped"}
  /\ lent # None => stage # "idle"

\* bindings.rs:389-505, 641-1563: whatever calls were made before, and
\* whatever they left in the return area, every block is owned once: by a
\* solver whose handle the host has, by the arguments of the call under way,
\* or by its answer.  Between two calls nothing is left but the solvers, and
\* no call's blocks are freed before it is done.
EveryBlockOwned ==
  /\ heap = solvers \cup args \cup Texts(answer)
  /\ solvers \cap (args \cup Texts(answer)) = {}

\* bindings.rs:428-466, 706-1242: between the export's return and its post-
\* return the host reads from the area just what the guest answered, though
\* an interface's calls share one area and an answer leaves the words it does
\* not need as they were.
HostSeesAnswer == stage = "returned" => HostReads(call) = answer

\* bindings.rs:468-505, 1243-1563: each pointer that post-return is about to
\* free is a block that is live, goes with its own length, and is freed once.
FreesOnce ==
  stage = "returned" =>
    LET w == area[call]
    IN /\ \A s \in Freed(call) : w[s] \in heap /\ w[s + 1] = Length(w[s])
       /\ \A r, s \in Freed(call) : w[r] = w[s] => r = s
=============================================================================
