---------------------------- MODULE WasiErrorCode ----------------------------
(***************************************************************************)
(* The error codes of wasi:http as the generated bindings lift them        *)
(* (src/crates/http-client/src/bindings.rs): finish, handle and get each   *)
(* hand the host a return area of their own stack frame, uninitialized, in *)
(* which the host writes the code and as much of its payload as there is.  *)
(* An offset is that of a byte of the payload on wasm32, where a pointer   *)
(* has four; widths and the bytes of a text are left out.                  *)
(***************************************************************************)
EXTENDS Integers

CONSTANTS Codes,      \* the variants a host answers, by discriminant
          Strings,    \* texts, as pointer and length
          Counts,     \* sizes, alert ids and info codes
          Garbage,    \* what a fresh return area may hold
          Absent      \* the None of a text or a count

Nowhere == -1
Offsets == {0, 1, 4, 8, 12, 14, 16, 20}

ASSUME ErrorCodeAssumption ==
  /\ Codes \subseteq 0..38
  /\ Strings \subseteq Nat \X Nat
  /\ Counts \subseteq Nat
  /\ Garbage \subseteq [Offsets -> Nat]
  /\ Absent \notin (Nat \X Nat) \cup Nat

\* Where a variant has the tag of its whole payload, the tag of its text
\* (pointer and length follow), the tag of its count, and the count.
Row(outer, text, tag, count) ==
  [outer |-> outer, text |-> text, tag |-> tag, count |-> count]

Layout(c) ==
  CASE c = 1                 -> Row(Nowhere, 0, 12, 14)          \* DnsError
    [] c = 14                -> Row(Nowhere, 4, 0, 1)            \* TlsAlert
    [] c \in {17, 28}        -> Row(Nowhere, Nowhere, 0, 8)      \* a u64
    [] c \in {21, 23, 26, 29} -> Row(Nowhere, Nowhere, 0, 4)     \* a u32
    [] c = 22                -> Row(0, 4, 16, 20)       \* maybe a FieldSize
    [] c \in {24, 27, 30}    -> Row(Nowhere, 0, 12, 16)          \* FieldSize
    [] c \in {31, 32, 38}    -> Row(Nowhere, 0, Nowhere, Nowhere)
    [] OTHER                 -> Row(Nowhere, Nowhere, Nowhere, Nowhere)

\* What a host may answer: each option of the variant's payload is there or
\* not, and nothing else is.
ErrorCode ==
  {e \in [code : Codes, given : BOOLEAN,
          text : Strings \cup {Absent}, count : Counts \cup {Absent}] :
     /\ Layout(e.code).outer = Nowhere => e.given
     /\ e.text # Absent => e.given /\ Layout(e.code).text # Nowhere
     /\ e.count # Absent => e.given /\ Layout(e.code).tag # Nowhere}

Bit(b) == IF b THEN 1 ELSE 0

\* The host writes a tag for each option it comes to, and a value under the
\* tags that are one; the rest of the area stays what it was.
LoweredCode(e, w) ==
  LET l == Layout(e.code)
  IN  [o \in Offsets |->
         CASE o = l.outer                         -> Bit(e.given)
           [] o = l.text /\ e.given               -> Bit(e.text # Absent)
           [] o = l.text + 4 /\ e.text # Absent   -> e.text[1]
           [] o = l.text + 8 /\ e.text # Absent   -> e.text[2]
           [] o = l.tag /\ e.given                -> Bit(e.count # Absent)
           [] o = l.count /\ e.count # Absent     -> e.count
           [] OTHER                               -> w[o]]

\* What the binding makes of variant c's payload in area w: it looks under no
\* tag that is zero, and at no tag within an option that is not there.
Lifted(c, w, given) ==
  LET l == Layout(c)
      Some(tag) == given /\ tag # Nowhere /\ w[tag] = 1
  IN  [code  |-> c,
       given |-> given,
       text  |-> IF Some(l.text) THEN <<w[l.text + 4], w[l.text + 8]>> ELSE Absent,
       count |-> IF Some(l.tag) THEN w[l.count] ELSE Absent]

\* Mutant: the field size of a header is taken to be there.
LiftedAlways(c, w) == Lifted(c, w, TRUE)

LiftedCode(c, w) ==
  Lifted(c, w, Layout(c).outer # Nowhere => w[Layout(c).outer] = 1)
=============================================================================
