---------------------------- MODULE PebbleHarness ---------------------------
(***************************************************************************)
(* PebbleHarness (src/crates/testing/src/lib.rs): callers, each a test in  *)
(* a process of its own, that spawn a harness, seed its DNS server and     *)
(* drop it, again and again.  Every docker compose command of every caller *)
(* names the same project, so they share one stack of containers.          *)
(*                                                                         *)
(* Docker is external: a command may fail, and may have done its work, or  *)
(* part of it, when it does.  A command is one step though run_compose may *)
(* run two programs for it: docker-compose only gets a turn when docker    *)
(* compose was missing or too old, and has done nothing.                   *)
(***************************************************************************)
EXTENDS Naturals

CONSTANTS Callers,
          Hosts,      \* host names the callers seed
          MaxPolls,   \* polls of the directory within the deadline
          None        \* no caller

ASSUME HarnessAssumption ==
  /\ MaxPolls \in Nat
  /\ None \notin Callers

VARIABLES pc,         \* where each caller is
          file,       \* the caller's tempdir, with the compose file, exists
          polls,      \* polls left before the caller's deadline
          up,         \* Docker: the project has containers
          by,         \* history: the caller whose current spawn started them
          answers,    \* the hosts challtestsrv answers for
          asked,      \* history: the hosts a caller was told it seeded
          cleared,    \* history: the `down` of this spawn succeeded
          crossed,    \* history: another caller has changed the stack since
                      \* this caller's spawn began
          abandoned   \* history: a spawn failed without a harness, or a
                      \* harness's `down` failed, since a `down` succeeded

history == <<by, cleared, crossed, abandoned>>
vars == <<pc, file, polls, up, answers, asked, history>>

Locations == {"idle", "down", "up", "upagain", "cert", "hostip", "poll",
              "ready", "drop"}

Init ==
  /\ pc = [c \in Callers |-> "idle"]
  /\ file = [c \in Callers |-> FALSE]
  /\ polls = [c \in Callers |-> 0]
  /\ up = FALSE
  /\ by = None
  /\ answers = {}
  /\ asked = [c \in Callers |-> {}]
  /\ cleared = [c \in Callers |-> FALSE]
  /\ crossed = [c \in Callers |-> FALSE]
  /\ abandoned = FALSE

Goto(c, l) == pc' = [pc EXCEPT ![c] = l]

\* A command of c may have changed the stack.
Touch(c) == crossed' = [d \in Callers |-> crossed[d] \/ d # c]

-----------------------------------------------------------------------------
(* What docker compose does to the project.                                *)

Gone ==
  /\ up' = FALSE
  /\ by' = None
  /\ answers' = {}

\* `up` starts the containers, and may start those it finds anew.
Started(c) ==
  /\ up' = TRUE
  /\ \/ by' = c /\ answers' = {}
     \/ up /\ UNCHANGED <<by, answers>>

Unchanged == UNCHANGED <<up, by, answers>>

-----------------------------------------------------------------------------
(* spawn.                                                                  *)

\* The compose file is written (if it cannot be, nothing has happened); what
\* an earlier spawn left is a leftover now.
Spawn(c) ==
  /\ pc[c] = "idle"
  /\ file' = [file EXCEPT ![c] = TRUE]
  /\ asked' = [asked EXCEPT ![c] = {}]
  /\ by' = IF by = c THEN None ELSE by
  /\ cleared' = [cleared EXCEPT ![c] = FALSE]
  /\ crossed' = [crossed EXCEPT ![c] = FALSE]
  /\ Goto(c, "down")
  /\ UNCHANGED <<polls, up, answers, abandoned>>

\* Mutant: without -p, compose takes another project down.
DownElsewhere(c) ==
  /\ pc[c] = "down"
  /\ Unchanged /\ UNCHANGED abandoned
  /\ cleared' = [cleared EXCEPT ![c] = TRUE]
  /\ Touch(c)
  /\ Goto(c, "up")
  /\ UNCHANGED <<file, polls, asked>>

\* `down`, whose result nobody looks at.
Down(c) ==
  /\ pc[c] = "down"
  /\ \/ Gone /\ cleared' = [cleared EXCEPT ![c] = TRUE] /\ abandoned' = FALSE
     \/ (Gone \/ Unchanged) /\ UNCHANGED <<cleared, abandoned>>
  /\ Touch(c)
  /\ Goto(c, "up")
  /\ UNCHANGED <<file, polls, asked>>

\* `up -d --wait`, and `up -d` when that fails.
Up(c) ==
  /\ pc[c] \in {"up", "upagain"}
  /\ Started(c)
  /\ Touch(c)
  /\ Goto(c, "cert")
  /\ UNCHANGED <<file, polls, asked, cleared, abandoned>>

UpFails(c) ==
  /\ pc[c] = "up"
  /\ Started(c) \/ Unchanged
  /\ Touch(c)
  /\ Goto(c, "upagain")
  /\ UNCHANGED <<file, polls, asked, cleared, abandoned>>

\* An error before the harness exists: nothing but the tempdir is dropped.
Leave(c) ==
  /\ file' = [file EXCEPT ![c] = FALSE]
  /\ abandoned' = TRUE
  /\ Goto(c, "idle")
  /\ UNCHANGED <<polls, asked, cleared>>

UpAgainFails(c) ==
  /\ pc[c] = "upagain"
  /\ Started(c) \/ Unchanged
  /\ Touch(c)
  /\ Leave(c)

\* docker cp streams a file of a container that is there.
Copied == up

\* Pebble's certificate.
CopyCert(c) ==
  /\ pc[c] = "cert"
  /\ Copied
  /\ Goto(c, "hostip")
  /\ UNCHANGED <<file, polls, up, answers, asked, history>>

\* Mutant: the tempdir does not move into the harness.
HostsDropFile(c) ==
  /\ pc[c] = "hostip"
  /\ Copied
  /\ Goto(c, "poll")
  /\ polls' = [polls EXCEPT ![c] = MaxPolls]
  /\ file' = [file EXCEPT ![c] = FALSE]
  /\ UNCHANGED <<up, answers, asked, history>>

\* The container's /etc/hosts; then the harness is made, the tempdir in it.
CopyHosts(c) ==
  /\ pc[c] = "hostip"
  /\ Copied
  /\ Goto(c, "poll")
  /\ polls' = [polls EXCEPT ![c] = MaxPolls]
  /\ UNCHANGED <<file, up, answers, asked, history>>

Copy(c) == CopyCert(c) \/ CopyHosts(c)

\* There is no file, it is not what it should be, or names no host.
CopyFails(c) ==
  /\ pc[c] \in {"cert", "hostip"}
  /\ Unchanged /\ UNCHANGED crossed
  /\ Leave(c)

\* The harness exists now.  The directory answers ...
Answered(c) ==
  /\ pc[c] = "poll"
  /\ up
  /\ polls[c] > 0
  /\ Goto(c, "ready")
  /\ UNCHANGED <<file, polls, up, answers, asked, history>>

\* Mutant: the deadline moves with every poll.
PollForever(c) ==
  /\ pc[c] = "poll"
  /\ polls[c] > 0
  /\ polls' = [polls EXCEPT ![c] = IF @ = 1 THEN MaxPolls ELSE @ - 1]
  /\ UNCHANGED <<pc, file, up, answers, asked, history>>

\* ... or it does not, and the next poll is half a second later.
Unanswered(c) ==
  /\ pc[c] = "poll"
  /\ polls[c] > 0
  /\ polls' = [polls EXCEPT ![c] = @ - 1]
  /\ UNCHANGED <<pc, file, up, answers, asked, history>>

\* Mutant: the harness is made after the wait.
GiveUpWithoutDrop(c) ==
  /\ pc[c] = "poll"
  /\ file' = [file EXCEPT ![c] = FALSE]
  /\ Goto(c, "idle")
  /\ UNCHANGED <<polls, up, answers, asked, history>>

\* The deadline passes: `?` returns the error and drops the harness.
GiveUp(c) ==
  /\ pc[c] = "poll"
  /\ polls[c] = 0
  /\ Goto(c, "drop")
  /\ UNCHANGED <<file, polls, up, answers, asked, history>>

\* So does a certificate no client can be built with, before the first poll.
NoClient(c) ==
  /\ pc[c] = "poll"
  /\ polls[c] = MaxPolls
  /\ Goto(c, "drop")
  /\ UNCHANGED <<file, polls, up, answers, asked, history>>

-----------------------------------------------------------------------------
(* The admin API, and the drop.                                            *)

\* Mutant: post_admin does not look at the status.
SeedUnchecked(c, h) ==
  /\ pc[c] = "ready"
  /\ up
  /\ answers' \in {answers, answers \cup {h}}
  /\ asked' = [asked EXCEPT ![c] = @ \cup {h}]
  /\ Touch(c)
  /\ UNCHANGED <<pc, file, polls, up, by, cleared, abandoned>>

\* add_a, set_txt, set_default_ipv4.
Seed(c, h) ==
  /\ pc[c] = "ready"
  /\ up
  /\ answers' = answers \cup {h}
  /\ asked' = [asked EXCEPT ![c] = @ \cup {h}]
  /\ Touch(c)
  /\ UNCHANGED <<pc, file, polls, up, by, cleared, abandoned>>

\* clear_a, clear_txt.
Unseed(c, h) ==
  /\ pc[c] = "ready"
  /\ up
  /\ answers' = answers \ {h}
  /\ asked' = [asked EXCEPT ![c] = @ \ {h}]
  /\ Touch(c)
  /\ UNCHANGED <<pc, file, polls, up, by, cleared, abandoned>>

\* A request fails, having done its work or not.
SeedFails(c, h) ==
  /\ pc[c] = "ready"
  /\ \/ up /\ answers' = answers \cup {h} /\ UNCHANGED asked /\ Touch(c)
     \/ up /\ answers' = answers \ {h} /\ Touch(c)
           /\ asked' = [asked EXCEPT ![c] = @ \ {h}]
     \/ UNCHANGED <<answers, asked, crossed>>
  /\ UNCHANGED <<pc, file, polls, up, by, cleared, abandoned>>

\* The test returns or panics.
EndTest(c) ==
  /\ pc[c] = "ready"
  /\ Goto(c, "drop")
  /\ UNCHANGED <<file, polls, up, answers, asked, history>>

\* drop: `down`, whose failure is only printed, and then the fields.
Drop(c) ==
  /\ pc[c] = "drop"
  /\ \/ Gone /\ abandoned' = FALSE
     \/ (Gone \/ Unchanged) /\ abandoned' = TRUE
  /\ Touch(c)
  /\ file' = [file EXCEPT ![c] = FALSE]
  /\ Goto(c, "idle")
  /\ UNCHANGED <<polls, asked, cleared>>

-----------------------------------------------------------------------------

Step(c) ==
  \/ Down(c) \/ Up(c) \/ UpFails(c) \/ UpAgainFails(c) \/ Copy(c)
  \/ CopyFails(c) \/ Answered(c) \/ Unanswered(c) \/ GiveUp(c)
  \/ NoClient(c) \/ Drop(c)

Use(c) ==
  \/ Spawn(c) \/ EndTest(c)
  \/ \E h \in Hosts : Seed(c, h) \/ Unseed(c, h) \/ SeedFails(c, h)

Next == \E c \in Callers : Step(c) \/ Use(c)

\* Docker's commands and the polls end; no test has to start or to end.
Fairness == \A c \in Callers : WF_vars(Step(c))

Spec == Init /\ [][Next]_vars
FairSpec == Spec /\ Fairness

-----------------------------------------------------------------------------
(* Properties.                                                             *)

\* The type of every variable; a project without containers answers nothing.
TypeOK ==
  /\ pc \in [Callers -> Locations]
  /\ file \in [Callers -> BOOLEAN]
  /\ polls \in [Callers -> 0..MaxPolls]
  /\ up \in BOOLEAN
  /\ by \in Callers \cup {None}
  /\ answers \subseteq Hosts
  /\ asked \in [Callers -> SUBSET Hosts]
  /\ cleared \in [Callers -> BOOLEAN]
  /\ crossed \in [Callers -> BOOLEAN]
  /\ abandoned \in BOOLEAN
  /\ ~up => by = None /\ answers = {}

\* Docker has containers that c's spawn has brought up, or has found.
Holds(c) == pc[c] \in {"cert", "hostip", "poll", "ready"}

\* lib.rs:197-207: whatever the tests before it left behind, through errors of
\* spawn or a `down` that failed, a spawn whose own `down` succeeded runs on
\* containers it started, unless another caller of the one project (lib.rs:
\* 131-134) changed the stack meanwhile.
StartsFresh ==
  \A c \in Callers : Holds(c) /\ cleared[c] /\ ~crossed[c] => by = c

\* lib.rs:258-327: until its drop a harness has its stack, and every host it
\* was told it seeded is answered for, unless another caller has changed the
\* stack: its `down` is as good as one's own.
SeedsAnswered ==
  \A c \in Callers : Holds(c) /\ ~crossed[c] => up /\ asked[c] \subseteq answers

\* lib.rs:200-242, 329-338: every stack that is up has a caller that will run
\* `down`, or was abandoned: by an error of spawn before there was a harness,
\* or by a `down` that failed.
Accounted ==
  up => abandoned \/ \E c \in Callers : Holds(c) \/ pc[c] \in {"upagain", "drop"}

\* lib.rs:189-193: the compose file exists whenever a compose command of its
\* caller runs, the one in drop included.
FileForCompose ==
  \A c \in Callers : pc[c] \in {"down", "up", "upagain", "drop"} => file[c]

\* Steps a spawn or a drop of c can still take.
StepsLeft(c) ==
  CASE pc[c] = "down"    -> MaxPolls + 7
    [] pc[c] = "up"      -> MaxPolls + 6
    [] pc[c] = "upagain" -> MaxPolls + 5
    [] pc[c] = "cert"    -> MaxPolls + 4
    [] pc[c] = "hostip"  -> MaxPolls + 3
    [] pc[c] = "poll"    -> polls[c] + 2
    [] pc[c] = "drop"    -> 1
    [] pc[c] \in {"idle", "ready"} -> 0

\* lib.rs:200-242, 516-547: `up` is tried twice and no more, and the wait for
\* the directory is bounded by its deadline: whatever the other callers do to
\* the stack, no step of theirs sends a spawn back, and each of its own brings
\* its end, or its drop's, nearer.
SpawnShrinks ==
  [][\A c \in Callers :
       \/ pc[c] \in {"idle", "ready"}
       \/ UNCHANGED <<pc[c], polls[c]>>
       \/ StepsLeft(c)' \in 0..(StepsLeft(c) - 1)]_vars

\* lib.rs:200-242, 516-547: a spawn ends with a harness or an error, and a
\* drop ends, whatever the other callers do to the stack.
SpawnEnds ==
  \A c \in Callers :
    pc[c] \notin {"idle", "ready"} ~> pc[c] \in {"idle", "ready"}
=============================================================================
