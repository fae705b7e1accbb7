------------------------ MODULE PebbleHarnessProofs -------------------------
(***************************************************************************)
(* For any callers, hosts and number of polls: a spawn runs on a stack of  *)
(* its own, a harness keeps its stack and its seeds, every stack is        *)
(* accounted for, and compose never misses its file.                       *)
(***************************************************************************)
EXTENDS PebbleHarness, TLAPS

\* Nothing is seeded before the directory has answered, and nothing cleared
\* before `down`.
Unseeded ==
  \A c \in Callers :
    /\ pc[c] \in {"down", "up", "upagain"} => asked[c] = {}
    /\ pc[c] = "down" => ~cleared[c]

\* After a `down` that succeeded, what is up is the caller's own.
OwnStack ==
  \A c \in Callers :
    /\ pc[c] \in {"up", "upagain", "cert", "hostip", "poll", "ready"}
    /\ cleared[c] /\ ~crossed[c]
    => (up => by = c)

\* The tempdir lives as long as the call.
HasFile == \A c \in Callers : pc[c] # "idle" => file[c]

IInv ==
  TypeOK /\ Unseeded /\ OwnStack /\ SeedsAnswered /\ Accounted /\ HasFile

LEMMA InitIInv == Init => IInv
<1> SUFFICES ASSUME Init PROVE IInv
  OBVIOUS
<1>1. TypeOK
  <2>1. 0 \in 0..MaxPolls
    BY HarnessAssumption
  <2>2. QED BY <2>1 DEF Init, TypeOK, Locations
<1>2. Unseeded /\ OwnStack /\ SeedsAnswered /\ Accounted /\ HasFile
  BY DEF Init, Unseeded, OwnStack, SeedsAnswered, Accounted, HasFile, Holds
<1>3. QED BY <1>1, <1>2 DEF IInv

-----------------------------------------------------------------------------

\* Every action's successor is well typed.
LEMMA TypeKept ==
  ASSUME TypeOK, NEW c \in Callers, Step(c) \/ Use(c)
  PROVE  TypeOK'
<1> USE HarnessAssumption DEF TypeOK, Locations, Goto, Touch, Leave
<1>1. CASE Spawn(c)
  BY <1>1 DEF Spawn
<1>2. CASE Down(c)
  BY <1>2 DEF Down, Gone, Unchanged
<1>3. CASE Up(c)
  BY <1>3 DEF Up, Started
<1>4. CASE UpFails(c)
  BY <1>4 DEF UpFails, Started, Unchanged
<1>5. CASE UpAgainFails(c)
  BY <1>5 DEF UpAgainFails, Started, Unchanged
<1>6. CASE Copy(c)
  BY <1>6 DEF Copy, CopyCert, CopyHosts, history
<1>7. CASE CopyFails(c)
  BY <1>7 DEF CopyFails, Unchanged
<1>8. CASE Answered(c) \/ GiveUp(c) \/ NoClient(c) \/ EndTest(c)
  BY <1>8 DEF Answered, GiveUp, NoClient, EndTest, history
<1>9. CASE Unanswered(c)
  BY <1>9 DEF Unanswered, history
<1>10. CASE \E h \in Hosts : Seed(c, h) \/ Unseed(c, h) \/ SeedFails(c, h)
  BY <1>10 DEF Seed, Unseed, SeedFails
<1>11. CASE Drop(c)
  BY <1>11 DEF Drop, Gone, Unchanged
<1>12. QED
  BY <1>1, <1>2, <1>3, <1>4, <1>5, <1>6, <1>7, <1>8, <1>9, <1>10, <1>11
     DEF Step, Use

\* A step of c leaves another caller's own state alone, and either leaves the
\* stack alone or marks every other caller as crossed.
LEMMA OthersKept ==
  ASSUME TypeOK, NEW c \in Callers, Step(c) \/ Use(c), NEW d \in Callers, d # c
  PROVE  /\ pc'[d] = pc[d] /\ file'[d] = file[d] /\ asked'[d] = asked[d]
         /\ cleared'[d] = cleared[d] /\ polls'[d] = polls[d]
         /\ \/ crossed'[d]
            \/ /\ crossed'[d] = crossed[d]
               /\ up' = up /\ answers' = answers
               /\ by' = by \/ by = c
<1>1. /\ pc'[d] = pc[d] /\ file'[d] = file[d] /\ asked'[d] = asked[d]
      /\ cleared'[d] = cleared[d] /\ polls'[d] = polls[d]
  <2>1. CASE Spawn(c) \/ Down(c) \/ Up(c) \/ UpFails(c)
    BY <2>1 DEF TypeOK, Spawn, Down, Up, UpFails, Goto
  <2>2. CASE UpAgainFails(c) \/ CopyFails(c) \/ Drop(c)
    BY <2>2 DEF TypeOK, UpAgainFails, CopyFails, Drop, Goto, Leave
  <2>3. CASE Copy(c) \/ Answered(c) \/ Unanswered(c) \/ GiveUp(c) \/ NoClient(c) \/ EndTest(c)
    BY <2>3 DEF TypeOK, Copy, CopyCert, CopyHosts, Answered, Unanswered, GiveUp, NoClient, EndTest, Goto,
                history
  <2>4. CASE \E h \in Hosts : Seed(c, h) \/ Unseed(c, h) \/ SeedFails(c, h)
    BY <2>4 DEF TypeOK, Seed, Unseed, SeedFails
  <2>5. QED BY <2>1, <2>2, <2>3, <2>4 DEF Step, Use
<1>2. CASE Spawn(c)
  BY <1>1, <1>2 DEF TypeOK, Spawn
<1>3. CASE Down(c) \/ Up(c) \/ UpFails(c) \/ UpAgainFails(c) \/ Drop(c)
  BY <1>1, <1>3 DEF Down, Up, UpFails, UpAgainFails, Drop, Touch
<1>4. CASE Copy(c) \/ CopyFails(c) \/ Answered(c) \/ Unanswered(c) \/ GiveUp(c) \/ NoClient(c)
           \/ EndTest(c)
  BY <1>1, <1>4 DEF Copy, CopyCert, CopyHosts, CopyFails, Answered, Unanswered, GiveUp, NoClient, EndTest, Unchanged,
              history
<1>5. CASE \E h \in Hosts : Seed(c, h) \/ Unseed(c, h) \/ SeedFails(c, h)
  BY <1>1, <1>5 DEF Seed, Unseed, SeedFails, Touch
<1>6. QED BY <1>1, <1>2, <1>3, <1>4, <1>5 DEF Step, Use

-----------------------------------------------------------------------------
(* What the step does to its own caller's part of each invariant.          *)

LEMMA UnseededKept ==
  ASSUME IInv, NEW c \in Callers, Step(c) \/ Use(c)
  PROVE  Unseeded'
<1>1. /\ pc'[c] \in {"down", "up", "upagain"} => asked'[c] = {}
      /\ pc'[c] = "down" => ~cleared'[c]
  BY DEF IInv, TypeOK, Unseeded, Step, Use, Spawn, Down, Up, UpFails,
         UpAgainFails, Copy, CopyCert, CopyHosts, CopyFails, Answered, Unanswered, GiveUp, NoClient, EndTest,
         Seed, Unseed, SeedFails, Drop, Goto, Leave
<1>2. QED BY <1>1, OthersKept DEF IInv, Unseeded

LEMMA HasFileKept ==
  ASSUME IInv, NEW c \in Callers, Step(c) \/ Use(c)
  PROVE  HasFile'
<1>1. pc'[c] # "idle" => file'[c]
  BY DEF IInv, TypeOK, HasFile, Step, Use, Spawn, Down, Up, UpFails,
         UpAgainFails, Copy, CopyCert, CopyHosts, CopyFails, Answered, Unanswered, GiveUp, NoClient, EndTest,
         Seed, Unseed, SeedFails, Drop, Goto, Leave
<1>2. QED BY <1>1, OthersKept DEF IInv, HasFile

LEMMA OwnStackKept ==
  ASSUME IInv, NEW c \in Callers, Step(c) \/ Use(c)
  PROVE  OwnStack'
<1> DEFINE After == {"up", "upagain", "cert", "hostip", "poll", "ready"}
<1>1. ASSUME pc'[c] \in After, cleared'[c], ~crossed'[c], up'
      PROVE  by' = c
  <2>1. CASE Spawn(c) \/ Drop(c) \/ UpAgainFails(c) \/ CopyFails(c) \/ GiveUp(c) \/ NoClient(c)
             \/ EndTest(c)
    BY <1>1, <2>1 DEF IInv, TypeOK, Spawn, Drop, UpAgainFails, CopyFails, GiveUp, NoClient,
                      EndTest, Goto, Leave
  <2>2. CASE Down(c)
    BY <1>1, <2>2 DEF IInv, TypeOK, Unseeded, Down, Gone, Unchanged
  <2>3. CASE Up(c) \/ UpFails(c)
    <3>1. /\ pc[c] \in {"up", "upagain"} /\ UNCHANGED cleared
          /\ by' = c \/ (up /\ by' = by)
      BY <1>1, <2>3 DEF Up, UpFails, Started, Unchanged
    <3>2. crossed'[c] = crossed[c]
      BY <2>3 DEF Up, UpFails, Touch, IInv, TypeOK
    <3>3. QED BY <1>1, <3>1, <3>2 DEF IInv, OwnStack
  <2>4. CASE Copy(c) \/ Answered(c) \/ Unanswered(c)
    <3>1. /\ pc[c] \in After /\ UNCHANGED <<cleared, crossed, up, by>>
      BY <2>4 DEF Copy, CopyCert, CopyHosts, Answered, Unanswered, history
    <3>2. QED BY <1>1, <3>1 DEF IInv, OwnStack
  <2>5. CASE \E h \in Hosts : Seed(c, h) \/ Unseed(c, h) \/ SeedFails(c, h)
    <3>1. /\ pc[c] \in After /\ UNCHANGED <<cleared, up, by>>
          /\ crossed'[c] = crossed[c]
      <4>1. pc[c] \in After /\ UNCHANGED <<cleared, up, by>>
        BY <2>5 DEF Seed, Unseed, SeedFails
      <4>2. Touch(c) \/ UNCHANGED crossed
        BY <2>5 DEF Seed, Unseed, SeedFails
      <4>3. crossed'[c] = crossed[c]
        BY <4>2 DEF Touch, IInv, TypeOK
      <4>4. QED BY <4>1, <4>3
    <3>2. QED BY <1>1, <3>1 DEF IInv, OwnStack
  <2>6. QED BY <2>1, <2>2, <2>3, <2>4, <2>5 DEF Step, Use
<1>2. ASSUME NEW d \in Callers, d # c, pc'[d] \in After, cleared'[d],
             ~crossed'[d], up'
      PROVE  by' = d
  BY <1>2, OthersKept DEF IInv, OwnStack
<1>3. QED BY <1>1, <1>2 DEF OwnStack

LEMMA SeedsKept ==
  ASSUME IInv, NEW c \in Callers, Step(c) \/ Use(c)
  PROVE  SeedsAnswered'
<1>1. ASSUME Holds(c)', ~crossed'[c]
      PROVE  up' /\ asked'[c] \subseteq answers'
  <2>1. CASE Spawn(c) \/ Down(c) \/ UpFails(c) \/ Drop(c) \/ UpAgainFails(c)
             \/ CopyFails(c) \/ GiveUp(c) \/ NoClient(c) \/ EndTest(c)
    BY <1>1, <2>1 DEF IInv, TypeOK, Holds, Spawn, Down, UpFails, Drop,
                      UpAgainFails, CopyFails, GiveUp, NoClient, EndTest, Goto, Leave
  <2>2. CASE Up(c)
    BY <1>1, <2>2 DEF IInv, TypeOK, Unseeded, Up, Started
  <2>3. CASE Copy(c) \/ Answered(c) \/ Unanswered(c)
    BY <1>1, <2>3 DEF IInv, TypeOK, SeedsAnswered, Holds, Copy, CopyCert, CopyHosts, Answered,
                      Unanswered, history
  <2>4. CASE \E h \in Hosts : Seed(c, h) \/ Unseed(c, h) \/ SeedFails(c, h)
    <3>1. Holds(c) /\ ~crossed[c]
      BY <1>1, <2>4 DEF IInv, TypeOK, Holds, Seed, Unseed, SeedFails, Touch
    <3>2. up /\ asked[c] \subseteq answers
      BY <3>1 DEF IInv, SeedsAnswered
    <3>3. QED
      BY <2>4, <3>2 DEF IInv, TypeOK, Seed, Unseed, SeedFails
  <2>5. QED BY <2>1, <2>2, <2>3, <2>4 DEF Step, Use
<1>2. ASSUME NEW d \in Callers, d # c, Holds(d)', ~crossed'[d]
      PROVE  up' /\ asked'[d] \subseteq answers'
  BY <1>2, OthersKept DEF IInv, SeedsAnswered, Holds
<1>3. QED BY <1>1, <1>2 DEF SeedsAnswered

LEMMA AccountedKept ==
  ASSUME IInv, NEW c \in Callers, Step(c) \/ Use(c)
  PROVE  Accounted'
<1> DEFINE Tends(d) == Holds(d) \/ pc[d] \in {"upagain", "drop"}
<1>1. \A d \in Callers : d # c => (Tends(d)' <=> Tends(d))
  BY OthersKept DEF IInv, Holds
<1>2. CASE Up(c) \/ UpFails(c)
  <2>1. Tends(c)'
    BY <1>2 DEF IInv, TypeOK, Holds, Up, UpFails, Goto
  <2>2. QED BY <2>1 DEF Accounted
<1>3. CASE UpAgainFails(c) \/ CopyFails(c) \/ Drop(c)
  BY <1>3 DEF Accounted, UpAgainFails, CopyFails, Drop, Leave, Gone
<1>4. CASE Spawn(c) \/ Down(c)
  <2>1. up' => up /\ abandoned' = abandoned
    BY <1>4 DEF IInv, TypeOK, Spawn, Down, Gone, Unchanged
  <2>2. ~Tends(c)
    BY <1>4 DEF Holds, Spawn, Down
  <2>3. QED BY <1>1, <2>1, <2>2 DEF IInv, Accounted
<1>5. CASE Copy(c) \/ Answered(c) \/ Unanswered(c) \/ GiveUp(c) \/ NoClient(c) \/ EndTest(c)
           \/ \E h \in Hosts : Seed(c, h) \/ Unseed(c, h) \/ SeedFails(c, h)
  <2>1. Tends(c)' /\ UNCHANGED abandoned /\ UNCHANGED up
    BY <1>5 DEF IInv, TypeOK, Holds, Copy, CopyCert, CopyHosts, Answered, Unanswered, GiveUp, NoClient, EndTest,
                Seed, Unseed, SeedFails, Goto, history
  <2>2. QED BY <2>1 DEF Accounted
<1>6. QED BY <1>2, <1>3, <1>4, <1>5 DEF Step, Use

LEMMA NextIInv == IInv /\ [Next]_vars => IInv'
<1> SUFFICES ASSUME IInv, [Next]_vars PROVE IInv'
  OBVIOUS
<1>1. CASE UNCHANGED vars
  BY <1>1 DEF vars, history, IInv, TypeOK, Unseeded, OwnStack, SeedsAnswered,
              Accounted, HasFile, Holds
<1>2. ASSUME NEW c \in Callers, Step(c) \/ Use(c)
      PROVE  IInv'
  BY <1>2, TypeKept, UnseededKept, HasFileKept, OwnStackKept, SeedsKept,
     AccountedKept DEF IInv
<1>3. QED BY <1>1, <1>2 DEF Next

LEMMA InvariantHolds == Spec => []IInv
<1>1. QED BY InitIInv, NextIInv, PTL DEF Spec

-----------------------------------------------------------------------------

\* Every variable keeps its type.
THEOREM TypeCorrect == Spec => []TypeOK
<1>1. IInv => TypeOK
  BY DEF IInv
<1>2. QED BY <1>1, InvariantHolds, PTL

\* A spawn whose `down` succeeded runs on its own stack, whatever earlier
\* spawns of any number of callers left, unless one of them crosses it.
THEOREM FreshHolds == Spec => []StartsFresh
<1>1. IInv => StartsFresh
  BY DEF IInv, OwnStack, SeedsAnswered, StartsFresh, Holds
<1>2. QED BY <1>1, InvariantHolds, PTL

\* A harness that no other caller crosses keeps its stack and its seeds.
THEOREM SeedsHold == Spec => []SeedsAnswered
<1>1. IInv => SeedsAnswered
  BY DEF IInv
<1>2. QED BY <1>1, InvariantHolds, PTL

\* A stack that is up is somebody's to take down, or was abandoned.
THEOREM AccountedHolds == Spec => []Accounted
<1>1. IInv => Accounted
  BY DEF IInv
<1>2. QED BY <1>1, InvariantHolds, PTL

\* The compose file outlives every compose command of its caller.
THEOREM FileHolds == Spec => []FileForCompose
<1>1. IInv => FileForCompose
  BY DEF IInv, HasFile, FileForCompose
<1>2. QED BY <1>1, InvariantHolds, PTL
-----------------------------------------------------------------------------
(* A spawn ends: its own steps lower StepsLeft, the others' leave it.      *)

\* The arms of StepsLeft, one by one.
Arms(c) ==
  /\ polls[c] \in 0..MaxPolls
  /\ pc[c] = "down" => StepsLeft(c) = MaxPolls + 7
  /\ pc[c] = "up" => StepsLeft(c) = MaxPolls + 6
  /\ pc[c] = "upagain" => StepsLeft(c) = MaxPolls + 5
  /\ pc[c] = "cert" => StepsLeft(c) = MaxPolls + 4
  /\ pc[c] = "hostip" => StepsLeft(c) = MaxPolls + 3
  /\ pc[c] = "poll" => StepsLeft(c) = polls[c] + 2
  /\ pc[c] = "drop" => StepsLeft(c) = 1
  /\ pc[c] \in {"idle", "ready"} => StepsLeft(c) = 0

AllArms == \A c \in Callers : Arms(c)

LEMMA StepsAt == TypeOK => AllArms
<1> SUFFICES ASSUME TypeOK, NEW c \in Callers PROVE Arms(c)
  BY DEF AllArms
<1>1. /\ pc[c] = "down" => StepsLeft(c) = MaxPolls + 7
      /\ pc[c] = "up" => StepsLeft(c) = MaxPolls + 6
      /\ pc[c] = "upagain" => StepsLeft(c) = MaxPolls + 5
      /\ pc[c] = "cert" => StepsLeft(c) = MaxPolls + 4
  BY DEF StepsLeft
<1>2. /\ pc[c] = "hostip" => StepsLeft(c) = MaxPolls + 3
      /\ pc[c] = "poll" => StepsLeft(c) = polls[c] + 2
      /\ pc[c] = "drop" => StepsLeft(c) = 1
      /\ pc[c] \in {"idle", "ready"} => StepsLeft(c) = 0
  BY DEF StepsLeft
<1>3. polls[c] \in 0..MaxPolls
  BY DEF TypeOK
<1>4. QED BY <1>1, <1>2, <1>3 DEF Arms

LEMMA NextStepsAt == TypeOK' => AllArms'
BY StepsAt, PTL

\* The ways a caller's step moves it while it spawns, waits or drops.
LEMMA OwnStepMoves ==
  ASSUME TypeOK, NEW c \in Callers, Step(c)
  PROVE  \/ pc[c] = "down" /\ pc'[c] = "up"
         \/ pc[c] = "up" /\ pc'[c] \in {"upagain", "cert"}
         \/ pc[c] = "upagain" /\ pc'[c] \in {"cert", "idle"}
         \/ pc[c] = "cert" /\ pc'[c] \in {"hostip", "idle"}
         \/ pc[c] = "hostip" /\ pc'[c] \in {"poll", "idle"}
         \/ /\ pc[c] = "poll"
            /\ \/ pc'[c] \in {"ready", "drop"}
               \/ pc'[c] = "poll" /\ polls[c] > 0 /\ polls'[c] = polls[c] - 1
         \/ pc[c] = "drop" /\ pc'[c] = "idle"
<1>1. CASE Down(c) \/ Up(c) \/ UpFails(c) \/ UpAgainFails(c)
  BY <1>1 DEF TypeOK, Down, Up, UpFails, UpAgainFails, Leave, Goto
<1>2. CASE Copy(c) \/ CopyFails(c)
  BY <1>2 DEF TypeOK, Copy, CopyCert, CopyHosts, CopyFails, Leave, Goto
<1>3. CASE Answered(c) \/ GiveUp(c) \/ NoClient(c) \/ Drop(c)
  BY <1>3 DEF TypeOK, Answered, GiveUp, NoClient, Drop, Goto
<1>4. CASE Unanswered(c)
  BY <1>4 DEF TypeOK, Unanswered
<1>5. QED BY <1>1, <1>2, <1>3, <1>4 DEF Step

LEMMA OwnStepShrinks ==
  ASSUME TypeOK, TypeOK', NEW c \in Callers, Step(c)
  PROVE  StepsLeft(c)' \in 0..(StepsLeft(c) - 1)
<1>1. Arms(c) /\ Arms(c)'
  BY StepsAt, NextStepsAt DEF AllArms
<1>2. PICK m \in Nat, p \in Nat, q \in Nat :
        m = MaxPolls /\ p = polls[c] /\ q = polls'[c] /\ p <= m /\ q <= m
  BY <1>1, HarnessAssumption DEF Arms
<1>3. /\ pc[c] = "down" => StepsLeft(c) = m + 7
      /\ pc[c] = "up" => StepsLeft(c) = m + 6
      /\ pc[c] = "upagain" => StepsLeft(c) = m + 5
      /\ pc[c] = "cert" => StepsLeft(c) = m + 4
      /\ pc[c] = "hostip" => StepsLeft(c) = m + 3
      /\ pc[c] = "poll" => StepsLeft(c) = p + 2
      /\ pc[c] = "drop" => StepsLeft(c) = 1
  BY <1>1, <1>2 DEF Arms
<1>4. /\ pc'[c] = "up" => StepsLeft(c)' = m + 6
      /\ pc'[c] = "upagain" => StepsLeft(c)' = m + 5
      /\ pc'[c] = "cert" => StepsLeft(c)' = m + 4
      /\ pc'[c] = "hostip" => StepsLeft(c)' = m + 3
      /\ pc'[c] = "poll" => StepsLeft(c)' = q + 2
      /\ pc'[c] = "drop" => StepsLeft(c)' = 1
      /\ pc'[c] \in {"idle", "ready"} => StepsLeft(c)' = 0
  BY <1>1, <1>2 DEF Arms
<1>5. CASE pc[c] \in {"down", "up", "upagain"}
  BY <1>2, <1>3, <1>4, <1>5, OwnStepMoves
<1>6. CASE pc[c] \in {"cert", "hostip"}
  BY <1>2, <1>3, <1>4, <1>6, OwnStepMoves
<1>7. CASE pc[c] = "poll"
  <2>1. pc'[c] = "poll" => p > 0 /\ q = p - 1
    BY <1>2, <1>7, OwnStepMoves
  <2>2. QED BY <1>2, <1>3, <1>4, <1>7, <2>1, OwnStepMoves
<1>8. CASE pc[c] = "drop"
  BY <1>3, <1>4, <1>8, OwnStepMoves
<1>9. QED BY <1>5, <1>6, <1>7, <1>8, OwnStepMoves

\* For any callers and number of polls: a spawn takes at most MaxPolls + 7
\* steps, and a drop one, whatever the other callers do to the stack.
THEOREM SpawnShrinksHolds == Spec => SpawnShrinks
<1>1. TypeOK /\ TypeOK' /\ [Next]_vars =>
        [\A c \in Callers :
           \/ pc[c] \in {"idle", "ready"}
           \/ UNCHANGED <<pc[c], polls[c]>>
           \/ StepsLeft(c)' \in 0..(StepsLeft(c) - 1)]_vars
  <2> SUFFICES ASSUME TypeOK, TypeOK', Next, NEW d \in Callers,
                      pc[d] \notin {"idle", "ready"}
               PROVE  \/ UNCHANGED <<pc[d], polls[d]>>
                      \/ StepsLeft(d)' \in 0..(StepsLeft(d) - 1)
    OBVIOUS
  <2>1. PICK c \in Callers : Step(c) \/ Use(c)
    BY DEF Next
  <2>2. CASE c # d
    BY <2>1, <2>2, OthersKept
  <2>3. CASE c = d
    <3>1. Step(d)
      BY <2>1, <2>3 DEF Use, Spawn, EndTest, Seed, Unseed, SeedFails
    <3>2. QED BY <3>1, OwnStepShrinks
  <2>4. QED BY <2>2, <2>3
<1>2. QED BY <1>1, TypeCorrect, PTL DEF Spec, SpawnShrinks
=============================================================================
