------------------------- MODULE DnsProvidersProofs -------------------------
(***************************************************************************)
(* For any threads, names and zones, and each of the four providers: a     *)
(* held record stays published until its own delete, unless, on the mock   *)
(* and challtestsrv, a call on the same name crossed it; and a call that   *)
(* was not spoiled leaves nothing behind.                                  *)
(***************************************************************************)
EXTENDS DnsProviders, FiniteSetTheorems, TLAPS

\* Every record has a number of its own, and on Cloudflare its handle has it.
Numbered ==
  /\ IsFiniteSet(records)
  /\ \A r, s \in records : r.id = s.id => r = s
  /\ Cloudflare => \A r \in records : r.handle[1] = r.id

\* The other providers' handles tell the name.
Named ==
  ~Cloudflare =>
    /\ \A r \in records : r.handle[2] = r.name
    /\ \A t \in Threads : handle[t] # None => handle[t][2] = name[t]

\* A call under way has a name, and Cloudflare a zone for what it creates.
HasName ==
  \A t \in Threads : pc[t] # "idle" =>
    /\ name[t] \in Names
    /\ Cloudflare /\ pc[t] = "create" => Apex(name[t]) \in Zones

\* Two calls that hold records of one name have crossed.
Crossing ==
  \A t, u \in Threads :
    t # u /\ handle[t] # None /\ handle[u] # None /\ name[t] = name[u]
      => crossed[t]

IInv == TypeOK /\ HeldIsPublished /\ Numbered /\ Named /\ HasName /\ Crossing

LEMMA InitIInv == Init => IInv
<1> SUFFICES ASSUME Init PROVE IInv
  OBVIOUS
<1>1. TypeOK
  BY DnsAssumption DEF Init, TypeOK
<1>2. IsFiniteSet(records)
  BY FS_EmptySet DEF Init
<1>3. HeldIsPublished /\ Numbered /\ Named /\ HasName /\ Crossing
  BY <1>2 DEF Init, HeldIsPublished, Numbered, Named, HasName, Crossing
<1>4. QED BY <1>1, <1>3 DEF IInv

-----------------------------------------------------------------------------
(* The steps.                                                              *)

\* A handle is a number and a name, or a zone.
LEMMA HandleType ==
  ASSUME IInv, NEW t \in Threads, pc[t] = "create"
  PROVE  /\ HandleOf(t) \in Nat \X (Names \cup Zones)
         /\ Cloudflare => HandleOf(t)[1] = created + 1
         /\ ~Cloudflare => HandleOf(t)[2] = name[t]
<1>1. name[t] \in Names /\ (Cloudflare => Apex(name[t]) \in Zones)
  BY DEF IInv, HasName
<1>2. created + 1 \in Nat /\ Cardinality(records) \in Nat /\ 0 \in Nat
  BY FS_CardinalityType DEF IInv, Numbered, TypeOK
<1>3. CASE Cloudflare
  BY <1>1, <1>2, <1>3 DEF HandleOf
<1>4. CASE ~Cloudflare
  BY <1>1, <1>2, <1>4 DEF HandleOf
<1>5. QED BY <1>3, <1>4

\* A record is created, and its handle may become the thread's.
LEMMA CreateKeepsIInv ==
  ASSUME IInv, NEW t \in Threads, Create(t) \/ CreateFails(t), Created(t),
         UNCHANGED backend
  PROVE  IInv'
<1> USE DnsAssumption DEF IInv
<1>0. PICK new : new = [id |-> created + 1, handle |-> HandleOf(t),
                        name |-> name[t], by |-> t]
  OBVIOUS
<1>1. PICK kept \in Kept(t) : records' = kept \cup {new}
  BY <1>0 DEF Created
<1>2. /\ pc[t] = "create" /\ handle[t] = None /\ name[t] \in Names
      /\ UNCHANGED <<name, style, cache, backend, Cloudflare>>
      /\ created \in Nat /\ created' = created + 1
  BY DEF Create, CreateFails, Created, TypeOK, HasName, Cloudflare
<1>3. /\ new.id = created + 1 /\ new.handle = HandleOf(t)
      /\ new.name = name[t] /\ new.by = t
      /\ HandleOf(t) \in Nat \X (Names \cup Zones)
      /\ Cloudflare => HandleOf(t)[1] = created + 1
      /\ ~Cloudflare => HandleOf(t)[2] = name[t]
  BY <1>0, <1>2, HandleType
<1>4. /\ kept \subseteq records
      /\ Cloudflare => kept = records
      /\ \A r \in records : r.name # name[t] => r \in kept
  BY DEF Kept, Cloudflare
<1>5. \A u \in Threads : u # t => handle'[u] = handle[u] /\ pc'[u] = pc[u]
  BY DEF Create, CreateFails, Goto, TypeOK
<1>6. /\ handle'[t] \in {None, HandleOf(t)}
      /\ pc'[t] = IF handle'[t] = None THEN "idle" ELSE "verify"
  BY <1>2, <1>3 DEF Create, CreateFails, Goto, TypeOK
<1>7. /\ \A u \in Threads : crossed[u] => crossed'[u]
      /\ \A u \in Threads \ {t} :
           handle[u] # None /\ name[u] = name[t] => crossed'[u] /\ crossed'[t]
  BY DEF Created, Rivals
<1>8. Numbered'
  <2>1. \A r \in records : r.id \in Nat /\ r.id <= created
    BY <1>2 DEF TypeOK
  <2>2. \A r, s \in records' : r.id = s.id => r = s
    BY <1>1, <1>2, <1>3, <1>4, <2>1 DEF Numbered
  <2>3. IsFiniteSet(records')
    BY <1>1, <1>4, FS_Subset, FS_AddElement DEF Numbered
  <2>4. Cloudflare => \A r \in records' : r.handle[1] = r.id
    BY <1>1, <1>3, <1>4 DEF Numbered
  <2>5. QED BY <1>2, <2>2, <2>3, <2>4 DEF Numbered
<1>9. Named'
  BY <1>1, <1>2, <1>3, <1>4, <1>5, <1>6 DEF Named
<1>10. Crossing'
  BY <1>2, <1>5, <1>7 DEF Crossing
<1>11. HeldIsPublished'
  <2>1. ASSUME NEW u \in Threads, handle'[u] # None, Cloudflare \/ ~crossed'[u]
        PROVE  \E r \in records' :
                 r.handle = handle'[u] /\ r.name = name'[u] /\ r.by = u
    <3>1. CASE u = t
      BY <1>1, <1>2, <1>3, <1>6, <2>1, <3>1
    <3>2. CASE u # t
      <4>1. handle'[u] = handle[u] /\ (Cloudflare \/ ~crossed[u])
        BY <1>5, <1>7, <2>1, <3>2
      <4>2. PICK r \in records : r.handle = handle[u] /\ r.name = name[u] /\ r.by = u
        BY <2>1, <4>1 DEF HeldIsPublished
      <4>3. r \in kept
        BY <1>4, <1>7, <2>1, <3>2, <4>1, <4>2
      <4>4. QED BY <1>1, <1>2, <4>1, <4>2, <4>3
    <3>3. QED BY <3>1, <3>2
  <2>2. QED BY <1>2, <2>1 DEF HeldIsPublished
<1>12. TypeOK'
  <2>1. records' \subseteq [id : 1..created', handle : Nat \X (Names \cup Zones),
                            name : Names, by : Threads]
    <3>1. new \in [id : 1..created', handle : Nat \X (Names \cup Zones),
                   name : Names, by : Threads]
      BY <1>0, <1>2, <1>3
    <3>2. 1..created \subseteq 1..created'
      BY <1>2
    <3>3. QED BY <1>1, <1>4, <3>1, <3>2 DEF TypeOK
  <2>2. /\ pc' \in [Threads -> {"idle", "resolve", "query", "nozone", "create",
                               "verify", "delete"}]
        /\ handle' \in [Threads -> (Nat \X (Names \cup Zones)) \cup {None}]
        /\ spoiled' \in [Threads -> BOOLEAN]
        /\ crossed' \in [Threads -> BOOLEAN]
    <3>1. crossed' \in [Threads -> BOOLEAN]
      BY DEF Created, TypeOK
    <3>2. spoiled' \in [Threads -> BOOLEAN]
      BY DEF Create, CreateFails, Spoil, TypeOK
    <3>3. pc' \in [Threads -> {"idle", "resolve", "query", "nozone", "create",
                               "verify", "delete"}]
      BY DEF Create, CreateFails, Goto, TypeOK
    <3>4. handle' \in [Threads -> (Nat \X (Names \cup Zones)) \cup {None}]
      BY <1>3 DEF Create, CreateFails, TypeOK
    <3>5. QED BY <3>1, <3>2, <3>3, <3>4
  <2>3. \A u \in Threads : handle'[u] # None <=> pc'[u] \in {"verify", "delete"}
    BY <1>5, <1>6 DEF TypeOK
  <2>4. QED BY <1>2, <2>1, <2>2, <2>3 DEF TypeOK
<1>13. HasName'
  BY <1>2, <1>5, <1>6 DEF HasName
<1>14. QED BY <1>8, <1>9, <1>10, <1>11, <1>12, <1>13

\* The steps that leave the records alone: at most the thread's handle goes.
LEMMA QuietKeepsIInv ==
  ASSUME IInv, NEW t \in Threads,
         \/ Begin(t) \/ Resolve(t) \/ Query(t) \/ LookupFails(t) \/ Verified(t)
         \/ Panics(t) \/ DeleteFails(t)
         \/ CreateFails(t) /\ UNCHANGED <<created, records, crossed>>,
         UNCHANGED backend
  PROVE  IInv'
<1> USE DnsAssumption DEF IInv
<1>1. /\ UNCHANGED <<records, created, Cloudflare>>
      /\ \A u \in Threads : u # t =>
           /\ pc'[u] = pc[u] /\ name'[u] = name[u] /\ handle'[u] = handle[u]
           /\ crossed'[u] = crossed[u]
  BY DEF TypeOK, Begin, Resolve, Query, LookupFails, Verified, Panics,
         DeleteFails, CreateFails, Goto, Cloudflare
<1>2. /\ handle'[t] = None \/ handle'[t] = handle[t]
      /\ handle'[t] # None => name'[t] = name[t] /\ crossed'[t] = crossed[t]
  BY DEF TypeOK, Begin, Resolve, Query, LookupFails, Verified, Panics,
         DeleteFails, CreateFails, Goto
<1>3. Numbered'
  BY <1>1 DEF Numbered
<1>4. Named' /\ Crossing'
  BY <1>1, <1>2 DEF Named, Crossing
<1>5. HeldIsPublished'
  BY <1>1, <1>2 DEF HeldIsPublished
<1>6. TypeOK'
  <2>1. /\ name' \in [Threads -> Names \cup {None}]
        /\ style' \in [Threads -> Styles]
        /\ cache' \subseteq Zones
        /\ handle' \in [Threads -> (Nat \X (Names \cup Zones)) \cup {None}]
        /\ spoiled' \in [Threads -> BOOLEAN]
        /\ crossed' \in [Threads -> BOOLEAN]
    <3>1. CASE Begin(t)
      BY <3>1 DEF TypeOK, Begin
    <3>2. CASE Panics(t)
      BY <3>2 DEF TypeOK, Panics, Spoil
    <3>3. CASE Resolve(t) \/ Query(t) \/ LookupFails(t) \/ Verified(t)
      BY <3>3 DEF TypeOK, Resolve, Query, LookupFails, Verified
    <3>4. CASE \/ DeleteFails(t)
               \/ CreateFails(t) /\ UNCHANGED <<created, records, crossed>>
      BY <3>4 DEF TypeOK, DeleteFails, CreateFails, Spoil
    <3>5. QED BY <3>1, <3>2, <3>3, <3>4
  <2>2. pc' \in [Threads -> {"idle", "resolve", "query", "nozone", "create",
                            "verify", "delete"}]
    <3>1. CASE Begin(t)
      BY <3>1 DEF TypeOK, Begin, Goto
    <3>2. CASE Resolve(t)
      BY <3>2 DEF TypeOK, Resolve, Goto
    <3>3. CASE Query(t) \/ LookupFails(t) \/ Verified(t)
      BY <3>3 DEF TypeOK, Query, LookupFails, Verified, Goto
    <3>4. CASE Panics(t) \/ DeleteFails(t) \/ CreateFails(t)
      BY <3>4 DEF TypeOK, Panics, DeleteFails, CreateFails, Goto
    <3>5. QED BY <3>1, <3>2, <3>3, <3>4
  <2>3. \A u \in Threads : handle'[u] # None <=> pc'[u] \in {"verify", "delete"}
    BY DEF TypeOK, Begin, Resolve, Query, LookupFails, Verified, Panics,
           DeleteFails, CreateFails, Goto
  <2>4. QED BY <1>1, <2>1, <2>2, <2>3 DEF TypeOK
<1>7. HasName'
  <2>1. pc'[t] # "idle" => name'[t] \in Names
    BY DEF HasName, TypeOK, Begin, Resolve, Query, LookupFails, Verified,
           Panics, DeleteFails, CreateFails, Goto
  <2>2. pc'[t] = "create" /\ Cloudflare => Apex(name'[t]) \in Zones
    <3>1. CASE Resolve(t) \/ Query(t)
      BY <3>1 DEF TypeOK, Resolve, Query, Goto, Known
    <3>2. CASE Begin(t)
      <4>1. pc'[t] = IF Cloudflare THEN "resolve" ELSE "create"
        BY <3>2 DEF Begin, Goto, TypeOK
      <4>2. QED BY <4>1
    <3>3. CASE ~(Resolve(t) \/ Query(t) \/ Begin(t))
      <4>1. pc'[t] # "create"
        BY <3>3 DEF TypeOK, LookupFails, Verified, Panics, DeleteFails,
                    CreateFails, Goto
      <4>2. QED BY <4>1
    <3>4. QED BY <3>1, <3>2, <3>3
  <2>3. QED BY <1>1, <2>1, <2>2 DEF HasName
<1>8. QED BY <1>3, <1>4, <1>5, <1>6, <1>7

\* A delete removes the records with the thread's handle: on Cloudflare its
\* own, and elsewhere none that a call on another name holds.
LEMMA DeleteKeepsIInv ==
  ASSUME IInv, NEW t \in Threads, Delete(t), UNCHANGED backend
  PROVE  IInv'
<1> USE DnsAssumption DEF IInv
<1>1. /\ records' = {r \in records : r.handle # handle[t]}
      /\ pc[t] = "delete" /\ handle[t] # None
      /\ UNCHANGED <<name, style, cache, created, spoiled, crossed, backend,
                     Cloudflare>>
  BY DEF Delete, TypeOK, Cloudflare
<1>2. \A u \in Threads : u # t => handle'[u] = handle[u] /\ pc'[u] = pc[u]
  BY DEF Delete, Goto, TypeOK
<1>3. handle'[t] = None /\ pc'[t] = "idle"
  BY DEF Delete, Goto, TypeOK
<1>4. Numbered' /\ Named' /\ HasName' /\ Crossing'
  <2>1. IsFiniteSet(records')
    BY <1>1, FS_Subset DEF Numbered
  <2>2. QED
    BY <1>1, <1>2, <1>3, <2>1 DEF Numbered, Named, HasName, Crossing
<1>5. HeldIsPublished'
  <2>1. ASSUME NEW u \in Threads, handle'[u] # None, Cloudflare \/ ~crossed[u]
        PROVE  \E r \in records' :
                 r.handle = handle'[u] /\ r.name = name'[u] /\ r.by = u
    <3>1. u # t /\ handle'[u] = handle[u]
      BY <1>2, <1>3, <2>1
    <3>2. PICK r \in records : r.handle = handle[u] /\ r.name = name[u] /\ r.by = u
      BY <2>1, <3>1 DEF HeldIsPublished
    <3>3. r.handle # handle[t]
      <4>1. CASE Cloudflare
        <5>1. PICK s \in records : s.handle = handle[t] /\ s.by = t
          BY <1>1, <4>1 DEF HeldIsPublished
        <5>2. r.id # s.id
          BY <3>1, <3>2, <5>1 DEF Numbered
        <5>3. QED BY <4>1, <5>1, <5>2 DEF Numbered
      <4>2. CASE ~Cloudflare
        <5>1. name[u] # name[t]
          BY <1>1, <2>1, <3>1, <4>2 DEF Crossing
        <5>2. QED BY <1>1, <2>1, <3>1, <3>2, <4>2, <5>1 DEF Named
      <4>3. QED BY <4>1, <4>2
    <3>4. QED BY <1>1, <3>1, <3>2, <3>3
  <2>2. QED BY <1>1, <2>1 DEF HeldIsPublished
<1>6. TypeOK'
  <2>1. /\ handle' \in [Threads -> (Nat \X (Names \cup Zones)) \cup {None}]
        /\ pc' \in [Threads -> {"idle", "resolve", "query", "nozone", "create",
                               "verify", "delete"}]
    BY DEF Delete, Goto, TypeOK
  <2>2. \A u \in Threads : handle'[u] # None <=> pc'[u] \in {"verify", "delete"}
    BY <1>2, <1>3 DEF TypeOK
  <2>3. QED BY <1>1, <2>1, <2>2 DEF TypeOK
<1>7. QED BY <1>4, <1>5, <1>6

LEMMA NextIInv == IInv /\ [Next]_vars => IInv'
<1> SUFFICES ASSUME IInv, [Next]_vars PROVE IInv'
  OBVIOUS
<1>1. CASE UNCHANGED vars
  BY <1>1 DEF vars, IInv, TypeOK, HeldIsPublished, Numbered, Named, HasName,
              Crossing, Cloudflare
<1>2. ASSUME NEW t \in Threads, Begin(t) \/ Step(t), UNCHANGED backend
      PROVE  IInv'
  <2>1. CASE (Create(t) \/ CreateFails(t)) /\ Created(t)
    BY <1>2, <2>1, CreateKeepsIInv
  <2>2. CASE Delete(t)
    BY <1>2, <2>2, DeleteKeepsIInv
  <2>3. CASE \/ Begin(t) \/ Resolve(t) \/ Query(t) \/ LookupFails(t)
             \/ Verified(t) \/ Panics(t) \/ DeleteFails(t)
             \/ CreateFails(t) /\ UNCHANGED <<created, records, crossed>>
    BY <1>2, <2>3, QuietKeepsIInv
  <2>4. QED
    BY <1>2, <2>1, <2>2, <2>3 DEF Step, Create, CreateFails
<1>3. QED BY <1>1, <1>2 DEF Next, Rest

LEMMA InvariantHolds == Spec => []IInv
<1>1. QED BY InitIInv, NextIInv, PTL DEF Spec

-----------------------------------------------------------------------------

\* Every variable keeps its type; only the account's zones are ever cached.
THEOREM TypeCorrect == Spec => []TypeOK
<1>1. IInv => TypeOK
  BY DEF IInv
<1>2. QED BY <1>1, InvariantHolds, PTL

\* A record stays published from its upsert to its own delete: on Cloudflare
\* whoever else publishes and deletes the same name, on the mock and on
\* challtestsrv unless somebody else does.
THEOREM HeldHolds == Spec => []HeldIsPublished
<1>1. IInv => HeldIsPublished
  BY DEF IInv
<1>2. QED BY <1>1, InvariantHolds, PTL

\* A call whose requests were all answered, and whose closure did not panic,
\* leaves no record behind.
THEOREM NoLeakHolds == Spec => NoLeak
<1>1. IInv /\ [Next]_vars =>
        [\A t \in Threads : pc[t] # "idle" /\ pc'[t] = "idle" /\ ~spoiled'[t]
           => {r \in records' : Stale(r)' /\ r.by = t}
                \subseteq {r \in records : Stale(r) /\ r.by = t}]_vars
  <2>1. ASSUME IInv, [Next]_vars, NEW t \in Threads,
               pc[t] # "idle", pc'[t] = "idle", ~spoiled'[t],
               NEW r \in records', \A u \in Threads : handle'[u] # r.handle
        PROVE  r \in records /\ \A u \in Threads : handle[u] # r.handle
    <3>1. Step(t)
      <4>1. PICK u \in Threads : Begin(u) \/ Step(u)
        BY <2>1 DEF Next, Rest, vars
      <4>2. \A v \in Threads : v # u => pc'[v] = pc[v]
        BY <2>1, <4>1
           DEF IInv, TypeOK, Begin, Step, Resolve, Query, LookupFails, Create,
               CreateFails, Verified, Panics, Delete, DeleteFails, Goto
      <4>3. QED BY <2>1, <4>1, <4>2 DEF Begin
    <3>2. LookupFails(t) \/ Delete(t)
      BY <2>1, <3>1
         DEF IInv, TypeOK, Step, Resolve, Query, Create, CreateFails, Verified,
             Panics, DeleteFails, Goto, Spoil
    <3>3. CASE LookupFails(t)
      BY <2>1, <3>3 DEF LookupFails
    <3>4. CASE Delete(t)
      BY <2>1, <3>4 DEF Delete, IInv, TypeOK
    <3>5. QED BY <3>2, <3>3, <3>4
  <2>2. QED BY <2>1 DEF Stale
<1>2. QED BY <1>1, InvariantHolds, PTL DEF Spec, NoLeak

-----------------------------------------------------------------------------
(* DnsContract.                                                            *)

\* A thread that does not move keeps its phase, unless a record it held was
\* taken away; then, on what deletes by name, it was crossed.
LEMMA OthersAsPromised ==
  ASSUME IInv, IInv', NEW t \in Threads, UNCHANGED backend,
         \A u \in Threads \ {t} : handle'[u] = handle[u] /\ name'[u] = name[u],
         \A r \in records' : r.by # t => r \in records
  PROVE  Contract!OthersKeepTheirs(t)
<1>1. UNCHANGED Cloudflare
  BY DEF Cloudflare
<1>2. Phase' \in [Threads -> {"none", "published", "lost"}]
  BY DEF Phase
<1>3. ASSUME NEW u \in Threads \ {t}
      PROVE  \/ Phase'[u] = Phase[u]
             \/ Phase[u] = "published" /\ Phase'[u] = "lost" /\ u \in Contested'
  <2>1. Holding(u)' = Holding(u)
    BY <1>3 DEF Holding
  <2>2. CASE Holding(u) /\ (Cloudflare \/ ~crossed'[u])
    <3>1. Published(u)'
      BY <2>1, <2>2, <1>1 DEF IInv, HeldIsPublished, Holding, Published
    <3>2. Published(u)
      BY <2>2 DEF IInv, HeldIsPublished, Holding, Published
    <3>3. QED BY <2>1, <3>1, <3>2 DEF Phase
  <2>3. CASE Holding(u) /\ ~Cloudflare /\ crossed'[u]
    <3>1. u \in Contested'
      BY <1>1, <2>1, <2>3 DEF Contested
    <3>2. Published(u)' => Published(u)
      BY <1>3 DEF Published
    <3>3. QED BY <2>1, <2>3, <3>1, <3>2 DEF Phase
  <2>4. CASE ~Holding(u)
    BY <2>1, <2>4 DEF Phase
  <2>5. QED BY <2>2, <2>3, <2>4
<1>4. Cloudflare => Contested' = {}
  BY <1>1 DEF Contested
<1>5. QED BY <1>1, <1>2, <1>3, <1>4 DEF Contract!OthersKeepTheirs

\* Cloudflare's records that nobody holds: of two, one was there before, if
\* but one thread let go of its handle.
LEMMA OneLitter ==
  ASSUME IInv, NEW t \in Threads, UNCHANGED backend, Cloudflare,
         \A u \in Threads \ {t} : handle'[u] = handle[u],
         \/ records' = records
         \/ handle'[t] = handle[t] /\ \E n : records' \subseteq records \cup {n}
  PROVE  \A r, s \in Litter' \ Litter : r = s
<1> SUFFICES ASSUME NEW r \in Litter' \ Litter, NEW s \in Litter' \ Litter
             PROVE  r = s
  OBVIOUS
<1>1. /\ r \in records' /\ s \in records'
      /\ \A u \in Threads : handle'[u] # r.handle /\ handle'[u] # s.handle
      /\ r \in records => \E u \in Threads : handle[u] = r.handle
      /\ s \in records => \E u \in Threads : handle[u] = s.handle
  BY DEF Litter, Stale
<1>2. CASE records' = records
  <2>1. r.handle = handle[t] /\ s.handle = handle[t]
    BY <1>1, <1>2
  <2>2. QED BY <1>1, <1>2, <2>1 DEF IInv, Numbered
<1>3. CASE handle'[t] = handle[t] /\ \E n : records' \subseteq records \cup {n}
  BY <1>1, <1>3
<1>4. QED BY <1>2, <1>3

LitterTyped ==
  Litter \subseteq [id : Nat, handle : Nat \X (Names \cup Zones),
                    name : Names, by : Threads]

LEMMA LitterType == IInv => LitterTyped
<1> SUFFICES ASSUME IInv, NEW r \in records
             PROVE  r \in [id : Nat, handle : Nat \X (Names \cup Zones),
                           name : Names, by : Threads]
  BY DEF Litter, LitterTyped
<1>1. r \in [id : 1..created, handle : Nat \X (Names \cup Zones),
             name : Names, by : Threads]
  BY DEF IInv, TypeOK
<1>2. QED BY <1>1

\* A call that starts, looks its zone up or has its record verified changes
\* nothing its caller is promised, but that it starts with a clean slate.
LEMMA QuietAsPromised ==
  ASSUME IInv, NEW t \in Threads, UNCHANGED backend,
         Begin(t) \/ Resolve(t) \/ Query(t) \/ LookupFails(t) \/ Verified(t)
  PROVE  [Contract!Start(t)]_(Contract!vars)
<1>1. UNCHANGED <<records, handle, Cloudflare>>
  BY DEF Begin, Resolve, Query, LookupFails, Verified, Cloudflare
<1>2. \/ Begin(t)
      \/ UNCHANGED <<name, spoiled, crossed>>
  BY DEF Resolve, Query, LookupFails, Verified
<1>3. Begin(t) =>
        /\ ~Holding(t)
        /\ spoiled'[t] = FALSE
        /\ \A u \in Threads \ {t} : /\ name'[u] = name[u]
                                    /\ crossed'[u] = crossed[u]
                                    /\ spoiled'[u] = spoiled[u]
  BY DEF Begin, IInv, TypeOK, Holding
<1>4. \A u \in Threads : Holding(u)' = Holding(u)
  BY <1>1 DEF Holding
<1>5. \A u \in Threads : Holding(u) => name'[u] = name[u] /\ crossed'[u] = crossed[u]
  BY <1>2, <1>3
<1>6. UNCHANGED Litter
  BY <1>1 DEF Litter, Stale
<1>7. UNCHANGED Contested
  BY <1>1, <1>4, <1>5 DEF Contested
<1>8. UNCHANGED Phase
  <2>1. \A u \in Threads : Holding(u) => Published(u)' = Published(u)
    BY <1>1, <1>5 DEF Published
  <2>2. QED BY <1>4, <2>1 DEF Phase
<1>9. CASE Begin(t)
  <2>1. Phase[t] = "none"
    BY <1>3, <1>9 DEF Phase
  <2>2. {u \in Threads : spoiled'[u]} = {u \in Threads : spoiled[u]} \ {t}
    BY <1>3, <1>9
  <2>3. QED BY <1>1, <1>6, <1>7, <1>8, <2>1, <2>2 DEF Contract!Start
<1>10. CASE UNCHANGED <<name, spoiled, crossed>>
  BY <1>1, <1>6, <1>7, <1>8, <1>10 DEF Contract!vars
<1>11. QED BY <1>2, <1>9, <1>10

\* A record is published, or a call gives up once it was.
LEMMA PublishAsPromised ==
  ASSUME IInv, IInv', NEW t \in Threads, UNCHANGED backend, Create(t)
  PROVE  Contract!Publish(t)
<1>1. /\ handle[t] = None /\ handle'[t] # None
      /\ UNCHANGED <<name, spoiled, Cloudflare>>
      /\ \A u \in Threads \ {t} : handle'[u] = handle[u]
      /\ \A u \in Threads : crossed[u] => crossed'[u]
  <2>1. HandleOf(t) # None
    BY HandleType, DnsAssumption DEF Create
  <2>2. QED
    BY <2>1 DEF Create, Created, IInv, TypeOK, Cloudflare
<1>2. PICK n : /\ n.handle = HandleOf(t) /\ n.name = name[t] /\ n.by = t
               /\ records' \subseteq records \cup {n}
               /\ n \in records'
  <2>1. PICK n : n = [id |-> created + 1, handle |-> HandleOf(t),
                      name |-> name[t], by |-> t]
    OBVIOUS
  <2>2. PICK kept \in Kept(t) : records' = kept \cup {n}
    BY <2>1 DEF Create, Created
  <2>3. kept \subseteq records
    BY DEF Kept
  <2>4. QED BY <2>1, <2>2, <2>3
<1>3. Contract!OthersKeepTheirs(t)
  BY <1>1, <1>2, OthersAsPromised
<1>4. Phase[t] = "none"
  BY <1>1 DEF Phase, Holding
<1>5. Phase'[t] = "published"
  <2>1. handle'[t] = HandleOf(t)
    BY DEF Create, IInv, TypeOK
  <2>2. Published(t)'
    BY <1>1, <1>2, <2>1 DEF Published
  <2>3. QED BY <1>1, <2>2 DEF Phase, Holding
<1>6. Contested \subseteq Contested'
  BY <1>1 DEF Contested, Holding
<1>7. Litter' \subseteq Litter
  <2>1. handle'[t] = HandleOf(t)
    BY DEF Create, IInv, TypeOK
  <2>2. ASSUME NEW r \in records', \A u \in Threads : handle'[u] # r.handle
        PROVE  r \in records /\ \A u \in Threads : handle[u] # r.handle
    <3>1. r \in records
      BY <1>2, <2>1, <2>2
    <3>2. r.handle # None
      BY <3>1, DnsAssumption DEF IInv, TypeOK
    <3>3. QED BY <1>1, <2>2, <3>1, <3>2
  <2>3. QED BY <2>2 DEF Litter, Stale
<1>8. QED
  BY <1>1, <1>3, <1>4, <1>5, <1>6, <1>7 DEF Contract!Publish

LEMMA WithdrawAsPromised ==
  ASSUME IInv, IInv', NEW t \in Threads, UNCHANGED backend, Delete(t)
  PROVE  Contract!Withdraw(t)
<1>1. /\ handle[t] # None /\ handle'[t] = None
      /\ UNCHANGED <<name, spoiled, crossed, Cloudflare>>
      /\ \A u \in Threads \ {t} : handle'[u] = handle[u]
      /\ records' = {r \in records : r.handle # handle[t]}
  BY DEF Delete, IInv, TypeOK, Cloudflare
<1>2. Contract!OthersKeepTheirs(t)
  BY <1>1, OthersAsPromised
<1>3. Phase[t] # "none" /\ Phase'[t] = "none"
  BY <1>1 DEF Phase, Holding
<1>4. Contested' = Contested \ {t}
  BY <1>1 DEF Contested, Holding
<1>5. Litter' \subseteq Litter
  BY <1>1 DEF Litter, Stale
<1>6. QED BY <1>1, <1>2, <1>3, <1>4, <1>5 DEF Contract!Withdraw

\* A lost request or answer, or a panic past delete_txt.
LEMMA AbandonAsPromised ==
  ASSUME IInv, IInv', NEW t \in Threads, UNCHANGED backend,
         CreateFails(t) \/ DeleteFails(t) \/ Panics(t)
  PROVE  Contract!Abandon(t)
<1>1. /\ handle'[t] = None
      /\ UNCHANGED <<name, Cloudflare>>
      /\ \A u \in Threads \ {t} : handle'[u] = handle[u]
      /\ \A u \in Threads : crossed[u] => crossed'[u]
      /\ spoiled' = [spoiled EXCEPT ![t] = TRUE]
  BY DEF CreateFails, DeleteFails, Panics, Created, Spoil, IInv, TypeOK,
         Cloudflare
<1>2. \/ records' = records
      \/ /\ handle'[t] = handle[t]
         /\ \E n : n.by = t /\ records' \subseteq records \cup {n}
  <2>1. CASE CreateFails(t) /\ Created(t)
    <3>1. PICK n : /\ n = [id |-> created + 1, handle |-> HandleOf(t),
                           name |-> name[t], by |-> t]
                   /\ records' \subseteq records \cup {n}
      BY <2>1 DEF Created, Kept
    <3>2. n.by = t
      BY <3>1
    <3>3. UNCHANGED handle
      BY <2>1 DEF CreateFails
    <3>4. QED BY <3>1, <3>2, <3>3
  <2>2. CASE ~(CreateFails(t) /\ Created(t))
    BY <2>2 DEF CreateFails, DeleteFails, Panics
  <2>3. QED BY <2>1, <2>2
<1>3. Contract!OthersKeepTheirs(t)
  BY <1>1, <1>2, OthersAsPromised
<1>4. Phase'[t] = "none"
  BY <1>1 DEF Phase, Holding
<1>5. Contested \ {t} \subseteq Contested' /\ t \notin Contested'
  BY <1>1 DEF Contested, Holding
<1>6. {u \in Threads : spoiled'[u]} = {u \in Threads : spoiled[u]} \cup {t}
  BY <1>1 DEF IInv, TypeOK
<1>7. LitterTyped'
  <2>1. IInv'
    OBVIOUS
  <2>2. QED BY <2>1, LitterType, PTL
<1>8. Cloudflare => \A r, s \in Litter' \ Litter : r = s
  BY <1>1, <1>2, OneLitter
<1>9. QED
  BY <1>3, <1>4, <1>5, <1>6, <1>7, <1>8
     DEF Contract!Abandon, LitterTyped

LEMMA ContractStep ==
  ASSUME IInv, IInv', [Next]_vars
  PROVE  [Contract!Next]_(Contract!vars)
<1>1. CASE UNCHANGED vars
  BY <1>1 DEF vars, Contract!vars, Cloudflare, Phase, Contested, Litter,
              Holding, Published, Stale
<1>2. ASSUME NEW t \in Threads, Begin(t) \/ Step(t), UNCHANGED backend
      PROVE  [Contract!Next]_(Contract!vars)
  <2>1. CASE \/ Begin(t) \/ Resolve(t) \/ Query(t) \/ LookupFails(t)
             \/ Verified(t)
    BY <1>2, <2>1, QuietAsPromised DEF Contract!Next
  <2>2. CASE Create(t)
    BY <1>2, <2>2, PublishAsPromised DEF Contract!Next
  <2>3. CASE Delete(t)
    BY <1>2, <2>3, WithdrawAsPromised DEF Contract!Next
  <2>4. CASE CreateFails(t) \/ DeleteFails(t) \/ Panics(t)
    BY <1>2, <2>4, AbandonAsPromised DEF Contract!Next
  <2>5. QED BY <1>2, <2>1, <2>2, <2>3, <2>4 DEF Step
<1>3. QED BY <1>1, <1>2 DEF Next, Rest

\* All four providers keep DnsContract: a record is its own call's from the
\* upsert to the delete, and what a call leaves behind it was excused for: by
\* a request, or by the panic of a closure, which skips delete_txt.
THEOREM ContractKept == Spec => KeepsContract
<1>1. Init => Contract!Init
  <2>1. Init => /\ Cloudflare \in BOOLEAN
                /\ Phase = [t \in Threads |-> "none"]
    BY DEF Init, Phase, Holding, Cloudflare
  <2>2. Init => /\ Contested = {}
                /\ {t \in Threads : spoiled[t]} = {}
                /\ Litter = {}
    BY DEF Init, Contested, Litter
  <2>3. QED BY <2>1, <2>2 DEF Contract!Init
<1>2. IInv /\ IInv' /\ [Next]_vars => [Contract!Next]_(Contract!vars)
  BY ContractStep
<1>3. QED
  BY <1>1, <1>2, InvariantHolds, PTL DEF Spec, KeepsContract, Contract!Spec
=============================================================================
