---------------------------- MODULE DnsProviders ----------------------------
(***************************************************************************)
(* A DnsProvider shared by threads that each publish a DNS-01 record, have *)
(* it verified and delete it: with_provisioned_record (src/crates/         *)
(* challenge-dns-01/src/lib.rs), or DnsSolverAdapter and the drop of its   *)
(* handle (src/crates/testing/src/dns_provider.rs).  A thread may do so    *)
(* again.  The provider is one of the four the repository has:             *)
(*   "byname", "static"  CloudflareProvider (src/crates/dns-providers/     *)
(*                       cloudflare/src/lib.rs) and its two zone lookups   *)
(*   "mock"              MockDnsProvider (challenge-dns-01/src/provider.rs)*)
(*   "challtestsrv"      ChallTestSrvProvider (testing/src/dns_provider.rs)*)
(* Cloudflare and challtestsrv are external: each holds its records, and   *)
(* any request may be lost, refused, or done and its answer lost.          *)
(***************************************************************************)
EXTENDS Naturals, Sequences, FiniteSets

CONSTANTS Threads,
          Names,      \* record names the threads publish, as label sequences
          Zones,      \* the Cloudflare account's zones, as label sequences
          Backends,   \* the providers the threads may share, one at a time
          Styles,     \* "closure" (with_provisioned_record), "handle" (adapter)
          MaxId,      \* most records created (bounds a TLC run)
          None        \* no record, no name

ASSUME DnsAssumption ==
  /\ \A n \in Names \cup Zones : n \in Seq(STRING)
  /\ Backends \subseteq {"byname", "static", "mock", "challtestsrv"}
  /\ Styles \subseteq {"closure", "handle"}
  /\ MaxId \in Nat
  /\ None \notin Names
  /\ None \notin Nat \X (Names \cup Zones)

VARIABLES backend,    \* the provider the threads share
          pc,         \* where each thread is
          name,       \* the record name it publishes
          style,      \* how it was called
          cache,      \* apexes whose zone id is cached
          records,    \* the records that exist, numbered as they were created
          created,    \* how many have been created
          handle,     \* a thread's RecordHandle
          spoiled,    \* history: a request of this call was lost or refused,
                      \* its answer was, or the closure panicked
          crossed     \* history: another call on this name created a record
                      \* while this one held its own, or the other way round

vars == <<backend, pc, name, style, cache, records, created, handle, spoiled,
          crossed>>

Cloudflare == backend \in {"byname", "static"}

Init ==
  /\ backend \in Backends
  /\ pc = [t \in Threads |-> "idle"]
  /\ name = [t \in Threads |-> None]
  /\ style \in [Threads -> Styles]
  /\ cache = {}
  /\ records = {}
  /\ created = 0
  /\ handle = [t \in Threads |-> None]
  /\ spoiled = [t \in Threads |-> FALSE]
  /\ crossed = [t \in Threads |-> FALSE]

Goto(t, l) == pc' = [pc EXCEPT ![t] = l]
Spoil(t) == spoiled' = [spoiled EXCEPT ![t] = TRUE]

-----------------------------------------------------------------------------
(* resolve_zone_id.                                                        *)

\* The last two labels, whatever the zones are.
Apex(n) == IF Len(n) <= 2 THEN n ELSE SubSeq(n, Len(n) - 1, Len(n))

\* The caller's map holds the account's zones.
Known(t) == IF backend = "static" THEN Apex(name[t]) \in Zones
            ELSE Apex(name[t]) \in cache

\* The calls that may still create a record.
Publishing == {t \in Threads : pc[t] \in {"resolve", "query", "create"}}

Begin(t) ==
  /\ pc[t] = "idle"
  /\ created + Cardinality(Publishing) < MaxId
  /\ \E n \in Names : name' = [name EXCEPT ![t] = n]
  /\ Goto(t, IF Cloudflare THEN "resolve" ELSE "create")
  /\ spoiled' = [spoiled EXCEPT ![t] = FALSE]
  /\ crossed' = [crossed EXCEPT ![t] = FALSE]
  /\ UNCHANGED <<style, cache, records, created, handle>>

Resolve(t) ==
  /\ pc[t] = "resolve"
  /\ Goto(t, IF Known(t) THEN "create"
             ELSE IF backend = "static" THEN "nozone" ELSE "query")
  /\ UNCHANGED <<name, style, cache, records, created, handle, spoiled, crossed>>

\* Mutant: the apex is cached before the answer is looked at.
CacheUnchecked(t) ==
  /\ pc[t] = "query"
  /\ cache' = cache \cup {Apex(name[t])}
  /\ Goto(t, IF Apex(name[t]) \in Zones THEN "create" ELSE "nozone")
  /\ UNCHANGED <<name, style, records, created, handle, spoiled, crossed>>

\* GET /zones?name=apex, without the lock; another thread may be doing it too.
Query(t) ==
  /\ pc[t] = "query"
  /\ IF Apex(name[t]) \in Zones
     THEN Goto(t, "create") /\ cache' = cache \cup {Apex(name[t])}
     ELSE Goto(t, "nozone") /\ UNCHANGED cache
  /\ UNCHANGED <<name, style, records, created, handle, spoiled, crossed>>

\* ZoneNotFound, or the GET failed: upsert_txt returns the error.
LookupFails(t) ==
  /\ pc[t] \in {"query", "nozone"}
  /\ Goto(t, "idle")
  /\ UNCHANGED <<name, style, cache, records, created, handle, spoiled, crossed>>

-----------------------------------------------------------------------------
(* The rest of upsert_txt.  Cloudflare gets a POST that creates a record   *)
(* and numbers it; the mock pushes one whose handle is the length of its   *)
(* list and the name; challtestsrv is known by its FQDN alone.             *)

\* Mutant: the mock's handle is the length of its list.
HandleOfLength(t) ==
  IF Cloudflare THEN <<created + 1, Apex(name[t])>>
  ELSE IF backend = "mock" THEN <<Cardinality(records), CHOOSE n \in Names : TRUE>>
  ELSE <<0, name[t]>>

HandleOf(t) ==
  IF Cloudflare THEN <<created + 1, Apex(name[t])>>
  ELSE IF backend = "mock" THEN <<Cardinality(records), name[t]>>
  ELSE <<0, name[t]>>

\* What is left of the records when one is created: all of them, or, for all
\* the client can tell of challtestsrv's set-txt, those of other names.
Kept(t) ==
  {records} \cup IF backend = "challtestsrv"
                 THEN {{r \in records : r.name # name[t]}} ELSE {}

\* The calls that hold a record of the name t publishes.
Rivals(t) == {u \in Threads \ {t} : handle[u] # None /\ name[u] = name[t]}

Created(t) ==
  /\ created' = created + 1
  /\ \E kept \in Kept(t) :
       records' = kept \cup {[id |-> created + 1, handle |-> HandleOf(t),
                             name |-> name[t], by |-> t]}
  /\ crossed' = [u \in Threads |->
                   \/ crossed[u]
                   \/ u \in Rivals(t)
                   \/ u = t /\ Rivals(t) # {}]

Create(t) ==
  /\ pc[t] = "create"
  /\ Created(t)
  /\ handle' = [handle EXCEPT ![t] = HandleOf(t)]
  /\ Goto(t, "verify")
  /\ UNCHANGED <<name, style, cache, spoiled>>

\* The POST does not arrive or is refused; or the record is created and the
\* answer is lost, unreadable, or has no result: there is no handle to delete.
CreateFails(t) ==
  /\ pc[t] = "create"
  /\ backend # "mock"
  /\ Created(t) \/ UNCHANGED <<created, records, crossed>>
  /\ Spoil(t)
  /\ Goto(t, "idle")
  /\ UNCHANGED <<name, style, cache, handle>>

-----------------------------------------------------------------------------
(* The verification, and delete_txt on the way out.                        *)

\* Mutant: an error of the verification is returned with `?`.
ErrorSkipsDelete(t) ==
  /\ pc[t] = "verify"
  /\ \/ Goto(t, "delete") /\ UNCHANGED handle
     \/ Goto(t, "idle") /\ handle' = [handle EXCEPT ![t] = None]
  /\ UNCHANGED <<name, style, cache, records, created, spoiled, crossed>>

\* The closure returns Ok or Err, or the driver drops the handle, which the
\* unwinding of a panic does too.
Verified(t) ==
  /\ pc[t] = "verify"
  /\ Goto(t, "delete")
  /\ UNCHANGED <<name, style, cache, records, created, handle, spoiled, crossed>>

\* A closure that panics unwinds past delete_txt, which is called from no drop.
Panics(t) ==
  /\ pc[t] = "verify" /\ style[t] = "closure"
  /\ Spoil(t)
  /\ handle' = [handle EXCEPT ![t] = None]
  /\ Goto(t, "idle")
  /\ UNCHANGED <<name, style, cache, records, created, crossed>>

\* Mutant: the record is looked for by its name.
DeleteByName(t) ==
  /\ pc[t] = "delete"
  /\ records' = {r \in records : r.name # name[t]}
  /\ handle' = [handle EXCEPT ![t] = None]
  /\ Goto(t, "idle")
  /\ UNCHANGED <<name, style, cache, created, spoiled, crossed>>

\* DELETE by the id in the handle; retain of the other handles; clear-txt of
\* every record of the name.
Delete(t) ==
  /\ pc[t] = "delete"
  /\ records' = {r \in records : r.handle # handle[t]}
  /\ handle' = [handle EXCEPT ![t] = None]
  /\ Goto(t, "idle")
  /\ UNCHANGED <<name, style, cache, created, spoiled, crossed>>

\* The DELETE does not arrive or is refused: nobody is told.
DeleteFails(t) ==
  /\ pc[t] = "delete"
  /\ backend # "mock"
  /\ Spoil(t)
  /\ handle' = [handle EXCEPT ![t] = None]
  /\ Goto(t, "idle")
  /\ UNCHANGED <<name, style, cache, records, created, crossed>>

-----------------------------------------------------------------------------

Step(t) ==
  \/ Resolve(t) \/ Query(t) \/ LookupFails(t) \/ Create(t) \/ CreateFails(t)
  \/ Verified(t) \/ Panics(t) \/ Delete(t) \/ DeleteFails(t)

\* Nobody has to publish again.
Rest ==
  /\ \A t \in Threads : pc[t] = "idle"
  /\ UNCHANGED vars

Next ==
  \/ Rest
  \/ \E t \in Threads : (Begin(t) \/ Step(t)) /\ UNCHANGED backend

Spec == Init /\ [][Next]_vars

-----------------------------------------------------------------------------
(* Properties.                                                             *)

Owns(n, z) == /\ Len(z) <= Len(n)
              /\ SubSeq(n, Len(n) - Len(z) + 1, Len(n)) = z

\* The type of every variable; only zones of the account are cached, and a
\* thread has a handle from the create's answer to the delete.
TypeOK ==
  /\ backend \in Backends
  /\ pc \in [Threads -> {"idle", "resolve", "query", "nozone", "create",
                         "verify", "delete"}]
  /\ name \in [Threads -> Names \cup {None}]
  /\ style \in [Threads -> Styles]
  /\ cache \subseteq Zones
  /\ records \subseteq [id : 1..created, handle : Nat \X (Names \cup Zones),
                        name : Names, by : Threads]
  /\ created \in Nat
  /\ handle \in [Threads -> (Nat \X (Names \cup Zones)) \cup {None}]
  /\ spoiled \in [Threads -> BOOLEAN]
  /\ crossed \in [Threads -> BOOLEAN]
  /\ \A t \in Threads : handle[t] # None <=> pc[t] \in {"verify", "delete"}

\* cloudflare lib.rs:222-224, 227-232, provider.rs:101-111, dns_provider.rs:
\* 72-85: from upsert's answer to its own delete a thread's record stays
\* published, whatever the others publish and delete.  On Cloudflare that is
\* so though a domain and its wildcard share one name: ids are deleted, never
\* names.  The mock, which reuses the length of its list, and challtestsrv,
\* which clears a name, promise it to calls that no other on the same name
\* has crossed.
HeldIsPublished ==
  \A t \in Threads : handle[t] # None /\ (Cloudflare \/ ~crossed[t]) =>
    \E r \in records : r.handle = handle[t] /\ r.name = name[t] /\ r.by = t

\* challenge-dns-01/src/lib.rs:92-95, dns_provider.rs:168-171: a call whose
\* requests were all answered leaves nothing behind, whether the verification
\* returned Ok or Err or, where a handle's drop cleans up, panicked.  A closure
\* that panics does leave its record, which lib.rs:70-71 ("always clean up on
\* the way out (Drop-style)") says it does not.
Stale(r) == \A t \in Threads : handle[t] # r.handle

NoLeak ==
  [][\A t \in Threads : pc[t] # "idle" /\ pc'[t] = "idle" /\ ~spoiled'[t]
       => {r \in records' : Stale(r)' /\ r.by = t}
            \subseteq {r \in records : Stale(r) /\ r.by = t}]_vars

-----------------------------------------------------------------------------
(* What a caller is promised (DnsContract).                                *)

Holding(t) == handle[t] # None
Published(t) ==
  \E r \in records : r.handle = handle[t] /\ r.name = name[t] /\ r.by = t

Phase ==
  [t \in Threads |-> IF ~Holding(t) THEN "none"
                     ELSE IF Published(t) THEN "published" ELSE "lost"]
Contested == {t \in Threads : Holding(t) /\ crossed[t] /\ ~Cloudflare}
Litter == {r \in records : Stale(r)}

Contract == INSTANCE DnsContract WITH
  Calls <- Threads,
  Records <- [id : Nat, handle : Nat \X (Names \cup Zones), name : Names,
              by : Threads],
  byId <- Cloudflare,
  phase <- Phase,
  contested <- Contested,
  excused <- {t \in Threads : spoiled[t]},
  litter <- Litter

\* challenge-dns-01/src/lib.rs:80-96, dns_provider.rs:72-171: all four
\* providers do that much for a call, and Cloudflare's two lookups the
\* stronger promise.  It is less than lib.rs:70-71 says: a closure that panics
\* is excused here, and so is a record that a crossing call takes away.
KeepsContract == Contract!Spec

-----------------------------------------------------------------------------
(* What the documentation says and the code does not do.                   *)

\* lib.rs:145-146: with a static lookup no heuristic is in the way: a record
\* whose zone the caller has listed is found.
StaticSkipsHeuristic ==
  backend = "static" =>
    \A t \in Threads : pc[t] = "nozone" => \A z \in Zones : ~Owns(name[t], z)
=============================================================================
