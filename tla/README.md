# acme-wasm: TLA+ models, model checking and proofs

acme-wasm is an ACME (RFC 8555) client in Rust: a library that issues
certificates, three kinds of challenge responder, a DNS provider, and a harness
that runs the whole against Pebble. This directory holds TLA+ specifications of
the parts whose correctness depends on order: interleavings of threads, early
returns, lost answers, deadlines and teardown. Definitions are translated from
the Rust sources; the file and line each stands for is in `PROJECT.json` under
`map`. Paths below are relative to `src/crates/`.

To check it: `tlc -config X.cfg M` for the pairs listed in *Runs*, `tlapm M.tla`
for the modules whose names end in `Proofs`.

## 1. Inventory

### How the parts interact

    caller's thread                                       CA
    issue_certificate ── HttpClient ───── POST/GET ──────> │
       │        │  (ReqwestTransport, or WasiHttpClient    │
       │        │   over the host's wasi:http)             │
       │        └─ ReplayNonceStore (Arc, shared by        │ validates
       │           every thread that uses the account)     │ (HTTP, TLS, DNS)
       └─ Box<dyn ChallengeSolver>: arm -> handle          │
              │        Drop of the handle = teardown       v
              ├─ Http01SolverAdapter    -> Http01Server (token map)  <─ probes
              ├─ TlsAlpn01SolverAdapter -> TlsAlpn01Server (one slot)<─ probes
              └─ DnsSolverAdapter       -> DnsProvider (Cloudflare API, ...)

The library is synchronous. Concurrency comes from callers that run several
issuances or requests on threads of their own over shared `Arc`s, from the
accept thread and the per-connection threads of the responders, and from the CA,
which validates while the client polls; in the WASI client, from the host, which
moves bodies and resolves requests while the component runs. `PebbleHarness` runs a CA
and its DNS server in containers that every test on the machine shares.

### Components

| component | state | operations | what is hard | what makes it correct |
|---|---|---|---|---|
| nonce store, `core/src/nonce.rs`, `account.rs` | FIFO of nonces behind a mutex | `get`, `refill`, `absorb`, `clear`; `post_kid` around them | the lock guards one pool operation, not a whole `get`; errors between taking and sending a nonce | no nonce sent twice or in two places; the pool, which nothing trims, stays small; a request never hangs on another thread |
| issuance driver, `core/src/{lib,order,authorization,challenge,certificate}.rs` | position in the protocol, the ready handle, deadlines | one call: directory, account, order, authorizations, finalize, download | an early return with `?` at every exchange; two poll loops against deadlines; a CA that may answer anything | a response is exposed exactly while its challenge is driven; certificates are earned; timeouts are honest and bounded; problems reach the caller; the call returns |
| transport and errors, `core/src/{transport,error,directory}.rs` | none | one exchange; `ok()`; problem documents | telling apart failures that did and did not reach the CA | every non-2xx answer becomes the CA's problem |
| JWS, keys, CSR, `core/src/{jws,csr}.rs` | a key | signing, encoding | pure assembly | a failure is reported, after the right step; encodings are unit-tested |
| HTTP-01 responder, `testing/src/http_server.rs`, `challenge-http-01` | token map behind a mutex, shutdown flag, connections | `insert`, `remove`, probes, `Drop` | the map's guard is kept while a response is written; teardown races probes; the accept thread is woken by a dial | an armed response is served, a dropped one is not; slow peers delay nobody for ever; dropping the server ends its thread |
| TLS-ALPN-01 responder, `testing/src/tls_server.rs`, `challenge-tls-alpn-01` | one certificate slot, flag, connections | install, clear, handshakes, `Drop` | one slot for every order | no stale certificate; orders that take turns are served |
| DNS-01 provisioning and Cloudflare, `challenge-dns-01`, `dns-providers/cloudflare`, adapter in `testing/src/dns_provider.rs` | zone-id cache; records at Cloudflare | `upsert_txt`, `delete_txt`, `with_provisioned_record`, arm/drop | lost answers; panics; a domain and its wildcard share a name; two threads looking the same zone up | a held record stays published until its own delete; only spoiled calls leak |
| other DNS providers, `challenge-dns-01/src/provider.rs`, `testing/src/dns_provider.rs` | list of records | upsert, delete | handle numbering; clearing by name | as above |
| WASI HTTP client, `http-client/src/lib.rs` | the handles of one exchange, the rest of the body | request, write, wait, read | nested handles that trap when dropped in the wrong order; writes that must fit a permit; a body that ends or breaks off; no timeouts | every path drops children before parents; no write exceeds its permit; Ok comes with the whole body; the request is sent whole or not at all |
| `protocol` component, `protocol/src/{lib,orchestrator,solver,types}.rs` | solvers, which are stateless values the host owns | `responder-cert`, `issue-certificate` (a placeholder that refuses) | what the bindings do around them | the host gets the answer |
| bindings of `protocol`, `protocol/src/bindings.rs` | the guest's memory; one static return area per interface | constructor, dtor, two exports and their post-returns | arguments are given away, answers are kept for post-return; lists are lifted in two parts; one area for every call, and an answer writes only a part of it | a block has one owner and is freed once; the host reads what the guest answered |
| bindings of `http-client` | handles | one function per import | generated; what an import needs, makes and takes is what the client must keep to | each import acts on its handles as its comment says |
| Pebble harness, `testing/src/lib.rs` | docker stack, temp dir | `spawn`, the admin API, `Drop` | a failure between `compose up` and the construction of the value that tears it down; one project name for all tests | fresh containers; seeded hosts are answered for; a stack that is up is accounted for; the compose file outlives its commands |

`PROJECT.json` has the same list with sources and status, and under `hazards`
the lines at which each difficulty bites with the properties that watch it.

## 2. The modules

    NonceLifecycle <─implements─ NonceStore <─ NonceStoreProofs, MCNonceStore
    IssuanceContract <─implements─ Issuance <─ IssuanceProofs, MCIssuance
    AcceptLoop <─ Http01Server ─implements─> ResponderContract
               <─ TlsAlpn01Server
    AcceptLoopProofs <─ Http01ServerProofs, TlsAlpn01ServerProofs
    DnsContract <─implements─ DnsProviders <─ DnsProvidersProofs, MCDnsProviders
    WasiErrorCode <─ WasiHttp <─ WasiClient ─implements─> ExchangeContract
    WasiClient <─ ComponentProofs, MCWasiClient
    ProtocolComponent <─ ComponentProofs, MCProtocolComponent
    PebbleHarness <─ PebbleHarnessProofs, MCPebbleHarness

**NonceStore** is `ReplayNonceStore` with any number of threads, each running
`Account::post_kid`. `pool` is the `VecDeque`; `pc` is where a thread is in
`get`/`refill`/`absorb`/`post_kid`; `values` are the `Replay-Nonce` headers of
the response it is absorbing; `hand` the nonce `get` returned. `absorb` takes the
lock once per value, so `AbsorbValue` is one turn of its loop; `get` is
`GetPooled`, or `GetMiss`, `HeadReply`/`HeadFails`, absorbing, `RefillFound`/
`RefillEmpty` and `RetakePooled`/`RetakeMiss`, because the lock is free between
those. `post_kid` goes on with `SignAndPost`/`SignFails`, `PostReply`/`PostFails`,
absorbing, `PostDone`. The CA is external: it sends nonces it has never sent
before, several or none per response, or headers that read as the empty string;
`burst` is how many a response of this CA may carry. `issued`, `spent` and
`supplied` are history variables. `Clear` is `clear` (nonce.rs:62): it has no
caller in the repository, so it may come from any holder at any moment.

**NonceLifecycle** is what that promises: unissued, offered, pooled, held, then
spent or dropped, never back. `LifecycleImplemented` maps every nonce's place in
the detailed state to its stage.

**Issuance** is one call of `issue_certificate_with_timeouts`. Every exchange is
one action, with its failures: `PostFailures` tells apart no nonce, a signing
error, a request that never left, an answer that was lost after the CA acted
(`reached`), and a refusal, with what the CA `said` in it: a problem document of
either type, or an answer that has none. A refused
HEAD for a nonce is reported as a transport error (nonce.rs:71-76), though
`refusal` remembers that the CA refused. These are the ways in
which `ExchangeContract`, below, lets an exchange fail. `pc` is the next call the
client makes. `armed` is the set of exposed responses; `Return` and `Satisfied`
empty it because the ready handle is a local that Rust drops on the way out. The
order of tests is the code's: the status before the clock in both loops
(challenge.rs:202-226, certificate.rs:91-116), `Location` before the status in
`order::create` (order.rs:113), `AuthzOffers` picks the first solver in the
caller's order. Time is counted in ticks from the moment the client turns to an
authorization or the finalize step; an exchange takes 0 to `MaxLatency`, arming
and the self-check 0 to `MaxArming` each. The CA may answer any poll with any
status, so nothing here depends on its good behaviour. `bare` is an order that
is valid but has no certificate URL.

**IssuanceContract** is what it promises caller and solvers: ordering, proving,
finalizing, then issued or failed; at most one response exposed, only for an
unproven authorization, none after the call.

**AcceptLoop** is the accept thread both responders run, the kernel's backlog
and the shutdown: `RaiseFlag`, then `Kick`, and `Accept`, which looks at the
flag once a connection arrives. `Kick` is `let _ = connect_timeout(..)`: the
dial is sent (`Dialled`: it is queued, or refused because the backlog is full or
the thread is gone), or is not sent at all (`NotDialled`: no descriptor left, or
an address that cannot be dialled), and nobody looks which. **Http01Server**
adds the map and its mutex. In edition 2021 the guard of `if let Some(ka) =
map.lock().unwrap().get(..)` lives until the end of the body, so `Lookup` keeps
the lock on a hit and `Write`/`PeerCloses`/`DrainTimesOut` give it back; on a
miss it is free at once. `BeginArm`/`Insert` and `BeginDrop`/`Remove` are the
solver adapter's calls, split where they wait for the lock. **TlsAlpn01Server**
adds the single slot: `Install`, `Clear` (by any handle's drop), `Resolve` at
the ClientHello. An order drives one challenge at a time, which is
`Issuance!ExposureWindow`; how many orders share the server is open.
**ResponderContract** is the promise to the CA's validator: a probe is answered
with its response exactly if that is exposed at that moment.

**DnsProviders** is `upsert_txt` and `delete_txt` under both ways they are
called: `with_provisioned_record` (`"closure"`) and `DnsSolverAdapter`
(`"handle"`); they differ when the verification panics, which only the handle's
drop cleans up after. The threads share one of
four providers (`backend`). For Cloudflare, `Resolve`, `Query` and the cache
follow `resolve_zone_id`, with the GET outside the lock, and its API, which is
external, numbers records. The mock makes a handle of the length of its list and
the name, so two records of one name may get the same one; challtestsrv is known
by names alone, and whether its set-txt keeps the other values of a name the
client cannot tell (`Kept`). Requests may be lost, refused, or done and their
answer lost. `crossed` remembers which calls met another on their name: these
two providers promise such calls nothing.

**DnsContract** is what a caller is promised, whoever keeps the records. A record
is published when `upsert_txt` returns, stays so until its own call withdraws
it, and is left behind only by a call that was `excused`: one of its requests or
answers was lost or refused, or its closure panicked past the delete. The stronger promise
(`byId`) is Cloudflare's: it holds for every call, and such a call leaves one
record. A provider that deletes by name, or by a number it uses again, promises
it to the calls that nobody's record has `contested`.

**WasiHttp** is the part of wasi:http and wasi:io that the client imports, as
the generated bindings and their comments give it: one operator per import, with
the handle it needs (`Own`), makes (`Make`, `Child`) or takes (`Take`, `Trade`;
the binding's `take_handle`). `ChildOf` is the hierarchy of the comments. One
exchange is under way at a time, so a handle is named for its role in it. The
host is external: `Drain`, `FlushEnds`, `Resolve`, `Deliver` and `EndReply` are
its own steps. A flush stops the writing until the host is done with it: until
`FlushEnds` no write is granted and the stream's pollable is not ready. That a
flush ends is the host's business; one that ended a flush only after `handle`
would hang this client, and is not modelled.
An import's operator is enabled only when its handle is alive, so a client that
called one without its handle would be stuck, and `ExchangeEnds` would say so.

**WasiClient** is `WasiHttpClient` over it. `pc` names the next import that
`round_trip`, `write_all`, `dispatch_and_read` or `read_response` calls; the
setters, which do not change what is owned, are one step. `ImportFails`,
`FinishFails`, `DispatchFails`, `NoReply` and `ReadFails` are the `?`s and the
early return; `Unwind` drops what is owned then, the youngest local first, as
Rust does (`finish` and `handle` have taken their argument even when they fail).
A call starts over when the last has ended. The permit is a u64 that the client
casts to a usize (lib.rs:164-167), 32 bits on wasm32: `Narrow` keeps the low part,
so a grant of a multiple of `Word` reads as none.

**WasiErrorCode** is the error code that `finish`, `handle` and `get` may answer.
Each binding hands the host an uninitialized area of its own; the host writes the
tags and values of its variant there (`LoweredCode`), and the binding lifts them
(`Lifted`) by the offsets of `Layout`. `said` is what the host answered and `told`
what came out.

**ExchangeContract** is what `HttpClient` promises the drivers: a request leaves
whole or not at all, once per call; Ok only after an answer; an error at any
point. It is the justification of taking an exchange for one step in `Issuance`
and `NonceStore`, where it fails before or after the CA has the request.

**ProtocolComponent** is the component's memory while a host calls its exports.
`heap` is the set of allocated blocks; `solvers`, `args` and `answer` are their
owners; `area` is each interface's `_RET_AREA`, as the five words it is made of.
`Construct` boxes a solver, `Destroy` is the dtor export. `CallResponderCert` and
`CallIssueCertificate` take over the blocks that the host allocated, `LiftList`
is the loop over a list with the deallocation after it, `RespondCert`,
`IssueCertificate` and `Trap` are the guest, `Lower` writes the answer's words and
leaves the others as they were (`Lowered`), and `PostReturn` decodes the area
again (`FreedAt`) and frees what it finds. A length is `<<block>>`, so that a
length that belongs to another block shows. The 31 error variants that carry a
string alone are laid out alike; `Variants` are as many of them as one likes, and
`Http` is the one that has a status before its string. `guest` is this crate's
orchestrator, which only ever answers `Other`, or one that may answer anything:
that is what the bindings are generated for, and what types.rs converts errors
for once the orchestrator is composed with an HTTP client.

`Construct` is one step because the wrapper that the constructor export makes
does not outlive it: `take_handle` takes the handle out of it again.

**PebbleHarness** is any number of tests that `Spawn`, use and `Drop` a harness
of the one compose project (`COMPOSE_PROJECT`, testing lib.rs:134). `Down`, `Up`
and its second try, the two `docker cp`s, the polls and the admin requests are
actions; docker is external, and a command that fails may have done its work or
part of it. `run_compose` runs `docker-compose` when `docker compose` is missing
or too old for the daemon (testing lib.rs:401-410), which has then done nothing:
the two are one step, whose outcomes are those of the one that got through. A
test process that is killed, and so drops nothing, is not modelled. `Leave` is
an error of spawn before there is a harness (only the tempdir is dropped),
`GiveUp` and `NoClient` one after it (the harness is dropped, and runs `down`).
`by`, `cleared`, `crossed` and `abandoned` are history variables: whose `up`
started the containers, whether this spawn's `down` succeeded, whether another
test changed the stack meanwhile, and whether a stack was knowingly left behind.

`MC*` modules give values to constants that a `.cfg` cannot write. Definitions
whose comment begins with "Mutant" are variants of an action with a plausible
bug; no specification uses them, `PROJECT.json` pairs each with the property
that notices it.

## 3. Runs

| run | configuration | states | shows |
|---|---|---|---|
| `nonce_store` | 2 threads, 4 nonces, bursts of 0 to 2, a clear at any time, fair | 211 768 | every interleaving of lock sections: `OnePlace`, `PoolBounded`, `NoReplay`, `LifecycleImplemented`, `RequestShrinks`, `RequestEnds` |
| `nonce_race` | 2 threads | violation | a thread's `get` fails although its own HEAD brought a nonce: the other thread pops it first |
| `issuance` | 0-2 authorizations, 3 kinds, 2 solvers, budgets 3 and 4 | 16 777 | `ExposureWindow`, `CertificateEarned`, `TimeoutHonest`, `BoundedOvershoot`, `CallShrinks`, `ContractImplemented`, `Returns` |
| `issuance_bad_nonce` | 1 authorization | violation | a `badNonce` refusal ends the call |
| `issuance_problem` | 1 authorization | violation | the CA's reason for refusing newOrder is lost |
| `http01_server` | 2 challenges, 2 connections, backlog 2, fair | 4 364 | `ArmedIsServed`, `NothingAfterTeardown`, `ContractImplemented`, `SolversProceed`, `AcceptLoopEnds` |
| `tls_alpn01_server` | 3 challenges, 2 orders, 2 connections, backlog 2 | 105 220 | `NoStaleCert`, `TurnsServed`, `WakeUpWaits` |
| `dns_providers` | 4 providers, 2 threads, 2 names, 4 records | 72 837 (symmetry) | `TypeOK`, `HeldIsPublished`, `NoLeak`, `KeepsContract` |
| `cloudflare_static` | 1 thread, a three-label zone in a static map | violation | the zone heuristic runs all the same |
| `wasi_client` | room for 3 bytes, a usize of one bit, bodies of 0 to 4, replies of 0 to 2, 8 error codes, fair | 38 790 | `WholeReply`, `ErrorTold`, `ChildrenGoFirst`, `WithinPermit`, `ContractImplemented`, `ExchangeEnds` |
| `pebble_harness` | 2 tests, 1 host, 2 polls, fair | 58 669 | `StartsFresh`, `SeedsAnswered`, `Accounted`, `FileForCompose`, `SpawnShrinks`, `SpawnEnds` |
| `protocol_component` | 5 blocks, both orchestrators, one string variant besides `http` | 140 883 (symmetry) | `EveryBlockOwned`, `HostSeesAnswer`, `FreesOnce` |

Every module has a type invariant, which the proofs establish for all values of
the constants (section 4). The DNS run checks it too: there it says that only
zones of the account are ever cached (cloudflare lib.rs:161-180).

### Bounds, and why they are enough

*Nonces* (4) bounds how many the CA may ever issue in a run. A race needs two
threads at two steps of a `get`, hence two or three nonces; the fourth lets a
burst of two meet a thread that already holds one, and lets the pool exceed the
number of threads if it could. *MaxBurst* 2 is the smallest burst whose turns of
`absorb` interleave; a behaviour picks its CA's `burst` from 0 to that at the
start, and `PoolBounded` speaks of the CAs that send at most one. When the CA
has run out, responses simply carry no nonce or an unreadable one, which the
code also handles. Three threads would add no new pair of racing steps for the
safety properties, and those are proved for any number anyway.

*MaxAuthzs* 2 has a first, a last and the step between them; 0 is included.
Three kinds and the solver list `<<dns, http>>` have a challenge that no solver
answers and an offer with two that could. *ChallengeTimeout* 3 with *Interval* 2
and *MaxLatency* 1 gives verdicts that arrive before, on and after the deadline
and loops of one, two and three polls; *FinalizeTimeout* differs from it so that
a mix-up of the two would show. Budgets of zero are covered by the proofs, which
hold for all of `Nat`.

Two connections and a *MaxBacklog* of two give a backlog that is empty, partly
full and full when the server is dropped (the dial is refused in the last case). Two
challenges are enough for one order's teardown to meet another's probe; the TLS
run has three because its slot problem needs two orders and a later turn.
*MaxId* 4 lets both threads publish the same name twice, and lets the mock's
list shrink and grow again, which is when it hands out a handle a second time.

*Capacity* 3 and *MaxBody* 4 give bodies that are empty, shorter than the host's
room, as long as it and longer, so that a permit covers the rest of the body, a
part of it or nothing. *Word* 2 stands for 2^32: permits of one, two and three
are one that is kept, one that is cut to nothing and one that is cut to a part.
The eight *Codes* are one of each shape of payload, and *Garbage* makes every
stray byte a tag that says a value is there. *MaxReply* 2 gives replies read in
none, one and several chunks, and replies that break off before, between and
after them.

Two tests are what it takes for one to bring down, start or seed what another
uses. With one host a request for it and a request against it can cross; hosts
do not affect each other. *MaxPolls* 2 has Pebble answer on the first poll, on
the last, or not before the deadline.

Five blocks are enough for a solver, an argument list with its element, and a
block to lift the list into, with one to spare: so an answer may get the block of
an argument, or one that an earlier call has freed. *MaxArgs* 3 lets the two
lists of `issue-certificate` be there at once beside a string; a responder call
has three strings at most. The host keeps calling, so every answer is lowered over
every other one of its interface, the empty ones included.

Deadlock checking is off in the issuance and responder runs, where the call
returns or the server is gone, and in `wasi_client`, where a host that keeps a
body it has no room for never lets the call go on (the client has no timeout), and in
`protocol_component`, where a trap ends the instance.
It is on for the nonce store, whose threads always have a next request, for the
harness, whose tests can always start again, and for the DNS providers, where
`Rest` says that idle threads need not publish once *MaxId* is reached.

### Fairness

Stated in each module next to `Spec`, and assumed only where a liveness property
needs it:

- `NonceStore`: weak fairness of each thread's `Step`, never of starting a
  request. Threads are scheduled, and an exchange ends because reqwest's
  blocking client has a default request timeout. `RequestEnds` says that `get`
  does not loop: it never waits for a nonce another thread holds.
- `Issuance`: weak fairness of the one thread that runs the call, for the same
  reason. Solvers are assumed to return from `arm` and `self_check`.
- `Http01Server`: weak fairness of the accept thread, of the dropping thread's
  dial (sent or not), of solvers that wait for the lock and of connections,
  whose sockets time out after five seconds (http_server.rs:136-137). Nobody has
  to connect, close, arm or drop. Weak fairness of `Insert` and `Remove` is
  enough to get the mutex because each of the finitely many connections takes it
  once; with an unbounded stream of slow peers a standard mutex would owe nobody
  anything, and the model does not claim more.
- `WasiClient`: weak fairness of the component's `Step` and of the host's
  `Drain`, `FlushEnds`, `Resolve` and `EndReply`: a host passes on what it took,
  ends a flush, answers or gives up, and ends a reply. Strong fairness of
  `CheckWrite`, because a host that has room may still grant nothing, or a
  multiple of 2^32 bytes, now and then, though not for ever. `ExchangeEnds` has
  a condition: the host passes the body on while it is being written (`eager`),
  or has room for all of it and one byte more. A host may keep the body until
  the request is dispatched, and the wait after the flush (lib.rs:184) is a wait
  for the flush and for room; a body that fills the host's room would wait there for ever, and the
  handle gets no timeouts that could end it.
- `PebbleHarness`: weak fairness of each test's `Step`. The docker commands are
  assumed to end (`run_compose_binary` waits for them without a timeout); the
  polls count to a deadline. No test has to start, to seed or to end.
- `TlsAlpn01Server`, `DnsProviders` and `ProtocolComponent` state none: their
  properties are safety properties.

### What the runs found

The four violating runs are differences between a comment and the code; each is
listed under `findings` with both quotations.

1. `get` promises to fetch a nonce when the pool is empty, and the store says it
   may be shared. With two threads, one can pop the nonce the other's HEAD has
   just brought, and the other fails with a missing header (nonce.rs:24, 77-97).
   `clear` could do the same, but nothing calls it; the property asks nothing of
   a `get` that it met.
2. `badNonce` "MUST" be retried (error.rs:32) and `clear` is "called on badNonce
   retry paths" (nonce.rs:61); nothing retries and nothing calls it.
3. `problem_from_response` is called "after any non-2xx response"
   (error.rs:237-238), but a refused newOrder fails on its missing `Location` first.
4. A static zone map is to "skip this heuristic" (cloudflare lib.rs:145-146);
   the name is cut to two labels before the map is consulted.

Others seen while translating and not given a run: a refused newNonce HEAD is
reported as `Transport` with its status, and its problem document is dropped
(nonce.rs:71-76, against error.rs:237-238); `with_provisioned_record` is to "always
clean up on the way out (Drop-style)" (challenge-dns-01 lib.rs:70-71), but a
closure that panics skips `delete_txt` and its record stays (lib.rs:92-93), so
`NoLeak` and `KeepsContract` excuse it, whereas the drop of a `DnsReady` handle
does clean up; the fixed compose project name is to make `down` target "exactly the
stack this harness brought up" (testing lib.rs:131-132), which it does for one test
at a time: `StartsFresh` and `SeedsAnswered` excuse a test whose stack another has
`crossed`; `poll_challenge` "honours the
CA's `Retry-After` header when present" (challenge.rs:163-164) and never reads
it, so there is no state a property could relate to it; an unknown challenge
status is polled on (challenge.rs:32-33 calls it terminal); a valid order without
a certificate URL fails at once (certificate.rs:8-9 says the client waits); no
authorization is ever polled (authorization.rs:7); the ceiling of lib.rs:85
leaves out arming; jws.rs:8 says "most recent" nonce where the store is a FIFO;
`responder_cert_from_key_authorization` asserts in a debug build that the
certificate has a DNS name (challenge-tls-alpn-01 lib.rs:113), which the one for
an IP address has not: `ProtocolComponent!Trap`.

## 4. Proofs

TLAPS proves, for every value of the constants that the named assumptions allow:

| theorems | of | from |
|---|---|---|
| `NonceStoreProofs!` `TypeCorrect`, `OnePlaceHolds`, `NoReplayHolds`, `PoolBoundHolds`, `RequestShrinksHolds` | `TypeOK`, `OnePlace`, `NoReplay`, `PoolBounded`, `RequestShrinks` | `NonceStoreAssumption`: finitely many threads; the empty header and "no nonce" are not nonces; `MaxBurst \in Nat` |
| `NonceStoreProofs!LifecycleHolds` | the store implements `NonceLifecycle` | the same |
| `IssuanceProofs!` `TypeCorrect`, `ExposureHolds`, `CertificateHolds`, `TimeoutHolds`, `OvershootHolds`, `CallShrinksHolds` | `TypeOK` and the run's first five properties | `IssuanceAssumption`: budgets and latencies are naturals, the interval is positive, the solvers' kinds are kinds |
| `IssuanceProofs!ContractHolds` | the call implements `IssuanceContract` | the same |
| `Http01ServerProofs!` `TypeCorrect`, `ServedHolds`, `TeardownHolds`, `WakeUpHolds` | `TypeOK`, `ArmedIsServed`, `NothingAfterTeardown`, `WakeUpWaits` | `AcceptLoopAssumption`, `Http01Assumption`: tokens are unique to their challenge; the lock's "free" is no connection |
| `Http01ServerProofs!ContractHolds` | the server implements `ResponderContract` | the same |
| `TlsAlpn01ServerProofs!` `TypeCorrect`, `NoStaleCertHolds`, `TurnsServedHolds`, `WakeUpHolds` | `TypeOK`, `NoStaleCert`, `TurnsServed`, `WakeUpWaits` | `AcceptLoopAssumption` |
| `DnsProvidersProofs!` `TypeCorrect`, `HeldHolds`, `NoLeakHolds` | `TypeOK`, `HeldIsPublished`, `NoLeak` | `DnsAssumption`: names and zones are sequences of labels, "none" is no name and no handle |
| `DnsProvidersProofs!ContractKept` | all four providers implement `DnsContract` | the same |
| `ComponentProofs!` `TypeCorrect`, `RepliesWhole`, `HandlesOrderly`, `PermitsKept` | `TypeOK`, `WholeReply`, `ChildrenGoFirst`, `WithinPermit` | `HostAssumption`, `ClientAssumption`: the host has room for at least a byte; the lengths are naturals, and there is more than one usize |
| `ComponentProofs!ErrorsTold` | `ErrorTold` | the same and `ErrorCodeAssumption`: variants are numbered 0 to 38, texts and counts are numbers, "none" is neither |
| `ComponentProofs!ContractRefined` | the client implements `ExchangeContract` | the same |
| `ComponentProofs!` `ProtocolTypeCorrect`, `BlocksOwned`, `AnswerSeen`, `FreedOnce` | `ProtocolTypeOK`, `EveryBlockOwned`, `HostSeesAnswer`, `FreesOnce` of `ProtocolComponent` | `ProtocolAssumption`: the empty pointer is no block; `http` is not one of the string variants, `Other` is; "none" is neither a variant nor an answer |
| `PebbleHarnessProofs!` `TypeCorrect`, `FreshHolds`, `SeedsHold`, `AccountedHolds`, `FileHolds`, `SpawnShrinksHolds` | `TypeOK`, `StartsFresh`, `SeedsAnswered`, `Accounted`, `FileForCompose`, `SpawnShrinks` | `HarnessAssumption`: "none" is no test |

**Nonce store.** `OnePlace` alone is not inductive in the presence of arbitrary
`hand` and `values`: that a popped nonce is disjoint from other threads' claims
needs to know that `hand` is set only at `sign` and `values` only while
absorbing, and that everything anywhere was issued (so that a fresh burst meets
nothing). Those are the last lines and the `issued` bounds of `TypeOK`; the
inductive invariant is `TypeOK /\ OnePlace`. The proof has a step per action,
and lemmas about `Append`, `Head`, `Tail` and `Range` on sequences without
repeats. `NoReplay` follows because the nonce in hand is one of the thread's
claims and no claim is spent. For `LifecycleHolds` each action is mapped to the
stage move it makes on one nonce (or on a burst; `Clear` drops every pooled one)
and every other nonce is shown to stay where it was; `OnePlace` is what makes
`Stage` a function of the state.

**Issuance.** The inductive invariant `IInv` is `TypeOK`, `ExposureWindow`,
`TimeoutHonest`, `BoundedOvershoot` and two facts that no run needs to name:
`LoopInv` says what the loop over authorizations has established at each `pc`
(the proven ones are exactly `1..next-1`; past the loop, `next = count + 1`;
`finalized` only from the finalize step on), without which nothing connects
`AllAuthorized`'s guard to `CertificateEarned`; `PollInv` says that a loop that
sleeps does so before its deadline, that it polls again within one interval of
it, and that a download follows only a valid answer; without the first two
`BoundedOvershoot` does not survive a poll, without the third `CertificateEarned`
does not survive the download. `ContractHolds` maps `AuthzValid` and
`PollValid` to `Prove`, `Arm` to `Expose`, the failures to `Fail`, and every
exchange in between to a stutter.

**The pool's bound** is an accounting argument: `Debtors` are the threads that
have found the pool empty, or taken a nonce, and whose response is not absorbed
yet. A step shrinks the pool when a debt begins and grows it, by one, when a debt
ends; a debt that begins without a nonce begins with an empty pool, where the
bound is just the number of threads. `OneValue` (at most one header value in
flight per thread) is the strengthening it needs.

**Bounded work.** `StepsLeft` is, in three modules, a number that every step of
the call, of the request or of the spawn makes smaller and that is never negative:
no CA, no other thread and no other test can make one go round for ever.
`CallShrinks`, `RequestShrinks` and `SpawnShrinks` say so, and are proved for all
budgets, bursts and numbers of polls. The liveness properties add only that the
next step is taken, which is the fairness assumed above. For the issuance the
number is the authorizations that are left times what one may take, plus what
the finalize step may take, with `TicksLeft` of the budget in the loop that runs
(a round of a loop sleeps at least one tick of it); `CASE` over `pc` is unfolded
once, in lemmas that give its value at each `pc` (`StepsAt`), and each action is
a step of the proof. For the nonce store and the harness a step of another thread
leaves the number alone.

**HTTP-01.** `AcceptLoopProofs` shows once, for both responders, that every step
of the loop keeps `LoopInv`: the type of the loop's variables, strengthened with
`QueuedOnce`, without which the connection that is accepted might still wait, and
`Woken`: the dial comes after the flag, and when one that was sent is refused the
listener is gone or the full backlog has something else that wakes the thread,
which needs a backlog of at least one place. Of a dial that was never sent nothing
is claimed: with an empty backlog the thread, and its port, stay until somebody
connects. `WakeUpHolds`, on either server, is the part of `AcceptLoopEnds` that
needs no fairness: TLC checks the whole on the HTTP-01
server, whose accept thread is ended in the same way. On `LoopInv`
`Http01ServerProofs!IInv` adds `Guarded` (the mutex is held exactly by the
connection being answered), the two properties, and `Unanswered` (no answer
before the lookup), which makes a lookup the contract's `Answer`. `Remove` keeps
`NothingAfterTeardown` because it needs the lock free, hence nobody writing.

**TLS-ALPN-01.** `SlotInv`: what is loaded belongs to a live handle, and to the
only one as long as handles have not overlapped. `Unshown` says that a handshake
that is still to come has been shown nothing.

**DNS providers.** `Numbered` (ids are unique and no larger than the count) makes
a delete by id remove one record at Cloudflare; `HasName` and `Named` give a
handle and a record a name. The mock's delete may remove another caller's record
and challtestsrv's clear removes every record of a name; `Crossing` says that two
calls that hold records of one name are both marked `crossed`, which is where
`HeldIsPublished` promises nothing for these two providers.

`ContractKept` maps a thread's place to the contract's `phase` (`Published`, by a
record of its handle, its name and its own), the records that no call can still
delete to `litter`, and `crossed` holders to `contested`, which is empty on
Cloudflare. `Create` is `Publish`, `Delete` is `Withdraw`, and either is `Abandon`
when it fails, done or not; a closure that panics is `Abandon`, a panic under a
handle changes nothing, since the drop goes on to delete; lookups stutter.
`OthersAsPromised` is the heart of it: a step changes the phase of another call
only if the provider is one that may and the two have crossed. `OneLitter` needs
`Numbered`: what Cloudflare's call abandons is the one record of its id.

**WASI client.** `InScope` gives for each `pc` the handles that are owned there,
and `ParentsAlive` that a child's parent is; together they turn "every drop is in
order" into a look at each call. `held + permit <= Capacity` is what a write needs
to stay inside its permit, and `Written` (past `write_all` nothing is left) is
what makes `Dispatch` the contract's step that sends the request whole. The
order in which `Unwind` drops is a case analysis on what may be owned at the same
time. `NarrowBound` is why a cut permit is still within the grant. `ErrorsTold`
rests on `LayoutOf`, which lists the rows of `Layout`, and `LiftedAsLowered`: in each
of them the lift looks at just the bytes the host wrote.

**Protocol component.** `EveryBlockOwned` is inductive once one knows what the
words of the area mean while an answer is in it. `Holds` says that: the pointers
that post-return finds are the answer's texts, each with its own length and each
once, and a host that decodes the words gets the answer. `LoweredHolds` proves
that `Lowered` establishes it over *any* earlier words, by the three shapes of an
answer; `Fits` says which of them an interface may answer. What is freed is then
just what the answer owned, hence `EveryBlockOwned` after `PostReturn`, and
`HostSeesAnswer` and `FreesOnce` can be read off. `ComponentProofs` extends both
components' modules, which share no variable.

**Pebble harness.** `OwnStack` says that after a `down` that succeeded what is up
is the caller's own, unless another test has `crossed` it; `StartsFresh` follows.
`Unseeded` says that nothing is seeded before the containers are up, and
`HasFile` that the tempdir lives as long as the call. `SeedsAnswered` and
`Accounted` are inductive beside these.

### What is only model-checked

Liveness: `RequestEnds`, `Returns`, `SolversProceed`, `AcceptLoopEnds`,
`ExchangeEnds`, `SpawnEnds`. The prover does not handle fairness and `ENABLED`;
for `RequestEnds`, `Returns` and `SpawnEnds` the part that needs neither, that a
step always brings the end nearer, is proved (*Bounded work*), and for
`AcceptLoopEnds` that a dial that was sent does not leave the thread asleep
(`WakeUpHolds`).
Everything else that the passing runs check is also proved.

## 5. Not modelled, and why

- Signing, key and CSR encoding, building the TLS-ALPN certificate, key
  authorizations and `split_pem_chain`: pure functions; the drivers see only
  that they may fail, and after which step.
- The table that turns problem types into errors (error.rs:258-291), except for
  `badNonce`: the drivers treat all the others alike.
- `create_with_options` with `onlyReturnExisting`; it is not on the path of
  `issue_certificate`.
- Poisoned mutexes: every holder of a lock runs code that does not panic.
- A Cloudflare zone that is deleted and made again: its stale cached id is
  listed as a hazard, without a property; zones do not change in the model.
- In `http-client`'s bindings, the imports that no code here calls, and the
  generated code that lifts strings and lists; the widths of an error code's
  counts.
- The bytes of what crosses the `protocol` component's boundary, and which of the
  31 alike error variants an error is: the conversions of types.rs copy a string
  from a variant to the one of the same name, and nothing calls them yet.
- Several issuances over one nonce store and one responder as a single
  specification. The parts are linked by what they promise each other instead:
  `Issuance` takes an exchange for one step, which `ExchangeContract` and
  `NonceLifecycle` justify for any number of threads; the responders are checked
  against any orders that keep to `ExposureWindow`. No property of the product
  is claimed beyond these.
- Docker, reqwest, rustls and the CA are external: what the code here can
  observe of them is nondeterministic.

## 6. Plan

Done: each component of the inventory whose status is *modelled* or *partly*,
with its proofs, and the five abstract specifications.

Left, in order of what it would add:

1. `SharedAccount`: two `Issuance` calls over one `NonceStore` and one responder.
   The state space is the product of the largest runs, so it needs an `Issuance`
   reduced to the contract's steps; it would check that the contracts above
   compose, in particular that one call's failed `get` ends only that call.
2. `split_pem_chain`, problem types and the two-label zone against reference
   definitions on bounded inputs. The crates' unit tests cover the ordinary
   cases; only bounded inputs could be checked, since induction over data is
   beyond the prover.
3. Zones that change, to give the cached zone id its property.
