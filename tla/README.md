# TLA+ models of decentralized-messenger

The messenger is a Go node that keeps one append-only, hash-chained log of signed
messages per chat, seals it with Merkle snapshots, serves it over HTTP and pushes
events over WebSockets; a React client reads and writes chats. Several nodes may
share one ScyllaDB cluster, one Redis and one RabbitMQ. This directory holds a
model of each part whose behaviour depends on order, concurrency or failure, the
TLC configurations that check the models on small instances, and proofs, checked
by TLAPS, of every safety property of the passing runs for instances of every size.

`PROJECT.json` maps every definition to the lines it models and lists the runs,
the mutants that show each property can fail, the hazards and the findings.

## Inventory

| Part | State | Operations | Talks to |
|---|---|---|---|
| `internal/chatlog` | one mutex per chat (`Log.locks`) | `Append`, `snapshot`, `Verify`, `VerifyEntry`, `ProveInclusion`, `Sync`, `History`, `Entry`, `Subscribe` | storage, cache, broker |
| `internal/storage` | entries and snapshots of each chat | `AppendEntry`, `LastEntry`, `Entry`, `EntriesSince`, `SaveSnapshot`, `LatestSnapshot`, `SnapshotAt`; in-memory slices or ScyllaDB tables | ScyllaDB |
| `internal/models`, `internal/crypto` | none | payload, signature, entry hash | |
| `internal/merkle` | none | `Root`, `Proof`, `VerifyProof` | |
| `internal/cache` | latest root per chat, public keys | setters and getters; only `SetMerkleRoot` is called | Redis |
| `internal/broker` | subscribers and their channels | `Publish`, `Subscribe`, cancel | RabbitMQ |
| `internal/api` | none of its own | send, read and verify handlers; `handleStream` with a reader goroutine | service, limiter |
| `internal/ratelimit` | a bucket per client address | `Allow`, `evictIdle` in a goroutine | |
| `internal/service` | none | `Submit` caps the content, the rest is passed on | chatlog |
| `cmd/messenger` | none of its own; `net/http`'s connections | wiring, `runUntilShutdown` | all |
| `web/src` | messages shown, cursor, live flag, WebSocket | load a page, react to an event, send | the HTTP API |

What is hard here:

- **Concurrency.** Goroutines of one node meet at a chat's mutex. Nodes that share
  a cluster meet only at the conditional insert of `AppendEntry`. Reads take no
  mutex and make several queries. The broker's channels are filled and closed by
  different goroutines. The client's requests overlap.
- **Failure.** A ScyllaDB insert or upsert that times out may be applied later; a
  query may fail in the middle of `Append`; a node may die between any two calls, or
  be told to stop in the middle of requests; `Publish` and the cache fail silently;
  a WebSocket client goes away; RabbitMQ closes the one channel of a node.
- **Limits.** The event channels hold 64 events and drop the rest; the limiter
  forgets buckets; a Merkle layer may be odd.

What makes each part correct: the log is one unbroken chain and only grows; what
was acknowledged is there and was signed for that chat; snapshots cover the
windows they claim and leave nothing out; pages, proofs and sync bundles are right
while the log grows; tampering is noticed; every request is answered, also by a node
that is stopping; a stream misses no event it has room for and leaves nothing
behind; the limiter keeps its rate over every interval; the client shows the log
without holes or repetitions.

## Modules

| Module | Models |
|---|---|
| `SignedMessages` | messages, payloads, signatures, entry hashes |
| `Merkle` | `internal/merkle` |
| `Storage` | both adapters as operators on tables; `Backend` chooses |
| `Chain` | how an entry is chained to a tip, and the integrity checks (extends `Storage`) |
| `MCIntegrity` | every small window and every small table: what the hashes commit to (extends `Chain`, `Merkle`) |
| `ChatLog`, `MCChatLog` | the write path: send handlers, `Submit`, `Append`, `snapshot` (extends `Chain`, `Merkle`) |
| `AppendOnlyLog` | the abstract log: what callers are promised |
| `ChatLogRefines` | the mapping under which `ChatLog` implements `AppendOnlyLog` |
| `ChatReads`, `MCChatReads` | the read path, composed with the write path (extends `ChatLog`) |
| `NodeLifecycle`, `MCNodeLifecycle` | `cmd/messenger`: start, drain, exit and death around the write path (extends `ChatLog`) |
| `ChatLogProofs` | what is proved of the write path on any number of nodes, and that it implements `AppendOnlyLog` (extends `ChatLogRefines`) |
| `OneNodeProofs` | what one node adds: mutual exclusion, snapshots, the order of events (extends `ChatLogProofs`) |
| `ChatReadsProofs` | the read path (extends `ChatReads`, `OneNodeProofs`, `MerkleProofs`) |
| `MerkleProofs`, `IntegrityProofs` | what the Merkle operators compute, and the properties of `MCIntegrity` without its bounds |
| `EventStream`, `MCEventStream`, `EventStreamProofs` | both brokers and `handleStream` |
| `RateLimiter`, `RateLimiterProofs` | `internal/ratelimit` and its middleware |
| `ChatClient`, `ChatClientProofs` | `useChat.ts` with the endpoints it uses |

Definitions that a comment describes as a slip (`NextEntryUnlinked`,
`LockNothing`, ...) are the mutants of `PROJECT.json`; no specification uses them.

**Data.** SHA-256 and Ed25519 are collision-free constructors: a hash is the tuple
of its parts, a signature the pair of key and payload. A message's content is its
length, the only thing the server looks at. Clock readings are ticks, two to a
millisecond, so that a timestamp that survives ScyllaDB can be told from one that
does not. A table is a function from its key. `SignBit` stands for 2^63, the first
unsigned number that `int64()` makes negative.

**Loops.** A loop of the code is a recursive function of the number of its rounds:
`Layers` and `Halves` (the layer and `idx` in `Root` and `Proof`), `RunningHash`
(`VerifyProof`), `Kept` (the filter of `appendEntries`).

**`Storage`.** Each operation of the port is defined per adapter (`Slice...`,
`Row...`) and chosen by `Backend`. A ScyllaDB upsert is decided by the write
timestamp: two snapshots of one index by the same node keep the newer, those of two
nodes either, as the nodes' clocks have it.

**`ChatLog`.** A process is a goroutine serving a request. `pc` names the call it
makes next: `lock`, `readTip`, `append`, `publish`, `readSnapshot`, `readWindow`,
`saveSnapshot`, `cacheRoot`, `publishSnapshot`; each is one action, and the
response with the deferred `Unlock` is part of the action that returns. `BadRequest`,
`Reject` and `Accept` are the three outcomes of decoding and validation.
`ReadFails`, `AppendTimesOut`, `LateAppend`, `SaveTimesOut`, `LateSave` and `Crash`
are the failures; the constant `Faults` says which may happen: failing queries,
failing or late writes, a failing broker or cache, crashes. `limbo` and `lateSnaps`
hold the writes that timed out and may still be applied. A table is read and written
atomically: the adapter reads and writes with quorums, and a lightweight transaction
is decided once.

**`AppendOnlyLog`, `ChatLogRefines`.** The abstract log has callers, not mutexes: a
call is submitted, committed at the end of its chat and acknowledged with its
position, or it fails, and then it was committed before, is abandoned and may be
committed late, or never is. Under the mapping a message is its signature, `AbsLog`
the messages of the rows, a call is committed when its row is written, acknowledged
by 201, and abandoned while it is in `limbo`. Publishing, sealing, caching and
everything about snapshots are stuttering steps.

**`ChatReads`.** A reader makes one query per action; `query` is what it has read
so far, `answer` its last response with what the properties need to know about the
moment it was given. `History` is a client that follows `next_from` to its end, one
request per action, with the `from` and `limit` of `FromParams` and `LimitParams`:
absent, zero, ordinary, beyond the maximum, 2^63 (in `node`) and not
a number. A panic of a handler is an answer without status.

**`NodeLifecycle`.** The actions of `ChatLog` are taken by a node that has started
and not ended. `net/http` is external and modelled from its use: `Shutdown` stops
accepting, waits for requests being served and for connections that have sent
nothing (five seconds), and not for hijacked ones. `Drained`, `DeadlinePasses`,
`ListenerFails` and `Killed` are the four ways a process ends; each takes its
goroutines and mutexes with it (`Dies`), and the store stays. Requests that
validation turns away are left to `ChatLog`'s own runs.

**`EventStream`.** `broker` is one of `Brokers`, chosen at the start. An event is its
position in `published`. For `InMemory` the publisher sends to every registered
channel; for RabbitMQ it goes to a queue per subscription and the subscription's
goroutine (`pump`) moves it to the channel. All subscriptions and publications of a
node use one AMQP channel (`up`), which RabbitMQ closes when it refuses a call and
which nothing opens again. `Subscribe` binds the queue and consumes from it in two
steps, between which the channel may be lost. `phase`, `gone` and `done` follow `handleStream` and its
reader goroutine.

**`RateLimiter`.** `golang.org/x/time/rate` is external and modelled as credit that
grows with time. `evictIdle` is two actions because it reads the clock before it
has the mutex.

**`ChatClient`.** Entries are their sequences. A request is sent, answered and
received in three steps; a failure may come before or after the server has acted.
Switching chats is left out: `App.tsx` never does. `newest` and `failed` are not the
view's: they record which fetch is for the newest event that has reached the stream
and whether that one failed, so that `ToldAdvances` excuses nothing older.

## Runs

Passing runs:

| Run | Instance | Shows |
|---|---|---|
| `integrity` | windows of up to 5 of 5 leaves; tables of up to 3 entries with any positions, links, hashes and messages | `ProofsVerify`, `ProofsBindLeaf`, `RootDeterminesWindow`: proofs verify, bind their leaf, and a root determines its window; `VerifyExact`, `TipCommits`, `EachEntryVerifies`: `Verify` accepts exactly what `Append` writes, the tip commits to the log, and checking every message is checking the log |
| `node` | in-memory store, 2 goroutines, 2 chats, 4 appends, invalid requests, 1 reader | writes: `TypeOK`, `AllAuthentic`, `PublishedInOrder`, `SnapshotRange`, `SnapshotsTile`; reads: `HistoryComplete`, `CoveredIsProved`, `NoFalseAlarm` |
| `log_cluster` | ScyllaDB, 2 nodes, 4 appends, every fault; the nodes are symmetric | `ChainOK`, `PendingLinked`, `AckDurable`, `EventsBacked`, `AppendOnly`, and `Implements`: the refinement of `AppendOnlyLog` |
| `lifecycle` | ScyllaDB, 1 node started and stopped, 2 goroutines, 3 appends with a snapshot each, failing queries, late writes, death | `AllAnswered`, `ShutdownCompletes`, `SnapshotsCover` |
| `reads_cluster` | ScyllaDB, 2 nodes (symmetric), 4 appends, failing queries, 1 reader | `HistoryComplete`, `SyncReplays`, `SyncNotAhead`, `ProofSound`, `NoFalseAlarm` although snapshots may be wrong or missing |
| `stream` | both brokers, 1 stream, events of 2 chats, faults | `NoSendOnClosed`, `OwnChatInOrder`, `NoneSlipsThrough`, `GoroutinesEnd`, `EventuallySent` |
| `client` | log of 3, 3 overlapping requests, failures, null pages, sends | `NoDuplicates`, `CursorAtNewest`; `ShownIsPrefix` while nothing was sent; `ToldAdvances` |
| `limiter` | 2 clients, burst 2, refill within the idle timeout | `RateHonoured`, `RefusedWhenSpent` |

Runs that end in a counterexample, each a disagreement between the code and what
it is documented to do (the findings of `PROJECT.json` quote both):

| Run | Property | What happens |
|---|---|---|
| `log_shared_window` | `SnapshotRange` | two nodes: the window read for a snapshot already has entries beyond its last one |
| `reads_missed_snapshot` | `CoveredIsProved` | one failed snapshot shifts every later index |
| `client_hole` | `NoHole` | a send moves the cursor over entries not fetched yet; nothing is in flight any more and nothing will fetch them |
| `client_gap` | `LiveShowsAll` | an entry between the last page and the handshake is not shown |

**Observations.** The models also behave, as the code does, in ways a reader of
the documents may not expect; no run states the contrary:

- `SaveSnapshot` is an upsert (`scylla.go:208`): two nodes that seal the same index
  at once leave one of the two, although `README.md:168` calls the table immutable.
  An upsert applied late may make the windows of one node's snapshots overlap; it
  never leaves a gap between them (`SnapshotsCover`).
- A message is answered 422 when its snapshot fails or its insert times out
  (`log.go:106`), and may be in the log all the same (`docs/api.md:278`).
- `storage.go:20` asks the adapters to refuse a sequence that is not contiguous; the
  ScyllaDB adapter only refuses one that is taken. No gap arises all the same
  (`PendingLinked`).
- `Sync` reads entries and tip in two queries (`log.go:346`): `current_hash` may be
  newer than the bundle's last entry, never older (`SyncNotAhead`).
- A timestamp with digits below a millisecond is accepted and hashed, and ScyllaDB
  truncates it (`scylla.go:79`): the entry then reads as tampered with. Requests of
  the runs are made between two milliseconds by `NewMessage`, which truncates first;
  without that `NoFalseAlarm` fails.
- `from=9223372036854775808` and more is beyond the end in memory and the beginning
  of the log on ScyllaDB (`scylla.go:127`), against the contract of `storage.go:27`,
  which is what `HistoryComplete` states: with ScyllaDB it is checked and proved for
  a smaller `from` only (`FromsFit`).
- A node that seals after another one has sealed further starts where that snapshot
  ends and names its own, earlier tip (`log.go:119`). The snapshot ends before it
  starts, and `ProveInclusion` against it panics on a negative size (`log.go:202`):
  the client gets no response.
- An empty page of the ScyllaDB adapter is `null` (`scylla.go:130`), at which
  `appendEntries` throws (`useChat.ts:28`) before the view looks at `next_from`: an
  empty chat, or one whose length is a multiple of the page size, does not go live
  until something is appended.
- `Verify` does not notice that the last entries of a log were removed
  (`log.go:298`): what is left is an honest, shorter log. The hash of the tip tells
  the two apart (`TipCommits`).
- A full channel drops events (`rabbitmq.go:104`); subscribers keep a subsequence.
- One refused subscription closes the AMQP channel that all subscriptions and
  publications of the node share (`rabbitmq.go:77-88`): every stream ends, no event
  is published, and nothing opens the channel again. A subscription that has bound
  its queue by then and fails at `Consume` returns no cancel func: its queue stays
  bound as long as the connection lasts.
- `Shutdown` leaves hijacked WebSockets open (`main.go:115`); they are cut, without a
  close frame, when the process exits.
- The caps of `messenger.go:16` are called caps on the plaintext and are applied to
  the ciphertext, which is 28 bytes longer; `useChat.ts:108` applies them to the
  plaintext. The largest attachments pass the one and not the other.
- With a rate below burst / idle timeout, eviction (`limiter.go:87`) hands out a new
  burst before the bucket has refilled; the `limiter` run has a bucket that refills
  in time, as `main`'s settings do.

**Bounds.** `SnapshotInterval` is 1 to 3 where the code has 100, so that three or
four appends make two or three snapshots and a missed one is followed by another;
`MaxAppends` is the number of accepted requests; two goroutines, or two nodes with
one each, are enough for every race on a tip, and four appends for two nodes to seal
one window and overtake each other. `Capacity` is 2 where the code has 64, so that
channels fill. `PageSize` is 2 and the client's log has up to 3 entries, 4 in the
runs with a counterexample: full, partial and empty pages occur; `Slots` is the
number of requests in flight. `MaxTime` in the limiter lets a bucket be emptied,
forgotten and used again. What a stream is sent is checked with one stream, of whose
broker another chat's events come too: streams share only the AMQP channel, which
may close at any time, be it by the refusal of another stream's subscription. Deadlock is checked in the log runs;
the streams, the client and the limiter end when their bounds are reached. The
cluster runs use the symmetry that exchanges the two nodes together with their
goroutines; they check safety properties only.

**Fairness.** In `NodeLifecycle` a goroutine that holds the mutex keeps taking steps:
every call on the store, the cache or the broker has a timeout. Getting the mutex
is strongly fair: `sync.Mutex` hands itself to a waiter it has starved for a
millisecond. `Shutdown` polls, so `Drained` is weakly fair, as are the end of a
handshake and the five seconds of a silent connection; the deadline, signals,
starts and the departure of clients are not, so that `ShutdownCompletes` does not
rest on the deadline. In `EventStream` the handler, the reader and the pump are
weakly fair: they are goroutines with something to do, and pings make a write to a
client that is gone fail in the end. In `ChatClient` requests are answered and
answers delivered (weak fairness, and a request may always fail instead); an event
that has arrived is handled. The browser puts no bound on fetches: that a slot is
free for the event's fetch is due to the bound `Slots`, hence strong fairness there.
Nobody has to publish, connect or disconnect, and late writes, crashes and failures
have no fairness.

## Proofs

Every safety property of a passing run is a theorem, for any sets of nodes,
goroutines, chats, requests, readers, streams and clients and any bounds; a run
checks it on an instance first. The assumptions on constants are the named `ASSUME`s
of the modules: the backend is one of two, `SignBit` and the interval are positive,
every goroutine has a node, requests name a chat of `Chats` and their messages have
a chat and a signature field, an in-memory store belongs to one node that does not
lose it, query parameters are unsigned numbers, absent or malformed, streams have a
chat, and rates, bursts, capacities, page sizes and limits are positive; `None` is
none of the things it is compared with.

| Theorem | States | Under |
|---|---|---|
| `TypeCorrect`, `ChainHolds`, `PendingHolds`, `AckHolds`, `EventsHold` | `TypeOK`, `ChainOK`, `PendingLinked`, `AckDurable`, `EventsBacked` | |
| `AppendOnlyHolds`, `ImplementsHolds` | `AppendOnly`, `Implements` | |
| `AuthenticHolds` | `AllAuthentic` | `SignsItsBody`, `Aligned` |
| `MutexHolds` | who is between `Lock` and `Unlock` holds the mutex | |
| `CoverHolds` | `SnapshotsCover` | `OneNode` |
| `RangeHolds` | `SnapshotRange` | `OneNode`, `ShortLogs` |
| `TileHolds` | `SnapshotsTile` | `OneNode`, `Reliable` |
| `InOrderHolds` | `PublishedInOrder` | `OneNode`, `Delivers` |
| `SyncNotAheadHolds`, `ProofSoundHolds` | `SyncNotAhead`, `ProofSound` | `ReadableLogs` |
| `HistoryCompleteHolds` | `HistoryComplete` | `ReadableLogs`, `FromsFit` |
| `SyncReplaysHolds`, `NoFalseAlarmHolds` | `SyncReplays`, `NoFalseAlarm` | `ReadableLogs`, `SignsItsBody`, `Aligned` |
| `CoveredIsProvedHolds` | `CoveredIsProved` | `ReadableLogs`, `OneNode`, `Reliable` |
| `ProofVerifies`, `ProofBindsLeaf`, `RootDetermines` | the Merkle operators, for every window | |
| `ProofsVerifyHolds`, `ProofsBindLeafHolds`, `RootDeterminesWindowHolds`, `VerifyExactHolds`, `TipCommitsHolds`, `EachEntryVerifiesHolds` | the properties of `MCIntegrity` | |
| `NoSendOnClosedHolds`, `OwnChatInOrderHolds`, `NoneSlipsThroughHolds` | the safety properties of the `stream` run | |
| `NoDuplicatesHolds`, `CursorHolds`, `PrefixHolds` | `NoDuplicates`, `CursorAtNewest`, `ShownIsPrefix` | |
| `RateHolds` | `RateHonoured` | `RefillsBeforeEviction` |
| `RefusedHolds` | `RefusedWhenSpent` | |

The hypotheses are facts that the code cannot establish by itself and without which
the properties can fail:

- `OneNode`: all goroutines are of one node. Two nodes share no mutex; `log_shared_window`
  is what they do to a snapshot.
- `Reliable`: nothing but the broker fails. `reads_missed_snapshot` is the
  counterexample: one failed snapshot shifts the indexes.
- `Delivers`: inserts, the broker and the process do not fail; an event that is lost
  leaves a gap in the count.
- `SignsItsBody`: a signature that passes is over the message as it was posted.
  `decodeSignedMessage` puts the chat of the path into the message before it is
  verified, so a body that names another chat passes if its client has signed the
  path's.
- `Aligned`: with ScyllaDB, timestamps are in whole milliseconds, as `NewMessage` and
  the web client make them (see the observations).
- `ShortLogs`, `ReadableLogs`: with ScyllaDB, no log has 2^63 entries, so that
  `int64()` does not make a stored position negative.
- `FromsFit`: with ScyllaDB, clients ask for pages from below 2^63 (see the
  observations).
- `RefillsBeforeEviction`: a bucket is full again before it may be forgotten, as with
  `main`'s settings.

**The write path.** `ChainOK` is not inductive: inserting an entry keeps the chain
only if the entry was built on the row just before its position. The inductive invariant is
`IInv == TypeOK /\ Chained /\ PendingLinked`, where `Chained` is `ChainOK` with the
length of each log as a witness and `PendingLinked` says that every entry still to
be inserted, by a goroutine after `ReadTip` or from `limbo`, is linked to a stored
row. `PendingLinked` is preserved because rows never change (`LinkedInExtension`);
an insert at a free position is then an insert at the end (`InsertIInv`), so two
nodes cannot fork a chat although they share no mutex. The proof does not use the
mutex at all: with ScyllaDB the chain rests on the conditional insert alone. Late
snapshot writes change no row (`LateSaveIInv`). `AppendOnlyHolds` follows from
`IInv` and the insert's condition. `AckHolds` adds what a goroutine knows of its own
entry after `AppendEntry` (`AckInv`) and carries it over the others' steps with
`AppendOnly`'s step. `EventsHold` uses the same: a goroutine publishes only what
`AckInv` says is stored, and what was published stays backed because rows only
extend (`EventInv`). `AuthInv` follows a message from validation to the row.

`ImplementsHolds` maps every step, with `IInv`, `AckInv` and `MsgInv` (messages on
their way to the log keep the signature that identifies them): an insert that is
applied goes to the end of its chat, so it is `Commit` or, from `limbo`,
`LateCommit` (`ExtendStep`); 201 is `Acknowledge`, because the entry answered is the
goroutine's own (`AcknowledgeStep`); every error return, refusal and crash is `Fail`
(`FailStep`), and a timed-out insert is a `Fail` that abandons its message
(`AbandonStep`); everything else is a stutter (`SilentStep`).

**One node.** `MutexInv` says that who is past `Lock` is the holder, so on one node
nobody else is in the same chat. `TailInv` then has a goroutine's own entry as the
last row until it returns: the positions of late inserts are taken by then.
`CoverInv` places every snapshot, stored, being sealed or timed out: it starts no
later than its predecessor ends, also after a late upsert has replaced that
predecessor. `RootInv` adds the root and the last hash. For `Reliable`, `TileInv`
counts: of n entries m windows are sealed, all the full ones unless somebody is about
to seal the last. `OrderInv` counts the events handed to the broker in the same way.

**Reads.** `EndInv` is what is left of the snapshots' places when several nodes
seal: each ends at a stored entry, with its hash, and starts after one, and indexes
have no gap. Between its queries a reader holds values that were true of the log
when it read them; `SyncInv`, `VerifyInv`, `ProofInv`, `HistoryInv` and `SoundInv`
say, for each operation, what they are; they stay true because rows only extend.
`ProofSoundHolds` needs no assumption on roots: `ProveInclusion` computes the root
of the entries it reads and refuses any other, and `ProofVerifies` does the rest.

**Data.** Induction over the rounds of a loop is a least counterexample: `LeastNat`
gives a nonempty set of natural numbers a least element, and `UpTo` derives from it
that a set with 0 that is closed under successor contains every number up to a
bound. With it the recursive functions exist and do what their definitions say
(`LayersDef`, `HalvesDef`, `RunningDef`, `KeptDef`), layers shrink to one node
(`LayersShrink`), a proof climbs them (`PathClimbs`), and, from the root downwards,
two windows of distinct leaves with one root have the same layers (`LayersFromRoot`).
That the windows are then of one height is the one place where leaf hashes have to
differ from node hashes. `TipCommitsHolds` goes backwards from the tip: an entry's
hash determines the entry and the hash before it.

**Streams, client, limiter.** `StreamInv` ties the registration, the channel, the pump
and the handler's phase of each stream together and says where each event is.
`ClientInv` says that a fetch starts no further than the cursor, and that an answer
is a run of entries of the log; appending a run without those seen keeps the view without
repetitions (`AppendRun`) and, as long as nothing was sent, a prefix
(`AppendExtends`). The limiter's proof bounds, for every interval, what a bucket has
let through by what it can have earned, and shows that forgetting a bucket, with a
clock read before the mutex was taken, forgets nothing that is owed (`EvictSound`).

Only model-checked: liveness, which rests on fairness and is out of the prover's
reach (`AllAnswered`, `ShutdownCompletes`, `GoroutinesEnd`, `EventuallySent`,
`ToldAdvances`); and `SnapshotsCover` across starts and stops of a node: `CoverHolds`
is about `ChatLog`, where a node dies in the middle of requests, and not yet about
the composition in `NodeLifecycle`, where it also exits by itself.

## Not modelled

- ScyllaDB replicas and consistency levels.
- JSON bodies, request size and the HTTP server's timeouts, the stateless endpoints
  (`healthz`, key generation).
- AES-GCM, base64, JSON escaping and timestamp formatting, on either side: formatting
  without state, which tests with examples reach; messages are constructors here.
- Expiry of cached roots and the public-key cache, which nothing uses.
- `Limiter.Close`, which nothing calls, and `runDemo`, three sends and two reads in
  sequence.
- Identity storage, content keys, media rendering and the draft box of the client:
  one browser thread without shared state; switching chats in a mounted view.

## Plan

Done, in this order: messages, storage and Merkle trees; the write path; the read
path; its inductive invariant and first theorems; streams; client; limiter. Then the
abstract log and its refinement; integrity of tables whoever wrote them; late
snapshot writes; the life of a node; paging and request parameters; the shared AMQP
channel; liveness of the client.

Then the proofs: `EventsHold` and `ImplementsHolds`; one node; the read path; the
Merkle operators and the integrity checks; streams, client and limiter.

Next: `SnapshotsCover` for `NodeLifecycle`, whose every way to end is the step `Dies`
of `ChatLog` under a guard of its own.
