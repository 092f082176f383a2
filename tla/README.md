# A verification of the vault node

The program is one storage node of a content-addressed vault network: an Express
server and a libp2p host around a directory of encrypted blobs. It is TypeScript
on Node's single thread, so nothing is preempted; but every handler awaits file
system calls, contract calls and peers, and between two awaits any other handler
may run. Most of what can go wrong here goes wrong in those gaps, in a crash
between two file operations, or in arithmetic at a boundary.

Paths below are relative to the repository (`services/`, `routes/`, `utils/` are
under `src/`).

## The system: components, state, operations

| Component | State | Operations | What makes it hard | What makes it correct |
|---|---|---|---|---|
| Blob store (`storage.service`, `blob`, `pin` routes, `utils/cid`) | `blobs/c.enc`, `c.enc.tmp`, `meta/c.json`, the cache | store, get, delete, pin, unpin, metrics rewrite | requests on one cid interleave at every fs call; `writeFile` truncates, then writes; crashes | blobs appear whole, an acknowledged blob stays until a delete of it is decided, metadata is never taken for tampered, pins hold |
| Garbage collector (`gc.service`, `gc` route) | `running`, `totalDeleted` | runGC, forcePurgeAll, deleteSingleBlob | several passes over a store that changes between them | one run at a time, pinned blobs survive, frees what is needed and no more, honest totals |
| Storage authorization (`storage-authorization.service`) | used nonces, CID cache | verifyAuthorization, verifyCIDOnChain, two clean-ups | checks before a contract call, records after it; clock skew | an authorization is accepted once as it was sent; a published cid is accepted in the end |
| Store request (`store.route`) | none | authorize, check capacity, store, replicate with a 2 s limit | late replication results; capacity checked long before the write | the answer counts only replicas that confirmed |
| Feeds (`feed.service`) | a metadata file and an event file per entry | createFeed, addEntry, pagination, resolveForks | read-modify-write over four awaits; two files per entry | root has an event, count equals events, longest chain wins |
| Replication (`replication.service`, `p2p-protocols.service`) | peers, in-flight pushes | push on store, periodic sync, pull, the receiving handler | two nodes, the chain and a cache that remembers refusals; ids of three kinds | only what is published (or called media) is stored, what is counted is there, a refusal ends, what can be pulled arrives |
| Replication manager (`replication-manager.service`) | states with an integrity hash, `replication-state.json` | startReplication, trackReplication, load, save | overlapping rounds share and replace states; a node goes by its URL and by its id; saves of one file overlap | what is called complete was taken by enough nodes; what settled is found again |
| Reputation (`reputation.service`) | events, `reputation-events.json` | recordEvent, load | periodic saves, several events in one loop | a crash loses fewer events than one period |
| Consensus (`consensus.service`) | disputes, suspects | fetchWithConsensus, fetchWithAntiCensorship | ties, thresholds, a shrinking pool | a single voice decides only when there is no other left |
| Node discovery (`node-discovery.service`) | observations, bans | record success, failure, misbehaviour; discover; select | ban ends overwrite each other, means and rates | a reported node stays out; failing does not pay |
| Index (`index.service`) | lists by type, thread and guild | index, remove, query with cursors | cursors and removals between pages | lists agree; a walk by pages gives every blob that stays, once |
| Cache (`cache.service`) | a map with sizes | get, set, delete, clear | the running total | never more than the limit |
| Peers (`p2p.service`, `peer-cache.service`, `config/`, shutdown in `server`) | peer cache, `peer-cache.json`, `config.json` | start, connect, debounced save, stop | debounce against running writes, signals, crashes | what is dirty is saved; the file wins over the environment |
| Blocked content (`blocked-content.service`) | the list, its file | check with reload, default | overlapping reloads | an edit is honoured in time |
| Writer authorization (`writer-authorization.service`) | none that a check reads | assembleFeed | order of arrival, parents, clock | clients agree on a feed |
| Sharding, node selection (`utils/`) | none | parse, expand, select, replace | ranges and boundaries; replacing one holder after another | clients agree on the holders |
| P2P protocols (`p2p-protocols.service`) | streams | framing, five handlers, their clients | chunks, resets, handlers that throw | what was read is what was sent |
| Proofs, contracts, app registry, middleware | | thin layers over libraries | | inputs of the others, or not modelled |

How they interact: the store request calls authorization, then the store, then
replication; the replicate handler calls the CID check and the store; the
collector and the pin routes change the same two files as the store; feeds ask
the store whether a blob exists; proofs and health read it. A push that settled
tells the replication manager, whose results are reputation events; a connected
peer enters the peer cache and `config.json`. There is no lock anywhere but the
collector's `running` flag. Consensus, node discovery, the index, writer
authorization and `startReplication` are not called from `server.ts` or a route:
they are the library part of the repository, used by its tests and by clients.

`PROJECT.json` lists every component with its status, and the hazards with the
line where each bites and the properties that would catch it.

## Plan

In the order of their importance, all done:

1. `BlobStore` with the abstract `AtomicBlobStore` and the proofs `BlobStoreProofs`.
2. `GarbageCollector` with `GarbageCollectorProofs`.
3. `StorageAuthorization` (nonces) with `StorageAuthorizationProofs`.
4. `FeedService` with `FeedServiceProofs`.
5. `Replication` with `ReplicationProofs`.
6. `ReplicationManager` with `Reputation`, `NodeSelection`, the files of `JsonFile`,
   and `ReplicationManagerProofs`.
7. `Consensus`, `NodeDiscovery`, `PeerCache`, `PeerNode` and `PeerExchange` (framing
   and one request) with `PeerProofs`.
8. `IndexService`, `CacheService`, `BlockedContent` and `WriterAuthorization` with
   `ListProofs`; `Placement` (shards and selection, proved in
   `ReplicationManagerProofs`).

`MCServices` puts those of 6 to 8 next to each other for one run.

Parameters are CONSTANTS with named assumptions, there is one action per
operation or fs call, and no RECURSIVE operator in a module with theorems.

## Modules and how they correspond to the code

### BlobStore

One action is one fs call with the synchronous code that follows it, so the
interleavings of the model are those of the event loop. `pc[p]` names the call
request p awaits. `fs.writeFile` is two actions, the open that truncates and the
write at offset 0; `fd` follows an open file through renames and unlinks, as the
kernel does. A blob file is `absent`, `partial` or `full` (all stores of a cid
have the same bytes). A metadata text is its `pinned` field, present or not, and
the value of `pinned` its integrity hash was computed from; two texts of different
length written over each other without a truncation in between leave a `mixed`
file that does not parse. Requests: `store` (`storeBlob`), `get` (`getBlob` and
the metrics rewrite it leaves running), `pin`, `unpin` (the routes with their
`hasBlob` and the two reads), `delete` (`canSafelyDelete`, then `deleteBlob`).
`StoreFault` and `UpdateFault` are failing calls, `Crash` loses everything but the
disk.

`acked`, `overtaken`, `doubled`, `pinHeld`, `settled` and `shielded` are history:
nothing but properties reads them. Nothing in the code keeps two stores of one cid
apart, and they share `c.enc.tmp`; `doubled` are the cids for which this has
happened, two stores past their look for the blob at the same time.

`AtomicBlobStore` says what a client is promised: blobs appear whole, a store is
acknowledged when the blob is there, and an acknowledged blob goes only after a
delete of it was decided. A cid may become `void`, and then nothing is promised of it
any more. `BlobStore!KeepsPromises` is this specification with `present` the cids of
full files, `promised` the acknowledged and `void` the `doubled` ones: overlapping
stores are in the behaviours, and what they can break is the blob they share and no
other. A clean-up after the failure of one store can so remove what another has
acknowledged only if both were writing.

### GarbageCollector

Takes the store as a set of blobs with a pin and an age, some of them `unreadable`:
their metadata is not there yet, is being rewritten, or was cut by a crash or a failing
write and stays so. `listBlobs` leaves them out (`storage.service.ts:399-416`) while
`getStats` counts their bytes (471-498), so a run can end above its limits with nothing
left that it would delete. The module has the passes of a run as steps: list, inspect,
readdir, stat, select, and per candidate a check and an unlink. Between any two, clients
store, write metadata, pin, unpin, and `deleteSingleBlob` runs its own two steps without
the mutex. `config` is chosen at Init: retention mode, replication factor and the cids
of the node's shards. Priorities are abstracted to "pinned last, otherwise any order",
which is all the score guarantees in general. No code fills `replicatedTo`
(`KnownReplicas` is 0), so a node with a factor above 1 refuses every deletion. A blob
has two sizes: `Size`, which the metadata has and the selection adds up, and `DiskSize`,
which the limits are about. `steady`, `quiet`, `refused`, `gone` and `excess` are
history.

### StorageAuthorization

Two synchronous parts of `verifyAuthorization`, before and after the contract
call, with a clock that ticks between any two steps and signers whose timestamps
are anything. A request is an authorization and a spelling of its sender: the nonce is
kept under the sender as it was sent (`storage-authorization.service.ts:330`), the
signer is compared in lower case (378), and the signed text (44-51) has no sender at
all. `Check` reads the clock and the nonces, `Accept` records the nonce
with the clock of that moment, `Cleanup` forgets the expired ones, `Restart`
forgets all. What the registries answer is not this code's decision: `Reject`
may always happen. `raced` has the keys that passed the check while another request
with the same key awaited the contract: the code looks a nonce up before that call
and records it after.

### FeedService

One feed: `metadata.json` and a file per entry, each with what `writeFile` can
leave of it (`absent`, `empty`, `ok`, `mixed`). `addEntry` is read the metadata
(`AddMeta`), ask the blob store (`AddBlob`, which sets the root in the copy the
request holds, `reg`), write the entry (`EventOpen`, `EventWrite`, which counts in
the copy) and write the metadata (`MetaOpen`, `MetaWrite`); `createFeed` is the
last two with a fresh text. Signature, writer list and blob may refuse at any
time (`AddFails`); `WriteFails` and `Crash` end requests in the middle. Nothing
in the node keeps two requests for a feed apart, a client that waits for its
answers does: `serial`, chosen at Init, is that client. `acks` and `first` are
history.

`resolveForks` is read-only and becomes operators on the files: `Place(r, before)`
is the chain `buildChains` follows from a root when readdir lists files in the order
`before`, `SortsFirst` the comparison of the sort, `Winner` its first chain.
`RuleWinner` is the documented rule, stated on all paths of the tree.

### Replication

Any number of nodes, the registry (`active`) and the storage contracts
(`published`). A node's call of `replicateToAll` is a record of `push[n]`, one for
a client's store and one for the periodic sync; each of its requests is a handler
at the peer, which runs on its own when the sender has given up (`orphan`). The
handler's steps are its awaits: the checks that end in a cache hit or a question to
the chain, the answer on its way (read from the chain at one moment, remembered at a
later one), and the store. The cache holds for each cid the answer and the ticks
it is still valid; an expired entry is the same as none, which makes
`cleanupExpiredCIDCache` part of `Tick`. `pull[n]` is `pullMissingBlobs` with the
list it took at its start. A store is one step here: its files are in `BlobStore`.
A failing call, a broken stream, a purge, a restart and a node that leaves the
registry share the bound `MaxFaults`.

Nodes go by three ids, and the code maps none to another: the registry's nodeId
(`contract-integration.service.ts:134`, taken over by `replication.service.ts:121`),
which `p2p-protocols.service.ts:478` dials as a libp2p peer id, and the hash of the
libp2p key, which the receiver looks up (line 182), while `server.ts:343-361` registers
the hash of another name. Whether a node can be dialled by its registry id (`dial`) and
whether a peer finds it registered (`keyed`) are therefore part of `setting`, next to
whose HTTP routes can be reached and who has replication on. A push to a node that
cannot be dialled fails at once; no property promises that a push arrives.

Whoever speaks the protocol can send the handler a request of its own (`Request`), with
a label of its choice: `media` takes it past the chain (`TakeMedia`, lines 249-266),
`unsigned` is refused. So the handler stores what is published or what its sender calls
media, and `Admitted` says exactly this.

Not in it: the block lists (they can only refuse more), the health checks (they can
only make a pull pass over a peer), and the HTTP fallback of a push, which finds no
`/replicate` route at the peer (`server.ts:144`). A pull and a push of one cid can
store it at the same node at the same time, which is how a cid of `BlobStore` becomes
`doubled` without any client.

### Lists, JsonFile

`Lists` has what the standard library's sort and filter do to a list: `Arranged` puts
the elements in the order that says which go ahead of which, `Filtered` keeps those
that pass.

`fs.writeFile` of a whole file, for the services that rewrite one: a write waits,
is open (the file is empty), and lands; two that overlap may leave `Garbled`. The
three files here cannot be parsed when empty or garbled, and each service says what
it makes of that.

### ReplicationManager, Reputation, NodeSelection

A round is a call of `startReplication`: select and replace the state
(`StartReplication`), await the save, let each node answer (`Reply`: a node may
take the blob and the answer be lost), then `Settle` into whatever state the cid
has by then. `trackReplication` is the only entry that a running node uses; it
replaces the state and hashes it. It is given the URLs of peers
(`replication.service.ts:84,94`) where a round confirms the ids of its nodes
(`replication-manager.service.ts:132`), so a node may stand in one state twice:
`HoldersOf` are the nodes that a state counts, `NamedTwice` tells that one of them has
both its names there. The array `confirmedNodes` is its set and its
length, because completeness compares the length. `Reputation` takes the events a
settled round makes: `recordEvent` is called in a loop that awaits nothing, so the
lengths it tests are consecutive ones (`DueAmong`). Both files are read at
`ManagerStart`: a missing one is none, an unreadable one makes `initialize` throw
and the process exit. `NodeSelection` is the deterministic choice by hash with its
filters, and the choice of replacements.

### Placement

`ParseShards` does what `parseShardConfig` does with each of the three ways to write an
assignment (the bracketed one, which `sharding.ts:168` documents, goes through
`parseInt` of the text with its bracket and gives NaN for the first bound), `Expanded`
cuts the expansion of ranges at `ShardCount` (a list of numbers is not cut),
`Responsible` is the membership test. A behaviour is a client that selects and then
replaces holders as they fail. `HolderFails` passes every node that is still active to
`Replacements`, as `node-selection.ts:117-145` has no filter on shards and no caller
adds one.

### PeerCache, PeerNode

`PeerCache` is the list of peers with its file, `dirty` and the timer; `save` takes
its text at once and resets `dirty` when it has landed, also when the list has changed
meanwhile. `overtaken` is the history of this: a write begun before the last change has
opened the file or landed after it. An end of the process is `clean` when one signal
stopped a started node, nothing happened meanwhile and no write of the timer, which
nobody waits for, was cut by the exit. `PeerNode` is the process:
`StartPeer` loads `config.json`, completes it from an environment that may differ at
each start and writes it back; `PeerConnect` counts the peer and, for a direct
address, adds it to the bootstrap list; a signal stops it through `FlushCache`,
`FlushEnds` and `Exit`, and a second signal runs the same handler again. A start
that throws half-way leaves a connected node that counts as not started.

### NodeDiscovery

One record of bans and one of observations per node. `Answer` is one of the parallel
`fetchNodeMetadata`, `CleanExpired` what follows when all have answered. Means and
rates are kept as numerator and denominator, so the score is exact: `Weight` is the
score times the number of requests.

### Consensus

`fetchWithAntiCensorship` is the loop, `fetchWithConsensus` one round of it: a panel
of the pool (any of that size: the shuffle), one reply per node, the vote, and the
pool without those who censored or lost.

### IndexService

Entries under the keys of their metadata. A query is a key and a filter; `Ordered`
is the stable sort, `AfterCursor` the page's start. One reader walks with cursors
while blobs are indexed and removed.

### BlockedContent

A check answers from the copy or loads first: `access`, the default file if there is
none, `readFile`, and the parse with `lastLoad`. Checks overlap, and the operator
edits the file at any time.

### CacheService

The entries in the order of the map, the running total and the clock. Eviction is a
recursive function that ends when the entry fits or nothing is left, as the loop.

### PeerExchange

One request over a stream, each way a message behind a prefix. `Taken` is the two
loops of `readMessage` for one chunk: the rest of a chunk that completes the prefix
is the start of the body. A message is its length and its meaning, a byte its
position, so that what is parsed is the message only when every byte is in place.
Handlers that throw without writing leave the caller waiting until the stream is
reset; the code has no timeout there and the model none either.

### WriterAuthorization

The assembly of a feed is a function of the events in the order they arrived, the
lists supplied and the clock. Events arrive in any order, also twice.

## Runs

| Run | Checks | Shows |
|---|---|---|
| `blob_serial` | `BlobAtomic`, `KeepsPromises` | three requests at once, two stores of the cid among them, one failing call |
| `blob_overlap` | `TypeOK`, `NoFalseTamperAlarm`, `EmptyMetaFilled`, `SettledPinHonoured` | two requests of all kinds, also two stores of one cid, a crash and a failing call |
| `blob_twice` | `WrittenAtomically`, violated | two stores of one cid give a partial blob its final name |
| `blob_pin` | `PinnedNeverDeleted`, violated | a GET's metrics rewrite undoes a pin |
| `gc` | `OneCollector`, `TotalsHonest`, `PinnedSurvive`, `FreesEnough`, `FreesNoMore` | two collectors, two blobs with or without metadata, every mode |
| `gc_no_need` | `NothingWithoutNeed`, violated | below its limits a node still deletes |
| `auth` | `TypeOK`, `AcceptedOnce` | two requests, two authorizations with one nonce, two spellings of the sender |
| `feed` | `TypeOK`, `RootHasEvent`, `CountHonest`, `RootStable`, `ForkRule` | two requests, overlapping or not, three entries in every tree, a crash or a failing write |
| `feed_forks` | `LongestWins`, violated | of two replies one is followed, the chain that wins need not be the longest |
| `replication` | `TypeOK`, `Admitted`, `CountedHold`, `RefusalsEnd`, `PullSpreads` | one node pushes, or one pulls from it, or one sends requests of its own; two stores, one failure of any kind |
| `replication_media` | `MediaTaken`, violated | pushes carry no content type, so media is refused |
| `services` | `CompleteIsReplicated`, `SettledIsSaved`, `LossBounded`; `PlacementAgrees`; `DirtyOrSaved`, `QuietGetsSaved`, `CleanStopSaves`, `ConfigKept`; `CaughtNeverSelected`, `FailureNoGain`; `LoneVoice`; `IndexesAgree`, `WalkComplete`; `EditHonoured`; `CacheFits`; `ExchangeSound`; `AssemblyAgrees` | the modules of 6 to 8 of the plan, one at a time (`part`): they share no state |

Bounds and why they suffice:

- Blob store: requests on different cids share nothing but the cache, so one cid
  is enough (the run with a cache entry of another cid adds nothing). Every
  hazard found needs two or three requests. `blob_serial` leaves the
  pins to `blob_overlap`: they never touch a blob file. A pin is undone by a rewrite that
  began before it, one other request. One crash and one failing call: a
  second one meets the same on-disk states the first leaves.
- Collector: two collectors are enough for a mutex; two blobs of different sizes
  with a limit that only the larger's deletion keeps, and one that either's does,
  let the selection stop after none, one or both. `MaxRuns` bounds the runs, two
  so that a second starts on what the first left.
- Authorization: `Tolerance` 1 and `NonceExpiry` 2 are the smallest values with
  the code's ratio; a clock to 4 lets a nonce be recorded, expire, be forgotten and its
  timestamp pass. Two authorizations with one nonce and two spellings of the sender
  give one key to two authorizations and two keys to one.
  `MaxRestarts` 1.
- Feed: three entries and three calls of `addEntry` make every tree of three, a
  chain against a single root, ties of length with different and with equal
  timestamps, and an entry added twice; two calls of `createFeed` create the feed
  again over its old entries. One crash or failing write, for the reason above.
  `feed_forks` needs a fourth entry: a root, two replies and a reply to one of
  them.

- Replication: two nodes and one cid, with `Factor` 1. Sender and receiver are all a
  push has; a second push of the same cid comes from the store and the sync. In one
  setting the first node pushes and HTTP is unreachable, so that only the handler can
  bring the blob; in the second the other node pulls, and nobody can be dialled; in the
  third the first node sends requests of its own. `MaxAsked` 2 lets such a request be
  under way next to another handler. `Expiry` 2 is the smallest that tells an entry that
  is used from one that is renewed. Two stores and one failure of any kind.
- Services. Manager: two registered nodes, each with its URL, and a factor of 2, two
  rounds of one cid, two calls and one crash or failing write; `SaveEvery` 2 and three
  events meet a multiple, skip one inside a loop and load onto an odd length. Peers: two
  peers with room for one, two connections, two writes at once, one mishap, two
  environments. Discovery: one node (the properties are about one; the selection is of
  one), six reports, enough for three failures and three proofs in any order, three
  ticks with bans of one and two. Consensus: four holders, panels of three, three
  attempts: a tie, a majority, and a pool that shrinks to one. Index: three blobs, pages
  of one, five changes: every place of a removal against the cursor and a blob indexed
  again. Blocked content: two overlapping checks, two edits, an interval and a load of
  one tick, five ticks: from five on, an edit can be overtaken by a load that began
  before it and lands after a load that began later, and a check be answered when the
  property says it must be right. Cache: four blobs of sizes 1 and 2, a limit of 4.
  Exchange: a prefix of four bytes, messages shorter and longer than it, every way to
  cut them. Assembly: five events with two of one cid and two of one parent and one
  time, four arrivals. Placement: four nodes, two of them holders, so that a replacement
  is chosen between two, and assignments of single shards, of ranges and of both, in
  each form; holders fail until none is left.

Deadlock is not checked in `gc`, `auth`, `feed` and `services`: with the bound on runs, calls or
the clock reached, and the requests done, nothing is left to do. Symmetry is on
requests and collectors in runs without liveness or with a property symmetric in
them.

`EmptyMetaFilled` uses `FairSpec`: weak fairness of each request's step. libuv
runs every call it was given and the event loop every callback, so a pending
call is not put off for ever. No fairness on requests beginning, crashes or
faults.

`RefusalsEnd` and `PullSpreads` use the `FairSpec` of `Replication`: the timer fires
again and again, started calls go on, the handlers that a call awaits too, time passes,
and after some point no call fails any more (the bound on failures). Nothing is assumed
of publishing or of the registry beyond what the properties name.

`QuietGetsSaved` uses `PeerFairness`: Node fires a timer that was set and libuv
returns a call it was given. Nothing makes a node start, connect or be stopped, and
a write may fail or the process end: the property names both.

`MaxLoad` in `BlockedContent` is an assumption of the property and not in the code:
a load waits for nothing but the file system, and `EditHonoured` holds for any bound
on that. The property asks for two loads as well as for the interval and a load,
because a check that waited for a load answers up to one load after the copy was
taken, and the copy itself may be of a load that the edit overtook.

## Proofs

All are checked for any sets of cids, nodes, requests, keys and authorizations, and
any numbers. Where a proof needs induction (a sorted list, a recursive eviction, a
flattened list), it is over the natural numbers with a set in place of the
predicate: `Smallest`, `Induct` and `Recursion` of `ListProofs` derive it from the
well-foundedness of `<`, since a theorem of the library that takes an operator cannot
be instantiated by the provers here.

`BlobStoreProofs`
: `Types` (type correctness). `NoFalseAlarm`: the invariant is `HashInv`, which
  adds to the property that the text a request holds between its read and its
  write has a matching hash; without it the write could break the property.
  `PinsHonoured`, also with overlapping stores of one cid: `HonourInv` says of a pin
  that nothing has overtaken that no removal of its cid is under way (`PinOk`), and of
  a settled cid that its blob is there, its metadata says pinned whenever it can be
  read, and no request has a text without the pin on its way (`FilesOk`, `RequestOk`);
  a delete that began then is still before its decision (`ShieldOk`).
  `AtomicBlobs` and `Refinement` assume nothing of the clients: `StoreInv` speaks of
  every cid that is not `doubled`, whatever overlaps with it. At most one store of it
  has passed its look for the blob and its files are whole (`CidOk`); that store writes
  the temp file while it has its temporary name, has its blob on disk once it was
  renamed unless a delete was decided since, and nobody is about to unlink an
  acknowledged blob (`RequestClean`), which is what makes the unlinks stuttering or
  `Remove` steps of `AtomicBlobStore`. `DescriptorInv`, for all requests, keeps a
  descriptor within the write it was opened for. A step that makes a cid `doubled` is
  a `Void` step, and whatever happens to a void cid afterwards stutters (`Frame`).

`StorageAuthorizationProofs`
: `Types`, and `Once`, for any requests and any spellings: it excepts the keys that have
  `raced`, and no others. `OnceInv` says of every other key that an accepted
  authorization's nonce is on record no more than the tolerance before its timestamp, or
  else the timestamp is already too old (`WindowInv`), and that a request awaiting the
  contract is alone with its key and was not accepted before (`ChainInv`). A nonce is
  recorded at or after the check, and the check admits timestamps up to one tolerance
  ahead; the clean-up waits for two, so what it forgets has a timestamp more than one
  tolerance old. This is where `WindowAssumption` (expiry at least twice the tolerance)
  is used.

`GarbageCollectorProofs`
: `OneAtATime`, `HonestTotals` and `PinsSurvive`. `SafeInv` joins the shape of a
  collector's record (`Shape`), the mutex itself, that the target of an unlink is
  not among the blobs pinned since before its check (`TargetInv`: the check reads
  the pin and the unlink follows it without another pass, so only a pin that came
  later can be overrun), and that what a run counted in `deleted` was really
  deleted after the runs already totalled (`CountInv`).
  `SparesTheRest` and `FreesWhatItMust`: while nobody else changes the store, what a
  run has deleted, is deleting and has still to check is a part of what it selected
  (`Spares`), and is all of it as long as no other shard saved one (`Frees`,
  `Enforces`; what it selects from are the blobs whose metadata can be read, so the
  conclusion excepts the others): what is doomed does not change when it moves from the list over
  `target` to `deleted`, and neither does the store together with what was deleted.
  `TableExists` and `TotalIs` show that the fold of sizes over a set is what its
  recursion says; `TotalWithout` that it does not depend on the order of the elements,
  `TotalSplit` and `TotalGrows` what it is of a union and of a part.

`FeedServiceProofs`
: `Types`. `RootKept`: `RootInv` adds to `RootHasEvent` that a root held by a
  request has its entry file or is the entry the request is about to write; entry
  files never go, so overlapping requests and crashes cannot break it. `CountKept`
  and `RootFixed`: `SerialInv` says that in serial mode one request is under way
  (`OneRequest`), that the file says the acknowledged count and root (`FileSays`),
  and that the copy a request holds agrees with both (`HeldTexts`), one ahead in the
  count once the entry is written. A crash drops the copy, so an entry whose
  metadata was not written is not counted, and is not acknowledged either.
  `ForksFollowRule` is about the algorithm, in every state of the files: `PlaceFollows`
  says what the recursive `Place` is step by step, `LengthIs` that the chain has ended
  for good once it ends, and `PathLengthsAre` that, where no entry has two children, the
  paths from a root are the beginnings of its chain; `SameWinner` that the comparison of
  the sort then has the minimum the rule names. Any number of entries, but finite.

`ReplicationProofs`
: `Types`, `Admission` and `Counting`. To `TypeOK`, which holds that every attached
  handler is one its sender waits for (`Linked`), the invariant adds that a sender waits
  for one handler per peer (`Unique`: otherwise the first answer would end a wait the
  second still relies on) and that every positive answer, in the cache or on its way, is
  of a published cid, and what is saved too unless the request called it media
  (`Positive`). A request of a peer's own is awaited by no call (`RequestKeeps`). The
  lemmas `OfferEffect`, `HearsEffect`, `AnswerLinks` and `MoveLinks` say once what the
  actions share.

`ReplicationManagerProofs`
: `CompleteMeansReplicated`, for any nodes, cids, rounds, writes and orders of the
  nodes. `ShapeInv` keeps the kinds of all variables, `TextsInv` says that every state,
  in memory, in a text on its way and in the file, is sound: its length is the number of
  its confirmed names, the nodes they name have all taken the cid, and complete means
  that the length reaches the factor. `NamesAndNodes` counts the nodes: as many as
  names, or at least half as many where one has both its names there, which the property
  excepts. `RoundsInv` says that the nodes a round has down as successes took its cid,
  which is what makes settling into a state of another round harmless, and that one save
  at most is what a round waits for. The lemmas on `Confirm` use that a union with a set
  grows by the new members only.

  `SettledStatesAreSaved`: `SettledInv` says that without a race or a failed write
  at most one write is under way, that it writes the states there are now, and that
  the file is empty only while it is open; when none is, file and memory load to the
  same (`LoadedTwice`: loading what was loaded changes nothing). A round's write is
  overtaken by the next change only when another write is under way, which is the race
  the property names.
  `FewEventsLost`: `EventsInv` keeps every text, in a write or in the file, at a
  multiple of the period and less than one period behind the events (`Near`);
  `Multiples` is the arithmetic that lengths met one by one need. Both proofs assume of
  the constants that the markers of an absent, empty or garbled file are not texts.
  `PlacementsAgree`: `PlacedInv` says that the holders come before every other node that
  has the shard, and that there are as many as wanted unless no such node is left
  (`UsableInShard`). A replacement is the lowest of all the nodes left, so it may lack the
  shard and then counts as a holder all the same; with those that have the shard the order
  is kept. `FirstLowest` says what a selection is (`Lowest`: closed downwards, and as many
  as wanted or all), `LowestIsOne` that there is one such set, and `OneReplaced` what a
  failure and its replacement make of one.
  `ExpandedAgrees` compares the two readings of an assignment; its ranges are within
  the shards and do not overlap, so the cut never takes anything (`WithinCount`).

`PeerProofs`
: `OnlyLoneVoice`. `PanelInv`: the panel is of the pool, the pool is the holders
  without the struck, and a panel has the wanted size or is the whole pool.
  `SuspectsInv`: a suspect is struck, or on the panel with a reply that will strike
  it, until there is a consensus. `VerdictInv`: a consensus by one voice means that
  one replica was wanted or that the pool is down to one. `OneVote` is the arithmetic
  of the threshold.
  `CaughtStayOut`, assuming that a short ban is not longer than a long one.
  `RecordInv` relates the history `caught` to the record: for good means permanent,
  and the number of invalid proofs bounds how long the node may have to stay out, so
  that a later report, which sets the end of the ban anew, never shortens it; only a
  node with counted failures may have a ban that ends earlier.
  `NoGainByFailing`: `ObservationInv` says that every request was answered or failed;
  `LatencyGrows` bounds what the mean gains by an answer that took no time, and
  `FirstFailure` shows that the 20 points of the success rate outweigh it.
  `ExchangeIsSound`: `ReadingInv` says for each way how much of the prefix and which
  bytes of the body the reader holds, as a function of how many bytes have passed, so
  that the body ends where the message does however it was cut; `CourseInv` orders
  caller, handler and result.
  `ConfigStaysKept`: `ConfInv` says that the file has the first setting and all direct
  peers, and that the copy in memory is the file, unless a write was torn.
  `DirtyUntilSaved`: `CacheSafe` says that without a race one write at most is under way,
  of what is in memory, with `dirty` set until it has landed. `CleanStopAlwaysSaves` holds
  also with a race, so its `FreshInv` follows the writes begun since the last change: they
  have what is in memory (`FreshTexts`); until an older write has touched the file, one of
  them is under way, has landed or is yet to begin (`FreshRuns`); a lone signal begins one
  or has nothing to save (`FreshStops`), and its own write is waited for (`Awaited`).
  `StopInv` says that a stop nothing has disturbed is that of one signal. Whether the
  list is saved is a question of its set of peers: `Arranging` and `Filtering` show that
  sorting, cutting and dropping the expired keep what the property needs.

`ListProofs`
: First the lemmas the other modules use too: induction, and what sorting (`Ranks`,
  `Arranging`), filtering, removing and flattening do to a list of any length.
  `IndexesStayAgreed`: `IndexInv` says of each list that its entries are those found by
  their cid, with the list's key and one for each cid; so a removal, which looks under
  the keys of the metadata found by cid, finds every entry there is. `WalksAreComplete`:
  `Places` says where the sorted list has an entry of the raw one (`PlaceOf`), and that
  an order of two entries is the order of their places; `ReaderInv` that what has stayed
  since the first page was given once if it does not come after the cursor, and not yet
  if it does. Appending and removing keep the order of the rest (`ListMoves`), so only
  the loss of the cursor breaks it. Timestamps are assumed to be natural numbers, and a
  missing cursor no cid. `CacheAlwaysFits`: `MemoryInv` has the sum of the sizes,
  `Held`, at most the running total and at most the limit. The running total itself
  drifts up: the size of an entry that is replaced stays in it, so it may pass the
  limit, and what the drift costs is room. `Held` is a recursive function: `HeldIs`,
  `HeldMore` and `HeldWithout` say what it is of a longer and of a shorter list, and
  `RoomMade` goes through the turns of the eviction, which ends because every turn
  shortens the list. `EditsAreHonoured`: `LoadSafe` says when each load began and that
  the text it holds is the file's or was overtaken by an edit after it began; the copy
  is the file's or was taken no later than one load after the edit. `AssembliesAgree`:
  where a list sorted by time has an event is told by how many events are older, so two
  orders of arrival give the same lists of roots and replies unless two events bear one
  time. Timestamps are assumed to be natural numbers.

Only model-checked:

- `EmptyMetaFilled`, `RefusalsEnd`, `PullSpreads`, `QuietGetsSaved`: liveness under
  fairness, out of this prover's reach.

## Where code and text disagree

Runs that expect a violation, with the line they refute, are in `PROJECT.json` under
`findings`: the shared temp file of two stores, the pin undone by a metrics rewrite, the
collection without need, the forks that are not followed, and media pushed without its
content type.

Smaller ones, which the models show by an exception in a property:

- a state whose hash went stale is dropped at a start (`SettledIsSaved`);
- a peer added during a write may not be saved, and a write of the timer may be cut by
  the exit (`overtaken` and the clean end in `CleanStopSaves`);
- a removed cursor restarts a walk (`lost`), a failed reload empties the block list
  (`fellOpen`), ten minutes may end an hour's ban (`failing`);
- a collection of compressed blobs stops too early: the limits are about file sizes,
  `gc.service.ts:278` adds up `metadata.size`, which `storage.service.ts:156` takes before
  compressing (`Uncompressed` in `FreesEnough`);
- a blob without readable metadata is counted against the limits and never collected
  (`unreadable` in `FreesEnough`);
- an authorization is accepted again under another spelling of its sender, or when two
  requests with it await the contract at once (`AcceptedOnce` counts per spelling and
  excepts `raced`);
- `p2p-protocols.service.ts:148-150` says that malicious nodes are prevented from injecting
  unauthorized blobs; a request labelled media is stored without a question (`Admitted`);
- the ids of the registry, of libp2p and of the key are taken for each other
  (`dial`, `keyed`);
- `types/index.ts:307-308` calls the confirmed replicas node ids, a push records URLs, and
  a node with both counts twice (`NamedTwice` in `CompleteIsReplicated`);
- a replacement is chosen without regard to shards (`PlacementAgrees`), and a bracketed
  assignment loses its first range or number (`sharding.ts:168`).

## Not modelled

Cryptography (hashes and signatures are taken as injective and unforgeable), the
contents of blobs, the contracts, libp2p and Express themselves, logging and
formatting.

Of modelled components, with the reason in `PROJECT.json`: the capacity check and
the access counters of the store (a refusal at any time stands for the first,
nothing depends on the second), the pages of `getFeedEvents`, the health checks of
peers, announcements over pubsub, statistics and audit logs, and functions without a
caller (`cleanupOldEvents`, `removePeer`, add and remove of blocked content). The
proofs of storage are cryptographic calls around one file each and have no shared
state. The parsing of the fields of the configuration stands as one setting.
