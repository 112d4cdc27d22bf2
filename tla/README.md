# A TLA+ verification project for ipfrs

ipfrs is an IPFS node in Rust: content-addressed blocks, a block exchange, a
block store with pinning and garbage collection, replication by a Raft-like
state machine, and semantic, tensor and logic layers on top.  This directory
holds TLA+ modules translated from the code that carries its concurrency and
failure handling, TLC configurations that check them on small instances, and
TLAPS proofs that hold for every instance.

## 1. Inventory

Paths are under `src/crates/`.  "Hard" names what a unit test hardly reaches.

| Component | Source | State | Operations | Hard |
|---|---|---|---|---|
| Want list | `ipfrs-transport/src/want_list.rs` | map cid -> (entry, version), heap with stale entries, version counter, deadlines | add, remove, update_priority, boost, pop, cleanup_expired, mark_attempted, clear, batches | stale heap entries after remove/re-add; capacity inside batches; priorities that change with time |
| Bitswap exchange | `ipfrs-transport/src/bitswap.rs` | want list, pending requests, peer manager, block store | want, cancel_want, next_want, mark_request_sent, receive_block (async), record_failure, cleanup | several locks per call, an await inside receive_block, wants and pending requests that must agree |
| Peer manager, circuit breaker, retry policy | `ipfrs-transport/src/peer_manager.rs` | peers, metrics, blacklist; breaker state, failure window | add, remove, record_*, blacklist, select_*; is_request_allowed, record_*, reset | late results for removed peers, half-open probes, failures counted across a timeout |
| Session | `ipfrs-transport/src/session.rs` | state, block map, counters, watch channel | add_block(s), mark_received, mark_failed, pause, resume, cancel, wait_completion | several locks in different orders, duplicate results, pause racing the last block |
| Other transport protocols | `ipfrs-transport/src/` (tensorswap, graphsync, quic, tcp, multi_transport, backpressure, throttle, recovery, partition, ...) | per protocol | per protocol | flow control, partitions, recovery |
| Node pins | `ipfrs/src/pin.rs`, `ipfrs/src/node/pin_ops.rs` | three locked maps: pins, indirect pins, recursive deps | pin, unpin, add_indirect, clear, load, save | three locks in two orders; a recursive pin is built up over awaits |
| Node garbage collector | `ipfrs/src/gc.rs`, `ipfrs/src/node/repo_ops.rs` | none of its own; reads pins and store | collect: mark, list, sweep | pins made and blocks written between mark and sweep |
| Storage garbage collector | `ipfrs-storage/src/gc.rs` | cancel flag, statistics, running flag of the scheduler | collect, cancel, maybe_run | cancel racing a second collect; batches; limits; resolvers that fail |
| Coalescing block store | `ipfrs-storage/src/coalesce.rs` | pending writes, time of the oldest one | put, put_many, delete, flush, a background task | a batch under way is neither pending nor stored; failing batches; crashes |
| Request coalescer | `ipfrs-transport/src/request_coalescing.rs` | pending request of each CID: channel, waiter count | register, complete, fail, cancel, cleanup_expired | look-up and insertion in two steps; a limit that forces a request out; waiters that nobody answers |
| Storage pins | `ipfrs-storage/src/pinning.rs` | reference-counted pins | pin, unpin, pin_recursive | check and decrement in two steps |
| Raft node | `ipfrs-storage/src/raft.rs` | term, vote, log, commit and apply indices, state | request_vote, append_entries, election timer, append_entry | a timer that changes three locks one by one, stale or duplicated RPCs, commit clamping |
| Block stores | `ipfrs-storage/src/` (blockstore, memory, cache, lru, ...) | cid -> block | put, get, has, delete, list | cache coherence |
| Write-ahead log, snapshots, compaction | `ipfrs-storage/src/wal*.rs`, ... | log segments | append, replay, truncate | crash between two writes |
| Network | `ipfrs-network/src/` | libp2p swarm, DHT, pub/sub, connection management | per protocol | libp2p-driven |
| Core | `ipfrs-core/src/` | none | CID, block, IPLD, CAR, chunking codecs | pure encodings |
| Semantic, tensor logic | `ipfrs-semantic/`, `ipfrs-tensorlogic/` | indexes, knowledge bases | search, inference | numeric |
| Gateway, CLI, bindings | `ipfrs-interface/`, `ipfrs-cli/`, `ipfrs-wasm/`, `ipfrs-nodejs/`, `ipfrs-python/` | none of their own | calls of the node | I/O |

How they interact: the node (`ipfrs/src/node`) owns a block store, a pin
manager, the collectors and a network node.  A fetch becomes a want of the
Bitswap exchange, is popped from the want list, sent to peers the peer manager
selects, tracked as pending, and ends when a block arrives and is put in the
store.  A session groups the blocks of one fetch.  Pins are the roots the
collectors mark from.

What makes each part correct: the want list serves every want once and in the order
of its effective priority; a session completes when all its blocks are reported,
once, and wakes its waiters; an open circuit opens again only for new failures and
does not stay open for ever; a banned peer is never selected; the exchange keeps a
want until its block is stored and knows how loaded a peer is; a pin protects what
it covers from the collectors, also through a restart of the node; a Raft node keeps
a prefix of a leader's log, commits and applies only what a leader committed and
grants the vote of a term to one candidate at most; a block the coalescing store has
accepted reaches the inner store; whoever joins a pending request is answered.

## 2. Modules

| Module | Models | Uses |
|---|---|---|
| `WantQueue` | abstract: a bounded priority queue, the promise of the want list | |
| `WantList` | `want_list.rs` | `WantQueue` as refinement target |
| `Session` | `session.rs`, Session | |
| `CircuitBreaker` | `peer_manager.rs`, CircuitBreaker | |
| `PeerManager` | `peer_manager.rs`, PeerManager | |
| `Bitswap` | `bitswap.rs` | EXTENDS `PeerManager`, INSTANCE `WantQueue` |
| `NodePins` | `pin.rs`, `node/pin_ops.rs` | |
| `NodeGC` | `gc.rs` of the node | EXTENDS `NodePins` |
| `NodeRestart` | save, load and crashes of the node | EXTENDS `NodeGC` |
| `Raft` | `raft.rs` | |
| `StoragePins` | `pinning.rs` | |
| `StorageGC` | `gc.rs` of ipfrs-storage | EXTENDS `StoragePins` |
| `CoalescingStore` | `coalesce.rs` | |
| `RequestCoalescer` | `request_coalescing.rs` | |
| `WantListProofs`, `SessionProofs`, `RaftProofs`, `CoalescingStoreProofs` | theorems | the module of the name |
| `BitswapProofs` | theorems about `PeerManager` and `Bitswap` | EXTENDS `Bitswap` |
| `NodeProofs` | theorems about `NodePins`, `NodeGC` and `NodeRestart` | EXTENDS `NodeRestart` |
| `StorageProofs` | theorems about `StoragePins` and `StorageGC` | EXTENDS `StorageGC` |
| `TransportProofs` | theorems about `RequestCoalescer` and `CircuitBreaker`, which share no state | EXTENDS both |
| `MC*` | constants for TLC | |

An operator named with "Mutant" in its comment is a wrong version of the
definition below it; it is used by no specification, only to try whether a
property notices the bug.

**WantList.**  `entries` is the map (`HashMap<Cid, (WantEntry, u64)>`), `heap`
the set of heap entries, stale ones included, `versionCounter` the counter.  A pop
discards heap entries whose version is not the map's (`IsLive`).  Batch calls
are one action, as they hold the lock throughout.  The clock is a counter, a
deadline a value of it.  The heap is a set and not a bag, as its entries differ in
their versions.

**Session.**  One thread per caller; a call is split where the code takes
another lock, and `call[t]` is the place a thread is at with its locals.  The
watch channel is its last value and the number of sends, from which a waiter
sees that it changed.  `usage` is fixed at the start: how the callers behave,
`any` or `orderly` (each block is added once, before any is reported, and
reported once, and nobody pauses or cancels), and whether the session has an
event sender, as every session of `SessionManager` does.  With one, a
`mark_failed` that completes the session waits for itself (`SelfLocked`).

**CircuitBreaker.**  The calls hold the state lock throughout except `reset`,
which writes its six fields under six locks; it is split at each.  Failure
times are kept as in the sliding window.  `withReset` is whether anybody calls
`reset`.

**PeerManager.**  `peers[p]` holds has/lacks sets, active requests and
consecutive failures; latency, bandwidth and scores are left out, and a
selection may prefer any of the peers it may return, which includes what every
strategy does.  `blacklist[p]` is an expiry, `Forever` or absent.

**Bitswap.**  Each call is split at its locks: the want list, the peer manager,
the pending map and the await of the store's `put`, which may fail.  The want
list is the abstract `WantQueue` (the run `want_list` shows that `WantList`
implements it), without the age of a want.  `owed` is history: the wants nobody
has cancelled, taken or let expire.

**NodePins.**  `pins`, `indirect` and `deps` are the three maps, each with its
lock.  A lock that is taken and released in one step needs no variable; the
locks a call keeps while it waits for the next are told by where it is
(`HoldsPins`, `HoldsDeps`, `HoldsIndirect`).  A recursive `pin_add` checks the
store, pins, then reads block after block (`Visit`) and calls `add_indirect`
for each link in two steps (`AddIndirect`, `AddDep`).  The stack of blocks to
visit is a set, so any order is allowed.  `Visit` passes over a missing block;
`VisitFails` is the error of the store at which `pin_add` returns with the root
pinned and its links not, or not all.  `gaps` is history: the roots whose last
`pin_add` met one or the other.

**NodeGC.**  `gc` is the collection under way: what is marked, what is still to
be visited, what is on the list to delete, and, as history, what was pinned and
stored when it began.  `GcFails` is any of the store's errors, at which a collection
ends where it is.

**NodeRestart.**  The pins are in memory, the blocks and the `file` on disk. `save`
reads the pins under their lock and writes the file later; the write may fail, and a
crash may leave the old file, the new one or half of it.  `load` replaces the pins,
not the indirect ones; it fails only before it changes them, as the entries of a
file that `save` wrote convert back (`pin.rs:234`).  The owner of the node saves and
loads one at a time and loads before it lets a new node save or collect.  `durable`
is history: the saved pins that nobody has removed since.

**Raft.**  One node; `raft.rs` sends nothing and has no path to Leader.  The
other nodes are `hist`, the log of the leader of each term and how much of it was
committed: any history that keeps Raft's own promises (`IsHistory`).  Any request
a leader of the history could have sent may arrive at any time, so requests are
lost, repeated, delayed and reordered.  The timer is split at its three locks; the
event loop runs one handler, or one round of applying, at a time.  It begins to
apply when no message has come for 10 ms; `gap` says that the requests leave it
that long.  A restart loses everything but the block store.

**StoragePins.**  `pins[c]` is the entry of the concurrent map.  A recursive call
walks the DAG entry by entry; `unpin` is two accesses, `remove_if` and `get_mut`.
`direct` and `recursive` are history: the pins the threads hold.  Threads release
what they hold, once.

**StorageGC.**  Several tasks run the collector, through the scheduler's flag or
past it.  Deletes and the link resolver fail at any block, and a `collect` may begin
at any time, also when it takes back the cancel of another.  `kept` and `there` are
history: what has been pinned, and what has been stored and not pinned indirectly,
ever since the collection began, the latter without the blocks on which the resolver
failed and those a cancel left on the queue.

**CoalescingStore.**  `pending` and the age of the oldest write under one lock; a
batch under way is in the `task` that writes it.  The background task is there, as by
default (`auto_flush`, `coalesce.rs:132`).  `owed` is history: the blocks accepted and
not deleted, less those a failed batch or a crash, or an end of the process without
a flush, took.

**RequestCoalescer.**  The entry of one CID (entries share only statistics).  A
channel is a number, and `outcome` what its receivers get.  The entry stays
guarded over the await for the statistics' lock (`stats`).  The callers are tasks on
`Workers` threads: one that needs the guard while it is held blocks its thread
(`Block`), and with all of them blocked the holder does not run either.

## 3. Runs

| Run | Shows |
|---|---|
| `want_list` | no want is lost behind stale heap entries, none is served under a heap entry of an earlier want for the same CID, a boost schedules every want at its effective priority, and the lazy heap implements `WantQueue`, room for `max_wants` included |
| `session` | any calls of three threads, with and without an event sender: no lost wake-up, and no deadlock (checked by TLC) but that of `mark_failed` with itself; orderly callers: completes at most once, not early, and every waiter returns unless that deadlock is there |
| `breaker` | a closed circuit remembers no failures from before; without `reset`, an open circuit ends |
| `peers` | a banned peer is unknown to every selection, bans are not cut short |
| `bitswap` | no want is lost before its block is stored; the overload of a peer is bounded by the number of dispatching threads |
| `pins_restart` | the maps of the pin manager agree, recursive pins cover their DAG until pins are loaded, unless `pin_add` met a missing or unreadable block, a collection keeps what was pinned when it began, a saved pin protects its blocks through crashes |
| `raft` | the log is a prefix of a leader's, what is committed here was committed by a leader, stays and is applied, the store is the replay of the log, one candidate at most is granted the vote of a term between two restarts, and a refusal takes the leader back; committed entries are applied in the first gap of 10 ms; for leaders that announce no commit index beyond the entries they send |
| `raft_commit` (violation) | without that: a heartbeat commits the stale entries behind `prev_log_index` (`raft.rs:452`) |
| `storage_pins` | a pin that is held is there; the two steps of `unpin` release the caller's own reference |
| `storage_gc` | nothing pinned throughout a collection is on a batch it deletes, nor what is below it as far as links were followed; the limit is exceeded by less than a batch; the running flag is up exactly while a scheduled collection is under way, of which there is one |
| `coalescing_store` | an accepted block is pending, in a batch or stored; what is pending is flushed in the end, given the background task |
| `request_coalescer` | a pending request is being fetched, no waiter listens to a channel without a sender, every waiter is answered unless its request was left behind or all workers are blocked on the guard |

**Bounds.**  `want_list`: three CIDs and room for two, so that a list is full, a
want is removed and wanted again, and a batch overflows half way; two priorities at
either side of the deadline levels; three versions, so that a stale entry of an
earlier life can meet a live one; the clock passes one deadline.  `session`: three
threads (two that report the last two blocks and one that waits or pauses), two
blocks, five calls, both kinds of callers, with and without an event sender.
`breaker`: thresholds of two, a window and a timeout of two ticks, so that a failure
leaves the window before the second.  `peers`: two peers, both kinds of automatic
bans, and a caller's temporary and permanent ban, both longer than those.  `bitswap`:
two threads, two peers with one slot each, two CIDs and a list for one, four calls:
two requests in flight and two answers.  `pins_restart`: a DAG in which two roots
share a leaf (r2 to r1, r1 to x), complete or with r1 missing, two threads and three
calls (two recursive pins that share a leaf and an unpin is what the maps disagree
on when a lock is given up early; a read that fails counts as a call), one
collection with a limit of two, and four events in all, pin calls included: a pin, a
save, a crash and a load.  `raft`: three terms and the histories of `MCRaft`, in
which a leader replaces the uncommitted end of another's log,
and a refused entry is not of the last term of this node's log.  `storage_pins`: two
roots that share a link, two threads, six calls. `storage_gc`: a block and its link,
one thread with two calls, two collections by two tasks of the scheduler and one
past it, with a limit of one block: incremental in batches of one and of two, which
exceed the limit, in one batch, and dry.  The two scheduled tasks are
interchangeable.  Two collections are what it takes to take back a
cancel.  `coalescing_store`: three blocks and batches of two, so that a batch
overflows, two writers, three calls, one crash.  `request_coalescer`: four callers,
five calls and a limit of three, so that one caller forces out a request that
another has replaced, and two worker threads, so that both can be blocked.

The runs `bitswap`, `pins_restart`, `storage_pins`, `storage_gc`, `coalescing_store`
and `request_coalescer` switch off the deadlock check: their threads stop when the
bound on calls is reached.  That threads of `NodePins` can also block each other is
described in section 5.

**Fairness.**  `Session` and `NodePins`: weak fairness of `Continue(t)`, the
scheduler runs a thread whose lock is free; nothing is assumed about callers
making calls.  `CircuitBreaker`: weak fairness of `Wait`, time passes, and of
`Probe`, callers keep asking; that requests end, succeed or fail is not
assumed.  `Raft`: a round of applying begins when there is a `gap`, and is driven on;
that there ever is one is not assumed, and the property is about what a gap does.
`CoalescingStore`: time passes, the background task wakes up, a call that has begun
is driven on.  `RequestCoalescer`: a worker that is not blocked runs every caller that
can go on, and a fetch is reported or dropped; nothing is assumed of
`cleanup_expired`, which nothing in the repository calls.

## 4. Proofs

Every safety property the passing runs check is also a theorem, `Spec => []Inv` or an
action property or, for the want list, `Spec => AbstractSpec`, for every value of the
constants allowed by the named assumptions of the module.  The invariants below that
no run states were checked by TLC on the instance of the run before they were proved.

- **Want list.**  `IInv` is the conjunction of the types, the two invariants of
  the run, the capacity bound `WithinCapacity` and `VersionsIssued`: no map or heap
  entry carries a version above the counter.  Without it a new want could get the
  version of a stale heap entry, and `NoLostWant` and `ScheduleFaithful` would not be
  inductive.  A boost is shown to be a batch of updates (`BoostIsUpdates`), so that one
  lemma serves both.  `BoostSynchronisesAll` is the action property.
  `WantListIsAQueue` is the refinement of `WantQueue`.  `QInv` adds
  `UniqueVersions`: no two heap entries share a version, so that a want has one live
  entry and `PlaceOf`, which chooses it, is determined.  `PlaceStays` says that a want
  keeps its place when a step leaves its live entry alone; with it every call maps to
  one step of the queue (adds to `Enter`, updates and boosts to `Reprioritise`,
  removals, expiries and `clear` to `Leave`, pops to `Serve`) or to a stutter.
- **Peer manager.**  `PInv` is the types with `BannedAreGone` and `FailuresBelowLimit`;
  `BansAreKept` follows step by step from it.
- **Exchange.**  `BInv` adds to `PInv`, the types and `OwedIsKept`: `StoredInv`, that a
  `receive_block` past its `put` has its block in the store, without which the want
  it removes could still be owed; and `LoadInv`, the load bound that also counts the
  requests that threads have decided on and not yet marked (`Markers`), without which
  `LoadBounded` is not inductive.  `PeersAssumption` asks for `MaxConcurrent` of at
  least one: `PeerState::new` sets 16, and with zero the bound would not hold.
  `ExchangeUsesPeers` shows that the exchange takes only steps of `PeerManager`, so
  that the theorems about that carry over.
- **Session.**  `WaitInv` says which versions of the watch channel a waiter can have
  seen; it gives `NoLostWakeup` for any callers.  For orderly callers `OrderlyInv` has
  three parts: the total counts the blocks inserted, less those of an `add_block`
  between its two locks (`AddInv`); the two counters together count the reports, less
  those between the block map and the counters (`RepInv`); and the session is
  completed by exactly the report with which these reach the total, after which state
  and channel follow (`EndInv`).
- **Circuit breaker.**  `ClosedIsClean` needs the types, and that the loop that pops
  old failures stops (`TooOldExists`).
- **Pin manager.**  `IndirectIsUnion` speaks only of states in which no call is
  between two maps.  `AgreeInv` says what the indirect pins are in between: the
  needed ones, the one an `add_indirect` has not yet recorded, and those an `unpin`
  has not yet released.  It is inductive only together with `LocksExclusive`, which
  is part of the types: the proof of each step cites the locks that keep the others
  out.  `RecursivePinsCover` rests on `Covers`: the dependencies of a recursive pin
  are complete, or its root is among the `gaps`, or some `pin_add` under way will
  make them so, every link of what it has visited being recorded or pending; and on
  `HoldInv`, that an `unpin` or `clear` that has not got to the dependencies has
  removed the pins and holds their lock.
- **Node collector.**  `MarkInv`: what has been visited has had its links
  marked, so that the marked set, when nothing is left to visit, is closed, and
  contains the least closed set, which is what the pins reach
  (`MarkedAreReached`).  `SweepInv`: nothing that can be reached is on the list.
  Nothing is assumed about the links: cycles are allowed.
- **Node with restarts.**  `RInv` carries the invariants of pins and collector over to
  `RSpec`, where pins are saved and loaded and the node crashes, and adds what a saved
  pin needs: it is in memory, or in the file that will be loaded before a collection
  may begin (`PromiseInv`), and its blocks are stored and among those a collection
  under way began with (`BlocksInv`).  The promise has to include the pins a save under
  way is about to write.
- **Raft.**  `Inv1` adds to the types, `LogIsALeaders` and `OneGrantPerTerm` two
  facts: `GrantsRemembered`, that a vote granted in a term is still in `voted_for`,
  or replaced by the node's own, as long as the term lasts and that no later term
  has any, without which a second grant could not be excluded; and `TakenIsInLog`,
  that the entry being applied is in the log.  `Inv2` adds the two commit
  invariants; it needs `CappedCommit`, and `raft_commit` shows why.  The heart of
  both is what is proved of `Merged`: it agrees with the leader's log up to the last
  entry sent, or is the old log.  `HintGoesBack` follows from `Inv1` because terms
  never go down along a leader's log, one of Raft's promises in `IsHistory`.
  `StoreReplaysLog` needs `Inv3`, which says what the store holds half way through
  a replay: a key that an entry applied in this life has touched is there as the log
  says, and any other key that is there was put by a committed entry that earlier
  lives reached (`EverPut`).  As committed entries of two leaders agree, this life
  meets that entry before it has applied as much, and nothing is left over.
- **Storage pins.**  `SpInv` counts: an entry has at least one reference for each
  direct pin, for each recursive pin held above it, and for each call under way that
  has pinned it already or may still unpin it (`ReferencesCount`).  `CallsOK` says what
  a walk over the links has done so far, so that each step moves one reference.  The
  blocks are finite and the links closed (`Below`), and cycles are allowed.
- **Storage collector.**  `SgBounds` counts what is deleted together with what is on
  the batch, in every configuration.  `SgMarks` says, while a collection lists, marks
  and sweeps, what is marked by then and that none of it is on a batch; it needs no
  assumption on resolvers and cancels, because a block whose links were not followed
  is out of `there`.  `FlagIsKept` is inductive as it stands.
- **Coalescing store.**  `CsInv` is the four invariants together, each proved in a
  lemma of its own (`CoalesceTypes`, `CoalesceTimes`, `CoalesceFull`,
  `CoalesceHolds`); the batch sizes need that the blocks are finite.
- **Request coalescer.**  `QInv` adds `GuardKeepsEntry`: while a caller waits for the
  statistics with the entry guarded, the entry is the one it joined.  Without it the
  caller could come to wait on a channel that is gone.

Many properties are also listed as a theorem of their own, which follows from the
conjunction proved.  What a run shows only as a part of something larger is proved
and not checked again: the type invariants of the modules with proofs,
`WithinCapacity` (part of `ImplementsQueue`), `FailuresBelowLimit`,
`AppliedIsCommitted`, `PendingIsTimed` and `FullIsFlushed` (what `PendingIsFlushed`
rests on), `LimitIsEnforced` and `RecursiveCovered`.  Some theorems about `NodePins`
and `NodeGC` are stated for a node that is not restarted (`NSpec`, `GSpec`) and
again for one that is (`RSpec`).

Only model-checked: the liveness properties `WaitersReturn`, `OpenEnds`,
`CommittedIsApplied`, `PendingIsFlushed` and `WaitersAreAnswered`, and the
absence of deadlock in `session`: fairness and ENABLED are out of the prover's reach.
`CommitIsCommitted` without `CappedCommit` is false, as `raft_commit` shows.

## 5. Seen while modelling, and not a run

- `Session`: `mark_failed` completes the session with `stats.write()` held, and
  `transition_state` reads `stats` when there is an event sender: the thread waits
  for itself (`session.rs:366`), and a waiter, which reads `stats` last, never returns;
  the run includes it, and `WaitersReturn` names it as its exception.
  `mark_received` avoids it ("Transition state outside the stats lock to avoid
  deadlock", `session.rs:325`).  A last block that arrives in a pause is counted, but
  the session is never completed, as `resume` does not decide it again
  (`session.rs:318`).  A block reported twice is counted twice, so that a session of
  two can complete with one still pending (`session.rs:302`).  A `pause` racing the
  last `mark_received` can leave the state Completed and the watch channel at
  Paused, and a waiter asleep (`session.rs:448`).
- `CircuitBreaker`: a failure recorded between the writes of `reset` opens the
  circuit, and `reset` then erases `opened_at`: it rejects requests for ever
  (`peer_manager.rs:1155`).
- `Bitswap`: `record_dont_have` does not lower `active_requests`, and `receive_block`
  returns before `record_success` when `put` fails, so a peer that has answered keeps
  its slot occupied (`bitswap.rs:248`).  The comment at `bitswap.rs:110` says "update
  priority if higher", the code sets any priority.  `want` racing a cancel answers
  "Want list full" from a list that is not full (`bitswap.rs:114`).
  `mark_request_sent` racing `receive_block` leaves a pending request that nothing
  removes (`bitswap.rs:271`).  Two dispatching threads together exceed the
  `max_concurrent` of a peer (`bitswap.rs:269`); `LoadBounded` says by how much.
- `PinManager` of the node: `unpin` holds `recursive_deps` (line 147) when it takes
  `indirect_pins` (line 150), `add_indirect` holds `indirect_pins` (line 116) when
  it takes `recursive_deps` (line 119): an unpin of a recursive pin and a recursive
  pin_add on two threads block each other, and with them every later call. A block
  that cannot be read ends a recursive `pin_add` with the root pinned recursively
  and its links not (`node/pin_ops.rs:47`); the collector, which follows the links
  itself, spares them.  A recursive pin that is pinned again as Direct keeps its
  dependencies, and they are never released (`pin.rs:105`, `pin.rs:146`).  `load`
  restores pins without their indirect pins (`pin.rs:225`), so that after it a block
  below a recursive pin is not `is_pinned`, although the collector spares
  it.  `tokio::fs::write` truncates the file first: a failed or interrupted save
  destroys the last good index (`pin.rs:219`), and two saves at once may end in
  either order.
- `GarbageCollector` of the node: a block pinned after the pins were read and before
  the sweep reaches it is deleted while pinned (`gc.rs:134`; the module says "Only
  unpinned blocks are eligible for collection", `gc.rs:4`); `pin_add` has the same
  window between its look at the store and the pin.  `min_age_seconds` (`gc.rs:35`) is
  never read, although `node/repo_ops.rs:46` says that younger blocks are spared.
- `RaftNode`: a vote request handled between the lines 340 and 341 of the timer can
  get the vote of the new term, after which the node votes for itself too.  The state
  that "must survive restarts" (line 183) lives in memory, so a restarted node may
  vote again.  A candidate does not step down for a leader of its own term.  The
  comment "Find conflicting term's first index" (line 420) is true only when the
  conflicting term is the last of the log.  After `raft_commit` a shortened log makes
  line 530 panic.  Requests less than 10 ms apart keep the loop from applying (line
  308).  A hint may lie before entries that match the leader's: the answer is safe,
  and not the best one.
- `PinManager` of the storage: two unpins that both read a count of two leave an
  entry with a count of zero, pinned until somebody pins and unpins it again
  (`pinning.rs:235`).  A resolver that fails in `pin_recursive` leaves the blocks
  pinned so far (`pinning.rs:198`), one that fails in `unpin_recursive` the rest.
- `GarbageCollector` of the storage: `max_blocks_per_run` ("Maximum blocks to
  collect in a single run", `gc.rs:33`) is exceeded by up to a batch, and without
  effect unless the collection is incremental or dry, as nothing is counted before
  the last batch; `CollectedBounded` says what is left of it.  A resolver error is
  only written down, and the sweep deletes what is below the block (`gc.rs:287`).  A
  second `collect` clears the cancel flag that broke off the marking of the first,
  which then sweeps (`gc.rs:230`).  Both are in the run, and `PinnedRetained` names
  them.  An indirect pin is marked without being queued (`gc.rs:263`), and a link
  that is marked already is not queued again (`gc.rs:280`), so nothing below an
  indirect pin is marked from a root above it.  While a `pin_recursive` is under way,
  with its root and first link pinned and the second still to come, a collection
  deletes the second, although it is stored and linked from a root that has been
  pinned all along; `PinnedRetained` is therefore about links with no indirect pin
  in between.  A `maybe_run` whose future is dropped, or that panics, leaves the
  running flag set (`gc.rs:472`); neither is modelled.
- `CoalescingBlockStore`: a batch that fails is lost after its writers were told Ok,
  and the background task drops the error (`coalesce.rs:150`, `coalesce.rs:203`).
  `get` and `has` do not see a batch under way; `flush` answers Ok while another
  flush is writing; a `delete` during a flush is undone by it.  "Automatic flushing on
  shutdown" (`coalesce.rs:6`) has no code.
- `RequestCoalescer`: two callers that both find nothing pending both insert and
  fetch, and the waiters of the first get a closed channel
  (`request_coalescing.rs:160`); the same happens to all waiters when the limit forces
  a request out (`request_coalescing.rs:151`), although the module promises "a single
  network request".  The map's guard is held over an await (line 141): callers that need
  it block their worker threads, and when all of these are blocked the holder is never
  run again (`Starved`).  A caller that goes away without reporting leaves its waiters
  to `cleanup_expired` (line 221), which nothing calls (`LeftBehind`).

## 6. Not modelled

The components marked not_modelled in `PROJECT.json`, each with its reason.
Within the modelled ones: `SessionManager`, the retry policy, `clear`, `save` and
`load` of the storage pins, the orphan collector, two collections of the node at
once, deletions of blocks by callers, and all statistics.

Most of the repository is outside: some nine hundred files of single-owner data
structures, scores and numeric indexes (semantic search, tensor logic, network
schedulers and analytics), in most of which nothing runs concurrently or survives a
crash.  A model of one of them would repeat its code; the modules here are kept
to the parts in which an order of steps decides.

## 7. Plan

1. Done: want list and its refinement, session, breaker, peers, exchange, node pins
   and collector with restarts, Raft, storage pins and collector, coalescing store,
   request coalescer; every safety property of the runs is proved.
2. Further theorems: that the exchange takes only steps of `WantQueue` with the want
   list it uses, as it does of `PeerManager`; the order in which locks are taken in
   `Session` without an event sender.
3. Candidates for modules: `SessionManager` over `Session`; TensorSwap over the
   exchange (a lock held over an await, `tensorswap/core.rs:318`); the orphan
   collector beside `StorageGC`.
