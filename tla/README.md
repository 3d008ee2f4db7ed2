# Formal models of odyssey-tasks

odyssey-tasks is a collection of self-contained programs, one per directory of `tasks/`. Each has
an `instruction.md` that specifies it, starter code under `environment/`, a reference
implementation (in `environment/src`, or written out by `solution/solve.sh`) and a verifier under
`tests/`. The programs share nothing, so each component below is modelled by itself. This
directory holds TLA+ models of the ones whose difficulty lies in concurrency, failures and
ordering, the TLC configurations that check them, and TLAPS proofs about them.

Paths are relative to `src/`. "Spec" means the program's `instruction.md`.

## Files

| Module | What it is |
|---|---|
| `SagaTransaction` | abstract specification: what a saga promises the services it calls |
| `DagSaga` | the saga orchestrator: database rows, coroutine, HTTP calls, pause/resume, crash |
| `DagSagaProofs` | its types, safety, effects, and the refinement of `SagaTransaction` |
| `Ledger` | the escrow ledger: accounts, transfers, holds, keys, threads, cut requests |
| `LedgerProofs` | its types and the inductive invariants of keys, holds, balances, cover and money |
| `OAuth` | the authorization server: pushed requests, codes, token families, devices, proofs |
| `OAuthProofs` | its types, reuse detection, rotation, single answers |
| `MvccWal` | the multi-version engine: version chains, log, transactions, recovery |
| `MvccWalProofs` | durability of the flush mark and of acknowledged commits, isolation, exact recovery |
| `Raft` | nodes, storage, cluster links and the threads that tick them |
| `RaftProofs` | its types, election safety, contiguous logs, true requests, the shape of a deadlock |
| `ThreadCache`, `CentralArena`, `HazardPointers` | the three parts of the memory allocator |
| `Allocator` | one instance of the three, which do not call each other |
| `AllocatorProofs` | who owns a block and how large it is; a node has one place; objects in use are not freed |
| `Firewall` | token buckets, connection table, receive queues |
| `BytePipe` | abstract specification: what a stream promises its reader |
| `QuicWire`, `QuicEngine` | varints and frames; packets, streams and reassembly |
| `NetworkProofs` | firewall: rates, handshakes, expiry; QUIC: the codec inverted, streams are pipes |
| `Digits` | spans of bytes and numbers of bits, bytes or groups of seven bits, which both decoders read |
| `WasmRuntime`, `ColumnReader` | the module parser and runtime; the column decoder |
| `VectorIndex` | the vector index: codes, layers, search |
| `Libraries` | one instance of the last three, which share no state |
| `LibrariesProofs` | modules and columns read as written; connected layers, exact search, what a filter drops |
| `MC...` | one module per instance, with its `.cfg` files: what TLC is given |

`PROJECT.json` lists components, runs, the map from definitions to source lines, hazards,
findings and theorems.

To check: `tlc -config MCRaft.cfg MCRaft.tla`, `tlapm RaftProofs.tla`, and likewise for the others.

## Inventory

### Programs with state and actors

**dag-saga-orchestrator-api** (`solution/solve.sh`, FastAPI + SQLite).
State: tables `sagas`, `steps`, `saga_journal`; one background coroutine `run_saga` per saga.
Operations: create (graph validated for cycles and dangling dependencies), run loop, `exec_step`
with retries and timeout, `compensate_saga`/`comp_step`, pause, resume, journal and state reads.
Interaction: `asyncio.gather` over HTTP calls to step services; endpoints run between its awaits.
Hard: parallel batches where one member fails, a pause at any await, answers lost by timeout and
late effects, a crash between two autocommitted statements, startup that resumes nothing.
Correct when: dependencies order execution and, reversed, compensation; the two never overlap;
the journal tells how the saga ended; services saw what the rows say; every saga ends.

**idempotent-ledger-escrow-api** (`solution/solve.sh`, FastAPI + SQLite).
State: `accounts`, `holds`, `ledger_entries`, `idempotency_keys`.
Operations: create account, get account, transfer (with Idempotency-Key), create/capture/void
hold, expiry of stale holds, an admin reconcile that only reads.
Interaction: async handlers are serialised by the event loop; `void_hold` and `get_account` are
plain functions that FastAPI runs in threads beside it.
Hard: statements are autocommitted one by one, so threads run between the check and the write of
a handler, and a crash cuts a handler anywhere; clients retry with the same key.
Correct when: no account is overdrawn and holds stay covered; balances are what the ledger rows
say; a key moves money once; a hold is debited once and has one outcome.

**mvcc-btree-wal-recovery** (`environment/src`, `solution/solve.sh`, C++).
State: version chains per key, the log and its flush mark, transaction objects, next id, clock.
Operations: begin, get, put, delete, scan, commit, abort, checkpoint, vacuum, recover.
Interaction: threads share the engine under an index latch and the log under a mutex; a commit
appends and flushes in two critical sections.
Hard: concurrent append and flush, snapshots against vacuum, a crash with part of the buffer
written, recovery repeated over its own log.
Correct when: acknowledged commits are on disk; a transaction's reads are stable and include its
writes; recovery restores committed writes and drops the others.

**raft-distributed-consensus-engine** (`environment/src`, C++).
State: term, vote, log, snapshot (`MemoryStorage`); role, commit index, timers (`RaftNode`); links
(`RaftCluster`). Operations: tick, start election, RequestVote, AppendEntries, InstallSnapshot,
propose, heartbeat, partition. Interaction: direct calls into the peer's handlers, replies
dropped, under each node's own mutex. Hard: stale or repeated messages, snapshot against log,
nested locks. Correct when: a term has one winner, log indices are contiguous, what a candidate
asks with stays true while it asks, and threads do not wait in a circle.

**oauth2-pkce-rtr-api** (`solution/solve.sh`, FastAPI + SQLite).
State: `auth_codes`, `par_requests`, `tokens` (with families), `device_codes`, `dpop_jti_cache`.
Operations: register, pushed request, authorize, token (four grants), introspect, revoke, device
code and verify, protected resource. Hard: crash between autocommitted statements, reuse of a
rotated token after any history of its family. Correct when: a request, a code and a proof are
honoured once, a family has one live refresh token, reuse ends the family for good.

**lockfree-memory-allocator-hazard** (`environment/src`, `solution/allocator_ref.cpp`, C++).
State: the central lock-free stacks, thread caches, hazard records, retired lists. Operations: pop,
push, acquire, release, retire, reclaim, malloc, free, realloc. Hard: the compare-exchange loops,
blocks freed by other threads, sizes that are forgotten. Correct when: a block has one owner and
is large enough, a node is in one place, no object is freed while a hazard pointer holds it.

**ebpf-xdp-stateful-firewall** (`environment/src`, C++). State: connection table, token buckets.
Operations: process packet, expire, allow. Hard: table at its limit, timestamps that go back,
threads between the limiter's lock and the table's. Correct when: a connection is established by
a handshake and lives while packets pass, and a bucket never gives more than rate and burst allow.

**quic-stream-multiplexer-engine** (`environment/src`, C++). State: segments per stream, read
offset, final size, receive counters. Operations: push frame, read, process packet, control
frames. Hard: segments that overlap, repeat and arrive in any order. Correct when: what is read is
a prefix of what was sent, nothing that arrived is dropped, and a stream finishes when complete.

**wasm-jit-core-runtime** and **simd-parquet-columnar-decoder** (`environment/src`, C++).
Sequential decoders. State: the parsed module and its compiled exports; metadata and decoded
values. Operations: parse, instantiate, invoke; open, unpack, decode, filter. Hard: counts and
lengths that do not fit, files cut anywhere, values across byte and page ends. Correct when: what
was written is what is read, and pruning drops no row that matches (it does: see Findings).

**hnsw-pq-simd-vector-engine** (`environment/src`, C++). State: a codebook, the codes of the
vectors in the order of insertion, a graph of layers with its entry node. Operations: train,
insert (under a mutex, by any thread), search (sharing it); training takes no mutex. Hard: ids come
from the caller and positions from the order in which threads get the mutex; levels are drawn at
random and move the entry node; a codebook that changes under its codes. Correct when: every layer
is connected, edges are listed at both ends, and a search answers with the nearest.

### Programs not modelled

- **tls13-crypto-handshake-engine**: mocked cryptography; its only state is a record counter.
- **differentiable-sparse-voxel-octree**: floating-point rendering over an octree whose `Lookup`
  answers with the first leaf whatever it is asked for.
- **simd-quantum-circuit-simulator**, **flash-attention-paged-triton**: floating-point numerics.
- **lockfree-btree-storage-engine**: the reference solution is a map under one mutex.
- `idempotent-ledger-escrow-api/` at the root is an earlier copy of the task of that name.
- `drafts/`, `zips/`, `task.md`, `rules.md`: metadata.

## Plan

The most concurrent and failure-prone programs first, pure decoders last:

1. `DagSaga` with `SagaTransaction`: safety, liveness, refinement, proofs. Done.
2. `MvccWal`: safety, recovery, durability proofs. Done.
3. `Ledger`: safety, the one finding, proofs. Done.
4. `Raft` with storage, locks and partitions: safety and proofs. Done.
5. `OAuth` with crash points: safety and proofs. Done.
6. `ThreadCache`, `CentralArena`, `HazardPointers`, `Firewall`, `QuicEngine` over `BytePipe`: safety,
   refinement and proofs. Done.
7. `WasmRuntime` and `ColumnReader`: decoders against what the writer wrote. Done.
8. `VectorIndex`: threads that insert and search; proofs. Done.
9. Proofs of what is a sum, a path of links, a fold over a log or a queue. Done.

10. Proofs of the two decoders. Done.

What is left: a log cut inside a record.

No module declares a RECURSIVE operator: searches and decoders are recursive functions or folds,
and what a proof speaks of is a recursive function (the passes of recovery, the queue of a search).

## How the models correspond to the code

### DagSaga

One saga suffices, since sagas share no row. A coroutine changes hands only at an await, so an
action is the code between two awaits: `CreateSaga` is `create_saga`; `ScanFailed`,
`ScanCompleted`, `ScanDispatch` are the branches of the transaction in the loop of `run_saga`;
`ExecSuccess`, `ExecRefused`, `ExecTimeout`, `ExecNoAttempt` are the outcomes of an attempt of
`exec_step`; `GatherDone` is the return of `asyncio.gather`; `CompDispatch`, `CompStep`,
`CompGatherDone`, `CompFinished` are `compensate_saga` and `comp_step`; `PauseSaga` and
`ResumeSaga` are the two endpoints. `CreateTorn` and `CrashInControl` are crashes between the
statements of an endpoint, `Crash` is one anywhere else. A compensation succeeds, is refused without
effect, or times out (`CompSuccess`, `CompRefused`, `CompTimeout`); the last may still take effect
later (`LateCompensation`, counted by `lateUndo`), as a timed-out execution may (`LateArrival`).
`HasCycle` is the code's depth-first search, with its visited set and its stop at the first cycle.
`deps`, `retries`, `journal` and the statuses are the columns; `pc` and `inflight` the coroutine;
`effects`, `undone`, `late`, `lateUndo`, `unsure` are ghosts of the services, which are external.
Sleeps and the branches that only loop change nothing and are left out, as are names, URLs and
payloads.

### Ledger

`req` is the request on the event loop and `thread` the ones in threads. An action is one writing
statement, or the reads between two. `StartTransfer`, `CheckTransfer`, `Debit`, `Credit`,
`PostDebit`, `PostCredit`, `Remember` are `transfer` in order; `StartCapture`, `CheckCapture`,
`Debit`, `Credit`, `Settle`, `PostDebit`, `PostCredit` are `capture_hold`, and the actions the
two share are the statements they share. `StartHold`, `CheckHold`, `InsertHold` are
`create_hold`; `StartVoid`, `CheckVoid`, `UpdateVoid` are `void_hold`; `CreateAccount` and
`PostOpening` are `create_account`. `ExpireStaleHolds` is the first statement of each handler that
calls it. `Cut` and `CutThread` end a request at any statement: a crash, or a statement that fails
because the database stayed locked. `opening`, `stray`, `debits`, `answers`, `cut` are ghosts.
Amounts are integers, as the code's are.

### MvccWal

Operations under the index latch are one action each (`Put`, `Delete`, `Vacuum`, `Recover`).
`Begin` and `LogBegin` split `BeginTransaction` at the point where no latch is held, `Commit` or
`Abort` and `FlushEnd` split a commit between `AppendRecord` and `Flush`, `Checkpoint` and
`FlushCheckpoint` a checkpoint: it keeps the index latch between the two (`LatchFree`), so that only
what takes no latch, begins, commits and aborts, falls between. `log` is the file with its buffer
and `durable` the part on disk: a crash keeps any prefix from `durable` on, since the stream may
have written more by itself. `Recover` is the three passes of recovery, with the undo
order of an `unordered_map` left open. `RecoveryRestores` says what a reader finds after it: the
last committed write of each key and nothing uncommitted, with three exceptions. The last ended
writer did not commit (`AbortedLast`): the promise of the tests, `UncommittedAreRolledBack`, fails
there, and a run shows it. Several unfinished writers alternate (`LosersInTurn`), or a committed
writer counts as unfinished because its id was given out again (`Reopened`): see the other facts
under Findings. A value is the transaction that wrote it. A transaction object dies with its
process.

### Raft

`at` is where each thread is in `TickAll`: nodes still to tick, the candidate whose mutex it
holds, the peers it has still to ask, the peer it is calling. `Tick` and `StartElection` are the
two ends of `HandleTick`; `SendRequestVote` is the partition check, `HandleRequestVote` the call
of the handler once the peer's mutex is free, `EndElection` the return. `SetPartition`,
`ClearPartitions`, `HandleAppendEntries`, `HandleInstallSnapshot` are calls of the cluster's user:
`SendRequestVote` drops the reply, so no node becomes LEADER and `Propose`, heartbeats and the
leader's tick are dead code. The user speaks for a candidate that a quorum voted for, and
sends any entries. `votes` remembers votes granted, `rewound` the nodes that took entries from
below their snapshot. Two facts about the code that the model brings out: `StepDown` forgets the
vote even where the term stays the same, so a node can vote twice in a term; and `GetTerm` answers
0 for what the snapshot covers, so entries after index 0 are accepted and put behind the snapshot.

### OAuth

Handlers never await, so one runs at a time, and `job` is the statement that comes next when a
handler writes more than once; `Crash` drops it. `codes` and `tokens` are rows in order, and a
family is named by the place of its first token. Clients present what they were given (`given`);
a verifier, a key and a signature are right or wrong. `rotated`, `withdrawn`, `replayed` and
`mistaken` are ghosts. The server checks no token type at a refresh: an access token is taken for
a refresh token, and then its family has two that work (`mistaken`). A token that was used and
then revoked by hand does not end its family when it comes again. A crash in the middle of a
refresh leaves a client with a used token, and its next try ends its family. A device code can be
exchanged as long as it is approved, and its tokens are stored nowhere; nothing in the code
promises otherwise.

### The allocator

`ThreadCache`: a call is one step, since a cache is touched by its own thread only; `heap` has the
size the system gave for each block, what it was asked for, and the bins. `Free` calls every block
one of class 0. `CentralArena`: every load, store and exchange of `PopBatch` and `PushBatch` is a
step, and a weak exchange may fail. `outdated` says that an exchange swapped in a link that had
changed since it was read (ABA), which the code does not prevent. `HazardPointers`: every atomic
access of `Acquire`, `Release`, `Retire` and `Reclaim` is a step. The code has no reader or writer
of its own: the usual ones (publish, look again, use; replace, retire) are external.
`Allocator` lets one of the three move in a behaviour: they share no state.

### Firewall

`inbox` is the packet each queue's thread works on; its `step` says whether the limiter or the
table comes next, and other threads, and expiry, run between. A packet has the stamp of its
arrival. Timestamps are subtracted modulo `Width`, as the code's unsigned ones. `history`,
`newest`, `spent`, `first`, `latest` are ghosts; `excused` is the set of subnets whose bucket was
given a stamp of 0 or an older one, which refills it. Entries are found by the tuple as it stands
in the packet, so what a flow's history holds came in one direction.

### QUIC

`QuicWire` is the varint and frame codec over bytes; the peer of `QuicEngine` encodes frames,
concatenates and cuts packets, and the engine parses them. `ProcessPacket` and `ReadStream` are
one step each: the engine locks only its table of streams. `out` and `got` are what was read and
what arrived, `shrunk` and `truncated` the two ways in which data goes wrong: a shorter slice
replaces a longer one at its offset, and a frame without a length ends where its packet was cut.
Retransmitted bytes are counted again and the count is compared with no limit.

### Libraries

`WasmRuntime` reads bytes as the parser does, section by section: `NextSection` and `NextItem` are
turns of its loops. The written side (`FileBytes`) is external: `IsSection` says which sections it
may hold, whose integers have one group of seven bits, in short or padded form, and the file is cut
anywhere. The compiled code returns its first argument. `ColumnReader` decodes pages that an
external writer packed, of whatever runs are `IsRun`, and prunes row groups; `NextRun` and
`NextGroup` are turns of the loops of `DecodeRLE`. `Open` makes up metadata and the readers make up
values, as the code does.
Widths above 8 lose bits where a group of eight is longer than the 64-bit buffer, although the
instruction speaks of widths up to 32: `ColumnsAreDecoded` claims all values up to 8 bits, and of 9
bits only how many values come back.
A filter drops rows of the second column that match it, since the made-up statistics begin at 100
and the made-up rows at 0: `PruningKeepsMatches`, which a run violates, is the promise, and
`OnlyLowRowsAreLost` says which rows the code drops. Groups that are kept are kept whole.

`VectorIndex` takes small integers for the floats, which hold them exactly, any codebook for what
training makes, and any level for the one that is drawn. `Insert` is the critical section; `graph`
grows row by row as the vectors of the code do. The heap of `SearchKNN` is the set of what it can
hold (`DropFarthest`), so that any of equally far candidates may be the one it drops.
`SearchKNN` compares all codes: the graph is kept but not walked. It names a vector by its
position, so an answer's ids are the callers' only if they inserted 0, 1, 2 ... in this order; the
threads of `tests/test.sh` do not, and never look at an answer. `AnswersAreNearest` says what the
answers are for any order, as long as the codebook is still the one of each insertion.
`BuildPQ` takes no mutex and trains in place, so it is a step that puts a blank codebook in place
and then one or more steps for each subspace (`TrainSubspace`: `training` is the subspace), between
which vectors are inserted and searched for. Left out are the quantizer freed while another thread
uses it, floats read half written, and two threads that build at once.

## Runs

| Run | Instance | Shows |
|---|---|---|
| `saga_safety` | every dependency graph over three steps and one undefined id, one step with a retry; a chain and a fork with `max_retries = -1`; two pauses or resumes; one crash at any point | order of execution and compensation, the outcome in the journal, agreement with the services, no late start, and refinement of `SagaTransaction` |
| `saga_liveness` | chain, fork, join, and a chain and a fork with `max_retries = -1`; two controls | a saga whose server stays up and that is not paused for ever ends, or waits for ever beside a step of negative `max_retries`; a failure ends compensated |
| `ledger_safety` | two accounts, two holds, one key, one thread, amounts 1 and 2, opening balances 0 and 2, one tick, four requests | holds are covered, rows explain balances, money is not created, keys and holds act once |
| `ledger_outcome` | same, with one hold | finding: a hold answered both captured and voided |
| `mvcc` | three transactions, one key: concurrent, six records, one crash; or one by one (`Serial`), eight records, two crashes; 5.2 million states | flush and commit durability, stable snapshots and own writes with threads interleaved at every append and flush; recovery, over a log that an earlier recovery extended too |
| `mvcc_aborted` | three transactions of a user who recovers first and writes only in open transactions (`TidySpec`), eight records, two crashes | finding: an aborted write that recovery brings back |
| `raft_votes` | three nodes, two threads (symmetric), two terms, one partition, indices up to 2, two calls by a winner's user; 1.2 million states | one winner per term, contiguous logs, requests that stay true, what a deadlock takes |
| `oauth` | two codes, six tokens, one request, device and proof, one crash; 1.5 million states | reuse ends a family, one refresh token, everything honoured once |
| `allocator` | three blocks, two threads, six sizes, caches of two; two nodes, two threads; three objects, three users, two records, reclaim at two | one owner and enough room for a block, one place for a node, no object freed in use |
| `network` | the filter: two TCP flows on two queues and another flow, one subnet, a table of one entry, five packets, four instants; or the QUIC engine: two streams of three bytes, three packets of any slices, other frames and cut ends; 3.9 million states | admission bounded by rate and burst, established by a handshake, live connections spared; streams refine `BytePipe`, nothing is dropped, finished means complete |
| `libraries` | modules of up to two sections of seven, padded or not, cut at every byte; widths 1, 3, 8, 9, two pages of up to two runs; filters over eleven bounds; three nodes on two layers, two vectors, a codebook trained before, while and after they are inserted, two results | modules and columns are read as written, which matching rows a filter drops, layers are connected, answers are nearest |
| `filter_matches` | as `libraries` | finding: a filter that drops rows that match |

Programs that share nothing are checked side by side where their instances are small: a behaviour of
`allocator`, `network`, `libraries` is one of a part, since the parts do not interleave.

Why the bounds are enough. Saga: the order properties speak of a step, a step it depends on and a
sibling, so three steps have a batch of two, a chain and a join; one retry is enough for a lost
first answer and a second effect; two controls make a pause with its resume, or a pause of a
finished saga. Ledger: a request holds one account, hold and key at a time, so a race needs two
holds on one account or one hold and a thread; four requests make an opening, a hold and two
operations that compete. MVCC: what a flush, a snapshot or a vacuum can get wrong takes a writer, a
reader and a third transaction whose records fall between theirs, and six records hold two writers
and the reader. Recovery differs with the number of unfinished transactions at a key, and two of
them below a finished one is the smallest case in which stripping matters: seven records, so the
serial part of the run has eight, since recovery reads only the log and not who waited for whom. Two
crashes make a recovery over a recovered log. Keys do not interact except in the log, where a
second key adds records and no case. Raft: two terms and two threads make competing elections, a
candidate that hears from the winner of its own term, and two elections that wait for each other;
an index below and one above a snapshot need two indices; two calls are a snapshot and entries
after it. OAuth: six tokens are an exchange and two refreshes, the case in which an old token comes
after its successor was used; a second code makes a second family; devices and proofs share no
table with codes and tokens, and the constraint `Apart` leaves out their interleavings. Allocator:
a cache of two is full with a third block; two nodes are enough for ABA and for chains; a writer, a
reader and a second writer whose scan overlaps need three users, and two records make a scan that
has passed one. Firewall: five packets are a handshake, one of another flow and one late; a table
of one entry is full with one. QUIC: three packets are two slices that overlap and one that
repeats. Decoders: two sections put an unknown or cut one before and after a known one; two runs put
each kind before and after each, and leaving out the last three values (`Short`) ends a page within
a run; widths 8 and 9 are on the two sides of the buffer's limit. Vector index: three insertions are
a first entry node, one above it, and one below or beside both; two results of three drop one, and a
codebook built over at most one vector (`MaxBefore`) leaves two to be inserted while it is trained
or after. For most of these the theorems below make the question moot.

The bounds that stop behaviours (`MaxControls`, `MaxRequests`, `MaxTime`, `MaxLog`, `MaxCrashes`,
`MaxTerm`, `MaxIndex`, `MaxSends`, `MaxCodes`, `MaxTokens`, `MaxPackets`, `MaxArrivals`, `MaxPages`,
`MaxRuns`, `MaxSections`, `MaxLevel`, `MaxResults`, `MaxBefore`, and `ShortLog` and `FewCrashes` of
`MCMvccWal`) are guards or ranges: states at the bound are still checked, and no property says that
something happens beyond it. `CHECK_DEADLOCK FALSE` is set where a behaviour may stop: a finished
saga, a spent bound, a file that is read, ticking threads that wait for each other.

Fairness is assumed only in `saga_liveness`: weak fairness of `run_saga`, of compensation, of each
`exec_step` and of each `comp_step`. The event loop runs every coroutine that is ready, and every
HTTP call has a timeout, so each of these happens once it stays enabled. Clients, late requests
and crashes are not fair. A saga that a crash left behind is exempt: startup resumes nothing, and
`SagaEnds` says so by its `"lost"`. So is a saga that waits for a step of negative `max_retries`:
`exec_step` makes no attempt, writes nothing, and `run_saga` polls for ever; the run has such
payloads, and `SagaEnds` names what such a saga looks like (`NeverAttempted`). The other programs
promise nothing that must happen: Raft elects nobody, lock-free loops may fail for ever, and servers
wait for clients.

## Proofs

`DagSagaProofs`, for any set of steps, any payloads and any number of controls:

- `TypeCorrect`: `TypeOK` is an invariant.
- `SafetyInvariant`: `SafetyInv` is inductive given `TypeOK`. `DependencyOrder` alone is not:
  that the completed dependencies of a completed step stay completed needs compensation to start
  after the last batch (`GatherMembers`), and only to compensate leaves. `CoroutinePhase` ties the
  place of the coroutine to the journal, and `StepsFitPhase` the statuses to the journal. One step
  per action. `StepsRunInDependencyOrder` and `JournalTellsTheOutcome` follow.
- `NothingStartsLate`: the action property `NoLateStart`, from the same invariant.
- `EffectsInvariant`, with it `ServicesAgreeWithSteps`: for a step with no lost answer, its effects
  are a function of its status, and only what took effect is undone. `EffectsInv` adds where the request
  to compensate is: in the service, in the network or nowhere, and sent once.
- `OrchestratorImplementsTransaction`: `Spec => Transaction!Spec`, each action matched with one
  of `SagaTransaction` or a stutter.

`LedgerProofs`, for any accounts, holds, keys, threads and amounts (all positive, as the request
models demand), and with the id sets disjoint:

- `TypeCorrect`, with, as part of it, that a hold's account exists.
- `LedgerInvariant`: `Existence`, `KeyInv`, `HoldInv`, `BalanceInv`. Each says where one key, hold
  or account stands by the program counter of the request that works on it: between debit and
  credit a balance is short by `Drift`, a key is unremembered with one debit, a hold is active
  with one debit. Keys, holds and accounts of cut requests are exempt, and `cut` only grows.
- `RetriesAreSafe`, `CapturesAreSafe`, `BalancesAreExplained`: the run's properties
  `KeyMovesMoneyOnce`, `HoldIsDebitedOnce`, `LedgerExplainsBalance`.
- `HoldsStayCovered`: `HoldsAreCovered` is not inductive, for a debit runs after the check that
  allowed it. `ClaimInv` keeps what the check found: a request between check and debit may still
  take its amount besides the account's other active holds. Only `InsertHold` ties up more.
- `MoneyOnlyMoves`: `MoneyInv` adds to the total of balances the amount of a request between its
  debit and its credit, and to the rows' total that of one between its two rows.

The last two are about sums over sets, and need the sets of accounts and holds to be finite
(`IdsAreFinite`), as a table is. A sum is a fold; the lemmas at the head of the module show that it
satisfies its recursive definition for any order of choices, then what one changed term does to it.

`RaftProofs`, for any nodes, threads, terms and partitions, and any quorums that meet pairwise.
Since a node may vote twice, `ElectionSafety` does not follow from "one vote per term". The
invariant `Decided` says of each term that either nobody has voted twice yet and those still in
the term remember their vote (`Unique`), or a quorum voted for one candidate and can no longer
forget it (`Settled`): only a candidate forgets, only when it hears from a winner, and the winner
needed that very quorum. `LogsAreChains` rests on an invariant of each log and snapshot.
`RequestsHold` needs that one thread at most holds a node (`Asking`); with it,
`DeadlockIsBetweenElections`: a thread that waits to tick waits for an election, and an
election that waits, waits for the node of another.

`OAuthProofs`, for any number of codes, tokens and crashes. `Families`: a family is named
by its first row. `Rotation`: a rotated token is "used" until its family is over, and a grant runs
only in a family where no reuse was seen, so that the tokens it is about to insert do not revive
one. `Single`: a family has no working refresh token while its grant runs. `Marked`: what a
successful answer leaves in the tables. They give `ReuseEndsFamily`, `RotationLeavesOne`,
`HonouredOnce`.

`AllocatorProofs`, for any threads, blocks, objects, nodes, records, requests and thresholds:

- `HazardInv`. `Protected` is the point of the algorithm: while an object is in use, whoever scans
  for it has not yet passed the record that holds it. It needs `Fresh` (what is in the cell has not
  been retired, so that a reader that sees its object again published it before any scan for it
  began) and that a record in use has one owner. `ObjectsInUseStay` follows. `Replace` demands
  that a new object has not been retired.
- `Good`: only the bin of class 0 ever holds a block, the counts are the lengths, and `Fit`: the
  blocks of all caches are distinct, none is in use, and every block that the system gave has at
  least the size of a list node, so a request of class 0 fits in whatever is cached. `BlocksSuffice`,
  `OwnersAreUnique`.
- `Placed`: the links from the head on make a sequence of distinct nodes (`IsStack`), each node is
  in that sequence or with a thread and never twice (`Apart`), and the nodes of a chain about to be
  pushed are linked in order, the last of them to the head that was seen (`Chained`). An exchange
  that succeeds with a link still as it was read takes the first node off that sequence or puts a
  chain before it. `NodesKeepOnePlace` follows, up to the first outdated exchange.

`MvccWalProofs`, for any transactions, keys, log length and crashes:

- `Lsns`: LSNs start again with a process, but those of its own records, and the mark, are below the
  next one. `Traces`: a committing transaction has its COMMIT in the log. `MarkIsOnDisk`,
  `AckedCommitsStay`.
- `TypeCorrect`. Its hard case is `Recover`: the chains it builds are typed by induction over the
  log, what undo strips from them by induction over the transactions.
- `IsolationInv`. `Stamps` says that the transactions of a process read at one timestamp and
  commit at the next, under ids of their own, and those not begun wrote nothing; with it, a version that another
  transaction wrote is one nobody reads. `OwnWritesAreRead`, and the action property
  `SnapshotsAreStable`: a write changes what its own writer reads at its own key, and nothing else.
- `RecoveryIsExact`, the action property `RecoveryRestores`. After redo a chain mirrors the log
  (`Mirrors`): all writes to the key, the newest first. Undo of one transaction drops the versions
  at the front that are its own (`Strips`), and so, whatever the order of the losers, nothing from
  the newest finished write on, and all before it if one loser wrote them all (`Ahead`). What is then on
  top is the newest finished write; it is the newest committed one unless `AbortedLast` or `Reopened`.

`LibrariesProofs`, for the index, for any vectors, ids, levels and codebooks of one byte's centroids:

- `IndexInv`: as many layers as the top level says, the entry node on each. `LayerInv`: an edge is
  as often at both its ends, only nodes are listed, and an edge leaves every part of a layer that is not all
  of it, which is what connectedness is. `GraphStaysConnected`.
- `CodesInv`: each code is that of the vector inserted then. `IsTop` is the invariant of the queue
  of `SearchKNN`: after n nodes it holds k of them, or all if fewer, and leaves none out that is
  nearer. `SearchIsExact` adds that a table of distances gives the distance to the named centroids.
  While a codebook is trained the same holds of whatever state it is in.
- `FilterLosesLowRows`: which matching rows are dropped, for the bounds of the run and for any integers.

`LibrariesProofs`, for the column reader, for any runs that fit a width, any number of pages, and
counts that end anywhere. The invariant is the property itself, given the types of `ColumnReader`;
the work is in what a page is read as:

- Digits: a number is what its digits say, and has those digits again (`Number` and `Digit` are
  inverse below `base ^ n`), by induction over the digits.
- Values side by side: bit `k` of the packed bytes is bit `k % width` of value `k \div width`, so the
  64-bit buffer of `Unpack8` has the bits of its eight values if they are eight bytes or fewer.
- Runs: a header is read as it was written (one group or two), and `NextRun` takes exactly the bytes
  of a run and adds its values, or the first of them if there is room for no more. `PackedRun` does so
  group by group; at nine bits it still takes and adds as many.
- Pages: after n turns `DecodeRLE` has decoded the first n runs, or the room was used up and it stays.
  `ColumnsComeBack`.

`LibrariesProofs`, for the runtime, for any sections that are `IsSection`, any number of them, any
names, and a file cut anywhere:

- Integers, short or padded, and counted bytes are read as written, whatever follows. So are the
  four kinds of item, and by induction over the turns of `ReadItems` all items of a section; of a
  section with another number nothing is read.
- A section that is whole is added to the module by `NextSection`, which goes on behind it. One that
  is cut in its length or its payload is refused, for its length, even half of one, is more than is
  left; but of one cut to its number the length is read as zero and nothing is added, so the module
  is accepted without it (`SectionCut`). This is why `ModulesAreRead` lets a file that ends in half a
  section be refused or not.
- Files: a file cut anywhere is its whole sections and what remains of the next, and `Parse` makes of
  it `Meaning` of those sections, or nothing (`ReadBack`). `WasmInv` carries that through `Instantiate`,
  whose table has the exported names, each with `ReturnFirst`, and `Invoke`. `ModulesAreReadBack`.

`NetworkProofs`, for the firewall, for any flows, queues, rates, sizes and timeouts, if the clock
stays away from the width of a timestamp. `Balanced`: what a bucket holds and let through is at most
its burst and what came since. `Tracking`: an entry's state is explained by the packets since it was
made, and its stamp is the newest of them. `Queued`: packets of a flow wait in one queue, in order,
which keeps `seen` from going back. `RatesAreKept`, `HandshakesEstablish`, `LiveConnectionsStay`.

`NetworkProofs`, for the QUIC engine, for any streams and sizes of at most 62 bits and any number
of packets:

- `VarIntsRoundTrip`: `Decode` inverts `Encode`, whatever bytes follow; an integer without its last
  byte is refused (`DecodeCut`).
- `PacketsHoldSlices`: the frames that the parser finds in a packet of the peer. With all its bytes a
  STREAM frame is parsed back (`WholeFrame`); without the last one it is refused in its header, or, if
  it does not say its length, taken for one that ends with the packet (`CutFrame`). The loop over
  frames then meets only what those lemmas describe (`Closed`, `FramesAre`).
- `QuicInv`: all segments are bytes of their stream at their offsets (`Segments`), what was read is
  what precedes the read offset, the announced end is the end unless a packet was cut, and nothing
  is dropped. `TurnIs` is the invariant of the loop of `Read`: what it has taken follows what was read
  before, and each segment it erased ended there. `StreamsImplementPipes` is the refinement of
  `BytePipe`, where packets, and reads that give nothing, are stutters; `NothingArrivedIsLost`;
  `FinishedMeansComplete`.

The assumptions are those named in the modules (`StepAssumption`, `LedgerAssumption`,
`RaftAssumption`, `OAuthAssumption`, `CacheAssumption`, `ArenaAssumption`, `HazardAssumption`,
`VectorAssumption`, `FirewallAssumption`, `QuicAssumption`, ...), and TLC evaluates each.

Induction. The library's induction rules take an operator for a parameter, which the provers cannot
instantiate. What needs induction here is stated with sets instead: a set of naturals with 0 and
every successor is all of them (`NatSetInduction`), a family of subsets of a finite set has a
smallest one, both from the well-foundedness that the library does state for relations. On these rest `UpTo`
(what holds of 0 and of each position after it) and `StepwiseExists` (a function defined step by
step exists, so a recursive function has the value its definition says).

Only model-checked: `SagaEnds` and `FailureIsCompensated`, which are liveness, outside what the
prover is used for here. Every other property of the passing runs is a theorem.

## Findings

- `ledger_outcome`: `void_hold` checks and updates in two statements beside a capture that does the
  same, and clients are told both that the hold was captured and that it was voided.
- `mvcc_aborted`: recovery redoes the writes of aborted transactions, those that an earlier recovery
  rolled back included, and undoes only the active ones.
- `filter_matches`: the second column's statistics are 100 to 10999 and its rows 0 to 9990, so a filter
  that ends below 100 drops the rows that match it.

Other facts of the code that the properties except, each by a ghost or a clause that names it:

- Pause and resume journal `running`/`paused` whatever the status was, so the journal's rows do not
  chain (saga, solve.sh:255).
- `comp_step` marks a step compensated whatever came of its request: the saga is journaled
  compensated while a compensation that timed out is still to take effect, or was refused (saga,
  solve.sh:196-201). `EffectsMatchSteps` excepts such steps (`unsure`).
- A commit stamps none of the versions it wrote (`transaction.cpp:25`), so no other transaction of
  the process sees them, though `tests/test_basic.cpp:16` of the program's environment expects it.
- Undo takes the versions of each active transaction off the front of a chain, once for each, in any
  order (engine, solve.sh:90): a version under another active transaction's stays and everybody sees
  it. `instruction.md:41` says that their changes are undone.
- After a recovery the next id can be one of the log (engine, solve.sh:58). If the second transaction
  of that id is active at the next crash, the first, which committed, is undone with it.
- A group of eight values of nine bits is 72 bits long and the buffer 64 (columns,
  `bit_unpack.cpp:10`), so the last value is cut; `instruction.md:20` asks for widths up to 32.
- `capture_hold` never looks its destination up: money captured to an account that does not exist
  goes to no account (ledger, solve.sh:205).
- A step of negative `max_retries` is never attempted, and its saga polls for ever (saga, solve.sh:151).
- The Raft, OAuth, allocator, firewall, QUIC, column and index facts given with their models above.

## Not modelled

In the saga: reads (`get_saga`, the journal endpoint), which change nothing, and the
Idempotency-Key header of the Spec, which the code ignores. In the ledger: the answer of
`get_account`, whose balance and reservations may come from two moments, and reconcile's signature.
In the engine: a record torn by a crash, `Truncate` (empty in the code) and the B+Tree of the Spec,
for which the code uses an ordered map. In the authorization server: the table of clients, which
nothing reads, introspection and user information, which change nothing. In Raft: the code of a
leader, which nothing reaches. In the allocator: requests that the system refuses. In QUIC: callers
that push and read one stream at once, which the code forbids by not locking. In the index:
k-means, and the SIMD instructions other than by what they compute. In the decoders: integers of
more than 28 bits, and input that makes the code read past its end. The other components are not
modelled, for the reasons in the inventory.
