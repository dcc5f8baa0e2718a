# TLA+ models of the swell consensus node

This directory holds TLA+ models of the Go code under `src/`. TLC checks every
model. The core of the repository is the block production engine:

- the instruction pool;
- the block builder, with its owner and feeder goroutines;
- the block admission gate;
- the checkpoint computation;
- the epoch-windowed event broker that feeds the pool;
- the byte encodings of blocks and events, and the framing of client connections;
- the (drafted) candidate pool and finality step;
- the connection maps of the peer, validator and gateway networks.

`PROJECT.json` is the machine-readable index of this directory. It lists:

- the components and their status;
- every TLC run and what it is expected to show;
- the mutants that each checked property must detect;
- the source lines that each definition models (`map`);
- the findings;
- the hazards of the code.

## 1. Inventory of the system

| Part | Source | State | Operations | Interacts with |
|---|---|---|---|---|
| Instruction pool | `src/consensus/pool.go` (copy: `src/events.go`) | `queue []Hash`; map hash→instruction; mutex | `Unqueue`, `Queue`, `Delete`, `DeleteArray` | intake queues; the builder's feeder unqueues; the builder's owner requeues |
| Block / admission gate | `src/block/block.go` (older copy: `src/block.go`) | header fields, `Transactions`, bound `MutatingState` | `NewBlock`, `Incorporate`, `Sign`, `Serialize`, `ParseBlock` | the builder calls `Incorporate`; peers parse blocks |
| MutatingState | interface only, in `src/block/block.go` | committed state plus overlay (external) | `Validate`, `Mutations` | `Incorporate`, checkpoint |
| Checkpoint | `src/consensus/blockchain.go` | `BlockChain{CommitedEpoch, RecentBlocks, ...}` | `GetLastCheckpoint` | builder input |
| Block builder | `src/consensus/signed_block.go` | `running`, `cache`, channels `communication`, `valid`, `finished`, ticker | owner: select on tick or request, incorporate, seal, requeue; feeder: check, unqueue, cache, send, wait, pop | pool, block |
| Received-block validation | `src/consensus/validate.go` | none | `ValidateBlock` | parser, block |
| Candidate pool / finality | `src/consensus/consensus.go` (commented out) | `CandidateBlocks`, signatures | `PushNewBlock`, `AppendSignature` (drafts) | checkpoint |
| Event broker | `src/p2p/gateway.go`, `src/p2p/node.go` | `recentHashes [100]map`, `currentEpoch` | receive hash; new epoch signal | intake server, node's checkpoint loop |
| Serialization | `src/util/serialization.go` | none (pure) | `Put*`, `Parse*` | block and message formats |
| Transport and networks | `src/p2p/*.go`, `src/trusted/*.go`, `src/network/*.go` | connection maps | accept and dial loops; read and write messages | broker, node |

**The hard behaviours.** The code has these:

- Two goroutines share `running` and `cache` without a lock.
- An unbuffered rendezvous on `communication` and `valid`.
- A deadline that races in-flight admissions.
- An unlocked length read in `Unqueue`.
- Stale hashes left in the pool's queue.
- A sliding window of per-epoch hash sets.
- A panic on an out-of-sequence epoch.
- Recursion over `RecentBlocks`.
- Byte-layout round trips.

## 2. Plan

The modules are built in this order. ✔ marks a module that is on disk.

1. ✔ `EventsPool`, with the abstract specifications `PoolAsSet` and `PoolAsFifo` and the refinement check in `MCEventsPool`.
2. ✔ `BlockBuilder`. It composes `EventsPool` (through `INSTANCE`), the admission gate (`Incorporate` over an abstract validator) and a network intake.
3. ✔ `Checkpoint`. `GetLastCheckpoint` is a recursive operator, checked against a reference definition in `MCCheckpoint`.
4. ✔ `EventBroker`: the dedup window and the epoch signal.
5. ✔ `Serialization` and `BlockCodec`: integer and array encodings over byte sequences, and the block layout of both block packages.
6. ✔ `Intake`: the framing of `WriteMessage`/`ReadMessage` over a TCP stream, and the instruction server's handler.
7. ✔ `Finality`: candidate blocks, stake quorum and `RecentBlocks` ordering, taken from the commented drafts plus spec.md §4.5, composed with `Checkpoint`.
8. ✔ `ConnMaps`: the goroutines that share the p2p connection maps without a lock.
9. The network message formats of `src/p2p/types.go` and `src/trusted/routing.go` over `Serialization`.

## 3. Modules and their correspondence to the code

### EventsPool (`src/consensus/pool.go`)

The variables:

- `queue` is the hash slice.
- `events` is the key set of the map. A hash stands for its instruction.
- `out` is the last `Unqueue` result.

The actions:

| Action | Code | What it models |
|---|---|---|
| `Unqueue` | lines 27-37 | The locked scan. |
| `UnqueueEmpty` | lines 24-26 | The unlocked early return. That length read races with `Queue`, so it is enabled in every state. |
| `Queue`, `Delete`, `DeleteArray` | their methods | Each method holds the mutex for its whole body, so it is one step. |

`Delete` and `DeleteArray` are not called anywhere in the repository. They are still modelled because finality is meant to call them.

`PoolSpec` has weak fairness on `Unqueue`. This is justified because the feeder calls `Unqueue` in a loop for as long as it runs.

`PoolAsSet` is the weakest contract: a pending set, where dequeue returns some pending event. `PoolAsFifo` is the FIFO of spec.md §4.1. `MCEventsPool` maps the implementation onto each of them:

- `pending <- events` for the set;
- `pending <- LiveOrder`, the first live copy of each hash in queue order, for the FIFO.

### BlockBuilder (`src/consensus/signed_block.go` 66-109, `src/block/block.go` 39-45)

Each goroutine's position is a program counter:

- `fpc` ranges over `FeederPC`, which follows lines 91-104.
- `opc` ranges over `OwnerPC`, which follows lines 75-84.

The unbuffered send on `communication` is one rendezvous step, `OwnerReceive`. The reply on `valid` is part of `OwnerIncorporate`, because the feeder is already waiting in `<-valid`.

The shared variables:

- `running` and `cache` are plain shared variables. Each read or write is its own step, so a goroutine may act on a value that the other has since changed.
- `requeue` is the owner's copy of the slice header taken by `range cache` (line 79).
- `deadline` is a tick ready on `stop.C`. The tick may arrive at any time.

`Validate` comes from spec.md §4.3, because no `MutatingState` implementation is in the repository. An instruction is admissible when both of these hold:

- it is not already applied, in `Base` or in the overlay;
- it does not conflict with an applied instruction.

History variables record facts that the properties need:

- `delivered`: the caller has received the block;
- `taken`: the instructions the feeder unqueued;
- `rejected`: the instructions the validator refused.

Intake submits each instruction at most once, so that a duplicate in the pool can only come from the builder.

### Checkpoint (`src/consensus/blockchain.go` 27-54)

`Sequential` is the recursive form of the contiguity loop (lines 38-45). `GetLastCheckpoint` returns the resulting epoch, hash and grouped mutations. `GroupBlockMutations` lives in an external package, so it is modelled from spec.md as the union of the blocks' mutations.

### EventBroker (`src/p2p/gateway.go` 62-107)

The variables:

- `recentHashes` is the window of sets. Index `d+1` holds `recentHashes[d]`.
- `currentEpoch` is the current epoch.
- `forwarded` is the sequence of events sent on `comm.Events`, each tagged with the epoch at which it was sent.
- `crashed` records the panic of line 98.

The actions:

- `Receive(h)` is the `broker` case, lines 78-94. An event's epoch is the fixed `EventEpoch[h]`; 0 stands for a malformed event, which `Event.Clock` maps to clock 0.
- `NewEpoch(n)` is the `newBlockSignal` case, lines 95-102. It receives any epoch from the current epoch up to `MaxEpoch`, so both the panic and the shift are reached.

The file does not compile as written: `hashInst.epoch`, `transaction` and `nonpeer` are not declared. The model takes the evident intent.

### Serialization (`src/util/serialization.go`, `Event.Clock` of `src/events.go`)

Every encoder and decoder is a pure operator over a sequence of bytes; a
parser takes Go's 0-based position and returns `<<value, position>>`. A byte
is a digit of base `ByteBase` (256 in the code): `byte(v)` is `v % ByteBase`,
`v >> 8k` is `v \div ByteBase^k`, and the array length cap `1<<16-1` is
`ByteBase^2 - 1`. With `ByteBase = 2` the cap is 3, so the empty array, the
longest array, truncation and the uint16 wrap are all a few bytes long.
`time.Time.MarshalBinary` (outside the repository) is abstracted to a
version byte 1 and `TimeLen - 1` bytes; `ParseTime` panics when the bytes
are not of that form (`TimePanics`). `Event.Clock` reads byte 0, then the
length, then `ParseUint64` at offset 1.

### BlockCodec (`src/block/block.go` 51-107, `src/block.go` 23-74)

`SerializeWithoutSignature`, `SignedBytes` (Sign then Serialize) and
`ParseBlock` of the current package, and the `Root*` operators for the older
root package (no fees, epoch named Clock, an inline count check). The
signature scheme is its contract: `Verify` holds exactly when the publisher
signed exactly those bytes. A parse has three outcomes: a block, nil, or a
panic.

### Intake (`src/p2p/conn.go` 20-52, `src/network/instructions_server.go` 54-68)

One client connection. The client writes frames (`Write`: nonce, 4-byte
length, sealed event) and may close (`Close`); TCP delivers a prefix of the
byte stream (`Deliver`), at frame boundaries or anywhere when `Segmented`.
The handler's `hpc` follows `ReadMessage`: one `conn.Read` per part
(`Read`), which returns what is available, so a short read yields
`(nil, nil)`; `Open` authenticates exactly one frame; `Hand` computes
`Event.Clock` (panicking on nil or empty data, `crashed`) and forwards the
event. Only byte counts are kept, not the bytes themselves. The body's
size is taken from the frame that was written: the little-endian length
that `WriteMessage` encodes (conn.go:25) and `ReadMessage` decodes
(conn.go:42) agree, so their composition is the identity. Therefore
`NeverCrashes` is checked only where it can fail, in `intake_crash`, with
split frames and an empty event; with whole frames and no empty event it
would hold by construction.

### Finality (`src/consensus/consensus.go` 72-121, `blockchain.go`, `signed_block.go`)

`candidates` is `CandidateBlocks` (epoch → list of signed blocks), `recent`
is `RecentBlocks`; a signed block is its block and its signers' tokens.
`PushNewBlock(b)` keeps the draft's control exactly: the append to an
existing epoch goes to a local copy and is lost; `GetConsensus` is asked
about the map's list; on consensus the pushed block is appended, the epoch
deleted, and `sort.Sort` (not stable) gives any epoch-sorted permutation.
`AppendSignature(h, v)` appends a token to the candidate with hash `h`
unless it already signed. `GetConsensus` is the spec.md §4.5 quorum:
signers' `Deposited` stake × 3 ≥ 2 × `TotalStake`. `Current` is
`GetLastCheckpoint` of `Checkpoint` over `RecentBlocks`.

### ConnMaps (`src/p2p/conn.go` 74-118, `src/p2p/validators.go`, `src/p2p/listeners.go`, `src/p2p/node.go` 28-50, `src/trusted/routing.go` 19-67)

There are four maps of connections, each shared between goroutines; only
the last is locked:

- `pool` is the map `ConnectTCPPool` returns. One dialer goroutine per
  trusted peer (`Dial`: `ConnectTCP` gives a connection or nil) sends on the
  unbuffered `resp`. The collector receives (`Collect`), counts down
  `remaining`, stores a non-nil connection and stops at zero
  (`CollectCheck`). NewNode wraps the map as the `ValidatorNetwork` whose
  `Broadcast` the event broker calls (`BroadcastBegin`/`BroadcastEnd`).
- `attendees` is the gateway network's map. The accept goroutine stores
  each connection that passes the handshake (`Accept`). The write loop takes
  a block and ranges over the map (`GwRangeBegin`, `GwSend`, `GwRangeEnd`),
  deleting an attendee whose write fails.
- `network` is `NewValidatorNetwork`'s map. The accept goroutine and one
  dialer per address (`VDial`) store a connection. Each then runs
  `handleValidatorConnection` inline until the remote side closes
  (`Close`, `HandleReturn`), so the accept loop takes no one else meanwhile.
- `outbound` is the trusted router's map (`src/trusted/routing.go`). Its
  listener loop stores each accepted connection holding `router.mu`
  (`RouterLock`, the store, `RouterUnlock`). The router's termination loop
  waits on `router.terminate`, which nothing in the repository sends on,
  so it is not modelled.

A map store and a range loop are intervals (`WriteBegin`/`WriteEnd`,
`...Begin`/`...End`) recorded in `inside`, because Go map operations are not
atomic with respect to each other. Dial, handshake and write outcomes are
nondeterministic. Message contents are not modelled.

## 4. Runs

| Run | Expect | Properties | Shows |
|---|---|---|---|
| `pool_safety` | pass | `TypeOK`, `MapCoveredByQueue`, `SetRefinement`, `EventuallyServed` | The pool never loses a live entry, implements the set contract, and serves every entry while the feeder runs. |
| `pool_fifo` | violation | `FifoRefinement` | A hash re-queued behind its own stale copy is served out of order (finding 4). |
| `builder_safety` | pass | `TypeOK`, `SealedBlockFrozen` | After the owner hands the sealed block over, no admission changes it, whatever the feeder has in flight. |
| `builder_requeue` | violation | `EventConsumedOnce` | The builder does not consume each event exactly once (spec.md §3, §7, §8). An instruction unqueued after the final requeue is lost, and the feeder blocks for ever (finding 1). An admitted instruction is requeued when the deadline wins the race with the cache pop (finding 2). A refused instruction stays in the cache and is requeued instead of discarded, as §4.4 describes but §3 and §7 forbid (finding 3, a contradiction within spec.md). TLC reports the first trace; the others appear when their conjunct is checked alone. |
| `checkpoint_reference` | pass | `CheckpointMatchesReference` | `GetLastCheckpoint` equals the longest contiguous run after the committed epoch. |
| `broker_cross_epoch_dedup` | violation | `NoDuplicateForward` | After an epoch advance, the window forgets the current epoch, so a hash is forwarded twice (finding 5). |
| `serial_roundtrip` | pass | `IntegersRoundTrip`, `ByteArraysRoundTrip` | Integers and byte arrays read back as written, arrays cut at the cap, uint16 wraps, `Event.Clock` reads version-0 clocks. |
| `block_roundtrip` | violation | `BlockRoundTrip` | No serialized block parses back to itself, in either package; the parse returns nil or panics (finding 6). |
| `intake` | pass | `TypeOK`, `AllForwarded` | With whole-frame delivery the handler keeps reading and forwards every event written, in order. |
| `intake_crash` | violation | `NeverCrashes` | A frame split by TCP makes `ReadMessage` return nil with no error, and an empty event is accepted; either way `Event.Clock` panics in the handler (findings 7, 8). |
| `finality_checkpoint` | violation | `CheckpointMonotone` | An epoch is finalized twice, the second time with a block nobody signed, and the checkpoint moves back (finding 9). |
| `conn_maps_race` | violation | `NoMapRace` | The gateway's accept goroutine stores an attendee while the write loop ranges over the map, four steps from start (finding 10). The collector against `Broadcast`, and the validator network's writers, race the same way. |

`BlockAdmissible` (the block holds no replayed or conflicting instruction)
is not checked: it restates the validator guard in `Incorporate`
(block.go:40), and that guard is taken from spec.md §4.3.

Some checks were tried and are not kept as runs, to keep one run per
question that matters for the running node; their hazards are listed in
`PROJECT.json` with a note:

- the token-cipher round trip, which fails on the empty list;
- deduplication of signatures in `AppendSignature`, which would restate its guard.

Every property of a passing run has a mutant in `PROJECT.json`: a plausible bug in the code it is about, which TLC must then report. Examples:

- skipping one extra queue position;
- dropping the map check in `Unqueue`;
- returning to `select` after sealing;
- an off-by-one epoch comparison in `Sequential`;
- reading a uint64 big-endian, or an off-by-one array bounds check;
- reading a frame without its seal overhead, or keeping the seal's tag.

### Bounds

| Model | Bounds | Why they are enough |
|---|---|---|
| Pool | 3 hashes, a queue of at most 4 | This reaches stale copies, duplicates, a deleted head and a re-queue behind a stale copy. |
| Builder | 3 instructions, one conflicting pair, one already applied; a pool queue of at most 3 | Every instruction can be admitted, refused as a conflict, refused as already applied, or caught by the deadline at any point of the feeder's loop. The counterexamples need 2 instructions. |
| Checkpoint | epochs 0..5, 2 hashes, RecentBlocks of length at most 3 | This covers the empty list, a gap at the start, a gap in the middle and a full run. |
| Broker | a window of 3, epochs 1..4, 2 well-formed events and one malformed event | This covers an event at the edge of the window, the epoch advance and the panic on a skipped epoch. |
| Serialization | `ByteBase = 2` (cap 3), arrays up to 4 bytes, every 64-bit value of 8 binary digits, after an empty or a one-byte prefix | Every branch of the integer and array parsers is reached: empty, at the cap, over the cap (truncated), short data. |
| BlockCodec | epochs {0, 3}, zero and non-zero parent and publisher, up to one instruction | Every block fails the round trip, so the smallest blocks suffice; they reach both the nil and the panic outcome. |
| Intake | 2 messages of 1-byte events, 1-byte nonce and seal overhead | Two frames make alignment across frames matter; a split can fall in every part of a frame. |
| ConnMaps | 2 trusted peers, 2 gateways, one inbound and one dialed validator, one client of the trusted router, one broadcast and one block | Every goroutine of every map runs, and each pair of accesses can overlap. The race needs only one access per goroutine. |
| Finality | 2 blocks for epoch 1, one for epoch 2, 3 validators of stake 1 (quorum 2), RecentBlocks up to 3 | Competing candidates, a quorum, a repeated epoch and a reorder by the sort; the counterexample needs 3 finalizations. |

### Fairness

- `PoolSpec` assumes weak fairness on `Unqueue`, from the feeder's loop.
- The builder has no fairness. Its properties are safety properties. Its runs set `CHECK_DEADLOCK FALSE` because one builder cycle really ends: the owner returns and the feeder exits, or blocks in the lost-instruction case.
- The broker stops at `MaxEpoch`, and after a panic, so it also runs with `CHECK_DEADLOCK FALSE`.
- `Intake` assumes weak fairness on `Deliver` (TCP delivers what was written on a live connection) and on the handler's steps (its goroutine runs a loop with nothing else to wait on). It stops when the connection closes or after `MaxMsgs`, hence `CHECK_DEADLOCK FALSE`.
- `Finality` has no fairness: its properties are safety properties. It stops when `RecentBlocks` reaches its bound and every validator has signed, hence `CHECK_DEADLOCK FALSE`.
- `ConnMaps` has no fairness: its property is a safety property. The accept loops and the write loop really wait for ever once their inputs are used up, hence `CHECK_DEADLOCK FALSE`.
- The serialization and codec models have no steps: each initial state is one input.

## 5. Not modelled, and why

- **Handshake and encryption** (`src/trusted`, `PerformServerHandShake`). These are cryptography, and the handshake functions are not in the repository. `ConnMaps` abstracts the handshake to success or failure. `Intake` abstracts encryption to an overhead that authenticates exactly one frame. Of the trusted package, only the router's locked listener loop is modelled, in `ConnMaps`. Not modelled: the signed connections of `src/trusted/conn.go`, whose `Listen` has no caller and whose read loop repeats the framing of `Intake`; the router's termination loop, which nothing triggers; and `trusted/types.go`. Their hazards are listed in `PROJECT.json`: a panic on a short signed frame, a block description that never parses, and a `Listen` goroutine stuck on a nil channel.
- **Liveness of the networks.** `ConnMaps` models the inline handler that blocks the validator accept loop, and the collector that never ends when no peer is trusted. The run budget holds one property of the module, so neither is checked. Both are listed as hazards.
- **`ValidateBlock`.** It calls `SetValidator` on `ParseBlock`'s result, which `BlockCodec` shows is nil or a panic for every serialized block; its loop is `Incorporate`, modelled in `BlockBuilder`.
- **Commit of finalized blocks.** `IncorporateBlocks` is empty, so the committed epoch never moves in `Finality`.
- **Message formats** (`src/p2p/types.go`). Formatting only, with no state.
- **Root package types** (`src/blockchain.go`, `src/state.go`, `src/net.go`). Declarations only.
- **Wall-clock time.** Abstracted to the tick flag. A non-positive ticker duration, which panics at `signed_block.go:68`, is listed as a hazard.
