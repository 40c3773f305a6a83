# TLA+ models of arb-bridge-peripherals

This directory models the parts of the repository that a model checker can
explore. The centre is **ArbCore**, the execution engine of `arb-avm-cpp`.
Its implementation (`arbcore.cpp`) sits in this repository inside
`src/packages/arb-avm-cpp/cmachine/executioncursor_test.go` from line 84 on.
That file is called **F** below, and every line number refers to it unless
another file is named. The class declaration is `src/unnamed/part_001`
(`arbcore.hpp`).

## The system and how its parts interact

ArbCore is a single-writer core thread that owns a RocksDB database. Four
actors touch its state:

| Actor | Code | What it does |
|---|---|---|
| Feeder | `deliverMessages` F:204, `messagesStatus` F:152 | Puts one batch of inbox messages in a one-slot mailbox (`message_data_status`: EMPTY → READY → SUCCESS / NEED_OLDER / ERROR). A batch either appends or *reorgs*: it replaces the log from `reorg_message_count` on. |
| Core thread | `ArbCore::operator()` F:695 | Loops over four stages: (1) roll the machine back if its inbox state is no longer in the log (F:704); (2) take a READY batch through `addMessages`, which reorgs first if needed (F:722); (3) dispatch on the machine thread's status (F:745): SUCCESS saves the assertion's logs, sends and sideload and at a sideload also the sideload cache and a checkpoint; ABORTED is cleared; NONE reads the next messages and starts the machine or marks it idle; (4) serve every REQUESTED logs cursor (F:877). |
| Machine thread | `MachineThread`, not in this repository | Runs the VM over the staged messages and stops at each sideload (block boundary). |
| Logs-cursor consumer | `logsCursorRequest` / `GetLogs` / `ConfirmReceived` / `ClearError` F:1787–1924 | Pulls logs in order. It is told, through `deleted_data`, about logs it already received that a reorg removed. |

A **reorg** (`reorgToMessageOrBefore`, F:393) finds the newest checkpoint that
is at or before the target message and still valid, and deletes every
checkpoint above it. It then rolls each logs cursor back
(`handleLogsCursorReorg`, F:1704) *before* the logs go. Finally it deletes the
sideloads and the log references, resets `log_inserted` and `send_inserted`,
and reloads the machine from the checkpoint. These are three separate
transactions (F:462, F:1776, F:529), and other threads can run between them.
A restart runs `initialize` (F:223), which is the same reorg with
`use_latest` and runs in one go before any other thread starts.

## Modules

| Module | Models | Notes |
|---|---|---|
| `ArbCore.tla` | the feeder, the core thread (one action per loop stage), the machine thread, logs cursor 0 and its consumer, and crash/restart | the core of the project |
| `MCArbCore.tla` | the instance for TLC: two message contents and two log values | `m1` ends a block (sideload, so a checkpoint), logs `a` and sends once; `m2` logs `b` and sends nothing |
| `MessageReader.tla` | the message log's two columns (sequencer batch items, delayed messages) and its readers `getMessagesImpl`, `getNextSequencerBatchItem`, `isValid`, `getInboxAcc`, `getInboxAccPair` | readers are RECURSIVE operators; checked in every reachable log against a reference read |
| `ExecutionCursor.tla` | execution cursors and the sideload lookup, one caller thread against the core thread's appends, sideload saves and reorgs | every loop stage of `advanceExecutionCursorImpl` is its own step |
| `ValueCodec.tla` | the byte encodings of AVM values in `src/packages/arb-avm-cpp/avm/src/value.cpp` (called **V** below): full form, shallow (ValueStore) form, checkpoint form | encoders and decoders are RECURSIVE operators; the values are built by a small stack machine |
| `OutputStreams.tla` | what ArbCore promises of its log and send streams (spec §2 item 5, §4.5): they only grow, or go back together to a saved checkpoint | the abstract specification; `MCArbCore` maps ArbCore onto it |
| `MCMessageReader.tla`, `MCExecutionCursor.tla` | instances for TLC with two message contents | |
| `MCValueCodec.tla` | the instance for TLC: the `ValueTypes` tags, two-byte integers and pcs | |

### State of `ArbCore`

- **Persisted** (survives `CrashRestart`):
  - `msgs`: the sequencer batch items.
  - `checkpoints`: `MachineStateKeys` records.
  - `logsDb`: the log column.
  - `logInserted`, `sendInserted`.
  - `sendsDb`: the send column. A send is abstracted to the message history the VM had read when it emitted it. A reorg never erases sends (spec §4.5), so entries past `sendInserted` can be stale.
  - `refcount`: value-store reference counts per log value.
  - `sideloads`.
  - `curTotal`: `current_total_count` of logs cursor 0.
- **In memory**:
  - `machine`: the `MachineThread`, i.e. its output counters plus the pending assertion `aLogs` / `aSends` / `aSide`.
  - `machineIdle`.
  - `lastOutput`.
  - `sideloadCache`.
  - `mbox`: mailbox status and batch.
  - `corePc`: the loop stage, including the three reorg stages `reorgCursors`, `reorgLogs` and `append`.
  - `reorg`: the target checkpoint of a reorg in progress, and whether `addMessages` started it (`intake`). It is `None` outside a reorg.
  - `cursor`: `DataCursor` with `status`, `number_requested`, `pending_total_count`, `data`, `deleted_data`.
- **Consumer**: `cpc` (where it is in its request cycle) and `view` (the logs it believes are current).

### Abstractions

- The inbox accumulator of a count is the prefix of the message log itself, i.e. a collision-free hash. So `isValid` is a prefix comparison.
- One message costs one unit of gas, so checkpoint keys (gas) are message counts.
- A sideload's block number is the message count at which the VM stopped.
- Log values are model values. The value store is reduced to one reference count per value, and `deleteValue` saturates at 0. The spec says an underflow is fatal, and the violation found below happens before any underflow.
- `addMessages` and `MachineThread` are not in this repository. They are modelled from the spec: `addMessages` writes one batch over the log after the reorg, and the machine consumes one staged message per step.
- Database failures, and the `break` out of the core loop that follows them, are not modelled.
- `readNextMessages` keeps its padding, but the modelled machine ignores the default entries it is handed.

### Actions

- `DeliverMessages`, `MessagesStatus`
- `CoreCheckValid`, `CoreIntake`, `CoreMachineStatus`, `CoreLogsCursors`
- A finished assertion takes two steps, as in the code. `CoreMachinePublish` takes `nextAssertion()` and publishes `last_machine_output` (F:752–761). `CoreMachineStatus` then saves the logs, sends, sideload and checkpoint, evicts from the cache and commits (F:764–821). Readers on other threads can run between the two steps.
- The reorg's transactions: `CoreCheckValid` or `CoreIntake` runs the first (delete the checkpoints above the target), `CoreReorgCursors` the second (`handleLogsCursorReorg`), `CoreReorgRollBack` the third (sideloads, log references, counters, machine), and `CoreAppend` then writes the reorganising batch
- `MachineRun`
- `LogsCursorRequest`, `LogsCursorGetLogs`, `LogsCursorConfirmReceived`, `LogsCursorClearError`
- `CrashRestart`

The helpers carry the names of the functions they translate:

- `ReorgToMessageOrBefore`, `CursorReorg` (`handleLogsCursorReorg`). `ReorgToMessageOrBefore` is the atomic composition that `CrashRestart` uses. Its parts, `ReorgEligible`, `ReorgTarget`, `ReorgDeleteCheckpoints`, `ReorgLogsCursors` and `ReorgRollBack`, are also the reorg transactions of the core thread.
- `DeleteLogsStartingAt`, `DeleteSideloadsStartingAt`
- `SaveLogs`, `SaveSends`, `SaveSideloadPosition`, `SaveCheckpoint`
- `GetSends` (F:1194): a zero count is OK, an index at or past `send_inserted` is NotFound, and otherwise the read is clipped to `send_inserted`
- `ReadNextMessages`, `GetLogsNoLock`, `IsValid`

`PROJECT.json` "map" gives the lines of each one.

### `MessageReader`

- **State**: `items`, a sequence of batch items. Each has a `last` sequence number, a `total` delayed count, a `seq` flag, a `msg` and an `acc`. `delayed` is the delayed inbox.
- **Actions** (modelled from the spec, because `addMessages` is not in the repository): `DelayedArrive`, `AddSequencerItem` and `AddDelayedItem`. Each appends one item and so grows the log.
- **Readers**: `Walk` and `Emit` follow `getMessagesImpl`'s loop (F:1035–1163) item by item:
  - the consistency check against `start_acc`, and the `count == 0` break inside it;
  - the mid-batch offset of `prev_delayed_count`;
  - the delayed-message loop bounded by `count`;
  - the thrown `runtime_error`s, as status `Throw`;
  - the trailing NotFound for an unfinished check.
- **Accumulator readers**: `GetInboxAcc` and `GetInboxAccPair` (F:1223–1251) read the item holding each message.
- **Reference**: `Flat` is the log as one message per sequence number with its item's accumulator. `RefGetMessages` is the read of spec 4.3 over it.

### `ExecutionCursor`

- **Core-thread state**: `msgs`, `checkpoints`, `sideloads` and `cache` (the `sideload_cache`).
- **Caller state**:
  - `cursor`, `target`, `goOver`, `attempts`;
  - `pc`: the loop stage;
  - `res`: the status returned;
  - `call`, `block`: the entry point used and the block looked up;
  - `want`: the newest block at or below the one asked for that the core has committed or is saving (`Stopped`), at the call;
  - `saving`: the sideload block cached but not yet committed;
  - `reorged`: a reorg happened since the call began.
- **Core actions**:
  - `CoreAppend`;
  - `CoreCacheSideload`: F:774–797. At a sideload block it caches the machine and evicts, under `sideload_cache_mutex`, which it releases at once. The sideload position written by `saveAssertion` (F:765, F:376–378) is still uncommitted; `saving` holds the block.
  - `CoreCommitSideload`: F:798–821. `saveCheckpoint` and `tx.commit` make the sideload position and its checkpoint visible together. Every checkpoint after genesis is at a sideload. Appends and reorgs wait for the commit, as the core thread does.
  - `CoreReorg`: deletes the checkpoints, sideloads and cache entries above the reorg point.
- **Caller actions**:
  - `GetExecutionCursor` (F:1258);
  - `AdvanceExecutionCursor` (F:1288): it reuses the cursor when it is closer than `checkpoint_load_gas_cost` and still valid;
  - `GetMachineForSideload` (F:2011);
  - the loop stages `ImplAttempt` (retry count and Busy), `ImplStep` (one snapshot: break at target, else `readNextMessages`) and `ImplReload` (back to the closest checkpoint).
- **Abstractions**:
  - As in `ArbCore`, gas is message count and a block number is the count at its sideload.
  - `takeExecutionCursorMachine` only materialises the machine, so it has no step.
  - The `assert(false)` at F:1386 is taken as compiled out (a release build). In a debug build the first retry aborts the process.
  - `getSideloadPosition`'s read of an invalid iterator can return any position in `0..MaxMsgs`.
  - Block numbers are `uint256_t`. `EvictSideloadsWithin` computes `block - sideload_cache_size` modulo `BlockMod` (2^16), so a subtraction below zero wraps as in the code. Only the wrap matters, not the width.

### `ValueCodec`

`value.cpp` holds no state. Its functions are operators, and the module's one
variable, `stack`, is a stack of values. It is built the way AVM code builds
values: `PushNum`, `PushCodePoint` (the immediate, if any, is the popped top),
`NewTuple` (a tuple of k empty tuples), `TSet` (pop a value into an element)
and `Pop`. Every invariant quantifies over every value on the stack.

- **Values**: records `num`, `tuple` (a sequence of up to 8 values) and `codept` (pc, an operation with 0 or 1 immediate, next hash).
- **Byte conversions** are modelled by what they do:
  - `ToBigEndian` and `FromBigEndian` are `to_big_endian`/`from_big_endian` and `big_to_native`;
  - `FromNative` is a plain `memcpy` into an integer on a little-endian host.
- **Full form**:
  - `MarshalValue` dispatches as `marshal_value` does (V:79–101).
  - `Tuple::marshal` and `CodePoint::marshal` live in `tuple.cpp` and `codepoint.cpp`, which are not in the repository. They are written to the layout the readers consume.
  - The readers `DeserializeValue`, `DeserializeTuple`, `DeserializeOperation`, `DeserializeCodePoint` and `DeserializeInt256` (V:31–148) thread a read position. They return status `Throw` for an unhandled tag and `Overrun` for a read past the end of the buffer, which the code never checks.
- **Shallow form**: `MarshalShallow` (V:103–128) writes tuple children as `HASH_ONLY` and a hash. `GetTupleSize` (V:150) reads the tag.
- **Checkpoint form**:
  - `SerializeForCheckpoint` (V:225–273), `MarshalUint64` and `SerializeValue` (V:291–319).
  - The readers are `DeserializeCheckpoint256` (V:284) and `DeserializeCheckpointCodePt` (V:275).
  - The latter's one-byte over-read is undefined behaviour. It is modelled as the set of pcs any value of that byte gives.
- **Abstractions**:
  - `::hash` (keccak) is out of scope per spec section 1. `Hash` is any function of the full form that tells the test values apart.
  - Integers, hashes and pcs are 2 bytes wide instead of 32 and 8. That is the least width at which byte order and offsets are visible.
  - The tags are the `ValueTypes` of `value.hpp`: NUM 0, CODEPT 1, HASH_ONLY 2, TUPLE 3. `value.hpp` is not in the repository, so they are constants of the cfg.

## Runs

The `ArbCore` runs use `MCArbCore` with 2 message contents, 2 log values and 1 reorganising delivery.

| Run | cfg | Bounds | Checks | Result |
|---|---|---|---|---|
| core_safety | `MCArbCore.cfg` | 3 messages, 1 crash, request size 1 | `CheckpointsValid`, `CheckpointOutputsPersisted`, `MachineOutputsAccounted`, `CursorBehind`, `CursorDataIsLog`, `SendsReadMatchesLog`, `CrashMidReorgResumes`, `StreamsRefined` | pass, about 1.58M distinct states, 115 s |
| core_liveness | `MCArbCore_live.cfg` | 2 messages, 1 crash, request size 2 | `MailboxAnswered`, `CursorRequestServed` | pass, about 90K distinct states, 30 s |
| log_refcount | `MCArbCore_refcount.cfg` | 2 messages, 1 crash, no consumer | `LogRefcountSound` | violation |
| consumer_view | `MCArbCore_view.cfg` | 2 messages, no crash | `ConsumerViewIsLogPrefix` | violation |
| executor_idle | `MCArbCore_idle.cfg` | 2 messages, no consumer | `ExecutorEventuallyIdle` | violation |
| reader_pass | `MCMessageReader.cfg` | up to 4 sequence numbers, 3 delayed messages; reads from every index 0..5, count 1..3, every start accumulator | `ReadMatchesLog`, `IsValidAgreesWithRead`, `InboxAccMatchesLog` | pass |
| reader_zero | `MCMessageReader_zero.cfg` | as above, count 0 | `ReadZeroCountEmpty` | violation |
| cursor_pass | `MCExecutionCursor.cfg` | 2 messages, 1 reorg, targets {0, 2}, max_gas {0, 1, 2}, load cost 2, blocks {0, 1, 2}, cache window 0, 4 attempts | `CursorNeverPastTarget`, `ReturnedCursorConsistent`, `SideloadMachineAtBlockEnd`, `CacheWithinWindow`, `EvictionKeepsWindow`, `AdvanceTerminates` | pass, about 397K distinct states, 45 s |
| cursor_target | `MCExecutionCursor_target.cfg` | as above, 16 attempts, no sideload lookups (blocks {}) | `AdvanceReachesTarget` | violation |
| sideload_before_first | `MCExecutionCursor_sideload.cfg` | as above, 16 attempts | `SideloadMachineNotAfterBlock` | violation |
| codec_pass | `MCValueCodec.cfg` | stack of 2, depth 2, numbers {0, 258}, pc 256, tuple sizes {0, 2, 8}, tset indexes {0, 1, 7} | `MarshalRoundTrip`, `CheckpointRoundTrip`, `ShallowFormParses` | pass, 5,769 distinct states |
| codept_checkpoint | `MCValueCodec_codept.cfg` | as above | `CheckpointCodePtRoundTrip` | violation |

The `MessageReader` runs set `CHECK_DEADLOCK FALSE`: the log stops growing once its bounds are reached, and every reader property is a state predicate over the whole log.

### Why these bounds

- **Three messages and one reorg.** This is enough for a reorg that replaces a message under a saved checkpoint, and for a checkpoint that survives it.
- **One crash.** This gives a restart after a reorg, which is what exposes the double release.
- **Request size 1 in the safety run, {1, 2} in the consumer run.** A request of one log while two are waiting gives a partial delivery, and the cursor's pending, data and deleted counts diverge.
- **Liveness run: two messages, request size 2.** A request for two logs when one is saved must be cut down to one (F:1661). This is the case a cursor that waits for a full batch gets wrong. With three messages and a consumer, the liveness run takes 13 minutes. It stays within 40 s with two.
- **`ViewBound` constraint** (named in `MCArbCore.tla`). Each redelivery appends to the consumer's `view`, so it can grow without limit. The passing runs stop exploring once `view` is longer than the log can be. Only repeated redelivery (finding 2) makes it that long. No guard and no other variable reads `view`, and none of the passing properties does. What the runs leave out are the continuations of those states.
- **Reader bounds.** Four sequence numbers and three delayed messages allow two delayed items next to sequencer items and a read that starts in the middle of a delayed item. A mutant that gets the mid-batch offset wrong by one is caught.
- **Cursor bounds.**
  - With two messages and one reorg, a reorg can remove a sideload, its checkpoint and its cached machine while a call is between snapshots.
  - `max_gas = 0` is included. An advance by 0 returns without reading, so only the validity check in `advanceExecutionCursor` keeps a reorged-out machine from being returned.
  - A cache window of 0 makes eviction happen with two blocks; the code's 20 only needs more blocks.
  - `EvictionKeepsWindow` applies the eviction with the code's window of 20 to the reachable cache at every block 0..25 (`LawBlocks`). Blocks below 20 are where `block - 20` would wrap, and blocks above 20 are where old entries go.
  - The pass run uses 4 attempts instead of the code's 16. Every retry iteration is the same step, so only the count of idle retries changes.
- **Codec bounds.**
  - The tuple sizes include 0 and 8, the two ends of the tag range `TUPLE..TUPLE+8`.
  - A depth of 2 gives tuples holding code points with immediates, and code points whose immediate is a tuple.
  - 258 and 256 have two different bytes, so a swapped byte order or a shifted offset gives a different number.
  - The passing properties are per value, so a stack of two values adds only the nesting that `PushCodePoint` and `TSet` build from it.

### Findings

All seven are disagreements between the code and the spec, a comment or a test. `PROJECT.json` has them with their lines.

1. **Log references are released twice** (`deleteLogsStartingAt`, F:1602). The function releases every entry at or after the index but never deletes the entries. A reorg followed by the restart reorg to the same checkpoint therefore releases the stale entries again. In the trace, the logs are `[a, a]`: the reorg to 1 leaves `a` at 1, and the restart drops it to 0 while index 0 still holds `a`.
2. **A repeated `logsCursorGetLogs` hides deletions** (F:1828). Each call sets `pending_total_count = current + data.size()`, so a second poll before the confirm resets it to `current`. A reorg then computes no `deleted_data` for the logs the consumer holds.
3. **The executor never becomes idle** (`readNextMessages`, F:1484). The result vector is built with `count` default entries before the real messages are appended, so it is never empty and `machine_idle` is never set. The same pre-sizing appears in `getMessages` (F:1027), which returns n empty entries before the n messages. It has no run of its own: its messages are those of `getMessagesImpl`, which `reader_pass` checks.
4. **`getMessagesImpl(0, 0)` returns a message when the first item is a sequencer item** (F:1081). The `count == 0` test is inside the consistency check, and index 0 skips that check. The `messages.size() >= count` test comes only after an item has been emitted. A delayed first item emits nothing: its inner loop stops at `count` (F:1117–1119).
5. **A checkpointed code point does not read back** (V:277). `serializeForCheckpoint(CodePoint)` writes `[CODEPT, pc]` with the pc in 8 big-endian bytes, 9 bytes in all. `deserializeCheckpointCodePt` reads from `&val[2]`, one byte late, with `deserialize_int64`: a native-order `memcpy` without `big_to_native` (its comment says "make sure correct"). It also copies one byte past the end of the vector. Spec section 8 says a saved machine state reads back identical. In the trace, pc 256 reads back as another pc for every possible value of the over-read byte except one.
6. **An execution cursor never runs its machine** (F:1420). `if (!status.IsNotFound())` treats every OK read as a reorg and returns a real NotFound as an error. A cursor therefore returns OK only where a checkpoint is within one instruction of the target, and otherwise returns Busy after 16 attempts. The Go test at F:68 expects `AdvanceExecutionCursor(cursor, 10000, true)` to move the inbox accumulator. The run has no sideload lookups. In the trace, with two messages logged, no reorg and only the genesis checkpoint, `getExecutionCursor(2)` starts at count 0, reloads genesis on each of its 16 attempts, and returns Busy with the cursor still at 0.
7. **A sideload lookup before the first sideload reads an invalid iterator** (F:1973). `getSideloadPosition` checks `status()` but not `Valid()`. In the trace, block 0 is looked up with a sideload only at block 1, and block 1's machine is returned.

### Refinement

`OutputStreams` is the abstract specification of the two output streams. It has three variables:

- `logs`: a sequence;
- `sends`: a count;
- `marks`: the (log count, send count) pairs of the saved checkpoints.

It has three actions:

- `Emit`: the streams are extended, and a mark may be added at the new end.
- `Forget`: marks are deleted.
- `Rewind`: both streams go back together to a kept mark, and the marks above it are deleted.

`MCArbCore` maps ArbCore onto it with `INSTANCE OutputStreams WITH`:

- `logs` is the log column up to `logInserted`;
- `sends` is `sendInserted`;
- `marks` is the set of counts of `checkpoints`.

`StreamsRefined`, which is `Streams!Spec`, is a property of core_safety. It holds across every interleaving of the split reorg with the machine, the consumer and a crash. The mutant `ReorgRollBackKeepSends` resets the log count and not the send count, and it breaks the refinement.

`SendsReadMatchesLog` checks the send reader against the message log. `machineMessagesRead()` reports the first `last_machine_output` messages. That count is published before the assertion's sends are committed. The property checks two things in every state, including the window between `CoreMachinePublish` and the commit:

- `send_inserted` is never ahead of the sends of the published messages;
- `getSends`, at every index 0..3 and count 0..2, returns exactly those sends, cut at `send_inserted`.

The equality without the cut fails in that window. After a reorg or a restart, the column still holds sends of the replaced history past `send_inserted`, so the clip in `getSends` is what this checks. The mutant `GetSendsToColumnEnd` reads until the column runs out, and it is caught only after a reorg.

`CursorRequestServed` (core_liveness) checks that a logs cursor request with logs saved past the cursor's confirmed position is eventually answered, READY or ERROR, unless a reorg first takes those logs away. It holds under reorgs, crashes and a consumer that polls, confirms or never returns. The core loop services every REQUESTED cursor (F:876–881), cuts a request to the logs there are (F:1661), and puts a READY cursor left with nothing by a reorg back to REQUESTED (F:1778). The mutant `HandleLogsCursorRequestedWaitFull` waits for the full count instead, and a consumer that asks for more logs than will ever arrive waits forever.

`SideloadMachineAtBlockEnd` (cursor_pass) checks that a machine `getMachineForSideload` returns, from the cache or by running a cursor, is the machine at the end of the newest block at or below the one asked for that the core has stopped at, unless a reorg intervened. The core caches a sideload machine and releases the cache mutex (F:780–796) before it commits the sideload position and checkpoint (F:821). A lookup in between gets block n's machine from the cache while the committed positions still end at an older block. The property counts the block being saved as stopped at, so it states what the cache and the DB agree on in every state. With only committed positions as the reference, TLC finds it violated in that window. The mutant `DeleteSideloadsKeepCache` clears the sideload column on a reorg but keeps the cache.

`CrashMidReorgResumes` is the action property for a crash between the reorg's transactions. The checkpoints above the target are already deleted, so the restart's `use_latest` reorg lands on the same target. It restores that target's log count, send count and machine.

## Fairness

`Fairness == WF_vars(CoreStep) /\ WF_vars(MachineRun)`.

- The core thread loops until aborted, and no stage waits on another actor (F:704–895).
- A started machine thread runs until it stops.
- The feeder and the consumer get no fairness: nothing in the code obliges them to call.
- In `ExecutionCursor`, `WF_vars(CallStep)`: a call runs synchronously on its caller's thread until it returns. The core and new calls get no fairness.

## Mutants

Each passing property has a mutant operator in its module, defined just before the definition it replaces. Each mutant is a plausible bug:

| Mutant | Bug |
|---|---|
| `ReorgPastTarget` | an off-by-one in eligibility |
| `ReorgKeepsValid` | keeps valid checkpoints above the target |
| `MachineFromSwapped` | loads the wrong field |
| `CursorReorgNoClamp` | drops the clamp on the persisted count |
| `CursorReorgKeepData` | keeps the held data instead of truncating it |
| `CoreIntakeWhenIdle` | takes the mailbox only while the machine is idle |
| `HandleLogsCursorRequestedWaitFull` | leaves a request for more logs than are saved waiting, instead of cutting it down |
| `GetMessagesImplNoBackstep` | seeks to the item of `index` instead of `index - 1` |
| `IsValidOffByOne` | reads the item of `count` instead of `count - 1` |
| `GetInboxAccOffByOne` | reads the item after the one holding the message |
| `GetCheckpointAfterGas` | takes the checkpoint after the gas (`after_gas` set) |
| `AdvanceExecutionCursorNoCheck` | reuses the cursor without the validity check |
| `DeleteSideloadsKeepCache` | a reorg clears the sideload column but not the cache |
| `EvictSideloadsNone` | drops the eviction |
| `EvictSideloadsUnguarded` | drops the `block > sideload_cache_size` guard, so `block - 20` wraps for early blocks and evicts everything |
| `GetSendsToColumnEnd` | `getSends` stops where the column runs out, not at `send_inserted` |
| `ImplAttemptNoCount` | never increments `reorg_attempts` |
| `DeserializeValueTupleShort` | the tuple tag range stops at `TUPLE + 7` |
| `SerializeForCheckpointLittleEndian` | writes a tuple's hash little-endian |
| `MarshalShallowNoSize` | writes a tuple's tag without its size |
| `ReorgRollBackKeepSends` | the rollback resets `log_inserted` but not `send_inserted` |

`ReorgPastTarget` replaces `ReorgEligible`. `ReorgKeepsValid` replaces `ReorgDeleteCheckpoints`, and it breaks both `CheckpointsValid` and `CrashMidReorgResumes`.

## Not modelled yet, and the plan

- **`getMessages`** (F:1017). It pre-sizes its result vector (hazard F:1027). Its only property would be a second violation run for the same defect that executor_idle shows in `readNextMessages`, and the project is at its limit of 12 runs.
- **A failed commit of the assertion transaction** (F:821). `last_machine_output`, the sideload cache and the running machine are updated before the commit (F:761), and a failure exits the core loop with them ahead of the database. Database failures are not modelled. Showing what readers then see would need a violation run, and the project is at 12 runs. The window before a successful commit is modelled (`CoreMachinePublish`).
- **Reorg racing the cursor inside one transaction.** `ExecutionCursor` makes a reorg one atomic step.
- **L1 USDC gateways** (`src/contracts/.../L1USDCGateway.sol`, `src/unnamed/part_000`). Each operation is one owner-guarded transaction that sets a flag or an address. Nothing inside the contract runs concurrently. The deposit body (`super.outboundTransferCustomRefund`) and the token's `burn` are not in the repository. A model could only restate the `onlyOwner` and paused guards.
- **Other code that is not part of ArbCore:**
  - `blockresult.go` projects tuples into structs. `FirstAVMLog` subtracts one more than `FirstAVMSend` for "the block log itself". Whether that is right depends on how ArbOS counts the block log in its statistics. That code is not in the repository, so nothing can be checked against it.
  - In `value.cpp`, `assumeInt`, `assumeInt64` and `assumeTuple` (V:161–190) are type projections that throw, and the printer (V:192–215) is output only. No encoding depends on them.
  - `validator.go` dispatches on the results of on-chain RPC calls and has no local state.
  - `tests/opcodes.cpp` and F:1–82 are tests.
- **Left out on purpose:**
  - `triggerSaveCheckpoint` (F:324) is a unit-test hook that nothing in the repository calls.
  - The `deleted_data` kept only in memory (F:1765) is not modelled across a crash. A crash after the reorg's cursor transaction loses it. Whether that matters depends on what the consumer persists, which neither the code nor the spec says. `CrashRestart` resets the consumer's view to the persisted count.
  - `messagesClearError` and `machineClearError` only follow error paths, which are not modelled.
  - `startThread` and `abortThread` manage the thread's lifetime.
