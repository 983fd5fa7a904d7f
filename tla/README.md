# Godwoken: a TLA+ verification of the node and its layer-1 scripts

Godwoken is an optimistic rollup on CKB. A *full node* executes layer-2
transactions, packs them with deposits into layer-2 blocks and submits each block
to layer 1 by a transaction that consumes the *rollup cell* and the deposit cells
of the block. *Read-only nodes* follow the full node over p2p or layer 1.
Scripts on layer 1 (`gwos/contracts`) check submissions, challenges and reverts.

## Inventory

| Component | State | Operations | Talks to | Hard part |
|---|---|---|---|---|
| Produce-submit-confirm loop (`psc.rs`) | `local_count`, `submitted_count`, two tasks | produce, submit, confirm, revert, resync, signals | store, CKB, mem pool, local cells | tasks act on snapshots over many awaits, are aborted, crash |
| Layer-1 sync (`sync_l1.rs`, `chain_updater.rs`) | none (store) | find last known block, count known submissions, revert fork, apply blocks | CKB, chain, store | fails half way, layer 1 moves |
| Local cells manager (`local_cells.rs`) | dead and local live cells | lock, apply, confirm, reset | loop, mem pool | released while others still choose |
| Store (`store_transaction.rs`) | chain, pointers, submissions, bad and reverted blocks, state history | attach, detach, set pointers | everything | atomic transactions, several writers |
| Chain (`chain.rs`) | tip, last global state, challenge target, last event | `update_l1action`, `revert_l1action`, `update_local` | store, generator | bad blocks, challenges, reverts, passes that start over |
| Mem pool (`pool.rs`, `mem_block.rs`) | tip, pending transactions, withdrawals, deposits, mem block | push, reset on a new tip, package, save, restore | loop, RPC, sync server | reinjection after a revert |
| RPC submitter and fee queue (`registry.rs`, `fee/queue.rs`) | channel, map of requests in queue, entries by fee and by sender | submit, fetch, push back, drop, create accounts | mem pool | nonce order against fee order at capacity |
| Block sync (`block_sync_server.rs`, `block_sync_client.rs`) | ring buffer, sessions; the client's store | publish, subscribe, apply | loop, p2p | lost connections, reverts, slow clients |
| Challenger and state validator (`challenger.rs`, `crates/challenge`, `gwos/contracts`) | rollup status, challenge cell | enter, cancel, revert | CKB, chain | several parties, maturity |
| Finality (`core.rs`, `finality.rs`, the locks) | timepoints | compare | scripts, producer, unlocker | change from block numbers to timestamps |
| State (`store/src/state`) | tree, records per block, journal, snapshots | write, snapshot, revert, attach, detach | chain, mem pool, RPC | reads at a block after detaching |
| Withdrawal unlocker | unlocked set | unlock, recheck | CKB | transactions dropped |

What makes the parts correct, in one line each:

- *Loop and synchronisation*: pointers, counters and tasks agree; confirmed blocks
  are the ones on layer 1; no deposit cell is processed twice; no reachable panic;
  what stays in the chain is confirmed in the end.
- *Mem pool*: the mem block can be replayed on its tip, is stored, and survives
  reverts and restarts.
- *Fee queue*: requests of one sender leave in nonce order, handles are neither lost
  nor doubled, every request is answered.
- *Block sync*: a read-only node confirms what layer 1 holds and is on the chain of
  the full node when it has caught up.
- *Scripts*: what layer 2 owes is backed by cells; no block is taken out that is final at
  that moment; stakes outlast the blocks they stand for; the chain moves only by submission
  and revert.
- *Chain*: what the node has applied agrees with the rollup cell; a wrong block is
  challenged, a right one is freed.
- *State*: a read at block n gives the value after block n; a snapshot restores.

`PROJECT.json` lists every component with the reason when it is not modelled, and
every hazard with the properties that look at it.

## Modules

| Module | Contents |
|---|---|
| `Ckb` | Layer 1 as the node observes it (external): committed rollup transactions, transaction pool, live deposit cells; commit, drop, reorganisation, foreign submissions, cancelled deposits |
| `Psc`, `MCPsc` | The full node: store, main loop, submit task, confirm task, resynchronisation, local cells, deposits of the mem pool, process start and stop |
| `PscProofs` | Proofs about `Psc`: types, pointers, counters and tasks under every disturbance; then the store against layer 1, among them that `Psc` implements `Ledger` |
| `Ledger` | Abstract specification of the full node's chain and its two pointers |
| `MemPool`, `MCMemPool` | Requests in the mem pool: push, produce, reset on a new tip, save, restart |
| `MemPoolProofs` | Proofs about `MemPool` |
| `FeeQueue`, `MCFeeQueue` | RPC channel, map of requests in queue, fee queue, the submitter task |
| `FeeQueueProofs` | Proofs about `FeeQueue` |
| `BlockSync`, `MCBlockSync` | Buffer and sessions of the full node, a read-only node |
| `BlockSyncProofs` | Proofs about `BlockSync` |
| `Rollup`, `MCRollup` | The state validator and the locks: every layer-1 transaction they accept |
| `RollupChain` | Abstract specification of the rollup cell's chain |
| `RollupProofs` | Proofs about `Rollup`, among them that it implements `RollupChain` |
| `ChainSync` | A node that follows the rollup cell through bad blocks, challenges and reverts |
| `ChainSyncProofs` | Proofs about `ChainSync` |
| `StateDb`, `MCStateDb` | Account state: journal and snapshots, tree, per-block records |
| `StateDbProofs` | Proofs about `StateDb` |
| `NatLemmas` | Least and greatest elements of sets of numbers, induction up to a bound, runs of recursive functions, for the proofs |

How they fit together:

```
 Ckb <-extends- Psc --implements--> Ledger <-extends- BlockSync
 Rollup --implements--> RollupChain <-extends- ChainSync
 FeeQueue (pushes) ... MemPool (resets, produces) ... StateDb (executes)
```

Both abstract specifications are used from both sides. `Psc` implements `Ledger`
(property `LedgerSpec`), and the full node of `BlockSync` is made of the actions of
`Ledger`, so that the read-only node is checked against exactly what `Psc` was shown
to do. `Rollup` implements `RollupChain` (property `FollowsRollupChain`), and the
layer 1 that `ChainSync` follows is made of the actions of `RollupChain`.

`MemPool` sees the moves of the tip that `Psc` makes as `RevertBlock`, `AttachBlock`
and `ProduceBlock`, in any order in which `psc.rs` and `sync_l1.rs` may make them, and
adds the requests and nonces that `Psc` leaves out. `FeeQueue` sees the mem pool as
nonces, cycles and a number of transactions that a new tip resets.

Operators named after a bug (`DetachKeepsPointer`, `AddUnbounded`, ...) are mutations
of the definition that follows them; each shows that a property notices the bug. No
specification uses them.

### `Psc` and the code

State. `chain`, `lastSub`, `lastConf`, `subTx` are the persistent part
(`COLUMN_BLOCK` along the index, the two `META_` pointers, `COLUMN_BLOCK_SUBMIT_TX`);
`localCount`, `submittedCount` are the fields of `ProduceSubmitConfirm`; `sub`
and `con` are the two spawned tasks with the local variables that live across
their await points; `deadDeps`, `deadCells`, `liveCells` are the
`LocalCellsManager`; `memTip`, `memDeps` the part of the mem pool that chooses
deposits; `savedDeps` the deposits in the mem block file. `pc` is where the main
loop is: in the `select!` (`loop`), between commit and reset of the mem pool
(`notify`), reverting, in `sync_l1` (`sync`, `update`), rebuilding its state
(`reset`) or ended by a panic (`halt`).

Actions. One per branch of the `select!`, one per stretch of a task between two
awaits at which something else can happen, one per step of `sync_l1` that commits
to the store. An error that makes a task start over from a new snapshot is a step
back to `snap`. A block is its identity, number, parent and deposits; a submission
is its block and the rollup cell it consumes.

Abstractions. `SyncKnown` and `SyncFork` read layer 1 in one step, though the code
sends several requests; what may change in between is covered by `SyncUpdate`
checking each transaction again and by `SyncFails`. Median time, the retry with a
smaller block, the liveness tick and the messages to read-only nodes (`BlockSync`)
leave this state alone. The branches of `select!` are taken in any order. Witnesses,
fees, stake and custodian cells are not there: a submission that layer 1 rejects for
any other reason than its inputs is `SubmitOversize` (no transaction) or a script
failure (`~ScriptSucceeds`).

### `Ledger`

Chain, two pointers, what layer 1 holds, and whether the loop runs. While it runs
nothing is taken back and the confirmed pointer moves only over a block that layer 1
holds; blocks disappear only while the node synchronises, and it leaves that with both
pointers equal. The mapping from `Psc` hides tasks, cells and counters and takes every
`pc` outside the loop for `sync`. It needs a layer 1 that does not reorganise below
what was confirmed, so `PscSafety` has no `reorg`.

### `MemPool` and the code

State. `pool` holds the mem block (`wds`, `txs`), the nonces after it, the pending
lists per account and the two mem pool columns of the database, which outlive the
process. `blocks` is every block the store has seen, so that abandoned branches
can be walked as `reset_full` walks them. `restored` is
`pending_restored_tx_hashes`, `file` the newest mem block file. `st` says whether
a block in production holds the pool lock, the process is down, or a panic ended
it.

Actions. `NotifyNewTip` is the whole of `reset_full`: collecting abandoned requests,
`remove_unexecutables`, packaging pending withdrawals in hash map order, the
order assertion, `finalize_withdrawals`, and pushing transactions again, with the
database writes of each. `Start` is `MemPool::create` with its two clean-ups.
A request executes when its nonce fits; requests in `Unstable` may also fail
whenever they are tried, which stands for balances, custodian capacity, cycles
and allow lists. The account creator's own transaction and deposits are left out.
`Retain` is `Vec::retain`; `FinalizeWithdrawals` and `PushTransactions` are the loops of
`finalize_withdrawals` and `prepare_next_mem_block`, written as recursive functions over
the list so that the proofs can follow them request by request.

`MemBlockStored` promises every transaction of the mem block, and every withdrawal whose
account has a sorted pending list, to be in the database; `RestartKeepsMemBlock` asks that
the withdrawals of the stopped mem block are there. Without the conditions both fail
beyond the run's bounds (see "Other divergences").

### `FeeQueue` and the code

State. `chan` is the channel between RPC methods and the task, `inQueue` the
`InQueueRequestMap`, `queue` the `BTreeMap` of `FeeQueue` with its handles, `pc` and
the variables below it the background task of `registry.rs`; `nonce`, `known`, `avail`,
`txs` are what the mem pool answers.

Actions. The task has exclusive use of the queue, so each of its steps is an action:
the check for free slots, waiting for a first request, draining the channel, the loop
of `fetch` (item by item, later nonces set aside and added back), the creation of
accounts for unknown senders, pushing under the lock of the mem pool, and returning
items when the block is full. RPC calls and new tips come in between except while the
task holds the lock. The order of entries is the one of `Ord for FeeEntry`, ties
included, and an insertion that compares equal replaces the handle and keeps the key,
as `BTreeMap` does. `ItemOrderAssumption` says of the chosen requests that the
comparison is an order at all, `RequestAssumption` that the byte encodings of different
requests differ, as `as_slice` of two transactions with different hashes does; `Submit` of a request that waits already is the
duplicate check of the map.

### `BlockSync` and the code

State. `buffer` maps block numbers to hash and messages, `chan` is what was sent to
the session and not yet applied, `cchain`, `cSub`, `cConf`, `cTx` are the store of the
read-only node. `pend` is the block that was published and is not committed yet,
`booting` a full node that restarted and has not finished `init`. `sent` and `stale`
are history variables. A session is `stale` when it began on a buffer with blocks that
the full node had replaced below its confirmed block (`ConfirmedFresh` fails), with
entries that do not follow each other (`Linked`), or when the read-only node held blocks
above its confirmed one that nothing announces any more (`Announced`).

Actions. Every `publish_*` together with the step of the loop that makes it, `Subscribe`
with the search of the buffer (the messages of the later blocks are listed by block
number and, within a block, as they were published: `Listings`), and on the client `sync_l1`, the request, one action per
kind of message with the reverts that it causes, skipping when the receive buffer is
long, and the end of a stream. Sessions break at any message, either process can
crash, the full node resynchronises, receives a foreign block or a signal. One client
is enough, since clients do not affect the server or each other.

Layer 1 waits for nobody: `SendSubmission` is the submit task sending a transaction, and
from then on `CommitOwn` may happen, before or after the loop handles the end of the task
(`PublishSubmitted`), or when it never does because of a crash or a revert. A published
block may be committed (`CommitLocalBlock`), lost in a crash, or given up by an error after
which the loop goes on (`FailLocalBlock`); the next block then has the same number.
An error of the database commit itself also leaves `Chain::local_state` ahead of the
store (the comment at `sync_l1.rs` 41-43); that is not modelled.

### `Rollup` and the code

State. The rollup cell (`chain`, `status`, `version`, `lft`, `reverted`), the cells of
the locks, layer-1 time in ticks of one layer-1 block. A block is an index that stands
for its hash, a Merkle proof is membership.

Actions. One per kind of transaction: `SubmitBlock` is `submit_block::verify` with the
stake, custodian, deposit and withdrawal checks it makes, for the transactions that
`compose_submit_tx` builds (reverted cells are returned first, finalized custodians are
merged, withdrawals are taken from them); `EnterChallenge`, `CancelChallenge` and
`Revert` are the other three branches of the state validator with the stake, challenge
and custodian locks; `UnlockWithdrawal`, `UnlockStake` and `CancelDeposit` are the locks
on their own. Timepoints have both forms, by block number and by timestamp, and
`LeqTimepoint` compares them as `Timepoint` does. From version 2 on the timepoint after a
revert is the absolute since of its rollup input, which the sender chooses: `Revert(since)`
takes any time that has passed on layer 1. All versions are modelled; the runs
use version 2, the current one. Assets are one fungible token. The revert's continuity
loop is `Continuous`, with the comparison as it is written. `paid` and `merged` are history
variables: blocks whose withdrawals were taken out, blocks whose custodians were spent as
final.

### `ChainSync` and the code

State. `db` is the part of the store that bad blocks touch (valid chain, bad blocks,
challenge targets, block tree, reverted tree, tip), `mem` is `Chain` (`local_state`,
`challenge_target`, `last_sync_event`), `pos` the transaction a pass of `sync_l1` is at.

Actions. `StartPass` begins after the submission of the last valid block as `sync_l1` does;
`Update...` is `update_l1action`, one action per outcome, `UpdateFails` every `bail!`,
`expect` and failed assertion in it; `Rewind` is the `rewind-to-last-valid-block`
command; `ChallengeBlock`, `CancelChallenge` and `RevertBlocks` are the three reactions
of the challenger to `last_sync_event`. The node's revert has no since, so that under
version 2 it fails its dry run (`RevertPassesDryRun`); a stranger may revert under every
version (`ForeignRevert`). Strangers submit right and wrong blocks and challenge, cancel
and revert as `RollupChain` lets them.

### `StateDb` and the code

State. `store` is the tree with the two record columns (`recs` by block and key,
`index` the reverse records), `dirty`, `journal`, `revisions` are `StateDB`, `posts`
what the attached blocks promise as post-state, `saved` the store at the beginning of
the database transaction. The tree is the function it stores.

Actions. `BeginBlock`, the writes, `Snapshot`, `RevertTo`, `Finalise`, `AttachBlock`
(with the post-state check), `AbandonBlock` (the database transaction is rolled back),
`DetachBlock`. `GetHistoryState` is the seek in the reverse column that RPC reads of old
blocks use.

## Runs

| Run | Bounds | Shows |
|---|---|---|
| `PscSafety` | 1 deposit, 4 blocks, limits 2/2, 3 of: drop, cancel, oversize, RPC failure, second node, crash, lost consumer | the store agrees with layer 1 and with the mem pool; no deposit twice; `Psc` implements `Ledger` |
| `PscFaults` | 1 deposit, 3 blocks, limits 2/1, 3 of: reorganisation, second node, drop, crash, stop, oversize, SIGUSR1, SIGUSR2, lost consumer; late aborts | pointers, counters and tasks agree |
| `PscLive` | 1 deposit, 4 blocks, 3 of: crash, stop, drop, RPC failure, oversize, cancel; fair | every block that stays is confirmed |
| `MemPoolReset` | 2 accounts (symmetric), nonces 0 and 1, 2 blocks, 2 of: foreign block, revert, crash, stop; reorganisation limit 1 | the mem block stays executable and (with sorted pending lists) stored, transactions return, a stop loses nothing |
| `FeeQueue` | 4 requests of an existing and a new account, queue of 2, batches of 2, 3 cycles per block, 1 outside change of a nonce; fair | handles and map agree, batches respect nonces and fees, every request is settled |
| `BlockSync` | 3 blocks, buffer of 1 confirmed block, session of 3 messages, skip at 2, 2 of: transaction, crash, lost connection, signal, revert, foreign block; fair | confirmed blocks are on layer 1; unless its session is `stale`, a caught-up node has the full node's chain, a mem block is applied on its parent, and a confirmation is of a block whose submit tx hash is known; the node catches up, or its `sync_l1` fails for want of a hash |
| `Rollup` | 2 producers (symmetric), genesis and 3 blocks, 6 ticks, finality and maturity of 1 tick, 2 tokens, version 2 | balances are backed, no block is taken out while it is final, stakes outlast blocks; `Rollup` implements `RollupChain` |
| `ChainSync` | 4 blocks, reverts of up to 2 blocks, 2 of: restart, foreign challenge; version 1, fair | the node agrees with the rollup cell, acts on wrong blocks only, challenges wrong blocks and frees right chains |
| `StateDb` | 2 keys (symmetric), 2 values, blocks 0 to 2, journal of 2, 2 snapshots | the tree is the tip's state, historical reads are exact, snapshots restore |

The bounds. Four blocks in `Psc` let a second and a third block be local and submitted
while the first is being confirmed or reverted; a submission limit of 2 lets a
submission be built on an unconfirmed one; two or three disturbances let the handling
of one be disturbed by another. A queue of 2 with 4 requests makes drops at capacity,
returned items and future nonces meet. A buffer of one confirmed block is overrun by
three blocks. Three rollup blocks and six ticks let custodians be spent as final, a later
block be reverted with an old since, and the block of those custodians be challenged and
reverted too. `Backed` holds as well with
one producer and four blocks after genesis, which returns the withdrawal cells of reverted
blocks. `ChainSync` runs with version 1, where the node's own revert passes, so that all of
its actions happen; its properties hold with version 2 too. Two block
numbers above genesis and detaching let every number be written twice by different
blocks. Every disturbance is counted and bounded, so liveness is claimed once
disturbances have ended. `CHECK_DEADLOCK FALSE` is set because a node without new
requests, and a model that has used its blocks, rest.

Fairness:

- `Psc`: weak fairness for each step of the tasks and of the main loop, because tokio
  polls every ready task again and `select!` picks among ready branches at random; weak
  fairness for miners, because CKB keeps committing pool transactions. None for producing
  and none for any disturbance.
- `FeeQueue`: weak fairness for the task. Strong fairness for a new tip: the full node
  goes on producing blocks, and a tokio mutex is handed on in the order of arrival, so
  the task cannot keep the mem pool from being reset.
- `BlockSync`: weak fairness for the loop of each node, for the submit task and for layer 1;
  none for producing, publishing transactions and disturbances.
- `ChainSync`: weak fairness for a pass (`sync_l1` retries). Strong fairness for the
  challenger's challenges and cancellations: it looks at the last event at every new
  layer-1 block, so an event that keeps returning is met. None for the rewind, which an
  operator runs by hand, and none for the node's revert, which version 2 refuses.
- `Rollup` (only `RollupHalted`): somebody cancels the challenge of a right block and
  reverts a wrong one, and time passes.

### Runs that end in a violation

Each states what a comment, a change log or a document says, and TLC's trace is a
behaviour of the code.

- `PscSelfRevert`: a crash after a submission was sent; after the restart the
  deposit check runs first, finds the deposits consumed by the submission itself
  and reverts the committed block. In a longer behaviour the successor's submission
  is then composed on the wrong rollup cell and never accepted, which is why
  `EventuallyAllConfirmed` is stated for behaviours without it.
- `FeeQueueCollision`: two withdrawals of different accounts with the same fee rate,
  cycles and nonce that enter at the same queue length are the same key: the handle of
  the first is overwritten by the second, whose request is never executed while the
  map goes on reporting it. `FeeQueue` uses requests without such a pair.
- `RollupHalted`: the continuity check of a revert keeps the parent hash instead of the
  hash of the block before, so a revert of three blocks is rejected. A wrong block with
  two successors can be neither cancelled nor reverted, and the rollup stays halted.
  `FollowsRollupChain` and `ChainSync` are about what is accepted: reverts of one or two.

### Other divergences

These are visible in the models, without a run of their own.

Loop and mem pool:

- SIGUSR1 reverts one submitted block more than `psc.rs` 294 logs.
- After a layer-1 reorganisation a first submission that the scripts reject is sent
  again for ever, since only unknown and dead cells are handled (`psc.rs` 493, 616).
- A graceful stop between committing a block and resetting the mem pool
  (`psc.rs` 466-467) saves deposits that are packed already.
- With `LateAbort` an aborted submit task can store the submission of a block that was
  just reverted, so `SubTxMatches` is checked without it.
- Replacing a local block that has a withdrawal by a foreign block of the same height
  panics in `reset_full` (`pool.rs` 675).
- Abandoned withdrawals are packaged before abandoned transactions are executed again,
  so one that followed a transaction of its account is lost (`pool.rs` 543, 1062).
- A withdrawal can be in the mem block and not in the database; producing then fails
  with "can't find withdrawal_hash from mem pool" until a restart.
  `push_withdrawal_request` does not look for the request in the pending list ("TODO:
  duplicate withdrawal check", `pool.rs` 385, 450), and a reset appends abandoned
  withdrawals out of order, although `types.rs` 12 says "withdrawals sorted by nonce".
  `remove_lower_nonce_withdrawals` then drops a leading copy with its database entry while
  a later copy stays pending, and `finalize_withdrawals` takes it for stored ("Add to
  pending list and db if the withdrawal isn't already in them", `pool.rs` 1144-1153). TLC
  needs three blocks, three pending withdrawals and two reverts for it, more than
  `MemPoolReset` has; the proof attempt found it. `MemBlockStored` with its condition on
  the order was checked on that instance too.
- Pending transaction lists are not sorted ("txs sorted by nonce", `mem-pool/src/types.rs`
  9), because a reset appends transactions they hold already.
- `restore_pending_withdrawals` checks nonces against the tip, so a withdrawal that waits
  behind a transaction of the mem block is dropped at start as "outdated" (`pool.rs` 1286).

Fee queue:

- A future item is dropped although its predecessor is still in the queue when the
  batch was full first (`queue.rs` 115-117, 143).
- The transaction that creates accounts comes on top of a full batch, so more
  transactions than the checked free slots can be pushed (`registry.rs` 562).
- A withdrawal fetched after a transaction of the same sender that had to return to the
  queue is pushed with a nonce that does not fit and is lost.
- The gauge of requests in queue is incremented for a duplicate too
  (`in_queue_request_map.rs` 19).

Block sync:

- Layer 1 may commit a submission before the full node announces it. If the full node
  resynchronises then, its revert message makes the block the last confirmed one of the
  read-only node (`block_sync_client.rs` 216-230) without a submit transaction hash; when
  the session ends, "get submit tx" (`sync_l1.rs` 65-68) fails in every round, against
  "Automatically retry when failed" (`sync_l1.rs` 36). `CannotSync` is that state: TLC
  reaches it for good with two blocks, a signal and a lost connection, and
  `EventuallyFollows` excepts it.
- `publish_revert` keeps buffered entries by number up to the last submitted block
  ("Remove messages for reverted blocks.", `block_sync_server.rs` 91); a client that
  subscribes then starts from blocks that were replaced. `stale` excludes it from
  `CaughtUpHasChain` until the session ends.
- A client that held blocks of a reverted branch when it subscribed, or that was sent such
  blocks from the buffer, may see layer 1 commit one of them late; a revert message then
  confirms it, nothing announces its submit transaction hash, and `sync_l1` fails as
  above. It may also take a mem block for the wrong parent. TLC needs four
  disturbances for the latter, and the run has two; the attempt to prove `MemBlockOnParent`
  found it. `MemBlockOnParent` and `ConfirmedHasHash` are stated for sessions that are not
  `stale`.
- A client may lag behind by a confirmation or an adopted block until the next local
  block is published.

Scripts:

- Finality is not for ever, against "Finalized layer 2 blocks will be freezed, and cannot
  be challenged by anyone" (`docs/life_of_a_godwoken_transaction.md` 85). From version 2 on
  a revert takes the new timepoint from its own since and compares it with nothing
  (`revert.rs` 296-306): an old since makes final blocks challengeable again. Under
  version 1 every revert does, because it lowers the tip, and so does the change from
  version 1 to 2. What holds is `FinalNotTaken`, that a block goes only while it is not
  final, and `Backed`, which a block taken back after its custodians were spent as
  final turns from an equation into an inequality.
- Under version 2 the node never reverts a wrong block, against "the challenger can ...
  revert the chain to the state just before the invalid layer 2 block" (the same document,
  84): `rollup_input` sets no since (`challenger.rs` 737-739, 806-813), the validator
  answers `InvalidSince` (`revert.rs` 297-303) and the dry run fails (515-519). A wrong block
  that nobody else reverts leaves the rollup halted, so `ChainSync` claims that it is
  challenged and not that it disappears. Under version 1, with an operator who rewinds
  the node whenever it cannot follow, it does disappear.
- The withdrawal lock compares a timestamp with the transaction's since, and not with
  `last_finalized_timepoint` as `docs/finality_mechanism_changes.md` 48 has it.
- The node's challenger writes the timestamp of the last reverted block into the global
  state of a version 2 revert (`crates/challenge/src/revert.rs`), where the validator
  expects the since of the rollup input.
- After a late revert the custodians of reverted blocks can look final, so their
  return by the next submission is rejected.
- A revert takes the stake cells of the reverted blocks' owners: earlier blocks of the
  same owner that are not final stay without stake.

Chain:

- A cancelled challenge below the local bad block fails always: `chain.rs` 402-412 takes the
  start from `get_block_number` of a bad block, which is never there.
- A challenge of a block after the local bad block fails with "block not found"; a second
  pass over a bad block ends in "fork detected", in the panic "unsupported syncing state"
  or in the assertion on the reverted root. Each is repaired only by the rewind command,
  which an operator runs by hand. `WrongBlockChallenged` and `RightChainFreed` do not count
  on it and are about the cases that need none: nothing but submissions since the last
  right block (and the node not restarted on the bad block, which forgets the target), and
  the first challenge since then.

State:

- A `BlockStateDB` of an old block answers with the account count and the root of the
  tip, and scripts and data have no history; only key reads are exact (`HistoryExact`).

## Proofs

TLAPS checks all of them, for every value of the constants that satisfies the named
`ASSUME`s of the modules (sizes and limits are naturals, sentinels are no proper values;
TLC evaluates them in every run). A theorem with a further hypothesis on the
environment names it, and the text below says what the code does without it. Each
inductive invariant was checked by TLC on the run's instance before it was proved.

Induction over data is done with least counterexamples: a set of naturals, or of
subsets of a finite set, that is not empty has a least element (`LeastNat`,
`GreatestNat`, `MinimalSubset`), so a property that fails somewhere fails at a first
place. This is how sums over sets of cells and searches in records are reasoned about.
`NatInd` puts it as induction up to a bound over a set of numbers, and `RecExists` and
`RunTyped` give the intermediate results of a recursive function over a sequence.

### The full node: `PscProofs`

| Theorem | States | Hypotheses |
|---|---|---|
| `Inductive` | the inductive invariant `IInv` | |
| `TypeCorrect` | `TypeOK`; no counter underflows | |
| `PointersStayOrdered` | `lastConf <= lastSub <= Len(chain)` | |
| `CountersStayInAgreement` | the in-memory counters equal the differences of the stored pointers | |
| `TasksStayOnTarget` | a task acts on the block after the pointer it will move | |
| `MemPoolStaysOnTip` | the mem pool stands on the store's tip whenever the loop runs | |
| `SubmissionsMatch` | a stored submission is one of the block it is stored for | `PromptAbort` |
| `LedgerInductive` | the inductive invariant `FullInv` of store and layer 1 | `QuietL1`, `PromptAbort` |
| `ConfirmedBlocksOnL1` | confirmed blocks are those of layer 1 | `QuietL1`, `PromptAbort` |
| `SyncEndsOnL1` | a resynchronisation ends on the chain of layer 1 | `QuietL1`, `PromptAbort` |
| `PscImplementsLedger` | `Psc` implements `Ledger` | `QuietL1`, `PromptAbort` |
| `DepositsProcessedOnce` | no two attached blocks process one deposit cell | `QuietL1`, `PromptAbort`, `NoStop` |

The argument of the first group. `CountersAgree` alone is not inductive:
`BlockSubmitted` moves `lastSub` to `sub.n`, so it needs `TasksTargetNext`
(`sub.n = lastSub + 1`), and `localCount - 1` needs a local block to exist, so
`TasksInv` says that a running submit task implies `lastSub < Len(chain)`.
`TasksTargetNext` says of the confirm task that its block is submitted and has a stored
transaction; `TasksInv` adds that all blocks between the pointers have one, which holds
because the submit task stores before it moves the pointer (`StoredTx(sub.n) = sub.tx`
once it has) and because every way out of the loop drops both tasks. `SyncInv` closes
the part outside the loop: resynchronisation ends with both pointers equal, which the
`ensure!` after `sync_l1` demands and `CountersAgree` needs at `Reset`; a revert never
has target 0. The proof has one lemma per action; the typing of each state component is
separate from the pointer arithmetic.

The second group ties the store to layer 1. Blocks and layer-1 transactions have unique
identities and sit at the place of their number, and a transaction that a confirm task
has found committed is the one stored for the next block; then moving the confirmed
pointer, attaching a block from layer 1 and the refinement mapping need only equality at
one place. Deposits: no cell is spent twice on layer 1 and its pool; while the loop runs
the cells of attached blocks are spent there or locked in the local cells (`DeadInv`);
and what the mem pool has chosen is in no block up to the tip it was chosen on, wherever
that tip is now (`MemInv`), which is what a revert between choosing and producing needs.

The hypotheses are no comfort: `QuietL1` says that layer 1 does not reorganise below
confirmed blocks, without which confirmed blocks do disappear; `PromptAbort` that an
aborted submit task writes nothing afterwards, without which the code stores a
submission for a block that was just replaced; `NoStop` that there is no graceful
stop between committing a block and resetting the mem pool, which saves deposits that
are packed already (see "Other divergences").

### The scripts: `RollupProofs`

| Theorem | States | Hypotheses |
|---|---|---|
| `ScriptsImplementChain` | `Rollup` implements `RollupChain` | |
| `RollupTypeCorrect` | `TypeOK`; all cells together never hold more than was deposited | |
| `FinalBlocksStay` | `FinalNotTaken`: no block is taken out that is final at that moment | |
| `StakesOutlastBlocks` | outside a revert a stake opens only when its owner's blocks are final | timepoints of one form |
| `CustodiansBackAccounts` | `Backed`: custodians cover what the accounts of layer 2 hold | |

The refinement needs that the blocks of the chain sit at the place of their number, so
that the challenged block's number cuts the chain right before it (`ShapeInv`).
Finality (`FinalInv`): timestamps grow along the chain, and a challenge is on a block
that is not final, because version, timepoint and tip stand still until it is answered;
so a revert, which takes the challenged block and everything after it, takes no block
that is final. Nothing is said of the timepoint itself: a revert may move it back, and
what was final is then open to the next challenge.

`Backed` speaks about the tip only and is not inductive: a revert makes an older block
the tip. `BackInv` states it for every place of the chain to which a revert could
return. As the timepoint may move back that is every place, also one before blocks whose
custodians were spent as final: the cells up to that place and the withdrawal cells
of everything reverted or behind it hold at least what the accounts held there, and
exactly that if no custodian of a block that would be gone was spent as final. A
submission moves such a custodian from its block to the merged cell, which counts at
every place, so it can only add to what covers an older place; its own withdrawal cell
counts among those that could come back. The sums rest on lemmas about `Total` (union,
removal, splitting, non-negative parts), and on `AmountInv`, which bounds deposits,
custodians and withdrawals together.

`OneForm` (all versions count in timestamps, or all in block numbers) is necessary for the
stakes: a stake locked until a block number opens under timestamps while its block can
still be challenged.

### The node that follows the rollup cell: `ChainSyncProofs`

| Theorem | States |
|---|---|
| `SyncInductive` | the list of rollup transactions is a run of `RollupChain`; the store is the one after one of them |
| `SyncedNodeAgrees` | `FollowsL1`: a node that has applied every transaction agrees with the rollup cell |
| `OnlyWrongBlocksChallenged` | `ActsOnWrongBlocks`: the challenger acts against wrong blocks only |

The store may be ahead of the pass that is under way, because a pass starts over from the
last valid block. The invariant says that the store is the one after some transaction q
of the list, and that a pass that is behind q cannot get past a submission or a revert,
because the checks against the parent, the block tree and the reverted tree refuse
them; so a pass that reaches the end of the list leaves the store at the end.

### Read-only nodes: `BlockSyncProofs`

| Theorem | States |
|---|---|
| `BlockSyncInductive` | identities are made once; confirmations and reverts carry what layer 1 holds, wherever they wait |
| `ConfirmedReachesClients` | `ClientConfirmedOnL1` |
| `FollowInductive` | the invariant `FollowInv` of buffer, session and what the waiting messages will do |
| `CaughtUpNodesHaveChain` | `CaughtUpHasChain` |
| `MemBlocksOnParent` | `MemBlockOnParent` |
| `ConfirmedBlocksHaveHash` | `ConfirmedHasHash` |

None of them has a hypothesis on when layer 1 commits what was sent.

An identity names one block with one parent, so two chains with the same identity at
a number agree up to it (`SameIdentity`), and `check_number_hash`, which compares one
hash, compares the whole chain. The rest is that every way a message travels (broadcast,
buffer, resent to a later session, skipping of mem pool messages, a cut session)
keeps what it says true, since layer 1 only grows.

The other theorems are about the future of a session, so the invariant replays it. A
*view* is what messages change of a read-only node: its chain, its confirmed block, the
numbers with a submit transaction hash. `Follow(Now, chan, session, Ending)` says that
from the view of now the waiting messages are applied one after another until the first
one that does not fit (then the node disconnects), that each is safe to apply (`Step`: a
mem block for the next number is on the tip, a local block is above the confirmed one, a
block whose confirmation is applied has its hash), and that a live session that applies
all of them ends in `Ending`: the full node's chain, or a part of it below a tip that was
adopted and not published (`Tracks`), with the hash of every block that was announced as
submitted and is not confirmed yet (`Due`, `Backed`). Blocks that layer 1 holds are not
among them: it may hold a block that was never announced. `Tracks` counts the block that is published
and not committed, because the mem block of its commit follows it in the session.

Every step of the full node then has to show that what it sends is safe in each view of
`Ending` and leads to the new `Ending`; a step of the read-only node consumes the head of
the replay; `SkipMemPool` drops messages that change no view. The hard step is
`Subscribe`, where the replay starts from a buffer: `Shape` says that an entry opens with
its block and announces its submission before its confirmation; `Covered` that the local
blocks that are not confirmed are all in the buffer, and that a block behind them, which
was published and not stored, was never sent to layer 1. With `ConfirmedFresh`, `Linked`
and `Announced`, which `stale` records, the resent messages lead to `Ending`
(`ResumedStep`, `ResumedBacked`, `ResumedTracks`). `Holes` bounds where a confirmed block
may be without its hash, from one session to the next.

### Mem pool: `MemPoolProofs`

| Theorem | States |
|---|---|
| `MemBlockExecutesHolds` | `MemBlockExecutes`: the mem block replays on its tip |
| `MemBlockStoredHolds` | `MemBlockStored`: what a block would pack is in the database |
| `InputsStayOrderedHolds` | `InputsStayOrdered`: the assertion of `prepare_next_mem_block` on the order of nonces never fails |
| `RestartsKeepMemBlock` | `RestartKeepsMemBlock`: a stop and a start give the mem block back |
| `ResetsKeepTxs` | `ResetKeepsTxs`: a reset loses no transaction that the new branch has not overtaken |

They hold for every finite set of accounts, all limits, every set of requests that may
fail and every set of disturbances. The invariant `Inv` is about two things. `Store`:
every block the store has seen, also an abandoned one, executes on its parent and
yields its post-state. `GoodPool`: the mem block executes on the block the pool stands
on (which need not be the store's tip) and yields the pool's nonces, its transactions are
in the database, a pending withdrawal that is not there is behind one with a higher nonce
(`PendKept`), and withdrawals of the mem block are there if the list is sorted (`WdsKept`). It holds of a process
that is down too, since the database and the file outlive it. `PendKept` is what makes
`MemBlockStored` inductive: `finalize_withdrawals` skips the insertion for a request that
is pending.

A reset is followed through its parts: dropping lower nonces, packaging, finalizing,
pushing again. The order assertion and `ResetKeepsTxs` need in addition that a path of
blocks, and the mem block after it, hold the nonces of one account without a gap and in
order from the fork on; what the new branch contains of them is a lower part, so what is
left is again a run without a gap, and it is refused for want of room only.

### Fee queue: `FeeQueueProofs`

| Theorem | States |
|---|---|
| `QueueStaysBounded` | the queue never exceeds its capacity |
| `BatchesInFeeOrder` | executable requests leave in the order of their fees |
| `BatchesInNonceOrder` | requests of one sender leave in consecutive nonce order |
| `MapMatchesHandles` | a request is in the map of requests in queue exactly while one place holds its handle |

The key is that `FeeItem::cmp` orders by cross-multiplied fee rates, which is transitive
(`FractionsTransitive`), and that keys that compare equal agree in fee, cycles, order
and nonce (`EqualKeys`). All four hold for colliding requests too: the handle that is
overwritten leaves the map. What a collision breaks is that the surviving handle belongs
to the request that will be executed (`FeeQueueCollision`).

### State: `StateDbProofs`

| Theorem | States |
|---|---|
| `StateDbInductive`, `StateDbTypeCorrect` | the invariant of the state layers, and their types |
| `TreeIsTheTipState` | the tree is the state after the tip |
| `HistoryIsExact` | a read at block n through the reverse index gives the value after block n |
| `LiveSnapshotsRestore` | reverting to a live snapshot gives the state at which it was taken |

The reverse index holds exactly the recorded pairs and nothing above the tip, and undoing
the newest record of a key gives the one before it; a journal entry holds the value that
its undoing restores.

### Only model-checked

- Liveness (`EventuallyAllConfirmed`, `EventuallySettled`, `EventuallyFollows`,
  `WrongBlockChallenged`, `RightChainFreed`): fairness is out of the prover's reach.
- The three properties of the runs that end in a violation: TLC shows the behaviour.

## Plan

Every safety property that a passing run checks is stated by a theorem. What could come
next is more of the system: the withdrawal unlocker's retries, the deposits of the mem
pool together with its requests (`Psc` has the former, `MemPool` the latter), and several
senders of p2p messages.

## Not modelled

- The withdrawal unlocker's task: it sends `UnlockWithdrawal` of `Rollup` and keeps only
  the set of transactions in flight.
- Generator, backends and Polyjuice: RISC-V and EVM interpreters. The state transition
  function is data here: a block is right or wrong, a request executes or not.
- The sparse Merkle tree and signatures: assumed to be collision free and unforgeable.
- Molecule types (more than 40,000 generated lines), RPC parsing and read methods, p2p
  transport, RocksDB, the web3 indexer and API, tools, metrics, configuration: generated
  code, I/O or plumbing without protocol state. They are most of the repository's lines,
  so the map covers a small share of it while it covers most of `psc.rs`, `sync_l1.rs`,
  `chain.rs`, `pool.rs`, the fee queue, the block sync, the state validator and the state
  layers.
