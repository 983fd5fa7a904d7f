-------------------------------- MODULE Psc --------------------------------
(***************************************************************************)
(* The block producing, submitting and confirming state machine of a full  *)
(* node (crates/block-producer/src/psc.rs), the layer-1 synchronisation it *)
(* falls back to (sync_l1.rs), and what both change: the block store       *)
(* (store_transaction.rs), the local cells manager (local_cells.rs) and    *)
(* the deposits the mem pool will pack next (mem-pool/src/pool.rs).        *)
(*                                                                         *)
(* Three actors run concurrently: the main loop, the submit task and the   *)
(* confirm task.  A task reads the store once (a snapshot) and acts on it  *)
(* over several await points, while the main loop goes on producing blocks *)
(* and layer 1 goes on changing.  When a task fails with ShouldRevertError *)
(* or ShouldResyncError the main loop drops both tasks, reverts blocks,    *)
(* synchronises with layer 1 and starts over.                              *)
(*                                                                         *)
(* The store is the sequence of attached blocks with the two persistent    *)
(* pointers; block n is chain[n] and genesis (number and identity 0) is    *)
(* implicit.                                                               *)
(***************************************************************************)
EXTENDS Ckb

CONSTANTS
    LocalLimit,         \* PscConfig.local_limit
    SubmittedLimit,     \* PscConfig.submitted_limit
    NoTx,               \* absence of a transaction
    Faults,             \* kinds of disturbance the environment may cause
    MaxFaults,          \* bound: number of disturbances
    LateAbort           \* an aborted submit task may finish the write it is executing

ASSUME LimitsAssumption ==
    /\ LocalLimit \in Nat \ {0}
    /\ SubmittedLimit \in Nat \ {0}

ASSUME FaultsAssumption == MaxFaults \in Nat /\ LateAbort \in BOOLEAN

ASSUME NoTxAssumption == NoTx \notin Txs

VARIABLES
    chain,          \* attached blocks by number (last valid tip: the last one)
    lastSub,        \* META_LAST_SUBMITTED_BLOCK_NUMBER_HASH
    lastConf,       \* META_LAST_CONFIRMED_BLOCK_NUMBER_HASH
    subTx,          \* COLUMN_BLOCK_SUBMIT_TX
    savedDeps       \* deposits of the mem block file written by a graceful stop

storeVars == <<chain, lastSub, lastConf, subTx, savedDeps>>

VARIABLES
    pc,             \* control of the main loop
    target,         \* argument of the ShouldRevertError being handled
    cause,          \* who raised it
    localCount,     \* ProduceSubmitConfirm.local_count
    submittedCount, \* ProduceSubmitConfirm.submitted_count
    todo,           \* page of rollup transactions sync_l1_unknown has still to apply
    sub,            \* the submit task
    con,            \* the confirm task
    late            \* the write of an aborted submit task that is still running

VARIABLES
    deadDeps,       \* LocalCellsManager.dead_cells: deposit cells
    deadCells,      \* LocalCellsManager.dead_cells: rollup cells
    liveCells,      \* LocalCellsManager.local_live_cells: rollup cells
    memTip,         \* MemPool.current_tip
    memDeps         \* MemPool.pending_deposits, packed into the next block

VARIABLES
    nextId,         \* identity of the next block anyone creates
    faults          \* disturbances so far

mainVars  == <<pc, target, cause, localCount, submittedCount, todo>>
taskVars  == <<sub, con, late>>
cellVars  == <<deadDeps, deadCells, liveCells>>
poolVars  == <<memTip, memDeps>>
boundVars == <<nextId, faults>>
vars == <<ckbVars, storeVars, mainVars, taskVars, cellVars, poolVars, boundVars>>

SubmitSteps  == {"idle", "snap", "compose", "save", "apply", "check", "send",
                 "done", "resync", "revert"}
ConfirmSteps == {"idle", "snap", "poll", "done", "resync", "revert"}

Idle == [st |-> "idle", n |-> 0, conf |-> 0, tx |-> NoTx]

SubmitTasks  == [st : SubmitSteps, n : Nat, conf : Nat, tx : Txs \cup {NoTx}]
ConfirmTasks == [st : ConfirmSteps, n : Nat, conf : Nat, tx : Txs \cup {NoTx}]

StoreTypeOK ==
    /\ chain \in Seq(Blocks)
    /\ lastSub \in Nat /\ lastConf \in Nat
    /\ subTx \in [Ids -> Txs \cup {NoTx}]
    /\ savedDeps \subseteq Deposits

MainTypeOK ==
    /\ pc \in {"loop", "notify", "revert", "sync", "update", "reset", "halt"}
    /\ target \in Nat
    /\ cause \in {"task", "local", "submitted"}
    /\ localCount \in Nat /\ submittedCount \in Nat
    /\ todo \in Seq(Txs)

TaskTypeOK ==
    /\ sub \in SubmitTasks
    /\ con \in ConfirmTasks
    /\ late \in Seq([n : Nat, tx : Txs \cup {NoTx}])

CellTypeOK ==
    /\ deadDeps \subseteq Deposits
    /\ deadCells \subseteq 0..MaxBlocks /\ liveCells \subseteq 0..MaxBlocks
    /\ memTip \in 0..MaxBlocks /\ memDeps \subseteq Deposits

TypeOK ==
    /\ CkbTypeOK /\ StoreTypeOK /\ MainTypeOK /\ TaskTypeOK /\ CellTypeOK
    /\ nextId \in Nat \ {0} /\ faults \in Nat

Init ==
    /\ CkbInit
    /\ chain = <<>> /\ lastSub = 0 /\ lastConf = 0
    /\ subTx = [n \in Ids |-> NoTx]
    /\ savedDeps = {}
    /\ pc = "sync" /\ target = 0 /\ cause = "task"
    /\ localCount = 0 /\ submittedCount = 0 /\ todo = <<>>
    /\ sub = Idle /\ con = Idle /\ late = <<>>
    /\ deadDeps = {} /\ deadCells = {} /\ liveCells = {}
    /\ memTip = 0 /\ memDeps = {}
    /\ nextId = 1 /\ faults = 0

(***************************************************************************)
(* Store.                                                                  *)
(***************************************************************************)
TipId == IF chain = <<>> THEN 0 ELSE Last(chain).id

StoredTx(n) == IF n \in Ids THEN subTx[n] ELSE NoTx

Lower(pointer, k) == IF pointer > k THEN k ELSE pointer

\* Mutant: delete_submit_tx is forgotten.
DetachKeepsSubmitTx(k) ==
    /\ chain' = IF Len(chain) > k THEN SubSeq(chain, 1, k) ELSE chain
    /\ lastConf' = Lower(lastConf, k)
    /\ lastSub' = Lower(lastSub, k)
    /\ UNCHANGED subTx

\* Mutant: the last submitted pointer stays on a detached block.
DetachKeepsPointer(k) ==
    /\ chain' = IF Len(chain) > k THEN SubSeq(chain, 1, k) ELSE chain
    /\ lastConf' = Lower(lastConf, k)
    /\ UNCHANGED lastSub
    /\ subTx' = [n \in Ids |-> IF k < n /\ n <= Len(chain) THEN NoTx ELSE subTx[n]]

\* Detach every block above number k, newest first: the pointers move to the
\* parent of a detached block they point at, its submission is deleted.
Detach(k) ==
    /\ chain' = IF Len(chain) > k THEN SubSeq(chain, 1, k) ELSE chain
    /\ lastConf' = Lower(lastConf, k)
    /\ lastSub' = Lower(lastSub, k)
    /\ subTx' = [n \in Ids |-> IF k < n /\ n <= Len(chain) THEN NoTx ELSE subTx[n]]

\* Chain::process_block attaches the successor of the tip.
ProcessBlock(b) == b.par = TipId /\ chain' = Append(chain, b)

\* Attach a block that was read from layer 1; it is submitted and confirmed.
AttachFromL1(tx) ==
    /\ ProcessBlock(tx.blk)
    /\ lastSub' = Len(chain) + 1
    /\ lastConf' = Len(chain) + 1
    /\ subTx' = [subTx EXCEPT ![Len(chain) + 1] = tx]

(***************************************************************************)
(* Local cells manager and mem pool.                                       *)
(***************************************************************************)
\* The indexer's rollup cell, unless it is known to be dead.
IndexerCells == {L1Tip} \ deadCells

\* A rollup cell for the next submission: a local live one, else the indexer's.
RollupCells == IF liveCells # {} THEN liveCells ELSE IndexerCells

ApplyTx(tx) ==
    /\ deadDeps' = deadDeps \cup tx.blk.deps
    /\ deadCells' = deadCells \cup {tx.cell}
    /\ liveCells' = (liveCells \ {tx.cell}) \cup {tx.blk.id}

ConfirmTx(tx) ==
    /\ deadDeps' = deadDeps \ tx.blk.deps
    /\ deadCells' = deadCells \ {tx.cell}
    /\ UNCHANGED liveCells

DepositsOf(lo, hi) == UNION {chain[b].deps : b \in lo..hi}

\* Deposits are collected again from the indexer, without those the local cells
\* manager holds dead; limits and checks may leave any of them out.
RefreshDeposits(dead) == memDeps' \in SUBSET {d \in Deposits \ dead : DepositLive(d)}

\* MemPool::notify_new_tip resets the pool when the tip has changed.
NotifyNewTip(dead) ==
    IF memTip # TipId
    THEN memTip' = TipId /\ RefreshDeposits(dead)
    ELSE UNCHANGED poolVars

(***************************************************************************)
(* Main loop.                                                              *)
(***************************************************************************)
Running == pc \in {"loop", "notify"}

CanSubmit == localCount > 0 /\ submittedCount < SubmittedLimit

\* Mutant: the guard of the confirm task is dropped.
CanConfirmAlways == TRUE

CanConfirm == submittedCount > 0

SpawnSubmit ==
    /\ pc = "loop" /\ sub.st = "idle" /\ CanSubmit
    /\ sub' = [Idle EXCEPT !.st = "snap"]
    /\ UNCHANGED <<ckbVars, storeVars, mainVars, con, late, cellVars, poolVars, boundVars>>

SpawnConfirm ==
    /\ pc = "loop" /\ con.st = "idle" /\ CanConfirm
    /\ con' = [Idle EXCEPT !.st = "snap"]
    /\ UNCHANGED <<ckbVars, storeVars, mainVars, sub, late, cellVars, poolVars, boundVars>>

\* The produce branch up to the commit of the new local block.
ProduceLocalBlock ==
    /\ pc = "loop" /\ localCount < LocalLimit
    /\ nextId <= MaxBlocks /\ Len(chain) < MaxBlocks
    /\ ProcessBlock([id |-> nextId, num |-> Len(chain) + 1, par |-> memTip, deps |-> memDeps])
    /\ nextId' = nextId + 1
    /\ pc' = "notify"
    /\ UNCHANGED <<todo, ckbVars, lastSub, lastConf, subTx, savedDeps, target, cause, localCount,
                   submittedCount, taskVars, cellVars, poolVars, faults>>

\* Mutant: the mem pool is refreshed before the deposits are locked.
FinishBeforeLocking ==
    /\ pc = "notify"
    /\ deadDeps' = deadDeps \cup Last(chain).deps
    /\ NotifyNewTip(deadDeps)
    /\ localCount' = localCount + 1
    /\ pc' = "loop"
    /\ UNCHANGED <<todo, ckbVars, storeVars, target, cause, submittedCount, taskVars,
                   deadCells, liveCells, boundVars>>

\* ... and after it: lock its deposits, refresh the mem pool, count the block.
FinishLocalBlock ==
    /\ pc = "notify"
    /\ deadDeps' = deadDeps \cup Last(chain).deps
    /\ NotifyNewTip(deadDeps')
    /\ localCount' = localCount + 1
    /\ pc' = "loop"
    /\ UNCHANGED <<todo, ckbVars, storeVars, target, cause, submittedCount, taskVars,
                   deadCells, liveCells, boundVars>>

BlockSubmitted ==
    /\ pc = "loop" /\ sub.st = "done"
    /\ lastSub' = sub.n
    /\ localCount' = localCount - 1
    /\ submittedCount' = submittedCount + 1
    /\ sub' = Idle
    /\ UNCHANGED <<todo, ckbVars, chain, lastConf, subTx, savedDeps, pc, target, cause, con, late,
                   cellVars, poolVars, boundVars>>

BlockConfirmed ==
    /\ pc = "loop" /\ con.st = "done"
    /\ lastConf' = con.n
    /\ submittedCount' = submittedCount - 1
    /\ con' = Idle
    /\ UNCHANGED <<todo, ckbVars, chain, lastSub, subTx, savedDeps, pc, target, cause, localCount,
                   sub, late, cellVars, poolVars, boundVars>>

\* Mutant: the tasks are not aborted when run() returns.
AbortNothing == UNCHANGED taskVars

\* run() returns an error: its task handles are dropped, which aborts the tasks.
AbortTasks ==
    /\ sub' = Idle /\ con' = Idle
    /\ late' = IF LateAbort /\ sub.st = "save" THEN <<[n |-> sub.n, tx |-> sub.tx]>> ELSE <<>>

\* ShouldRevertError(n) reaches ProduceSubmitConfirm::run; n - 1 panics for n = 0.
RaiseRevert(n, who) ==
    /\ pc' = IF n = 0 THEN "halt" ELSE "revert"
    /\ target' = n /\ cause' = who
    /\ AbortTasks
    /\ UNCHANGED <<todo, ckbVars, storeVars, localCount, submittedCount, cellVars, poolVars, nextId>>

TaskShouldRevert ==
    /\ pc = "loop"
    /\ \E t \in {sub, con} : t.st = "revert" /\ RaiseRevert(t.n, "task")
    /\ UNCHANGED faults

TaskShouldResync ==
    /\ pc = "loop"
    /\ "resync" \in {sub.st, con.st}
    /\ pc' = "sync"
    /\ AbortTasks
    /\ UNCHANGED <<todo, ckbVars, storeVars, target, cause, localCount, submittedCount,
                   cellVars, poolVars, boundVars>>

Fault(kind) ==
    /\ kind \in Faults
    /\ faults < MaxFaults
    /\ faults' = faults + 1

\* SIGUSR1 and SIGUSR2.
SignalRevertLocal ==
    /\ pc = "loop" /\ Fault("sigusr1") /\ RaiseRevert(lastSub, "local")

SignalRevertSubmitted ==
    /\ pc = "loop" /\ Fault("sigusr2") /\ RaiseRevert(lastConf, "submitted")

(***************************************************************************)
(* Outcomes of send_transaction_or_check_inputs.                           *)
(***************************************************************************)
SendOk(tx) == InPool(tx) \/ Committed(tx) \/ (Resolves(tx) /\ ScriptSucceeds(tx))

Enqueue(tx) == pool' = IF InPool(tx) \/ Committed(tx) THEN pool ELSE Append(pool, tx)

\* The rollup cell is the first input that is checked.
UnknownCell(tx) == ~SendOk(tx) /\ ~Resolves(tx) /\ ~CellKnown(tx.cell)

DeadCell(tx) ==
    /\ ~SendOk(tx) /\ ~Resolves(tx) /\ CellKnown(tx.cell)
    /\ ~CellLive(tx.cell) \/ \E d \in tx.blk.deps : ~DepositLive(d)

(***************************************************************************)
(* Submit task.                                                            *)
(***************************************************************************)
SubmitStep(from, to) == Running /\ sub.st = from /\ sub' = [sub EXCEPT !.st = to]

\* submit_next_block: the block number and its stored transaction are read from
\* one snapshot.
SubmitSnap ==
    /\ Running /\ sub.st = "snap"
    /\ lastSub + 1 <= Len(chain)
    /\ sub' = [st    |-> IF StoredTx(lastSub + 1) = NoTx THEN "compose" ELSE "apply",
               n     |-> lastSub + 1,
               conf  |-> lastConf,
               tx    |-> StoredTx(lastSub + 1)]
    /\ UNCHANGED <<ckbVars, storeVars, mainVars, con, late, cellVars, poolVars, boundVars>>

SubmitCompose ==
    /\ Running /\ sub.st = "compose"
    /\ \E c \in RollupCells :
           sub' = [sub EXCEPT !.st = "save", !.tx = [blk |-> chain[sub.n], cell |-> c]]
    /\ UNCHANGED <<ckbVars, storeVars, mainVars, con, late, cellVars, poolVars, boundVars>>

\* TransactionSizeError.
SubmitOversize ==
    /\ SubmitStep("compose", "revert")
    /\ Fault("oversize")
    /\ UNCHANGED <<ckbVars, storeVars, mainVars, con, late, cellVars, poolVars, nextId>>

SubmitSave ==
    /\ SubmitStep("save", "apply")
    /\ subTx' = [subTx EXCEPT ![sub.n] = sub.tx]
    /\ UNCHANGED <<ckbVars, chain, lastSub, lastConf, savedDeps, mainVars, con, late,
                   cellVars, poolVars, boundVars>>

SubmitApply ==
    /\ SubmitStep("apply", "check")
    /\ ApplyTx(sub.tx)
    /\ UNCHANGED <<ckbVars, storeVars, mainVars, con, late, poolVars, boundVars>>

\* The deposit cells of the block must be live before the transaction is sent.
SubmitCheck ==
    /\ SubmitStep("check", IF \A d \in chain[sub.n].deps : DepositLive(d) THEN "send" ELSE "revert")
    /\ UNCHANGED <<ckbVars, storeVars, mainVars, con, late, cellVars, poolVars, boundVars>>

SubmitSend ==
    /\ SubmitStep("send", "done")
    /\ SendOk(sub.tx)
    /\ Enqueue(sub.tx)
    /\ UNCHANGED <<l1, cancelled, storeVars, mainVars, con, late, cellVars, poolVars, boundVars>>

\* An unknown cell means resynchronise for the first submission after the
\* confirmed block, retry for a later one; a dead cell means revert; any other
\* error means retry.
SubmitSendFails ==
    /\ sub.st = "send" /\ ~SendOk(sub.tx)
    /\ SubmitStep("send", IF UnknownCell(sub.tx) /\ sub.n = sub.conf + 1 THEN "resync"
                          ELSE IF DeadCell(sub.tx) THEN "revert" ELSE "snap")
    /\ UNCHANGED <<ckbVars, storeVars, mainVars, con, late, cellVars, poolVars, boundVars>>

\* check_cell looks for the consumer of a spent cell in 100 layer-1 blocks only:
\* beyond them the transaction does not recognise itself.
SubmitSendLost ==
    /\ SubmitStep("send", "revert")
    /\ Committed(sub.tx)
    /\ Fault("gap")
    /\ UNCHANGED <<ckbVars, storeVars, mainVars, con, late, cellVars, poolVars, nextId>>

(***************************************************************************)
(* Confirm task.                                                           *)
(***************************************************************************)
ConfirmStep(from, to) == Running /\ con.st = from /\ con' = [con EXCEPT !.st = to]

ConfirmSnap ==
    /\ Running /\ con.st = "snap"
    /\ lastConf + 1 <= Len(chain)
    /\ StoredTx(lastConf + 1) # NoTx
    /\ con' = [st |-> "poll", n |-> lastConf + 1, conf |-> lastConf, tx |-> StoredTx(lastConf + 1)]
    /\ UNCHANGED <<ckbVars, storeVars, mainVars, sub, late, cellVars, poolVars, boundVars>>

\* Mutant: a pending transaction counts as committed.
ConfirmPollPending ==
    /\ ConfirmStep("poll", "done")
    /\ Committed(con.tx) \/ InPool(con.tx)
    /\ ConfirmTx(con.tx)
    /\ UNCHANGED <<ckbVars, storeVars, mainVars, sub, late, poolVars, boundVars>>

ConfirmPoll ==
    /\ ConfirmStep("poll", "done")
    /\ Committed(con.tx)
    /\ ConfirmTx(con.tx)
    /\ UNCHANGED <<ckbVars, storeVars, mainVars, sub, late, poolVars, boundVars>>

\* Mutant: only a transaction that is still pending is sent again.
ConfirmResendPending ==
    /\ Running /\ con.st = "poll"
    /\ InPool(con.tx)
    /\ Enqueue(con.tx)
    /\ UNCHANGED <<l1, cancelled, storeVars, mainVars, taskVars, cellVars, poolVars, boundVars>>

\* A transaction that stays uncommitted is sent again.
ConfirmResend ==
    /\ Running /\ con.st = "poll"
    /\ ~Committed(con.tx) /\ ~InPool(con.tx) /\ SendOk(con.tx)
    /\ Enqueue(con.tx)
    /\ UNCHANGED <<l1, cancelled, storeVars, mainVars, taskVars, cellVars, poolVars, boundVars>>

ConfirmResendFails ==
    /\ con.st = "poll" /\ ~SendOk(con.tx)
    /\ ConfirmStep("poll", IF UnknownCell(con.tx) THEN "resync"
                           ELSE IF DeadCell(con.tx) THEN "revert" ELSE "snap")
    /\ UNCHANGED <<ckbVars, storeVars, mainVars, sub, late, cellVars, poolVars, boundVars>>

\* An RPC of a task fails: it starts over from a new snapshot.
TaskRpcFails ==
    /\ Running /\ Fault("rpc")
    /\ \/ /\ sub.st \in {"compose", "check", "send"}
          /\ sub' = [Idle EXCEPT !.st = "snap"] /\ UNCHANGED con
       \/ /\ con.st = "poll"
          /\ con' = [Idle EXCEPT !.st = "snap"] /\ UNCHANGED sub
    /\ UNCHANGED <<ckbVars, storeVars, mainVars, late, cellVars, poolVars, nextId>>

(***************************************************************************)
(* Reverting and synchronising with layer 1.                               *)
(***************************************************************************)
Revert ==
    /\ pc = "revert"
    /\ Detach(target - 1)
    /\ pc' = "sync"
    /\ UNCHANGED <<todo, ckbVars, savedDeps, target, cause, localCount, submittedCount, taskVars,
                   cellVars, poolVars, boundVars>>

\* The aborted submit task commits set_block_submit_tx, which had to wait for
\* the write lock the revert held.
LateSave ==
    /\ late # <<>> /\ pc \in {"revert", "sync"}
    /\ subTx' = [subTx EXCEPT ![Head(late).n] = Head(late).tx]
    /\ late' = <<>>
    /\ UNCHANGED <<ckbVars, chain, lastSub, lastConf, savedDeps, mainVars, sub, con,
                   cellVars, poolVars, boundVars>>

\* The submission of block n is the n-th rollup transaction on layer 1.
OnL1(n) == n = 0 \/ Committed(StoredTx(n))

\* m: the newest confirmed block whose submission is on layer 1.
LastOnL1(m) ==
    /\ OnL1(m)
    /\ \A k \in m + 1..lastConf : StoredTx(k) # NoTx /\ ~OnL1(k)

\* The next k rollup transactions after block m are known submissions.
KnownAfter(m, k) == \A i \in 1..k : l1[m + i] = StoredTx(m + i)

\* Mutant: the submissions that follow the last known block are not counted.
SyncKnownOldest ==
    /\ pc = "sync"
    /\ \E m \in 0..lastConf :
           /\ LastOnL1(m) /\ m <= Len(l1)
           /\ KnownAfter(m, Len(l1) - m)
           /\ lastConf' = m /\ lastSub' = m
    /\ pc' = "reset"
    /\ UNCHANGED <<todo, ckbVars, chain, subTx, savedDeps, target, cause, localCount,
                   submittedCount, taskVars, cellVars, poolVars, boundVars>>

\* Mutant: last submitted is not reset to last confirmed.
SyncKnownKeepsSubmitted ==
    /\ pc = "sync"
    /\ \E m \in 0..lastConf :
           /\ LastOnL1(m) /\ m <= Len(l1)
           /\ KnownAfter(m, Len(l1) - m)
    /\ lastConf' = Len(l1)
    /\ pc' = "reset"
    /\ UNCHANGED <<todo, ckbVars, chain, lastSub, subTx, savedDeps, target, cause, localCount,
                   submittedCount, taskVars, cellVars, poolVars, boundVars>>

\* Every rollup transaction is known: only the pointers change.
SyncKnown ==
    /\ pc = "sync"
    /\ \E m \in 0..lastConf :
           /\ LastOnL1(m) /\ m <= Len(l1)
           /\ KnownAfter(m, Len(l1) - m)
    /\ Len(l1) <= Len(chain)
    /\ lastConf' = Len(l1) /\ lastSub' = Len(l1)
    /\ pc' = "reset"
    /\ UNCHANGED <<todo, ckbVars, chain, subTx, savedDeps, target, cause, localCount, submittedCount,
                   taskVars, cellVars, poolVars, boundVars>>

\* An unknown one follows block m + k: revert to that block, then apply the rest.
SyncFork ==
    /\ pc = "sync"
    /\ \E m \in 0..lastConf, k \in 0..MaxBlocks :
           /\ LastOnL1(m) /\ m + k < Len(l1)
           /\ KnownAfter(m, k) /\ l1[m + k + 1] # StoredTx(m + k + 1)
           /\ Detach(m + k)
           /\ todo' = SubSeq(l1, m + k + 1, Len(l1))
    /\ pc' = "update"
    /\ UNCHANGED <<ckbVars, savedDeps, target, cause, localCount, submittedCount, taskVars,
                   cellVars, poolVars, boundVars>>

\* ChainUpdater::update_single for the next rollup transaction of the page.  It
\* asks CKB for the transaction whatever its status; an error starts sync_l1 over.
SyncUpdate ==
    /\ pc = "update" /\ todo # <<>> /\ Len(chain) < MaxBlocks
    /\ LET tx == Head(todo)
       IN  IF (Committed(tx) \/ InPool(tx)) /\ tx.blk.par = TipId
           THEN AttachFromL1(tx) /\ todo' = Tail(todo) /\ UNCHANGED pc
           ELSE pc' = "sync" /\ todo' = <<>> /\ UNCHANGED <<chain, lastSub, lastConf, subTx>>
    /\ UNCHANGED <<ckbVars, savedDeps, target, cause, localCount, submittedCount, taskVars,
                   cellVars, poolVars, boundVars>>

\* The next page of the indexer; an empty one ends the synchronisation.
SyncPage ==
    /\ pc = "update" /\ todo = <<>>
    /\ todo' = SubSeq(l1, Len(chain) + 1, Len(l1))
    /\ pc' = IF Len(l1) > Len(chain) THEN "update" ELSE "reset"
    /\ UNCHANGED <<ckbVars, storeVars, target, cause, localCount, submittedCount, taskVars,
                   cellVars, poolVars, boundVars>>

\* An RPC fails half way: sync_l1 starts over.
SyncFails ==
    /\ pc = "update" /\ Fault("rpc")
    /\ pc' = "sync" /\ todo' = <<>>
    /\ UNCHANGED <<ckbVars, storeVars, target, cause, localCount, submittedCount, taskVars,
                   cellVars, poolVars, nextId>>

\* Mutant: the mem pool is not told about the new tip.
ResetWithoutNotify ==
    /\ pc = "reset"
    /\ lastSub = lastConf
    /\ localCount' = Len(chain) - lastSub
    /\ submittedCount' = lastSub - lastConf
    /\ deadDeps' = DepositsOf(lastConf + 1, Len(chain))
    /\ deadCells' = {} /\ liveCells' = {}
    /\ late' = <<>>
    /\ pc' = "loop"
    /\ UNCHANGED <<todo, ckbVars, storeVars, target, cause, sub, con, poolVars, boundVars>>

\* Mutant: set_submitted_count is forgotten.
ResetKeepsSubmittedCount ==
    /\ pc = "reset"
    /\ lastSub = lastConf
    /\ localCount' = Len(chain) - lastSub
    /\ deadDeps' = DepositsOf(lastConf + 1, Len(chain))
    /\ deadCells' = {} /\ liveCells' = {}
    /\ NotifyNewTip(deadDeps')
    /\ late' = <<>>
    /\ pc' = "loop"
    /\ UNCHANGED <<todo, ckbVars, storeVars, target, cause, submittedCount, sub, con, boundVars>>

\* Counters, local cells and mem pool are rebuilt from the store.
Reset ==
    /\ pc = "reset"
    /\ lastSub = lastConf
    /\ localCount' = Len(chain) - lastSub
    /\ submittedCount' = lastSub - lastConf
    /\ deadDeps' = DepositsOf(lastConf + 1, Len(chain))
    /\ deadCells' = {} /\ liveCells' = {}
    /\ NotifyNewTip(deadDeps')
    /\ late' = <<>>
    /\ pc' = "loop"
    /\ UNCHANGED <<todo, ckbVars, storeVars, target, cause, sub, con, boundVars>>

(***************************************************************************)
(* Process start.  The mem pool takes its pending deposits from the newest *)
(* mem block file, whatever block that file was written for; files older   *)
(* than an hour are deleted.                                               *)
(***************************************************************************)
Boot(file) ==
    /\ pc' = "sync" /\ target' = 0 /\ cause' = "task"
    /\ localCount' = 0 /\ submittedCount' = 0 /\ todo' = <<>>
    /\ sub' = Idle /\ con' = Idle /\ late' = <<>>
    /\ deadDeps' = {} /\ deadCells' = {} /\ liveCells' = {}
    /\ memTip' = TipId /\ memDeps' = file
    /\ savedDeps' \in {file, {}}
    /\ UNCHANGED <<ckbVars, chain, lastSub, lastConf, subTx, nextId>>

Kill == Fault("kill") /\ Boot(savedDeps)

\* A graceful stop drops the mem pool, which saves its block.
Stop == Fault("stop") /\ Boot(memDeps)

Reboot == pc = "halt" /\ Boot(savedDeps) /\ UNCHANGED faults

(***************************************************************************)
(* Layer 1.                                                                *)
(***************************************************************************)
nodeVars == <<storeVars, mainVars, taskVars, cellVars, poolVars>>

MinerCommits == L1Commit /\ UNCHANGED <<nodeVars, boundVars>>

PoolDrops == Fault("drop") /\ L1Drop /\ UNCHANGED <<nodeVars, nextId>>

ChainReorgs == Fault("reorg") /\ L1Reorg /\ UNCHANGED <<nodeVars, nextId>>

OwnerCancels == Fault("cancel") /\ L1CancelDeposit /\ UNCHANGED <<nodeVars, nextId>>

\* A second full node submits a block of its own.
ForeignSubmits ==
    /\ Fault("foreign")
    /\ nextId <= MaxBlocks /\ Len(l1) < MaxBlocks
    /\ \E ds \in SUBSET {d \in Deposits : DepositLive(d)} :
           L1Foreign([id |-> nextId, num |-> Len(l1) + 1, par |-> L1Tip, deps |-> ds])
    /\ nextId' = nextId + 1
    /\ UNCHANGED nodeVars

SubmitTask ==
    \/ SubmitSnap \/ SubmitCompose \/ SubmitOversize \/ SubmitSave \/ SubmitApply
    \/ SubmitCheck \/ SubmitSend \/ SubmitSendFails \/ SubmitSendLost

ConfirmTask == ConfirmSnap \/ ConfirmPoll \/ ConfirmResend \/ ConfirmResendFails

MainLoop ==
    \/ SpawnSubmit \/ SpawnConfirm \/ ProduceLocalBlock \/ FinishLocalBlock
    \/ BlockSubmitted \/ BlockConfirmed \/ TaskShouldRevert \/ TaskShouldResync
    \/ SignalRevertLocal \/ SignalRevertSubmitted

Resynchronise ==
    \/ Revert \/ LateSave \/ SyncKnown \/ SyncFork \/ SyncUpdate \/ SyncPage \/ SyncFails \/ Reset

Process == Kill \/ Stop \/ Reboot

Layer1 == MinerCommits \/ PoolDrops \/ ChainReorgs \/ OwnerCancels \/ ForeignSubmits

Next == SubmitTask \/ ConfirmTask \/ TaskRpcFails \/ MainLoop \/ Resynchronise \/ Process \/ Layer1

Spec == Init /\ [][Next]_vars

(***************************************************************************)
(* Fairness: the tokio runtime keeps polling every task that is ready, the *)
(* main loop handles every branch of its select that stays ready, and CKB  *)
(* miners keep committing pool transactions.  Nothing is assumed of the    *)
(* produce timer or of the disturbances.                                   *)
(***************************************************************************)
Fairness ==
    /\ WF_vars(SubmitSnap) /\ WF_vars(SubmitCompose) /\ WF_vars(SubmitSave)
    /\ WF_vars(SubmitApply) /\ WF_vars(SubmitCheck)
    /\ WF_vars(SubmitSend) /\ WF_vars(SubmitSendFails)
    /\ WF_vars(ConfirmSnap) /\ WF_vars(ConfirmPoll)
    /\ WF_vars(ConfirmResend) /\ WF_vars(ConfirmResendFails)
    /\ WF_vars(SpawnSubmit) /\ WF_vars(SpawnConfirm) /\ WF_vars(FinishLocalBlock)
    /\ WF_vars(BlockSubmitted) /\ WF_vars(BlockConfirmed)
    /\ WF_vars(TaskShouldRevert) /\ WF_vars(TaskShouldResync)
    /\ WF_vars(Revert) /\ WF_vars(SyncKnown) /\ WF_vars(SyncFork)
    /\ WF_vars(SyncUpdate) /\ WF_vars(SyncPage) /\ WF_vars(Reset)
    /\ WF_vars(MinerCommits)

FairSpec == Spec /\ Fairness

(***************************************************************************)
(* Safety.                                                                 *)
(***************************************************************************)
\* The persistent pointers never pass each other or the tip, whatever is
\* reverted, resynchronised or restarted: otherwise the counters computed from
\* them underflow (psc.rs 154, 225).
PointersOrdered == lastConf <= lastSub /\ lastSub <= Len(chain)

\* The in-memory counters that gate producing, submitting and confirming agree
\* with the pointers in the store although tasks and main loop update them at
\* different times; a resynchronisation leaves nothing submitted (psc.rs 123, 190).
CountersAgree ==
    /\ pc \in {"loop", "notify"} =>
           /\ localCount + (IF pc = "notify" THEN 1 ELSE 0) = Len(chain) - lastSub
           /\ submittedCount = lastSub - lastConf
    /\ pc = "reset" => lastSub = lastConf

\* A task works on the block right after the pointer it will move, and that
\* block and, for confirming, its submission exist (the expect calls of
\* psc.rs 698-703), however late its result is handled.
TasksTargetNext ==
    /\ sub.st \notin {"idle", "snap"} => sub.n = lastSub + 1 /\ sub.n <= Len(chain)
    /\ con.st # "idle" => lastConf < lastSub /\ StoredTx(lastConf + 1) # NoTx
    /\ con.st \notin {"idle", "snap"} => con.n = lastConf + 1 /\ con.tx = StoredTx(con.n)

\* The mem pool builds on the tip of the store whenever a block may be produced:
\* the assert of generate_produce_block_param (produce_block.rs 265).
MemPoolOnTip == pc = "loop" => memTip = TipId

\* A stored or composed submission carries the block that is attached at its
\* number: no revert leaves a submission of a block that is gone.
SubTxMatches ==
    /\ \A n \in Ids : subTx[n] # NoTx => n <= Len(chain) /\ subTx[n].blk = chain[n]
    /\ sub.tx # NoTx /\ Running => sub.tx.blk = chain[sub.n]

\* Confirmed blocks are the blocks layer 1 holds at their number.
ConfirmedOnL1 == \A n \in 1..lastConf : n <= Len(l1) /\ l1[n].blk = chain[n]

\* No two blocks of the local chain process the same deposit cell, though the
\* deposits of a block are chosen while earlier blocks are only local, submitted
\* or just confirmed.
NoDoubleDeposit ==
    \A i, j \in 1..Len(chain) : i # j => chain[i].deps \cap chain[j].deps = {}

\* "don't revert if transaction input is consumed by itself" (CHANGELOG.md 74,
\* psc.rs 800): the submit task never asks to revert a block whose own
\* submission layer 1 has committed.
NoSelfRevert == sub.st = "revert" /\ sub.tx # NoTx => ~Committed(sub.tx)

(***************************************************************************)
(* Action properties.                                                      *)
(***************************************************************************)
\* When sync_l1 returns, every rollup transaction on layer 1 is a confirmed
\* local block and nothing else counts as confirmed ("Will update unknown
\* blocks from L1", sync_l1.rs 35).
SyncAdoptsL1 ==
    [][(pc \in {"sync", "update"} /\ pc' = "reset") =>
           (lastConf' = Len(l1) /\ \A n \in 1..Len(l1) : chain'[n] = l1[n].blk)]_vars

(***************************************************************************)
(* Refinement.                                                             *)
(***************************************************************************)
\* The abstract ledger behind the node: tasks, cells and counters are hidden,
\* submissions are the blocks they carry, everything outside the loop is one mode.
L == INSTANCE Ledger WITH
         Block <- Blocks,
         l1    <- [n \in DOMAIN l1 |-> l1[n].blk],
         mode  <- IF Running THEN "loop" ELSE "sync"

\* The whole state machine implements the abstract ledger: outside the loop nothing
\* is submitted or confirmed, inside it nothing is ever taken back, whatever order
\* the results of the tasks are handled in (psc.rs 236-353, sync_l1.rs 37-202).
LedgerSpec == L!LedgerSpecification

(***************************************************************************)
(* Liveness.                                                               *)
(***************************************************************************)
\* Every block that stays in the local chain is confirmed in the end, once
\* dropped transactions, cancelled deposits, failed requests, crashes and stops
\* have ended (unless a node reverted a block of its own that layer 1 holds).
EventuallyAllConfirmed == []NoSelfRevert => <>[](pc = "loop" /\ lastConf = Len(chain))
=============================================================================
