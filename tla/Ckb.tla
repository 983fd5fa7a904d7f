-------------------------------- MODULE Ckb --------------------------------
(***************************************************************************)
(* The layer-1 chain (CKB) as the block producer sees it through           *)
(* RPCClient.  It is external to the repository: only what psc.rs and      *)
(* sync_l1.rs ask of it is modelled, namely                                *)
(*   - the committed rollup transactions, in order (get_transaction_status,*)
(*     indexer get_transactions),                                          *)
(*   - the pool of sent, uncommitted rollup transactions (send_transaction *)
(*     accepts a transaction whose inputs resolve on chain or in the pool  *)
(*     and whose scripts succeed),                                         *)
(*   - which deposit cells are live.                                       *)
(*                                                                         *)
(* A rollup transaction [blk, cell] submits layer-2 block blk and consumes *)
(* the rollup cell created by the transaction that submitted block cell    *)
(* (0: the genesis cell).  Its other inputs are the deposit cells blk.deps.*)
(***************************************************************************)
EXTENDS Integers, Sequences, FiniteSets, SequencesExt

CONSTANTS
    Deposits,       \* deposit cells that users create on layer 1
    MaxBlocks       \* bound: layer-2 blocks ever created, local or foreign

ASSUME MaxBlocksAssumption == MaxBlocks \in Nat \ {0}

VARIABLES
    l1,             \* committed rollup transactions, oldest first
    pool,           \* sent, uncommitted rollup transactions: a chain on the tip of l1
    cancelled       \* deposit cells their owner has taken back

ckbVars == <<l1, pool, cancelled>>

Ids == 1..MaxBlocks

\* A layer-2 block: identity, number, parent identity, deposit cells it processes.
Blocks == [id : Ids, num : Ids, par : 0..MaxBlocks, deps : SUBSET Deposits]

Txs == [blk : Blocks, cell : 0..MaxBlocks]

\* The block whose submission created the live rollup cell.
L1Tip == IF l1 = <<>> THEN 0 ELSE Last(l1).blk.id

\* The newest rollup cell, pool included.
PoolTip == IF pool = <<>> THEN L1Tip ELSE Last(pool).blk.id

Committed(tx) == \E i \in DOMAIN l1 : l1[i] = tx

InPool(tx) == \E i \in DOMAIN pool : pool[i] = tx

DepositLive(d) ==
    /\ d \notin cancelled
    /\ \A i \in DOMAIN l1 : d \notin l1[i].blk.deps

DepositFree(d) == DepositLive(d) /\ \A i \in DOMAIN pool : d \notin pool[i].blk.deps

\* The rollup cell of block c is known to the chain: its transaction is committed.
CellKnown(c) == c = 0 \/ \E i \in DOMAIN l1 : l1[i].blk.id = c

CellLive(c) == c = L1Tip

\* All inputs of tx resolve, on chain or in the pool, and nothing else consumes them.
Resolves(tx) == tx.cell = PoolTip /\ \A d \in tx.blk.deps : DepositFree(d)

\* The state validator script succeeds: the block extends the block of the consumed cell.
ScriptSucceeds(tx) == tx.cell = tx.blk.par

CkbTypeOK == l1 \in Seq(Txs) /\ pool \in Seq(Txs) /\ cancelled \subseteq Deposits

CkbInit == l1 = <<>> /\ pool = <<>> /\ cancelled = {}

\* A miner commits the oldest pool transaction.
L1Commit ==
    /\ pool # <<>>
    /\ l1' = Append(l1, Head(pool))
    /\ pool' = Tail(pool)
    /\ UNCHANGED cancelled

\* CKB nodes may drop transactions of their pools; descendants go with them.
L1Drop ==
    /\ pool # <<>>
    /\ \E n \in 0..Len(pool) - 1 : pool' = SubSeq(pool, 1, n)
    /\ UNCHANGED <<l1, cancelled>>

\* A layer-1 reorganisation detaches the newest rollup transaction.  Its
\* transaction returns to the pool, or is lost with what depended on it.
L1Reorg ==
    /\ l1 # <<>>
    /\ l1' = Front(l1)
    /\ pool' \in {<<>>, <<Last(l1)>> \o pool}
    /\ UNCHANGED cancelled

\* Another full node submits block b; what the pool held on the same cell is evicted.
L1Foreign(b) ==
    /\ l1' = Append(l1, [blk |-> b, cell |-> b.par])
    /\ pool' = <<>>
    /\ UNCHANGED cancelled

\* The owner of a live deposit cell takes it back after its timeout; the pool
\* transaction that spends it is evicted with its descendants.
L1CancelDeposit ==
    \E d \in Deposits, n \in 0..Len(pool) :
        /\ DepositLive(d)
        /\ cancelled' = cancelled \cup {d}
        /\ \A i \in 1..n : d \notin pool[i].blk.deps
        /\ n < Len(pool) => d \in pool[n + 1].blk.deps
        /\ pool' = SubSeq(pool, 1, n)
        /\ UNCHANGED l1
=============================================================================
