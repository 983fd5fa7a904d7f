------------------------------ MODULE MemPool ------------------------------
(***************************************************************************)
(* The mem pool of a full node (crates/mem-pool/src/pool.rs): requests are *)
(* executed on arrival and kept in the mem block; when the tip of the      *)
(* store has changed the mem block is rebuilt on the new tip from the      *)
(* requests of abandoned blocks, of the old mem block and of the pending   *)
(* lists; a restart rebuilds it from a file and from the database.         *)
(*                                                                         *)
(* Layer-2 state is reduced to account nonces: a request executes when its *)
(* nonce is the nonce of its account, and those in Unstable may also fail  *)
(* for any other reason (balance, custodians, cycles, allow lists).        *)
(*                                                                         *)
(* The store keeps every block ever processed; block b is blocks[b], and   *)
(* genesis is 0.                                                           *)
(***************************************************************************)
EXTENDS Integers, Sequences, FiniteSets, SequencesExt, FiniteSetsExt

CONSTANTS
    Accounts,
    MaxNonce,           \* bound: nonces of requests
    MaxTxs,             \* MemBlockConfig.max_txs
    MaxWithdrawals,     \* MemBlockConfig.max_withdrawals
    ReorgDepth,         \* 64 in reset_full
    Unstable,           \* requests whose execution may fail
    MaxBlocks,          \* bound: blocks ever created
    MaxPending,         \* bound: pending withdrawals of an account
    Faults,             \* kinds of disturbance: "foreign", "revert", "kill", "stop"
    MaxFaults           \* bound: number of disturbances

Requests == [kind : {"tx", "wd"}, acct : Accounts, nonce : 0..MaxNonce]
Txs == {r \in Requests : r.kind = "tx"}
Wds == {r \in Requests : r.kind = "wd"}

ASSUME MemPoolAssumption ==
    /\ IsFiniteSet(Accounts)
    /\ MaxTxs \in Nat \ {0} /\ MaxWithdrawals \in Nat \ {0}
    /\ ReorgDepth \in Nat /\ Unstable \subseteq Requests

VARIABLES
    blocks,     \* blocks by identity: parent, number, requests, nonces after it
    tip,        \* last valid tip block
    memTip,     \* MemPool.current_tip
    pool,       \* mem block, its state, pending lists, and the two database columns
    restored,   \* MemPool.pending_restored_tx_hashes
    file,       \* newest mem block file
    st,         \* "up", "locked" (while a new block holds the pool lock), "killed",
                \* "stopped", or the panic that ended the process: "lookup", "order"
    faults

vars == <<blocks, tip, memTip, pool, restored, file, st, faults>>

NoFile == [wds |-> <<>>, txs |-> <<>>]
NoneOf == [a \in Accounts |-> <<>>]
ZeroNonces == [a \in Accounts |-> 0]

Init ==
    /\ blocks = <<>> /\ tip = 0 /\ memTip = 0
    /\ pool = [nonce |-> ZeroNonces, wds |-> <<>>, txs |-> <<>>,
               pendWds |-> NoneOf, pendTxs |-> NoneOf, dbWds |-> {}, dbTxs |-> {}]
    /\ restored = <<>> /\ file = NoFile /\ st = "up" /\ faults = 0

Fault(kind) ==
    /\ kind \in Faults /\ faults < MaxFaults
    /\ faults' = faults + 1

\* Executions that fail during one step.
Failures == SUBSET Unstable

\* The members of rs that are in S, in their order (Vec::retain).
Retain(rs, S) ==
    LET kept[i \in 0..Len(rs)] ==
            IF i = 0 THEN <<>>
            ELSE IF rs[i] \in S THEN Append(kept[i-1], rs[i]) ELSE kept[i-1]
    IN  kept[Len(rs)]

(***************************************************************************)
(* Store.                                                                  *)
(***************************************************************************)
Post(b) == IF b = 0 THEN ZeroNonces ELSE blocks[b].post
Number(b) == IF b = 0 THEN 0 ELSE blocks[b].num

\* The blocks from genesis to b, by number.
Branch(b) ==
    LET path[c \in 0..Len(blocks)] ==
            IF c = 0 THEN <<>> ELSE Append(path[blocks[c].par], c)
    IN  path[b]

WithdrawalsOf(bs) == FlattenSeq([i \in DOMAIN bs |-> blocks[bs[i]].wds])
TransactionsOf(bs) == FlattenSeq([i \in DOMAIN bs |-> blocks[bs[i]].txs])

\* COLUMN_WITHDRAWAL_INFO: written by attach_block, deleted by detach_block.
Indexed(w) == w \in Range(WithdrawalsOf(Branch(tip)))

\* Nonces after a sequence of requests, each with the nonce of its account.
Executes(nonces, rs) ==
    \A i \in DOMAIN rs :
        rs[i].nonce = nonces[rs[i].acct]
                      + Cardinality({j \in 1..i-1 : rs[j].acct = rs[i].acct})

After(nonces, rs) ==
    [a \in Accounts |-> nonces[a] + Cardinality({i \in DOMAIN rs : rs[i].acct = a})]

NewBlock(ws, ts) ==
    /\ Len(blocks) < MaxBlocks
    /\ blocks' = Append(blocks, [par |-> tip, num |-> Number(tip) + 1, wds |-> ws, txs |-> ts,
                                 post |-> After(Post(tip), ws \o ts)])
    /\ tip' = Len(blocks) + 1

(***************************************************************************)
(* Pushing requests.  Each operator returns the pool after the call.       *)
(***************************************************************************)
\* push_transaction_with_db: a rejected transaction changes nothing.
PushTransaction(p, t, failing) ==
    IF \/ t \in Range(p.txs)
       \/ Len(p.txs) >= MaxTxs
       \/ t.nonce # p.nonce[t.acct]
       \/ t \in failing
    THEN p
    ELSE [p EXCEPT !.txs = Append(@, t), !.nonce[t.acct] = @ + 1,
                   !.dbTxs = @ \cup {t}, !.pendTxs[t.acct] = Append(@, t)]

\* Transactions pushed one after the other.
PushTransactions(p, ts, failing) ==
    LET run[i \in 0..Len(ts)] ==
            IF i = 0 THEN p ELSE PushTransaction(run[i-1], ts[i], failing)
    IN  run[Len(ts)]

\* push_withdrawal_request: only verified, executed by the next reset.
PushWithdrawalRequest(p, w, failing) ==
    IF w \in Range(p.wds) \/ w.nonce # p.nonce[w.acct] \/ w \in failing
    THEN p
    ELSE [p EXCEPT !.pendWds[w.acct] = Append(@, w), !.dbWds = @ \cup {w}]

\* Mutant: a reinjected withdrawal is not added to the database.
FinalizeOnly(p, w, failing) ==
    IF w.nonce # p.nonce[w.acct] \/ w \in failing
    THEN p
    ELSE [p EXCEPT !.wds = Append(@, w), !.nonce[w.acct] = @ + 1]

\* finalize_withdrawals for one withdrawal of the list.
FinalizeWithdrawal(p, w, failing) ==
    IF w.nonce # p.nonce[w.acct] \/ w \in failing
    THEN p
    ELSE LET q == [p EXCEPT !.wds = Append(@, w), !.nonce[w.acct] = @ + 1]
         IN  IF w \in Range(p.pendWds[w.acct])
             THEN q
             ELSE [q EXCEPT !.pendWds[w.acct] = Append(@, w), !.dbWds = @ \cup {w}]

\* finalize_withdrawals.
FinalizeWithdrawals(p, ws, failing) ==
    LET run[i \in 0..Len(ws)] ==
            IF i = 0 THEN p ELSE FinalizeWithdrawal(run[i-1], ws[i], failing)
    IN  run[Len(ws)]

(***************************************************************************)
(* Reset.                                                                  *)
(***************************************************************************)
\* Number of the newest common block of two branches.
ForkNumber(old, new) ==
    Max({0} \cup {n \in 1..Len(old) : n <= Len(new) /\ old[n] = new[n]})

\* A reorganisation is followed unless it is too deep.
Reorganises(old, new) ==
    /\ new = 0 \/ blocks[new].par # old
    /\ Number(old) - Number(new) \in -ReorgDepth..ReorgDepth

\* Mutant: the first abandoned block is skipped.
ReinjectSkipsOne(old, new) ==
    LET o == Branch(old)
        k == ForkNumber(o, Branch(new))
    IN  TransactionsOf(SubSeq(o, k + 2, Len(o)))

\* The abandoned transactions, oldest first, without those on the new branch.
ReinjectTxs(old, new) ==
    LET o == Branch(old)
        n == Branch(new)
        k == ForkNumber(o, n)
        included == Range(TransactionsOf(SubSeq(n, k + 1, Len(n))))
    IN  Retain(TransactionsOf(SubSeq(o, k + 1, Len(o))), Requests \ included)

\* Withdrawals of abandoned blocks no higher than the new tip are looked up in
\* the index of attached blocks; a missing one panics.
LookupPanics(old, new) ==
    LET o == Branch(old)
        n == Branch(new)
        same == SubSeq(o, ForkNumber(o, n) + 1, Min({Len(o), Len(n)}))
    IN  \E w \in Range(WithdrawalsOf(same)) : ~Indexed(w)

\* The loop over higher blocks of the new branch collects the withdrawals of the
\* old tip instead of theirs.
ReinjectWithdrawals(old, new) ==
    LET o == Branch(old)
        n == Branch(new)
        k == ForkNumber(o, n)
        included == Range(WithdrawalsOf(SubSeq(n, k + 1, Min({Len(o), Len(n)}))))
                    \cup IF Len(n) > Len(o) /\ old # 0 THEN Range(blocks[old].wds) ELSE {}
    IN  Retain(WithdrawalsOf(SubSeq(o, k + 1, Len(o))), Requests \ included)

\* Drop the leading requests of a pending list whose nonce is used up.
DropLower(rs, nonce) ==
    LET keep == {i \in DOMAIN rs : rs[i].nonce >= nonce}
    IN  IF keep = {} THEN <<>> ELSE SubSeq(rs, Min(keep), Len(rs))

Dropped(rs, kept) == Range(SubSeq(rs, 1, Len(rs) - Len(kept)))

\* remove_unexecutables; the accounts in poor have not enough balance for their
\* first pending withdrawal and lose all of them.
RemoveUnexecutables(p, nonces, poor) ==
    LET txs == [a \in Accounts |-> DropLower(p.pendTxs[a], nonces[a])]
        wds == [a \in Accounts |->
                    IF a \in poor THEN <<>> ELSE DropLower(p.pendWds[a], nonces[a])]
    IN  [p EXCEPT !.pendTxs = txs, !.pendWds = wds,
                  !.dbTxs = @ \ UNION {Dropped(p.pendTxs[a], txs[a]) : a \in Accounts},
                  !.dbWds = @ \ UNION {Dropped(p.pendWds[a], wds[a]) : a \in Accounts}]

CanExecute(nonces, rs) == Retain(rs, {r \in Requests : r.nonce >= nonces[r.acct]})

\* try_package_more_withdrawals: the first pending withdrawal of the accounts, in
\* any order, up to the limit.
PackageMore(p, nonces, ws, order) ==
    LET mine == CanExecute(nonces, ws)
        more == LET accts == Retain(order, {a \in Accounts : p.pendWds[a] # <<>>})
                IN  [i \in DOMAIN accts |-> Head(p.pendWds[accts[i]])]
    IN  IF Len(mine) >= MaxWithdrawals THEN mine
        ELSE mine \o SubSeq(more, 1, Min({Len(more), MaxWithdrawals - Len(mine)}))

\* The order check of prepare_next_mem_block: every later transaction of an
\* account has a higher nonce than its first one.
InputsOrdered(ts) ==
    \A i, j \in DOMAIN ts :
        (i < j /\ ts[i].acct = ts[j].acct /\ \A h \in 1..i-1 : ts[h].acct # ts[i].acct)
            => ts[i].nonce < ts[j].nonce

\* prepare_next_mem_block on an empty mem block whose state is that of the tip.
PrepareNextMemBlock(p, ws, ts, failing) ==
    PushTransactions(FinalizeWithdrawals(p, ws, failing), CanExecute(p.nonce, ts), failing)

\* Mutant: the state of the old mem block is kept.
ClearedKeepsState(p, nonces) == [p EXCEPT !.wds = <<>>, !.txs = <<>>]

\* The mem block is emptied and its state becomes that of the tip.
Cleared(p, nonces) == [p EXCEPT !.nonce = nonces, !.wds = <<>>, !.txs = <<>>]

Stored(rs, db) == Retain(rs, db)

\* Mutant: the mem block goes before the abandoned blocks.
MemBlockFirst(p, txs) == Stored(p.txs, p.dbTxs) \o txs

\* Transactions to execute again: of abandoned blocks, then of the mem block.
NextTxs(p, txs) == txs \o Stored(p.txs, p.dbTxs)

MaybePoor(p, nonces, failing) ==
    {a \in Accounts : LET ws == DropLower(p.pendWds[a], nonces[a])
                      IN  ws # <<>> /\ Head(ws) \in failing}

\* reset_full to the tip of the store.  wds and txs are the withdrawals and
\* transactions of abandoned blocks.
ResetTo(p, wds, txs, recovery) ==
    \E failing \in Failures, order \in SetToSeqs(Accounts) :
    \E poor \in SUBSET MaybePoor(p, Post(tip), failing) :
        LET nonces == Post(tip)
            q  == RemoveUnexecutables(Cleared(p, nonces), nonces, poor)
            ts == NextTxs(p, txs)
            ws == IF recovery THEN Stored(p.wds, p.dbWds)
                  ELSE PackageMore(q, nonces, wds, order)
        IN  /\ memTip' = tip
            /\ pool' = PrepareNextMemBlock(q, ws, ts, failing)
            /\ st' = IF InputsOrdered(CanExecute(nonces, ts)) THEN "up" ELSE "order"

(***************************************************************************)
(* Actions.                                                                *)
(***************************************************************************)
Up == st \in {"up", "locked"}

\* A request reaches the pool once the restored transactions are back in it.
Open == st = "up" /\ restored = <<>>

PushTx ==
    /\ Open
    /\ \E t \in Txs, failing \in Failures :
           /\ pool' = PushTransaction(pool, t, failing)
           /\ pool' # pool
    /\ UNCHANGED <<blocks, tip, memTip, restored, file, st, faults>>

PushWithdrawal ==
    /\ Open
    /\ \E w \in Wds, failing \in Failures :
           /\ Len(pool.pendWds[w.acct]) < MaxPending
           /\ pool' = PushWithdrawalRequest(pool, w, failing)
           /\ pool' # pool
    /\ UNCHANGED <<blocks, tip, memTip, restored, file, st, faults>>

\* The request submitter pushes the transactions of the restored mem block first.
RestoreTxs ==
    /\ st = "up" /\ restored # <<>>
    /\ \E failing \in Failures :
           pool' = PushTransactions(pool, Stored(restored, pool.dbTxs), failing)
    /\ restored' = <<>>
    /\ UNCHANGED <<blocks, tip, memTip, file, st, faults>>

\* A block of the first requests of the mem block; fewer when it would be too
\* large.  The pool stays locked until it is told about the new tip.
ProduceBlock ==
    /\ st = "up" /\ memTip = tip
    /\ Range(pool.wds) \subseteq pool.dbWds /\ Range(pool.txs) \subseteq pool.dbTxs
    /\ \E w \in 0..Len(pool.wds), t \in 0..Len(pool.txs) :
           /\ pool.wds # <<>> => w > 0
           /\ t > 0 => w = Len(pool.wds)
           /\ NewBlock(SubSeq(pool.wds, 1, w), SubSeq(pool.txs, 1, t))
    /\ st' = "locked"
    /\ UNCHANGED <<memTip, pool, restored, file, faults>>

\* psc.rs and sync_l1.rs move the tip of the store without the pool lock.
RevertBlock ==
    /\ st = "up" /\ tip # 0 /\ Fault("revert")
    /\ tip' = blocks[tip].par
    /\ UNCHANGED <<blocks, memTip, pool, restored, file, st>>

\* A block of another producer, or one that was reverted before.
AttachBlock ==
    /\ st = "up"
    /\ \/ /\ Fault("foreign")
          /\ \E rs \in BoundedSeq(Requests, 2) :
                 LET ws == Retain(rs, Wds)
                     ts == Retain(rs, Txs)
                 IN  rs = ws \o ts /\ Executes(Post(tip), rs) /\ NewBlock(ws, ts)
       \/ /\ tip' \in {b \in DOMAIN blocks : blocks[b].par = tip}
          /\ UNCHANGED <<blocks, faults>>
    /\ UNCHANGED <<memTip, pool, restored, file, st>>

\* MemPool::notify_new_tip.
NotifyNewTip ==
    /\ st \in {"up", "locked"} /\ memTip # tip
    /\ IF Reorganises(memTip, tip)
       THEN IF LookupPanics(memTip, tip)
            THEN st' = "lookup" /\ UNCHANGED <<memTip, pool>>
            ELSE ResetTo(pool, ReinjectWithdrawals(memTip, tip), ReinjectTxs(memTip, tip), FALSE)
       ELSE ResetTo(pool, <<>>, <<>>, FALSE)
    /\ UNCHANGED <<blocks, tip, restored, file, faults>>

\* The process dies, or stops and saves the mem block on drop.
Kill ==
    /\ st \in {"up", "locked"} /\ Fault("kill")
    /\ st' = "killed"
    /\ UNCHANGED <<blocks, tip, memTip, pool, restored, file>>

\* Mutant: the withdrawals are not saved.
SavedTxsOnly ==
    [wds |-> <<>>, txs |-> pool.txs]

\* save_mem_block: restored transactions that are not back yet are saved again.
Saved == [wds |-> pool.wds,
          txs |-> pool.txs \o Retain(restored, Requests \ Range(pool.txs))]

Stop ==
    /\ st \in {"up", "locked", "lookup", "order"} /\ Fault("stop")
    /\ st' = "stopped" /\ file' = Saved
    /\ UNCHANGED <<blocks, tip, memTip, pool, restored>>

\* MemPool::create: restore_pending_withdrawals, remove_reinjected_failed_txs,
\* then a reset in recovery mode.  Old files are deleted.
Restorable(w, failing) == w.nonce = Post(tip)[w.acct] /\ w \notin failing

Start ==
    /\ ~Up
    /\ \E failing \in Failures :
           LET queued == pool.dbWds \ Range(file.wds)
               valid  == {w \in queued : Restorable(w, failing)}
               p == [Cleared(pool, Post(tip)) EXCEPT
                         !.wds = file.wds,
                         !.pendTxs = NoneOf,
                         !.pendWds = [a \in Accounts |-> SetToSeq({w \in valid : w.acct = a})],
                         !.dbWds = @ \ (queued \ valid),
                         !.dbTxs = @ \cap Range(file.txs)]
           IN  ResetTo(p, <<>>, <<>>, TRUE)
    /\ restored' = file.txs
    /\ file' \in {file, NoFile}
    /\ UNCHANGED <<blocks, tip, faults>>

Next ==
    \/ PushTx \/ PushWithdrawal \/ RestoreTxs \/ ProduceBlock
    \/ RevertBlock \/ AttachBlock \/ NotifyNewTip
    \/ Kill \/ Stop \/ Start

Spec == Init /\ [][Next]_vars

(***************************************************************************)
(* Safety.                                                                 *)
(***************************************************************************)
\* The mem block can be replayed on the block it is built on and yields the state
\* new requests are checked against, however often it was rebuilt.
MemBlockExecutes ==
    Up => /\ Executes(Post(memTip), pool.wds \o pool.txs)
          /\ pool.nonce = After(Post(memTip), pool.wds \o pool.txs)

\* "withdrawals sorted by nonce" (types.rs 12): the order remove_lower_nonce_withdrawals
\* relies on.  A withdrawal that is pushed again after a revert breaks it.
Sorted(ws) == \A i, j \in DOMAIN ws : i < j => ws[i].nonce <= ws[j].nonce

\* Every request of the mem block is in the database, or no block could be
\* produced any more ("can't find tx_hash from mem pool", produce_block.rs 237).
\* Withdrawals are promised this as long as the pending list of their account is
\* sorted: a copy of a pending withdrawal may outlive its database entry behind
\* one with a higher nonce, and finalize_withdrawals then takes it for stored.
MemBlockStored ==
    Up => /\ Range(pool.txs) \subseteq pool.dbTxs
          /\ \A w \in Range(pool.wds) : Sorted(pool.pendWds[w.acct]) => w \in pool.dbWds

\* The assertion on the order of reinjected transactions (pool.rs 942) holds,
\* whatever was abandoned, restored or packed in part.
InputsStayOrdered == st # "order"

(***************************************************************************)
(* Action properties.                                                      *)
(***************************************************************************)
Resets == Up /\ Up' /\ memTip' # memTip

\* "Discarded txs & withdrawals will be reinject to pool" (pool.rs 543): a reset
\* keeps every transaction of the abandoned blocks and of the mem block that the
\* new branch has not overtaken, unless the mem block is full.  Accounts that
\* also withdraw, or whose requests may fail, are not promised anything.
ResetKeepsTxs ==
    [][Resets => \A t \in Range(TransactionsOf(Branch(memTip)) \o pool.txs) :
           \/ t.nonce < Post(memTip')[t.acct]
           \/ t \in Range(pool'.txs)
           \/ Len(pool'.txs) >= MaxTxs
           \/ Number(memTip) - Number(memTip') \notin -ReorgDepth..ReorgDepth
           \/ \E r \in Unstable \cup Range(WithdrawalsOf(Branch(memTip)) \o pool.wds \o pool'.wds) :
                  r.acct = t.acct]_vars

\* A graceful stop and the next start give the mem block back: its withdrawals at
\* once, its transactions executable when the request submitter pushes them
\* ("Simualte chain restart and restore mem block", tests/restore_mem_block.rs 183).
RestartKeepsMemBlock ==
    [][(/\ st = "stopped" /\ Up' /\ memTip = tip /\ restored = <<>> /\ Unstable = {}
        /\ Range(pool.wds) \subseteq pool.dbWds) =>
           /\ pool'.wds = pool.wds
           /\ restored' = pool.txs
           /\ Range(restored') \subseteq pool'.dbTxs
           /\ Executes(pool'.nonce, restored')]_vars
=============================================================================
