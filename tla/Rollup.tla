------------------------------- MODULE Rollup -------------------------------
(***************************************************************************)
(* The rollup as its layer-1 scripts enforce it: the state validator       *)
(* (submit block, enter challenge, cancel challenge, revert) and the       *)
(* deposit, custodian, withdrawal, stake and challenge locks.  Every       *)
(* action is one layer-1 transaction that all the scripts it runs accept;  *)
(* a transaction a script rejects is a step that does not exist.           *)
(*                                                                         *)
(* Block submissions are the ones compose_submit_tx of the block producer  *)
(* builds.  Challenges, cancellations and reverts may come from anyone.    *)
(*                                                                         *)
(* A block is an index into `blocks`, which stands for its hash.  Assets   *)
(* are one fungible token: what a deposit, a custodian and a withdrawal    *)
(* cell hold, and what the accounts of layer 2 hold together.  Merkle      *)
(* proofs are membership in the set the root commits to.                   *)
(***************************************************************************)
EXTENDS Integers, Sequences, FiniteSets, FiniteSetsExt

CONSTANTS Producers,        \* owners of stake cells
          Versions,         \* values of GlobalState.version in use
          FinalityBlocks,   \* RollupConfig.finality_blocks
          FinalityTime,     \* finality_time_in_ms, in ticks
          Maturity,         \* RollupConfig.challenge_maturity_blocks, in ticks
          MaxReverted,      \* MAX_REVERTED_BLOCKS
          Deposited,        \* bound: tokens in deposit cells at the start
          MaxBlocks,        \* bound: blocks ever submitted, genesis included
          MaxTime,          \* bound: layer-1 time
          NoStake,
          NoChallenge

ASSUME RollupConstants ==
    /\ Versions \subseteq 0..2 /\ Versions # {}
    /\ {FinalityBlocks, FinalityTime, Maturity, Deposited, MaxTime} \subseteq Nat
    /\ MaxReverted \in Nat \ {0} /\ MaxBlocks \in Nat \ {0} /\ MaxTime # 0
    /\ NoStake \notin [flag : 0..1, value : Nat] /\ NoStake \notin Producers
    /\ NoChallenge \notin [target : Nat, at : Nat]

VARIABLES now,          \* layer-1 time: one tick is one layer-1 block
          blocks,       \* every block that was ever submitted
          chain,        \* GlobalState.block and tip_block_hash
          status,       \* GlobalState.status
          version,      \* GlobalState.version
          lft,          \* GlobalState.last_finalized_timepoint
          reverted,     \* GlobalState.reverted_block_root
          deposits,     \* tokens in deposit cells
          custodian,    \* tokens in custodian cells, by deposit_block_hash
          withdrawal,   \* tokens in withdrawal cells, by withdrawal_block_hash
          stake,        \* stake_finalized_timepoint of each owner's stake cell
          challenge,    \* the challenge cell
          paid,         \* blocks whose withdrawals their owners have received
          merged        \* history: blocks whose custodian cells were spent as final

vars == <<now, blocks, chain, status, version, lft, reverted, deposits,
          custodian, withdrawal, stake, challenge, paid, merged>>

state == <<chain, status, version, lft, reverted>>      \* the rollup cell

Genesis == 1
Merged  == 0            \* deposit_block_hash 0: FINALIZED_BLOCK_HASH
Ids     == 1..MaxBlocks

Submitted(b) == b \in 1..Len(blocks)
InChain(b)   == \E i \in 1..Len(chain) : chain[i] = b
Tip          == chain[Len(chain)]
TipNumber    == Len(chain) - 1

-----------------------------------------------------------------------------
(* Timepoints: a u64 whose highest bit says what the rest means.           *)

BlockNumber(n) == [flag |-> 0, value |-> n]
Timestamp(t)   == [flag |-> 1, value |-> t]

\* Comparison of full values.
LeqTimepoint(s, t) == s.flag < t.flag \/ (s.flag = t.flag /\ s.value <= t.value)

UseTimestamp(v) == v >= 2

FinalizedTimepoint(v, b) ==
    IF UseTimestamp(v) THEN Timestamp(blocks[b].ts + FinalityTime)
                       ELSE BlockNumber(blocks[b].number)

IsFinalized(t) ==
    IF t.flag = 0 THEN t.value + FinalityBlocks <= TipNumber
                  ELSE lft.flag = 1 /\ t.value <= lft.value

\* What the challenge path takes for a finalized block: the block's timepoint
\* in the form of the rollup's current version.
BlockFinal(b) == IsFinalized(FinalizedTimepoint(version, b))

\* The timepoint in the args of the cells that belong to block b.
CellTimepoint(b) ==
    IF b = Merged THEN BlockNumber(0) ELSE FinalizedTimepoint(blocks[b].version, b)

CellFinal(b) == IsFinalized(CellTimepoint(b))

Total(f, S) == MapThenSumSet(LAMBDA b : f[b], S)

-----------------------------------------------------------------------------
(* What block the producer submits and which cells its transaction moves.  *)

\* Finalized custodian cells; the ones of reverted blocks are not among them
\* because compose_submit_tx would spend such a cell twice.
FinalizedCustodians == {c \in {Merged} \cup {b \in Ids : InChain(b)} :
                            custodian[c] > 0 /\ CellFinal(c)}

RevertedCustodians  == {b \in reverted : custodian[b] > 0}
RevertedWithdrawals == {b \in reverted : withdrawal[b] > 0}

\* prev_global_state <= post_global_state, and the form the version asks for.
\* The producer announces the block's own timestamp.
NextFinalized(v, ts) ==
    IF UseTimestamp(v)
    THEN Timestamp(ts)
    ELSE BlockNumber(IF Len(chain) > FinalityBlocks THEN Len(chain) - FinalityBlocks ELSE 0)

\* check_block_timestamp and check_global_state_*: the transaction's since is
\* the current time; the tip timestamp grows.
TimestampAccepted(v, ts) ==
    /\ ts > blocks[Tip].ts
    /\ v >= 1 => ts < now
    /\ LeqTimepoint(lft, NextFinalized(v, ts))

\* Unfinalized custodians become the deposits they were, never anything else.
InputCustodiansAccepted(w) ==
    /\ \A b \in RevertedCustodians : ~CellFinal(b)
    /\ w > 0 => w <= Total(custodian, FinalizedCustodians)

\* Mutant: merging the finalized custodians does not take off what is withdrawn.
MergedAfterUnpaid(w) ==
    (IF w > 0 THEN Total(custodian, FinalizedCustodians \cup {Merged}) ELSE custodian[Merged])
        + Total(withdrawal, RevertedWithdrawals)

\* The custodian cells that are put back carry timepoint 0 and must count as
\* finalized.
MergedAfter(w) ==
    (IF w > 0 THEN Total(custodian, FinalizedCustodians \cup {Merged}) - w
              ELSE custodian[Merged]) + Total(withdrawal, RevertedWithdrawals)

OutputCustodiansAccepted(w) ==
    MergedAfter(w) # (IF w > 0 THEN 0 ELSE custodian[Merged]) => CellFinal(Merged)

\* The producer's stake cell is locked until this block is finalized.
NextStakeTimepoint(v, ts) ==
    IF UseTimestamp(v) THEN Timestamp(ts + FinalityTime) ELSE BlockNumber(Len(chain))

\* Mutant: an existing stake cell keeps the timepoint of its first block.
NextStakeKept(p, v, ts) == IF stake[p] = NoStake THEN NextStakeTimepoint(v, ts) ELSE stake[p]

NextStake(p, v, ts) == NextStakeTimepoint(v, ts)

SubmitBlock(p, v, ts, ok, d, w) ==
    LET new == Len(blocks) + 1
        minted == IF ok THEN 0 ELSE 1
    IN  /\ status = "Running"
        /\ Len(blocks) < MaxBlocks
        /\ v >= version
        /\ TimestampAccepted(v, ts)
        /\ d <= deposits
        /\ w <= blocks[Tip].post
        /\ InputCustodiansAccepted(w)
        /\ OutputCustodiansAccepted(w)
        /\ blocks' = Append(blocks,
               [number |-> Len(chain), ts |-> ts, version |-> v, owner |-> p,
                ok |-> ok, post |-> blocks[Tip].post - w + d + minted])
        /\ chain' = Append(chain, new)
        /\ version' = v
        /\ lft' = NextFinalized(v, ts)
        /\ deposits' = deposits - d + Total(custodian, RevertedCustodians)
        /\ custodian' = [c \in DOMAIN custodian |->
               CASE c = new -> d
                 [] c = Merged -> MergedAfter(w)
                 [] c \in RevertedCustodians -> 0
                 [] w > 0 /\ c \in FinalizedCustodians \ {Merged} -> 0
                 [] OTHER -> custodian[c]]
        /\ withdrawal' = [b \in DOMAIN withdrawal |->
               CASE b = new -> w
                 [] b \in RevertedWithdrawals -> 0
                 [] OTHER -> withdrawal[b]]
        /\ stake' = [stake EXCEPT ![p] = NextStake(p, v, ts)]
        /\ merged' = merged \cup (IF w > 0 THEN FinalizedCustodians \ {Merged} ELSE {})
        /\ UNCHANGED <<now, status, reverted, challenge, paid>>

-----------------------------------------------------------------------------
(* Challenges.                                                             *)

\* Mutant: a final block can be challenged.
Challengeable(b) == InChain(b) /\ b # Genesis

\* The genesis block has no transaction to point at.
ChallengeTarget(b) == InChain(b) /\ b # Genesis /\ ~BlockFinal(b)

EnterChallenge(b) ==
    /\ status = "Running"
    /\ now + Maturity <= MaxTime        \* bound: the challenge can mature
    /\ ChallengeTarget(b)
    /\ status' = "Halting"
    /\ challenge' = [target |-> b, at |-> now]
    /\ UNCHANGED <<now, blocks, chain, version, lft, reverted, deposits,
                   custodian, withdrawal, stake, paid, merged>>

\* The challenge lock executes the target; it succeeds when the block is right.
CancelChallenge ==
    /\ status = "Halting"
    /\ blocks[challenge.target].ok
    /\ status' = "Running"
    /\ challenge' = NoChallenge
    /\ UNCHANGED <<now, blocks, chain, version, lft, reverted, deposits,
                   custodian, withdrawal, stake, paid, merged>>

ChallengeMature == now - challenge.at >= Maturity

\* Mutant: only the challenged block is presented.
RevertedBlocksTarget == <<challenge.target>>

\* The raw blocks a revert presents: the target and everything after it.
RevertedBlocks == SubSeq(chain, blocks[challenge.target].number + 1, Len(chain))

Parent(b) == chain[blocks[b].number]

\* The loop that checks that the blocks follow each other: prev_hash is the
\* first block's hash, and after each block the parent hash of that block.
Continuous(bs) ==
    LET prev_hash[i \in 1..Len(bs)] == IF i = 1 THEN bs[1] ELSE Parent(bs[i])
    IN  \A i \in 2..Len(bs) : Parent(bs[i]) = prev_hash[i - 1]

Owners(bs) == {blocks[bs[i]].owner : i \in 1..Len(bs)}

BlocksAccepted(bs) ==
    /\ Len(bs) <= MaxReverted
    /\ Continuous(bs)
    /\ \A i \in 1..Len(bs) : bs[i] \notin reverted

\* check_rewards: the stake cells of exactly these owners are spent.
StakesPresent(bs) == \A p \in Owners(bs) : stake[p] # NoStake

\* A timestamp is the rollup input's absolute since: the sender chooses it,
\* layer 1 only asks that it has passed, and nothing compares it with lft.
RevertedFinalized(n, since) ==
    IF UseTimestamp(version)
    THEN Timestamp(since)
    ELSE BlockNumber(IF n - 1 > FinalityBlocks THEN n - 1 - FinalityBlocks ELSE 0)

\* Mutant: the block count after the revert is one too large.
ChainUpTo(n) == SubSeq(chain, 1, n + 1)

\* block_count is the number of the first reverted block, its parent the tip.
ChainBefore(n) == SubSeq(chain, 1, n)

Revert(since) ==
    LET bs == RevertedBlocks
        n  == blocks[challenge.target].number
    IN  /\ status = "Halting"
        /\ since <= now
        /\ ChallengeMature
        /\ BlocksAccepted(bs)
        /\ StakesPresent(bs)
        /\ chain' = ChainBefore(n)
        /\ reverted' = reverted \cup {bs[i] : i \in 1..Len(bs)}
        /\ lft' = RevertedFinalized(n, since)
        /\ status' = "Running"
        /\ challenge' = NoChallenge
        /\ stake' = [p \in Producers |-> IF p \in Owners(bs) THEN NoStake ELSE stake[p]]
        /\ UNCHANGED <<now, blocks, version, deposits, custodian, withdrawal, paid, merged>>

-----------------------------------------------------------------------------
(* Locks that open without the rollup cell among the inputs.               *)

\* A withdrawal lock looks at the rollup state for a block number, and only
\* at the layer-1 time for a timestamp.
WithdrawalUnlockable(b) ==
    LET t == CellTimepoint(b)
    IN  IF t.flag = 0 THEN IsFinalized(t) ELSE t.value <= now

UnlockWithdrawal(b) ==
    /\ Submitted(b) /\ withdrawal[b] > 0
    /\ WithdrawalUnlockable(b)
    /\ withdrawal' = [withdrawal EXCEPT ![b] = 0]
    /\ paid' = paid \cup {b}
    /\ UNCHANGED <<now, blocks, state, deposits, custodian, stake, challenge, merged>>

StakeUnlockable(p) == stake[p] # NoStake /\ IsFinalized(stake[p])

UnlockStake(p) ==
    /\ StakeUnlockable(p)
    /\ stake' = [stake EXCEPT ![p] = NoStake]
    /\ UNCHANGED <<now, blocks, state, deposits, custodian, withdrawal, challenge, paid, merged>>

\* The owner of a deposit cell takes it back after its timeout.
CancelDeposit ==
    /\ deposits > 0
    /\ deposits' = deposits - 1
    /\ UNCHANGED <<now, blocks, state, custodian, withdrawal, stake, challenge, paid, merged>>

Tick ==
    /\ now < MaxTime
    /\ now' = now + 1
    /\ UNCHANGED <<blocks, state, deposits, custodian, withdrawal, stake, challenge, paid, merged>>

-----------------------------------------------------------------------------
Init ==
    /\ now = 1
    /\ blocks = <<[number |-> 0, ts |-> 0, version |-> 0, owner |-> NoStake,
                   ok |-> TRUE, post |-> 0]>>
    /\ chain = <<Genesis>>
    /\ status = "Running"
    /\ version \in Versions
    /\ lft = BlockNumber(0)
    /\ reverted = {}
    /\ deposits = Deposited
    /\ custodian = [c \in {Merged} \cup Ids |-> 0]
    /\ withdrawal = [b \in Ids |-> 0]
    /\ stake = [p \in Producers |-> NoStake]
    /\ challenge = NoChallenge
    /\ paid = {}
    /\ merged = {}

Next ==
    \/ \E p \in Producers, v \in Versions, ts \in 1..MaxTime, ok \in BOOLEAN,
          d \in 0..1, w \in 0..1 : SubmitBlock(p, v, ts, ok, d, w)
    \/ \E b \in Ids : EnterChallenge(b)
    \/ CancelChallenge
    \/ \E since \in 0..MaxTime : Revert(since)
    \/ \E b \in Ids : UnlockWithdrawal(b)
    \/ \E p \in Producers : UnlockStake(p)
    \/ CancelDeposit
    \/ Tick

Spec == Init /\ [][Next]_vars

\* Someone cancels the challenge of a right block and reverts a wrong one.
FairSpec == /\ Spec /\ WF_vars(CancelChallenge) /\ WF_vars(Tick)
            /\ WF_vars(\E since \in 0..MaxTime : Revert(since))

-----------------------------------------------------------------------------
(* The promise to the nodes that follow the rollup cell.                   *)

RC == INSTANCE RollupChain WITH
          right  <- [b \in 1..Len(blocks) |-> blocks[b].ok],
          halted <- IF challenge = NoChallenge THEN 0 ELSE challenge.target,
          undone <- reverted

\* Seen from a node, the scripts let the chain do nothing but grow, freeze
\* under a challenge, and then lose exactly the challenged block and its
\* successors: no lock, timeout or finality rule moves the chain otherwise,
\* and a right block is freed by every answer to its challenge.
FollowsRollupChain == RC!ChainSpecification

Timepoints == [flag : 0..1, value : 0..(MaxTime + FinalityTime)]

\* Every variable keeps the shape of the cell data it stands for.
TypeOK ==
    /\ now \in 1..MaxTime
    /\ Len(blocks) \in Ids
    /\ \A i \in 1..Len(chain) : Submitted(chain[i]) /\ blocks[chain[i]].number = i - 1
    /\ status \in {"Running", "Halting"} /\ version \in Versions
    /\ (status = "Halting") = (challenge # NoChallenge)
    /\ lft \in Timepoints
    /\ \A b \in reverted : Submitted(b) /\ ~InChain(b)
    /\ deposits \in 0..Deposited
    /\ custodian \in [{Merged} \cup Ids -> 0..Deposited]
    /\ withdrawal \in [Ids -> 0..Deposited]
    /\ stake \in [Producers -> Timepoints \cup {NoStake}]
    /\ paid \subseteq Ids /\ merged \subseteq Ids

Owed   == blocks[Tip].post
Backing == Total(custodian, {Merged} \cup {b \in Ids : InChain(b)})
               + Total(withdrawal, reverted)

\* What the accounts of layer 2 hold is backed by what custodian cells hold for
\* them, counting the withdrawal cells of reverted blocks that the next
\* submissions turn back into custodians, as long as no wrong block is in the
\* chain and no withdrawal was taken out of a block reverted afterwards.  The
\* two sides are equal unless a revert took a block whose custodian cells had
\* been spent as final: its deposits are then in the merged cells for good.
Backed ==
    (reverted \cap paid = {} /\ \A i \in 1..Len(chain) : blocks[chain[i]].ok)
        => Owed <= Backing /\ (reverted \cap merged = {} => Owed = Backing)

\* No transaction takes a block out of the chain that is final at that moment,
\* although only the challenge, and not the revert that follows it, looks at
\* finality, and a revert takes every block after the challenged one.
FinalNotTaken == [][\A b \in Ids : (InChain(b) /\ BlockFinal(b)) => InChain(b)']_vars

\* The owner's stake cell opens for the owner only when every block of the
\* owner that is still in the chain is beyond challenge.
StakeOutlastsBlocks ==
    [][\A p \in Producers :
          (stake[p] # NoStake /\ stake'[p] = NoStake /\ reverted' = reverted)
              => \A b \in Ids : (InChain(b) /\ b # Genesis /\ blocks[b].owner = p) => BlockFinal(b)]_vars

\* A challenge ends: it is cancelled, or the challenged block and all blocks
\* after it are reverted and their owners' stakes spent.
ChallengeEnds ==
    (status = "Halting" /\ StakesPresent(RevertedBlocks)) ~> (status = "Running")

=============================================================================
