---------------------------- MODULE RollupProofs ----------------------------
(***************************************************************************)
(* Proofs about Rollup, for all producers, times, bounds and finality      *)
(* parameters: the layer-1 scripts implement RollupChain and keep their    *)
(* cells well-formed, no final block is taken out of the chain, custodians *)
(* back the accounts of layer 2, and, when all versions count finality the *)
(* same way, stakes outlast the blocks they vouch for.                     *)
(***************************************************************************)
EXTENDS Rollup, NatLemmas, SequenceTheorems, FiniteSetTheorems

BlockRecord == [number : Nat, ts : Nat, version : Nat, owner : Producers \cup {NoStake},
                ok : BOOLEAN, post : Int]

\* Every block of the chain was submitted with the number of its place.
ChainInv ==
    /\ blocks \in Seq(BlockRecord) /\ Len(blocks) \in Ids
    /\ chain \in Seq(Ids) /\ chain # <<>> /\ chain[1] = Genesis
    /\ \A i \in 1..Len(chain) : Submitted(chain[i]) /\ blocks[chain[i]].number = i - 1

\* There is a challenge cell when the rollup is halting, on a block of the chain.
ChallengeInv ==
    /\ now \in Nat
    /\ status \in {"Running", "Halting"}
    /\ status = "Running" => challenge = NoChallenge
    /\ status = "Halting" => /\ challenge \in [target : Ids, at : Nat]
                             /\ InChain(challenge.target) /\ challenge.target # Genesis

ShapeInv == ChainInv /\ ChallengeInv

-----------------------------------------------------------------------------
\* A submission appends its block to the list of blocks and to the chain.
LEMMA SubmitShape ==
    ASSUME ChainInv, NEW p \in Producers, NEW v \in Versions, NEW ts \in 1..MaxTime,
           NEW ok \in BOOLEAN, NEW d \in 0..1, NEW w \in 0..1, SubmitBlock(p, v, ts, ok, d, w)
    PROVE  /\ ChainInv' /\ Len(blocks') = Len(blocks) + 1 /\ Len(chain') = Len(chain) + 1
           /\ chain'[Len(chain) + 1] = Len(blocks) + 1
           /\ \A i \in 1..Len(chain) : chain'[i] = chain[i]
           /\ \A b \in 1..Len(blocks) : blocks'[b] = blocks[b]
           /\ blocks'[Len(blocks) + 1].ok = ok /\ blocks'[Len(blocks) + 1].ts = ts
           /\ blocks'[Len(blocks) + 1].owner = p /\ blocks'[Len(blocks) + 1].version = v
           /\ blocks'[Len(blocks) + 1].number = Len(chain)
<1>0. /\ Len(blocks) \in Nat \ {0} /\ Len(chain) \in Nat \ {0} /\ MaxBlocks \in Nat
      /\ blocks \in Seq(BlockRecord) /\ chain \in Seq(Ids) /\ Len(blocks) < MaxBlocks
  BY LenProperties, EmptySeq, RollupConstants DEF ChainInv, Ids, SubmitBlock
<1>1. PICK r : r = [number |-> Len(chain), ts |-> ts, version |-> v, owner |-> p,
                    ok |-> ok, post |-> blocks[Tip].post - w + d + (IF ok THEN 0 ELSE 1)]
  OBVIOUS
<1>2. blocks' = Append(blocks, r) /\ chain' = Append(chain, Len(blocks) + 1)
  BY <1>1 DEF SubmitBlock
<1>3. Tip \in 1..Len(blocks)
  BY <1>0 DEF ChainInv, Submitted, Tip
<1>4. blocks[Tip] \in BlockRecord
  BY <1>0, <1>3, ElementOfSeq
<1>5. r \in BlockRecord
  <2>1. blocks[Tip].post - w + d + (IF ok THEN 0 ELSE 1) \in Int
    BY <1>4 DEF BlockRecord
  <2> QED BY <1>0, <1>1, <2>1, RollupConstants DEF BlockRecord
<1>6. /\ blocks' \in Seq(BlockRecord) /\ Len(blocks') = Len(blocks) + 1
      /\ \A b \in 1..Len(blocks) : blocks'[b] = blocks[b]
      /\ blocks'[Len(blocks) + 1] = r
  BY <1>0, <1>2, <1>5, AppendProperties
<1>7. Len(blocks) + 1 \in Ids
  BY <1>0 DEF Ids
<1>8. /\ chain' \in Seq(Ids) /\ Len(chain') = Len(chain) + 1
      /\ \A i \in 1..Len(chain) : chain'[i] = chain[i]
      /\ chain'[Len(chain) + 1] = Len(blocks) + 1
  BY <1>0, <1>2, <1>7, AppendProperties
<1>9. ChainInv'
  <2>1. ASSUME NEW i \in 1..Len(chain')
        PROVE  chain'[i] \in 1..Len(blocks') /\ blocks'[chain'[i]].number = i - 1
    <3>1. CASE i \in 1..Len(chain)
      <4>1. chain[i] \in 1..Len(blocks) /\ blocks[chain[i]].number = i - 1 /\ chain'[i] = chain[i]
        BY <1>8, <3>1 DEF ChainInv, Submitted
      <4> QED BY <1>0, <1>6, <4>1, SMTT(60)
    <3>2. CASE i = Len(chain) + 1
      BY <1>0, <1>1, <1>6, <1>8, <3>2
    <3> QED BY <1>0, <1>8, <3>1, <3>2
  <2>2. chain' # <<>> /\ chain'[1] = Genesis
    <3>1. Len(chain') # 0 /\ 1 \in 1..Len(chain)
      BY <1>0, <1>8
    <3> QED BY <1>8, <3>1 DEF ChainInv
  <2> QED BY <1>6, <1>7, <1>8, <2>1, <2>2 DEF ChainInv, Submitted
<1> QED BY <1>1, <1>6, <1>8, <1>9

\* A block's place in the chain is its number.
LEMMA PlaceOf ==
    ASSUME ChainInv, NEW b, InChain(b)
    PROVE  /\ b \in 1..Len(blocks) /\ blocks[b].number + 1 \in 1..Len(chain)
           /\ chain[blocks[b].number + 1] = b
           /\ \A i \in 1..Len(chain) : chain[i] = b => i = blocks[b].number + 1
<1>1. PICK i \in 1..Len(chain) : chain[i] = b
  BY DEF InChain
<1>2. Len(chain) \in Nat
  BY LenProperties DEF ChainInv
<1> QED BY <1>1, <1>2 DEF ChainInv, Submitted

\* A revert cuts the chain before the challenged block.
LEMMA RevertShape ==
    ASSUME ShapeInv, NEW since \in 0..MaxTime, Revert(since)
    PROVE  LET n == blocks[challenge.target].number
           IN  /\ ChainInv' /\ n \in 1..Len(chain) - 1 /\ Len(chain') = n
               /\ \A i \in 1..n : chain'[i] = chain[i]
               /\ chain' = SubSeq(chain, 1, n)
               /\ chain[n + 1] = challenge.target
               /\ RevertedBlocks = SubSeq(chain, n + 1, Len(chain))
<1> DEFINE n == blocks[challenge.target].number
<1>0. /\ InChain(challenge.target) /\ challenge.target # Genesis /\ ChainInv
      /\ chain \in Seq(Ids) /\ Len(chain) \in Nat
  BY LenProperties DEF ShapeInv, ChallengeInv, ChainInv, Revert
<1>1. n + 1 \in 1..Len(chain) /\ chain[n + 1] = challenge.target /\ challenge.target \in 1..Len(blocks)
  BY <1>0, PlaceOf
<1>2. n \in Nat
  <2>1. blocks[challenge.target] \in BlockRecord
    BY <1>1, ElementOfSeq DEF ShapeInv, ChainInv
  <2> QED BY <2>1 DEF BlockRecord
<1>3. n # 0
  <2> SUFFICES ASSUME n = 0 PROVE FALSE
    OBVIOUS
  <2>1. chain[1] = challenge.target
    BY <1>1
  <2> QED BY <1>0, <2>1 DEF ChainInv
<1>4. n \in 1..Len(chain) - 1
  BY <1>0, <1>1, <1>2, <1>3
<1>5. chain' = SubSeq(chain, 1, n) /\ blocks' = blocks
  BY DEF Revert, ChainBefore
<1>6. /\ chain' \in Seq(Ids) /\ Len(chain') = n /\ \A i \in 1..n : chain'[i] = chain[i]
  BY <1>0, <1>4, <1>5, SubSeqProperties
<1>7. chain' # <<>> /\ chain'[1] = Genesis
  BY <1>4, <1>6, EmptySeq DEF ShapeInv, ChainInv
<1>8. ChainInv'
  <2>1. \A i \in 1..Len(chain') : i \in 1..Len(chain) /\ chain'[i] = chain[i]
    BY <1>0, <1>4, <1>6
  <2>2. \A i \in 1..Len(chain') : Submitted(chain[i]) /\ blocks[chain[i]].number = i - 1
    BY <1>0, <2>1 DEF ChainInv
  <2> HIDE DEF n
  <2> QED BY <1>0, <1>5, <1>6, <1>7, <2>1, <2>2 DEF ChainInv, Submitted
<1> QED BY <1>1, <1>4, <1>5, <1>6, <1>8 DEF RevertedBlocks
\* Steps outside the chain leave its shape alone.
LEMMA SameChain ==
    ASSUME ChainInv, UNCHANGED <<blocks, chain>>
    PROVE  ChainInv' /\ \A b : InChain(b)' <=> InChain(b)
BY DEF ChainInv, Submitted, InChain

\* The shape of blocks, chain and challenge is kept by every transaction.
LEMMA ShapeInit == Init => ShapeInv
<1> SUFFICES ASSUME Init PROVE ShapeInv
  OBVIOUS
<1>1. /\ blocks \in Seq(BlockRecord) /\ Len(blocks) = 1 /\ blocks[1].number = 0
  BY DEF Init, BlockRecord
<1>2. /\ chain \in Seq(Ids) /\ Len(chain) = 1 /\ chain[1] = 1 /\ chain # <<>>
  BY RollupConstants DEF Init, Genesis, Ids
<1>3. ChainInv
  BY <1>1, <1>2, RollupConstants DEF ChainInv, Submitted, Ids, Genesis
<1> QED BY <1>3 DEF ShapeInv, ChallengeInv, Init

LEMMA ShapeNext == ShapeInv /\ [Next]_vars => ShapeInv'
<1> SUFFICES ASSUME ShapeInv, [Next]_vars PROVE ShapeInv'
  OBVIOUS
<1>0. ChainInv /\ ChallengeInv /\ Len(chain) \in Nat
  BY LenProperties DEF ShapeInv, ChainInv
<1>1. ASSUME NEW p \in Producers, NEW v \in Versions, NEW ts \in 1..MaxTime, NEW ok \in BOOLEAN,
             NEW d \in 0..1, NEW w \in 0..1, SubmitBlock(p, v, ts, ok, d, w)
      PROVE  ShapeInv'
  <2>1. ChainInv'
    BY <1>0, <1>1, SubmitShape
  <2>2. ChallengeInv'
    BY <1>0, <1>1 DEF ChallengeInv, SubmitBlock
  <2> QED BY <2>1, <2>2 DEF ShapeInv
<1>2. ASSUME NEW b \in Ids, EnterChallenge(b) PROVE ShapeInv'
  <2>1. ChainInv' /\ InChain(b)'
    BY <1>0, <1>2, SameChain DEF EnterChallenge, ChallengeTarget
  <2>2. ChallengeInv'
    BY <1>0, <1>2, <2>1 DEF ChallengeInv, EnterChallenge, ChallengeTarget
  <2> QED BY <2>1, <2>2 DEF ShapeInv
<1>3. CASE CancelChallenge
  BY <1>0, <1>3, SameChain DEF ShapeInv, ChallengeInv, CancelChallenge
<1>4. ASSUME NEW since \in 0..MaxTime, Revert(since) PROVE ShapeInv'
  <2>1. ChainInv'
    BY <1>4, RevertShape
  <2>2. ChallengeInv'
    BY <1>0, <1>4 DEF ChallengeInv, Revert
  <2> QED BY <2>1, <2>2 DEF ShapeInv
<1>5. ASSUME UNCHANGED <<blocks, chain, status, challenge>>, now' = now \/ now' = now + 1
      PROVE  ShapeInv'
  <2>1. ChainInv' /\ \A b : InChain(b)' <=> InChain(b)
    BY <1>0, <1>5, SameChain
  <2>2. now' \in Nat
    BY <1>0, <1>5 DEF ChallengeInv
  <2>3. status = "Halting" => InChain(challenge.target)'
    BY <1>0, <1>5, <2>1 DEF ChallengeInv
  <2>4. ChallengeInv'
    BY <1>0, <1>5, <2>2, <2>3 DEF ChallengeInv
  <2> QED BY <2>1, <2>4 DEF ShapeInv
<1>6. CASE (\E b \in Ids : UnlockWithdrawal(b)) \/ (\E p \in Producers : UnlockStake(p))
           \/ CancelDeposit \/ Tick \/ UNCHANGED vars
  BY <1>5, <1>6 DEF UnlockWithdrawal, UnlockStake, CancelDeposit, Tick, vars, state
<1> QED BY <1>1, <1>2, <1>3, <1>4, <1>6 DEF Next

-----------------------------------------------------------------------------
(* Rollup implements RollupChain.                                          *)

Right  == [b \in 1..Len(blocks) |-> blocks[b].ok]
Halted == IF challenge = NoChallenge THEN 0 ELSE challenge.target

\* `right` is a sequence as long as the list of blocks.
LEMMA RightSeq ==
    ASSUME ChainInv
    PROVE  Right \in Seq(BOOLEAN) /\ Len(Right) = Len(blocks)
<1>1. Len(blocks) \in Nat /\ \A b \in 1..Len(blocks) : blocks[b].ok \in BOOLEAN
  <2>1. \A b \in 1..Len(blocks) : blocks[b] \in BlockRecord
    BY ElementOfSeq DEF ChainInv
  <2> QED BY <2>1, LenProperties DEF ChainInv, BlockRecord
<1> QED BY <1>1, IsASeq DEF Right

\* `halted` is zero exactly while the rollup is running.
LEMMA HaltedIff ==
    ASSUME ChallengeInv
    PROVE  /\ status = "Running" => Halted = 0
           /\ status = "Halting" => Halted = challenge.target /\ Halted # 0
<1>1. status = "Halting" => challenge # NoChallenge /\ challenge.target # 0
  BY RollupConstants DEF ChallengeInv, Ids
<1> QED BY <1>1 DEF Halted, ChallengeInv

\* A block submission is AddBlock.
LEMMA SubmitRefines ==
    ASSUME ShapeInv, NEW p \in Producers, NEW v \in Versions, NEW ts \in 1..MaxTime,
           NEW ok \in BOOLEAN, NEW d \in 0..1, NEW w \in 0..1, SubmitBlock(p, v, ts, ok, d, w)
    PROVE  RC!AddBlock(ok)
<1>0. ChainInv /\ ChallengeInv /\ Len(blocks) \in Nat
  BY LenProperties DEF ShapeInv, ChainInv
<1>1. Halted = 0 /\ Halted' = Halted
  BY <1>0, HaltedIff DEF SubmitBlock, Halted
<1>2. Right \in Seq(BOOLEAN) /\ Len(Right) = Len(blocks)
  BY <1>0, RightSeq
<1>3. /\ Len(blocks') = Len(blocks) + 1 /\ \A b \in 1..Len(blocks) : blocks'[b] = blocks[b]
      /\ blocks'[Len(blocks) + 1].ok = ok
  BY <1>0, SubmitShape
<1>4. Right' = Append(Right, ok)
  <2>0. PICK q : q = Append(Right, ok)
    OBVIOUS
  <2>1. /\ q \in Seq(BOOLEAN) /\ Len(q) = Len(blocks) + 1 /\ q[Len(blocks) + 1] = ok
        /\ \A i \in 1..Len(blocks) : q[i] = Right[i]
    BY <1>0, <1>2, <2>0, AppendProperties
  <2>2. Right' = [b \in 1..Len(blocks) + 1 |-> blocks'[b].ok]
    BY <1>3 DEF Right
  <2>3. q \in [1..Len(blocks) + 1 -> BOOLEAN]
    BY <2>1, LenProperties
  <2>4. \A b \in 1..Len(blocks) + 1 : q[b] = blocks'[b].ok
    BY <1>0, <1>3, <2>1 DEF Right
  <2> QED BY <2>0, <2>2, <2>3, <2>4
<1>5. Len(blocks) < MaxBlocks /\ chain' = Append(chain, Len(blocks) + 1) /\ reverted' = reverted
  BY DEF SubmitBlock
<1> QED BY <1>1, <1>2, <1>4, <1>5 DEF RC!AddBlock, Right, Halted

\* Entering a challenge is Challenge, cancelling it Cancel.
LEMMA ChallengeRefines ==
    ASSUME ShapeInv, NEW b \in Ids, EnterChallenge(b)
    PROVE  RC!Challenge(b)
<1>1. Halted = 0
  BY HaltedIff DEF EnterChallenge, ShapeInv
<1>2. Halted' = b
  <2>1. challenge' \in [target : Nat, at : Nat] /\ challenge'.target = b
    BY DEF EnterChallenge, ShapeInv, ChallengeInv, Ids
  <2>2. challenge' # NoChallenge
    BY <2>1, RollupConstants
  <2> QED BY <2>1, <2>2 DEF Halted
<1>3. b \in RC!Elements(chain) \ {RC!Genesis}
  BY DEF EnterChallenge, ChallengeTarget, InChain, RC!Elements, RC!Genesis, Genesis
<1>4. Right' = Right /\ chain' = chain /\ reverted' = reverted
  BY DEF EnterChallenge, Right
<1> QED BY <1>1, <1>2, <1>3, <1>4 DEF RC!Challenge, Right, Halted

LEMMA CancelRefines ==
    ASSUME ShapeInv, CancelChallenge
    PROVE  RC!Cancel
<1>1. Halted # 0 /\ Halted = challenge.target /\ InChain(challenge.target)
  BY HaltedIff DEF CancelChallenge, ShapeInv, ChallengeInv
<1>2. challenge.target \in 1..Len(blocks)
  BY <1>1, PlaceOf DEF ShapeInv
<1>3. Right[Halted]
  BY <1>1, <1>2 DEF Right, CancelChallenge
<1>4. Halted' = 0 /\ Right' = Right /\ chain' = chain /\ reverted' = reverted
  BY DEF CancelChallenge, Right, Halted
<1> QED BY <1>1, <1>3, <1>4 DEF RC!Cancel, Right, Halted

\* A revert is Undo: the blocks it presents are the challenged one and all later ones.
LEMMA RevertRefines ==
    ASSUME ShapeInv, NEW since \in 0..MaxTime, Revert(since)
    PROVE  RC!Undo
<1>0. ChainInv /\ ChallengeInv /\ status = "Halting" /\ InChain(challenge.target)
  BY DEF ShapeInv, ChallengeInv, Revert
<1>1. Halted # 0 /\ Halted = challenge.target
  BY <1>0, HaltedIff
<1>2. PICK n : /\ n = blocks[challenge.target].number /\ n \in 1..Len(chain) - 1
               /\ chain' = SubSeq(chain, 1, n) /\ chain[n + 1] = challenge.target
               /\ RevertedBlocks = SubSeq(chain, n + 1, Len(chain))
  BY RevertShape
<1>3. n \in Nat /\ n + 1 \in 1..Len(chain)
  <2>1. Len(chain) \in Nat
    BY <1>0, LenProperties DEF ChainInv
  <2> QED BY <1>2, <2>1
<1>4. RC!PositionOf(Halted, chain) = n + 1
  BY <1>0, <1>1, <1>2, <1>3, PlaceOf DEF RC!PositionOf
<1>5. RC!From(Halted) = RevertedBlocks
  BY <1>2, <1>4 DEF RC!From
<1>6. Len(RevertedBlocks) <= MaxReverted
  BY DEF Revert, BlocksAccepted
<1>7. reverted' = reverted \cup RC!Elements(RevertedBlocks)
  BY DEF Revert, RC!Elements
<1>8. Halted' = 0 /\ Right' = Right
  BY DEF Revert, Halted, Right
<1>9. chain' = SubSeq(chain, 1, RC!PositionOf(Halted, chain) - 1)
  BY <1>2, <1>3, <1>4
<1> QED BY <1>1, <1>5, <1>6, <1>7, <1>8, <1>9 DEF RC!Undo, Halted, Right

\* The rollup cell, its scripts and its locks implement the chain that nodes
\* follow: it grows at its end, freezes under a challenge, and a revert takes
\* away the challenged block with all later ones (submit_block, enter_challenge,
\* cancel_challenge and revert of the state validator).
THEOREM ScriptsImplementChain == Spec => FollowsRollupChain
<1>1. Init => RC!ChainInit
  <2> SUFFICES ASSUME Init PROVE RC!ChainInit
    OBVIOUS
  <2>1. ShapeInv /\ Len(blocks) = 1 /\ blocks[1].ok = TRUE
    BY ShapeInit DEF Init
  <2>2. Right \in Seq(BOOLEAN) /\ Len(Right) = 1
    BY <2>1, RightSeq DEF ShapeInv
  <2>3. Right[1] = TRUE
    BY <2>1 DEF Right
  <2>4. Right = <<TRUE>>
    <3>1. PICK q : q = <<TRUE>>
      OBVIOUS
    <3>2. q \in Seq(BOOLEAN) /\ Len(q) = 1 /\ q[1] = TRUE
      BY <3>1
    <3>3. \A i \in 1..Len(Right) : Right[i] = q[i]
      BY <2>2, <2>3, <3>2
    <3>4. Right = q
      BY <2>2, <3>2, <3>3, SeqEqual
    <3> QED BY <3>1, <3>4
  <2> QED BY <2>4 DEF RC!ChainInit, RC!Genesis, Genesis, Init, Right
<1>2. ShapeInv /\ [Next]_vars => [RC!ChainNext]_(RC!rollupVars)
  <2> SUFFICES ASSUME ShapeInv, [Next]_vars PROVE RC!ChainNext \/ UNCHANGED RC!rollupVars
    OBVIOUS
  <2>1. ASSUME NEW p \in Producers, NEW v \in Versions, NEW ts \in 1..MaxTime, NEW ok \in BOOLEAN,
               NEW d \in 0..1, NEW w \in 0..1, SubmitBlock(p, v, ts, ok, d, w)
        PROVE  RC!ChainNext
    <3>1. RC!AddBlock(ok)
      BY <2>1, SubmitRefines
    <3> QED BY <3>1 DEF RC!ChainNext
  <2>2. ASSUME NEW b \in Ids, EnterChallenge(b) PROVE RC!ChainNext
    <3>1. RC!Challenge(b)
      BY <2>2, ChallengeRefines
    <3> QED BY <3>1 DEF RC!ChainNext, RC!Blocks, Ids
  <2>3. CASE CancelChallenge
    BY <2>3, CancelRefines DEF RC!ChainNext
  <2>4. ASSUME NEW since \in 0..MaxTime, Revert(since) PROVE RC!ChainNext
    BY <2>4, RevertRefines DEF RC!ChainNext
  <2>5. CASE (\E b \in Ids : UnlockWithdrawal(b)) \/ (\E p \in Producers : UnlockStake(p))
             \/ CancelDeposit \/ Tick \/ UNCHANGED vars
    <3>1. UNCHANGED <<blocks, chain, challenge, reverted>>
      BY <2>5 DEF UnlockWithdrawal, UnlockStake, CancelDeposit, Tick, vars, state
    <3> QED BY <3>1 DEF RC!rollupVars
  <2> QED BY <2>1, <2>2, <2>3, <2>4, <2>5 DEF Next
<1> QED BY <1>1, <1>2, ShapeInit, ShapeNext, PTL DEF Spec, FollowsRollupChain, RC!ChainSpecification

-----------------------------------------------------------------------------
(* Finality.                                                               *)

FullTimepoints == [flag : 0..1, value : Nat]

\* Timestamps grow along the chain, and a challenge is on a block that is not
\* final: the version, the announced timepoint and the tip stand still until
\* the challenge is answered.
FinalInv ==
    /\ version \in Versions
    /\ lft \in FullTimepoints
    /\ \A i, j \in 1..Len(chain) : i < j => blocks[chain[i]].ts < blocks[chain[j]].ts
    /\ status = "Halting" => ~BlockFinal(challenge.target)

\* What BlockFinal says for a timestamp and for a block number.
LEMMA FinalMeans ==
    ASSUME NEW b
    PROVE  /\ version = 2 => (BlockFinal(b) <=> (lft.flag = 1 /\ blocks[b].ts + FinalityTime <= lft.value))
           /\ version \in 0..1 => (BlockFinal(b) <=> blocks[b].number + FinalityBlocks <= TipNumber)
BY DEF BlockFinal, IsFinalized, FinalizedTimepoint, UseTimestamp, Timestamp, BlockNumber

\* Timestamps of submitted blocks are numbers.
LEMMA BlockTypes ==
    ASSUME ChainInv, NEW b \in 1..Len(blocks)
    PROVE  blocks[b].ts \in Nat /\ blocks[b].number \in Nat /\ blocks[b].owner \in Producers \cup {NoStake}
<1>1. blocks[b] \in BlockRecord
  BY ElementOfSeq DEF ChainInv
<1> QED BY <1>1 DEF BlockRecord

\* A submission makes the chain longer and its timestamps later.
LEMMA SubmitFinal ==
    ASSUME ShapeInv, FinalInv, NEW p \in Producers, NEW v \in Versions,
           NEW ts \in 1..MaxTime, NEW ok \in BOOLEAN, NEW d \in 0..1, NEW w \in 0..1,
           SubmitBlock(p, v, ts, ok, d, w)
    PROVE  FinalInv' /\ \A b : InChain(b) => InChain(b)'
<1>0. /\ ChainInv /\ MaxTime \in Nat /\ FinalityBlocks \in Nat
      /\ Len(chain) \in Nat \ {0} /\ Len(blocks) \in Nat
  BY RollupConstants, LenProperties, EmptySeq DEF ShapeInv, ChainInv
<1>1. /\ Len(blocks') = Len(blocks) + 1 /\ Len(chain') = Len(chain) + 1
      /\ chain'[Len(chain) + 1] = Len(blocks) + 1
      /\ \A i \in 1..Len(chain) : chain'[i] = chain[i]
      /\ \A b \in 1..Len(blocks) : blocks'[b] = blocks[b]
      /\ blocks'[Len(blocks) + 1].ts = ts
  <2>1. ChainInv
    BY <1>0
  <2> QED BY <2>1, SubmitShape, SMTT(30)
<1>2. /\ version' = v /\ lft' = NextFinalized(v, ts) /\ status' = "Running" /\ ts > blocks[Tip].ts
  BY DEF SubmitBlock, TimestampAccepted
<1>3. lft' \in FullTimepoints
  <2>1. CASE UseTimestamp(v)
    BY <1>0, <1>2, <2>1 DEF NextFinalized, Timestamp, FullTimepoints
  <2>2. CASE ~UseTimestamp(v)
    <3>1. PICK k : k = IF Len(chain) > FinalityBlocks THEN Len(chain) - FinalityBlocks ELSE 0
      OBVIOUS
    <3>2. k \in Nat
      BY <1>0, <3>1
    <3> QED BY <1>2, <2>2, <3>1, <3>2 DEF NextFinalized, BlockNumber, FullTimepoints
  <2> QED BY <2>1, <2>2
<1>4. \A i \in 1..Len(chain) : chain[i] \in 1..Len(blocks) /\ blocks[chain[i]].ts \in Nat
  <2>1. \A i \in 1..Len(chain) : chain[i] \in 1..Len(blocks)
    BY <1>0 DEF ChainInv, Submitted
  <2> QED BY <1>0, <2>1, BlockTypes
<1>5. \A i \in 1..Len(chain) : blocks[chain[i]].ts < ts
  <2> SUFFICES ASSUME NEW i \in 1..Len(chain) PROVE blocks[chain[i]].ts < ts
    OBVIOUS
  <2>1. Len(chain) \in 1..Len(chain)
    BY <1>0
  <2>2. i = Len(chain) \/ blocks[chain[i]].ts < blocks[chain[Len(chain)]].ts
    BY <1>0, <2>1 DEF FinalInv
  <2>3. blocks[chain[Len(chain)]].ts < ts
    BY <1>0, <1>2, <1>4, <2>1 DEF Tip
  <2>4. blocks[chain[i]].ts \in Nat /\ blocks[chain[Len(chain)]].ts \in Nat
    BY <1>4, <2>1
  <2> QED BY <2>2, <2>3, <2>4
<1>6. ASSUME NEW i \in 1..Len(chain'), NEW j \in 1..Len(chain'), i < j
      PROVE  blocks'[chain'[i]].ts < blocks'[chain'[j]].ts
  <2>1. i \in 1..Len(chain) /\ blocks'[chain'[i]] = blocks[chain[i]]
    BY <1>0, <1>1, <1>4, <1>6
  <2>2. CASE j \in 1..Len(chain)
    <3>1. blocks'[chain'[j]] = blocks[chain[j]]
      BY <1>1, <1>4, <2>2
    <3> QED BY <1>6, <2>1, <2>2, <3>1 DEF FinalInv
  <2>3. CASE j = Len(chain) + 1
    BY <1>1, <1>5, <2>1, <2>3
  <2>4. j \in 1..Len(chain) \/ j = Len(chain) + 1
    BY <1>0, <1>1
  <2> QED BY <2>2, <2>3, <2>4
<1>7. FinalInv'
  BY <1>2, <1>3, <1>6 DEF FinalInv
<1>8. ASSUME NEW b, InChain(b) PROVE InChain(b)'
  <2>1. PICK i \in 1..Len(chain) : chain[i] = b
    BY <1>8 DEF InChain
  <2>2. i \in 1..Len(chain') /\ chain'[i] = b
    BY <1>0, <1>1, <2>1
  <2> QED BY <2>2 DEF InChain
<1> QED BY <1>7, <1>8

\* Finality is downward closed: a block before a final one is final.
LEMMA FinalBelow ==
    ASSUME ChainInv, FinalInv, NEW i \in 1..Len(chain), NEW j \in 1..Len(chain), i <= j,
           BlockFinal(chain[j])
    PROVE  BlockFinal(chain[i])
<1>0. Len(chain) \in Nat /\ FinalityTime \in Nat /\ FinalityBlocks \in Nat /\ version \in 0..2
  BY RollupConstants, LenProperties DEF ChainInv, FinalInv
<1>1. /\ chain[i] \in 1..Len(blocks) /\ blocks[chain[i]].number = i - 1
      /\ chain[j] \in 1..Len(blocks) /\ blocks[chain[j]].number = j - 1
  BY DEF ChainInv, Submitted
<1>2. blocks[chain[i]].ts \in Nat /\ blocks[chain[j]].ts \in Nat
  BY <1>1, BlockTypes
<1>3. CASE version = 2
  <2>1. lft.flag = 1 /\ blocks[chain[j]].ts + FinalityTime <= lft.value /\ lft.value \in Nat
    BY <1>3, FinalMeans DEF FinalInv, FullTimepoints
  <2>2. blocks[chain[i]].ts <= blocks[chain[j]].ts
    <3>1. i = j \/ blocks[chain[i]].ts < blocks[chain[j]].ts
      BY <1>0 DEF FinalInv
    <3> QED BY <1>2, <3>1
  <2>3. blocks[chain[i]].ts + FinalityTime <= lft.value
    BY <1>0, <1>2, <2>1, <2>2
  <2> QED BY <1>3, <2>1, <2>3, FinalMeans
<1>4. CASE version \in 0..1
  <2>1. j - 1 + FinalityBlocks <= TipNumber
    BY <1>1, <1>4, FinalMeans
  <2>2. i - 1 + FinalityBlocks <= TipNumber
    BY <1>0, <2>1 DEF TipNumber
  <2> QED BY <1>1, <1>4, <2>2, FinalMeans
<1> QED BY <1>0, <1>3, <1>4

\* A revert removes no final block, whatever its since.
LEMMA RevertFinal ==
    ASSUME ShapeInv, FinalInv, NEW since \in 0..MaxTime, Revert(since)
    PROVE  FinalInv' /\ \A b : InChain(b) /\ BlockFinal(b) => InChain(b)'
<1>0. /\ ChainInv /\ MaxTime \in Nat /\ FinalityBlocks \in Nat /\ status = "Halting"
      /\ Len(chain) \in Nat \ {0} /\ ~BlockFinal(challenge.target)
  BY RollupConstants, LenProperties, EmptySeq
     DEF ShapeInv, ChainInv, FinalInv, Revert
<1>1. PICK n : /\ n = blocks[challenge.target].number /\ n \in 1..Len(chain) - 1 /\ Len(chain') = n
               /\ \A i \in 1..n : chain'[i] = chain[i]
               /\ chain[n + 1] = challenge.target
  BY RevertShape
<1>2. /\ version' = version /\ lft' = RevertedFinalized(n, since) /\ status' = "Running"
      /\ blocks' = blocks
  BY <1>1 DEF Revert
<1>3. lft' \in FullTimepoints
  <2>1. CASE UseTimestamp(version)
    BY <1>0, <1>2, <2>1 DEF RevertedFinalized, Timestamp, FullTimepoints
  <2>2. CASE ~UseTimestamp(version)
    <3>1. PICK k : k = IF n - 1 > FinalityBlocks THEN n - 1 - FinalityBlocks ELSE 0
      OBVIOUS
    <3>2. k \in Nat
      BY <1>0, <1>1, <3>1
    <3> QED BY <1>2, <2>2, <3>1, <3>2 DEF RevertedFinalized, BlockNumber, FullTimepoints
  <2> QED BY <2>1, <2>2
<1>4. \A i \in 1..n : i \in 1..Len(chain)
  BY <1>0, <1>1
<1>5. FinalInv'
  <2>1. \A i, j \in 1..Len(chain') : i < j => blocks'[chain'[i]].ts < blocks'[chain'[j]].ts
    BY <1>1, <1>2, <1>4 DEF FinalInv
  <2> QED BY <1>2, <1>3, <2>1 DEF FinalInv
<1>6. ASSUME NEW b, InChain(b), BlockFinal(b) PROVE InChain(b)'
  <2>1. PICK i \in 1..Len(chain) : chain[i] = b
    BY <1>6 DEF InChain
  <2>2. n + 1 \in 1..Len(chain) /\ (i \in 1..n \/ n + 1 <= i)
    BY <1>0, <1>1
  <2>3. i \in 1..n
    <3> SUFFICES ASSUME n + 1 <= i PROVE FALSE
      BY <2>2
    <3>1. BlockFinal(chain[n + 1])
      BY <1>0, <1>6, <2>1, <2>2, FinalBelow
    <3> QED BY <1>0, <1>1, <3>1
  <2> QED BY <1>1, <2>1, <2>3 DEF InChain
<1> QED BY <1>5, <1>6

\* Every transaction keeps the invariant and the blocks that are final.
LEMMA FinalStep ==
    ASSUME ShapeInv, FinalInv, [Next]_vars
    PROVE  FinalInv' /\ \A b \in Ids : InChain(b) /\ BlockFinal(b) => InChain(b)'
<1> DEFINE Stays == \A b \in Ids : InChain(b) /\ BlockFinal(b) => InChain(b)'
<1>1. ASSUME NEW p \in Producers, NEW v \in Versions, NEW ts \in 1..MaxTime, NEW ok \in BOOLEAN,
             NEW d \in 0..1, NEW w \in 0..1, SubmitBlock(p, v, ts, ok, d, w)
      PROVE  FinalInv' /\ Stays
  BY <1>1, SubmitFinal
<1>2. ASSUME NEW since \in 0..MaxTime, Revert(since) PROVE FinalInv' /\ Stays
  BY <1>2, RevertFinal
<1>3. ASSUME UNCHANGED <<blocks, chain, version, lft>>,
             status' = "Running" \/ UNCHANGED <<status, challenge>> \/ ~BlockFinal(challenge'.target)
      PROVE  FinalInv' /\ Stays
  <2>1. Stays
    BY <1>3 DEF InChain
  <2>2. status' = "Halting" => ~BlockFinal(challenge.target)'
    <3>1. BlockFinal(challenge.target)' <=> BlockFinal(challenge'.target)
      BY <1>3 DEF BlockFinal, IsFinalized, FinalizedTimepoint, UseTimestamp, Timestamp,
                  BlockNumber, TipNumber
    <3>2. CASE UNCHANGED <<status, challenge>>
      BY <3>1, <3>2 DEF FinalInv
    <3>3. CASE status' = "Running"
      BY <3>3
    <3>4. CASE ~BlockFinal(challenge'.target)
      BY <3>1, <3>4
    <3> QED BY <1>3, <3>2, <3>3, <3>4
  <2>3. FinalInv'
    BY <1>3, <2>2 DEF FinalInv
  <2> QED BY <2>1, <2>3
<1>4. ASSUME NEW b \in Ids, EnterChallenge(b) PROVE FinalInv' /\ Stays
  BY <1>3, <1>4 DEF EnterChallenge, ChallengeTarget
<1>5. CASE CancelChallenge
  BY <1>3, <1>5 DEF CancelChallenge
<1>6. CASE (\E b \in Ids : UnlockWithdrawal(b)) \/ (\E p \in Producers : UnlockStake(p))
           \/ CancelDeposit \/ Tick \/ UNCHANGED vars
  BY <1>3, <1>6 DEF UnlockWithdrawal, UnlockStake, CancelDeposit, Tick, vars, state
<1> QED BY <1>1, <1>2, <1>4, <1>5, <1>6 DEF Next

LEMMA FinalInit == ASSUME Init PROVE FinalInv
<1>1. Len(chain) = 1 /\ version \in Versions /\ status = "Running" /\ lft = BlockNumber(0)
  BY DEF Init
<1> QED BY <1>1 DEF FinalInv, FullTimepoints, BlockNumber

\* No transaction takes a block out of the chain that is final at that moment: a
\* revert does not look at finality, but its challenge did, and neither the
\* rollup's version nor its timepoint nor its tip moves in between.  It holds in
\* both forms of timepoints and for every since the revert carries.
THEOREM FinalBlocksStay == Spec => FinalNotTaken
<1>1. Init => ShapeInv /\ FinalInv
  BY ShapeInit, FinalInit
<1>2. ShapeInv /\ FinalInv /\ [Next]_vars => (ShapeInv /\ FinalInv)'
  BY ShapeNext, FinalStep
<1>3. ShapeInv /\ FinalInv /\ [Next]_vars
         => [\A b \in Ids : (InChain(b) /\ BlockFinal(b)) => InChain(b)']_vars
  BY FinalStep
<1> QED BY <1>1, <1>2, <1>3, PTL DEF Spec, FinalNotTaken

-----------------------------------------------------------------------------
(* Stakes.                                                                 *)

\* All versions in use count finality the same way.
OneForm == Versions = {2} \/ Versions \subseteq 0..1

\* The timepoint in a stake cell is not before the one of any block of its
\* owner in the chain.
Covers(t, i) ==
    IF version = 2 THEN t.flag = 1 /\ blocks[chain[i]].ts + FinalityTime <= t.value
                   ELSE t.flag = 0 /\ i - 1 <= t.value

StakeInv ==
    /\ stake \in [Producers -> FullTimepoints \cup {NoStake}]
    /\ \A p \in Producers, i \in 1..Len(chain) :
          (stake[p] # NoStake /\ blocks[chain[i]].owner = p) => Covers(stake[p], i)

\* A submission puts the timepoint of its block into the producer's stake cell.
LEMMA SubmitStake ==
    ASSUME ShapeInv, OneForm, FinalInv, FinalInv', StakeInv, NEW p \in Producers, NEW v \in Versions,
           NEW ts \in 1..MaxTime, NEW ok \in BOOLEAN, NEW d \in 0..1, NEW w \in 0..1,
           SubmitBlock(p, v, ts, ok, d, w)
    PROVE  StakeInv' /\ stake'[p] # NoStake /\ \A q \in Producers \ {p} : stake'[q] = stake[q]
<1>0. /\ ChainInv /\ MaxTime \in Nat /\ FinalityTime \in Nat /\ Len(chain) \in Nat \ {0}
      /\ Len(blocks) \in Nat /\ version \in Versions /\ Versions \subseteq 0..2
  BY RollupConstants, LenProperties, EmptySeq DEF ShapeInv, ChainInv, FinalInv
<1>1. /\ Len(blocks') = Len(blocks) + 1 /\ Len(chain') = Len(chain) + 1
      /\ chain'[Len(chain) + 1] = Len(blocks) + 1
      /\ \A i \in 1..Len(chain) : chain'[i] = chain[i]
      /\ \A b \in 1..Len(blocks) : blocks'[b] = blocks[b]
      /\ blocks'[Len(blocks) + 1].ts = ts /\ blocks'[Len(blocks) + 1].owner = p
  <2>1. ChainInv
    BY <1>0
  <2> QED BY <2>1, SubmitShape, SMTT(60)
<1>2. /\ version' = v /\ stake' = [stake EXCEPT ![p] = NextStakeTimepoint(v, ts)]
  BY DEF SubmitBlock, NextStake
<1>3. (version = 2 /\ v = 2) \/ (version # 2 /\ v \in 0..1)
  BY <1>0 DEF OneForm
<1>4. NextStakeTimepoint(v, ts) = IF v = 2 THEN [flag |-> 1, value |-> ts + FinalityTime]
                                           ELSE [flag |-> 0, value |-> Len(chain)]
  BY <1>0, <1>3 DEF NextStakeTimepoint, UseTimestamp, Timestamp, BlockNumber
<1>5. NextStakeTimepoint(v, ts) \in FullTimepoints
  BY <1>0, <1>4 DEF FullTimepoints
<1>6. /\ stake' \in [Producers -> FullTimepoints \cup {NoStake}]
      /\ stake'[p] = NextStakeTimepoint(v, ts) /\ \A q \in Producers \ {p} : stake'[q] = stake[q]
  BY <1>2, <1>5 DEF StakeInv
<1>7. stake'[p] # NoStake
  BY <1>5, <1>6, RollupConstants DEF FullTimepoints
<1>8. \A i \in 1..Len(chain) : chain[i] \in 1..Len(blocks) /\ blocks'[chain'[i]] = blocks[chain[i]]
                               /\ blocks[chain[i]].ts \in Nat
  <2>1. \A i \in 1..Len(chain) : chain[i] \in 1..Len(blocks)
    BY <1>0 DEF ChainInv, Submitted
  <2> QED BY <1>0, <1>1, <2>1, BlockTypes
<1>9. ASSUME NEW q \in Producers, NEW i \in 1..Len(chain'), stake'[q] # NoStake,
             blocks'[chain'[i]].owner = q
      PROVE  Covers(stake[q], i)'
  <2>1. Covers(stake[q], i)' <=> IF v = 2 THEN stake'[q].flag = 1 /\ blocks'[chain'[i]].ts + FinalityTime <= stake'[q].value
                                          ELSE stake'[q].flag = 0 /\ i - 1 <= stake'[q].value
    BY <1>2 DEF Covers
  <2>2. CASE i = Len(chain) + 1
    <3>1. q = p /\ blocks'[chain'[i]].ts = ts
      BY <1>1, <1>9, <2>2
    <3> QED BY <1>0, <1>4, <1>6, <2>1, <2>2, <3>1
  <2>3. CASE i \in 1..Len(chain) /\ q # p
    <3>1. Covers(stake[q], i)
      BY <1>6, <1>8, <1>9, <2>3 DEF StakeInv
    <3> QED BY <1>3, <1>6, <1>8, <2>1, <2>3, <3>1, SMTT(60) DEF Covers
  <2>4. CASE i \in 1..Len(chain) /\ q = p
    <3>1. CASE v = 2
      <4>1. FinalInv'
        OBVIOUS
      <4>2. i \in 1..Len(chain') /\ Len(chain) + 1 \in 1..Len(chain') /\ i < Len(chain) + 1
        BY <1>0, <1>1, <2>4
      <4>3. blocks'[chain'[i]].ts < ts
        BY <1>1, <4>1, <4>2 DEF FinalInv
      <4>4. stake'[q].flag = 1 /\ stake'[q].value = ts + FinalityTime
        BY <1>4, <1>6, <2>4, <3>1
      <4>5. blocks'[chain'[i]].ts \in Nat
        BY <1>8, <2>4
      <4>6. blocks'[chain'[i]].ts + FinalityTime <= stake'[q].value
        BY <1>0, <4>3, <4>4, <4>5
      <4> QED BY <2>1, <3>1, <4>4, <4>6
    <3>2. CASE v # 2
      BY <1>0, <1>4, <1>6, <2>1, <2>4, <3>2
    <3> QED BY <3>1, <3>2
  <2>5. i = Len(chain) + 1 \/ i \in 1..Len(chain)
    BY <1>0, <1>1
  <2> QED BY <2>2, <2>3, <2>4, <2>5
<1> QED BY <1>6, <1>7, <1>9 DEF StakeInv

\* Fewer stakes and fewer blocks need less.
LEMMA FewerStakes ==
    ASSUME StakeInv, Len(chain) \in Nat, Len(chain') \in 0..Len(chain), blocks' = blocks,
           version' = version, \A i \in 1..Len(chain') : chain'[i] = chain[i],
           stake' \in [Producers -> FullTimepoints \cup {NoStake}],
           \A p \in Producers : stake'[p] \in {stake[p], NoStake}
    PROVE  StakeInv'
<1>1. ASSUME NEW p \in Producers, NEW i \in 1..Len(chain'), stake'[p] # NoStake,
             blocks'[chain'[i]].owner = p
      PROVE  Covers(stake[p], i)'
  <2>1. stake'[p] = stake[p] /\ i \in 1..Len(chain) /\ chain'[i] = chain[i]
    BY <1>1
  <2>2. Covers(stake[p], i)
    BY <1>1, <2>1 DEF StakeInv
  <2> QED BY <2>1, <2>2 DEF Covers
<1> QED BY <1>1 DEF StakeInv

\* An open stake covers only final blocks.
LEMMA OpenStakeCoversFinal ==
    ASSUME ChainInv, OneForm, FinalInv, StakeInv, NEW p \in Producers, StakeUnlockable(p),
           NEW b, InChain(b), blocks[b].owner = p
    PROVE  BlockFinal(b)
<1>0. FinalityTime \in Nat /\ FinalityBlocks \in Nat /\ Len(chain) \in Nat /\ stake[p] \in FullTimepoints
  BY RollupConstants, LenProperties DEF ChainInv, StakeInv, StakeUnlockable
<1>1. PICK i \in 1..Len(chain) : chain[i] = b
  BY DEF InChain
<1>2. Covers(stake[p], i) /\ IsFinalized(stake[p])
  BY <1>1 DEF StakeInv, StakeUnlockable
<1>3. b \in 1..Len(blocks) /\ blocks[b].number = i - 1
  BY <1>1 DEF ChainInv, Submitted
<1>4. blocks[b].ts \in Nat
  BY <1>3, BlockTypes
<1>5. CASE version = 2
  <2>1. /\ stake[p].flag = 1 /\ blocks[b].ts + FinalityTime <= stake[p].value /\ stake[p].value \in Nat
    BY <1>0, <1>1, <1>2, <1>5 DEF Covers, FullTimepoints
  <2>2. lft.flag = 1 /\ stake[p].value <= lft.value
    BY <1>2, <2>1 DEF IsFinalized
  <2>3. blocks[b].ts + FinalityTime <= lft.value
    <3>1. lft.value \in Nat
      BY DEF FinalInv, FullTimepoints
    <3> QED BY <1>0, <1>4, <2>1, <2>2, <3>1
  <2> QED BY <1>5, <2>2, <2>3, FinalMeans
<1>6. CASE version # 2
  <2>1. stake[p].flag = 0 /\ i - 1 <= stake[p].value /\ stake[p].value \in Nat
    BY <1>0, <1>2, <1>6 DEF Covers, FullTimepoints
  <2>2. stake[p].value + FinalityBlocks <= TipNumber
    BY <1>2, <2>1 DEF IsFinalized
  <2>3. ~UseTimestamp(version)
    BY <1>6, RollupConstants DEF UseTimestamp, FinalInv
  <2>4. BlockFinal(b) <=> i - 1 + FinalityBlocks <= TipNumber
    BY <1>3, <2>3 DEF BlockFinal, FinalizedTimepoint, IsFinalized, BlockNumber
  <2> QED BY <1>0, <2>1, <2>2, <2>4 DEF TipNumber
<1> QED BY <1>5, <1>6

\* Every transaction keeps the stakes above their blocks and opens only stakes
\* of final blocks.
LEMMA StakeStep ==
    ASSUME OneForm, ShapeInv, FinalInv, FinalInv', StakeInv, [Next]_vars
    PROVE  /\ StakeInv'
           /\ \A p \in Producers :
                 (stake[p] # NoStake /\ stake'[p] = NoStake /\ reverted' = reverted)
                     => \A b \in Ids : (InChain(b) /\ b # Genesis /\ blocks[b].owner = p) => BlockFinal(b)
<1> DEFINE Opens == \A p \in Producers :
                      (stake[p] # NoStake /\ stake'[p] = NoStake /\ reverted' = reverted)
                         => \A b \in Ids : (InChain(b) /\ b # Genesis /\ blocks[b].owner = p) => BlockFinal(b)
<1>0. ChainInv /\ Len(chain) \in Nat /\ Len(chain) \in 0..Len(chain)
  BY LenProperties DEF ShapeInv, ChainInv
<1>1. ASSUME NEW p \in Producers, NEW v \in Versions, NEW ts \in 1..MaxTime, NEW ok \in BOOLEAN,
             NEW d \in 0..1, NEW w \in 0..1, SubmitBlock(p, v, ts, ok, d, w)
      PROVE  StakeInv' /\ Opens
  <2>1. StakeInv' /\ stake'[p] # NoStake /\ \A q \in Producers \ {p} : stake'[q] = stake[q]
    BY <1>1, SubmitStake
  <2> QED BY <2>1
<1>2. ASSUME NEW since \in 0..MaxTime, Revert(since) PROVE StakeInv' /\ Opens
  <2>1. PICK n : /\ n = blocks[challenge.target].number /\ n \in 1..Len(chain) - 1 /\ Len(chain') = n
                 /\ \A i \in 1..n : chain'[i] = chain[i]
                 /\ RevertedBlocks = SubSeq(chain, n + 1, Len(chain))
    BY <1>2, RevertShape
  <2>2. /\ stake' = [p \in Producers |-> IF p \in Owners(RevertedBlocks) THEN NoStake ELSE stake[p]]
        /\ blocks' = blocks /\ version' = version
        /\ reverted' = reverted \cup {RevertedBlocks[i] : i \in 1..Len(RevertedBlocks)}
        /\ \A i \in 1..Len(RevertedBlocks) : RevertedBlocks[i] \notin reverted
    BY <1>2 DEF Revert, BlocksAccepted
  <2>3. stake' \in [Producers -> FullTimepoints \cup {NoStake}] /\ \A p \in Producers : stake'[p] \in {stake[p], NoStake}
    <3> HIDE DEF Opens
    <3> QED BY <2>2 DEF StakeInv
  <2>4. StakeInv'
    BY <1>0, <2>1, <2>2, <2>3, FewerStakes
  <2>5. Len(RevertedBlocks) \in Nat \ {0}
    <3>1. n + 1 \in 1..Len(chain) /\ Len(chain) \in 1..Len(chain) /\ chain \in Seq(Ids)
      BY <1>0, <2>1 DEF ChainInv
    <3>2. Len(RevertedBlocks) = Len(chain) - (n + 1) + 1
      BY <2>1, <3>1, SubSeqProperties
    <3> QED BY <1>0, <3>1, <3>2
  <2>6. reverted' # reverted
    <3>1. 1 \in 1..Len(RevertedBlocks)
      BY <2>5
    <3> QED BY <2>2, <3>1
  <2> QED BY <2>4, <2>6
<1>3. ASSUME UNCHANGED <<blocks, chain, version, stake>> PROVE StakeInv' /\ Opens
  <2>1. StakeInv'
    BY <1>0, <1>3, FewerStakes DEF StakeInv
  <2> QED BY <1>3, <2>1
<1>4. ASSUME NEW p \in Producers, UnlockStake(p) PROVE StakeInv' /\ Opens
  <2>1. UNCHANGED <<blocks, chain, version>> /\ stake' = [stake EXCEPT ![p] = NoStake] /\ StakeUnlockable(p)
    BY <1>4 DEF UnlockStake, state
  <2>2. stake' \in [Producers -> FullTimepoints \cup {NoStake}] /\ \A q \in Producers : stake'[q] \in {stake[q], NoStake}
    BY <2>1 DEF StakeInv
  <2>3. StakeInv'
    BY <1>0, <2>1, <2>2, FewerStakes
  <2>4. \A q \in Producers : stake[q] # NoStake /\ stake'[q] = NoStake => q = p
    BY <2>1 DEF StakeInv
  <2>5. \A b \in Ids : InChain(b) /\ blocks[b].owner = p => BlockFinal(b)
    BY <1>0, <2>1, OpenStakeCoversFinal
  <2> QED BY <2>3, <2>4, <2>5
<1>5. ASSUME NEW b \in Ids, EnterChallenge(b) PROVE StakeInv' /\ Opens
  BY <1>3, <1>5 DEF EnterChallenge
<1>6. CASE CancelChallenge \/ (\E b \in Ids : UnlockWithdrawal(b)) \/ CancelDeposit \/ Tick \/ UNCHANGED vars
  BY <1>3, <1>6 DEF CancelChallenge, UnlockWithdrawal, CancelDeposit, Tick, vars, state
<1> QED BY <1>1, <1>2, <1>4, <1>5, <1>6 DEF Next

LEMMA StakeInit == ASSUME Init PROVE StakeInv
BY DEF StakeInv, Init

\* When all versions in use count finality the same way, the stake lock opens
\* for an owner only when every block of that owner in the chain is beyond
\* challenge; a stake is otherwise spent only by a revert.
THEOREM StakesOutlastBlocks == ASSUME OneForm PROVE Spec => StakeOutlastsBlocks
<1>1. Init => ShapeInv /\ FinalInv /\ StakeInv
  BY ShapeInit, FinalInit, StakeInit
<1>2. ShapeInv /\ FinalInv /\ StakeInv /\ [Next]_vars => (ShapeInv /\ FinalInv /\ StakeInv)'
  BY ShapeNext, FinalStep, StakeStep
<1>3. ShapeInv /\ FinalInv /\ StakeInv /\ [Next]_vars =>
         [\A p \in Producers :
             (stake[p] # NoStake /\ stake'[p] = NoStake /\ reverted' = reverted)
                => \A b \in Ids : (InChain(b) /\ b # Genesis /\ blocks[b].owner = p) => BlockFinal(b)]_vars
  BY FinalStep, StakeStep
<1> QED BY <1>1, <1>2, <1>3, PTL DEF Spec, StakeOutlastsBlocks

-----------------------------------------------------------------------------
(* Sums of token amounts over finite sets of cells.                        *)

\* The element a sum takes next.
NextOf(s) == CHOOSE x \in s : TRUE

\* g gives the sum of f over every subset of S.
SumsOf(f, S, g) ==
    g = [s \in SUBSET S |-> IF s = {} THEN 0 ELSE f[NextOf(s)] + g[s \ {NextOf(s)}]]

LEMMA TotalIsSum ==
    ASSUME NEW f, NEW S
    PROVE  Total(f, S) = (CHOOSE g : SumsOf(f, S, g))[S]
BY Zenon DEF Total, MapThenSumSet, MapThenFoldSet, SumsOf, NextOf

LEMMA NextIsElement ==
    ASSUME NEW s, s # {}
    PROVE  NextOf(s) \in s
BY DEF NextOf

\* Induction over finite sets: a bad subset that is bad through none of its elements.
LEMMA MinimalSubset ==
    ASSUME NEW S, IsFiniteSet(S), NEW B, B \subseteq SUBSET S, B # {}
    PROVE  \E s \in B : \A x \in s : s \ {x} \notin B
<1> DEFINE T == {n \in Nat : \E s \in B : Cardinality(s) = n}
<1>1. \A s \in B : IsFiniteSet(s) /\ Cardinality(s) \in Nat
  BY FS_Subset, FS_CardinalityType
<1>2. T # {} /\ T \subseteq Nat
  <2>1. PICK s \in B : TRUE  OBVIOUS
  <2>2. Cardinality(s) \in T  BY <1>1
  <2> QED BY <2>2
<1> HIDE DEF T
<1>3. PICK n \in T : \A m \in T : n <= m  BY <1>2, LeastNat
<1>4. PICK s \in B : Cardinality(s) = n  BY <1>3 DEF T
<1>5. ASSUME NEW x \in s, s \ {x} \in B PROVE FALSE
  <2>1. Cardinality(s \ {x}) = Cardinality(s) - 1  BY <1>1, <1>5, FS_RemoveElement
  <2>2. Cardinality(s \ {x}) \in T  BY <1>1, <1>5 DEF T
  <2> QED BY <1>1, <1>3, <1>4, <2>1, <2>2
<1> QED BY <1>5

LEMMA SumsExist ==
    ASSUME NEW f, NEW S, IsFiniteSet(S)
    PROVE  \E g : SumsOf(f, S, g)
<1> DEFINE Sub(n) == {s \in SUBSET S : Cardinality(s) <= n}
           Part(n, g) == g = [s \in Sub(n) |-> IF s = {} THEN 0
                                               ELSE f[NextOf(s)] + g[s \ {NextOf(s)}]]
           T == {n \in Nat : ~ \E g : Part(n, g)}
<1>1. \A s \in SUBSET S : IsFiniteSet(s) /\ Cardinality(s) \in Nat
  BY FS_Subset, FS_CardinalityType
<1>2. T = {}
  <2>1. SUFFICES ASSUME T # {} PROVE FALSE  OBVIOUS
  <2>2. PICK m \in T : \A n \in T : m <= n
    <3>1. T \subseteq Nat  OBVIOUS
    <3> HIDE DEF T
    <3> QED BY <2>1, <3>1, LeastNat
  <2>3. m \in Nat /\ ~ \E g : Part(m, g)  BY <2>2
  <2>4. CASE m = 0
    <3> DEFINE g == [s \in Sub(0) |-> 0]
    <3>1. \A s \in Sub(0) : s = {}
      <4>1. SUFFICES ASSUME NEW s \in Sub(0) PROVE s = {}  OBVIOUS
      <4>2. Cardinality(s) = 0 /\ IsFiniteSet(s)  BY <1>1
      <4> QED BY <4>2, FS_EmptySet
    <3>2. Part(0, g)  BY <3>1
    <3> HIDE DEF g, Part
    <3> QED BY <2>3, <2>4, <3>2
  <2>5. CASE m # 0
    <3>1. PICK k : k = m - 1  OBVIOUS
    <3>2. k \in Nat /\ m = k + 1 /\ ~(m <= k)  BY <2>3, <2>5, <3>1
    <3>3. PICK h : Part(k, h)
      <4>1. k \notin T
        <5> HIDE DEF T
        <5> QED BY <2>2, <3>2
      <4> HIDE DEF Part
      <4> QED BY <3>2, <4>1
    <3> DEFINE g == [s \in Sub(m) |-> IF s = {} THEN 0 ELSE f[NextOf(s)] + h[s \ {NextOf(s)}]]
    <3>4. \A s \in Sub(k) : s \in Sub(m) /\ g[s] = h[s]
      <4>1. SUFFICES ASSUME NEW s \in Sub(k) PROVE s \in Sub(m) /\ g[s] = h[s]  OBVIOUS
      <4>2. s \in Sub(m)  BY <1>1, <3>2
      <4>3. h[s] = IF s = {} THEN 0 ELSE f[NextOf(s)] + h[s \ {NextOf(s)}]  BY <3>3
      <4> QED BY <4>2, <4>3
    <3>5. \A s \in Sub(m) : s # {} => s \ {NextOf(s)} \in Sub(k)
      <4>1. SUFFICES ASSUME NEW s \in Sub(m), s # {} PROVE s \ {NextOf(s)} \in Sub(k)  OBVIOUS
      <4>2. NextOf(s) \in s /\ IsFiniteSet(s) /\ Cardinality(s) \in Nat /\ Cardinality(s) <= m
        BY <1>1, <4>1, NextIsElement
      <4>3. Cardinality(s \ {NextOf(s)}) = Cardinality(s) - 1  BY <4>2, FS_RemoveElement
      <4> QED BY <3>2, <4>2, <4>3
    <3>6. Part(m, g)
      <4>1. \A s \in Sub(m) : g[s] = IF s = {} THEN 0 ELSE f[NextOf(s)] + g[s \ {NextOf(s)}]
        BY <3>4, <3>5
      <4>2. g = [s \in Sub(m) |-> g[s]]  OBVIOUS
      <4> HIDE DEF g, Sub
      <4> QED BY <4>1, <4>2
    <3> HIDE DEF g, Part
    <3> QED BY <2>3, <3>6
  <2> QED BY <2>4, <2>5
<1>3. PICK n : n = Cardinality(S)  OBVIOUS
<1>4. n \in Nat  BY <1>1, <1>3
<1>5. Sub(n) = SUBSET S  BY <1>1, <1>3, FS_Subset
<1>6. PICK g : Part(n, g)  BY <1>2, <1>4
<1> QED BY <1>5, <1>6 DEF SumsOf

\* A sum over a set is the next element's amount and the sum over the others.
LEMMA TotalNext ==
    ASSUME NEW f, NEW S, IsFiniteSet(S)
    PROVE  Total(f, S) = IF S = {} THEN 0 ELSE f[NextOf(S)] + Total(f, S \ {NextOf(S)})
<1>1. CASE S = {}
  <2>1. PICK g : g = CHOOSE e : SumsOf(f, S, e)  OBVIOUS
  <2>2. SumsOf(f, S, g)  BY <2>1, SumsExist
  <2>3. g[S] = 0  BY <1>1, <2>2 DEF SumsOf
  <2> QED BY <1>1, <2>1, <2>3, TotalIsSum
<1>2. CASE S # {}
  <2>1. PICK R : R = S \ {NextOf(S)}  OBVIOUS
  <2>2. IsFiniteSet(R) /\ R \subseteq S  BY <2>1, FS_Subset
  <2>3. PICK g : g = CHOOSE e : SumsOf(f, S, e)  OBVIOUS
  <2>4. PICK h : h = CHOOSE e : SumsOf(f, R, e)  OBVIOUS
  <2>5. SumsOf(f, S, g) /\ SumsOf(f, R, h)  BY <2>2, <2>3, <2>4, SumsExist
  <2>6. g[S] = f[NextOf(S)] + g[R]  BY <1>2, <2>1, <2>5 DEF SumsOf
  <2>7. \A s \in SUBSET R : g[s] = h[s]
    <3> DEFINE B == {s \in SUBSET R : g[s] # h[s]}
    <3>1. SUFFICES ASSUME B # {} PROVE FALSE  OBVIOUS
    <3>2. PICK s \in B : \A x \in s : s \ {x} \notin B
      <4>1. B \subseteq SUBSET R  OBVIOUS
      <4> HIDE DEF B
      <4> QED BY <2>2, <3>1, <4>1, MinimalSubset
    <3>3. s \in SUBSET R /\ s \in SUBSET S /\ g[s] # h[s]  BY <2>2, <3>2
    <3>4. g[s] = (IF s = {} THEN 0 ELSE f[NextOf(s)] + g[s \ {NextOf(s)}])
          /\ h[s] = (IF s = {} THEN 0 ELSE f[NextOf(s)] + h[s \ {NextOf(s)}])
      BY <2>5, <3>3 DEF SumsOf
    <3>5. s # {}  BY <3>3, <3>4
    <3>6. PICK x : x = NextOf(s)  OBVIOUS
    <3>7. x \in s /\ s \ {x} \in SUBSET R  BY <3>3, <3>5, <3>6, NextIsElement
    <3>8. g[s \ {x}] = h[s \ {x}]  BY <3>2, <3>7
    <3> QED BY <3>3, <3>4, <3>5, <3>6, <3>8
  <2>8. Total(f, S) = g[S] /\ Total(f, R) = h[R]  BY <2>3, <2>4, TotalIsSum
  <2>9. g[R] = h[R]  BY <2>7
  <2> QED BY <1>2, <2>1, <2>6, <2>8, <2>9
<1> QED BY <1>1, <1>2

LEMMA TotalInt ==
    ASSUME NEW f, NEW S, IsFiniteSet(S), \A x \in S : f[x] \in Int
    PROVE  Total(f, S) \in Int
<1> DEFINE B == {s \in SUBSET S : Total(f, s) \notin Int}
<1>1. SUFFICES ASSUME B # {} PROVE FALSE  OBVIOUS
<1>2. PICK s \in B : \A x \in s : s \ {x} \notin B
  <2>1. B \subseteq SUBSET S  OBVIOUS
  <2> HIDE DEF B
  <2> QED BY <1>1, <2>1, MinimalSubset
<1>3. s \subseteq S /\ IsFiniteSet(s) /\ Total(f, s) \notin Int  BY <1>2, FS_Subset
<1>4. Total(f, s) = IF s = {} THEN 0 ELSE f[NextOf(s)] + Total(f, s \ {NextOf(s)})
  BY <1>3, TotalNext
<1>5. s # {}  BY <1>3, <1>4
<1>6. PICK x : x = NextOf(s)  OBVIOUS
<1>7. x \in s /\ s \ {x} \in SUBSET S  BY <1>3, <1>5, <1>6, NextIsElement
<1>8. Total(f, s \ {x}) \in Int  BY <1>2, <1>7
<1> QED BY <1>3, <1>4, <1>5, <1>6, <1>7, <1>8

\* Any element may be taken first.
LEMMA TotalRemove ==
    ASSUME NEW f, NEW S, IsFiniteSet(S), \A x \in S : f[x] \in Int, NEW z \in S
    PROVE  Total(f, S) = f[z] + Total(f, S \ {z})
<1> DEFINE B == {s \in SUBSET S : \E x \in s : Total(f, s) # f[x] + Total(f, s \ {x})}
<1>1. SUFFICES ASSUME B # {} PROVE FALSE  OBVIOUS
<1>2. PICK s \in B : \A x \in s : s \ {x} \notin B
  <2>1. B \subseteq SUBSET S  OBVIOUS
  <2> HIDE DEF B
  <2> QED BY <1>1, <2>1, MinimalSubset
<1>3. s \subseteq S /\ IsFiniteSet(s)  BY <1>2, FS_Subset
<1>4. PICK x \in s : Total(f, s) # f[x] + Total(f, s \ {x})  BY <1>2
<1>5. PICK c : c = NextOf(s)  OBVIOUS
<1>6. c \in s /\ Total(f, s) = f[c] + Total(f, s \ {c})  BY <1>3, <1>4, <1>5, NextIsElement, TotalNext
<1>7. c # x  BY <1>4, <1>6
<1>8. s \ {c} \notin B /\ s \ {x} \notin B /\ s \ {c} \subseteq S /\ s \ {x} \subseteq S
      /\ x \in s \ {c} /\ c \in s \ {x}
  BY <1>2, <1>3, <1>6, <1>7
<1>9. Total(f, s \ {c}) = f[x] + Total(f, (s \ {c}) \ {x})  BY <1>8
<1>10. Total(f, s \ {x}) = f[c] + Total(f, (s \ {x}) \ {c})  BY <1>8
<1>11. (s \ {x}) \ {c} = (s \ {c}) \ {x}  OBVIOUS
<1>12. PICK r : r = (s \ {c}) \ {x}  OBVIOUS
<1>13. r \subseteq S /\ IsFiniteSet(r)  BY <1>3, <1>12, FS_Subset
<1>14. Total(f, r) \in Int /\ f[x] \in Int /\ f[c] \in Int  BY <1>3, <1>6, <1>13, TotalInt
<1>15. Total(f, (s \ {x}) \ {c}) = Total(f, r) /\ Total(f, (s \ {c}) \ {x}) = Total(f, r)
  BY <1>11, <1>12, Zenon
<1>16. PICK t, tc, tx, tr : /\ t = Total(f, s) /\ tc = Total(f, s \ {c})
                            /\ tx = Total(f, s \ {x}) /\ tr = Total(f, r)
  OBVIOUS
<1>17. t = f[c] + tc /\ t # f[x] + tx /\ tr \in Int  BY <1>4, <1>6, <1>14, <1>16
<1>18. tc = f[x] + tr /\ tx = f[c] + tr  BY <1>9, <1>10, <1>15, <1>16
<1> QED BY <1>14, <1>17, <1>18

\* The sum looks at the amounts of its set only.
LEMMA TotalSame ==
    ASSUME NEW f, NEW g, NEW S, IsFiniteSet(S), \A x \in S : f[x] = g[x]
    PROVE  Total(f, S) = Total(g, S)
<1> DEFINE B == {s \in SUBSET S : Total(f, s) # Total(g, s)}
<1>1. SUFFICES ASSUME B # {} PROVE FALSE  OBVIOUS
<1>2. PICK s \in B : \A x \in s : s \ {x} \notin B
  <2>1. B \subseteq SUBSET S  OBVIOUS
  <2> HIDE DEF B
  <2> QED BY <1>1, <2>1, MinimalSubset
<1>3. s \subseteq S /\ IsFiniteSet(s) /\ Total(f, s) # Total(g, s)  BY <1>2, FS_Subset
<1>4. Total(f, s) = (IF s = {} THEN 0 ELSE f[NextOf(s)] + Total(f, s \ {NextOf(s)}))
      /\ Total(g, s) = (IF s = {} THEN 0 ELSE g[NextOf(s)] + Total(g, s \ {NextOf(s)}))
  BY <1>3, TotalNext
<1>5. s # {}  BY <1>3, <1>4
<1>6. PICK x : x = NextOf(s)  OBVIOUS
<1>7. x \in s /\ s \ {x} \in SUBSET S  BY <1>3, <1>5, <1>6, NextIsElement
<1>8. Total(f, s \ {x}) = Total(g, s \ {x})  BY <1>2, <1>7
<1> QED BY <1>3, <1>4, <1>5, <1>6, <1>7, <1>8

\* The sum over two sets without a common element.
LEMMA TotalUnion ==
    ASSUME NEW f, NEW S, NEW R, IsFiniteSet(S), IsFiniteSet(R), S \cap R = {},
           \A x \in S \cup R : f[x] \in Int
    PROVE  Total(f, S \cup R) = Total(f, S) + Total(f, R)
<1> DEFINE B == {s \in SUBSET R : Total(f, S \cup s) # Total(f, S) + Total(f, s)}
<1>1. SUFFICES ASSUME B # {} PROVE FALSE  OBVIOUS
<1>2. PICK s \in B : \A x \in s : s \ {x} \notin B
  <2>1. B \subseteq SUBSET R  OBVIOUS
  <2> HIDE DEF B
  <2> QED BY <1>1, <2>1, MinimalSubset
<1>3. s \subseteq R /\ IsFiniteSet(s) /\ Total(f, S \cup s) # Total(f, S) + Total(f, s)
  BY <1>2, FS_Subset
<1>4. Total(f, S) \in Int  BY TotalInt
<1>5. CASE s = {}
  <2>1. S \cup s = S /\ Total(f, s) = 0  BY <1>3, <1>5, TotalNext
  <2>2. Total(f, S \cup s) = Total(f, S)  BY <2>1, Zenon
  <2> QED BY <1>3, <1>4, <2>1, <2>2
<1>6. CASE s # {}
  <2>1. PICK x : x \in s  BY <1>6
  <2>2. PICK r : r = s \ {x}  OBVIOUS
  <2>3. r \in SUBSET R /\ r \notin B /\ IsFiniteSet(r)  BY <1>2, <1>3, <2>1, <2>2, FS_Subset
  <2>4. Total(f, S \cup r) = Total(f, S) + Total(f, r)  BY <2>3
  <2>5. Total(f, s) = f[x] + Total(f, r)
    <3>1. \A y \in s : f[y] \in Int  BY <1>3
    <3> QED BY <1>3, <2>1, <2>2, <3>1, TotalRemove
  <2>6. PICK u : u = S \cup s  OBVIOUS
  <2>7. IsFiniteSet(u) /\ x \in u /\ u \ {x} = S \cup r /\ \A y \in u : f[y] \in Int
    <3>1. IsFiniteSet(u)  BY <1>3, <2>6, FS_Union
    <3> QED BY <1>3, <2>1, <2>2, <2>6, <3>1
  <2>8. Total(f, u) = f[x] + Total(f, S \cup r)  BY <2>7, TotalRemove
  <2>9. f[x] \in Int /\ Total(f, r) \in Int
    <3>1. \A y \in r : f[y] \in Int  BY <2>3
    <3> QED BY <2>3, <2>7, <3>1, TotalInt
  <2> QED BY <1>3, <1>4, <2>4, <2>5, <2>6, <2>8, <2>9
<1> QED BY <1>5, <1>6

LEMMA TotalOne ==
    ASSUME NEW f, NEW x, f[x] \in Int
    PROVE  Total(f, {x}) = f[x] /\ Total(f, {}) = 0
<1>1. IsFiniteSet({x}) /\ IsFiniteSet({}) /\ {x} \ {x} = {}  BY FS_Singleton, FS_EmptySet
<1>2. Total(f, {}) = 0  BY <1>1, TotalNext
<1>3. Total(f, {x}) = f[x] + Total(f, {x} \ {x})
  <2>1. \A y \in {x} : f[y] \in Int  OBVIOUS
  <2>2. x \in {x}  OBVIOUS
  <2> QED BY <1>1, <2>1, <2>2, TotalRemove
<1>4. Total(f, {x} \ {x}) = Total(f, {})  BY <1>1, Zenon
<1> QED BY <1>2, <1>3, <1>4

\* Sums of amounts that are not negative.
LEMMA TotalNat ==
    ASSUME NEW f, NEW S, IsFiniteSet(S), \A x \in S : f[x] \in Nat
    PROVE  Total(f, S) \in Nat
<1> DEFINE B == {s \in SUBSET S : Total(f, s) \notin Nat}
<1>1. SUFFICES ASSUME B # {} PROVE FALSE  OBVIOUS
<1>2. PICK s \in B : \A x \in s : s \ {x} \notin B
  <2>1. B \subseteq SUBSET S  OBVIOUS
  <2> HIDE DEF B
  <2> QED BY <1>1, <2>1, MinimalSubset
<1>3. s \subseteq S /\ IsFiniteSet(s) /\ Total(f, s) \notin Nat  BY <1>2, FS_Subset
<1>4. Total(f, s) = IF s = {} THEN 0 ELSE f[NextOf(s)] + Total(f, s \ {NextOf(s)})
  BY <1>3, TotalNext
<1>5. s # {}  BY <1>3, <1>4
<1>6. PICK x : x = NextOf(s)  OBVIOUS
<1>7. x \in s /\ s \ {x} \in SUBSET S  BY <1>3, <1>5, <1>6, NextIsElement
<1>8. Total(f, s \ {x}) \in Nat  BY <1>2, <1>7
<1> QED BY <1>3, <1>4, <1>5, <1>6, <1>7, <1>8

\* The part of a set outside another one.
LEMMA TotalSplit ==
    ASSUME NEW f, NEW S, NEW R, IsFiniteSet(S), R \subseteq S, \A x \in S : f[x] \in Int
    PROVE  Total(f, S) = Total(f, R) + Total(f, S \ R)
<1>1. IsFiniteSet(R) /\ IsFiniteSet(S \ R) /\ R \cap (S \ R) = {} /\ R \cup (S \ R) = S
  BY FS_Subset
<1> QED BY <1>1, TotalUnion

LEMMA TotalZero ==
    ASSUME NEW f, NEW S, IsFiniteSet(S), \A x \in S : f[x] = 0
    PROVE  Total(f, S) = 0
<1> DEFINE B == {s \in SUBSET S : Total(f, s) # 0}
<1>1. SUFFICES ASSUME B # {} PROVE FALSE  OBVIOUS
<1>2. PICK s \in B : \A x \in s : s \ {x} \notin B
  <2>1. B \subseteq SUBSET S  OBVIOUS
  <2> HIDE DEF B
  <2> QED BY <1>1, <2>1, MinimalSubset
<1>3. s \subseteq S /\ IsFiniteSet(s) /\ Total(f, s) # 0  BY <1>2, FS_Subset
<1>4. Total(f, s) = IF s = {} THEN 0 ELSE f[NextOf(s)] + Total(f, s \ {NextOf(s)})
  BY <1>3, TotalNext
<1>5. s # {}  BY <1>3, <1>4
<1>6. PICK x : x = NextOf(s)  OBVIOUS
<1>7. x \in s /\ s \ {x} \in SUBSET S  BY <1>3, <1>5, <1>6, NextIsElement
<1>8. Total(f, s \ {x}) = 0  BY <1>2, <1>7
<1> QED BY <1>3, <1>4, <1>5, <1>6, <1>7, <1>8

\* A part of a sum, and one amount of it, is not larger than the sum.
LEMMA TotalPart ==
    ASSUME NEW f, NEW S, NEW R, IsFiniteSet(S), R \subseteq S, \A x \in S : f[x] \in Nat
    PROVE  Total(f, R) <= Total(f, S) /\ \A x \in S : f[x] <= Total(f, S)
<1>1. \A x \in S : f[x] \in Int  OBVIOUS
<1>2. IsFiniteSet(R) /\ IsFiniteSet(S \ R)  BY FS_Subset
<1>3. Total(f, S) = Total(f, R) + Total(f, S \ R)  BY <1>1, TotalSplit
<1>4. Total(f, R) \in Nat /\ Total(f, S \ R) \in Nat
  <2>1. (\A x \in R : f[x] \in Nat) /\ (\A x \in S \ R : f[x] \in Nat)  OBVIOUS
  <2> QED BY <1>2, <2>1, TotalNat
<1>5. ASSUME NEW x \in S PROVE f[x] <= Total(f, S)
  <2>1. Total(f, S) = f[x] + Total(f, S \ {x})  BY <1>1, TotalRemove
  <2>2. IsFiniteSet(S \ {x}) /\ \A y \in S \ {x} : f[y] \in Nat  BY FS_Subset
  <2>3. Total(f, S \ {x}) \in Nat  BY <2>2, TotalNat
  <2> QED BY <2>1, <2>3
<1> QED BY <1>3, <1>4, <1>5


-----------------------------------------------------------------------------
(* Amounts: what the cells of the rollup hold together.                    *)

Cells == {Merged} \cup Ids

LEMMA FiniteCells ==
    /\ IsFiniteSet(Ids) /\ IsFiniteSet(Cells) /\ Merged \notin Ids
    /\ \A S \in SUBSET Cells : IsFiniteSet(S)
<1>1. IsFiniteSet(Ids)  BY RollupConstants, FS_Interval DEF Ids
<1>2. IsFiniteSet({Merged})  BY FS_Singleton
<1>3. IsFiniteSet(Cells)  BY <1>1, <1>2, FS_Union DEF Cells
<1>4. Merged \notin Ids  BY RollupConstants DEF Ids, Merged
<1> QED BY <1>1, <1>3, <1>4, FS_Subset

\* Among the custodian cells {Merged} \cup P, w is taken out of the finalized ones
\* F, and t is put back.
Drawn(C, C2, P, F, w, t) ==
    /\ w > 0 => F \subseteq {Merged} \cup P
    /\ C2[Merged] = (IF w > 0 THEN Total(C, F \cup {Merged}) - w ELSE C[Merged]) + t
    /\ \A c \in P : C2[c] = IF w > 0 /\ c \in F THEN 0 ELSE C[c]

LEMMA MoveCustodians ==
    ASSUME NEW C \in [Cells -> Nat], NEW C2 \in [Cells -> Int], NEW P \in SUBSET Ids,
           NEW F \in SUBSET Cells, NEW w \in Nat, NEW t \in Nat, Drawn(C, C2, P, F, w, t)
    PROVE  Total(C2, {Merged} \cup P) = Total(C, {Merged} \cup P) - w + t
<1>0. Merged \in Cells /\ P \subseteq Cells /\ Merged \notin P  BY FiniteCells DEF Cells
<1>1. /\ IsFiniteSet(P) /\ IsFiniteSet({Merged}) /\ {Merged} \cap P = {}
      /\ (\A x \in {Merged} \cup P : C[x] \in Int /\ C2[x] \in Int)
  BY <1>0, FiniteCells, FS_Singleton
<1>2. Total(C, {Merged} \cup P) = C[Merged] + Total(C, P)
  <2>1. Total(C, {Merged} \cup P) = Total(C, {Merged}) + Total(C, P)  BY <1>1, TotalUnion
  <2> QED BY <1>1, <2>1, TotalOne
<1>3. Total(C2, {Merged} \cup P) = C2[Merged] + Total(C2, P)
  <2>1. Total(C2, {Merged} \cup P) = Total(C2, {Merged}) + Total(C2, P)  BY <1>1, TotalUnion
  <2> QED BY <1>1, <2>1, TotalOne
<1>4. Total(C, P) \in Int /\ Total(C2, P) \in Int  BY <1>1, TotalInt
<1>5. CASE w = 0
  <2>1. Total(C2, P) = Total(C, P)  BY <1>1, <1>5, TotalSame DEF Drawn
  <2>2. C2[Merged] = C[Merged] + t  BY <1>5 DEF Drawn
  <2> QED BY <1>1, <1>2, <1>3, <1>4, <1>5, <2>1, <2>2
<1>6. CASE w # 0
  <2>1. w > 0 /\ F \subseteq {Merged} \cup P  BY <1>6 DEF Drawn
  <2>2. PICK G : G = F \ {Merged}  OBVIOUS
  <2>3. G \subseteq P /\ IsFiniteSet(G) /\ {Merged} \cap G = {} /\ F \cup {Merged} = {Merged} \cup G
    BY <2>1, <2>2, <1>1, FS_Subset
  <2>4. Total(C, F \cup {Merged}) = C[Merged] + Total(C, G)
    <3>1. Total(C, {Merged} \cup G) = Total(C, {Merged}) + Total(C, G)  BY <1>1, <2>3, TotalUnion
    <3>2. Total(C, F \cup {Merged}) = Total(C, {Merged} \cup G)  BY <2>3, Zenon
    <3> QED BY <1>1, <3>1, <3>2, TotalOne
  <2>5. PICK H : H = P \ G  OBVIOUS
  <2>6. H \subseteq P /\ IsFiniteSet(H) /\ P \ G = H  BY <2>5, <1>1, FS_Subset
  <2>7. Total(C, P) = Total(C, G) + Total(C, H)  BY <1>1, <2>3, <2>6, TotalSplit
  <2>8. Total(C2, P) = Total(C2, G) + Total(C2, H)  BY <1>1, <2>3, <2>6, TotalSplit
  <2>9. Total(C2, G) = 0
    <3>1. \A x \in G : C2[x] = 0  BY <2>1, <2>2, <2>3 DEF Drawn
    <3> QED BY <2>3, <3>1, TotalZero
  <2>10. Total(C2, H) = Total(C, H)
    <3>1. \A x \in H : x \in P /\ x \notin F
      BY <1>0, <2>2, <2>5
    <3>2. \A x \in H : C2[x] = C[x]  BY <3>1 DEF Drawn
    <3> QED BY <2>6, <3>2, TotalSame
  <2>11. Total(C, G) \in Int /\ Total(C, H) \in Int
    <3>1. (\A x \in G : C[x] \in Int) /\ (\A x \in H : C[x] \in Int)  BY <1>1, <2>3, <2>6
    <3> QED BY <2>3, <2>6, <3>1, TotalInt
  <2>12. C[Merged] \in Int  BY <1>1
  <2>13. C2[Merged] = C[Merged] + Total(C, G) - w + t
    <3>1. PICK k : k = Total(C, F \cup {Merged})  OBVIOUS
    <3>2. C2[Merged] = k - w + t  BY <2>1, <3>1 DEF Drawn
    <3> QED BY <2>4, <2>11, <2>12, <3>1, <3>2
  <2> QED BY <1>2, <1>3, <2>7, <2>8, <2>9, <2>10, <2>11, <2>12, <2>13
<1> QED BY <1>5, <1>6

\* When finalized cells outside {Merged} \cup P are drawn on too, they only add to
\* what the cells of {Merged} \cup P hold.
DrawnAlso(C, C2, P, F, w, t) ==
    /\ C2[Merged] = (IF w > 0 THEN Total(C, F \cup {Merged}) - w ELSE C[Merged]) + t
    /\ \A c \in P : C2[c] = IF w > 0 /\ c \in F THEN 0 ELSE C[c]

LEMMA MoreCustodians ==
    ASSUME NEW C \in [Cells -> Nat], NEW C2 \in [Cells -> Int], NEW P \in SUBSET Ids,
           NEW F \in SUBSET Cells, NEW w \in Nat, NEW t \in Nat, DrawnAlso(C, C2, P, F, w, t)
    PROVE  Total(C2, {Merged} \cup P) >= Total(C, {Merged} \cup P) - w + t
<1>0. Merged \in Cells /\ P \subseteq Cells /\ Merged \notin P  BY FiniteCells DEF Cells
<1>1. PICK H, E : H = F \cap ({Merged} \cup P) /\ E = F \ H  OBVIOUS
<1>2. /\ H \in SUBSET Cells /\ E \subseteq Cells /\ IsFiniteSet(E) /\ IsFiniteSet(P)
      /\ H \subseteq {Merged} \cup P /\ IsFiniteSet(H \cup {Merged}) /\ (H \cup {Merged}) \cap E = {}
      /\ F \cup {Merged} = (H \cup {Merged}) \cup E
  <2>1. H \subseteq Cells /\ E \subseteq Cells /\ H \cup {Merged} \subseteq Cells  BY <1>0, <1>1
  <2> QED BY <1>0, <1>1, <2>1, FiniteCells
<1>3. PICK x : x = IF w > 0 THEN Total(C, E) ELSE 0  OBVIOUS
<1>4. x \in Nat
  <2>1. \A c \in E : C[c] \in Nat  BY <1>2
  <2>2. Total(C, E) \in Nat  BY <1>2, <2>1, TotalNat
  <2> QED BY <1>3, <2>2
<1>5. PICK C3 : C3 = [C2 EXCEPT ![Merged] = C2[Merged] - x]  OBVIOUS
<1>6. /\ C3 \in [Cells -> Int] /\ C3[Merged] = C2[Merged] - x /\ \A c \in P : C3[c] = C2[c]
  BY <1>0, <1>4, <1>5
<1>7. Drawn(C, C3, P, H, w, t)
  <2>1. \A c \in P : C3[c] = IF w > 0 /\ c \in H THEN 0 ELSE C[c]
    <3>1. \A c \in P : c \in H <=> c \in F  BY <1>1
    <3> QED BY <1>6, <3>1 DEF DrawnAlso
  <2>2. C3[Merged] = (IF w > 0 THEN Total(C, H \cup {Merged}) - w ELSE C[Merged]) + t
    <3>1. CASE w > 0
      <4>1. \A c \in (H \cup {Merged}) \cup E : C[c] \in Int  BY <1>0, <1>2
      <4>2. Total(C, (H \cup {Merged}) \cup E) = Total(C, H \cup {Merged}) + Total(C, E)
        BY <1>2, <4>1, TotalUnion
      <4>3. Total(C, F \cup {Merged}) = Total(C, (H \cup {Merged}) \cup E)  BY <1>2, Zenon
      <4>4. PICK f, h : f = Total(C, F \cup {Merged}) /\ h = Total(C, H \cup {Merged})  OBVIOUS
      <4>5. h \in Int
        <5>1. \A c \in H \cup {Merged} : C[c] \in Int  BY <4>1
        <5> QED BY <1>2, <4>4, <5>1, TotalInt
      <4>6. f = h + x  BY <1>3, <3>1, <4>2, <4>3, <4>4
      <4>7. C2[Merged] = f - w + t  BY <3>1, <4>4 DEF DrawnAlso
      <4>8. C3[Merged] = h - w + t  BY <1>4, <1>6, <4>5, <4>6, <4>7
      <4> QED BY <3>1, <4>4, <4>8
    <3>2. CASE ~(w > 0)
      <4>1. x = 0 /\ C2[Merged] = C[Merged] + t /\ C[Merged] \in Nat  BY <1>0, <1>3, <3>2 DEF DrawnAlso
      <4> QED BY <1>6, <3>2, <4>1
    <3> QED BY <3>1, <3>2
  <2> QED BY <1>2, <2>1, <2>2 DEF Drawn
<1>8. Total(C3, {Merged} \cup P) = Total(C, {Merged} \cup P) - w + t
  BY <1>2, <1>6, <1>7, MoveCustodians
<1>9. Total(C2, {Merged} \cup P) = C2[Merged] + Total(C2, P) /\ Total(C3, {Merged} \cup P) = C3[Merged] + Total(C3, P)
  <2>1. IsFiniteSet({Merged}) /\ {Merged} \cap P = {} /\ (\A c \in {Merged} \cup P : C2[c] \in Int /\ C3[c] \in Int)
    BY <1>0, <1>6, FS_Singleton
  <2>2. /\ Total(C2, {Merged} \cup P) = Total(C2, {Merged}) + Total(C2, P)
        /\ Total(C3, {Merged} \cup P) = Total(C3, {Merged}) + Total(C3, P)
    BY <1>2, <2>1, TotalUnion
  <2> QED BY <2>1, <2>2, TotalOne
<1>10. Total(C3, P) = Total(C2, P) /\ Total(C2, P) \in Int
  <2>1. \A c \in P : C2[c] \in Int  BY <1>0
  <2> QED BY <1>2, <1>6, <2>1, TotalSame, TotalInt
<1>11. C2[Merged] \in Int  BY <1>0
<1>12. PICK a, b, k : a = Total(C2, {Merged} \cup P) /\ b = Total(C, {Merged} \cup P) /\ k = Total(C2, P)
  OBVIOUS
<1>13. a = C2[Merged] + k /\ k \in Int /\ b - w + t = (C2[Merged] - x) + k
  BY <1>6, <1>8, <1>9, <1>10, <1>12
<1>14. a >= b - w + t  BY <1>4, <1>11, <1>13
<1> QED BY <1>12, <1>14

\* Deposit, custodian and withdrawal cells hold no more together than was
\* deposited, and no reverted block is in the chain.
AmountInv ==
    /\ deposits \in Nat /\ custodian \in [Cells -> Nat] /\ withdrawal \in [Ids -> Nat]
    /\ deposits + Total(custodian, Cells) + Total(withdrawal, Ids) <= Deposited
    /\ \A b \in reverted : Submitted(b) /\ ~InChain(b)
    /\ paid \subseteq Ids /\ merged \subseteq Ids

\* The cells of block n are made, those of reverted blocks (BC, BW) come back, and
\* w is taken out of the finalized custodians F.
CellsMoved(C, C2, W, W2, n, F, BC, BW, w, d) ==
    /\ C2[n] = d /\ W2[n] = w
    /\ C2[Merged] = (IF w > 0 THEN Total(C, F \cup {Merged}) - w ELSE C[Merged]) + Total(W, BW)
    /\ \A c \in BC : C2[c] = 0
    /\ \A c \in Ids : c # n /\ c \notin BC => C2[c] = IF w > 0 /\ c \in F THEN 0 ELSE C[c]
    /\ \A b \in BW : W2[b] = 0
    /\ \A b \in Ids : b # n /\ b \notin BW => W2[b] = W[b]

\* The sets of cells a submission touches.
CellSets(n, F, BC, BW) ==
    /\ n \in Ids /\ n \notin F /\ n \notin BC /\ n \notin BW
    /\ F \subseteq Cells /\ BC \subseteq Ids /\ BW \subseteq Ids /\ F \cap BC = {}

LEMMA SubmitMoves ==
    ASSUME ChainInv, AmountInv, NEW p \in Producers, NEW v \in Versions, NEW ts \in 1..MaxTime,
           NEW ok \in BOOLEAN, NEW d \in 0..1, NEW w \in 0..1, SubmitBlock(p, v, ts, ok, d, w)
    PROVE  /\ CellSets(Len(blocks) + 1, FinalizedCustodians, RevertedCustodians, RevertedWithdrawals)
           /\ CellsMoved(custodian, custodian', withdrawal, withdrawal', Len(blocks) + 1,
                         FinalizedCustodians, RevertedCustodians, RevertedWithdrawals, w, d)
           /\ custodian' \in [Cells -> Nat] /\ withdrawal' \in [Ids -> Nat]
           /\ deposits' = deposits - d + Total(custodian, RevertedCustodians) /\ d <= deposits
<1>0. /\ Len(blocks) \in Nat /\ MaxBlocks \in Nat /\ Len(blocks) < MaxBlocks
      /\ custodian \in [Cells -> Nat] /\ withdrawal \in [Ids -> Nat]
  BY RollupConstants, LenProperties DEF ChainInv, SubmitBlock, AmountInv
<1>1. PICK n : n = Len(blocks) + 1  OBVIOUS
<1>2. PICK F, BC, BW : F = FinalizedCustodians /\ BC = RevertedCustodians /\ BW = RevertedWithdrawals
  OBVIOUS
<1>3. n \in Ids /\ n # Merged /\ Merged \notin Ids  BY <1>0, <1>1, FiniteCells DEF Ids, Merged
<1>4. \A b \in reverted : b \in Ids /\ ~InChain(b) /\ b # n /\ b # Merged
  <2>1. \A b \in reverted : b \in 1..Len(blocks) /\ ~InChain(b)  BY DEF AmountInv, Submitted
  <2> QED BY <1>0, <1>1, <2>1 DEF Ids, Merged
<1>5. ~InChain(n)  BY <1>0, <1>1 DEF InChain, ChainInv, Submitted
<1>6. BC \subseteq reverted /\ BW \subseteq reverted
  BY <1>2 DEF RevertedCustodians, RevertedWithdrawals
<1>7. F \subseteq Cells /\ \A c \in F : c = Merged \/ InChain(c)
  BY <1>2 DEF FinalizedCustodians, Cells
<1>8. CellSets(n, F, BC, BW)
  <2>1. F \cap BC = {} /\ n \notin F  BY <1>3, <1>4, <1>5, <1>6, <1>7
  <2> QED BY <1>3, <1>4, <1>6, <1>7, <2>1 DEF CellSets
<1>9. PICK M : M = MergedAfter(w)  OBVIOUS
<1>10. M = (IF w > 0 THEN Total(custodian, F \cup {Merged}) - w ELSE custodian[Merged])
           + Total(withdrawal, BW)
  BY <1>2, <1>9 DEF MergedAfter
<1>11. /\ custodian' = [c \in Cells |->
               CASE c = n -> d
                 [] c = Merged -> M
                 [] c \in BC -> 0
                 [] w > 0 /\ c \in F \ {Merged} -> 0
                 [] OTHER -> custodian[c]]
       /\ withdrawal' = [b \in Ids |->
               CASE b = n -> w
                 [] b \in BW -> 0
                 [] OTHER -> withdrawal[b]]
  BY <1>0, <1>1, <1>2, <1>9 DEF SubmitBlock
<1>12. CellsMoved(custodian, custodian', withdrawal, withdrawal', n, F, BC, BW, w, d)
  <2>1. custodian'[n] = d /\ withdrawal'[n] = w /\ custodian'[Merged] = M
    <3>1. n \in Cells /\ Merged \in Cells  BY <1>3 DEF Cells
    <3>2. n \notin BC /\ n \notin BW /\ n \notin F /\ Merged \notin BC
      BY <1>3, <1>8 DEF CellSets
    <3>3. custodian'[n] = d  BY <1>3, <1>11, <3>1, <3>2
    <3>4. custodian'[Merged] = M  BY <1>3, <1>11, <3>1, <3>2
    <3>5. withdrawal'[n] = w  BY <1>3, <1>11, <3>2
    <3> QED BY <3>3, <3>4, <3>5
  <2>2. \A c \in BC : custodian'[c] = 0
    <3>1. \A c \in BC : c \in Cells /\ c # n /\ c # Merged  BY <1>4, <1>6 DEF Cells
    <3> QED BY <1>11, <3>1
  <2>3. ASSUME NEW c \in Ids, c # n, c \notin BC
        PROVE  custodian'[c] = IF w > 0 /\ c \in F THEN 0 ELSE custodian[c]
    <3>1. c \in Cells /\ c # Merged  BY <1>3 DEF Cells
    <3> QED BY <1>11, <2>3, <3>1
  <2>4. \A b \in BW : withdrawal'[b] = 0
    <3>1. \A b \in BW : b \in Ids /\ b # n  BY <1>4, <1>6
    <3> QED BY <1>11, <3>1
  <2>5. \A b \in Ids : b # n /\ b \notin BW => withdrawal'[b] = withdrawal[b]
    BY <1>11
  <2> QED BY <1>10, <2>1, <2>2, <2>3, <2>4, <2>5 DEF CellsMoved
<1>13. M \in Nat
  <2>1. IsFiniteSet(BW) /\ (\A x \in BW : withdrawal[x] \in Nat) /\ IsFiniteSet(F)
        /\ IsFiniteSet(F \cup {Merged}) /\ (\A x \in F \cup {Merged} : custodian[x] \in Nat)
    <3>1. BW \subseteq Ids /\ BW \subseteq Cells /\ Merged \in Cells /\ F \cup {Merged} \subseteq Cells
      BY <1>4, <1>6, <1>7 DEF Cells
    <3> QED BY <1>0, <1>7, <3>1, FiniteCells
  <2>2. Total(withdrawal, BW) \in Nat  BY <2>1, TotalNat
  <2>3. CASE w = 0
    <3>1. custodian[Merged] \in Nat  BY <2>1
    <3> QED BY <1>10, <2>2, <2>3, <3>1
  <2>4. CASE w # 0
    <3>1. w > 0 /\ w <= Total(custodian, F)
      BY <1>2, <2>4 DEF SubmitBlock, InputCustodiansAccepted
    <3>2. Total(custodian, F) <= Total(custodian, F \cup {Merged})
      <4>1. F \subseteq F \cup {Merged}  OBVIOUS
      <4> QED BY <2>1, <4>1, TotalPart
    <3>3. Total(custodian, F \cup {Merged}) \in Nat /\ Total(custodian, F) \in Nat
      BY <2>1, TotalNat
    <3>4. PICK k, h : k = Total(custodian, F \cup {Merged}) /\ h = Total(custodian, F)  OBVIOUS
    <3>5. k \in Nat /\ h \in Nat /\ w <= h /\ h <= k  BY <3>1, <3>2, <3>3, <3>4
    <3>6. M = k - w + Total(withdrawal, BW)  BY <1>10, <3>1, <3>4
    <3> QED BY <2>2, <3>5, <3>6
  <2> QED BY <2>3, <2>4
<1>14. custodian' \in [Cells -> Nat] /\ withdrawal' \in [Ids -> Nat]
  <2>1. \A c \in Cells : custodian'[c] \in Nat  BY <1>0, <1>11, <1>13
  <2>2. \A b \in Ids : withdrawal'[b] \in Nat  BY <1>0, <1>11
  <2> QED BY <1>11, <2>1, <2>2
<1>15. deposits' = deposits - d + Total(custodian, BC) /\ d <= deposits  BY <1>2 DEF SubmitBlock
<1> QED BY <1>1, <1>2, <1>8, <1>12, <1>14, <1>15

SumsKept(C, C2, W, W2, BC, BW, w, d) ==
    /\ Total(C2, Cells) <= Total(C, Cells) - Total(C, BC) - w + d + Total(W, BW)
    /\ Total(W2, Ids) <= Total(W, Ids) - Total(W, BW) + w
    /\ Total(C, BC) \in Nat /\ Total(W, BW) \in Nat

\* The moves of a submission keep the sum of all cells.
LEMMA SubmitKeepsSum ==
    ASSUME NEW C \in [Cells -> Nat], NEW C2 \in [Cells -> Nat], NEW W \in [Ids -> Nat],
           NEW W2 \in [Ids -> Nat], NEW n, NEW F, NEW BC, NEW BW, CellSets(n, F, BC, BW),
           NEW w \in Nat, NEW d \in Nat, CellsMoved(C, C2, W, W2, n, F, BC, BW, w, d)
    PROVE  SumsKept(C, C2, W, W2, BC, BW, w, d)
<1>0. /\ n \in Ids /\ n \notin BC /\ n \notin BW /\ n \notin F /\ F \cap BC = {} /\ F \subseteq Cells
      /\ BC \subseteq Ids /\ BW \subseteq Ids /\ Ids \subseteq Cells /\ Merged \in Cells
      /\ Merged \notin Ids
  BY FiniteCells DEF CellSets, Cells
<1>1. PICK P : P = Ids \ ({n} \cup BC)  OBVIOUS
<1>2. PICK Q : Q = {Merged} \cup P  OBVIOUS
<1>3. PICK U : U = Q \cup BC  OBVIOUS
<1>4. /\ IsFiniteSet(BC) /\ IsFiniteSet(BW) /\ IsFiniteSet(Q) /\ IsFiniteSet(U) /\ P \in SUBSET Ids
      /\ IsFiniteSet(Cells) /\ IsFiniteSet(Ids) /\ IsFiniteSet(Ids \ {n})
      /\ U \subseteq Cells /\ Q \subseteq Cells
  <2>1. U \subseteq Cells /\ Q \subseteq Cells /\ P \in SUBSET Ids /\ BC \subseteq Cells /\ BW \subseteq Cells
        /\ Ids \ {n} \subseteq Cells
    BY <1>0, <1>1, <1>2, <1>3
  <2> QED BY <2>1, FiniteCells
<1>5. Q \cap BC = {} /\ Cells \ {n} = U /\ n \in Cells
  BY <1>0, <1>1, <1>2, <1>3 DEF Cells
<1>6. \A x \in Cells : C[x] \in Int /\ C2[x] \in Int /\ C[x] \in Nat  OBVIOUS
<1>7. Total(C, BC) \in Nat /\ Total(W, BW) \in Nat /\ Total(C, Q) \in Int /\ C[n] \in Nat
  <2>1. (\A x \in BC : C[x] \in Nat) /\ (\A x \in BW : W[x] \in Nat) /\ (\A x \in Q : C[x] \in Int)
        /\ C[n] \in Nat
    BY <1>0, <1>4, <1>6
  <2> QED BY <1>4, <2>1, TotalNat, TotalInt
<1>8. Total(C, Cells) = C[n] + (Total(C, Q) + Total(C, BC))
  <2>1. Total(C, Cells) = C[n] + Total(C, Cells \ {n})  BY <1>4, <1>5, <1>6, TotalRemove
  <2>2. Total(C, Cells \ {n}) = Total(C, Q \cup BC)  BY <1>3, <1>5, Zenon
  <2>3. Total(C, Q \cup BC) = Total(C, Q) + Total(C, BC)
    <3>1. \A x \in Q \cup BC : C[x] \in Int  BY <1>3, <1>4, <1>6
    <3> QED BY <1>4, <1>5, <3>1, TotalUnion
  <2> QED BY <2>1, <2>2, <2>3
<1>9. Total(C2, Cells) = d + (Total(C2, Q) + 0)
  <2>1. Total(C2, Cells) = C2[n] + Total(C2, Cells \ {n})  BY <1>4, <1>5, <1>6, TotalRemove
  <2>2. Total(C2, Cells \ {n}) = Total(C2, Q \cup BC)  BY <1>3, <1>5, Zenon
  <2>3. Total(C2, Q \cup BC) = Total(C2, Q) + Total(C2, BC)
    <3>1. \A x \in Q \cup BC : C2[x] \in Int  BY <1>3, <1>4, <1>6
    <3> QED BY <1>4, <1>5, <3>1, TotalUnion
  <2>4. Total(C2, BC) = 0
    <3>1. \A x \in BC : C2[x] = 0  BY DEF CellsMoved
    <3> QED BY <1>4, <3>1, TotalZero
  <2>5. C2[n] = d  BY DEF CellsMoved
  <2> QED BY <2>1, <2>2, <2>3, <2>4, <2>5
<1>10. Total(C2, Q) = Total(C, Q) - w + Total(W, BW)
  <2>1. PICK t : t = Total(W, BW)  OBVIOUS
  <2>2. F \subseteq {Merged} \cup P  BY <1>0, <1>1 DEF Cells
  <2>3. C2[Merged] = (IF w > 0 THEN Total(C, F \cup {Merged}) - w ELSE C[Merged]) + t
    BY <2>1 DEF CellsMoved
  <2>4. \A c \in P : C2[c] = IF w > 0 /\ c \in F THEN 0 ELSE C[c]
    BY <1>1 DEF CellsMoved
  <2>5. F \in SUBSET Cells /\ t \in Nat /\ C2 \in [Cells -> Int]
    <3>1. C2 \in [Cells -> Int]  BY <1>6
    <3> QED BY <1>0, <1>7, <2>1, <3>1
  <2>6. Total(C2, {Merged} \cup P) = Total(C, {Merged} \cup P) - w + t
    <3>1. w > 0 => F \subseteq {Merged} \cup P  BY <2>2
    <3>2. P \in SUBSET Ids  BY <1>4
    <3>3. Drawn(C, C2, P, F, w, t)  BY <2>3, <2>4, <3>1 DEF Drawn
    <3> QED BY <2>5, <3>2, <3>3, MoveCustodians
  <2> QED BY <1>2, <2>1, <2>6
<1>11. Total(C2, Cells) <= Total(C, Cells) - Total(C, BC) - w + d + Total(W, BW)
  <2>1. PICK q, q2, a, a2, r, t : /\ q = Total(C, Q) /\ q2 = Total(C2, Q) /\ a = Total(C, Cells)
                                  /\ a2 = Total(C2, Cells) /\ r = Total(C, BC) /\ t = Total(W, BW)
    OBVIOUS
  <2>2. /\ a = C[n] + (q + r) /\ a2 = d + (q2 + 0) /\ q2 = q - w + t
        /\ q \in Int /\ r \in Nat /\ t \in Nat
    BY <1>7, <1>8, <1>9, <1>10, <2>1
  <2>3. a2 <= a - r - w + d + t  BY <1>7, <2>2
  <2> QED BY <2>1, <2>3
<1>12. PICK V : V = Ids \ {n}  OBVIOUS
<1>13. /\ IsFiniteSet(V) /\ BW \subseteq V /\ V \subseteq Ids /\ IsFiniteSet(V \ BW)
       /\ \A x \in Ids : W[x] \in Int /\ W2[x] \in Int /\ W[x] \in Nat
  BY <1>0, <1>4, <1>12, FS_Subset
<1>14. Total(W, Ids) = W[n] + Total(W, V) /\ Total(W2, Ids) = W2[n] + Total(W2, V)
  BY <1>0, <1>4, <1>12, <1>13, TotalRemove
<1>15. Total(W, V) = Total(W, BW) + Total(W, V \ BW)
       /\ Total(W2, V) = Total(W2, BW) + Total(W2, V \ BW)
  BY <1>13, TotalSplit
<1>16. Total(W2, BW) = 0 /\ Total(W2, V \ BW) = Total(W, V \ BW) /\ W2[n] = w
  <2>1. \A x \in BW : W2[x] = 0  BY DEF CellsMoved
  <2>2. \A x \in V \ BW : W2[x] = W[x]  BY <1>12 DEF CellsMoved
  <2>3. W2[n] = w  BY DEF CellsMoved
  <2> QED BY <1>4, <1>13, <2>1, <2>2, <2>3, TotalZero, TotalSame
<1>17. Total(W, V \ BW) \in Nat /\ W[n] \in Nat
  <2>1. \A x \in V \ BW : W[x] \in Nat  BY <1>13
  <2> QED BY <1>0, <1>13, <2>1, TotalNat
<1>18. Total(W2, Ids) <= Total(W, Ids) - Total(W, BW) + w
  <2>1. PICK a, a2, t, k : /\ a = Total(W, Ids) /\ a2 = Total(W2, Ids) /\ t = Total(W, BW)
                           /\ k = Total(W, V \ BW)
    OBVIOUS
  <2>2. a = W[n] + (t + k) /\ a2 = w + (0 + k) /\ t \in Nat /\ k \in Nat
    BY <1>7, <1>14, <1>15, <1>16, <1>17, <2>1
  <2>3. a2 <= a - t + w  BY <1>17, <2>2
  <2> QED BY <2>1, <2>3
<1> QED BY <1>7, <1>11, <1>18 DEF SumsKept


-----------------------------------------------------------------------------
(* Type correctness.                                                       *)

\* Times and timepoints stay within their bounds: a block's timestamp is not
\* below its number.
BoundInv ==
    /\ now \in 1..MaxTime /\ version \in Versions /\ lft \in Timepoints
    /\ stake \in [Producers -> Timepoints \cup {NoStake}]
    /\ \A i \in 1..Len(chain) : i - 1 <= blocks[chain[i]].ts /\ blocks[chain[i]].ts <= MaxTime

LEMMA SubmitBounds ==
    ASSUME ChainInv, BoundInv, NEW p \in Producers, NEW v \in Versions, NEW ts \in 1..MaxTime,
           NEW ok \in BOOLEAN, NEW d \in 0..1, NEW w \in 0..1, SubmitBlock(p, v, ts, ok, d, w)
    PROVE  BoundInv'
<1>0. /\ MaxTime \in Nat /\ FinalityTime \in Nat /\ FinalityBlocks \in Nat
      /\ Len(chain) \in Nat \ {0} /\ Len(blocks) \in Nat /\ v \in 0..2
  BY RollupConstants, LenProperties, EmptySeq DEF ChainInv
<1>1. /\ Len(chain') = Len(chain) + 1 /\ chain'[Len(chain) + 1] = Len(blocks) + 1
      /\ \A i \in 1..Len(chain) : chain'[i] = chain[i]
      /\ \A b \in 1..Len(blocks) : blocks'[b] = blocks[b]
      /\ blocks'[Len(blocks) + 1].ts = ts
  BY SubmitShape, SMTT(30)
<1>2. /\ version' = v /\ lft' = NextFinalized(v, ts) /\ now' = now
      /\ stake' = [stake EXCEPT ![p] = NextStakeTimepoint(v, ts)] /\ ts > blocks[Tip].ts
  BY DEF SubmitBlock, TimestampAccepted, NextStake
<1>3. Len(chain) - 1 <= blocks[Tip].ts /\ blocks[Tip].ts \in Nat
  <2>1. Len(chain) \in 1..Len(chain) /\ Tip \in 1..Len(blocks)
    BY <1>0 DEF ChainInv, Submitted, Tip
  <2> QED BY <2>1, BlockTypes DEF BoundInv, Tip
<1>4. Len(chain) <= ts /\ ts <= MaxTime  BY <1>0, <1>2, <1>3
<1>5. lft' \in Timepoints
  <2>1. CASE UseTimestamp(v)
    BY <1>0, <1>2, <1>4, <2>1 DEF NextFinalized, Timestamp, Timepoints
  <2>2. CASE ~UseTimestamp(v)
    <3>1. PICK k : k = IF Len(chain) > FinalityBlocks THEN Len(chain) - FinalityBlocks ELSE 0  OBVIOUS
    <3>2. k \in 0..(MaxTime + FinalityTime)  BY <1>0, <1>4, <3>1
    <3> QED BY <1>2, <2>2, <3>1, <3>2 DEF NextFinalized, BlockNumber, Timepoints
  <2> QED BY <2>1, <2>2
<1>6. NextStakeTimepoint(v, ts) \in Timepoints
  BY <1>0, <1>4 DEF NextStakeTimepoint, Timestamp, BlockNumber, Timepoints
<1>7. stake' \in [Producers -> Timepoints \cup {NoStake}]  BY <1>2, <1>6 DEF BoundInv
<1>8. ASSUME NEW i \in 1..Len(chain')
      PROVE  i - 1 <= blocks'[chain'[i]].ts /\ blocks'[chain'[i]].ts <= MaxTime
  <2>1. CASE i \in 1..Len(chain)
    <3>1. chain'[i] = chain[i] /\ chain[i] \in 1..Len(blocks)
      BY <1>1, <2>1 DEF ChainInv, Submitted
    <3>2. blocks'[chain'[i]] = blocks[chain[i]]  BY <1>1, <3>1
    <3> QED BY <2>1, <3>2 DEF BoundInv
  <2>2. CASE i = Len(chain) + 1  BY <1>0, <1>1, <1>4, <2>2
  <2> QED BY <1>0, <1>1, <2>1, <2>2
<1>9. now' \in 1..MaxTime /\ version' \in Versions  BY <1>2 DEF BoundInv
<1> QED BY <1>5, <1>7, <1>8, <1>9 DEF BoundInv

LEMMA RevertBounds ==
    ASSUME ShapeInv, BoundInv, NEW since \in 0..MaxTime, Revert(since)
    PROVE  BoundInv'
<1>0. /\ MaxTime \in Nat /\ FinalityTime \in Nat /\ FinalityBlocks \in Nat
      /\ Len(chain) \in Nat \ {0} /\ ChainInv
  BY RollupConstants, LenProperties, EmptySeq DEF ChainInv, ShapeInv
<1>1. PICK n : /\ n = blocks[challenge.target].number
               /\ n \in 1..Len(chain) - 1 /\ Len(chain') = n
               /\ \A i \in 1..n : chain'[i] = chain[i]
  BY RevertShape
<1>2. /\ UNCHANGED <<now, blocks, version>> /\ lft' = RevertedFinalized(n, since)
      /\ \E B : stake' = [p \in Producers |-> IF p \in B THEN NoStake ELSE stake[p]]
  BY <1>1 DEF Revert
<1>3. \A i \in 1..Len(chain') : i \in 1..Len(chain) /\ chain'[i] = chain[i]  BY <1>0, <1>1
<1>4. stake' \in [Producers -> Timepoints \cup {NoStake}]  BY <1>2 DEF BoundInv
<1>5. n <= MaxTime + 1
  <2>1. n \in 1..Len(chain) /\ chain[n] \in 1..Len(blocks)  BY <1>0, <1>1 DEF ChainInv, Submitted
  <2>2. blocks[chain[n]].ts \in Nat  BY <1>0, <2>1, BlockTypes
  <2>3. n - 1 <= blocks[chain[n]].ts /\ blocks[chain[n]].ts <= MaxTime  BY <2>1 DEF BoundInv
  <2> QED BY <1>0, <2>1, <2>2, <2>3
<1>6. lft' \in Timepoints
  <2>1. CASE UseTimestamp(version)
    BY <1>0, <1>2, <2>1 DEF RevertedFinalized, Timestamp, Timepoints, BoundInv
  <2>2. CASE ~UseTimestamp(version)
    <3>1. PICK k : k = IF n - 1 > FinalityBlocks THEN n - 1 - FinalityBlocks ELSE 0  OBVIOUS
    <3>2. k \in 0..(MaxTime + FinalityTime)  BY <1>0, <1>1, <1>5, <3>1
    <3> QED BY <1>2, <2>2, <3>1, <3>2 DEF RevertedFinalized, BlockNumber, Timepoints
  <2> QED BY <2>1, <2>2
<1>7. \A i \in 1..Len(chain') : i - 1 <= blocks'[chain'[i]].ts /\ blocks'[chain'[i]].ts <= MaxTime
  BY <1>2, <1>3 DEF BoundInv
<1> QED BY <1>2, <1>4, <1>6, <1>7 DEF BoundInv

\* Every transaction keeps the bounds.
LEMMA BoundStep ==
    ASSUME ShapeInv, BoundInv, [Next]_vars
    PROVE  BoundInv'
<1>0. ChainInv /\ MaxTime \in Nat  BY RollupConstants DEF ShapeInv
<1>1. ASSUME NEW p \in Producers, NEW v \in Versions, NEW ts \in 1..MaxTime, NEW ok \in BOOLEAN,
             NEW d \in 0..1, NEW w \in 0..1, SubmitBlock(p, v, ts, ok, d, w)
      PROVE  BoundInv'
  BY <1>0, <1>1, SubmitBounds
<1>2. ASSUME NEW since \in 0..MaxTime, Revert(since) PROVE BoundInv'  BY <1>2, RevertBounds
<1>3. ASSUME NEW p \in Producers, UnlockStake(p) PROVE BoundInv'
  BY <1>3 DEF UnlockStake, BoundInv, state
<1>4. CASE Tick  BY <1>0, <1>4 DEF Tick, BoundInv, state
<1>5. ASSUME UNCHANGED <<now, version, lft, stake, chain, blocks>> PROVE BoundInv'
  BY <1>5 DEF BoundInv
<1>6. CASE (\E b \in Ids : EnterChallenge(b)) \/ CancelChallenge \/ (\E b \in Ids : UnlockWithdrawal(b))
           \/ CancelDeposit \/ UNCHANGED vars
  BY <1>5, <1>6 DEF EnterChallenge, CancelChallenge, UnlockWithdrawal, CancelDeposit, vars, state
<1> QED BY <1>1, <1>2, <1>3, <1>4, <1>6 DEF Next

LEMMA SubmitAmount ==
    ASSUME ChainInv, AmountInv, NEW p \in Producers, NEW v \in Versions, NEW ts \in 1..MaxTime,
           NEW ok \in BOOLEAN, NEW d \in 0..1, NEW w \in 0..1, SubmitBlock(p, v, ts, ok, d, w)
    PROVE  AmountInv'
<1>1. PICK n, F, BC, BW :
         /\ CellSets(n, F, BC, BW)
         /\ CellsMoved(custodian, custodian', withdrawal, withdrawal', n, F, BC, BW, w, d)
         /\ custodian' \in [Cells -> Nat] /\ withdrawal' \in [Ids -> Nat]
         /\ deposits' = deposits - d + Total(custodian, BC) /\ d <= deposits
  BY SubmitMoves
<1>2. PICK C, C2, W, W2 : C = custodian /\ C2 = custodian' /\ W = withdrawal /\ W2 = withdrawal'
  OBVIOUS
<1>3. /\ C \in [Cells -> Nat] /\ C2 \in [Cells -> Nat] /\ W \in [Ids -> Nat] /\ W2 \in [Ids -> Nat]
      /\ CellsMoved(C, C2, W, W2, n, F, BC, BW, w, d)
  BY <1>1, <1>2 DEF AmountInv
<1>4. /\ Total(C2, Cells) <= Total(C, Cells) - Total(C, BC) - w + d + Total(W, BW)
      /\ Total(W2, Ids) <= Total(W, Ids) - Total(W, BW) + w
      /\ Total(C, BC) \in Nat /\ Total(W, BW) \in Nat
  <2>1. w \in Nat /\ d \in Nat  OBVIOUS
  <2>2. SumsKept(C, C2, W, W2, BC, BW, w, d)  BY <1>1, <1>3, <2>1, SubmitKeepsSum
  <2> QED BY <2>2 DEF SumsKept
<1>5. /\ Total(C, Cells) \in Nat /\ Total(C2, Cells) \in Nat /\ Total(W, Ids) \in Nat
      /\ Total(W2, Ids) \in Nat
  BY <1>3, FiniteCells, TotalNat
<1>6. PICK c, c2, x, x2, r, t :
         /\ c = Total(C, Cells) /\ c2 = Total(C2, Cells) /\ x = Total(W, Ids) /\ x2 = Total(W2, Ids)
         /\ r = Total(C, BC) /\ t = Total(W, BW)
  OBVIOUS
<1>7. /\ c2 <= c - r - w + d + t /\ x2 <= x - t + w
      /\ {c, c2, x, x2, r, t} \subseteq Nat /\ deposits \in Nat /\ d <= deposits
      /\ deposits' = deposits - d + r /\ deposits + c + x <= Deposited /\ Deposited \in Nat
  BY <1>1, <1>2, <1>4, <1>5, <1>6, RollupConstants DEF AmountInv
<1>8. deposits' \in Nat /\ deposits' + c2 + x2 <= Deposited  BY <1>7
<1>9. deposits' + Total(custodian', Cells) + Total(withdrawal', Ids) <= Deposited
  BY <1>2, <1>6, <1>8
<1>10. \A b \in reverted' : Submitted(b)' /\ ~InChain(b)'
  <2>1. /\ Len(blocks') = Len(blocks) + 1 /\ Len(chain') = Len(chain) + 1
        /\ chain'[Len(chain) + 1] = Len(blocks) + 1
        /\ (\A i \in 1..Len(chain) : chain'[i] = chain[i])
    BY SubmitShape, SMTT(30)
  <2>2. Len(blocks) \in Nat /\ Len(chain) \in Nat  BY LenProperties DEF ChainInv
  <2>3. reverted' = reverted  BY DEF SubmitBlock
  <2>4. SUFFICES ASSUME NEW b \in reverted PROVE Submitted(b)' /\ ~InChain(b)'  BY <2>3
  <2>5. b \in 1..Len(blocks) /\ ~InChain(b)  BY <2>4 DEF AmountInv, Submitted
  <2>6. \A i \in 1..Len(chain') : chain'[i] # b
    <3>1. \A i \in 1..Len(chain) : chain[i] # b  BY <2>5 DEF InChain
    <3>2. SUFFICES ASSUME NEW i \in 1..Len(chain') PROVE chain'[i] # b  OBVIOUS
    <3>3. CASE i \in 1..Len(chain)  BY <2>1, <3>1, <3>3
    <3>4. CASE i = Len(chain) + 1  BY <2>1, <2>2, <2>5, <3>4
    <3> QED BY <2>1, <2>2, <3>3, <3>4
  <2> QED BY <2>1, <2>2, <2>5, <2>6 DEF Submitted, InChain
<1>11. paid' = paid /\ merged' \subseteq Ids
  <2>1. FinalizedCustodians \ {Merged} \subseteq Ids  BY DEF FinalizedCustodians
  <2>2. paid' = paid /\ merged' \in {merged, merged \cup (FinalizedCustodians \ {Merged})}
    BY DEF SubmitBlock
  <2> QED BY <2>1, <2>2 DEF AmountInv
<1> QED BY <1>1, <1>8, <1>9, <1>10, <1>11 DEF AmountInv

\* A revert undoes the blocks from the challenged one on.
LEMMA RevertSets ==
    ASSUME ShapeInv, NEW since \in 0..MaxTime, Revert(since)
    PROVE  LET n == blocks[challenge.target].number
           IN  reverted' = reverted \cup {chain[j] : j \in n + 1..Len(chain)}
<1>1. PICK n : /\ n = blocks[challenge.target].number /\ n \in 1..Len(chain) - 1
               /\ RevertedBlocks = SubSeq(chain, n + 1, Len(chain))
  BY RevertShape
<1>2. chain \in Seq(Ids) /\ Len(chain) \in Nat  BY LenProperties DEF ShapeInv, ChainInv
<1>3. PICK bs : bs = RevertedBlocks  OBVIOUS
<1>4. Len(bs) = Len(chain) - n /\ \A i \in 1..Len(chain) - n : bs[i] = chain[n + i]
  <2>1. \A i \in n + 1..Len(chain) : chain[i] \in Ids  BY <1>1, <1>2, ElementOfSeq
  <2>2. bs = SubSeq(chain, n + 1, Len(chain))  BY <1>1, <1>3
  <2>3. /\ Len(bs) = (IF n + 1 <= Len(chain) THEN Len(chain) - (n + 1) + 1 ELSE 0)
        /\ \A i \in 1..Len(chain) - (n + 1) + 1 : bs[i] = chain[(n + 1) + i - 1]
    <3>1. PICK m, l : m = n + 1 /\ l = Len(chain)  OBVIOUS
    <3>2. m \in Int /\ l \in Int /\ \A i \in m..l : chain[i] \in Ids  BY <1>1, <1>2, <2>1, <3>1
    <3>3. /\ Len(SubSeq(chain, m, l)) = IF m <= l THEN l - m + 1 ELSE 0
          /\ \A i \in 1..l - m + 1 : SubSeq(chain, m, l)[i] = chain[m + i - 1]
      BY <3>2, SubSeqProperties
    <3>4. bs = SubSeq(chain, m, l)  BY <2>2, <3>1
    <3> QED BY <3>1, <3>3, <3>4
  <2>4. Len(bs) = Len(chain) - n  BY <1>1, <1>2, <2>3
  <2>5. ASSUME NEW i \in 1..Len(chain) - n PROVE bs[i] = chain[n + i]
    <3>1. i \in 1..Len(chain) - (n + 1) + 1 /\ (n + 1) + i - 1 = n + i  BY <1>1, <1>2, SMTT(60)
    <3> QED BY <2>3, <3>1
  <2> QED BY <2>4, <2>5
<1>5. reverted' = reverted \cup {bs[i] : i \in 1..Len(bs)}  BY <1>3 DEF Revert
<1>6. {bs[i] : i \in 1..Len(bs)} = {chain[j] : j \in n + 1..Len(chain)}
  <2>1. ASSUME NEW i \in 1..Len(bs) PROVE \E j \in n + 1..Len(chain) : bs[i] = chain[j]
    <3>1. i \in 1..Len(chain) - n /\ n + i \in n + 1..Len(chain)  BY <1>1, <1>2, <1>4, SMTT(60)
    <3> QED BY <1>4, <3>1
  <2>2. ASSUME NEW j \in n + 1..Len(chain) PROVE \E i \in 1..Len(bs) : chain[j] = bs[i]
    <3>1. PICK i : i = j - n  OBVIOUS
    <3>2. i \in 1..Len(chain) - n /\ n + i = j  BY <1>1, <1>2, <3>1, SMTT(60)
    <3>3. i \in 1..Len(bs) /\ bs[i] = chain[j]  BY <1>4, <3>2
    <3> QED BY <3>3
  <2> QED BY <2>1, <2>2, SMTT(60)
<1> QED BY <1>1, <1>5, <1>6

\* Every transaction keeps the sum of the cells and the reverted blocks apart.
LEMMA AmountStep ==
    ASSUME ShapeInv, AmountInv, [Next]_vars
    PROVE  AmountInv'
<1>0. ChainInv  BY DEF ShapeInv
<1>1. ASSUME NEW p \in Producers, NEW v \in Versions, NEW ts \in 1..MaxTime, NEW ok \in BOOLEAN,
             NEW d \in 0..1, NEW w \in 0..1, SubmitBlock(p, v, ts, ok, d, w)
      PROVE  AmountInv'
  BY <1>0, <1>1, SubmitAmount
<1>2. ASSUME NEW since \in 0..MaxTime, Revert(since) PROVE AmountInv'
  <2>1. PICK n : /\ n = blocks[challenge.target].number
                 /\ n \in 1..Len(chain) - 1 /\ Len(chain') = n
                 /\ \A i \in 1..n : chain'[i] = chain[i]
                 /\ reverted' = reverted \cup {chain[j] : j \in n + 1..Len(chain)}
    BY <1>2, RevertShape, RevertSets
  <2>2. UNCHANGED <<blocks, deposits, custodian, withdrawal, paid, merged>>  BY <1>2 DEF Revert
  <2>3. Len(chain) \in Nat  BY <1>0, LenProperties DEF ChainInv
  <2>4. ASSUME NEW b \in reverted' PROVE b \in 1..Len(blocks) /\ \A i \in 1..n : chain[i] # b
    <3>1. CASE b \in reverted
      <4>1. b \in 1..Len(blocks) /\ ~InChain(b)  BY <3>1 DEF AmountInv, Submitted
      <4>2. \A i \in 1..n : i \in 1..Len(chain)  BY <2>1, <2>3
      <4> QED BY <4>1, <4>2 DEF InChain
    <3>2. CASE b \notin reverted
      <4>1. PICK j \in n + 1..Len(chain) : b = chain[j]  BY <2>1, <2>4, <3>2
      <4>2. j \in 1..Len(chain)  BY <2>1, <2>3
      <4>3. b \in 1..Len(blocks) /\ blocks[b].number = j - 1
        BY <1>0, <4>1, <4>2 DEF ChainInv, Submitted
      <4>4. ASSUME NEW i \in 1..n PROVE chain[i] # b
        <5>1. i \in 1..Len(chain)  BY <2>1, <2>3
        <5>2. blocks[chain[i]].number = i - 1  BY <1>0, <5>1 DEF ChainInv
        <5>3. i # j  BY <2>1, <2>3
        <5> QED BY <2>1, <2>3, <4>2, <4>3, <5>1, <5>2, <5>3
      <4> QED BY <4>3, <4>4
    <3> QED BY <3>1, <3>2
  <2>5. \A b \in reverted' : Submitted(b)' /\ ~InChain(b)'
    BY <2>1, <2>2, <2>4 DEF Submitted, InChain
  <2> QED BY <2>2, <2>5 DEF AmountInv
<1>3. ASSUME NEW b \in Ids, UnlockWithdrawal(b) PROVE AmountInv'
  <2>1. PICK W, W2 : W = withdrawal /\ W2 = [W EXCEPT ![b] = 0]  OBVIOUS
  <2>2. /\ withdrawal' = W2 /\ paid' = paid \cup {b}
        /\ UNCHANGED <<blocks, chain, reverted, deposits, custodian, merged>>
    BY <1>3, <2>1 DEF UnlockWithdrawal, state
  <2>3. W \in [Ids -> Nat] /\ W2 \in [Ids -> Nat] /\ W2[b] = 0 /\ \A x \in Ids \ {b} : W2[x] = W[x]
    BY <2>1 DEF AmountInv
  <2>4. IsFiniteSet(Ids) /\ IsFiniteSet(Ids \ {b})  BY FiniteCells, FS_Subset
  <2>5. \A x \in Ids : W[x] \in Int /\ W2[x] \in Int  BY <2>3
  <2>6. Total(W, Ids) = W[b] + Total(W, Ids \ {b}) /\ Total(W2, Ids) = W2[b] + Total(W2, Ids \ {b})
    BY <2>4, <2>5, TotalRemove
  <2>7. Total(W2, Ids \ {b}) = Total(W, Ids \ {b})  BY <2>3, <2>4, TotalSame
  <2>8. Total(W, Ids \ {b}) \in Nat
    <3>1. \A x \in Ids \ {b} : W[x] \in Nat  BY <2>3
    <3> QED BY <2>4, <3>1, TotalNat
  <2>9. PICK k, a, a2 : k = Total(W, Ids \ {b}) /\ a = Total(W, Ids) /\ a2 = Total(W2, Ids)  OBVIOUS
  <2>10. k \in Nat /\ a = W[b] + k /\ a2 = 0 + k /\ W[b] \in Nat
    BY <2>3, <2>6, <2>7, <2>8, <2>9
  <2>11. a2 <= a /\ a \in Nat /\ a2 \in Nat  BY <2>10
  <2>12. Total(custodian, Cells) \in Nat /\ Deposited \in Nat
    BY FiniteCells, TotalNat, RollupConstants DEF AmountInv
  <2>13. PICK c : c = Total(custodian, Cells)  OBVIOUS
  <2>14. deposits + c + a <= Deposited /\ deposits \in Nat /\ c \in Nat
    BY <2>1, <2>9, <2>12, <2>13 DEF AmountInv
  <2>15. deposits + c + a2 <= Deposited  BY <2>11, <2>12, <2>14
  <2>16. \A x : (Submitted(x)' <=> Submitted(x)) /\ (InChain(x)' <=> InChain(x))
    BY <2>2 DEF Submitted, InChain
  <2>17. deposits' + Total(custodian', Cells) + Total(withdrawal', Ids) <= Deposited
    BY <2>2, <2>9, <2>13, <2>15
  <2> QED BY <2>2, <2>3, <2>16, <2>17 DEF AmountInv
<1>4. CASE CancelDeposit
  <2>1. /\ deposits > 0 /\ deposits' = deposits - 1
        /\ UNCHANGED <<blocks, chain, reverted, custodian, withdrawal, paid, merged>>
    BY <1>4 DEF CancelDeposit, state
  <2>2. Total(custodian, Cells) \in Nat /\ Total(withdrawal, Ids) \in Nat /\ Deposited \in Nat
    BY FiniteCells, TotalNat, RollupConstants DEF AmountInv
  <2>3. PICK c, x : c = Total(custodian, Cells) /\ x = Total(withdrawal, Ids)  OBVIOUS
  <2>4. deposits \in Nat /\ deposits + c + x <= Deposited /\ c \in Nat /\ x \in Nat
    BY <2>2, <2>3 DEF AmountInv
  <2>5. deposits' \in Nat /\ deposits' + c + x <= Deposited  BY <2>1, <2>2, <2>4
  <2>6. \A b : (Submitted(b)' <=> Submitted(b)) /\ (InChain(b)' <=> InChain(b))
    BY <2>1 DEF Submitted, InChain
  <2> QED BY <2>1, <2>3, <2>5, <2>6 DEF AmountInv
<1>5. ASSUME UNCHANGED <<blocks, chain, reverted, deposits, custodian, withdrawal, paid, merged>>
      PROVE  AmountInv'
  <2>1. \A b : (Submitted(b)' <=> Submitted(b)) /\ (InChain(b)' <=> InChain(b))
    BY <1>5 DEF Submitted, InChain
  <2> QED BY <1>5, <2>1 DEF AmountInv
<1>6. CASE (\E b \in Ids : EnterChallenge(b)) \/ CancelChallenge \/ (\E p \in Producers : UnlockStake(p))
           \/ Tick \/ UNCHANGED vars
  BY <1>5, <1>6 DEF EnterChallenge, CancelChallenge, UnlockStake, Tick, vars, state
<1> QED BY <1>1, <1>2, <1>3, <1>4, <1>6 DEF Next

LEMMA AmountInit == Init => AmountInv /\ BoundInv
<1> SUFFICES ASSUME Init PROVE AmountInv /\ BoundInv  OBVIOUS
<1>0. MaxTime \in Nat \ {0} /\ FinalityTime \in Nat /\ Deposited \in Nat  BY RollupConstants
<1>1. /\ deposits = Deposited /\ custodian = [c \in Cells |-> 0] /\ withdrawal = [b \in Ids |-> 0]
      /\ reverted = {} /\ paid = {} /\ merged = {} /\ now = 1 /\ version \in Versions /\ lft = BlockNumber(0)
      /\ stake = [p \in Producers |-> NoStake] /\ Len(chain) = 1 /\ chain[1] = 1 /\ blocks[1].ts = 0
  BY DEF Init, Cells, Genesis
<1>2. Total(custodian, Cells) = 0 /\ Total(withdrawal, Ids) = 0  BY <1>1, FiniteCells, TotalZero
<1>3. AmountInv  BY <1>0, <1>1, <1>2 DEF AmountInv
<1>4. lft \in Timepoints  BY <1>0, <1>1 DEF BlockNumber, Timepoints
<1>5. BoundInv  BY <1>0, <1>1, <1>4 DEF BoundInv
<1> QED BY <1>3, <1>5

\* Every variable keeps the shape of the cell data it stands for: the chain lists
\* submitted blocks by number, none of them reverted, and no cell ever holds more
\* than was deposited.
THEOREM RollupTypeCorrect == Spec => []TypeOK
<1> DEFINE Inv == ShapeInv /\ AmountInv /\ BoundInv
<1>1. Init => Inv  BY ShapeInit, AmountInit
<1>2. Inv /\ [Next]_vars => Inv'  BY ShapeNext, AmountStep, BoundStep
<1>3. Inv => TypeOK
  <2> SUFFICES ASSUME Inv PROVE TypeOK  OBVIOUS
  <2>1. /\ IsFiniteSet(Cells) /\ IsFiniteSet(Ids) /\ Deposited \in Nat /\ deposits \in Nat
        /\ custodian \in [Cells -> Nat] /\ withdrawal \in [Ids -> Nat]
    BY FiniteCells, RollupConstants DEF AmountInv
  <2>2. PICK c, x : c = Total(custodian, Cells) /\ x = Total(withdrawal, Ids)  OBVIOUS
  <2>3. c \in Nat /\ x \in Nat /\ deposits + c + x <= Deposited
    BY <2>1, <2>2, TotalNat DEF AmountInv
  <2>4. \A b \in Cells : custodian[b] <= c
    <3>1. \A b \in Cells : custodian[b] \in Nat  BY <2>1
    <3>2. Cells \subseteq Cells  OBVIOUS
    <3> QED BY <2>1, <2>2, <3>1, <3>2, TotalPart
  <2>5. \A b \in Ids : withdrawal[b] <= x
    <3>1. \A b \in Ids : withdrawal[b] \in Nat  BY <2>1
    <3>2. Ids \subseteq Ids  OBVIOUS
    <3> QED BY <2>1, <2>2, <3>1, <3>2, TotalPart
  <2>6. deposits \in 0..Deposited  BY <2>1, <2>3
  <2>7. custodian \in [{Merged} \cup Ids -> 0..Deposited]
    <3>1. \A b \in Cells : custodian[b] \in 0..Deposited  BY <2>1, <2>3, <2>4
    <3> QED BY <2>1, <3>1 DEF Cells
  <2>8. withdrawal \in [Ids -> 0..Deposited]
    <3>1. \A b \in Ids : withdrawal[b] \in 0..Deposited  BY <2>1, <2>3, <2>5
    <3> QED BY <2>1, <3>1
  <2>9. (status = "Halting") = (challenge # NoChallenge)
    <3>1. NoChallenge \notin [target : Ids, at : Nat]  BY RollupConstants DEF Ids
    <3> QED BY <3>1 DEF ShapeInv, ChallengeInv
  <2> QED BY <2>6, <2>7, <2>8, <2>9 DEF TypeOK, ShapeInv, ChainInv, ChallengeInv, AmountInv, BoundInv
<1> QED BY <1>1, <1>2, <1>3, PTL DEF Spec

-----------------------------------------------------------------------------
(* Custodians back the accounts.                                           *)

\* The custodian cells of the blocks K and the withdrawal cells of the blocks G.
Balance(C, W, K, G) == Total(C, {Merged} \cup K) + Total(W, G)

\* Block n is new, G holds the blocks whose withdrawal cells come back, and K none
\* whose custodian cells do.
Apart(n, BC, BW, K, G) ==
    /\ K \subseteq Ids /\ G \subseteq Ids /\ n \notin K /\ n \notin G
    /\ BW \subseteq G /\ K \cap BC = {}

\* A submission takes nothing from the balance of the old blocks when its own
\* withdrawal cell is counted among those that can come back.  When it draws on no
\* custodians but those of K, it leaves that balance alone, and moves it by what the
\* block deposits and withdraws when its custodian cell is counted.
BalanceMoved(C, C2, W, W2, n, F, K, G, w, d) ==
    /\ Balance(C, W, K, G) \in Int /\ Balance(C2, W2, K, G \cup {n}) \in Int
    /\ Balance(C2, W2, K, G \cup {n}) >= Balance(C, W, K, G)
    /\ (w > 0 => F \subseteq {Merged} \cup K) =>
          /\ Balance(C2, W2, K, G \cup {n}) = Balance(C, W, K, G)
          /\ Balance(C2, W2, K \cup {n}, G) = Balance(C, W, K, G) - w + d

LEMMA SubmitMovesBalance ==
    ASSUME NEW C \in [Cells -> Nat], NEW C2 \in [Cells -> Nat], NEW W \in [Ids -> Nat],
           NEW W2 \in [Ids -> Nat], NEW n, NEW F, NEW BC, NEW BW, CellSets(n, F, BC, BW),
           NEW w \in Nat, NEW d \in Nat, CellsMoved(C, C2, W, W2, n, F, BC, BW, w, d),
           NEW K, NEW G, Apart(n, BC, BW, K, G)
    PROVE  BalanceMoved(C, C2, W, W2, n, F, K, G, w, d)
<1>0. /\ n \in Ids /\ n \in Cells /\ Merged \in Cells /\ n # Merged /\ F \in SUBSET Cells /\ K \in SUBSET Ids
      /\ G \subseteq Ids /\ n \notin K /\ n \notin G /\ BW \subseteq G /\ K \subseteq Cells
      /\ G \subseteq Cells
  BY FiniteCells DEF CellSets, Cells, Apart
<1>1. PICK Q, V : Q = {Merged} \cup K /\ V = G \ BW  OBVIOUS
<1>2. /\ IsFiniteSet(Q) /\ IsFiniteSet(G) /\ IsFiniteSet(V) /\ IsFiniteSet(BW)
      /\ IsFiniteSet(Q \cup {n}) /\ IsFiniteSet(G \cup {n})
      /\ n \notin Q /\ V \subseteq Ids /\ Q \subseteq Cells
  <2>1. /\ Q \subseteq Cells /\ V \subseteq Cells /\ BW \subseteq Cells /\ Q \cup {n} \subseteq Cells
        /\ G \cup {n} \subseteq Cells
    BY <1>0, <1>1
  <2> QED BY <1>0, <1>1, <2>1, FiniteCells
<1>3. (\A x \in Cells : C[x] \in Int /\ C2[x] \in Int) /\ (\A x \in Ids : W[x] \in Int /\ W2[x] \in Int)
  OBVIOUS
<1>4. PICK t : t = Total(W, BW)  OBVIOUS
<1>5. t \in Nat
  <2>1. \A x \in BW : W[x] \in Nat  BY <1>0
  <2> QED BY <1>2, <1>4, <2>1, TotalNat
<1>6. /\ Total(C2, Q) >= Total(C, Q) - w + t
      /\ (w > 0 => F \subseteq {Merged} \cup K) => Total(C2, Q) = Total(C, Q) - w + t
  <2>1. DrawnAlso(C, C2, K, F, w, t)
    <3>1. \A c \in K : c \in Ids /\ c # n /\ c \notin BC  BY <1>0 DEF Apart
    <3>2. \A c \in K : C2[c] = IF w > 0 /\ c \in F THEN 0 ELSE C[c]  BY <3>1 DEF CellsMoved
    <3>3. C2[Merged] = (IF w > 0 THEN Total(C, F \cup {Merged}) - w ELSE C[Merged]) + t
      BY <1>4 DEF CellsMoved
    <3> QED BY <3>2, <3>3 DEF DrawnAlso
  <2>2. C2 \in [Cells -> Int]  BY <1>3
  <2>3. Total(C2, {Merged} \cup K) >= Total(C, {Merged} \cup K) - w + t
    BY <1>0, <1>5, <2>1, <2>2, MoreCustodians
  <2>4. ASSUME w > 0 => F \subseteq {Merged} \cup K
        PROVE  Total(C2, {Merged} \cup K) = Total(C, {Merged} \cup K) - w + t
    <3>1. Drawn(C, C2, K, F, w, t)  BY <2>1, <2>4 DEF Drawn, DrawnAlso
    <3> QED BY <1>0, <1>5, <2>2, <3>1, MoveCustodians
  <2> QED BY <1>1, <2>3, <2>4
<1>7. Total(C2, Q \cup {n}) = d + Total(C2, Q)
  <2>1. n \in Q \cup {n} /\ (Q \cup {n}) \ {n} = Q /\ \A x \in Q \cup {n} : C2[x] \in Int
    BY <1>0, <1>2, <1>3
  <2>2. Total(C2, Q \cup {n}) = C2[n] + Total(C2, (Q \cup {n}) \ {n})  BY <1>2, <2>1, TotalRemove
  <2>3. Total(C2, (Q \cup {n}) \ {n}) = Total(C2, Q)  BY <2>1, Zenon
  <2>4. C2[n] = d  BY DEF CellsMoved
  <2> QED BY <2>2, <2>3, <2>4
<1>8. Total(W2, G \cup {n}) = w + Total(W2, G)
  <2>1. n \in G \cup {n} /\ (G \cup {n}) \ {n} = G /\ \A x \in G \cup {n} : W2[x] \in Int
    BY <1>0, <1>3
  <2>2. Total(W2, G \cup {n}) = W2[n] + Total(W2, (G \cup {n}) \ {n})  BY <1>2, <2>1, TotalRemove
  <2>3. Total(W2, (G \cup {n}) \ {n}) = Total(W2, G)  BY <2>1, Zenon
  <2>4. W2[n] = w  BY DEF CellsMoved
  <2> QED BY <2>2, <2>3, <2>4
<1>9. Total(W, G) = t + Total(W2, G)
  <2>1. \A x \in G : W[x] \in Int /\ W2[x] \in Int  BY <1>0, <1>3
  <2>2. Total(W, G) = t + Total(W, V)  BY <1>0, <1>1, <1>2, <1>4, <2>1, TotalSplit
  <2>3. Total(W2, G) = Total(W2, BW) + Total(W2, V)  BY <1>0, <1>1, <1>2, <2>1, TotalSplit
  <2>4. Total(W2, BW) = 0
    <3>1. \A x \in BW : W2[x] = 0  BY DEF CellsMoved
    <3> QED BY <1>2, <3>1, TotalZero
  <2>5. Total(W2, V) = Total(W, V)
    <3>1. \A x \in V : x \in Ids /\ x # n /\ x \notin BW  BY <1>0, <1>1
    <3>2. \A x \in V : W2[x] = W[x]  BY <3>1 DEF CellsMoved
    <3> QED BY <1>2, <3>2, TotalSame
  <2>6. Total(W, V) \in Int
    <3>1. \A x \in V : W[x] \in Int  BY <1>2, <1>3
    <3> QED BY <1>2, <3>1, TotalInt
  <2> QED BY <2>2, <2>3, <2>4, <2>5, <2>6
<1>10. Total(C, Q) \in Int /\ Total(C2, Q) \in Int /\ Total(W2, G) \in Int
  <2>1. (\A x \in Q : C[x] \in Int /\ C2[x] \in Int) /\ (\A x \in G : W2[x] \in Int)
    BY <1>0, <1>2, <1>3
  <2> QED BY <1>2, <2>1, TotalInt
<1>11. Total(C2, {Merged} \cup (K \cup {n})) = Total(C2, Q \cup {n})
  <2>1. {Merged} \cup (K \cup {n}) = Q \cup {n}  BY <1>1
  <2> QED BY <2>1, Zenon
<1>12. PICK q, q2, qn, g, g2, gn :
          /\ q = Total(C, Q) /\ q2 = Total(C2, Q) /\ qn = Total(C2, Q \cup {n})
          /\ g = Total(W, G) /\ g2 = Total(W2, G) /\ gn = Total(W2, G \cup {n})
  OBVIOUS
<1>13. /\ q \in Int /\ q2 \in Int /\ g2 \in Int /\ q2 >= q - w + t
       /\ qn = d + q2 /\ g = t + g2 /\ gn = w + g2
  BY <1>6, <1>7, <1>8, <1>9, <1>10, <1>12
<1>14. q2 + gn >= q + g /\ q + g \in Int /\ q2 + gn \in Int  BY <1>5, <1>13
<1>15. q2 = q - w + t => q2 + gn = q + g /\ qn + g2 = (q + g) - w + d  BY <1>5, <1>13
<1>16. (w > 0 => F \subseteq {Merged} \cup K) => q2 = q - w + t  BY <1>6, <1>12
<1>17. /\ Balance(C, W, K, G) = q + g /\ Balance(C2, W2, K, G \cup {n}) = q2 + gn
       /\ Balance(C2, W2, K \cup {n}, G) = qn + g2
  BY <1>1, <1>11, <1>12 DEF Balance
<1> QED BY <1>14, <1>15, <1>16, <1>17 DEF BalanceMoved

\* The blocks up to place i, and those that are reverted or would be by a revert of
\* everything behind place i.
Kept(i) == {chain[j] : j \in 1..i}
Gone(i) == reverted \cup {chain[j] : j \in i + 1..Len(chain)}

\* The blocks up to place i are right, and no withdrawal of a block that is reverted,
\* or would be with everything behind place i, was paid.
Returnable(i) ==
    /\ \A j \in 1..i : blocks[chain[j]].ok
    /\ Gone(i) \cap paid = {}

\* At every place of the chain, as if a revert had returned to it, custodians cover
\* the accounts, and exactly so when no block behind it had its custodian cells spent
\* as final.  Finality is not part of it: a revert with an old since makes blocks
\* revertible again that were final.
BackInv ==
    \A i \in 1..Len(chain) :
        Returnable(i) =>
            /\ blocks[chain[i]].post <= Balance(custodian, withdrawal, Kept(i), Gone(i))
            /\ Gone(i) \cap merged = {} =>
                  blocks[chain[i]].post = Balance(custodian, withdrawal, Kept(i), Gone(i))

\* BackInv at one place, for given sums.
Covered(a, b, exact) == a <= b /\ (exact => a = b)

\* A submitted block's accounts hold those of the tip, with the deposits and without
\* the withdrawals.
LEMMA SubmitPost ==
    ASSUME ChainInv, NEW p \in Producers, NEW v \in Versions, NEW ts \in 1..MaxTime,
           NEW ok \in BOOLEAN, NEW d \in 0..1, NEW w \in 0..1, SubmitBlock(p, v, ts, ok, d, w)
    PROVE  /\ blocks[Tip].post \in Int
           /\ blocks'[Len(blocks) + 1].post = blocks[Tip].post - w + d + (IF ok THEN 0 ELSE 1)
<1>1. PICK r : r = [number |-> Len(chain), ts |-> ts, version |-> v, owner |-> p,
                    ok |-> ok, post |-> blocks[Tip].post - w + d + (IF ok THEN 0 ELSE 1)]
  OBVIOUS
<1>2. blocks' = Append(blocks, r)  BY <1>1 DEF SubmitBlock
<1>3. blocks \in Seq(BlockRecord) /\ Len(blocks) \in Nat /\ Len(chain) \in Nat \ {0}
  BY LenProperties, EmptySeq DEF ChainInv
<1>4. blocks'[Len(blocks) + 1] = r  BY <1>2, <1>3
<1>5. Tip \in 1..Len(blocks)  BY <1>3 DEF ChainInv, Submitted, Tip
<1>6. blocks[Tip] \in BlockRecord  BY <1>3, <1>5, ElementOfSeq
<1> QED BY <1>1, <1>4, <1>6 DEF BlockRecord

\* A submission that spends no custodian cell of a block behind place i as final draws
\* on those up to place i only.
LEMMA DrawnBelow ==
    ASSUME ChainInv, NEW i \in 1..Len(chain), FinalizedCustodians \cap Gone(i) = {}
    PROVE  FinalizedCustodians \subseteq {Merged} \cup Kept(i)
<1>0. Len(chain) \in Nat  BY LenProperties DEF ChainInv
<1>1. SUFFICES ASSUME NEW c \in FinalizedCustodians, c # Merged PROVE c \in Kept(i)  OBVIOUS
<1>2. InChain(c)  BY <1>1 DEF FinalizedCustodians
<1>3. PICK k \in 1..Len(chain) : chain[k] = c  BY <1>2 DEF InChain
<1>4. k \in 1..i \/ k \in i + 1..Len(chain)  BY <1>0
<1>5. k \notin i + 1..Len(chain)  BY <1>1, <1>3 DEF Gone
<1> QED BY <1>3, <1>4, <1>5 DEF Kept

\* The sets of a place before a new block.
LEMMA PlacesApart ==
    ASSUME ShapeInv, AmountInv, NEW i \in 1..Len(chain), NEW n, n = Len(blocks) + 1
    PROVE  Apart(n, RevertedCustodians, RevertedWithdrawals, Kept(i), Gone(i))
<1>0. ChainInv /\ Len(chain) \in Nat /\ Len(blocks) \in Nat /\ Len(blocks) \in Ids /\ MaxBlocks \in Nat
  BY LenProperties, RollupConstants DEF ShapeInv, ChainInv
<1>1. \A j \in 1..Len(chain) : chain[j] \in 1..Len(blocks) /\ InChain(chain[j])
  BY <1>0 DEF ChainInv, Submitted, InChain
<1>2. \A b \in reverted : b \in 1..Len(blocks) /\ ~InChain(b)  BY DEF AmountInv, Submitted
<1>3. \A b \in Kept(i) : b \in 1..Len(blocks) /\ InChain(b)
  <2>1. \A j \in 1..i : j \in 1..Len(chain)  BY <1>0
  <2> QED BY <1>1, <2>1 DEF Kept
<1>4. \A b \in Gone(i) : b \in 1..Len(blocks)
  <2>1. \A j \in i + 1..Len(chain) : j \in 1..Len(chain)  BY <1>0
  <2> QED BY <1>1, <1>2, <2>1 DEF Gone
<1>5. \A b \in 1..Len(blocks) : b \in Ids /\ b # n  BY <1>0 DEF Ids
<1>6. RevertedWithdrawals \subseteq Gone(i) /\ Kept(i) \cap RevertedCustodians = {}
  BY <1>2, <1>3 DEF RevertedWithdrawals, RevertedCustodians, Gone
<1> QED BY <1>3, <1>4, <1>5, <1>6 DEF Apart


LEMMA SubmitBack ==
    ASSUME ShapeInv, AmountInv, BackInv,
           NEW p \in Producers, NEW v \in Versions, NEW ts \in 1..MaxTime,
           NEW ok \in BOOLEAN, NEW d \in 0..1, NEW w \in 0..1, SubmitBlock(p, v, ts, ok, d, w)
    PROVE  BackInv'
<1>0. /\ ChainInv /\ Len(chain) \in Nat \ {0} /\ Len(blocks) \in Nat
      /\ w \in Nat /\ d \in Nat
  BY LenProperties, EmptySeq DEF ShapeInv, ChainInv
<1>1. PICK n : n = Len(blocks) + 1  OBVIOUS
<1>2. /\ Len(chain') = Len(chain) + 1 /\ chain'[Len(chain) + 1] = n
      /\ (\A i \in 1..Len(chain) : chain'[i] = chain[i])
      /\ (\A b \in 1..Len(blocks) : blocks'[b] = blocks[b])
      /\ blocks'[n].ok = ok
  BY <1>0, <1>1, SubmitShape, SMTT(30)
<1>3. /\ reverted' = reverted /\ paid' = paid /\ merged \subseteq merged'
      /\ w > 0 => FinalizedCustodians \ {Merged} \subseteq merged'
  BY DEF SubmitBlock
<1>4. \A i \in 1..Len(chain) : chain[i] \in 1..Len(blocks) /\ chain[i] \in Ids /\ InChain(chain[i])
  <2>1. \A i \in 1..Len(chain) : chain[i] \in 1..Len(blocks) /\ InChain(chain[i])
    BY <1>0 DEF ChainInv, Submitted, InChain
  <2>2. chain \in Seq(Ids)  BY <1>0 DEF ChainInv
  <2> QED BY <2>1, <2>2, ElementOfSeq
<1>5. \A i \in 1..Len(chain) : blocks'[chain'[i]] = blocks[chain[i]]  BY <1>2, <1>4
<1>7. PICK F, BC, BW : F = FinalizedCustodians /\ BC = RevertedCustodians /\ BW = RevertedWithdrawals
  OBVIOUS
<1>8. PICK C, C2, W, W2 : C = custodian /\ C2 = custodian' /\ W = withdrawal /\ W2 = withdrawal'
  OBVIOUS
<1>9. /\ CellSets(n, F, BC, BW) /\ CellsMoved(C, C2, W, W2, n, F, BC, BW, w, d)
      /\ C \in [Cells -> Nat] /\ W \in [Ids -> Nat] /\ C2 \in [Cells -> Nat] /\ W2 \in [Ids -> Nat]
  BY <1>0, <1>1, <1>7, <1>8, SubmitMoves DEF AmountInv
<1>10. ASSUME NEW i \in 1..Len(chain)
       PROVE  BalanceMoved(C, C2, W, W2, n, F, Kept(i), Gone(i), w, d)
  <2>1. PICK K, G : K = Kept(i) /\ G = Gone(i)  OBVIOUS
  <2>2. Apart(n, BC, BW, K, G)  BY <1>1, <1>7, <2>1, PlacesApart
  <2>3. BalanceMoved(C, C2, W, W2, n, F, K, G, w, d)  BY <1>0, <1>9, <2>2, SubmitMovesBalance
  <2> QED BY <2>1, <2>3
<1>11. ASSUME NEW i \in 1..Len(chain), Returnable(i)'
       PROVE  Covered(blocks'[chain'[i]].post, Balance(custodian', withdrawal', Kept(i)', Gone(i)'),
                      Gone(i)' \cap merged' = {})
  <2>1. Kept(i)' = Kept(i)
    <3>1. \A j \in 1..i : chain'[j] = chain[j]  BY <1>0, <1>2
    <3> QED BY <3>1 DEF Kept
  <2>2. Gone(i)' = Gone(i) \cup {n}
    <3>1. {chain'[j] : j \in i + 1..Len(chain')} = {chain[j] : j \in i + 1..Len(chain)} \cup {n}
      <4>1. ASSUME NEW j \in i + 1..Len(chain')
            PROVE  chain'[j] \in {chain[k] : k \in i + 1..Len(chain)} \cup {n}
        <5>1. CASE j = Len(chain) + 1  BY <1>2, <5>1
        <5>2. CASE j # Len(chain) + 1
          <6>1. j \in i + 1..Len(chain) /\ j \in 1..Len(chain)  BY <1>0, <1>2, <5>2
          <6> QED BY <1>2, <6>1
        <5> QED BY <5>1, <5>2
      <4>2. ASSUME NEW j \in i + 1..Len(chain) PROVE \E k \in i + 1..Len(chain') : chain[j] = chain'[k]
        <5>1. j \in i + 1..Len(chain') /\ j \in 1..Len(chain)  BY <1>0, <1>2
        <5> QED BY <1>2, <5>1
      <4>3. \E k \in i + 1..Len(chain') : n = chain'[k]
        <5>1. Len(chain) + 1 \in i + 1..Len(chain')  BY <1>0, <1>2
        <5> QED BY <1>2, <5>1
      <4>4. PICK A, B : A = {chain'[j] : j \in i + 1..Len(chain')} /\ B = {chain[j] : j \in i + 1..Len(chain)}
        OBVIOUS
      <4>5. (\A x \in A : x \in B \cup {n}) /\ (\A x \in B : x \in A) /\ n \in A
        <5>1. ASSUME NEW x \in A PROVE x \in B \cup {n}
          <6>1. PICK j \in i + 1..Len(chain') : x = chain'[j]  BY <4>4
          <6> QED BY <4>1, <4>4, <6>1
        <5>2. ASSUME NEW x \in B PROVE x \in A
          <6>1. PICK j \in i + 1..Len(chain) : x = chain[j]  BY <4>4
          <6>2. PICK k \in i + 1..Len(chain') : chain[j] = chain'[k]  BY <4>2
          <6> QED BY <4>4, <6>1, <6>2
        <5>3. n \in A  BY <4>3, <4>4
        <5> QED BY <5>1, <5>2, <5>3
      <4> QED BY <4>4, <4>5
    <3> QED BY <1>3, <3>1 DEF Gone
  <2>3. Returnable(i)
    <3>1. \A j \in 1..i : blocks[chain[j]].ok
      <4>1. \A j \in 1..i : j \in 1..Len(chain) /\ blocks'[chain'[j]].ok
        BY <1>0, <1>11 DEF Returnable
      <4> QED BY <1>5, <4>1
    <3>2. Gone(i) \cap paid = {}  BY <1>3, <1>11, <2>2 DEF Returnable
    <3> QED BY <3>1, <3>2 DEF Returnable
  <2>4. PICK K, G, a, b, b2 : /\ K = Kept(i) /\ G = Gone(i) /\ a = blocks[chain[i]].post
                              /\ b = Balance(C, W, K, G) /\ b2 = Balance(C2, W2, K, G \cup {n})
    OBVIOUS
  <2>5. a <= b /\ (G \cap merged = {} => a = b)  BY <1>8, <2>3, <2>4 DEF BackInv
  <2>6. b2 >= b /\ b \in Int /\ b2 \in Int /\ ((w > 0 => F \subseteq {Merged} \cup K) => b2 = b)
    BY <1>10, <2>4 DEF BalanceMoved
  <2>7. a \in Int
    <3>1. chain[i] \in 1..Len(blocks) /\ blocks \in Seq(BlockRecord)  BY <1>0, <1>4 DEF ChainInv
    <3>2. blocks[chain[i]] \in BlockRecord  BY <3>1, ElementOfSeq
    <3> QED BY <2>4, <3>2 DEF BlockRecord
  <2>8. (G \cup {n}) \cap merged' = {} => a = b2
    <3>1. SUFFICES ASSUME (G \cup {n}) \cap merged' = {} PROVE a = b2  OBVIOUS
    <3>2. G \cap merged = {}  BY <1>3, <3>1
    <3>3. w > 0 => F \subseteq {Merged} \cup K
      <4>1. SUFFICES ASSUME w > 0 PROVE F \subseteq {Merged} \cup K  OBVIOUS
      <4>2. Merged \notin G
        <5>1. Apart(n, BC, BW, K, G)  BY <1>1, <1>7, <2>4, PlacesApart
        <5> QED BY <5>1, FiniteCells DEF Apart
      <4>3. F \cap Gone(i) = {}  BY <1>3, <1>7, <2>4, <3>1, <4>1, <4>2
      <4> QED BY <1>0, <1>7, <2>4, <4>3, DrawnBelow
    <3> QED BY <2>5, <2>6, <3>2, <3>3
  <2>9. a <= b2  BY <2>5, <2>6, <2>7
  <2>10. PICK H : H = G \cup {n}  OBVIOUS
  <2>11. /\ Kept(i)' = K /\ Gone(i)' = H /\ blocks'[chain'[i]].post = a
         /\ b2 = Balance(custodian', withdrawal', K, H) /\ (H \cap merged' = {} => a = b2)
    BY <1>5, <1>8, <2>1, <2>2, <2>4, <2>8, <2>10
  <2> QED BY <2>9, <2>11 DEF Covered
<1>12. ASSUME NEW l, l = Len(chain), Returnable(l + 1)'
       PROVE  Covered(blocks'[n].post, Balance(custodian', withdrawal', Kept(l + 1)', Gone(l + 1)'),
                      Gone(l + 1)' \cap merged' = {})
  <2>1. l = Len(chain)  BY <1>12
  <2>2. l \in 1..Len(chain) /\ ~(l < Len(chain)) /\ l \in Nat  BY <1>0, <2>1
  <2>3. Kept(l + 1)' = Kept(l) \cup {n}
    <3>1. ASSUME NEW j \in 1..l + 1 PROVE chain'[j] \in {chain[k] : k \in 1..l} \cup {n}
      <4>1. CASE j = l + 1  BY <1>2, <2>1, <4>1
      <4>2. CASE j \in 1..l  BY <1>2, <2>1, <4>2
      <4> QED BY <2>2, <4>1, <4>2
    <3>2. ASSUME NEW j \in 1..l PROVE \E k \in 1..l + 1 : chain[j] = chain'[k]
      <4>1. j \in 1..l + 1  BY <2>2
      <4> QED BY <1>2, <2>1, <4>1
    <3>3. l + 1 \in 1..l + 1 /\ chain'[l + 1] = n  BY <1>2, <2>1, <2>2
    <3>4. {chain'[j] : j \in 1..l + 1} = {chain[j] : j \in 1..l} \cup {n}  BY <3>1, <3>2, <3>3
    <3> QED BY <3>4 DEF Kept
  <2>4. Gone(l + 1)' = Gone(l)
    <3>1. (l + 1) + 1..Len(chain') = {} /\ l + 1..Len(chain) = {}  BY <1>2, <2>1, <2>2
    <3> QED BY <1>3, <3>1 DEF Gone
  <2>5. Returnable(l)
    <3>1. \A j \in 1..l : blocks[chain[j]].ok
      <4>1. \A j \in 1..l : j \in 1..l + 1 /\ j \in 1..Len(chain)  BY <2>1, <2>2
      <4>2. \A j \in 1..l + 1 : blocks'[chain'[j]].ok  BY <1>12, <2>1 DEF Returnable
      <4> QED BY <1>5, <4>1, <4>2
    <3>2. Gone(l) \cap paid = {}
      <4>1. Gone(l + 1)' \cap paid' = {}  BY <1>12, <2>1 DEF Returnable
      <4> QED BY <1>3, <2>4, <4>1
    <3> QED BY <2>2, <3>1, <3>2 DEF Returnable
  <2>6. PICK K, G, a, b : /\ K = Kept(l) /\ G = Gone(l) /\ a = blocks[chain[l]].post
                          /\ b = Balance(C, W, K, G)
    OBVIOUS
  <2>7. a <= b /\ (G \cap merged = {} => a = b)  BY <1>8, <2>2, <2>5, <2>6 DEF BackInv
  <2>8. ok
    <3>1. l + 1 \in 1..l + 1 /\ chain'[l + 1] = n  BY <1>2, <2>1, <2>2
    <3>2. blocks'[chain'[l + 1]].ok  BY <1>12, <2>1, <3>1 DEF Returnable
    <3> QED BY <1>2, <3>1, <3>2
  <2>9. blocks'[n].post = a - w + d /\ a \in Int
    <3>1. blocks[Tip].post \in Int /\ blocks'[n].post = blocks[Tip].post - w + d + (IF ok THEN 0 ELSE 1)
      BY <1>0, <1>1, SubmitPost
    <3>2. Tip = chain[l]  BY <2>1 DEF Tip
    <3> QED BY <1>0, <2>6, <2>8, <3>1, <3>2
  <2>10. F \subseteq {Merged} \cup K
    <3>1. ASSUME NEW c \in F, c # Merged PROVE c \in K
      <4>1. InChain(c)  BY <1>7, <3>1 DEF FinalizedCustodians
      <4> QED BY <2>1, <2>6, <4>1 DEF InChain, Kept
    <3> QED BY <3>1
  <2>11. PICK b2 : b2 = Balance(C2, W2, K \cup {n}, G)  OBVIOUS
  <2>12. b2 = b - w + d /\ b \in Int  BY <1>10, <2>2, <2>6, <2>10, <2>11 DEF BalanceMoved
  <2>13. a - w + d <= b2 /\ (a = b => a - w + d = b2)  BY <1>0, <2>7, <2>9, <2>12
  <2>14. G \cap merged' = {} => a - w + d = b2  BY <1>3, <2>7, <2>13
  <2>15. PICK H : H = K \cup {n}  OBVIOUS
  <2>16. /\ Kept(l + 1)' = H /\ Gone(l + 1)' = G /\ b2 = Balance(custodian', withdrawal', H, G)
    BY <1>8, <2>3, <2>4, <2>6, <2>11, <2>15
  <2> QED BY <2>9, <2>13, <2>14, <2>16 DEF Covered
<1>13. BackInv'
  <2>1. SUFFICES ASSUME NEW i \in 1..Len(chain'), Returnable(i)'
                 PROVE  Covered(blocks'[chain'[i]].post, Balance(custodian', withdrawal', Kept(i)', Gone(i)'),
                                Gone(i)' \cap merged' = {})
    BY DEF BackInv, Covered
  <2>2. CASE i \in 1..Len(chain)  BY <1>11, <2>1, <2>2
  <2>3. CASE i = Len(chain) + 1
    <3>1. PICK l : l = Len(chain)  OBVIOUS
    <3>2. i = l + 1 /\ Returnable(l + 1)'  BY <2>1, <2>3, <3>1
    <3> QED BY <1>2, <1>12, <2>3, <3>1, <3>2
  <2> QED BY <1>0, <1>2, <2>2, <2>3
<1> QED BY <1>13


\* A revert returns to a place that BackInv speaks about.
LEMMA RevertBack ==
    ASSUME ShapeInv, AmountInv, BackInv, NEW since \in 0..MaxTime, Revert(since)
    PROVE  BackInv'
<1>0. ChainInv /\ Len(chain) \in Nat /\ chain \in Seq(Ids)  BY LenProperties DEF ShapeInv, ChainInv
<1>1. PICK n : /\ n \in 1..Len(chain) - 1 /\ Len(chain') = n
               /\ (\A i \in 1..n : chain'[i] = chain[i])
               /\ chain[n + 1] = challenge.target
               /\ reverted' = reverted \cup {chain[j] : j \in n + 1..Len(chain)}
  BY RevertShape, RevertSets
<1>2. UNCHANGED <<blocks, version, custodian, withdrawal, paid, merged>>  BY DEF Revert
<1>3. \A i \in 1..n : i \in 1..Len(chain)  BY <1>0, <1>1
<1>5. ASSUME NEW i \in 1..Len(chain'), Returnable(i)'
      PROVE  Covered(blocks'[chain'[i]].post, Balance(custodian', withdrawal', Kept(i)', Gone(i)'),
                     Gone(i)' \cap merged' = {})
  <2>0. i \in 1..n /\ i \in 1..Len(chain)  BY <1>1, <1>3
  <2>1. Kept(i)' = Kept(i)
    <3>1. \A j \in 1..i : chain'[j] = chain[j]  BY <1>0, <1>1
    <3> QED BY <3>1 DEF Kept
  <2>2. Gone(i)' = Gone(i)
    <3>1. PICK A, B, D : /\ A = {chain'[j] : j \in i + 1..Len(chain')}
                         /\ B = {chain[j] : j \in n + 1..Len(chain)}
                         /\ D = {chain[j] : j \in i + 1..Len(chain)}
      OBVIOUS
    <3>2. ASSUME NEW x \in A PROVE x \in D
      <4>1. PICK j \in i + 1..Len(chain') : x = chain'[j]  BY <3>1
      <4>2. j \in 1..n /\ j \in i + 1..Len(chain)  BY <1>0, <1>1, <2>0
      <4> QED BY <1>1, <3>1, <4>1, <4>2
    <3>3. ASSUME NEW x \in B PROVE x \in D
      <4>1. PICK j \in n + 1..Len(chain) : x = chain[j]  BY <3>1
      <4>2. j \in i + 1..Len(chain)  BY <1>0, <1>1, <2>0
      <4> QED BY <3>1, <4>1, <4>2
    <3>4. ASSUME NEW x \in D PROVE x \in A \cup B
      <4>1. PICK j \in i + 1..Len(chain) : x = chain[j]  BY <3>1
      <4>2. CASE j \in i + 1..n
        <5>1. j \in 1..n /\ j \in i + 1..Len(chain')  BY <1>0, <1>1, <2>0, <4>2
        <5> QED BY <1>1, <3>1, <4>1, <5>1
      <4>3. CASE j \in n + 1..Len(chain)  BY <3>1, <4>1, <4>3
      <4> QED BY <1>0, <1>1, <2>0, <4>2, <4>3
    <3>5. Gone(i)' = (reverted \cup B) \cup A  BY <1>1, <3>1 DEF Gone
    <3>6. Gone(i) = reverted \cup D  BY <3>1 DEF Gone
    <3> QED BY <3>2, <3>3, <3>4, <3>5, <3>6
  <2>4. Returnable(i)
    <3>1. \A j \in 1..i : j \in 1..n /\ blocks'[chain'[j]].ok  BY <1>0, <1>1, <1>5, <2>0 DEF Returnable
    <3>2. \A j \in 1..i : blocks[chain[j]].ok  BY <1>1, <1>2, <3>1
    <3>3. Gone(i) \cap paid = {}
      <4>1. Gone(i)' \cap paid' = {}  BY <1>5 DEF Returnable
      <4> QED BY <1>2, <2>2, <4>1
    <3> QED BY <3>2, <3>3 DEF Returnable
  <2>5. PICK K, G, a, b : /\ K = Kept(i) /\ G = Gone(i) /\ a = blocks[chain[i]].post
                          /\ b = Balance(custodian, withdrawal, K, G)
    OBVIOUS
  <2>6. a <= b /\ (G \cap merged = {} => a = b)  BY <2>0, <2>4, <2>5 DEF BackInv
  <2>7. blocks'[chain'[i]] = blocks[chain[i]]  BY <1>1, <1>2, <2>0
  <2>8. /\ Kept(i)' = K /\ Gone(i)' = G /\ blocks'[chain'[i]].post = a
        /\ b = Balance(custodian', withdrawal', K, G)
    BY <1>2, <2>1, <2>2, <2>5, <2>7
  <2> QED BY <1>2, <2>6, <2>8 DEF Covered
<1> QED BY <1>5 DEF BackInv, Covered

\* A withdrawal that is paid leaves the places that could return it.
LEMMA UnlockBack ==
    ASSUME ShapeInv, AmountInv, BackInv, NEW b \in Ids, UnlockWithdrawal(b)
    PROVE  BackInv'
<1>1. /\ UNCHANGED <<blocks, chain, reverted, custodian, merged>>
      /\ paid' = paid \cup {b} /\ withdrawal' = [withdrawal EXCEPT ![b] = 0]
  BY DEF UnlockWithdrawal, state
<1>3. SUFFICES ASSUME NEW i \in 1..Len(chain), Returnable(i)'
               PROVE  Covered(blocks'[chain'[i]].post, Balance(custodian', withdrawal', Kept(i)', Gone(i)'),
                              Gone(i)' \cap merged' = {})
  BY <1>1 DEF BackInv, Covered
<1>4. PICK K, G : K = Kept(i) /\ G = Gone(i)  OBVIOUS
<1>5. Kept(i)' = K /\ Gone(i)' = G  BY <1>1, <1>4 DEF Kept, Gone
<1>6. b \notin G /\ G \cap paid = {}
  <2>1. Gone(i)' \cap paid' = {}  BY <1>3 DEF Returnable
  <2> QED BY <1>1, <1>5, <2>1
<1>7. Returnable(i)
  <2>2. \A j \in 1..i : blocks[chain[j]].ok  BY <1>1, <1>3 DEF Returnable
  <2> QED BY <1>4, <1>6, <2>2 DEF Returnable
<1>8. PICK W, W2 : W = withdrawal /\ W2 = withdrawal'  OBVIOUS
<1>9. Total(W2, G) = Total(W, G)
  <2>1. \A x \in G : x \in Ids
    <3>1. ChainInv /\ Len(chain) \in Nat /\ chain \in Seq(Ids)  BY LenProperties DEF ShapeInv, ChainInv
    <3>2. \A j \in i + 1..Len(chain) : j \in 1..Len(chain)  BY <3>1
    <3>3. \A j \in i + 1..Len(chain) : chain[j] \in Ids  BY <3>1, <3>2, ElementOfSeq
    <3>4. \A x \in reverted : x \in Ids
      BY <3>1, RollupConstants, SMTT(60) DEF AmountInv, Submitted, ChainInv, Ids
    <3> QED BY <1>4, <3>3, <3>4 DEF Gone
  <2>2. \A x \in G : W2[x] = W[x]  BY <1>1, <1>6, <1>8, <2>1 DEF AmountInv
  <2>3. IsFiniteSet(G)
    <3>1. G \subseteq Cells  BY <2>1 DEF Cells
    <3> QED BY <3>1, FiniteCells
  <2> QED BY <2>2, <2>3, TotalSame
<1>10. PICK a, c : a = blocks[chain[i]].post /\ c = Balance(custodian, W, K, G)  OBVIOUS
<1>11. a <= c /\ (G \cap merged = {} => a = c)  BY <1>4, <1>7, <1>8, <1>10 DEF BackInv
<1>12. Balance(custodian, W2, K, G) = c  BY <1>9, <1>10 DEF Balance
<1>13. /\ blocks'[chain'[i]].post = a /\ Balance(custodian', withdrawal', Kept(i)', Gone(i)') = c
       /\ Gone(i)' \cap merged' = G \cap merged
  BY <1>1, <1>5, <1>8, <1>10, <1>12
<1> QED BY <1>11, <1>13 DEF Covered

\* Every transaction keeps the places backed.
LEMMA BackStep ==
    ASSUME ShapeInv, AmountInv, BackInv, [Next]_vars
    PROVE  BackInv'
<1>1. ASSUME NEW p \in Producers, NEW v \in Versions, NEW ts \in 1..MaxTime, NEW ok \in BOOLEAN,
             NEW d \in 0..1, NEW w \in 0..1, SubmitBlock(p, v, ts, ok, d, w)
      PROVE  BackInv'
  BY <1>1, SubmitBack
<1>2. ASSUME NEW since \in 0..MaxTime, Revert(since) PROVE BackInv'  BY <1>2, RevertBack
<1>3. ASSUME NEW b \in Ids, UnlockWithdrawal(b) PROVE BackInv'
  BY <1>3, UnlockBack
<1>4. ASSUME UNCHANGED <<blocks, chain, reverted, custodian, withdrawal, paid, merged>>
      PROVE  BackInv'
  <2>1. \A i : Kept(i)' = Kept(i) /\ Gone(i)' = Gone(i)  BY <1>4 DEF Kept, Gone
  <2>2. \A i : Returnable(i)' <=> Returnable(i)  BY <1>4, <2>1 DEF Returnable
  <2> QED BY <1>4, <2>1, <2>2 DEF BackInv
<1>5. CASE (\E b \in Ids : EnterChallenge(b)) \/ CancelChallenge \/ (\E p \in Producers : UnlockStake(p))
           \/ CancelDeposit \/ Tick \/ UNCHANGED vars
  BY <1>4, <1>5 DEF EnterChallenge, CancelChallenge, UnlockStake, CancelDeposit, Tick, vars, state
<1> QED BY <1>1, <1>2, <1>3, <1>5 DEF Next

LEMMA BackInit == Init => BackInv
<1> SUFFICES ASSUME Init PROVE BackInv  OBVIOUS
<1>1. /\ custodian = [c \in Cells |-> 0] /\ withdrawal = [b \in Ids |-> 0] /\ reverted = {}
      /\ Len(chain) = 1 /\ chain[1] = 1 /\ blocks[1].post = 0 /\ 1 \in Ids
  BY RollupConstants DEF Init, Cells, Genesis, Ids
<1>3. SUFFICES ASSUME NEW i \in 1..Len(chain)
               PROVE  /\ blocks[chain[i]].post = Balance(custodian, withdrawal, Kept(i), Gone(i))
                      /\ blocks[chain[i]].post \in Int
  BY DEF BackInv
<1>4. i = 1  BY <1>1
<1>5. PICK K, G : K = {Merged} \cup Kept(i) /\ G = Gone(i)  OBVIOUS
<1>6. K \subseteq Cells /\ G = {}
  <2>1. i + 1..Len(chain) = {}  BY <1>1, <1>4
  <2>2. G = {}  BY <1>1, <1>5, <2>1 DEF Gone
  <2>3. \A j \in 1..i : chain[j] = 1  BY <1>1, <1>4
  <2> QED BY <1>1, <1>5, <2>2, <2>3 DEF Kept, Cells
<1>7. IsFiniteSet(K) /\ IsFiniteSet(G)  BY <1>6, FiniteCells
<1>8. Total(custodian, K) = 0 /\ Total(withdrawal, G) = 0
  <2>1. \A x \in K : custodian[x] = 0  BY <1>1, <1>6
  <2>2. \A x \in G : withdrawal[x] = 0  BY <1>6
  <2> QED BY <1>7, <2>1, <2>2, TotalZero
<1> QED BY <1>1, <1>4, <1>5, <1>8 DEF Balance

\* What the accounts of layer 2 hold is covered by what custodian cells hold for
\* them, counting the withdrawal cells of reverted blocks, through every sequence of
\* submissions, reverts and returned cells in which no wrong block is in the chain and
\* no withdrawal was paid out of a block reverted afterwards; the two are equal unless
\* a revert took a block whose custodian cells had been spent as final.  It holds for
\* every version and every since a revert carries.
THEOREM CustodiansBackAccounts == Spec => []Backed
<1> DEFINE Inv == ShapeInv /\ AmountInv /\ BackInv
<1>1. Init => Inv  BY ShapeInit, AmountInit, BackInit
<1>2. Inv /\ [Next]_vars => Inv'  BY ShapeNext, AmountStep, BackStep
<1>3. Inv => Backed
  <2> SUFFICES ASSUME Inv, reverted \cap paid = {}, \A i \in 1..Len(chain) : blocks[chain[i]].ok
               PROVE  Owed <= Backing /\ (reverted \cap merged = {} => Owed = Backing)
    BY DEF Backed
  <2>0. Len(chain) \in Nat \ {0} /\ chain \in Seq(Ids)  BY LenProperties, EmptySeq DEF ShapeInv, ChainInv
  <2>1. PICK l : l = Len(chain)  OBVIOUS
  <2>2. l \in 1..Len(chain) /\ l + 1..Len(chain) = {}  BY <2>0, <2>1
  <2>3. Gone(l) = reverted  BY <2>2 DEF Gone
  <2>4. Kept(l) = {b \in Ids : InChain(b)}
    <3>1. \A j \in 1..l : chain[j] \in Ids  BY <2>0, <2>1, ElementOfSeq
    <3> QED BY <2>1, <3>1 DEF Kept, InChain
  <2>5. Returnable(l)  BY <2>1, <2>3 DEF Returnable
  <2>6. PICK b : b = Balance(custodian, withdrawal, Kept(l), Gone(l))  OBVIOUS
  <2>7. blocks[chain[l]].post <= b /\ (reverted \cap merged = {} => blocks[chain[l]].post = b)
    BY <2>2, <2>3, <2>5, <2>6 DEF BackInv
  <2>8. b = Backing
    BY <2>3, <2>4, <2>6 DEF Balance, Backing
  <2> QED BY <2>1, <2>7, <2>8 DEF Owed, Tip
<1> QED BY <1>1, <1>2, <1>3, PTL DEF Spec

=============================================================================
