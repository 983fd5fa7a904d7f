----------------------------- MODULE PscProofs -----------------------------
(***************************************************************************)
(* Proofs about Psc.  The first part holds for every set of deposits, all  *)
(* limits, every set of disturbances and with or without late aborts.  The *)
(* second part is about the layer-1 chain: the mem pool stays on the tip,  *)
(* submissions match their blocks, confirmed blocks are on layer 1, a      *)
(* synchronisation adopts layer 1, and Psc implements Ledger.  What it     *)
(* assumes of the environment is named in each theorem: QuietL1 (no        *)
(* layer-1 reorganisation of rollup transactions) and PromptAbort (an      *)
(* aborted submit task writes nothing afterwards).                         *)
(***************************************************************************)
EXTENDS Psc, NatLemmas, SequenceTheorems

Applied == {"apply", "check", "send", "done"}

(***************************************************************************)
(* The strengthening that makes the properties inductive.                  *)
(***************************************************************************)
TasksInv ==
    /\ ~Running => sub = Idle /\ con = Idle
    /\ sub.st # "idle" => lastSub < Len(chain)
    /\ sub.st \in Applied \cup {"save"} => sub.tx # NoTx
    /\ sub.st \in Applied => StoredTx(sub.n) = sub.tx
    /\ con.st \notin {"idle", "snap"} => con.tx # NoTx
    /\ Running => \A n \in lastConf + 1..lastSub : StoredTx(n) # NoTx

SyncInv ==
    /\ Len(chain) <= MaxBlocks
    /\ pc = "update" => todo # <<>> \/ lastSub = lastConf
    /\ pc = "revert" => target # 0

IInv ==
    /\ TypeOK
    /\ PointersOrdered
    /\ CountersAgree
    /\ TasksTargetNext
    /\ TasksInv
    /\ SyncInv

\* An idle task and a freshly spawned one have their types.
LEMMA IdleType ==
    /\ Idle \in SubmitTasks /\ Idle \in ConfirmTasks
    /\ [Idle EXCEPT !.st = "snap"] \in SubmitTasks
    /\ [Idle EXCEPT !.st = "snap"] \in ConfirmTasks
    /\ Idle.st = "idle" /\ [Idle EXCEPT !.st = "snap"].st = "snap"
BY DEF Idle, SubmitTasks, ConfirmTasks, SubmitSteps, ConfirmSteps

\* The tips of layer 1 and of the store are block identities or genesis.
LEMMA TipTypes == ASSUME TypeOK PROVE L1Tip \in 0..MaxBlocks /\ TipId \in 0..MaxBlocks
<1>1. l1 # <<>> => l1[Len(l1)] \in Txs BY DEF TypeOK, CkbTypeOK
<1>2. chain # <<>> => chain[Len(chain)] \in Blocks BY DEF TypeOK, StoreTypeOK
<1> QED BY <1>1, <1>2, MaxBlocksAssumption, SMTT(60) DEF L1Tip, TipId, Last, Txs, Blocks, Ids

\* The rollup cell compose_submit_tx may consume is one some block created.
LEMMA RollupCellType == ASSUME TypeOK PROVE RollupCells \subseteq 0..MaxBlocks
BY TipTypes DEF RollupCells, IndexerCells, TypeOK, CellTypeOK

\* A one-element sequence has the type of its element.
LEMMA SingletonSeq == ASSUME NEW S, NEW e \in S PROVE <<e>> \in Seq(S)
OBVIOUS

\* A suffix of a sequence is a sequence, and not empty before its end.
LEMMA SuffixSeq ==
    ASSUME NEW S, NEW s \in Seq(S), NEW c \in Nat
    PROVE  /\ SubSeq(s, c + 1, Len(s)) \in Seq(S)
           /\ c < Len(s) => SubSeq(s, c + 1, Len(s)) # <<>>
<1>1. Len(s) \in Nat /\ c + 1 \in Int /\ \A i \in c + 1..Len(s) : s[i] \in S
  OBVIOUS
<1>2. /\ SubSeq(s, c + 1, Len(s)) \in Seq(S)
      /\ Len(SubSeq(s, c + 1, Len(s))) = IF c + 1 <= Len(s) THEN Len(s) - (c + 1) + 1 ELSE 0
  BY <1>1, SubSeqProperties
<1>3. Len(<<>>) = 0
  BY EmptySeq
<1>4. ASSUME SubSeq(s, c + 1, Len(s)) = <<>> PROVE Len(SubSeq(s, c + 1, Len(s))) = 0
  BY <1>4, <1>3
<1> QED BY <1>1, <1>2, <1>4

\* A prefix of a sequence is a sequence.
LEMMA PrefixSeq ==
    ASSUME NEW S, NEW s \in Seq(S), NEW n \in 0..Len(s) PROVE SubSeq(s, 1, n) \in Seq(S)
<1>1. n \in Int /\ \A i \in 1..n : s[i] \in S
  OBVIOUS
<1> QED BY <1>1, SubSeqProperties

\* Dropping the task handles leaves well-typed tasks, late writes included.
LEMMA AbortTasksType == ASSUME TypeOK, AbortTasks PROVE TaskTypeOK'
<1>1. [n |-> sub.n, tx |-> sub.tx] \in [n : Nat, tx : Txs \cup {NoTx}]
  BY DEF TypeOK, TaskTypeOK, SubmitTasks
<1>2. late' = <<[n |-> sub.n, tx |-> sub.tx]>> \/ late' = <<>>
  BY DEF AbortTasks
<1>3. late' \in Seq([n : Nat, tx : Txs \cup {NoTx}])
  BY <1>1, <1>2, SingletonSeq, EmptySeq
<1> QED BY <1>3, IdleType DEF AbortTasks, TaskTypeOK

\* Detaching blocks keeps the pointers ordered and never lengthens the chain.
LEMMA DetachProps ==
    ASSUME TypeOK, PointersOrdered, NEW k \in Nat, Detach(k)
    PROVE  /\ chain' \in Seq(Blocks) /\ lastConf' \in Nat /\ lastSub' \in Nat
           /\ subTx' \in [Ids -> Txs \cup {NoTx}]
           /\ lastConf' <= lastSub' /\ lastSub' <= Len(chain') /\ Len(chain') <= Len(chain)
<1>1. chain \in Seq(Blocks) /\ Len(chain) \in Nat /\ lastConf \in Nat /\ lastSub \in Nat
  BY DEF TypeOK, StoreTypeOK
<1>2. CASE Len(chain) > k
  <2>1. chain' = SubSeq(chain, 1, k)
    BY <1>2 DEF Detach
  <2>2. \A i \in 1..k : chain[i] \in Blocks
    BY <1>1, <1>2
  <2>3. chain' \in Seq(Blocks) /\ Len(chain') = k
    BY <2>1, <2>2, SubSeqProperties
  <2> QED BY <1>1, <1>2, <2>3 DEF Detach, Lower, PointersOrdered, TypeOK, StoreTypeOK
<1>3. CASE ~(Len(chain) > k)
  BY <1>1, <1>3 DEF Detach, Lower, PointersOrdered, TypeOK, StoreTypeOK
<1> QED BY <1>2, <1>3

\* Moving a task to another step changes its step only.
LEMMA StepType ==
    /\ \A t \in SubmitTasks, s \in SubmitSteps :
           /\ [t EXCEPT !.st = s] \in SubmitTasks /\ [t EXCEPT !.st = s].st = s
           /\ [t EXCEPT !.st = s].n = t.n /\ [t EXCEPT !.st = s].tx = t.tx
    /\ \A t \in ConfirmTasks, s \in ConfirmSteps :
           /\ [t EXCEPT !.st = s] \in ConfirmTasks /\ [t EXCEPT !.st = s].st = s
           /\ [t EXCEPT !.st = s].n = t.n /\ [t EXCEPT !.st = s].tx = t.tx
BY DEF SubmitTasks, ConfirmTasks

\* The steps of the submit task.
LEMMA SubmitTaskPreserves == ASSUME IInv, SubmitTask PROVE IInv'
<1> USE DEF ckbVars, storeVars, mainVars, taskVars, cellVars, poolVars, boundVars, nodeVars
<1>1. CASE SubmitSnap
  <2>1. CkbTypeOK'
    BY <1>1 DEF IInv, TypeOK, CkbTypeOK, SubmitSnap
  <2>2. StoreTypeOK'
    BY <1>1 DEF IInv, TypeOK, StoreTypeOK, SubmitSnap
  <2>3. MainTypeOK'
    BY <1>1 DEF IInv, TypeOK, MainTypeOK, SubmitSnap
  <2>4. TaskTypeOK'
    BY <1>1 DEF IInv, TypeOK, TaskTypeOK, SubmitSnap, SubmitTasks, SubmitSteps, StoredTx,
         StoreTypeOK
  <2>5. (CellTypeOK /\ nextId \in Nat \ {0} /\ faults \in Nat)'
    BY <1>1 DEF IInv, TypeOK, CellTypeOK, SubmitSnap
  <2>6. (PointersOrdered /\ CountersAgree /\ SyncInv)'
    BY <1>1, <2>2, <2>3 DEF IInv, TypeOK, StoreTypeOK, MainTypeOK, PointersOrdered,
         CountersAgree, SyncInv, SubmitSnap
  <2>7. (TasksTargetNext /\ TasksInv)'
    BY <1>1, <2>2, <2>3, <2>4, NoTxAssumption DEF IInv, TypeOK, StoreTypeOK, MainTypeOK,
         TaskTypeOK, PointersOrdered, CountersAgree, TasksTargetNext, TasksInv, SyncInv,
         Running, Applied, StoredTx, SubmitSnap, SubmitTasks, Ids
  <2> QED BY <2>1, <2>2, <2>3, <2>4, <2>5, <2>6, <2>7 DEF IInv, TypeOK
<1>2. CASE SubmitCompose
  <2>cell. PICK c \in 0..MaxBlocks :
             sub' = [sub EXCEPT !.st = "save", !.tx = [blk |-> chain[sub.n], cell |-> c]]
    BY <1>2, RollupCellType DEF IInv, SubmitCompose
  <2>blk. chain[sub.n] \in Blocks
    BY <1>2 DEF IInv, TypeOK, StoreTypeOK, TaskTypeOK, SubmitTasks, TasksTargetNext, SubmitCompose
  <2>tx. [blk |-> chain[sub.n], cell |-> c] \in Txs
    BY <2>blk DEF Txs
  <2>sub. sub' \in SubmitTasks /\ sub'.st = "save" /\ sub'.n = sub.n /\ sub'.tx \in Txs
    BY <2>cell, <2>tx DEF IInv, TypeOK, TaskTypeOK, SubmitTasks, SubmitSteps
  <2>1. CkbTypeOK'
    BY <1>2 DEF IInv, TypeOK, CkbTypeOK, SubmitCompose
  <2>2. StoreTypeOK'
    BY <1>2 DEF IInv, TypeOK, StoreTypeOK, SubmitCompose
  <2>3. MainTypeOK'
    BY <1>2 DEF IInv, TypeOK, MainTypeOK, SubmitCompose
  <2>4. TaskTypeOK'
    BY <1>2, <2>sub DEF IInv, TypeOK, TaskTypeOK, SubmitCompose
  <2>5. (CellTypeOK /\ nextId \in Nat \ {0} /\ faults \in Nat)'
    BY <1>2 DEF IInv, TypeOK, CellTypeOK, SubmitCompose
  <2>6. (PointersOrdered /\ CountersAgree /\ SyncInv)'
    BY <1>2, <2>2, <2>3 DEF IInv, TypeOK, StoreTypeOK, MainTypeOK, PointersOrdered,
         CountersAgree, SyncInv, SubmitCompose
  <2>7. (TasksTargetNext /\ TasksInv)'
    BY <1>2, <2>2, <2>3, <2>4, <2>sub, NoTxAssumption DEF IInv, TypeOK, StoreTypeOK,
         MainTypeOK, TaskTypeOK, PointersOrdered, CountersAgree, TasksTargetNext, TasksInv,
         SyncInv, Running, Applied, StoredTx, SubmitCompose
  <2> QED BY <2>1, <2>2, <2>3, <2>4, <2>5, <2>6, <2>7 DEF IInv, TypeOK
<1>3. CASE SubmitOversize
  <2>1. CkbTypeOK'
    BY <1>3 DEF IInv, TypeOK, CkbTypeOK, SubmitOversize, SubmitStep, Fault
  <2>2. StoreTypeOK'
    BY <1>3 DEF IInv, TypeOK, StoreTypeOK, SubmitOversize, SubmitStep, Fault
  <2>3. MainTypeOK'
    BY <1>3 DEF IInv, TypeOK, MainTypeOK, SubmitOversize, SubmitStep, Fault
  <2>4. TaskTypeOK'
    BY <1>3, StepType DEF IInv, TypeOK, TaskTypeOK, SubmitOversize, SubmitStep, Fault,
         SubmitSteps
  <2>5. (CellTypeOK /\ nextId \in Nat \ {0} /\ faults \in Nat)'
    BY <1>3 DEF IInv, TypeOK, CellTypeOK, SubmitOversize, SubmitStep, Fault
  <2>6. (PointersOrdered /\ CountersAgree /\ SyncInv)'
    BY <1>3, <2>2, <2>3 DEF IInv, TypeOK, StoreTypeOK, MainTypeOK, PointersOrdered,
         CountersAgree, SyncInv, SubmitOversize, SubmitStep, Fault
  <2>7. (TasksTargetNext /\ TasksInv)'
    BY <1>3, <2>2, <2>3, <2>4, StepType DEF IInv, TypeOK, StoreTypeOK, MainTypeOK,
         TaskTypeOK, PointersOrdered, CountersAgree, TasksTargetNext, TasksInv, SyncInv,
         Running, Applied, StoredTx, SubmitOversize, SubmitStep, Fault, SubmitSteps
  <2> QED BY <2>1, <2>2, <2>3, <2>4, <2>5, <2>6, <2>7 DEF IInv, TypeOK
<1>4. CASE SubmitSave
  <2>n. sub.n \in Ids
    BY <1>4, MaxBlocksAssumption DEF IInv, TypeOK, StoreTypeOK, TaskTypeOK, SubmitTasks,
          TasksTargetNext, SyncInv, SubmitSave, SubmitStep, Ids
  <2>subTx. subTx'[sub.n] = sub.tx /\ \A n \in Ids : n # sub.n => subTx'[n] = subTx[n]
    BY <1>4, <2>n DEF IInv, TypeOK, StoreTypeOK, SubmitSave
  <2>sub. sub'.st = "apply" /\ sub'.n = sub.n /\ sub'.tx = sub.tx /\ sub.st = "save"
    BY <1>4, StepType DEF IInv, TypeOK, TaskTypeOK, SubmitSave, SubmitStep, SubmitSteps
  <2>1. CkbTypeOK'
    BY <1>4 DEF IInv, TypeOK, CkbTypeOK, SubmitSave, SubmitStep
  <2>2. StoreTypeOK'
    BY <1>4 DEF IInv, TypeOK, StoreTypeOK, SubmitSave, SubmitStep, TaskTypeOK, SubmitTasks,
         SubmitSteps
  <2>3. MainTypeOK'
    BY <1>4 DEF IInv, TypeOK, MainTypeOK, SubmitSave, SubmitStep
  <2>4. TaskTypeOK'
    BY <1>4, StepType DEF IInv, TypeOK, TaskTypeOK, SubmitSave, SubmitStep, SubmitSteps
  <2>5. (CellTypeOK /\ nextId \in Nat \ {0} /\ faults \in Nat)'
    BY <1>4 DEF IInv, TypeOK, CellTypeOK, SubmitSave, SubmitStep
  <2>6. (PointersOrdered /\ CountersAgree /\ SyncInv)'
    BY <1>4, <2>2, <2>3 DEF IInv, TypeOK, StoreTypeOK, MainTypeOK, PointersOrdered,
         CountersAgree, SyncInv, SubmitSave, SubmitStep
  <2>7. (TasksTargetNext /\ TasksInv)'
    <3>1. sub.n = lastSub + 1 /\ sub.n <= Len(chain) /\ sub.tx # NoTx
      BY <2>sub DEF IInv, TasksTargetNext, TasksInv, Applied
    <3>2. UNCHANGED <<chain, lastSub, lastConf, con, pc>>
      BY <1>4 DEF SubmitSave
    <3>3. \A n \in lastConf + 1..lastSub : StoredTx(n)' = StoredTx(n)
      BY <3>1, <2>subTx, <2>2 DEF StoredTx, IInv, TypeOK, StoreTypeOK
    <3>4. TasksTargetNext'
      BY <3>1, <3>2, <3>3, <2>sub, <2>2 DEF IInv, TypeOK, StoreTypeOK, TasksTargetNext
    <3>5. TasksInv'
      BY <3>1, <3>2, <3>3, <2>sub, <2>subTx, <2>n, <2>2
      DEF IInv, TypeOK, StoreTypeOK, TasksInv, TasksTargetNext, Applied, Running, StoredTx
    <3> QED BY <3>4, <3>5
  <2> QED BY <2>1, <2>2, <2>3, <2>4, <2>5, <2>6, <2>7 DEF IInv, TypeOK
<1>5. CASE SubmitApply
  <2>1. CkbTypeOK'
    BY <1>5 DEF IInv, TypeOK, CkbTypeOK, SubmitApply, SubmitStep, ApplyTx
  <2>2. StoreTypeOK'
    BY <1>5 DEF IInv, TypeOK, StoreTypeOK, SubmitApply, SubmitStep, ApplyTx
  <2>3. MainTypeOK'
    BY <1>5 DEF IInv, TypeOK, MainTypeOK, SubmitApply, SubmitStep, ApplyTx
  <2>4. TaskTypeOK'
    BY <1>5, StepType DEF IInv, TypeOK, TaskTypeOK, SubmitApply, SubmitStep, ApplyTx,
         SubmitSteps
  <2>5. (CellTypeOK /\ nextId \in Nat \ {0} /\ faults \in Nat)'
    BY <1>5 DEF IInv, TypeOK, CellTypeOK, SubmitApply, SubmitStep, ApplyTx, TasksInv,
         Applied, Txs, Blocks, Ids, TaskTypeOK, SubmitTasks, SubmitSteps
  <2>6. (PointersOrdered /\ CountersAgree /\ SyncInv)'
    BY <1>5, <2>2, <2>3 DEF IInv, TypeOK, StoreTypeOK, MainTypeOK, PointersOrdered,
         CountersAgree, SyncInv, SubmitApply, SubmitStep, ApplyTx
  <2>7. (TasksTargetNext /\ TasksInv)'
    BY <1>5, <2>2, <2>3, <2>4, StepType DEF IInv, TypeOK, StoreTypeOK, MainTypeOK,
         TaskTypeOK, PointersOrdered, CountersAgree, TasksTargetNext, TasksInv, SyncInv,
         Running, Applied, StoredTx, SubmitApply, SubmitStep, ApplyTx, SubmitSteps
  <2> QED BY <2>1, <2>2, <2>3, <2>4, <2>5, <2>6, <2>7 DEF IInv, TypeOK
<1>6. CASE SubmitCheck
  <2>1. CkbTypeOK'
    BY <1>6 DEF IInv, TypeOK, CkbTypeOK, SubmitCheck, SubmitStep
  <2>2. StoreTypeOK'
    BY <1>6 DEF IInv, TypeOK, StoreTypeOK, SubmitCheck, SubmitStep
  <2>3. MainTypeOK'
    BY <1>6 DEF IInv, TypeOK, MainTypeOK, SubmitCheck, SubmitStep
  <2>4. TaskTypeOK'
    BY <1>6, StepType DEF IInv, TypeOK, TaskTypeOK, SubmitCheck, SubmitStep, SubmitSteps
  <2>5. (CellTypeOK /\ nextId \in Nat \ {0} /\ faults \in Nat)'
    BY <1>6 DEF IInv, TypeOK, CellTypeOK, SubmitCheck, SubmitStep
  <2>6. (PointersOrdered /\ CountersAgree /\ SyncInv)'
    BY <1>6, <2>2, <2>3 DEF IInv, TypeOK, StoreTypeOK, MainTypeOK, PointersOrdered,
         CountersAgree, SyncInv, SubmitCheck, SubmitStep
  <2>7. (TasksTargetNext /\ TasksInv)'
    BY <1>6, <2>2, <2>3, <2>4, StepType DEF IInv, TypeOK, StoreTypeOK, MainTypeOK,
         TaskTypeOK, PointersOrdered, CountersAgree, TasksTargetNext, TasksInv, SyncInv,
         Running, Applied, StoredTx, SubmitCheck, SubmitStep, SubmitSteps
  <2> QED BY <2>1, <2>2, <2>3, <2>4, <2>5, <2>6, <2>7 DEF IInv, TypeOK
<1>7. CASE SubmitSend
  <2>1. CkbTypeOK'
    BY <1>7 DEF IInv, TypeOK, CkbTypeOK, SubmitSend, SubmitStep, Enqueue, TasksInv, Applied,
         TaskTypeOK, SubmitTasks, SubmitSteps
  <2>2. StoreTypeOK'
    BY <1>7 DEF IInv, TypeOK, StoreTypeOK, SubmitSend, SubmitStep, Enqueue
  <2>3. MainTypeOK'
    BY <1>7 DEF IInv, TypeOK, MainTypeOK, SubmitSend, SubmitStep, Enqueue
  <2>4. TaskTypeOK'
    BY <1>7, StepType DEF IInv, TypeOK, TaskTypeOK, SubmitSend, SubmitStep, Enqueue,
         SubmitSteps
  <2>5. (CellTypeOK /\ nextId \in Nat \ {0} /\ faults \in Nat)'
    BY <1>7 DEF IInv, TypeOK, CellTypeOK, SubmitSend, SubmitStep, Enqueue
  <2>6. (PointersOrdered /\ CountersAgree /\ SyncInv)'
    BY <1>7, <2>2, <2>3 DEF IInv, TypeOK, StoreTypeOK, MainTypeOK, PointersOrdered,
         CountersAgree, SyncInv, SubmitSend, SubmitStep, Enqueue
  <2>7. (TasksTargetNext /\ TasksInv)'
    BY <1>7, <2>2, <2>3, <2>4, StepType DEF IInv, TypeOK, StoreTypeOK, MainTypeOK,
         TaskTypeOK, PointersOrdered, CountersAgree, TasksTargetNext, TasksInv, SyncInv,
         Running, Applied, StoredTx, SubmitSend, SubmitStep, Enqueue, SubmitSteps
  <2> QED BY <2>1, <2>2, <2>3, <2>4, <2>5, <2>6, <2>7 DEF IInv, TypeOK
<1>8. CASE SubmitSendFails
  <2>1. CkbTypeOK'
    BY <1>8 DEF IInv, TypeOK, CkbTypeOK, SubmitSendFails, SubmitStep
  <2>2. StoreTypeOK'
    BY <1>8 DEF IInv, TypeOK, StoreTypeOK, SubmitSendFails, SubmitStep
  <2>3. MainTypeOK'
    BY <1>8 DEF IInv, TypeOK, MainTypeOK, SubmitSendFails, SubmitStep
  <2>4. TaskTypeOK'
    BY <1>8, StepType DEF IInv, TypeOK, TaskTypeOK, SubmitSendFails, SubmitStep, SubmitSteps
  <2>5. (CellTypeOK /\ nextId \in Nat \ {0} /\ faults \in Nat)'
    BY <1>8 DEF IInv, TypeOK, CellTypeOK, SubmitSendFails, SubmitStep
  <2>6. (PointersOrdered /\ CountersAgree /\ SyncInv)'
    BY <1>8, <2>2, <2>3 DEF IInv, TypeOK, StoreTypeOK, MainTypeOK, PointersOrdered,
         CountersAgree, SyncInv, SubmitSendFails, SubmitStep
  <2>7. (TasksTargetNext /\ TasksInv)'
    BY <1>8, <2>2, <2>3, <2>4, StepType DEF IInv, TypeOK, StoreTypeOK, MainTypeOK,
         TaskTypeOK, PointersOrdered, CountersAgree, TasksTargetNext, TasksInv, SyncInv,
         Running, Applied, StoredTx, SubmitSendFails, SubmitStep, SubmitSteps
  <2> QED BY <2>1, <2>2, <2>3, <2>4, <2>5, <2>6, <2>7 DEF IInv, TypeOK
<1>9. CASE SubmitSendLost
  <2>1. CkbTypeOK'
    BY <1>9 DEF IInv, TypeOK, CkbTypeOK, SubmitSendLost, SubmitStep, Fault
  <2>2. StoreTypeOK'
    BY <1>9 DEF IInv, TypeOK, StoreTypeOK, SubmitSendLost, SubmitStep, Fault
  <2>3. MainTypeOK'
    BY <1>9 DEF IInv, TypeOK, MainTypeOK, SubmitSendLost, SubmitStep, Fault
  <2>4. TaskTypeOK'
    BY <1>9, StepType DEF IInv, TypeOK, TaskTypeOK, SubmitSendLost, SubmitStep, Fault,
         SubmitSteps
  <2>5. (CellTypeOK /\ nextId \in Nat \ {0} /\ faults \in Nat)'
    BY <1>9 DEF IInv, TypeOK, CellTypeOK, SubmitSendLost, SubmitStep, Fault
  <2>6. (PointersOrdered /\ CountersAgree /\ SyncInv)'
    BY <1>9, <2>2, <2>3 DEF IInv, TypeOK, StoreTypeOK, MainTypeOK, PointersOrdered,
         CountersAgree, SyncInv, SubmitSendLost, SubmitStep, Fault
  <2>7. (TasksTargetNext /\ TasksInv)'
    BY <1>9, <2>2, <2>3, <2>4, StepType DEF IInv, TypeOK, StoreTypeOK, MainTypeOK,
         TaskTypeOK, PointersOrdered, CountersAgree, TasksTargetNext, TasksInv, SyncInv,
         Running, Applied, StoredTx, SubmitSendLost, SubmitStep, Fault, SubmitSteps
  <2> QED BY <2>1, <2>2, <2>3, <2>4, <2>5, <2>6, <2>7 DEF IInv, TypeOK
<1> QED BY <1>1, <1>2, <1>3, <1>4, <1>5, <1>6, <1>7, <1>8, <1>9 DEF SubmitTask

\* The steps of the confirm task.
LEMMA ConfirmTaskPreserves == ASSUME IInv, ConfirmTask PROVE IInv'
<1> USE DEF ckbVars, storeVars, mainVars, taskVars, cellVars, poolVars, boundVars, nodeVars
<1>1. CASE ConfirmSnap
  <2>1. CkbTypeOK'
    BY <1>1 DEF IInv, TypeOK, CkbTypeOK, ConfirmSnap
  <2>2. StoreTypeOK'
    BY <1>1 DEF IInv, TypeOK, StoreTypeOK, ConfirmSnap
  <2>3. MainTypeOK'
    BY <1>1 DEF IInv, TypeOK, MainTypeOK, ConfirmSnap
  <2>4. TaskTypeOK'
    BY <1>1 DEF IInv, TypeOK, TaskTypeOK, ConfirmSnap, ConfirmTasks, ConfirmSteps, StoredTx,
         StoreTypeOK
  <2>5. (CellTypeOK /\ nextId \in Nat \ {0} /\ faults \in Nat)'
    BY <1>1 DEF IInv, TypeOK, CellTypeOK, ConfirmSnap
  <2>6. (PointersOrdered /\ CountersAgree /\ SyncInv)'
    BY <1>1, <2>2, <2>3 DEF IInv, TypeOK, StoreTypeOK, MainTypeOK, PointersOrdered,
         CountersAgree, SyncInv, ConfirmSnap
  <2>7. (TasksTargetNext /\ TasksInv)'
    BY <1>1, <2>2, <2>3, <2>4 DEF IInv, TypeOK, StoreTypeOK, MainTypeOK, TaskTypeOK,
         PointersOrdered, CountersAgree, TasksTargetNext, TasksInv, SyncInv, Running,
         Applied, StoredTx, ConfirmSnap
  <2> QED BY <2>1, <2>2, <2>3, <2>4, <2>5, <2>6, <2>7 DEF IInv, TypeOK
<1>2. CASE ConfirmPoll
  <2>1. CkbTypeOK'
    BY <1>2 DEF IInv, TypeOK, CkbTypeOK, ConfirmPoll, ConfirmStep, ConfirmTx
  <2>2. StoreTypeOK'
    BY <1>2 DEF IInv, TypeOK, StoreTypeOK, ConfirmPoll, ConfirmStep, ConfirmTx
  <2>3. MainTypeOK'
    BY <1>2 DEF IInv, TypeOK, MainTypeOK, ConfirmPoll, ConfirmStep, ConfirmTx
  <2>4. TaskTypeOK'
    BY <1>2, StepType DEF IInv, TypeOK, TaskTypeOK, ConfirmPoll, ConfirmStep, ConfirmTx,
         ConfirmSteps
  <2>5. (CellTypeOK /\ nextId \in Nat \ {0} /\ faults \in Nat)'
    BY <1>2 DEF IInv, TypeOK, CellTypeOK, ConfirmPoll, ConfirmStep, ConfirmTx
  <2>6. (PointersOrdered /\ CountersAgree /\ SyncInv)'
    BY <1>2, <2>2, <2>3 DEF IInv, TypeOK, StoreTypeOK, MainTypeOK, PointersOrdered,
         CountersAgree, SyncInv, ConfirmPoll, ConfirmStep, ConfirmTx
  <2>7. (TasksTargetNext /\ TasksInv)'
    BY <1>2, <2>2, <2>3, <2>4, StepType DEF IInv, TypeOK, StoreTypeOK, MainTypeOK,
         TaskTypeOK, PointersOrdered, CountersAgree, TasksTargetNext, TasksInv, SyncInv,
         Running, Applied, StoredTx, ConfirmPoll, ConfirmStep, ConfirmTx, ConfirmSteps
  <2> QED BY <2>1, <2>2, <2>3, <2>4, <2>5, <2>6, <2>7 DEF IInv, TypeOK
<1>3. CASE ConfirmResend
  <2>1. CkbTypeOK'
    BY <1>3, NoTxAssumption DEF IInv, TypeOK, CkbTypeOK, ConfirmResend, Enqueue, TaskTypeOK,
         ConfirmTasks, TasksInv
  <2>2. StoreTypeOK'
    BY <1>3 DEF IInv, TypeOK, StoreTypeOK, ConfirmResend, Enqueue
  <2>3. MainTypeOK'
    BY <1>3 DEF IInv, TypeOK, MainTypeOK, ConfirmResend, Enqueue
  <2>4. TaskTypeOK'
    BY <1>3 DEF IInv, TypeOK, TaskTypeOK, ConfirmResend, Enqueue
  <2>5. (CellTypeOK /\ nextId \in Nat \ {0} /\ faults \in Nat)'
    BY <1>3 DEF IInv, TypeOK, CellTypeOK, ConfirmResend, Enqueue
  <2>6. (PointersOrdered /\ CountersAgree /\ SyncInv)'
    BY <1>3, <2>2, <2>3 DEF IInv, TypeOK, StoreTypeOK, MainTypeOK, PointersOrdered,
         CountersAgree, SyncInv, ConfirmResend, Enqueue
  <2>7. (TasksTargetNext /\ TasksInv)'
    BY <1>3, <2>2, <2>3, <2>4 DEF IInv, TypeOK, StoreTypeOK, MainTypeOK, TaskTypeOK,
         PointersOrdered, CountersAgree, TasksTargetNext, TasksInv, SyncInv, Running,
         Applied, StoredTx, ConfirmResend, Enqueue
  <2> QED BY <2>1, <2>2, <2>3, <2>4, <2>5, <2>6, <2>7 DEF IInv, TypeOK
<1>4. CASE ConfirmResendFails
  <2>1. CkbTypeOK'
    BY <1>4 DEF IInv, TypeOK, CkbTypeOK, ConfirmResendFails, ConfirmStep
  <2>2. StoreTypeOK'
    BY <1>4 DEF IInv, TypeOK, StoreTypeOK, ConfirmResendFails, ConfirmStep
  <2>3. MainTypeOK'
    BY <1>4 DEF IInv, TypeOK, MainTypeOK, ConfirmResendFails, ConfirmStep
  <2>4. TaskTypeOK'
    BY <1>4, StepType DEF IInv, TypeOK, TaskTypeOK, ConfirmResendFails, ConfirmStep,
         ConfirmSteps
  <2>5. (CellTypeOK /\ nextId \in Nat \ {0} /\ faults \in Nat)'
    BY <1>4 DEF IInv, TypeOK, CellTypeOK, ConfirmResendFails, ConfirmStep
  <2>6. (PointersOrdered /\ CountersAgree /\ SyncInv)'
    BY <1>4, <2>2, <2>3 DEF IInv, TypeOK, StoreTypeOK, MainTypeOK, PointersOrdered,
         CountersAgree, SyncInv, ConfirmResendFails, ConfirmStep
  <2>7. (TasksTargetNext /\ TasksInv)'
    BY <1>4, <2>2, <2>3, <2>4, StepType DEF IInv, TypeOK, StoreTypeOK, MainTypeOK,
         TaskTypeOK, PointersOrdered, CountersAgree, TasksTargetNext, TasksInv, SyncInv,
         Running, Applied, StoredTx, ConfirmResendFails, ConfirmStep, ConfirmSteps
  <2> QED BY <2>1, <2>2, <2>3, <2>4, <2>5, <2>6, <2>7 DEF IInv, TypeOK
<1> QED BY <1>1, <1>2, <1>3, <1>4 DEF ConfirmTask

\* The branches of the main loop.
LEMMA MainLoopPreserves == ASSUME IInv, MainLoop PROVE IInv'
<1> USE DEF ckbVars, storeVars, mainVars, taskVars, cellVars, poolVars, boundVars, nodeVars
<1>1. CASE SpawnSubmit
  <2>1. CkbTypeOK'
    BY <1>1 DEF IInv, TypeOK, CkbTypeOK, SpawnSubmit
  <2>2. StoreTypeOK'
    BY <1>1 DEF IInv, TypeOK, StoreTypeOK, SpawnSubmit
  <2>3. MainTypeOK'
    BY <1>1 DEF IInv, TypeOK, MainTypeOK, SpawnSubmit
  <2>4. TaskTypeOK'
    BY <1>1, IdleType DEF IInv, TypeOK, TaskTypeOK, SpawnSubmit
  <2>5. (CellTypeOK /\ nextId \in Nat \ {0} /\ faults \in Nat)'
    BY <1>1 DEF IInv, TypeOK, CellTypeOK, SpawnSubmit
  <2>6. (PointersOrdered /\ CountersAgree /\ SyncInv)'
    BY <1>1, <2>2, <2>3 DEF IInv, TypeOK, StoreTypeOK, MainTypeOK, PointersOrdered,
         CountersAgree, SyncInv, SpawnSubmit
  <2>7. (TasksTargetNext /\ TasksInv)'
    BY <1>1, <2>2, <2>3, <2>4, IdleType DEF IInv, TypeOK, StoreTypeOK, MainTypeOK,
         TaskTypeOK, PointersOrdered, CountersAgree, TasksTargetNext, TasksInv, SyncInv,
         Running, Applied, StoredTx, SpawnSubmit, CanSubmit
  <2> QED BY <2>1, <2>2, <2>3, <2>4, <2>5, <2>6, <2>7 DEF IInv, TypeOK
<1>2. CASE SpawnConfirm
  <2>next. lastConf < lastSub /\ StoredTx(lastConf + 1) # NoTx
    BY <1>2 DEF IInv, TypeOK, StoreTypeOK, CountersAgree, TasksInv, Running, SpawnConfirm, CanConfirm
  <2>1. CkbTypeOK'
    BY <1>2 DEF IInv, TypeOK, CkbTypeOK, SpawnConfirm
  <2>2. StoreTypeOK'
    BY <1>2 DEF IInv, TypeOK, StoreTypeOK, SpawnConfirm
  <2>3. MainTypeOK'
    BY <1>2 DEF IInv, TypeOK, MainTypeOK, SpawnConfirm
  <2>4. TaskTypeOK'
    BY <1>2, IdleType DEF IInv, TypeOK, TaskTypeOK, SpawnConfirm
  <2>5. (CellTypeOK /\ nextId \in Nat \ {0} /\ faults \in Nat)'
    BY <1>2 DEF IInv, TypeOK, CellTypeOK, SpawnConfirm
  <2>6. (PointersOrdered /\ CountersAgree /\ SyncInv)'
    BY <1>2, <2>2, <2>3 DEF IInv, TypeOK, StoreTypeOK, MainTypeOK, PointersOrdered,
         CountersAgree, SyncInv, SpawnConfirm
  <2>7. (TasksTargetNext /\ TasksInv)'
    BY <1>2, <2>2, <2>3, <2>4, IdleType, <2>next DEF IInv, TypeOK, StoreTypeOK, MainTypeOK,
         TaskTypeOK, PointersOrdered, CountersAgree, TasksTargetNext, TasksInv, SyncInv,
         Running, Applied, StoredTx, SpawnConfirm
  <2> QED BY <2>1, <2>2, <2>3, <2>4, <2>5, <2>6, <2>7 DEF IInv, TypeOK
<1>3. CASE ProduceLocalBlock
  <2>len. Len(chain') = Len(chain) + 1
    BY <1>3 DEF IInv, TypeOK, StoreTypeOK, ProduceLocalBlock, ProcessBlock
  <2>1. CkbTypeOK'
    BY <1>3 DEF IInv, TypeOK, CkbTypeOK, ProduceLocalBlock, ProcessBlock
  <2>2. StoreTypeOK'
    BY <1>3, MaxBlocksAssumption DEF IInv, TypeOK, StoreTypeOK, ProduceLocalBlock, ProcessBlock,
         CellTypeOK, Blocks, Ids
  <2>3. MainTypeOK'
    BY <1>3 DEF IInv, TypeOK, MainTypeOK, ProduceLocalBlock, ProcessBlock
  <2>4. TaskTypeOK'
    BY <1>3 DEF IInv, TypeOK, TaskTypeOK, ProduceLocalBlock, ProcessBlock
  <2>5. (CellTypeOK /\ nextId \in Nat \ {0} /\ faults \in Nat)'
    BY <1>3 DEF IInv, TypeOK, CellTypeOK, ProduceLocalBlock, ProcessBlock
  <2>6. (PointersOrdered /\ CountersAgree /\ SyncInv)'
    <3>1. pc = "loop" /\ pc' = "notify" /\ Len(chain) < MaxBlocks
      BY <1>3 DEF ProduceLocalBlock, ProcessBlock
    <3>2. UNCHANGED <<lastSub, lastConf, localCount, submittedCount>>
      BY <1>3 DEF ProduceLocalBlock, ProcessBlock
    <3>3. PointersOrdered' /\ SyncInv'
      BY <3>1, <3>2, <2>len, MaxBlocksAssumption DEF IInv, TypeOK, StoreTypeOK, PointersOrdered, SyncInv
    <3>4. CountersAgree'
      BY <3>1, <3>2, <2>len DEF IInv, TypeOK, StoreTypeOK, MainTypeOK, CountersAgree
    <3> QED BY <3>3, <3>4
  <2>7. (TasksTargetNext /\ TasksInv)'
    BY <1>3, <2>2, <2>3, <2>4, <2>len DEF IInv, TypeOK, StoreTypeOK, MainTypeOK, TaskTypeOK,
         PointersOrdered, CountersAgree, TasksTargetNext, TasksInv, SyncInv, Running,
         Applied, StoredTx, ProduceLocalBlock, ProcessBlock
  <2> QED BY <2>1, <2>2, <2>3, <2>4, <2>5, <2>6, <2>7 DEF IInv, TypeOK
<1>4. CASE FinishLocalBlock
  <2>last. Last(chain).deps \subseteq Deposits
    <3>1. Len(chain) \in Nat \ {0}
      BY <1>4 DEF IInv, TypeOK, StoreTypeOK, MainTypeOK, CountersAgree, FinishLocalBlock
    <3>2. chain[Len(chain)] \in Blocks
      BY <3>1 DEF IInv, TypeOK, StoreTypeOK
    <3> QED BY <3>2 DEF Last, Blocks
  <2>1. CkbTypeOK'
    BY <1>4 DEF IInv, TypeOK, CkbTypeOK, FinishLocalBlock
  <2>2. StoreTypeOK'
    BY <1>4 DEF IInv, TypeOK, StoreTypeOK, FinishLocalBlock
  <2>3. MainTypeOK'
    BY <1>4 DEF IInv, TypeOK, MainTypeOK, FinishLocalBlock
  <2>4. TaskTypeOK'
    BY <1>4 DEF IInv, TypeOK, TaskTypeOK, FinishLocalBlock
  <2>5. (CellTypeOK /\ nextId \in Nat \ {0} /\ faults \in Nat)'
    BY <1>4, TipTypes, <2>last DEF IInv, TypeOK, CellTypeOK, FinishLocalBlock, NotifyNewTip, RefreshDeposits
  <2>6. (PointersOrdered /\ CountersAgree /\ SyncInv)'
    BY <1>4, <2>2, <2>3 DEF IInv, TypeOK, StoreTypeOK, MainTypeOK, PointersOrdered,
         CountersAgree, SyncInv, FinishLocalBlock
  <2>7. (TasksTargetNext /\ TasksInv)'
    BY <1>4, <2>2, <2>3, <2>4 DEF IInv, TypeOK, StoreTypeOK, MainTypeOK, TaskTypeOK,
         PointersOrdered, CountersAgree, TasksTargetNext, TasksInv, SyncInv, Running,
         Applied, StoredTx, FinishLocalBlock
  <2> QED BY <2>1, <2>2, <2>3, <2>4, <2>5, <2>6, <2>7 DEF IInv, TypeOK
<1>5. CASE BlockSubmitted
  <2>next. sub.n = lastSub + 1 /\ sub.n <= Len(chain) /\ StoredTx(sub.n) # NoTx
    BY <1>5 DEF IInv, TasksTargetNext, TasksInv, Applied, BlockSubmitted
  <2>1. CkbTypeOK'
    BY <1>5 DEF IInv, TypeOK, CkbTypeOK, BlockSubmitted
  <2>2. StoreTypeOK'
    BY <1>5 DEF IInv, TypeOK, StoreTypeOK, BlockSubmitted, TaskTypeOK, SubmitTasks
  <2>3. MainTypeOK'
    BY <1>5 DEF IInv, TypeOK, MainTypeOK, BlockSubmitted, TasksInv, TasksTargetNext,
         CountersAgree, StoreTypeOK
  <2>4. TaskTypeOK'
    BY <1>5, IdleType DEF IInv, TypeOK, TaskTypeOK, BlockSubmitted
  <2>5. (CellTypeOK /\ nextId \in Nat \ {0} /\ faults \in Nat)'
    BY <1>5 DEF IInv, TypeOK, CellTypeOK, BlockSubmitted
  <2>6. (PointersOrdered /\ CountersAgree /\ SyncInv)'
    BY <1>5, <2>2, <2>3 DEF IInv, TypeOK, StoreTypeOK, MainTypeOK, PointersOrdered,
         CountersAgree, SyncInv, BlockSubmitted, TasksTargetNext
  <2>7. (TasksTargetNext /\ TasksInv)'
    <3>1. lastSub' = lastSub + 1 /\ sub'.st = "idle" /\ pc' = "loop" /\ pc = "loop"
      BY <1>5, <2>next, IdleType DEF BlockSubmitted
    <3>2. UNCHANGED <<chain, lastConf, subTx, con>>
      BY <1>5 DEF BlockSubmitted
    <3>3. TasksTargetNext'
      BY <3>1, <3>2 DEF IInv, TypeOK, StoreTypeOK, TasksTargetNext, StoredTx
    <3>4. \A n \in lastConf + 1..lastSub + 1 : StoredTx(n) # NoTx
      BY <2>next, <3>1 DEF IInv, TypeOK, StoreTypeOK, TasksInv, Running
    <3>5. TasksInv'
      BY <3>1, <3>2, <3>4 DEF IInv, TasksInv, Applied, Running, StoredTx
    <3> QED BY <3>3, <3>5
  <2> QED BY <2>1, <2>2, <2>3, <2>4, <2>5, <2>6, <2>7 DEF IInv, TypeOK
<1>6. CASE BlockConfirmed
  <2>1. CkbTypeOK'
    BY <1>6 DEF IInv, TypeOK, CkbTypeOK, BlockConfirmed
  <2>2. StoreTypeOK'
    BY <1>6 DEF IInv, TypeOK, StoreTypeOK, BlockConfirmed, TaskTypeOK, ConfirmTasks
  <2>3. MainTypeOK'
    BY <1>6 DEF IInv, TypeOK, MainTypeOK, BlockConfirmed, TasksInv, TasksTargetNext,
         CountersAgree, StoreTypeOK
  <2>4. TaskTypeOK'
    BY <1>6, IdleType DEF IInv, TypeOK, TaskTypeOK, BlockConfirmed
  <2>5. (CellTypeOK /\ nextId \in Nat \ {0} /\ faults \in Nat)'
    BY <1>6 DEF IInv, TypeOK, CellTypeOK, BlockConfirmed
  <2>6. (PointersOrdered /\ CountersAgree /\ SyncInv)'
    BY <1>6, <2>2, <2>3 DEF IInv, TypeOK, StoreTypeOK, MainTypeOK, PointersOrdered,
         CountersAgree, SyncInv, BlockConfirmed, TasksTargetNext
  <2>7. (TasksTargetNext /\ TasksInv)'
    <3>1. lastConf' = lastConf + 1 /\ con'.st = "idle" /\ pc' = "loop" /\ pc = "loop"
      BY <1>6, IdleType DEF IInv, TasksTargetNext, BlockConfirmed
    <3>2. UNCHANGED <<chain, lastSub, subTx, sub>>
      BY <1>6 DEF BlockConfirmed
    <3>3. TasksTargetNext'
      BY <3>1, <3>2 DEF IInv, TasksTargetNext
    <3>4. TasksInv'
      BY <3>1, <3>2 DEF IInv, TypeOK, StoreTypeOK, TasksInv, Applied, Running, StoredTx
    <3> QED BY <3>3, <3>4
  <2> QED BY <2>1, <2>2, <2>3, <2>4, <2>5, <2>6, <2>7 DEF IInv, TypeOK
<1>7. CASE TaskShouldRevert
  <2>1. CkbTypeOK'
    BY <1>7 DEF IInv, TypeOK, CkbTypeOK, TaskShouldRevert, RaiseRevert, AbortTasks
  <2>2. StoreTypeOK'
    BY <1>7 DEF IInv, TypeOK, StoreTypeOK, TaskShouldRevert, RaiseRevert, AbortTasks
  <2>3. MainTypeOK'
    BY <1>7 DEF IInv, TypeOK, MainTypeOK, TaskShouldRevert, RaiseRevert, AbortTasks,
         TaskTypeOK, SubmitTasks, ConfirmTasks
  <2>4. TaskTypeOK'
    BY <1>7, AbortTasksType DEF IInv, TypeOK, TaskTypeOK, TaskShouldRevert, RaiseRevert,
         AbortTasks
  <2>5. (CellTypeOK /\ nextId \in Nat \ {0} /\ faults \in Nat)'
    BY <1>7 DEF IInv, TypeOK, CellTypeOK, TaskShouldRevert, RaiseRevert, AbortTasks
  <2>6. (PointersOrdered /\ CountersAgree /\ SyncInv)'
    BY <1>7, <2>2, <2>3 DEF IInv, TypeOK, StoreTypeOK, MainTypeOK, PointersOrdered,
         CountersAgree, SyncInv, TaskShouldRevert, RaiseRevert, AbortTasks
  <2>7. (TasksTargetNext /\ TasksInv)'
    BY <1>7, <2>2, <2>3, <2>4, IdleType DEF IInv, TypeOK, StoreTypeOK, MainTypeOK,
         TaskTypeOK, PointersOrdered, CountersAgree, TasksTargetNext, TasksInv, SyncInv,
         Running, Applied, StoredTx, TaskShouldRevert, RaiseRevert, AbortTasks
  <2> QED BY <2>1, <2>2, <2>3, <2>4, <2>5, <2>6, <2>7 DEF IInv, TypeOK
<1>8. CASE TaskShouldResync
  <2>1. CkbTypeOK'
    BY <1>8 DEF IInv, TypeOK, CkbTypeOK, TaskShouldResync, AbortTasks
  <2>2. StoreTypeOK'
    BY <1>8 DEF IInv, TypeOK, StoreTypeOK, TaskShouldResync, AbortTasks
  <2>3. MainTypeOK'
    BY <1>8 DEF IInv, TypeOK, MainTypeOK, TaskShouldResync, AbortTasks
  <2>4. TaskTypeOK'
    BY <1>8, AbortTasksType DEF IInv, TypeOK, TaskTypeOK, TaskShouldResync, AbortTasks
  <2>5. (CellTypeOK /\ nextId \in Nat \ {0} /\ faults \in Nat)'
    BY <1>8 DEF IInv, TypeOK, CellTypeOK, TaskShouldResync, AbortTasks
  <2>6. (PointersOrdered /\ CountersAgree /\ SyncInv)'
    BY <1>8, <2>2, <2>3 DEF IInv, TypeOK, StoreTypeOK, MainTypeOK, PointersOrdered,
         CountersAgree, SyncInv, TaskShouldResync, AbortTasks
  <2>7. (TasksTargetNext /\ TasksInv)'
    BY <1>8, <2>2, <2>3, <2>4, IdleType DEF IInv, TypeOK, StoreTypeOK, MainTypeOK,
         TaskTypeOK, PointersOrdered, CountersAgree, TasksTargetNext, TasksInv, SyncInv,
         Running, Applied, StoredTx, TaskShouldResync, AbortTasks
  <2> QED BY <2>1, <2>2, <2>3, <2>4, <2>5, <2>6, <2>7 DEF IInv, TypeOK
<1>9. CASE SignalRevertLocal
  <2>1. CkbTypeOK'
    BY <1>9 DEF IInv, TypeOK, CkbTypeOK, SignalRevertLocal, RaiseRevert, AbortTasks, Fault
  <2>2. StoreTypeOK'
    BY <1>9 DEF IInv, TypeOK, StoreTypeOK, SignalRevertLocal, RaiseRevert, AbortTasks, Fault
  <2>3. MainTypeOK'
    BY <1>9 DEF IInv, TypeOK, MainTypeOK, SignalRevertLocal, RaiseRevert, AbortTasks, Fault,
         StoreTypeOK
  <2>4. TaskTypeOK'
    BY <1>9, AbortTasksType DEF IInv, TypeOK, TaskTypeOK, SignalRevertLocal, RaiseRevert,
         AbortTasks, Fault
  <2>5. (CellTypeOK /\ nextId \in Nat \ {0} /\ faults \in Nat)'
    BY <1>9 DEF IInv, TypeOK, CellTypeOK, SignalRevertLocal, RaiseRevert, AbortTasks, Fault
  <2>6. (PointersOrdered /\ CountersAgree /\ SyncInv)'
    BY <1>9, <2>2, <2>3 DEF IInv, TypeOK, StoreTypeOK, MainTypeOK, PointersOrdered,
         CountersAgree, SyncInv, SignalRevertLocal, RaiseRevert, AbortTasks, Fault
  <2>7. (TasksTargetNext /\ TasksInv)'
    BY <1>9, <2>2, <2>3, <2>4, IdleType DEF IInv, TypeOK, StoreTypeOK, MainTypeOK,
         TaskTypeOK, PointersOrdered, CountersAgree, TasksTargetNext, TasksInv, SyncInv,
         Running, Applied, StoredTx, SignalRevertLocal, RaiseRevert, AbortTasks, Fault
  <2> QED BY <2>1, <2>2, <2>3, <2>4, <2>5, <2>6, <2>7 DEF IInv, TypeOK
<1>10. CASE SignalRevertSubmitted
  <2>1. CkbTypeOK'
    BY <1>10 DEF IInv, TypeOK, CkbTypeOK, SignalRevertSubmitted, RaiseRevert, AbortTasks,
         Fault
  <2>2. StoreTypeOK'
    BY <1>10 DEF IInv, TypeOK, StoreTypeOK, SignalRevertSubmitted, RaiseRevert, AbortTasks,
         Fault
  <2>3. MainTypeOK'
    BY <1>10 DEF IInv, TypeOK, MainTypeOK, SignalRevertSubmitted, RaiseRevert, AbortTasks,
         Fault, StoreTypeOK
  <2>4. TaskTypeOK'
    BY <1>10, AbortTasksType DEF IInv, TypeOK, TaskTypeOK, SignalRevertSubmitted,
         RaiseRevert, AbortTasks, Fault
  <2>5. (CellTypeOK /\ nextId \in Nat \ {0} /\ faults \in Nat)'
    BY <1>10 DEF IInv, TypeOK, CellTypeOK, SignalRevertSubmitted, RaiseRevert, AbortTasks,
         Fault
  <2>6. (PointersOrdered /\ CountersAgree /\ SyncInv)'
    BY <1>10, <2>2, <2>3 DEF IInv, TypeOK, StoreTypeOK, MainTypeOK, PointersOrdered,
         CountersAgree, SyncInv, SignalRevertSubmitted, RaiseRevert, AbortTasks, Fault
  <2>7. (TasksTargetNext /\ TasksInv)'
    BY <1>10, <2>2, <2>3, <2>4, IdleType DEF IInv, TypeOK, StoreTypeOK, MainTypeOK,
         TaskTypeOK, PointersOrdered, CountersAgree, TasksTargetNext, TasksInv, SyncInv,
         Running, Applied, StoredTx, SignalRevertSubmitted, RaiseRevert, AbortTasks, Fault
  <2> QED BY <2>1, <2>2, <2>3, <2>4, <2>5, <2>6, <2>7 DEF IInv, TypeOK
<1> QED BY <1>1, <1>2, <1>3, <1>4, <1>5, <1>6, <1>7, <1>8, <1>9, <1>10 DEF MainLoop

\* Reverting, synchronising with layer 1 and resetting.
LEMMA ResynchronisePreserves == ASSUME IInv, Resynchronise PROVE IInv'
<1> USE DEF ckbVars, storeVars, mainVars, taskVars, cellVars, poolVars, boundVars, nodeVars
<1>1. CASE Revert
  <2>d. /\ chain' \in Seq(Blocks) /\ lastConf' \in Nat /\ lastSub' \in Nat
        /\ subTx' \in [Ids -> Txs \cup {NoTx}]
        /\ lastConf' <= lastSub' /\ lastSub' <= Len(chain') /\ Len(chain') <= Len(chain)
    <3>1. target - 1 \in Nat /\ Detach(target - 1)
      BY <1>1 DEF IInv, TypeOK, MainTypeOK, SyncInv, Revert
    <3> QED BY <3>1, DetachProps DEF IInv
  <2>1. CkbTypeOK'
    BY <1>1 DEF IInv, TypeOK, CkbTypeOK, Revert
  <2>2. StoreTypeOK'
    BY <1>1, <2>d DEF IInv, TypeOK, StoreTypeOK, Revert
  <2>3. MainTypeOK'
    BY <1>1 DEF IInv, TypeOK, MainTypeOK, Revert
  <2>4. TaskTypeOK'
    BY <1>1 DEF IInv, TypeOK, TaskTypeOK, Revert
  <2>5. (CellTypeOK /\ nextId \in Nat \ {0} /\ faults \in Nat)'
    BY <1>1 DEF IInv, TypeOK, CellTypeOK, Revert
  <2>6. (PointersOrdered /\ CountersAgree /\ SyncInv)'
    BY <1>1, <2>2, <2>3, <2>d, MaxBlocksAssumption DEF IInv, TypeOK, StoreTypeOK,
         MainTypeOK, PointersOrdered, CountersAgree, SyncInv, Revert
  <2>7. (TasksTargetNext /\ TasksInv)'
    BY <1>1, <2>2, <2>3, <2>4, IdleType DEF IInv, TypeOK, StoreTypeOK, MainTypeOK,
         TaskTypeOK, PointersOrdered, CountersAgree, TasksTargetNext, TasksInv, SyncInv,
         Running, Applied, StoredTx, Revert
  <2> QED BY <2>1, <2>2, <2>3, <2>4, <2>5, <2>6, <2>7 DEF IInv, TypeOK
<1>2. CASE LateSave
  <2>h. Head(late) \in [n : Nat, tx : Txs \cup {NoTx}]
    BY <1>2, HeadTailProperties DEF IInv, TypeOK, TaskTypeOK, LateSave
  <2>1. CkbTypeOK'
    BY <1>2 DEF IInv, TypeOK, CkbTypeOK, LateSave
  <2>2. StoreTypeOK'
    BY <1>2, <2>h DEF IInv, TypeOK, StoreTypeOK, LateSave
  <2>3. MainTypeOK'
    BY <1>2 DEF IInv, TypeOK, MainTypeOK, LateSave
  <2>4. TaskTypeOK'
    BY <1>2 DEF IInv, TypeOK, TaskTypeOK, LateSave, TaskTypeOK
  <2>5. (CellTypeOK /\ nextId \in Nat \ {0} /\ faults \in Nat)'
    BY <1>2 DEF IInv, TypeOK, CellTypeOK, LateSave
  <2>6. (PointersOrdered /\ CountersAgree /\ SyncInv)'
    BY <1>2, <2>2, <2>3 DEF IInv, TypeOK, StoreTypeOK, MainTypeOK, PointersOrdered,
         CountersAgree, SyncInv, LateSave
  <2>7. (TasksTargetNext /\ TasksInv)'
    BY <1>2, <2>2, <2>3, <2>4, IdleType DEF IInv, TypeOK, StoreTypeOK, MainTypeOK,
         TaskTypeOK, PointersOrdered, CountersAgree, TasksTargetNext, TasksInv, SyncInv,
         Running, Applied, StoredTx, LateSave
  <2> QED BY <2>1, <2>2, <2>3, <2>4, <2>5, <2>6, <2>7 DEF IInv, TypeOK
<1>3. CASE SyncKnown
  <2>1. CkbTypeOK'
    BY <1>3 DEF IInv, TypeOK, CkbTypeOK, SyncKnown
  <2>2. StoreTypeOK'
    BY <1>3 DEF IInv, TypeOK, StoreTypeOK, SyncKnown, CkbTypeOK
  <2>3. MainTypeOK'
    BY <1>3 DEF IInv, TypeOK, MainTypeOK, SyncKnown
  <2>4. TaskTypeOK'
    BY <1>3 DEF IInv, TypeOK, TaskTypeOK, SyncKnown
  <2>5. (CellTypeOK /\ nextId \in Nat \ {0} /\ faults \in Nat)'
    BY <1>3 DEF IInv, TypeOK, CellTypeOK, SyncKnown
  <2>6. (PointersOrdered /\ CountersAgree /\ SyncInv)'
    BY <1>3, <2>2, <2>3 DEF IInv, TypeOK, StoreTypeOK, MainTypeOK, PointersOrdered,
         CountersAgree, SyncInv, SyncKnown, CkbTypeOK
  <2>7. (TasksTargetNext /\ TasksInv)'
    BY <1>3, <2>2, <2>3, <2>4, IdleType DEF IInv, TypeOK, StoreTypeOK, MainTypeOK,
         TaskTypeOK, PointersOrdered, CountersAgree, TasksTargetNext, TasksInv, SyncInv,
         Running, Applied, StoredTx, SyncKnown
  <2> QED BY <2>1, <2>2, <2>3, <2>4, <2>5, <2>6, <2>7 DEF IInv, TypeOK
<1>4. CASE SyncFork
  <2>pick. PICK c \in Nat : Detach(c) /\ c < Len(l1) /\ todo' = SubSeq(l1, c + 1, Len(l1))
    BY <1>4, MaxBlocksAssumption DEF IInv, TypeOK, StoreTypeOK, SyncFork
  <2>d. /\ chain' \in Seq(Blocks) /\ lastConf' \in Nat /\ lastSub' \in Nat
        /\ subTx' \in [Ids -> Txs \cup {NoTx}]
        /\ lastConf' <= lastSub' /\ lastSub' <= Len(chain') /\ Len(chain') <= Len(chain)
    BY <2>pick, DetachProps DEF IInv
  <2>todo. todo' \in Seq(Txs) /\ todo' # <<>>
    BY <2>pick, SuffixSeq DEF IInv, TypeOK, CkbTypeOK
  <2>1. CkbTypeOK'
    BY <1>4 DEF IInv, TypeOK, CkbTypeOK, SyncFork
  <2>2. StoreTypeOK'
    BY <1>4, <2>d DEF IInv, TypeOK, StoreTypeOK, SyncFork
  <2>3. MainTypeOK'
    BY <1>4, <2>todo DEF IInv, TypeOK, MainTypeOK, SyncFork
  <2>4. TaskTypeOK'
    BY <1>4 DEF IInv, TypeOK, TaskTypeOK, SyncFork
  <2>5. (CellTypeOK /\ nextId \in Nat \ {0} /\ faults \in Nat)'
    BY <1>4 DEF IInv, TypeOK, CellTypeOK, SyncFork
  <2>6. (PointersOrdered /\ CountersAgree /\ SyncInv)'
    BY <1>4, <2>2, <2>3, <2>d, <2>todo, MaxBlocksAssumption DEF IInv, TypeOK, StoreTypeOK,
         MainTypeOK, PointersOrdered, CountersAgree, SyncInv, SyncFork
  <2>7. (TasksTargetNext /\ TasksInv)'
    BY <1>4, <2>2, <2>3, <2>4, IdleType DEF IInv, TypeOK, StoreTypeOK, MainTypeOK,
         TaskTypeOK, PointersOrdered, CountersAgree, TasksTargetNext, TasksInv, SyncInv,
         Running, Applied, StoredTx, SyncFork
  <2> QED BY <2>1, <2>2, <2>3, <2>4, <2>5, <2>6, <2>7 DEF IInv, TypeOK
<1>5. CASE SyncUpdate
  <2>h. Head(todo) \in Txs /\ Tail(todo) \in Seq(Txs)
    BY <1>5, HeadTailProperties DEF IInv, TypeOK, MainTypeOK, SyncUpdate
  <2>un. /\ pc = "update" /\ Len(chain) < MaxBlocks
         /\ UNCHANGED <<savedDeps, target, cause, localCount, submittedCount>>
    BY <1>5 DEF SyncUpdate
  <2>or. \/ /\ chain' \in Seq(Blocks) /\ Len(chain') = Len(chain) + 1
            /\ lastSub' = Len(chain) + 1 /\ lastConf' = Len(chain) + 1
            /\ subTx' \in [Ids -> Txs \cup {NoTx}] /\ todo' = Tail(todo) /\ pc' = pc
         \/ pc' = "sync" /\ todo' = <<>> /\ UNCHANGED <<chain, lastSub, lastConf, subTx>>
    <3>1. CASE AttachFromL1(Head(todo)) /\ todo' = Tail(todo) /\ UNCHANGED pc
      <4>1. Head(todo).blk \in Blocks
        BY <2>h DEF Txs
      <4>2. chain' \in Seq(Blocks) /\ Len(chain') = Len(chain) + 1
        BY <3>1, <4>1 DEF IInv, TypeOK, StoreTypeOK, AttachFromL1, ProcessBlock
      <4>3. subTx' \in [Ids -> Txs \cup {NoTx}]
        BY <3>1, <2>h DEF IInv, TypeOK, StoreTypeOK, AttachFromL1, ProcessBlock
      <4> QED BY <3>1, <4>2, <4>3 DEF AttachFromL1, ProcessBlock
    <3>2. CASE pc' = "sync" /\ todo' = <<>> /\ UNCHANGED <<chain, lastSub, lastConf, subTx>>
      BY <3>2
    <3> QED BY <1>5, <3>1, <3>2 DEF SyncUpdate
  <2>1. CkbTypeOK'
    BY <1>5 DEF IInv, TypeOK, CkbTypeOK, SyncUpdate
  <2>2. StoreTypeOK'
    BY <2>h, <2>or, <2>un DEF IInv, TypeOK, StoreTypeOK
  <2>3. MainTypeOK'
    BY <2>h, <2>or, <2>un, EmptySeq DEF IInv, TypeOK, MainTypeOK
  <2>4. TaskTypeOK'
    BY <1>5 DEF IInv, TypeOK, TaskTypeOK, SyncUpdate
  <2>5. (CellTypeOK /\ nextId \in Nat \ {0} /\ faults \in Nat)'
    BY <1>5 DEF IInv, TypeOK, CellTypeOK, SyncUpdate
  <2>6. (PointersOrdered /\ CountersAgree /\ SyncInv)'
    <3>0. Len(chain) \in Nat /\ lastSub \in Nat /\ lastConf \in Nat
      BY DEF IInv, TypeOK, StoreTypeOK
    <3>1. CASE pc' = "sync" /\ UNCHANGED <<chain, lastSub, lastConf>>
      BY <3>1 DEF IInv, PointersOrdered, CountersAgree, SyncInv
    <3>2. CASE /\ Len(chain') = Len(chain) + 1 /\ pc' = "update"
               /\ lastSub' = Len(chain) + 1 /\ lastConf' = Len(chain) + 1
      BY <3>0, <3>2, <2>un, MaxBlocksAssumption DEF PointersOrdered, CountersAgree, SyncInv
    <3> QED BY <2>or, <2>un, <3>1, <3>2
  <2>7. (TasksTargetNext /\ TasksInv)'
    BY <1>5, <2>2, <2>3, <2>4, IdleType DEF IInv, TypeOK, StoreTypeOK, MainTypeOK,
         TaskTypeOK, PointersOrdered, CountersAgree, TasksTargetNext, TasksInv, SyncInv,
         Running, Applied, StoredTx, SyncUpdate
  <2> QED BY <2>1, <2>2, <2>3, <2>4, <2>5, <2>6, <2>7 DEF IInv, TypeOK
<1>6. CASE SyncPage
  <2>todo. todo' \in Seq(Txs) /\ (Len(l1) > Len(chain) => todo' # <<>>)
    BY <1>6, SuffixSeq DEF IInv, TypeOK, CkbTypeOK, StoreTypeOK, SyncPage
  <2>1. CkbTypeOK'
    BY <1>6 DEF IInv, TypeOK, CkbTypeOK, SyncPage
  <2>2. StoreTypeOK'
    BY <1>6 DEF IInv, TypeOK, StoreTypeOK, SyncPage
  <2>3. MainTypeOK'
    BY <1>6, <2>todo DEF IInv, TypeOK, MainTypeOK, SyncPage
  <2>4. TaskTypeOK'
    BY <1>6 DEF IInv, TypeOK, TaskTypeOK, SyncPage
  <2>5. (CellTypeOK /\ nextId \in Nat \ {0} /\ faults \in Nat)'
    BY <1>6 DEF IInv, TypeOK, CellTypeOK, SyncPage
  <2>6. (PointersOrdered /\ CountersAgree /\ SyncInv)'
    BY <1>6, <2>2, <2>3, <2>todo DEF IInv, TypeOK, StoreTypeOK, MainTypeOK, PointersOrdered,
         CountersAgree, SyncInv, SyncPage, CkbTypeOK
  <2>7. (TasksTargetNext /\ TasksInv)'
    BY <1>6, <2>2, <2>3, <2>4, IdleType DEF IInv, TypeOK, StoreTypeOK, MainTypeOK,
         TaskTypeOK, PointersOrdered, CountersAgree, TasksTargetNext, TasksInv, SyncInv,
         Running, Applied, StoredTx, SyncPage
  <2> QED BY <2>1, <2>2, <2>3, <2>4, <2>5, <2>6, <2>7 DEF IInv, TypeOK
<1>7. CASE SyncFails
  <2>1. CkbTypeOK'
    BY <1>7 DEF IInv, TypeOK, CkbTypeOK, SyncFails, Fault
  <2>2. StoreTypeOK'
    BY <1>7 DEF IInv, TypeOK, StoreTypeOK, SyncFails, Fault
  <2>3. MainTypeOK'
    BY <1>7, EmptySeq DEF IInv, TypeOK, MainTypeOK, SyncFails, Fault
  <2>4. TaskTypeOK'
    BY <1>7 DEF IInv, TypeOK, TaskTypeOK, SyncFails, Fault
  <2>5. (CellTypeOK /\ nextId \in Nat \ {0} /\ faults \in Nat)'
    BY <1>7 DEF IInv, TypeOK, CellTypeOK, SyncFails, Fault
  <2>6. (PointersOrdered /\ CountersAgree /\ SyncInv)'
    BY <1>7, <2>2, <2>3 DEF IInv, TypeOK, StoreTypeOK, MainTypeOK, PointersOrdered,
         CountersAgree, SyncInv, SyncFails, Fault
  <2>7. (TasksTargetNext /\ TasksInv)'
    BY <1>7, <2>2, <2>3, <2>4, IdleType DEF IInv, TypeOK, StoreTypeOK, MainTypeOK,
         TaskTypeOK, PointersOrdered, CountersAgree, TasksTargetNext, TasksInv, SyncInv,
         Running, Applied, StoredTx, SyncFails, Fault
  <2> QED BY <2>1, <2>2, <2>3, <2>4, <2>5, <2>6, <2>7 DEF IInv, TypeOK
<1>8. CASE Reset
  <2>deps. DepositsOf(lastConf + 1, Len(chain)) \subseteq Deposits
    <3>1. \A b \in lastConf + 1..Len(chain) : chain[b] \in Blocks
      BY DEF IInv, TypeOK, StoreTypeOK
    <3> QED BY <3>1 DEF DepositsOf, Blocks
  <2>1. CkbTypeOK'
    BY <1>8 DEF IInv, TypeOK, CkbTypeOK, Reset
  <2>2. StoreTypeOK'
    BY <1>8 DEF IInv, TypeOK, StoreTypeOK, Reset
  <2>3. MainTypeOK'
    BY <1>8 DEF IInv, TypeOK, MainTypeOK, Reset, StoreTypeOK, PointersOrdered
  <2>4. TaskTypeOK'
    BY <1>8, EmptySeq DEF IInv, TypeOK, TaskTypeOK, Reset
  <2>5. (CellTypeOK /\ nextId \in Nat \ {0} /\ faults \in Nat)'
    BY <1>8, TipTypes, <2>deps DEF IInv, TypeOK, CellTypeOK, Reset, NotifyNewTip, RefreshDeposits
  <2>6. (PointersOrdered /\ CountersAgree /\ SyncInv)'
    BY <1>8, <2>2, <2>3 DEF IInv, TypeOK, StoreTypeOK, MainTypeOK, PointersOrdered,
         CountersAgree, SyncInv, Reset
  <2>7. (TasksTargetNext /\ TasksInv)'
    BY <1>8, <2>2, <2>3, <2>4, IdleType DEF IInv, TypeOK, StoreTypeOK, MainTypeOK,
         TaskTypeOK, PointersOrdered, CountersAgree, TasksTargetNext, TasksInv, SyncInv,
         Running, Applied, StoredTx, Reset
  <2> QED BY <2>1, <2>2, <2>3, <2>4, <2>5, <2>6, <2>7 DEF IInv, TypeOK
<1> QED BY <1>1, <1>2, <1>3, <1>4, <1>5, <1>6, <1>7, <1>8 DEF Resynchronise

\* Crashes, graceful stops and restarts.
LEMMA ProcessPreserves == ASSUME IInv, Process PROVE IInv'
<1> USE DEF ckbVars, storeVars, mainVars, taskVars, cellVars, poolVars, boundVars, nodeVars
<1>1. CASE Kill
  <2>1. CkbTypeOK'
    BY <1>1 DEF IInv, TypeOK, CkbTypeOK, Kill, Boot, Fault
  <2>2. StoreTypeOK'
    BY <1>1 DEF IInv, TypeOK, StoreTypeOK, Kill, Boot, Fault, CellTypeOK
  <2>3. MainTypeOK'
    BY <1>1, EmptySeq DEF IInv, TypeOK, MainTypeOK, Kill, Boot, Fault
  <2>4. TaskTypeOK'
    BY <1>1, IdleType, EmptySeq DEF IInv, TypeOK, TaskTypeOK, Kill, Boot, Fault
  <2>5. (CellTypeOK /\ nextId \in Nat \ {0} /\ faults \in Nat)'
    BY <1>1, TipTypes DEF IInv, TypeOK, CellTypeOK, Kill, Boot, Fault, StoreTypeOK
  <2>6. (PointersOrdered /\ CountersAgree /\ SyncInv)'
    BY <1>1, <2>2, <2>3 DEF IInv, TypeOK, StoreTypeOK, MainTypeOK, PointersOrdered,
         CountersAgree, SyncInv, Kill, Boot, Fault
  <2>7. (TasksTargetNext /\ TasksInv)'
    BY <1>1, <2>2, <2>3, <2>4, IdleType DEF IInv, TypeOK, StoreTypeOK, MainTypeOK,
         TaskTypeOK, PointersOrdered, CountersAgree, TasksTargetNext, TasksInv, SyncInv,
         Running, Applied, StoredTx, Kill, Boot, Fault
  <2> QED BY <2>1, <2>2, <2>3, <2>4, <2>5, <2>6, <2>7 DEF IInv, TypeOK
<1>2. CASE Stop
  <2>1. CkbTypeOK'
    BY <1>2 DEF IInv, TypeOK, CkbTypeOK, Stop, Boot, Fault
  <2>2. StoreTypeOK'
    BY <1>2 DEF IInv, TypeOK, StoreTypeOK, Stop, Boot, Fault, CellTypeOK
  <2>3. MainTypeOK'
    BY <1>2, EmptySeq DEF IInv, TypeOK, MainTypeOK, Stop, Boot, Fault
  <2>4. TaskTypeOK'
    BY <1>2, IdleType, EmptySeq DEF IInv, TypeOK, TaskTypeOK, Stop, Boot, Fault
  <2>5. (CellTypeOK /\ nextId \in Nat \ {0} /\ faults \in Nat)'
    BY <1>2, TipTypes DEF IInv, TypeOK, CellTypeOK, Stop, Boot, Fault, StoreTypeOK
  <2>6. (PointersOrdered /\ CountersAgree /\ SyncInv)'
    BY <1>2, <2>2, <2>3 DEF IInv, TypeOK, StoreTypeOK, MainTypeOK, PointersOrdered,
         CountersAgree, SyncInv, Stop, Boot, Fault
  <2>7. (TasksTargetNext /\ TasksInv)'
    BY <1>2, <2>2, <2>3, <2>4, IdleType DEF IInv, TypeOK, StoreTypeOK, MainTypeOK,
         TaskTypeOK, PointersOrdered, CountersAgree, TasksTargetNext, TasksInv, SyncInv,
         Running, Applied, StoredTx, Stop, Boot, Fault
  <2> QED BY <2>1, <2>2, <2>3, <2>4, <2>5, <2>6, <2>7 DEF IInv, TypeOK
<1>3. CASE Reboot
  <2>1. CkbTypeOK'
    BY <1>3 DEF IInv, TypeOK, CkbTypeOK, Reboot, Boot
  <2>2. StoreTypeOK'
    BY <1>3 DEF IInv, TypeOK, StoreTypeOK, Reboot, Boot, CellTypeOK
  <2>3. MainTypeOK'
    BY <1>3, EmptySeq DEF IInv, TypeOK, MainTypeOK, Reboot, Boot
  <2>4. TaskTypeOK'
    BY <1>3, IdleType, EmptySeq DEF IInv, TypeOK, TaskTypeOK, Reboot, Boot
  <2>5. (CellTypeOK /\ nextId \in Nat \ {0} /\ faults \in Nat)'
    BY <1>3, TipTypes DEF IInv, TypeOK, CellTypeOK, Reboot, Boot, StoreTypeOK
  <2>6. (PointersOrdered /\ CountersAgree /\ SyncInv)'
    BY <1>3, <2>2, <2>3 DEF IInv, TypeOK, StoreTypeOK, MainTypeOK, PointersOrdered,
         CountersAgree, SyncInv, Reboot, Boot
  <2>7. (TasksTargetNext /\ TasksInv)'
    BY <1>3, <2>2, <2>3, <2>4, IdleType DEF IInv, TypeOK, StoreTypeOK, MainTypeOK,
         TaskTypeOK, PointersOrdered, CountersAgree, TasksTargetNext, TasksInv, SyncInv,
         Running, Applied, StoredTx, Reboot, Boot
  <2> QED BY <2>1, <2>2, <2>3, <2>4, <2>5, <2>6, <2>7 DEF IInv, TypeOK
<1> QED BY <1>1, <1>2, <1>3 DEF Process

\* The moves of layer 1.
LEMMA Layer1Preserves == ASSUME IInv, Layer1 PROVE IInv'
<1> USE DEF ckbVars, storeVars, mainVars, taskVars, cellVars, poolVars, boundVars, nodeVars
<1>1. CASE MinerCommits
  <2>1. CkbTypeOK'
    BY <1>1, HeadTailProperties DEF IInv, TypeOK, CkbTypeOK, MinerCommits, L1Commit
  <2>2. StoreTypeOK'
    BY <1>1 DEF IInv, TypeOK, StoreTypeOK, MinerCommits, L1Commit
  <2>3. MainTypeOK'
    BY <1>1 DEF IInv, TypeOK, MainTypeOK, MinerCommits, L1Commit
  <2>4. TaskTypeOK'
    BY <1>1 DEF IInv, TypeOK, TaskTypeOK, MinerCommits, L1Commit
  <2>5. (CellTypeOK /\ nextId \in Nat \ {0} /\ faults \in Nat)'
    BY <1>1 DEF IInv, TypeOK, CellTypeOK, MinerCommits, L1Commit
  <2>6. (PointersOrdered /\ CountersAgree /\ SyncInv)'
    BY <1>1, <2>2, <2>3 DEF IInv, TypeOK, StoreTypeOK, MainTypeOK, PointersOrdered,
         CountersAgree, SyncInv, MinerCommits, L1Commit
  <2>7. (TasksTargetNext /\ TasksInv)'
    BY <1>1, <2>2, <2>3, <2>4 DEF IInv, TypeOK, StoreTypeOK, MainTypeOK, TaskTypeOK,
         PointersOrdered, CountersAgree, TasksTargetNext, TasksInv, SyncInv, Running,
         Applied, StoredTx, MinerCommits, L1Commit
  <2> QED BY <2>1, <2>2, <2>3, <2>4, <2>5, <2>6, <2>7 DEF IInv, TypeOK
<1>2. CASE PoolDrops
  <2>1. CkbTypeOK'
    BY <1>2, PrefixSeq DEF IInv, TypeOK, CkbTypeOK, PoolDrops, L1Drop, Fault
  <2>2. StoreTypeOK'
    BY <1>2 DEF IInv, TypeOK, StoreTypeOK, PoolDrops, L1Drop, Fault
  <2>3. MainTypeOK'
    BY <1>2 DEF IInv, TypeOK, MainTypeOK, PoolDrops, L1Drop, Fault
  <2>4. TaskTypeOK'
    BY <1>2 DEF IInv, TypeOK, TaskTypeOK, PoolDrops, L1Drop, Fault
  <2>5. (CellTypeOK /\ nextId \in Nat \ {0} /\ faults \in Nat)'
    BY <1>2 DEF IInv, TypeOK, CellTypeOK, PoolDrops, L1Drop, Fault
  <2>6. (PointersOrdered /\ CountersAgree /\ SyncInv)'
    BY <1>2, <2>2, <2>3 DEF IInv, TypeOK, StoreTypeOK, MainTypeOK, PointersOrdered,
         CountersAgree, SyncInv, PoolDrops, L1Drop, Fault
  <2>7. (TasksTargetNext /\ TasksInv)'
    BY <1>2, <2>2, <2>3, <2>4 DEF IInv, TypeOK, StoreTypeOK, MainTypeOK, TaskTypeOK,
         PointersOrdered, CountersAgree, TasksTargetNext, TasksInv, SyncInv, Running,
         Applied, StoredTx, PoolDrops, L1Drop, Fault
  <2> QED BY <2>1, <2>2, <2>3, <2>4, <2>5, <2>6, <2>7 DEF IInv, TypeOK
<1>3. CASE ChainReorgs
  <2>last. l1 # <<>> /\ Last(l1) \in Txs
    BY <1>3, EmptySeq DEF IInv, TypeOK, CkbTypeOK, ChainReorgs, L1Reorg, Last
  <2>l1. l1' \in Seq(Txs) /\ cancelled' = cancelled
    <3>1. Len(l1) - 1 \in 0..Len(l1)
      BY <2>last, EmptySeq DEF IInv, TypeOK, CkbTypeOK
    <3> QED BY <1>3, <3>1, PrefixSeq DEF IInv, TypeOK, CkbTypeOK, ChainReorgs, L1Reorg, Front
  <2>pool. pool' \in Seq(Txs)
    <3>1. <<Last(l1)>> \in Seq(Txs)
      BY <2>last, SingletonSeq
    <3>2. <<Last(l1)>> \o pool \in Seq(Txs)
      BY <3>1, ConcatProperties DEF IInv, TypeOK, CkbTypeOK
    <3> QED BY <1>3, <3>2, EmptySeq DEF ChainReorgs, L1Reorg
  <2>1. CkbTypeOK'
    BY <2>l1, <2>pool DEF IInv, TypeOK, CkbTypeOK
  <2>2. StoreTypeOK'
    BY <1>3 DEF IInv, TypeOK, StoreTypeOK, ChainReorgs, L1Reorg, Fault
  <2>3. MainTypeOK'
    BY <1>3 DEF IInv, TypeOK, MainTypeOK, ChainReorgs, L1Reorg, Fault
  <2>4. TaskTypeOK'
    BY <1>3 DEF IInv, TypeOK, TaskTypeOK, ChainReorgs, L1Reorg, Fault
  <2>5. (CellTypeOK /\ nextId \in Nat \ {0} /\ faults \in Nat)'
    BY <1>3 DEF IInv, TypeOK, CellTypeOK, ChainReorgs, L1Reorg, Fault
  <2>6. (PointersOrdered /\ CountersAgree /\ SyncInv)'
    BY <1>3, <2>2, <2>3 DEF IInv, TypeOK, StoreTypeOK, MainTypeOK, PointersOrdered,
         CountersAgree, SyncInv, ChainReorgs, L1Reorg, Fault
  <2>7. (TasksTargetNext /\ TasksInv)'
    BY <1>3, <2>2, <2>3, <2>4 DEF IInv, TypeOK, StoreTypeOK, MainTypeOK, TaskTypeOK,
         PointersOrdered, CountersAgree, TasksTargetNext, TasksInv, SyncInv, Running,
         Applied, StoredTx, ChainReorgs, L1Reorg, Fault
  <2> QED BY <2>1, <2>2, <2>3, <2>4, <2>5, <2>6, <2>7 DEF IInv, TypeOK
<1>4. CASE OwnerCancels
  <2>1. CkbTypeOK'
    BY <1>4, PrefixSeq DEF IInv, TypeOK, CkbTypeOK, OwnerCancels, L1CancelDeposit, Fault
  <2>2. StoreTypeOK'
    BY <1>4 DEF IInv, TypeOK, StoreTypeOK, OwnerCancels, L1CancelDeposit, Fault
  <2>3. MainTypeOK'
    BY <1>4 DEF IInv, TypeOK, MainTypeOK, OwnerCancels, L1CancelDeposit, Fault
  <2>4. TaskTypeOK'
    BY <1>4 DEF IInv, TypeOK, TaskTypeOK, OwnerCancels, L1CancelDeposit, Fault
  <2>5. (CellTypeOK /\ nextId \in Nat \ {0} /\ faults \in Nat)'
    BY <1>4 DEF IInv, TypeOK, CellTypeOK, OwnerCancels, L1CancelDeposit, Fault
  <2>6. (PointersOrdered /\ CountersAgree /\ SyncInv)'
    BY <1>4, <2>2, <2>3 DEF IInv, TypeOK, StoreTypeOK, MainTypeOK, PointersOrdered,
         CountersAgree, SyncInv, OwnerCancels, L1CancelDeposit, Fault
  <2>7. (TasksTargetNext /\ TasksInv)'
    BY <1>4, <2>2, <2>3, <2>4 DEF IInv, TypeOK, StoreTypeOK, MainTypeOK, TaskTypeOK,
         PointersOrdered, CountersAgree, TasksTargetNext, TasksInv, SyncInv, Running,
         Applied, StoredTx, OwnerCancels, L1CancelDeposit, Fault
  <2> QED BY <2>1, <2>2, <2>3, <2>4, <2>5, <2>6, <2>7 DEF IInv, TypeOK
<1>5. CASE ForeignSubmits
  <2>pick. PICK ds \in SUBSET Deposits :
             L1Foreign([id |-> nextId, num |-> Len(l1) + 1, par |-> L1Tip, deps |-> ds])
    BY <1>5 DEF ForeignSubmits
  <2>blk. [id |-> nextId, num |-> Len(l1) + 1, par |-> L1Tip, deps |-> ds] \in Blocks
    BY <1>5, TipTypes, MaxBlocksAssumption DEF IInv, TypeOK, CkbTypeOK, ForeignSubmits, Blocks, Ids
  <2>ck. l1' \in Seq(Txs) /\ pool' \in Seq(Txs) /\ cancelled' = cancelled
    BY <2>pick, <2>blk, TipTypes, EmptySeq DEF IInv, TypeOK, CkbTypeOK, L1Foreign, Txs
  <2>1. CkbTypeOK'
    BY <2>ck DEF IInv, TypeOK, CkbTypeOK
  <2>2. StoreTypeOK'
    BY <1>5 DEF IInv, TypeOK, StoreTypeOK, ForeignSubmits, Fault
  <2>3. MainTypeOK'
    BY <1>5 DEF IInv, TypeOK, MainTypeOK, ForeignSubmits, Fault
  <2>4. TaskTypeOK'
    BY <1>5 DEF IInv, TypeOK, TaskTypeOK, ForeignSubmits, Fault
  <2>5. (CellTypeOK /\ nextId \in Nat \ {0} /\ faults \in Nat)'
    BY <1>5 DEF IInv, TypeOK, CellTypeOK, ForeignSubmits, Fault
  <2>6. (PointersOrdered /\ CountersAgree /\ SyncInv)'
    BY <1>5, <2>2, <2>3 DEF IInv, TypeOK, StoreTypeOK, MainTypeOK, PointersOrdered,
         CountersAgree, SyncInv, ForeignSubmits, Fault
  <2>7. (TasksTargetNext /\ TasksInv)'
    BY <1>5, <2>2, <2>3, <2>4 DEF IInv, TypeOK, StoreTypeOK, MainTypeOK, TaskTypeOK,
         PointersOrdered, CountersAgree, TasksTargetNext, TasksInv, SyncInv, Running,
         Applied, StoredTx, ForeignSubmits, Fault
  <2> QED BY <2>1, <2>2, <2>3, <2>4, <2>5, <2>6, <2>7 DEF IInv, TypeOK
<1> QED BY <1>1, <1>2, <1>3, <1>4, <1>5 DEF Layer1

\* A failed RPC of a task, which starts over from a new snapshot.
LEMMA TaskRpcFailsPreserves == ASSUME IInv, TaskRpcFails PROVE IInv'
<1> USE DEF ckbVars, storeVars, mainVars, taskVars, cellVars, poolVars, boundVars, nodeVars
<1>1. CkbTypeOK'
  BY DEF IInv, TypeOK, CkbTypeOK, TaskRpcFails, Fault
<1>2. StoreTypeOK'
  BY DEF IInv, TypeOK, StoreTypeOK, TaskRpcFails, Fault
<1>3. MainTypeOK'
  BY DEF IInv, TypeOK, MainTypeOK, TaskRpcFails, Fault
<1>4. TaskTypeOK'
  BY IdleType DEF IInv, TypeOK, TaskTypeOK, TaskRpcFails, Fault
<1>5. (CellTypeOK /\ nextId \in Nat \ {0} /\ faults \in Nat)'
  BY DEF IInv, TypeOK, CellTypeOK, TaskRpcFails, Fault
<1>6. (PointersOrdered /\ CountersAgree /\ SyncInv)'
  BY <1>2, <1>3 DEF IInv, TypeOK, StoreTypeOK, MainTypeOK, PointersOrdered,
       CountersAgree, SyncInv, TaskRpcFails, Fault
<1>7. (TasksTargetNext /\ TasksInv)'
  BY <1>2, <1>3, <1>4, IdleType DEF IInv, TypeOK, StoreTypeOK, MainTypeOK,
       TaskTypeOK, PointersOrdered, CountersAgree, TasksTargetNext, TasksInv, SyncInv,
       Running, Applied, StoredTx, TaskRpcFails, Fault
<1> QED BY <1>1, <1>2, <1>3, <1>4, <1>5, <1>6, <1>7 DEF IInv, TypeOK

\* A node that starts on the genesis block satisfies the invariant.
LEMMA InitIInv == Init => IInv
<1> USE DEF Init, CkbInit
<1>1. Init => TypeOK
  BY IdleType, EmptySeq, MaxBlocksAssumption
  DEF TypeOK, CkbTypeOK, StoreTypeOK, MainTypeOK, TaskTypeOK, CellTypeOK, Ids
<1>2. Init => PointersOrdered /\ CountersAgree /\ SyncInv
  BY EmptySeq, MaxBlocksAssumption DEF PointersOrdered, CountersAgree, SyncInv
<1>3. Init => TasksTargetNext /\ TasksInv
  BY IdleType DEF TasksTargetNext, TasksInv, Running, Applied
<1> QED BY <1>1, <1>2, <1>3 DEF IInv

\* Stuttering keeps the invariant.
LEMMA StutterIInv == ASSUME IInv, UNCHANGED vars PROVE IInv'
<1> USE DEF ckbVars, storeVars, mainVars, taskVars, cellVars, poolVars, boundVars, vars
<1>1. TypeOK'
  BY DEF IInv, TypeOK, CkbTypeOK, StoreTypeOK, MainTypeOK, TaskTypeOK, CellTypeOK
<1>2. (PointersOrdered /\ CountersAgree /\ SyncInv)'
  BY DEF IInv, PointersOrdered, CountersAgree, SyncInv
<1>3. (TasksTargetNext /\ TasksInv)'
  BY DEF IInv, TasksTargetNext, TasksInv, Running, Applied, StoredTx
<1> QED BY <1>1, <1>2, <1>3 DEF IInv

\* The inductive invariant of the node: the five parts that are proved separately
\* below are each preserved only in presence of the others.
THEOREM Inductive == Spec => []IInv
<1>1. IInv /\ [Next]_vars => IInv'
  BY SubmitTaskPreserves, ConfirmTaskPreserves, TaskRpcFailsPreserves, MainLoopPreserves,
     ResynchronisePreserves, ProcessPreserves, Layer1Preserves, StutterIInv DEF Next
<1> QED BY InitIInv, <1>1, PTL DEF Spec

(***************************************************************************)
(* The properties, for every value of the constants.                       *)
(***************************************************************************)
\* Every variable keeps its type: in particular local_count and
\* submitted_count, u64 counters the branches of run() decrement
\* (psc.rs 329, 348), never underflow.
THEOREM TypeCorrect == Spec => []TypeOK
<1>1. IInv => TypeOK BY DEF IInv
<1> QED BY Inductive, <1>1, PTL

\* Whatever is produced, reverted, resynchronised or interrupted, the last
\* confirmed block is never after the last submitted one, nor that after the
\* tip: the subtractions of init() and run() (psc.rs 154, 225) are safe.
THEOREM PointersStayOrdered == Spec => []PointersOrdered
<1>1. IInv => PointersOrdered BY DEF IInv
<1> QED BY Inductive, <1>1, PTL

\* The counters that gate the branches of run() always agree with the stored
\* pointers, and the ensure! after sync_l1 (psc.rs 123, 190) cannot fail.
THEOREM CountersStayInAgreement == Spec => []CountersAgree
<1>1. IInv => CountersAgree BY DEF IInv
<1> QED BY Inductive, <1>1, PTL

\* A task acts on the block after the pointer it will move, from its snapshot to
\* the moment run() handles its result, and the expect calls of confirm_block
\* (psc.rs 698-703) cannot fail.
THEOREM TasksStayOnTarget == Spec => []TasksTargetNext
<1>1. IInv => TasksTargetNext BY DEF IInv
<1> QED BY Inductive, <1>1, PTL

-----------------------------------------------------------------------------
(* The layer-1 chain.                                                      *)

QuietL1     == "reorg" \notin Faults
PromptAbort == LateAbort = FALSE

-----------------------------------------------------------------------------
(* The mem pool.                                                           *)

\* After notify_new_tip the mem pool is on the tip.
LEMMA NotifiedPool == ASSUME NEW dead, NotifyNewTip(dead) PROVE memTip' = TipId
BY DEF NotifyNewTip, poolVars

LEMMA MemPoolStep == ASSUME MemPoolOnTip, [Next]_vars PROVE MemPoolOnTip'
<1> USE DEF ckbVars, storeVars, mainVars, taskVars, cellVars, poolVars, boundVars, nodeVars
<1>1. ASSUME UNCHANGED <<pc, chain, memTip>> PROVE MemPoolOnTip'
  BY <1>1 DEF MemPoolOnTip, TipId
<1>2. ASSUME pc' # "loop" PROVE MemPoolOnTip'
  BY <1>2 DEF MemPoolOnTip
<1>3. ASSUME UNCHANGED chain, memTip' = TipId PROVE MemPoolOnTip'
  BY <1>3 DEF MemPoolOnTip, TipId
<1>4. CASE SubmitTask
  BY <1>1, <1>4 DEF SubmitTask, SubmitSnap, SubmitCompose, SubmitOversize, SubmitSave,
     SubmitApply, SubmitCheck, SubmitSend, SubmitSendFails, SubmitSendLost
<1>5. CASE ConfirmTask \/ TaskRpcFails
  BY <1>1, <1>5 DEF ConfirmTask, ConfirmSnap, ConfirmPoll, ConfirmResend, ConfirmResendFails,
     TaskRpcFails
<1>6. CASE MainLoop
  <2>1. CASE FinishLocalBlock
    BY <1>3, <2>1, NotifiedPool DEF FinishLocalBlock
  <2>2. CASE SpawnSubmit \/ SpawnConfirm \/ BlockSubmitted \/ BlockConfirmed
    BY <1>1, <2>2 DEF SpawnSubmit, SpawnConfirm, BlockSubmitted, BlockConfirmed
  <2>3. CASE ProduceLocalBlock \/ TaskShouldResync
    BY <1>2, <2>3 DEF ProduceLocalBlock, TaskShouldResync
  <2>4. CASE TaskShouldRevert \/ SignalRevertLocal \/ SignalRevertSubmitted
    BY <1>2, <2>4 DEF TaskShouldRevert, SignalRevertLocal, SignalRevertSubmitted, RaiseRevert
  <2> QED BY <1>6, <2>1, <2>2, <2>3, <2>4 DEF MainLoop
<1>7. CASE Resynchronise
  <2>1. CASE Reset
    BY <1>3, <2>1, NotifiedPool DEF Reset
  <2>2. CASE LateSave
    BY <1>1, <2>2 DEF LateSave
  <2>3. CASE Revert \/ SyncKnown \/ SyncFork \/ SyncUpdate \/ SyncPage \/ SyncFails
    BY <1>2, <2>3 DEF Revert, SyncKnown, SyncFork, SyncUpdate, SyncPage, SyncFails
  <2> QED BY <1>7, <2>1, <2>2, <2>3 DEF Resynchronise
<1>8. CASE Process
  BY <1>2, <1>8 DEF Process, Kill, Stop, Reboot, Boot
<1>9. CASE Layer1 \/ UNCHANGED vars
  BY <1>1, <1>9 DEF Layer1, MinerCommits, PoolDrops, ChainReorgs, OwnerCancels, ForeignSubmits, vars
<1> QED BY <1>4, <1>5, <1>6, <1>7, <1>8, <1>9 DEF Next

\* The assert of generate_produce_block_param holds under every disturbance:
\* whenever the main loop may produce, the mem pool is on the store's tip.
THEOREM MemPoolStaysOnTip == Spec => []MemPoolOnTip
<1>1. Init => MemPoolOnTip
  BY DEF Init, MemPoolOnTip
<1> QED BY <1>1, MemPoolStep, PTL DEF Spec

-----------------------------------------------------------------------------
(* Submissions.                                                            *)

\* With prompt aborts nothing is written behind the main loop's back, and the
\* submit task's transaction carries an attached block.
SubTxInv ==
    /\ late = <<>>
    /\ \A n \in Ids : subTx[n] # NoTx => n <= Len(chain) /\ subTx[n].blk = chain[n]
    /\ sub.tx # NoTx /\ Running => sub.n \in 1..Len(chain) /\ sub.tx.blk = chain[sub.n]

LEMMA IdleNoTx == Idle.tx = NoTx /\ [Idle EXCEPT !.st = "snap"].tx = NoTx
BY DEF Idle

\* Facts of the inductive invariant used throughout.
LEMMA Basics ==
    ASSUME IInv
    PROVE  /\ chain \in Seq(Blocks) /\ Len(chain) \in Nat /\ Len(chain) <= MaxBlocks /\ MaxBlocks \in Nat
           /\ lastSub \in Nat /\ lastConf \in Nat /\ lastConf <= lastSub /\ lastSub <= Len(chain)
           /\ l1 \in Seq(Txs) /\ Len(l1) \in Nat /\ pool \in Seq(Txs) /\ Len(pool) \in Nat
           /\ todo \in Seq(Txs) /\ subTx \in [Ids -> Txs \cup {NoTx}]
           /\ sub \in SubmitTasks /\ con \in ConfirmTasks
<1>1. /\ chain \in Seq(Blocks) /\ l1 \in Seq(Txs) /\ pool \in Seq(Txs) /\ todo \in Seq(Txs)
      /\ Len(chain) <= MaxBlocks /\ lastSub \in Nat /\ lastConf \in Nat /\ lastConf <= lastSub
      /\ lastSub <= Len(chain) /\ subTx \in [Ids -> Txs \cup {NoTx}]
      /\ sub \in SubmitTasks /\ con \in ConfirmTasks
  BY DEF IInv, TypeOK, CkbTypeOK, StoreTypeOK, MainTypeOK, TaskTypeOK, PointersOrdered, SyncInv
<1> QED BY <1>1, LenProperties, MaxBlocksAssumption

\* Detaching the blocks above k deletes their submissions.
LEMMA DetachSubTx ==
    ASSUME IInv, SubTxInv, NEW k \in Nat, Detach(k)
    PROVE  /\ Len(chain') = (IF Len(chain) > k THEN k ELSE Len(chain))
           /\ \A n \in 1..Len(chain') : n \in 1..Len(chain) /\ chain'[n] = chain[n]
           /\ \A n \in Ids : subTx'[n] # NoTx => /\ n <= Len(chain') /\ subTx'[n].blk = chain'[n]
                                                /\ subTx'[n] = subTx[n]
<1>0. chain \in Seq(Blocks) /\ Len(chain) \in Nat
  BY Basics
<1>1. /\ Len(chain') = (IF Len(chain) > k THEN k ELSE Len(chain))
      /\ \A n \in 1..Len(chain') : n \in 1..Len(chain) /\ chain'[n] = chain[n]
  <2>1. CASE Len(chain) > k
    <3>1. chain' = SubSeq(chain, 1, k) /\ \A i \in 1..k : chain[i] \in Blocks
      BY <1>0, <2>1 DEF Detach
    <3>2. Len(chain') = k /\ \A i \in 1..k : chain'[i] = chain[i]
      BY <3>1, SubSeqProperties
    <3> QED BY <1>0, <2>1, <3>2
  <2>2. CASE ~(Len(chain) > k)
    BY <1>0, <2>2 DEF Detach
  <2> QED BY <2>1, <2>2
<1>2. ASSUME NEW n \in Ids, subTx'[n] # NoTx
      PROVE  n <= Len(chain') /\ subTx'[n].blk = chain'[n] /\ subTx'[n] = subTx[n]
  <2>1. subTx'[n] = subTx[n] /\ ~(k < n /\ n <= Len(chain))
    BY <1>2 DEF Detach
  <2>2. n <= Len(chain) /\ subTx[n].blk = chain[n]
    BY <1>2, <2>1 DEF SubTxInv
  <2>3. n \in 1..Len(chain')
    BY <1>0, <1>1, <2>1, <2>2 DEF Ids
  <2> QED BY <1>1, <2>1, <2>2, <2>3
<1> QED BY <1>1, <1>2
\* A block that is appended changes nothing below it.
LEMMA AppendedChain ==
    ASSUME IInv, NEW b \in Blocks, chain' = Append(chain, b)
    PROVE  /\ Len(chain') = Len(chain) + 1 /\ chain'[Len(chain) + 1] = b
           /\ \A n \in 1..Len(chain) : n \in 1..Len(chain') /\ chain'[n] = chain[n]
<1>1. chain \in Seq(Blocks) /\ Len(chain) \in Nat
  BY Basics
<1>2. /\ Len(chain') = Len(chain) + 1 /\ chain'[Len(chain) + 1] = b
      /\ \A n \in 1..Len(chain) : chain'[n] = chain[n]
  BY <1>1, AppendProperties
<1> QED BY <1>1, <1>2

\* The steps of the submit task keep its transaction on its block.
LEMMA SubmitTaskSubTx == ASSUME IInv, SubTxInv, SubmitTask PROVE SubTxInv'
<1> USE DEF ckbVars, storeVars, mainVars, taskVars, cellVars, poolVars, boundVars, nodeVars
<1>0. /\ Len(chain) \in Nat /\ lastSub \in Nat /\ lastSub <= Len(chain) /\ Len(chain) <= MaxBlocks
      /\ MaxBlocks \in Nat /\ sub \in SubmitTasks /\ subTx \in [Ids -> Txs \cup {NoTx}]
  BY Basics
<1>1. ASSUME NEW s \in SubmitSteps, sub' = [sub EXCEPT !.st = s], UNCHANGED <<chain, subTx, late, pc>>
      PROVE  SubTxInv'
  <2>1. sub'.tx = sub.tx /\ sub'.n = sub.n
    BY <1>0, <1>1, StepType
  <2> QED BY <1>1, <2>1 DEF SubTxInv, Running
<1>2. CASE SubmitSnap
  <2>1. sub'.n = lastSub + 1 /\ sub'.tx = StoredTx(lastSub + 1) /\ lastSub + 1 \in 1..Len(chain)
    BY <1>0, <1>2 DEF SubmitSnap
  <2>2. sub'.tx # NoTx => sub'.tx.blk = chain[lastSub + 1]
    BY <2>1 DEF StoredTx, SubTxInv
  <2> QED BY <1>2, <2>1, <2>2 DEF SubmitSnap, SubTxInv, Running
<1>3. CASE SubmitCompose
  <2>1. sub'.n = sub.n /\ sub'.tx.blk = chain[sub.n] /\ UNCHANGED <<chain, subTx, late, pc>>
    BY <1>0, <1>3 DEF SubmitCompose, SubmitTasks
  <2>2. sub.n \in 1..Len(chain)
    BY <1>0, <1>3 DEF SubmitCompose, IInv, TasksTargetNext
  <2> QED BY <2>1, <2>2 DEF SubTxInv, Running
<1>4. CASE SubmitSave
  <2>1. sub'.tx = sub.tx /\ sub'.n = sub.n /\ sub.st = "save" /\ Running /\ UNCHANGED <<chain, pc, late>>
    BY <1>0, <1>4, StepType DEF SubmitSave, SubmitStep, SubmitSteps
  <2>2. sub.n \in 1..Len(chain) /\ sub.tx.blk = chain[sub.n]
    BY <2>1 DEF SubTxInv, IInv, TasksInv, Applied
  <2>3. \A n \in Ids : subTx'[n] = IF n = sub.n THEN sub.tx ELSE subTx[n]
    BY <1>0, <1>4 DEF SubmitSave
  <2> QED BY <1>0, <2>1, <2>2, <2>3 DEF SubTxInv, Running
<1>5. CASE SubmitOversize \/ SubmitApply \/ SubmitSend \/ SubmitSendLost
  BY <1>1, <1>5 DEF SubmitOversize, SubmitApply, SubmitSend, SubmitSendLost, SubmitStep, SubmitSteps
<1>6. CASE SubmitCheck
  BY <1>1, <1>6 DEF SubmitCheck, SubmitStep, SubmitSteps
<1>7. CASE SubmitSendFails
  BY <1>1, <1>7 DEF SubmitSendFails, SubmitStep, SubmitSteps
<1> QED BY <1>2, <1>3, <1>4, <1>5, <1>6, <1>7 DEF SubmitTask

\* Every step keeps submissions and blocks together.
LEMMA SubTxStep == ASSUME PromptAbort, IInv, SubTxInv, [Next]_vars PROVE SubTxInv'
<1> USE DEF ckbVars, storeVars, mainVars, taskVars, cellVars, poolVars, boundVars, nodeVars
<1>0. /\ Len(chain) \in Nat /\ Len(chain) <= MaxBlocks /\ MaxBlocks \in Nat
      /\ subTx \in [Ids -> Txs \cup {NoTx}] /\ todo \in Seq(Txs)
  BY Basics
<1>1. ASSUME UNCHANGED <<chain, subTx>>, late' = <<>>,
             sub'.tx = NoTx \/ (sub' = sub /\ (Running' => Running))
      PROVE  SubTxInv'
  BY <1>1 DEF SubTxInv, Running
<1>2. CASE SubmitTask
  BY <1>2, SubmitTaskSubTx
<1>3. CASE ConfirmTask
  BY <1>1, <1>3 DEF ConfirmTask, ConfirmSnap, ConfirmPoll, ConfirmResend, ConfirmResendFails, SubTxInv, Running
<1>4. CASE TaskRpcFails
  BY <1>1, <1>4, IdleNoTx DEF TaskRpcFails, SubTxInv, Running
<1>5. ASSUME NEW k \in Nat, Detach(k), ~Running, UNCHANGED <<sub, late>>
      PROVE  SubTxInv'
  <2>1. \A n \in Ids : subTx'[n] # NoTx => n <= Len(chain') /\ subTx'[n].blk = chain'[n]
    BY <1>5, DetachSubTx
  <2>2. sub'.tx = NoTx
    BY <1>5, IdleNoTx DEF IInv, TasksInv
  <2> QED BY <1>5, <2>1, <2>2 DEF SubTxInv
<1>6. ASSUME AbortTasks PROVE late' = <<>> /\ sub'.tx = NoTx
  BY <1>6, IdleNoTx DEF AbortTasks, PromptAbort
<1>7. CASE MainLoop
  <2>1. CASE ProduceLocalBlock
    <3>1. PICK b : b \in Blocks /\ chain' = Append(chain, b)
      <4>1. memTip \in 0..MaxBlocks /\ memDeps \subseteq Deposits /\ nextId \in Nat \ {0} /\ nextId <= MaxBlocks
            /\ Len(chain) < MaxBlocks
        BY <2>1 DEF ProduceLocalBlock, IInv, TypeOK, CellTypeOK
      <4>2. [id |-> nextId, num |-> Len(chain) + 1, par |-> memTip, deps |-> memDeps] \in Blocks
        BY <1>0, <4>1 DEF Blocks, Ids
      <4> QED BY <2>1, <4>2 DEF ProduceLocalBlock, ProcessBlock
    <3>2. /\ Len(chain') = Len(chain) + 1
          /\ \A n \in 1..Len(chain) : n \in 1..Len(chain') /\ chain'[n] = chain[n]
      BY <3>1, AppendedChain
    <3>3. Running /\ UNCHANGED <<subTx, sub, late>>
      BY <2>1 DEF ProduceLocalBlock, Running
    <3> QED BY <1>0, <3>2, <3>3 DEF SubTxInv, Ids
  <2>2. CASE SpawnSubmit \/ BlockSubmitted
    BY <1>1, <2>2, IdleNoTx DEF SpawnSubmit, BlockSubmitted, SubTxInv
  <2>3. CASE SpawnConfirm \/ BlockConfirmed \/ FinishLocalBlock
    BY <1>1, <2>3 DEF SpawnConfirm, BlockConfirmed, FinishLocalBlock, SubTxInv, Running
  <2>4. CASE TaskShouldRevert \/ TaskShouldResync \/ SignalRevertLocal \/ SignalRevertSubmitted
    BY <1>1, <1>6, <2>4 DEF TaskShouldRevert, TaskShouldResync, SignalRevertLocal, SignalRevertSubmitted, RaiseRevert
  <2> QED BY <1>7, <2>1, <2>2, <2>3, <2>4 DEF MainLoop
<1>8. CASE Resynchronise
  <2>1. CASE Revert
    <3>1. target - 1 \in Nat
      BY <2>1 DEF Revert, IInv, SyncInv, TypeOK, MainTypeOK
    <3> QED BY <1>5, <2>1, <3>1 DEF Revert, Running
  <2>2. CASE SyncFork
    <3>1. PICK m \in 0..lastConf, k \in 0..MaxBlocks : Detach(m + k)
      BY <2>2 DEF SyncFork
    <3>2. m + k \in Nat
      BY <1>0, Basics
    <3> QED BY <1>5, <2>2, <3>1, <3>2 DEF SyncFork, Running
  <2>3. CASE SyncUpdate
    <3>0. todo # <<>> /\ pc = "update" /\ Len(chain) < MaxBlocks /\ UNCHANGED <<sub, late>>
      BY <2>3 DEF SyncUpdate
    <3>1. sub'.tx = NoTx
      BY <3>0, IdleNoTx DEF IInv, TasksInv, Running
    <3>2. CASE AttachFromL1(Head(todo))
      <4>1. Head(todo) \in Txs
        BY <1>0, <3>0, HeadTailProperties
      <4>2. Head(todo).blk \in Blocks
        BY <4>1 DEF Txs
      <4>3. /\ Len(chain') = Len(chain) + 1 /\ chain'[Len(chain) + 1] = Head(todo).blk
            /\ \A n \in 1..Len(chain) : n \in 1..Len(chain') /\ chain'[n] = chain[n]
        BY <3>2, <4>2, AppendedChain DEF AttachFromL1, ProcessBlock
      <4>4. \A n \in Ids : subTx'[n] = IF n = Len(chain) + 1 THEN Head(todo) ELSE subTx[n]
        BY <1>0, <3>2 DEF AttachFromL1
      <4> QED BY <1>0, <3>0, <3>1, <4>3, <4>4 DEF SubTxInv, Ids
    <3>3. CASE UNCHANGED <<chain, subTx>>
      BY <1>1, <3>0, <3>1, <3>3 DEF SubTxInv
    <3> QED BY <2>3, <3>2, <3>3 DEF SyncUpdate
  <2>4. CASE LateSave
    BY <2>4 DEF LateSave, SubTxInv
  <2>5. CASE SyncKnown \/ SyncPage \/ SyncFails
    BY <1>1, <2>5 DEF SyncKnown, SyncPage, SyncFails, SubTxInv, Running
  <2>6. CASE Reset
    BY <1>1, <2>6, IdleNoTx DEF Reset, SubTxInv, IInv, TasksInv, Running
  <2> QED BY <1>8, <2>1, <2>2, <2>3, <2>4, <2>5, <2>6 DEF Resynchronise
<1>9. CASE Process
  BY <1>1, <1>9, IdleNoTx DEF Process, Kill, Stop, Reboot, Boot
<1>10. CASE Layer1 \/ UNCHANGED vars
  BY <1>1, <1>10 DEF Layer1, MinerCommits, PoolDrops, ChainReorgs, OwnerCancels, ForeignSubmits, vars, SubTxInv, Running
<1> QED BY <1>2, <1>3, <1>4, <1>7, <1>8, <1>9, <1>10 DEF Next

LEMMA SubTxInit == Init => SubTxInv
BY IdleNoTx DEF Init, SubTxInv

\* No revert, error or restart leaves a stored or composed submission that does
\* not carry the block attached at its number, whatever happens on layer 1.
THEOREM SubmissionsMatch == ASSUME PromptAbort PROVE Spec => []SubTxMatches
<1>1. Init => IInv /\ SubTxInv
  BY InitIInv, SubTxInit
<1>2. SubTxInv => SubTxMatches
  BY DEF SubTxInv, SubTxMatches
<1>3. IInv /\ SubTxInv /\ [Next]_vars => SubTxInv'
  BY SubTxStep
<1> QED BY <1>1, <1>2, <1>3, Inductive, PTL DEF Spec

-----------------------------------------------------------------------------
(* Blocks on layer 1.                                                      *)

KnownBlocks == {chain[n] : n \in 1..Len(chain)} \cup {l1[n].blk : n \in 1..Len(l1)}
                   \cup {pool[n].blk : n \in 1..Len(pool)}

\* The local chain, the layer-1 chain and the pool that continues it are linked
\* and numbered.
LinkedChain == \A n \in 1..Len(chain) :
                  chain[n].num = n /\ chain[n].par = (IF n = 1 THEN 0 ELSE chain[n - 1].id)
LinkedL1    == \A n \in 1..Len(l1) :
                  l1[n].blk.num = n /\ l1[n].blk.par = (IF n = 1 THEN 0 ELSE l1[n - 1].blk.id)
LinkedPool  == \A n \in 1..Len(pool) :
                  /\ pool[n].blk.num = Len(l1) + n
                  /\ pool[n].blk.par = (IF n = 1 THEN L1Tip ELSE pool[n - 1].blk.id)

\* An identity is given to one block.
UniqueIds ==
    /\ \A b \in KnownBlocks : b.id < nextId
    /\ \A b, c \in KnownBlocks : b.id = c.id => b = c

LinkInv == LinkedChain /\ LinkedL1 /\ LinkedPool /\ UniqueIds

\* Known blocks are blocks.
LEMMA KnownTypes == ASSUME IInv PROVE KnownBlocks \subseteq Blocks /\ nextId \in Nat
<1>1. /\ \A n \in 1..Len(chain) : chain[n] \in Blocks
      /\ \A n \in 1..Len(l1) : l1[n] \in Txs
      /\ \A n \in 1..Len(pool) : pool[n] \in Txs
  BY Basics, ElementOfSeq
<1> QED BY <1>1 DEF KnownBlocks, Txs, IInv, TypeOK

\* Fewer known blocks, or one more with a new identity.
LEMMA UniqueStep ==
    ASSUME IInv, UniqueIds, NEW new, KnownBlocks' \subseteq KnownBlocks \cup new,
           \/ new = {} /\ nextId' = nextId
           \/ nextId' = nextId + 1 /\ \A b \in new : b.id = nextId /\ new = {b}
    PROVE  UniqueIds'
<1>0. nextId \in Nat /\ \A b \in KnownBlocks : b.id \in Nat
  BY KnownTypes DEF Blocks, Ids
<1>1. CASE new = {} /\ nextId' = nextId
  BY <1>0, <1>1 DEF UniqueIds
<1>2. CASE nextId' = nextId + 1 /\ \A b \in new : b.id = nextId /\ new = {b}
  <2>1. ASSUME NEW b \in KnownBlocks' PROVE b.id < nextId'
    BY <1>0, <1>2, <2>1 DEF UniqueIds
  <2>2. ASSUME NEW b \in KnownBlocks', NEW c \in KnownBlocks', b.id = c.id PROVE b = c
    BY <1>0, <1>2, <2>2 DEF UniqueIds
  <2> QED BY <2>1, <2>2 DEF UniqueIds
<1> QED BY <1>1, <1>2

\* The tip of layer 1 is the identity of its last block.
LEMMA L1TipIs ==
    ASSUME IInv
    PROVE  L1Tip = IF Len(l1) = 0 THEN 0 ELSE l1[Len(l1)].blk.id
<1>1. l1 \in Seq(Txs) /\ (l1 = <<>> <=> Len(l1) = 0)
  BY Basics, EmptySeq
<1> QED BY <1>1 DEF L1Tip, Last

LEMMA TipIdIs ==
    ASSUME IInv
    PROVE  TipId = IF Len(chain) = 0 THEN 0 ELSE chain[Len(chain)].id
<1>1. chain \in Seq(Blocks) /\ (chain = <<>> <=> Len(chain) = 0)
  BY Basics, EmptySeq
<1> QED BY <1>1 DEF TipId, Last

LEMMA PoolTipIs ==
    ASSUME IInv
    PROVE  PoolTip = IF Len(pool) = 0 THEN L1Tip ELSE pool[Len(pool)].blk.id
<1>1. pool \in Seq(Txs) /\ (pool = <<>> <=> Len(pool) = 0)
  BY Basics, EmptySeq
<1> QED BY <1>1 DEF PoolTip, Last

\* A step that only shortens the chain and the pool.
LEMMA ShorterLinks ==
    ASSUME IInv, LinkInv, UNCHANGED <<l1, nextId>>,
           \A n \in 1..Len(chain') : n \in 1..Len(chain) /\ chain'[n] = chain[n],
           \A n \in 1..Len(pool') : n \in 1..Len(pool) /\ pool'[n] = pool[n],
           Len(chain') \in Nat, Len(pool') \in Nat
    PROVE  LinkInv'
<1>0. Len(chain) \in Nat /\ Len(pool) \in Nat
  BY Basics
<1>1. LinkedChain'
  <2> SUFFICES ASSUME NEW n \in 1..Len(chain')
               PROVE  chain'[n].num = n /\ chain'[n].par = (IF n = 1 THEN 0 ELSE chain'[n - 1].id)
    BY DEF LinkedChain
  <2>1. n # 1 => n - 1 \in 1..Len(chain')
    OBVIOUS
  <2>2. chain[n].num = n /\ chain[n].par = (IF n = 1 THEN 0 ELSE chain[n - 1].id)
    BY DEF LinkInv, LinkedChain
  <2> QED BY <2>1, <2>2
<1>2. LinkedPool'
  <2> SUFFICES ASSUME NEW n \in 1..Len(pool')
               PROVE  /\ pool'[n].blk.num = Len(l1) + n
                      /\ pool'[n].blk.par = (IF n = 1 THEN L1Tip ELSE pool'[n - 1].blk.id)
    BY DEF LinkedPool, L1Tip
  <2>1. n # 1 => n - 1 \in 1..Len(pool')
    OBVIOUS
  <2>2. pool[n].blk.num = Len(l1) + n /\ pool[n].blk.par = (IF n = 1 THEN L1Tip ELSE pool[n - 1].blk.id)
    BY DEF LinkInv, LinkedPool
  <2> QED BY <2>1, <2>2
<1>3. LinkedL1'
  BY DEF LinkInv, LinkedL1
<1>4. KnownBlocks' \subseteq KnownBlocks \cup {}
  BY DEF KnownBlocks
<1>5. UniqueIds'
  BY <1>4, UniqueStep DEF LinkInv
<1> QED BY <1>1, <1>2, <1>3, <1>5 DEF LinkInv

\* A block that extends the local tip, new or known.
LEMMA LongerChain ==
    ASSUME IInv, LinkInv, UNCHANGED <<l1, pool>>, NEW b \in Blocks, chain' = Append(chain, b),
           b.num = Len(chain) + 1, b.par = TipId,
           \/ nextId' = nextId /\ b \in KnownBlocks
           \/ nextId' = nextId + 1 /\ b.id = nextId
    PROVE  LinkInv'
<1>0. Len(chain) \in Nat
  BY Basics
<1>1. /\ Len(chain') = Len(chain) + 1 /\ chain'[Len(chain) + 1] = b
      /\ \A n \in 1..Len(chain) : n \in 1..Len(chain') /\ chain'[n] = chain[n]
  BY AppendedChain
<1>2. LinkedChain'
  <2> SUFFICES ASSUME NEW n \in 1..Len(chain')
               PROVE  chain'[n].num = n /\ chain'[n].par = (IF n = 1 THEN 0 ELSE chain'[n - 1].id)
    BY DEF LinkedChain
  <2>1. CASE n \in 1..Len(chain)
    <3>1. n # 1 => n - 1 \in 1..Len(chain)
      BY <1>0, <2>1
    <3>2. chain[n].num = n /\ chain[n].par = (IF n = 1 THEN 0 ELSE chain[n - 1].id)
      BY <2>1 DEF LinkInv, LinkedChain
    <3> QED BY <1>1, <2>1, <3>1, <3>2
  <2>2. CASE n = Len(chain) + 1
    <3>1. n # 1 => n - 1 \in 1..Len(chain) /\ n - 1 = Len(chain)
      BY <1>0, <2>2
    <3> QED BY <1>0, <1>1, <2>2, <3>1, TipIdIs
  <2> QED BY <1>0, <1>1, <2>1, <2>2
<1>3. LinkedL1' /\ LinkedPool'
  BY DEF LinkInv, LinkedL1, LinkedPool, L1Tip
<1>4. KnownBlocks' \subseteq KnownBlocks \cup {b}
  <2>1. \A n \in 1..Len(chain') : chain'[n] = b \/ (n \in 1..Len(chain) /\ chain'[n] = chain[n])
    BY <1>0, <1>1
  <2> QED BY <2>1 DEF KnownBlocks
<1>5. UniqueIds'
  <2>1. CASE nextId' = nextId /\ b \in KnownBlocks
    <3>1. KnownBlocks' \subseteq KnownBlocks \cup {}
      BY <1>4, <2>1
    <3> QED BY <2>1, <3>1, UniqueStep DEF LinkInv
  <2>2. CASE nextId' = nextId + 1 /\ b.id = nextId
    <3>1. \A c \in {b} : c.id = nextId /\ {b} = {c}
      BY <2>2
    <3> QED BY <1>4, <2>2, <3>1, UniqueStep DEF LinkInv
  <2> QED BY <2>1, <2>2
<1> QED BY <1>2, <1>3, <1>5 DEF LinkInv

\* A transaction is sent whose block is attached: it continues the pool.
LEMMA LongerPool ==
    ASSUME IInv, LinkInv, UNCHANGED <<l1, chain, nextId>>, NEW tx \in Txs, NEW k \in 1..Len(chain),
           tx.blk = chain[k], Resolves(tx), ScriptSucceeds(tx), pool' = Append(pool, tx)
    PROVE  LinkInv'
<1>0. Len(pool) \in Nat /\ Len(l1) \in Nat /\ Len(chain) \in Nat /\ pool \in Seq(Txs)
  BY Basics
<1>1. /\ Len(pool') = Len(pool) + 1 /\ pool'[Len(pool) + 1] = tx
      /\ \A n \in 1..Len(pool) : pool'[n] = pool[n]
  BY <1>0, AppendProperties
<1>2. tx.blk.par = PoolTip /\ tx.blk.num = k
      /\ tx.blk.par = (IF k = 1 THEN 0 ELSE chain[k - 1].id)
  BY DEF Resolves, ScriptSucceeds, LinkInv, LinkedChain
<1>3. PICK last : last = Len(l1) + Len(pool)
  OBVIOUS
<1>4. ASSUME last # 0
      PROVE  \E p \in KnownBlocks : PoolTip = p.id /\ p.num = last
  <2>1. CASE Len(pool) # 0
    <3>1. Len(pool) \in 1..Len(pool)
      BY <1>0, <2>1
    <3>2. pool[Len(pool)].blk \in KnownBlocks /\ pool[Len(pool)].blk.num = last
      BY <1>3, <3>1 DEF KnownBlocks, LinkInv, LinkedPool
    <3> QED BY <2>1, <3>2, PoolTipIs
  <2>2. CASE Len(pool) = 0
    <3>1. Len(l1) \in 1..Len(l1) /\ Len(l1) # 0 /\ last = Len(l1)
      BY <1>0, <1>3, <1>4, <2>2
    <3>2. l1[Len(l1)].blk \in KnownBlocks /\ l1[Len(l1)].blk.num = last
      BY <3>1 DEF KnownBlocks, LinkInv, LinkedL1
    <3> QED BY <2>2, <3>1, <3>2, PoolTipIs, L1TipIs
  <2> QED BY <2>1, <2>2
<1>5. last = 0 => PoolTip = 0
  BY <1>0, <1>3, PoolTipIs, L1TipIs
<1>6. k # 1 => k - 1 \in 1..Len(chain) /\ chain[k - 1] \in KnownBlocks /\ chain[k - 1].num = k - 1
  BY <1>0 DEF KnownBlocks, LinkInv, LinkedChain
<1>7. k = last + 1
  <2>0. \A b \in KnownBlocks : b.id \in Nat \ {0}
    BY KnownTypes DEF Blocks, Ids
  <2>1. CASE last = 0
    BY <1>2, <1>5, <1>6, <2>0, <2>1
  <2>2. CASE last # 0
    <3>1. PICK p \in KnownBlocks : PoolTip = p.id /\ p.num = last
      BY <1>4, <2>2
    <3>2. k # 1
      BY <1>2, <2>0, <3>1
    <3>3. chain[k - 1] = p
      BY <1>2, <1>6, <3>1, <3>2 DEF LinkInv, UniqueIds
    <3> QED BY <1>0, <1>3, <1>6, <3>1, <3>2, <3>3
  <2> QED BY <2>1, <2>2
<1>8. LinkedPool'
  <2> SUFFICES ASSUME NEW n \in 1..Len(pool')
               PROVE  /\ pool'[n].blk.num = Len(l1) + n
                      /\ pool'[n].blk.par = (IF n = 1 THEN L1Tip ELSE pool'[n - 1].blk.id)
    BY DEF LinkedPool, L1Tip
  <2>1. CASE n \in 1..Len(pool)
    <3>1. n # 1 => n - 1 \in 1..Len(pool)
      BY <1>0, <2>1
    <3>2. /\ pool[n].blk.num = Len(l1) + n
          /\ pool[n].blk.par = (IF n = 1 THEN L1Tip ELSE pool[n - 1].blk.id)
      BY <2>1 DEF LinkInv, LinkedPool
    <3> QED BY <1>1, <2>1, <3>1, <3>2
  <2>2. CASE n = Len(pool) + 1
    <3>1. n # 1 => n - 1 = Len(pool) /\ n - 1 \in 1..Len(pool)
      BY <1>0, <2>2
    <3>2. pool'[n].blk.num = Len(l1) + n
      BY <1>0, <1>1, <1>2, <1>3, <1>7, <2>2
    <3>3. pool'[n].blk.par = (IF n = 1 THEN L1Tip ELSE pool'[n - 1].blk.id)
      BY <1>0, <1>1, <1>2, <2>2, <3>1, PoolTipIs
    <3> QED BY <3>2, <3>3
  <2> QED BY <1>0, <1>1, <2>1, <2>2
<1>9. LinkedChain' /\ LinkedL1'
  BY DEF LinkInv, LinkedChain, LinkedL1
<1>10. KnownBlocks' \subseteq KnownBlocks \cup {}
  <2>1. \A n \in 1..Len(pool') : pool'[n].blk = chain[k] \/ (n \in 1..Len(pool) /\ pool'[n] = pool[n])
    BY <1>0, <1>1
  <2> QED BY <2>1 DEF KnownBlocks
<1>11. UniqueIds'
  BY <1>10, UniqueStep DEF LinkInv
<1> QED BY <1>8, <1>9, <1>11 DEF LinkInv

\* What appending a transaction to layer 1 does.
LEMMA LongerL1 ==
    ASSUME IInv, NEW tx \in Txs, l1' = Append(l1, tx)
    PROVE  /\ Len(l1') = Len(l1) + 1 /\ l1'[Len(l1) + 1] = tx /\ L1Tip' = tx.blk.id
           /\ \A n \in 1..Len(l1) : n \in 1..Len(l1') /\ l1'[n] = l1[n]
           /\ LinkedL1 /\ tx.blk.num = Len(l1) + 1 /\ tx.blk.par = L1Tip => LinkedL1'
<1>0. Len(l1) \in Nat /\ l1 \in Seq(Txs)
  BY Basics
<1>1. /\ Len(l1') = Len(l1) + 1 /\ l1'[Len(l1) + 1] = tx /\ l1' \in Seq(Txs)
      /\ \A n \in 1..Len(l1) : n \in 1..Len(l1') /\ l1'[n] = l1[n]
  BY <1>0, AppendProperties
<1>2. L1Tip' = tx.blk.id
  <2>1. l1' # <<>>
    BY <1>0, <1>1, EmptySeq
  <2> QED BY <1>1, <2>1 DEF L1Tip, Last
<1>3. ASSUME LinkedL1, tx.blk.num = Len(l1) + 1, tx.blk.par = L1Tip PROVE LinkedL1'
  <2> SUFFICES ASSUME NEW n \in 1..Len(l1')
               PROVE  l1'[n].blk.num = n /\ l1'[n].blk.par = (IF n = 1 THEN 0 ELSE l1'[n - 1].blk.id)
    BY DEF LinkedL1
  <2>1. CASE n \in 1..Len(l1)
    <3>1. n # 1 => n - 1 \in 1..Len(l1)
      BY <1>0, <2>1
    <3>2. l1[n].blk.num = n /\ l1[n].blk.par = (IF n = 1 THEN 0 ELSE l1[n - 1].blk.id)
      BY <1>3, <2>1 DEF LinkedL1
    <3> QED BY <1>1, <2>1, <3>1, <3>2
  <2>2. CASE n = Len(l1) + 1
    <3>1. n # 1 => n - 1 \in 1..Len(l1) /\ n - 1 = Len(l1)
      BY <1>0, <2>2
    <3> QED BY <1>0, <1>1, <1>3, <2>2, <3>1, L1TipIs
  <2> QED BY <1>0, <1>1, <2>1, <2>2
<1> QED BY <1>1, <1>2, <1>3

\* A miner commits the head of the pool.
LEMMA CommitLinks ==
    ASSUME IInv, LinkInv, UNCHANGED <<chain, nextId>>, L1Commit
    PROVE  LinkInv'
<1>0. Len(pool) \in Nat /\ Len(l1) \in Nat /\ pool \in Seq(Txs) /\ pool # <<>>
  BY Basics DEF L1Commit
<1>1. /\ l1' = Append(l1, Head(pool)) /\ Head(pool) = pool[1] /\ Head(pool) \in Txs /\ Len(pool) # 0
      /\ Len(pool') = Len(pool) - 1 /\ \A i \in 1..Len(pool) - 1 : pool'[i] = pool[i + 1]
  BY <1>0, HeadTailProperties, EmptySeq DEF L1Commit
<1>2. pool[1].blk.num = Len(l1) + 1 /\ pool[1].blk.par = L1Tip
  BY <1>0, <1>1 DEF LinkInv, LinkedPool
<1>3. /\ Len(l1') = Len(l1) + 1 /\ l1'[Len(l1) + 1] = pool[1] /\ L1Tip' = pool[1].blk.id
      /\ \A n \in 1..Len(l1) : n \in 1..Len(l1') /\ l1'[n] = l1[n]
      /\ LinkedL1'
  BY <1>1, <1>2, LongerL1 DEF LinkInv
<1>4. LinkedPool'
  <2> SUFFICES ASSUME NEW n \in 1..Len(pool')
               PROVE  /\ pool'[n].blk.num = Len(l1') + n
                      /\ pool'[n].blk.par = (IF n = 1 THEN L1Tip' ELSE pool'[n - 1].blk.id)
    BY DEF LinkedPool
  <2>1. /\ n \in 1..Len(pool) - 1 /\ n + 1 \in 1..Len(pool) /\ (n # 1 => n - 1 \in 1..Len(pool) - 1)
        /\ (n + 1) - 1 = n /\ (n - 1) + 1 = n
    BY <1>0, <1>1
  <2>2. /\ pool[n + 1].blk.num = Len(l1) + (n + 1)
        /\ pool[n + 1].blk.par = pool[n].blk.id
    <3>1. PICK m : m = n + 1
      OBVIOUS
    <3>2. m \in 1..Len(pool) /\ m # 1 /\ m - 1 = n
      BY <1>0, <1>1, <2>1, <3>1
    <3>3. pool[m].blk.num = Len(l1) + m /\ pool[m].blk.par = pool[m - 1].blk.id
      BY <3>2 DEF LinkInv, LinkedPool
    <3> QED BY <3>1, <3>2, <3>3
  <2>3. n # 1 => pool'[n - 1] = pool[n]
    BY <1>1, <2>1
  <2> QED BY <1>0, <1>1, <1>3, <2>1, <2>2, <2>3
<1>5. LinkedChain'
  BY DEF LinkInv, LinkedChain
<1>6. KnownBlocks' \subseteq KnownBlocks \cup {}
  <2>1. \A n \in 1..Len(l1') : l1'[n] = pool[1] \/ (n \in 1..Len(l1) /\ l1'[n] = l1[n])
    BY <1>0, <1>3
  <2>2. \A n \in 1..Len(pool') : n + 1 \in 1..Len(pool) /\ pool'[n] = pool[n + 1]
    BY <1>0, <1>1
  <2>3. 1 \in 1..Len(pool)
    BY <1>0, <1>1
  <2> QED BY <2>1, <2>2, <2>3 DEF KnownBlocks
<1>7. UniqueIds'
  BY <1>6, UniqueStep DEF LinkInv
<1> QED BY <1>3, <1>4, <1>5, <1>7 DEF LinkInv

\* Another node submits a block of its own.
LEMMA ForeignLinks ==
    ASSUME IInv, LinkInv, ForeignSubmits
    PROVE  /\ LinkInv' /\ Len(l1') = Len(l1) + 1
           /\ \A n \in 1..Len(l1) : n \in 1..Len(l1') /\ l1'[n] = l1[n]
           /\ l1'[Len(l1) + 1].blk \in Blocks /\ l1'[Len(l1) + 1].blk.par = L1Tip
<1> USE DEF storeVars, nodeVars
<1>0. Len(l1) \in Nat /\ nextId \in Nat \ {0} /\ nextId <= MaxBlocks /\ Len(l1) < MaxBlocks
      /\ L1Tip \in 0..MaxBlocks /\ MaxBlocks \in Nat
  BY Basics, TipTypes DEF ForeignSubmits, IInv, TypeOK
<1>1. PICK ds \in SUBSET Deposits :
         L1Foreign([id |-> nextId, num |-> Len(l1) + 1, par |-> L1Tip, deps |-> ds])
  BY DEF ForeignSubmits
<1>2. PICK b : b = [id |-> nextId, num |-> Len(l1) + 1, par |-> L1Tip, deps |-> ds]
  OBVIOUS
<1>3. b \in Blocks
  BY <1>0, <1>2 DEF Blocks, Ids
<1>4. PICK tx : tx = [blk |-> b, cell |-> b.par]
  OBVIOUS
<1>5. tx \in Txs /\ tx.blk = b
  BY <1>0, <1>2, <1>3, <1>4 DEF Txs
<1>6. l1' = Append(l1, tx) /\ pool' = <<>> /\ nextId' = nextId + 1 /\ chain' = chain
  BY <1>1, <1>2, <1>4 DEF L1Foreign, ForeignSubmits
<1>7. b.num = Len(l1) + 1 /\ b.par = L1Tip /\ b.id = nextId
  BY <1>2
<1>8. /\ Len(l1') = Len(l1) + 1 /\ l1'[Len(l1) + 1] = tx
      /\ \A n \in 1..Len(l1) : n \in 1..Len(l1') /\ l1'[n] = l1[n]
      /\ LinkedL1'
  BY <1>5, <1>6, <1>7, LongerL1 DEF LinkInv
<1>9. LinkedChain' /\ LinkedPool'
  BY <1>6, EmptySeq DEF LinkInv, LinkedChain, LinkedPool
<1>10. KnownBlocks' \subseteq KnownBlocks \cup {b}
  <2>1. \A n \in 1..Len(l1') : l1'[n].blk = b \/ (n \in 1..Len(l1) /\ l1'[n] = l1[n])
    BY <1>0, <1>5, <1>8
  <2>2. Len(pool') = 0
    BY <1>6, EmptySeq
  <2> QED BY <1>6, <2>1, <2>2 DEF KnownBlocks
<1>11. UniqueIds'
  <2>1. \A c \in {b} : c.id = nextId /\ {b} = {c}
    BY <1>7
  <2> QED BY <1>6, <1>10, <2>1, UniqueStep DEF LinkInv
<1> QED BY <1>3, <1>5, <1>7, <1>8, <1>9, <1>11 DEF LinkInv

-----------------------------------------------------------------------------
(* Confirmed blocks are on layer 1.                                        *)

\* While sync_l1 applies unknown blocks the local chain is the beginning of
\* layer 1 and the page is what follows it.
AdoptInv ==
    pc = "update" =>
        /\ \A n \in 1..Len(chain) : n <= Len(l1) /\ l1[n].blk = chain[n]
        /\ \A i \in 1..Len(todo) : Len(chain) + i <= Len(l1) /\ todo[i] = l1[Len(chain) + i]
        /\ todo = <<>> => lastConf = Len(chain)

\* The confirm task is done only with a transaction that is on layer 1.
DoneInv == con.st = "done" => Committed(con.tx)

L1Inv == ConfirmedOnL1 /\ AdoptInv /\ DoneInv

\* A stored submission that is on layer 1 is there at its block's number.
LEMMA CommittedAt ==
    ASSUME IInv, SubTxInv, LinkInv, NEW n \in 1..Len(chain),
           StoredTx(n) # NoTx, Committed(StoredTx(n))
    PROVE  n <= Len(l1) /\ l1[n].blk = chain[n]
<1>0. Len(chain) \in Nat /\ Len(l1) \in Nat /\ Len(chain) <= MaxBlocks /\ MaxBlocks \in Nat
      /\ l1 \in Seq(Txs)
  BY Basics
<1>1. n \in Ids /\ StoredTx(n) = subTx[n]
  BY <1>0 DEF Ids, StoredTx
<1>2. subTx[n].blk = chain[n] /\ chain[n].num = n
  BY <1>1 DEF SubTxInv, LinkInv, LinkedChain
<1>3. PICK i \in 1..Len(l1) : l1[i] = subTx[n]
  BY <1>0, <1>1, LenProperties DEF Committed
<1>4. l1[i].blk.num = i
  BY DEF LinkInv, LinkedL1
<1> QED BY <1>0, <1>2, <1>3, <1>4

\* What sync_l1 finds: the blocks up to m + k are those of layer 1.
LEMMA KnownPrefix ==
    ASSUME IInv, SubTxInv, LinkInv, ConfirmedOnL1, NEW m \in 0..lastConf, NEW k \in Nat,
           LastOnL1(m), m + k <= Len(l1), KnownAfter(m, k)
    PROVE  /\ m + k <= Len(chain)
           /\ \A n \in 1..m + k : n <= Len(l1) /\ l1[n].blk = chain[n]
<1>0. Len(chain) \in Nat /\ Len(l1) \in Nat /\ lastConf \in Nat /\ lastConf <= Len(chain) /\ l1 \in Seq(Txs)
  BY Basics
<1>1. ASSUME NEW n \in m + 1..m + k PROVE n <= Len(chain) /\ l1[n].blk = chain[n]
  <2>1. PICK i : i = n - m
    OBVIOUS
  <2>2. i \in 1..k /\ m + i = n /\ n \in 1..Len(l1)
    BY <1>0, <2>1
  <2>3. l1[n] = StoredTx(n) /\ l1[n] \in Txs
    BY <1>0, <2>2, ElementOfSeq DEF KnownAfter
  <2>4. n \in Ids /\ StoredTx(n) = subTx[n] /\ subTx[n] # NoTx
    BY <2>3, NoTxAssumption DEF StoredTx
  <2> QED BY <2>3, <2>4 DEF SubTxInv
<1>2. m + k <= Len(chain)
  <2>1. CASE k = 0
    BY <1>0, <2>1
  <2>2. CASE k # 0
    <3>1. m + k \in m + 1..m + k
      BY <1>0, <2>2
    <3> QED BY <1>1, <3>1
  <2> QED BY <2>1, <2>2
<1>3. \A n \in 1..m : n <= Len(l1) /\ l1[n].blk = chain[n]
  BY <1>0 DEF ConfirmedOnL1
<1> QED BY <1>0, <1>1, <1>2, <1>3

\* What detaching leaves of the chain.
LEMMA DetachedChain ==
    ASSUME IInv, NEW k \in Nat, Detach(k)
    PROVE  /\ Len(chain') = (IF Len(chain) > k THEN k ELSE Len(chain))
           /\ \A n \in 1..Len(chain') : n \in 1..Len(chain) /\ chain'[n] = chain[n]
<1>0. chain \in Seq(Blocks) /\ Len(chain) \in Nat
  BY Basics
<1>1. CASE Len(chain) > k
  <2>1. chain' = SubSeq(chain, 1, k) /\ \A i \in 1..k : chain[i] \in Blocks
    BY <1>0, <1>1 DEF Detach
  <2>2. Len(chain') = k /\ \A i \in 1..k : chain'[i] = chain[i]
    BY <2>1, SubSeqProperties
  <2> QED BY <1>0, <1>1, <2>2
<1>2. CASE ~(Len(chain) > k)
  BY <1>0, <1>2 DEF Detach
<1> QED BY <1>1, <1>2

\* The block the next update attaches is the next one of layer 1.
LEMMA NextPageBlock ==
    ASSUME IInv, L1Inv, pc = "update", todo # <<>>
    PROVE  /\ Len(todo) \in Nat /\ Len(todo) # 0 /\ Len(chain) + 1 \in 1..Len(l1)
           /\ Head(todo) = todo[1] /\ Head(todo) = l1[Len(chain) + 1] /\ Head(todo).blk \in Blocks
           /\ Len(Tail(todo)) = Len(todo) - 1
           /\ \A i \in 1..Len(todo) - 1 : Tail(todo)[i] = todo[i + 1]
<1>0. Len(chain) \in Nat /\ Len(l1) \in Nat /\ l1 \in Seq(Txs) /\ todo \in Seq(Txs)
  BY Basics
<1>1. /\ Len(todo) \in Nat /\ Len(todo) # 0 /\ Head(todo) = todo[1] /\ Head(todo) \in Txs
      /\ Len(Tail(todo)) = Len(todo) - 1
      /\ \A i \in 1..Len(todo) - 1 : Tail(todo)[i] = todo[i + 1]
  BY <1>0, HeadTailProperties, EmptySeq, LenProperties
<1>2. 1 \in 1..Len(todo)
  BY <1>1
<1>3. Len(chain) + 1 <= Len(l1) /\ todo[1] = l1[Len(chain) + 1]
  BY <1>2 DEF L1Inv, AdoptInv
<1> QED BY <1>0, <1>1, <1>3 DEF Txs

\* A transaction that is sent is in the pool already, or continues it.
LEMMA SentLinks ==
    ASSUME IInv, LinkInv, UNCHANGED <<l1, chain, nextId>>, NEW tx \in Txs, NEW k \in 1..Len(chain),
           tx.blk = chain[k], SendOk(tx), Enqueue(tx)
    PROVE  LinkInv'
<1>1. CASE InPool(tx) \/ Committed(tx)
  <2>1. pool' = pool
    BY <1>1 DEF Enqueue
  <2>2. UNCHANGED <<l1, chain, nextId, pool>>
    BY <2>1
  <2> QED BY <2>2 DEF LinkInv, LinkedChain, LinkedL1, LinkedPool, UniqueIds, KnownBlocks, L1Tip
<1>2. CASE ~(InPool(tx) \/ Committed(tx))
  <2>1. pool' = Append(pool, tx) /\ Resolves(tx) /\ ScriptSucceeds(tx)
    BY <1>2 DEF Enqueue, SendOk
  <2> QED BY <2>1, LongerPool
<1> QED BY <1>1, <1>2

\* Links depend on the three chains and the identities given.
LEMMA SameLinks == ASSUME LinkInv, UNCHANGED <<chain, l1, pool, nextId>> PROVE LinkInv'
BY DEF LinkInv, LinkedChain, LinkedL1, LinkedPool, UniqueIds, KnownBlocks, L1Tip

\* Every step but a reorganisation keeps the three chains linked.
LEMMA LinkStep ==
    ASSUME QuietL1, IInv, SubTxInv, LinkInv, L1Inv, [Next]_vars
    PROVE  LinkInv'
<1> USE DEF ckbVars, storeVars, mainVars, taskVars, cellVars, poolVars, boundVars, nodeVars
<1>0. /\ Len(chain) \in Nat /\ Len(l1) \in Nat /\ Len(pool) \in Nat /\ sub \in SubmitTasks
      /\ con \in ConfirmTasks /\ Len(chain) <= MaxBlocks /\ MaxBlocks \in Nat /\ pool \in Seq(Txs)
      /\ lastConf \in Nat /\ lastSub \in Nat /\ lastConf <= lastSub /\ lastSub <= Len(chain)
  BY Basics
<1>1. ASSUME UNCHANGED <<chain, l1, pool, nextId>> PROVE LinkInv'
  BY <1>1, SameLinks
<1>2. CASE SubmitTask
  <2>1. CASE SubmitSend
    <3>1. sub.tx # NoTx /\ Running /\ sub.tx \in Txs
      BY <1>0, <2>1 DEF SubmitSend, SubmitStep, IInv, TasksInv, Applied, SubmitTasks
    <3>2. sub.n \in 1..Len(chain) /\ sub.tx.blk = chain[sub.n]
      BY <3>1 DEF SubTxInv
    <3>3. SendOk(sub.tx) /\ Enqueue(sub.tx) /\ UNCHANGED <<l1, chain, nextId>>
      BY <2>1 DEF SubmitSend
    <3> QED BY <3>1, <3>2, <3>3, SentLinks
  <2>2. CASE SubmitSnap \/ SubmitCompose \/ SubmitOversize \/ SubmitSave \/ SubmitApply
    BY <1>1, <2>2 DEF SubmitSnap, SubmitCompose, SubmitOversize, SubmitSave, SubmitApply
  <2>3. CASE SubmitCheck \/ SubmitSendFails \/ SubmitSendLost
    BY <1>1, <2>3 DEF SubmitCheck, SubmitSendFails, SubmitSendLost
  <2> QED BY <1>2, <2>1, <2>2, <2>3 DEF SubmitTask
<1>3. CASE ConfirmTask
  <2>1. CASE ConfirmResend
    <3>1. con.tx # NoTx /\ con.tx \in Txs /\ con.n = lastConf + 1 /\ con.tx = StoredTx(con.n)
          /\ lastConf < lastSub
      BY <1>0, <2>1 DEF ConfirmResend, IInv, TasksInv, TasksTargetNext, ConfirmTasks
    <3>2. con.n \in 1..Len(chain) /\ con.tx.blk = chain[con.n]
      BY <1>0, <3>1 DEF SubTxInv, StoredTx
    <3>3. SendOk(con.tx) /\ Enqueue(con.tx) /\ UNCHANGED <<l1, chain, nextId>>
      BY <2>1 DEF ConfirmResend
    <3> QED BY <3>1, <3>2, <3>3, SentLinks
  <2>2. CASE ConfirmSnap \/ ConfirmPoll \/ ConfirmResendFails
    BY <1>1, <2>2 DEF ConfirmSnap, ConfirmPoll, ConfirmResendFails
  <2> QED BY <1>3, <2>1, <2>2 DEF ConfirmTask
<1>4. CASE TaskRpcFails
  BY <1>1, <1>4 DEF TaskRpcFails
<1>5. CASE MainLoop
  <2>1. CASE ProduceLocalBlock
    <3>1. PICK b : b = [id |-> nextId, num |-> Len(chain) + 1, par |-> memTip, deps |-> memDeps]
      OBVIOUS
    <3>2. memTip \in 0..MaxBlocks /\ memDeps \subseteq Deposits /\ nextId \in Nat \ {0} /\ nextId <= MaxBlocks
          /\ Len(chain) < MaxBlocks
      BY <2>1 DEF ProduceLocalBlock, IInv, TypeOK, CellTypeOK
    <3>3. b \in Blocks /\ b.num = Len(chain) + 1 /\ b.id = nextId
      BY <1>0, <3>1, <3>2 DEF Blocks, Ids
    <3>4. b.par = TipId /\ chain' = Append(chain, b) /\ nextId' = nextId + 1 /\ UNCHANGED <<l1, pool>>
      BY <2>1, <3>1 DEF ProduceLocalBlock, ProcessBlock
    <3> QED BY <3>3, <3>4, LongerChain
  <2>2. CASE SpawnSubmit \/ SpawnConfirm \/ FinishLocalBlock \/ BlockSubmitted \/ BlockConfirmed
    BY <1>1, <2>2 DEF SpawnSubmit, SpawnConfirm, FinishLocalBlock, BlockSubmitted, BlockConfirmed
  <2>3. CASE TaskShouldRevert \/ TaskShouldResync \/ SignalRevertLocal \/ SignalRevertSubmitted
    BY <1>1, <2>3 DEF TaskShouldRevert, TaskShouldResync, SignalRevertLocal, SignalRevertSubmitted, RaiseRevert
  <2> QED BY <1>5, <2>1, <2>2, <2>3 DEF MainLoop
<1>6. ASSUME NEW k \in Nat, Detach(k), UNCHANGED <<l1, pool, nextId>> PROVE LinkInv'
  <2>1. /\ \A n \in 1..Len(chain') : n \in 1..Len(chain) /\ chain'[n] = chain[n]
        /\ Len(chain') \in Nat
    BY <1>0, <1>6, DetachedChain
  <2> QED BY <1>0, <1>6, <2>1, ShorterLinks
<1>7. CASE Resynchronise
  <2>1. CASE Revert
    <3>1. target - 1 \in Nat
      BY <2>1 DEF Revert, IInv, SyncInv, TypeOK, MainTypeOK
    <3> QED BY <1>6, <2>1, <3>1 DEF Revert
  <2>2. CASE SyncFork
    <3>1. PICK m \in 0..lastConf, k \in 0..MaxBlocks : Detach(m + k)
      BY <2>2 DEF SyncFork
    <3>2. m + k \in Nat
      BY <1>0
    <3> QED BY <1>6, <2>2, <3>1, <3>2 DEF SyncFork
  <2>3. CASE SyncUpdate
    <3>1. todo # <<>> /\ pc = "update" /\ UNCHANGED <<l1, pool, nextId>>
      BY <2>3 DEF SyncUpdate
    <3>2. CASE AttachFromL1(Head(todo))
      <4>1. PICK b : b = Head(todo).blk
        OBVIOUS
      <4>2. Len(chain) + 1 \in 1..Len(l1) /\ b = l1[Len(chain) + 1].blk /\ b \in Blocks
        BY <3>1, <4>1, NextPageBlock
      <4>3. b \in KnownBlocks /\ b.num = Len(chain) + 1
        BY <4>2 DEF KnownBlocks, LinkInv, LinkedL1
      <4>4. b.par = TipId /\ chain' = Append(chain, b)
        BY <3>2, <4>1 DEF AttachFromL1, ProcessBlock
      <4> QED BY <3>1, <4>2, <4>3, <4>4, LongerChain
    <3>3. CASE UNCHANGED chain
      BY <1>1, <3>1, <3>3
    <3> QED BY <2>3, <3>2, <3>3 DEF SyncUpdate
  <2>4. CASE LateSave \/ SyncKnown \/ SyncPage \/ SyncFails \/ Reset
    BY <1>1, <2>4 DEF LateSave, SyncKnown, SyncPage, SyncFails, Reset
  <2> QED BY <1>7, <2>1, <2>2, <2>3, <2>4 DEF Resynchronise
<1>8. CASE Process
  BY <1>1, <1>8 DEF Process, Kill, Stop, Reboot, Boot
<1>9. CASE Layer1
  <2>1. CASE MinerCommits
    BY <2>1, CommitLinks DEF MinerCommits
  <2>2. CASE ForeignSubmits
    BY <2>2, ForeignLinks
  <2>3. ASSUME NEW n \in 0..Len(pool), pool' = SubSeq(pool, 1, n), UNCHANGED <<l1, chain, nextId>>
        PROVE  LinkInv'
    <3>1. \A i \in 1..n : pool[i] \in Txs
      BY <1>0, <2>3, ElementOfSeq
    <3>2. Len(pool') = n /\ \A i \in 1..n : pool'[i] = pool[i]
      BY <2>3, <3>1, SubSeqProperties
    <3>3. Len(pool') \in Nat /\ \A i \in 1..Len(pool') : i \in 1..Len(pool) /\ pool'[i] = pool[i]
      BY <1>0, <2>3, <3>2
    <3>4. \A i \in 1..Len(chain') : i \in 1..Len(chain) /\ chain'[i] = chain[i]
      BY <2>3
    <3> QED BY <1>0, <2>3, <3>3, <3>4, ShorterLinks
  <2>4. CASE PoolDrops
    <3>1. PICK n \in 0..Len(pool) - 1 : pool' = SubSeq(pool, 1, n)
      BY <2>4 DEF PoolDrops, L1Drop
    <3>2. n \in 0..Len(pool)
      BY <1>0
    <3> QED BY <2>3, <2>4, <3>1, <3>2 DEF PoolDrops, L1Drop
  <2>5. CASE OwnerCancels
    <3>1. PICK n \in 0..Len(pool) : pool' = SubSeq(pool, 1, n) /\ UNCHANGED l1
      BY <2>5 DEF OwnerCancels, L1CancelDeposit
    <3> QED BY <2>3, <2>5, <3>1 DEF OwnerCancels
  <2>6. ~ChainReorgs
    BY DEF ChainReorgs, Fault, QuietL1
  <2> QED BY <1>9, <2>1, <2>2, <2>4, <2>5, <2>6 DEF Layer1
<1>10. CASE UNCHANGED vars
  BY <1>1, <1>10 DEF vars
<1> QED BY <1>2, <1>3, <1>4, <1>5, <1>7, <1>8, <1>9, <1>10 DEF Next

\* Layer 1 only grows at its end: what was found there stays there.
LEMMA GrownL1 ==
    ASSUME IInv, L1Inv, UNCHANGED <<chain, lastConf, pc, todo, con>>,
           Len(l1') \in Nat, Len(l1) <= Len(l1'), l1' \in Seq(Txs),
           \A n \in 1..Len(l1) : n \in 1..Len(l1') /\ l1'[n] = l1[n]
    PROVE  L1Inv'
<1>0. Len(l1) \in Nat /\ l1 \in Seq(Txs) /\ Len(chain) \in Nat /\ Len(todo) \in Nat /\ lastConf \in Nat
  BY Basics, LenProperties
<1>1. ConfirmedOnL1'
  <2> SUFFICES ASSUME NEW n \in 1..lastConf PROVE n <= Len(l1') /\ l1'[n].blk = chain[n]
    BY DEF ConfirmedOnL1
  <2>1. n <= Len(l1) /\ l1[n].blk = chain[n]
    BY DEF L1Inv, ConfirmedOnL1
  <2> QED BY <1>0, <2>1
<1>2. AdoptInv'
  <2> SUFFICES ASSUME pc = "update"
               PROVE  /\ \A n \in 1..Len(chain) : n <= Len(l1') /\ l1'[n].blk = chain[n]
                      /\ \A i \in 1..Len(todo) : /\ Len(chain) + i <= Len(l1')
                                                 /\ todo[i] = l1'[Len(chain) + i]
                      /\ todo = <<>> => lastConf = Len(chain)
    BY DEF AdoptInv
  <2>1. ASSUME NEW n \in 1..Len(chain) PROVE n <= Len(l1') /\ l1'[n].blk = chain[n]
    <3>1. n <= Len(l1) /\ l1[n].blk = chain[n]
      BY DEF L1Inv, AdoptInv
    <3> QED BY <1>0, <3>1
  <2>2. ASSUME NEW i \in 1..Len(todo) PROVE Len(chain) + i <= Len(l1') /\ todo[i] = l1'[Len(chain) + i]
    <3>1. Len(chain) + i <= Len(l1) /\ todo[i] = l1[Len(chain) + i]
      BY DEF L1Inv, AdoptInv
    <3> QED BY <1>0, <3>1
  <2> QED BY <2>1, <2>2 DEF L1Inv, AdoptInv
<1>3. DoneInv'
  <2>1. DOMAIN l1 = 1..Len(l1) /\ DOMAIN l1' = 1..Len(l1')
    BY <1>0, LenProperties
  <2> QED BY <2>1 DEF L1Inv, DoneInv, Committed
<1> QED BY <1>1, <1>2, <1>3 DEF L1Inv

\* Every step but a reorganisation keeps confirmed blocks on layer 1.
LEMMA L1Step ==
    ASSUME QuietL1, IInv, SubTxInv, LinkInv, L1Inv, [Next]_vars
    PROVE  L1Inv'
<1> USE DEF ckbVars, storeVars, mainVars, taskVars, cellVars, poolVars, boundVars, nodeVars
<1>0. /\ Len(chain) \in Nat /\ Len(l1) \in Nat /\ Len(pool) \in Nat /\ sub \in SubmitTasks
      /\ con \in ConfirmTasks /\ Len(chain) <= MaxBlocks /\ MaxBlocks \in Nat /\ pool \in Seq(Txs)
      /\ lastConf \in Nat /\ lastSub \in Nat /\ lastConf <= lastSub /\ lastSub <= Len(chain)
      /\ l1 \in Seq(Txs) /\ todo \in Seq(Txs)
  BY Basics
<1>1. ASSUME UNCHANGED <<chain, l1, lastConf>>, pc' # "update",
             con'.st = "done" => con' = con /\ con.st = "done"
      PROVE  L1Inv'
  BY <1>1 DEF L1Inv, ConfirmedOnL1, AdoptInv, DoneInv, Committed
<1>2. Running => pc # "update"
  BY DEF Running
<1>3. ASSUME UNCHANGED <<chain, l1, lastConf, pc, con>>, Running PROVE L1Inv'
  BY <1>1, <1>2, <1>3
<1>4. CASE SubmitTask
  BY <1>3, <1>4 DEF SubmitTask, SubmitSnap, SubmitCompose, SubmitOversize, SubmitSave,
     SubmitApply, SubmitCheck, SubmitSend, SubmitSendFails, SubmitSendLost, SubmitStep
<1>5. CASE ConfirmTask
  <2>1. CASE ConfirmPoll
    <3>1. con'.tx = con.tx /\ Committed(con.tx) /\ Running /\ UNCHANGED <<chain, l1, lastConf, pc>>
      BY <1>0, <2>1, StepType DEF ConfirmPoll, ConfirmStep, ConfirmSteps
    <3>2. DoneInv'
      BY <3>1 DEF DoneInv, Committed
    <3> QED BY <1>2, <3>1, <3>2 DEF L1Inv, ConfirmedOnL1, AdoptInv
  <2>2. CASE ConfirmSnap
    BY <1>1, <1>2, <2>2 DEF ConfirmSnap
  <2>3. CASE ConfirmResend
    BY <1>3, <2>3 DEF ConfirmResend
  <2>4. CASE ConfirmResendFails
    <3>1. con'.st # "done"
      <4>1. PICK s \in ConfirmSteps : con' = [con EXCEPT !.st = s] /\ s # "done"
        BY <2>4 DEF ConfirmResendFails, ConfirmStep, ConfirmSteps
      <4> QED BY <1>0, <4>1, StepType
    <3>2. Running /\ UNCHANGED <<chain, l1, lastConf, pc>>
      BY <2>4 DEF ConfirmResendFails, ConfirmStep
    <3> QED BY <1>1, <1>2, <3>1, <3>2
  <2> QED BY <1>5, <2>1, <2>2, <2>3, <2>4 DEF ConfirmTask
<1>6. CASE TaskRpcFails
  <2>1. con' = con \/ con'.st = "snap"
    BY <1>6, IdleType DEF TaskRpcFails
  <2> QED BY <1>1, <1>2, <1>6, <2>1 DEF TaskRpcFails
<1>7. ASSUME AbortTasks PROVE con'.st = "idle"
  BY <1>7, IdleType DEF AbortTasks
<1>8. CASE MainLoop
  <2>1. CASE ProduceLocalBlock
    <3>1. PICK b : b \in Blocks /\ chain' = Append(chain, b)
      <4>1. memTip \in 0..MaxBlocks /\ memDeps \subseteq Deposits /\ nextId \in Nat \ {0} /\ nextId <= MaxBlocks
            /\ Len(chain) < MaxBlocks
        BY <2>1 DEF ProduceLocalBlock, IInv, TypeOK, CellTypeOK
      <4>2. [id |-> nextId, num |-> Len(chain) + 1, par |-> memTip, deps |-> memDeps] \in Blocks
        BY <1>0, <4>1 DEF Blocks, Ids
      <4> QED BY <2>1, <4>2 DEF ProduceLocalBlock, ProcessBlock
    <3>2. \A n \in 1..Len(chain) : n \in 1..Len(chain') /\ chain'[n] = chain[n]
      BY <3>1, AppendedChain
    <3>3. pc' = "notify" /\ UNCHANGED <<l1, lastConf, con>>
      BY <2>1 DEF ProduceLocalBlock
    <3>4. \A n \in 1..lastConf : n \in 1..Len(chain)
      BY <1>0
    <3> QED BY <3>2, <3>3, <3>4 DEF L1Inv, ConfirmedOnL1, AdoptInv, DoneInv, Committed
  <2>2. CASE BlockConfirmed
    <3>1. /\ con.n = lastConf + 1 /\ con.tx = StoredTx(con.n) /\ con.tx # NoTx /\ lastConf < lastSub
          /\ Committed(con.tx)
      BY <2>2 DEF BlockConfirmed, IInv, TasksInv, TasksTargetNext, L1Inv, DoneInv
    <3>2. con.n \in 1..Len(chain)
      BY <1>0, <3>1
    <3>3. con.n <= Len(l1) /\ l1[con.n].blk = chain[con.n]
      BY <3>1, <3>2, CommittedAt
    <3>4. lastConf' = con.n /\ pc' = "loop" /\ con'.st = "idle" /\ UNCHANGED <<l1, chain>>
      BY <2>2, IdleType DEF BlockConfirmed
    <3>5. \A n \in 1..lastConf' : n \in 1..lastConf \/ n = con.n
      BY <1>0, <3>1, <3>4
    <3> QED BY <3>3, <3>4, <3>5 DEF L1Inv, ConfirmedOnL1, AdoptInv, DoneInv
  <2>3. CASE SpawnSubmit \/ FinishLocalBlock \/ BlockSubmitted
    BY <1>1, <2>3 DEF SpawnSubmit, FinishLocalBlock, BlockSubmitted
  <2>4. CASE SpawnConfirm
    BY <1>1, <2>4, IdleType DEF SpawnConfirm
  <2>5. CASE TaskShouldRevert \/ TaskShouldResync \/ SignalRevertLocal \/ SignalRevertSubmitted
    BY <1>1, <1>7, <2>5 DEF TaskShouldRevert, TaskShouldResync, SignalRevertLocal, SignalRevertSubmitted, RaiseRevert
  <2> QED BY <1>8, <2>1, <2>2, <2>3, <2>4, <2>5 DEF MainLoop
<1>9. ASSUME NEW k \in Nat, Detach(k), UNCHANGED <<l1, con>>, pc' # "update" PROVE L1Inv'
  <2>1. \A n \in 1..Len(chain') : chain'[n] = chain[n]
    BY <1>9, DetachedChain
  <2>2. \A n \in 1..lastConf' : n \in 1..lastConf /\ n \in 1..Len(chain')
    BY <1>0, <1>9, DetachedChain DEF Detach, Lower
  <2> QED BY <1>9, <2>1, <2>2 DEF L1Inv, ConfirmedOnL1, AdoptInv, DoneInv, Committed
<1>10. CASE Revert
  <2>1. target - 1 \in Nat
    BY <1>10 DEF Revert, IInv, SyncInv, TypeOK, MainTypeOK
  <2> QED BY <1>9, <1>10, <2>1 DEF Revert
<1>11. CASE LateSave
  BY <1>1, <1>11 DEF LateSave
<1>12. CASE SyncFails
  BY <1>1, <1>12 DEF SyncFails
<1>13. CASE Reset
  BY <1>1, <1>13 DEF Reset
<1>14. CASE SyncKnown
  <2>1. PICK m \in 0..lastConf : LastOnL1(m) /\ m <= Len(l1) /\ KnownAfter(m, Len(l1) - m)
    BY <1>14 DEF SyncKnown
  <2>2. PICK k : k = Len(l1) - m
    OBVIOUS
  <2>3. k \in Nat /\ m + k = Len(l1)
    BY <1>0, <2>1, <2>2
  <2>4. \A n \in 1..Len(l1) : n <= Len(l1) /\ l1[n].blk = chain[n]
    BY <2>1, <2>2, <2>3, <1>0, KnownPrefix DEF L1Inv
  <2> QED BY <1>14, <2>4 DEF SyncKnown, L1Inv, ConfirmedOnL1, AdoptInv, DoneInv, Committed
<1>15. CASE SyncFork
  <2>1. PICK m \in 0..lastConf, k \in 0..MaxBlocks :
           /\ LastOnL1(m) /\ m + k < Len(l1) /\ KnownAfter(m, k) /\ Detach(m + k)
           /\ todo' = SubSeq(l1, m + k + 1, Len(l1))
    BY <1>15 DEF SyncFork
  <2>2. PICK j : j = m + k
    OBVIOUS
  <2>3. j \in Nat /\ k \in Nat /\ j < Len(l1) /\ Detach(j) /\ todo' = SubSeq(l1, j + 1, Len(l1))
        /\ m + k <= Len(l1)
    BY <1>0, <2>1, <2>2
  <2>4. j <= Len(chain) /\ \A n \in 1..j : n <= Len(l1) /\ l1[n].blk = chain[n]
    BY <2>1, <2>2, <2>3, KnownPrefix DEF L1Inv
  <2>5. Len(chain') = j /\ \A n \in 1..j : chain'[n] = chain[n]
    BY <1>0, <2>3, <2>4, DetachedChain
  <2>6. \A i \in j + 1..Len(l1) : l1[i] \in Txs
    BY <1>0, <2>3, ElementOfSeq
  <2>7. Len(todo') = Len(l1) - j /\ \A i \in 1..Len(todo') : todo'[i] = l1[j + i]
    <3>1. /\ Len(todo') = IF j + 1 <= Len(l1) THEN Len(l1) - (j + 1) + 1 ELSE 0
          /\ \A i \in 1..Len(l1) - (j + 1) + 1 : todo'[i] = l1[(j + 1) + i - 1]
      BY <1>0, <2>3, <2>6, SubSeqProperties
    <3>2. \A i \in 1..Len(l1) - (j + 1) + 1 : (j + 1) + i - 1 = j + i
      BY <1>0, <2>3
    <3> QED BY <1>0, <2>3, <3>1, <3>2
  <2>8. todo' # <<>>
    <3>1. Len(todo') # 0 /\ Len(<<>>) = 0
      BY <1>0, <2>3, <2>7, EmptySeq
    <3> QED BY <3>1
  <2>9. \A n \in 1..lastConf' : n \in 1..j
    BY <1>0, <2>3, <2>4 DEF Detach, Lower
  <2>10. AdoptInv'
    <3>1. \A i \in 1..Len(todo') : Len(chain') + i <= Len(l1)
      BY <1>0, <2>3, <2>5, <2>7
    <3> QED BY <1>15, <2>4, <2>5, <2>7, <2>8, <3>1 DEF AdoptInv, SyncFork
  <2>11. ConfirmedOnL1'
    BY <1>15, <2>4, <2>5, <2>9 DEF ConfirmedOnL1, SyncFork
  <2> QED BY <1>15, <2>10, <2>11 DEF SyncFork, L1Inv, DoneInv, Committed
<1>16. CASE SyncUpdate
  <2>0. pc = "update" /\ todo # <<>> /\ UNCHANGED <<l1, con>>
    BY <1>16 DEF SyncUpdate
  <2>1. CASE AttachFromL1(Head(todo)) /\ todo' = Tail(todo) /\ UNCHANGED pc
    <3>1. /\ Len(todo) \in Nat /\ Len(todo) # 0 /\ Len(chain) + 1 \in 1..Len(l1)
          /\ Head(todo) = l1[Len(chain) + 1] /\ Head(todo).blk \in Blocks
          /\ Len(todo') = Len(todo) - 1 /\ \A i \in 1..Len(todo) - 1 : todo'[i] = todo[i + 1]
      BY <2>0, <2>1, NextPageBlock
    <3>2. /\ Len(chain') = Len(chain) + 1 /\ chain'[Len(chain) + 1] = Head(todo).blk
          /\ \A n \in 1..Len(chain) : chain'[n] = chain[n]
      BY <2>1, <3>1, AppendedChain DEF AttachFromL1, ProcessBlock
    <3>3. lastConf' = Len(chain')
      BY <2>1, <3>2 DEF AttachFromL1
    <3>4. \A n \in 1..Len(chain') : n <= Len(l1) /\ l1[n].blk = chain'[n]
      <4> SUFFICES ASSUME NEW n \in 1..Len(chain') PROVE n <= Len(l1) /\ l1[n].blk = chain'[n]
        OBVIOUS
      <4>1. CASE n \in 1..Len(chain)
        BY <2>0, <3>2, <4>1 DEF L1Inv, AdoptInv
      <4>2. CASE n = Len(chain) + 1
        BY <1>0, <3>1, <3>2, <4>2
      <4> QED BY <1>0, <3>2, <4>1, <4>2
    <3>5. \A i \in 1..Len(todo') : Len(chain') + i <= Len(l1) /\ todo'[i] = l1[Len(chain') + i]
      <4> SUFFICES ASSUME NEW i \in 1..Len(todo')
                   PROVE  Len(chain') + i <= Len(l1) /\ todo'[i] = l1[Len(chain') + i]
        OBVIOUS
      <4>1. PICK h : h = i + 1
        OBVIOUS
      <4>2. h \in 1..Len(todo) /\ i \in 1..Len(todo) - 1 /\ Len(chain) + h = Len(chain') + i
        BY <1>0, <3>1, <3>2, <4>1
      <4>3. Len(chain) + h <= Len(l1) /\ todo[h] = l1[Len(chain) + h]
        BY <2>0, <4>2 DEF L1Inv, AdoptInv
      <4> QED BY <3>1, <4>1, <4>2, <4>3
    <3> QED BY <2>0, <3>3, <3>4, <3>5 DEF L1Inv, ConfirmedOnL1, AdoptInv, DoneInv, Committed
  <2>2. CASE pc' = "sync" /\ UNCHANGED <<chain, lastConf>>
    BY <1>1, <2>0, <2>2
  <2> QED BY <1>16, <2>1, <2>2 DEF SyncUpdate
<1>17. CASE SyncPage
  <2>0. /\ pc = "update" /\ todo = <<>> /\ todo' = SubSeq(l1, Len(chain) + 1, Len(l1))
        /\ UNCHANGED <<chain, l1, lastConf, con>>
    BY <1>17 DEF SyncPage
  <2>1. \A i \in Len(chain) + 1..Len(l1) : l1[i] \in Txs
    BY <1>0, ElementOfSeq
  <2>2. \A i \in 1..Len(todo') : Len(chain) + i <= Len(l1) /\ todo'[i] = l1[Len(chain) + i]
    <3>1. /\ Len(todo') = IF Len(chain) + 1 <= Len(l1) THEN Len(l1) - (Len(chain) + 1) + 1 ELSE 0
          /\ \A i \in 1..Len(l1) - (Len(chain) + 1) + 1 : todo'[i] = l1[(Len(chain) + 1) + i - 1]
      BY <1>0, <2>0, <2>1, SubSeqProperties
    <3>2. \A i \in 1..Len(l1) - (Len(chain) + 1) + 1 : (Len(chain) + 1) + i - 1 = Len(chain) + i
      BY <1>0
    <3> QED BY <1>0, <3>1, <3>2
  <2>3. AdoptInv'
    BY <2>0, <2>2 DEF L1Inv, AdoptInv
  <2> QED BY <2>0, <2>3 DEF L1Inv, ConfirmedOnL1, DoneInv, Committed
<1>18. CASE Resynchronise
  BY <1>10, <1>11, <1>12, <1>13, <1>14, <1>15, <1>16, <1>17, <1>18 DEF Resynchronise
<1>19. CASE Process
  BY <1>1, <1>19, IdleType DEF Process, Kill, Stop, Reboot, Boot
<1>20. CASE Layer1
  <2>1. ASSUME NEW tx \in Txs, l1' = Append(l1, tx), UNCHANGED <<chain, lastConf, pc, todo, con>>
        PROVE  L1Inv'
    <3>1. l1' \in Seq(Txs) /\ Len(l1') = Len(l1) + 1 /\ \A n \in 1..Len(l1) : l1'[n] = l1[n]
      BY <1>0, <2>1, AppendProperties
    <3>2. Len(l1') \in Nat /\ Len(l1) <= Len(l1') /\ \A n \in 1..Len(l1) : n \in 1..Len(l1') /\ l1'[n] = l1[n]
      BY <1>0, <3>1
    <3> QED BY <2>1, <3>1, <3>2, GrownL1
  <2>2. CASE MinerCommits
    <3>1. pool # <<>> /\ l1' = Append(l1, Head(pool)) /\ UNCHANGED <<chain, lastConf, pc, todo, con>>
      BY <2>2 DEF MinerCommits, L1Commit
    <3>2. Head(pool) \in Txs
      BY <1>0, <3>1, HeadTailProperties
    <3> QED BY <2>1, <3>1, <3>2
  <2>3. CASE ForeignSubmits
    <3>1. L1Tip \in 0..MaxBlocks /\ nextId \in Nat \ {0} /\ nextId <= MaxBlocks /\ Len(l1) < MaxBlocks
      BY <2>3, TipTypes DEF ForeignSubmits, IInv, TypeOK
    <3>2. PICK ds \in SUBSET Deposits :
             L1Foreign([id |-> nextId, num |-> Len(l1) + 1, par |-> L1Tip, deps |-> ds])
      BY <2>3 DEF ForeignSubmits
    <3>3. PICK b : b = [id |-> nextId, num |-> Len(l1) + 1, par |-> L1Tip, deps |-> ds]
      OBVIOUS
    <3>4. b \in Blocks /\ b.par \in 0..MaxBlocks
      BY <1>0, <3>1, <3>3 DEF Blocks, Ids
    <3>5. [blk |-> b, cell |-> b.par] \in Txs
      BY <3>4 DEF Txs
    <3>6. l1' = Append(l1, [blk |-> b, cell |-> b.par]) /\ UNCHANGED <<chain, lastConf, pc, todo, con>>
      BY <2>3, <3>2, <3>3 DEF L1Foreign, ForeignSubmits
    <3> QED BY <2>1, <3>5, <3>6
  <2>4. ASSUME UNCHANGED <<chain, l1, lastConf, pc, todo, con>> PROVE L1Inv'
    BY <2>4 DEF L1Inv, ConfirmedOnL1, AdoptInv, DoneInv, Committed
  <2>5. CASE PoolDrops \/ OwnerCancels
    BY <2>4, <2>5 DEF PoolDrops, L1Drop, OwnerCancels, L1CancelDeposit
  <2>6. ~ChainReorgs
    BY DEF ChainReorgs, Fault, QuietL1
  <2> QED BY <1>20, <2>2, <2>3, <2>5, <2>6 DEF Layer1
<1>21. CASE UNCHANGED vars
  BY <1>21 DEF vars, L1Inv, ConfirmedOnL1, AdoptInv, DoneInv, Committed
<1> QED BY <1>4, <1>5, <1>6, <1>8, <1>18, <1>19, <1>20, <1>21 DEF Next

LEMMA LinkInit == Init => LinkInv /\ L1Inv
<1>1. Len(<<>>) = 0
  BY EmptySeq
<1>2. ASSUME Init PROVE /\ Len(chain) = 0 /\ Len(l1) = 0 /\ Len(pool) = 0 /\ lastConf = 0
                        /\ pc = "sync" /\ con.st = "idle"
  BY <1>1, <1>2, IdleType DEF Init, CkbInit
<1>3. ASSUME Init PROVE LinkedChain /\ LinkedL1 /\ LinkedPool /\ KnownBlocks = {}
  BY <1>2, <1>3 DEF LinkedChain, LinkedL1, LinkedPool, KnownBlocks
<1>4. ASSUME Init PROVE L1Inv
  BY <1>2, <1>4 DEF L1Inv, ConfirmedOnL1, AdoptInv, DoneInv
<1> QED BY <1>3, <1>4 DEF LinkInv, UniqueIds

FullInv == IInv /\ SubTxInv /\ LinkInv /\ L1Inv

\* The invariant of everything that relates the store to layer 1.
THEOREM LedgerInductive == ASSUME QuietL1, PromptAbort PROVE Spec => []FullInv
<1>1. Init => SubTxInv /\ LinkInv /\ L1Inv
  BY SubTxInit, LinkInit
<1>2. IInv /\ SubTxInv /\ LinkInv /\ L1Inv /\ [Next]_vars => SubTxInv' /\ LinkInv' /\ L1Inv'
  BY SubTxStep, LinkStep, L1Step
<1> QED BY <1>1, <1>2, Inductive, PTL DEF Spec, FullInv

\* A block that is marked confirmed is the block layer 1 holds at its number,
\* across reverts, resynchronisations, crashes and competing nodes.
THEOREM ConfirmedBlocksOnL1 == ASSUME QuietL1, PromptAbort PROVE Spec => []ConfirmedOnL1
<1>1. FullInv => ConfirmedOnL1
  BY DEF FullInv, L1Inv
<1> QED BY <1>1, LedgerInductive, PTL

\* Only two steps end a synchronisation, and both leave layer 1 adopted.
LEMMA AdoptStep ==
    ASSUME FullInv, [Next]_vars, pc \in {"sync", "update"}, pc' = "reset"
    PROVE  lastConf' = Len(l1) /\ \A n \in 1..Len(l1) : chain'[n] = l1[n].blk
<1> USE DEF ckbVars, storeVars, mainVars, taskVars, cellVars, poolVars, boundVars, nodeVars
<1>0. Len(chain) \in Nat /\ Len(l1) \in Nat /\ lastConf \in Nat
  BY Basics DEF FullInv
<1>1. CASE SyncKnown
  <2>1. PICK m \in 0..lastConf : LastOnL1(m) /\ m <= Len(l1) /\ KnownAfter(m, Len(l1) - m)
    BY <1>1 DEF SyncKnown
  <2>2. PICK k : k = Len(l1) - m
    OBVIOUS
  <2>3. k \in Nat /\ m + k = Len(l1)
    BY <1>0, <2>1, <2>2
  <2>4. \A n \in 1..Len(l1) : l1[n].blk = chain[n]
    BY <1>0, <2>1, <2>2, <2>3, KnownPrefix DEF FullInv, L1Inv
  <2> QED BY <1>1, <2>4 DEF SyncKnown
<1>2. CASE SyncPage
  <2>1. /\ pc = "update" /\ todo = <<>> /\ Len(l1) <= Len(chain) /\ UNCHANGED <<chain, lastConf>>
    BY <1>0, <1>2 DEF SyncPage
  <2>2. lastConf = Len(chain) /\ \A n \in 1..Len(chain) : n <= Len(l1) /\ l1[n].blk = chain[n]
    BY <2>1 DEF FullInv, L1Inv, AdoptInv
  <2>3. Len(chain) = Len(l1)
    <3>1. CASE Len(chain) = 0
      BY <1>0, <2>1, <3>1
    <3>2. CASE Len(chain) # 0
      <4>1. Len(chain) \in 1..Len(chain)
        BY <1>0, <3>2
      <4> QED BY <1>0, <2>1, <2>2, <4>1
    <3> QED BY <3>1, <3>2
  <2> QED BY <2>1, <2>2, <2>3
<1>3. ~Running /\ pc # "reset"
  BY DEF Running
<1>4. ~SubmitTask
  BY <1>3 DEF SubmitTask, SubmitSnap, SubmitCompose, SubmitOversize, SubmitSave,
     SubmitApply, SubmitCheck, SubmitSend, SubmitSendFails, SubmitSendLost, SubmitStep
<1>5. ~ConfirmTask /\ ~TaskRpcFails
  BY <1>3 DEF ConfirmTask, ConfirmSnap, ConfirmPoll, ConfirmResend, ConfirmResendFails, ConfirmStep,
     TaskRpcFails
<1>6. ~MainLoop
  BY DEF MainLoop, SpawnSubmit, SpawnConfirm, ProduceLocalBlock, FinishLocalBlock, BlockSubmitted,
     BlockConfirmed, TaskShouldRevert, TaskShouldResync, SignalRevertLocal, SignalRevertSubmitted
<1>7. ~(Revert \/ SyncFork \/ SyncUpdate \/ SyncFails \/ Reset \/ LateSave)
  BY DEF Revert, SyncFork, SyncUpdate, SyncFails, Reset, LateSave
<1>8. ~Process
  BY DEF Process, Kill, Stop, Reboot, Boot
<1>9. ~Layer1 /\ ~UNCHANGED vars
  BY <1>3 DEF Layer1, MinerCommits, PoolDrops, ChainReorgs, OwnerCancels, ForeignSubmits, vars
<1> QED BY <1>1, <1>2, <1>4, <1>5, <1>6, <1>7, <1>8, <1>9 DEF Next, Resynchronise

\* A synchronisation that ends has adopted all of layer 1, whatever was half done
\* when it began and whatever layer 1 accepted meanwhile.
THEOREM SyncEndsOnL1 == ASSUME QuietL1, PromptAbort PROVE Spec => SyncAdoptsL1
<1>1. FullInv /\ [Next]_vars =>
         [(pc \in {"sync", "update"} /\ pc' = "reset") =>
             (lastConf' = Len(l1) /\ \A n \in 1..Len(l1) : chain'[n] = l1[n].blk)]_vars
  BY AdoptStep
<1> QED BY <1>1, LedgerInductive, PTL DEF Spec, SyncAdoptsL1

-----------------------------------------------------------------------------
(* Psc implements Ledger.                                                  *)

\* The layer-1 chain as Ledger sees it: the blocks that were submitted.
L1Blocks == [n \in DOMAIN l1 |-> l1[n].blk]

LEMMA L1BlocksIs ==
    ASSUME NEW s \in Seq(Txs), NEW t, t = [n \in DOMAIN s |-> s[n].blk]
    PROVE  /\ t \in Seq(Blocks) /\ Len(t) = Len(s)
           /\ \A n \in 1..Len(s) : t[n] = s[n].blk
<1>1. Len(s) \in Nat /\ DOMAIN s = 1..Len(s) /\ \A n \in 1..Len(s) : s[n] \in Txs
  BY LenProperties, ElementOfSeq
<1>2. t \in [1..Len(s) -> Blocks]
  BY <1>1 DEF Txs
<1>3. t \in Seq(Blocks)
  BY <1>1, <1>2
<1>4. DOMAIN t = 1..Len(s) /\ DOMAIN t = 1..Len(t) /\ Len(t) \in Nat
  BY <1>2, <1>3, LenProperties
<1>5. Len(t) = Len(s)
  BY <1>1, <1>4
<1> QED BY <1>1, <1>3, <1>5

\* A sequence that agrees with the beginning of another one is its prefix.
LEMMA PrefixIs ==
    ASSUME NEW S, NEW s \in Seq(S), NEW t \in Seq(S), Len(s) <= Len(t),
           \A n \in 1..Len(s) : s[n] = t[n]
    PROVE  SubSeq(s, 1, Len(s)) = SubSeq(t, 1, Len(s))
<1>1. Len(s) \in Nat /\ Len(t) \in Nat /\ \A n \in 1..Len(s) : s[n] \in S /\ t[n] \in S
  BY LenProperties, ElementOfSeq
<1>2. PICK u : u = SubSeq(s, 1, Len(s))
  OBVIOUS
<1>3. PICK v : v = SubSeq(t, 1, Len(s))
  OBVIOUS
<1>4. u \in Seq(S) /\ Len(u) = Len(s) /\ \A i \in 1..Len(s) : u[i] = s[i]
  BY <1>1, <1>2, SubSeqProperties
<1>5. v \in Seq(S) /\ Len(v) = Len(s) /\ \A i \in 1..Len(s) : v[i] = t[i]
  BY <1>1, <1>3, SubSeqProperties
<1>6. u = v
  BY <1>4, <1>5, SeqEqual
<1> QED BY <1>2, <1>3, <1>6

LEMMA LedgerStutter ==
    ASSUME UNCHANGED <<l1, chain, lastSub, lastConf>>, Running' <=> Running
    PROVE  UNCHANGED L!ledgerVars
BY DEF L!ledgerVars

LEMMA LedgerStartSync ==
    ASSUME UNCHANGED <<l1, chain, lastSub, lastConf>>, Running, ~Running'
    PROVE  L!LedgerNext
<1>1. L!StartSync
  BY DEF L!StartSync
<1> QED BY <1>1 DEF L!LedgerNext

\* sync_l1::revert is a rewind, or changes nothing.
LEMMA LedgerRewind ==
    ASSUME IInv, NEW k \in Nat, Detach(k), UNCHANGED l1, ~Running, ~Running'
    PROVE  [L!LedgerNext]_L!ledgerVars
<1>0. /\ Len(chain) \in Nat /\ lastConf \in Nat /\ lastSub \in Nat
      /\ lastConf <= lastSub /\ lastSub <= Len(chain)
  BY Basics
<1>1. CASE Len(chain) > k
  <2>1. L!Rewind(k)
    BY <1>0, <1>1 DEF L!Rewind, L!Below, Detach, Lower
  <2>2. k \in 0..Len(chain)
    BY <1>0, <1>1
  <2> QED BY <2>1, <2>2 DEF L!LedgerNext
<1>2. CASE ~(Len(chain) > k)
  <2>1. UNCHANGED <<chain, lastSub, lastConf>>
    BY <1>0, <1>2 DEF Detach, Lower
  <2> QED BY <2>1, LedgerStutter
<1> QED BY <1>1, <1>2

\* A transaction that layer 1 commits submits the successor of its tip.
LEMMA LedgerAccepts ==
    ASSUME IInv, NEW tx \in Txs, l1' = Append(l1, tx), tx.blk.par = L1Tip,
           UNCHANGED <<chain, lastSub, lastConf>>, Running' <=> Running
    PROVE  L!LedgerNext
<1>0. l1 \in Seq(Txs) /\ Len(l1) \in Nat
  BY Basics
<1>1. /\ l1' \in Seq(Txs) /\ Len(l1') = Len(l1) + 1 /\ l1'[Len(l1) + 1] = tx
      /\ \A n \in 1..Len(l1) : n \in 1..Len(l1') /\ l1'[n] = l1[n]
  BY <1>0, LongerL1, AppendProperties
<1>2. PICK B : B = L1Blocks
  OBVIOUS
<1>3. PICK C : C = L1Blocks'
  OBVIOUS
<1>4. B \in Seq(Blocks) /\ Len(B) = Len(l1) /\ \A n \in 1..Len(l1) : B[n] = l1[n].blk
  BY <1>0, <1>2, L1BlocksIs DEF L1Blocks
<1>5. C \in Seq(Blocks) /\ Len(C) = Len(l1) + 1 /\ \A n \in 1..Len(l1) + 1 : C[n] = l1'[n].blk
  <2>1. PICK m : m = l1'
    OBVIOUS
  <2>2. m \in Seq(Txs) /\ Len(m) = Len(l1) + 1 /\ C = [n \in DOMAIN m |-> m[n].blk]
    BY <1>1, <1>3, <2>1 DEF L1Blocks
  <2>3. C \in Seq(Blocks) /\ Len(C) = Len(m) /\ \A n \in 1..Len(m) : C[n] = m[n].blk
    BY <2>2, L1BlocksIs
  <2> QED BY <2>1, <2>2, <2>3
<1>6. tx.blk \in Blocks
  BY DEF Txs
<1>7. C = Append(B, tx.blk)
  <2>1. PICK D : D = Append(B, tx.blk)
    OBVIOUS
  <2>2. /\ D \in Seq(Blocks) /\ Len(D) = Len(l1) + 1 /\ D[Len(l1) + 1] = tx.blk
        /\ \A n \in 1..Len(l1) : D[n] = B[n]
    BY <1>4, <1>6, <2>1, AppendProperties
  <2>3. ASSUME NEW n \in 1..Len(l1) + 1 PROVE C[n] = D[n]
    <3>1. CASE n \in 1..Len(l1)
      BY <1>1, <1>4, <1>5, <2>2, <3>1
    <3>2. CASE n = Len(l1) + 1
      BY <1>1, <1>5, <2>2, <3>2
    <3> QED BY <1>0, <3>1, <3>2
  <2>4. C = D
    BY <1>5, <2>2, <2>3, SeqEqual
  <2> QED BY <2>1, <2>4
<1>8. L1Tip = (IF Len(B) = 0 THEN 0 ELSE B[Len(B)].id)
  <2>1. CASE Len(l1) = 0
    BY <1>4, <2>1, L1TipIs
  <2>2. CASE Len(l1) # 0
    <3>1. Len(l1) \in 1..Len(l1)
      BY <1>0, <2>2
    <3> QED BY <1>4, <2>2, <3>1, L1TipIs
  <2> QED BY <2>1, <2>2
<1>9. L!L1Accepts(tx.blk)
  BY <1>2, <1>3, <1>7, <1>8 DEF L!L1Accepts, L!TipOf, L!IdAt, L1Blocks
<1> QED BY <1>6, <1>9 DEF L!LedgerNext

\* Every step of the node or of layer 1 is a step of the ledger, or hides from it.
LEMMA LedgerStep ==
    ASSUME QuietL1, FullInv, [Next]_vars
    PROVE  [L!LedgerNext]_L!ledgerVars
<1> USE DEF ckbVars, storeVars, mainVars, taskVars, cellVars, poolVars, boundVars, nodeVars
<1>0. /\ Len(chain) \in Nat /\ Len(l1) \in Nat /\ Len(pool) \in Nat /\ sub \in SubmitTasks
      /\ con \in ConfirmTasks /\ Len(chain) <= MaxBlocks /\ MaxBlocks \in Nat /\ pool \in Seq(Txs)
      /\ lastConf \in Nat /\ lastSub \in Nat /\ lastConf <= lastSub /\ lastSub <= Len(chain)
      /\ l1 \in Seq(Txs) /\ todo \in Seq(Txs) /\ chain \in Seq(Blocks)
  BY Basics DEF FullInv
<1>1. ASSUME UNCHANGED <<l1, chain, lastSub, lastConf>>, Running' <=> Running
      PROVE  UNCHANGED L!ledgerVars
  BY <1>1, LedgerStutter
<1>2. PICK B : B = L1Blocks
  OBVIOUS
<1>3. B \in Seq(Blocks) /\ Len(B) = Len(l1) /\ \A n \in 1..Len(l1) : B[n] = l1[n].blk
  BY <1>0, <1>2, L1BlocksIs DEF L1Blocks
<1>4. CASE SubmitTask
  BY <1>1, <1>4 DEF SubmitTask, SubmitSnap, SubmitCompose, SubmitOversize, SubmitSave,
     SubmitApply, SubmitCheck, SubmitSend, SubmitSendFails, SubmitSendLost, Running
<1>5. CASE ConfirmTask \/ TaskRpcFails
  BY <1>1, <1>5 DEF ConfirmTask, ConfirmSnap, ConfirmPoll, ConfirmResend, ConfirmResendFails,
     TaskRpcFails, Running
<1>6. CASE MainLoop
  <2>1. CASE ProduceLocalBlock
    <3>1. PICK b : b = [id |-> nextId, num |-> Len(chain) + 1, par |-> memTip, deps |-> memDeps]
      OBVIOUS
    <3>2. memTip \in 0..MaxBlocks /\ memDeps \subseteq Deposits /\ nextId \in Nat \ {0} /\ nextId <= MaxBlocks
          /\ Len(chain) < MaxBlocks
      BY <2>1 DEF ProduceLocalBlock, FullInv, IInv, TypeOK, CellTypeOK
    <3>3. b \in Blocks
      BY <1>0, <3>1, <3>2 DEF Blocks, Ids
    <3>4. b.par = TipId /\ chain' = Append(chain, b)
      BY <2>1, <3>1 DEF ProduceLocalBlock, ProcessBlock
    <3>5. TipId = L!TipOf(chain)
      BY TipIdIs DEF FullInv, L!TipOf, L!IdAt
    <3>6. Running /\ Running' /\ UNCHANGED <<l1, lastSub, lastConf>>
      BY <2>1 DEF ProduceLocalBlock, Running
    <3>7. L!Produce(b)
      BY <3>4, <3>5, <3>6 DEF L!Produce
    <3> QED BY <3>3, <3>7 DEF L!LedgerNext
  <2>2. CASE BlockSubmitted
    <3>1. Running /\ Running' /\ UNCHANGED <<l1, chain, lastConf>> /\ lastSub' = sub.n
      BY <2>2 DEF BlockSubmitted, Running
    <3>2. sub.n = lastSub + 1 /\ sub.n <= Len(chain)
      BY <2>2 DEF BlockSubmitted, FullInv, IInv, TasksTargetNext
    <3>3. L!Submit
      BY <1>0, <3>1, <3>2 DEF L!Submit
    <3> QED BY <3>3 DEF L!LedgerNext
  <2>3. CASE BlockConfirmed
    <3>1. Running /\ Running' /\ UNCHANGED <<l1, chain, lastSub>> /\ lastConf' = con.n
      BY <2>3 DEF BlockConfirmed, Running
    <3>2. /\ con.n = lastConf + 1 /\ con.tx = StoredTx(con.n) /\ con.tx # NoTx /\ lastConf < lastSub
          /\ Committed(con.tx)
      BY <2>3 DEF BlockConfirmed, FullInv, IInv, TasksInv, TasksTargetNext, L1Inv, DoneInv
    <3>3. con.n \in 1..Len(chain)
      BY <1>0, <3>2
    <3>4. con.n <= Len(l1) /\ l1[con.n].blk = chain[con.n]
      BY <3>2, <3>3, CommittedAt DEF FullInv
    <3>5. lastConf < Len(B) /\ B[lastConf + 1] = chain[lastConf + 1]
      BY <1>0, <1>3, <3>2, <3>3, <3>4
    <3>6. L!Confirm
      BY <1>2, <3>1, <3>2, <3>5 DEF L!Confirm, L1Blocks
    <3> QED BY <3>6 DEF L!LedgerNext
  <2>4. CASE SpawnSubmit \/ SpawnConfirm \/ FinishLocalBlock
    BY <1>1, <2>4 DEF SpawnSubmit, SpawnConfirm, FinishLocalBlock, Running
  <2>5. CASE TaskShouldRevert \/ TaskShouldResync \/ SignalRevertLocal \/ SignalRevertSubmitted
    <3>1. Running /\ ~Running' /\ UNCHANGED <<l1, chain, lastSub, lastConf>>
      BY <2>5 DEF TaskShouldRevert, TaskShouldResync, SignalRevertLocal, SignalRevertSubmitted,
         RaiseRevert, Running
    <3> QED BY <3>1, LedgerStartSync
  <2> QED BY <1>6, <2>1, <2>2, <2>3, <2>4, <2>5 DEF MainLoop
<1>7. CASE Resynchronise
  <2>1. CASE Revert
    <3>1. target - 1 \in Nat
      BY <2>1 DEF Revert, FullInv, IInv, SyncInv, TypeOK, MainTypeOK
    <3>2. Detach(target - 1) /\ UNCHANGED l1 /\ ~Running /\ ~Running'
      BY <2>1 DEF Revert, Running
    <3> QED BY <3>1, <3>2, LedgerRewind DEF FullInv
  <2>2. CASE SyncFork
    <3>1. PICK m \in 0..lastConf, k \in 0..MaxBlocks : Detach(m + k)
      BY <2>2 DEF SyncFork
    <3>2. m + k \in Nat /\ UNCHANGED l1 /\ ~Running /\ ~Running'
      BY <1>0, <2>2 DEF SyncFork, Running
    <3> QED BY <3>1, <3>2, LedgerRewind DEF FullInv
  <2>3. CASE SyncUpdate
    <3>0. pc = "update" /\ todo # <<>> /\ UNCHANGED l1
      BY <2>3 DEF SyncUpdate
    <3>1. CASE AttachFromL1(Head(todo)) /\ UNCHANGED pc
      <4>1. Len(chain) + 1 \in 1..Len(l1) /\ Head(todo) = l1[Len(chain) + 1]
        BY <3>0, NextPageBlock DEF FullInv
      <4>2. chain' = Append(chain, B[Len(chain) + 1])
        BY <1>3, <3>1, <4>1 DEF AttachFromL1, ProcessBlock
      <4>3. Len(chain) <= Len(B) /\ \A n \in 1..Len(chain) : chain[n] = B[n]
        BY <1>0, <1>3, <3>0, <4>1 DEF FullInv, L1Inv, AdoptInv
      <4>4. SubSeq(chain, 1, Len(chain)) = SubSeq(B, 1, Len(chain))
        BY <1>0, <1>3, <4>3, PrefixIs
      <4>5. chain # B
        BY <1>0, <1>3, <4>1
      <4>6. L!IsStrictPrefix(chain, B)
        BY <4>3, <4>4, <4>5 DEF L!IsStrictPrefix, L!IsPrefix
      <4>7. ~Running /\ ~Running' /\ lastSub' = Len(chain) + 1 /\ lastConf' = Len(chain) + 1
        BY <3>0, <3>1 DEF Running, AttachFromL1
      <4>8. L!Adopt
        BY <1>2, <3>0, <4>2, <4>6, <4>7 DEF L!Adopt, L1Blocks
      <4> QED BY <4>8 DEF L!LedgerNext
    <3>2. CASE pc' = "sync" /\ UNCHANGED <<chain, lastSub, lastConf>>
      BY <1>1, <3>0, <3>2 DEF Running
    <3> QED BY <2>3, <3>1, <3>2 DEF SyncUpdate
  <2>4. CASE SyncKnown
    <3>1. PICK m \in 0..lastConf : LastOnL1(m) /\ m <= Len(l1) /\ KnownAfter(m, Len(l1) - m)
      BY <2>4 DEF SyncKnown
    <3>2. PICK k : k = Len(l1) - m
      OBVIOUS
    <3>3. k \in Nat /\ m + k = Len(l1)
      BY <1>0, <3>1, <3>2
    <3>4. Len(l1) <= Len(chain) /\ \A n \in 1..Len(l1) : l1[n].blk = chain[n]
      BY <1>0, <3>1, <3>2, <3>3, KnownPrefix DEF FullInv, L1Inv
    <3>5. Len(B) <= Len(chain) /\ \A n \in 1..Len(B) : B[n] = chain[n]
      BY <1>3, <3>4
    <3>6. SubSeq(B, 1, Len(B)) = SubSeq(chain, 1, Len(B))
      BY <1>0, <1>3, <3>5, PrefixIs
    <3>7. L!IsPrefix(B, chain)
      BY <3>5, <3>6 DEF L!IsPrefix
    <3>8. ~Running /\ ~Running' /\ lastConf' = Len(B) /\ lastSub' = Len(B) /\ UNCHANGED <<l1, chain>>
      BY <1>3, <2>4 DEF SyncKnown, Running
    <3>9. L!Known
      BY <1>2, <3>7, <3>8 DEF L!Known, L1Blocks
    <3> QED BY <3>9 DEF L!LedgerNext
  <2>5. CASE SyncPage \/ SyncFails \/ LateSave
    BY <1>1, <2>5 DEF SyncPage, SyncFails, LateSave, Running
  <2>6. CASE Reset
    <3>1. ~Running /\ Running' /\ lastSub = lastConf /\ UNCHANGED <<l1, chain, lastSub, lastConf>>
      BY <2>6 DEF Reset, Running
    <3>2. L!Resume
      BY <3>1 DEF L!Resume
    <3> QED BY <3>2 DEF L!LedgerNext
  <2> QED BY <1>7, <2>1, <2>2, <2>3, <2>4, <2>5, <2>6 DEF Resynchronise
<1>8. CASE Process
  <2>1. ~Running' /\ UNCHANGED <<l1, chain, lastSub, lastConf>>
    BY <1>8 DEF Process, Kill, Stop, Reboot, Boot, Running
  <2>2. CASE Running
    BY <2>1, <2>2, LedgerStartSync
  <2>3. CASE ~Running
    BY <1>1, <2>1, <2>3
  <2> QED BY <2>2, <2>3
<1>9. CASE Layer1
  <2>1. CASE MinerCommits
    <3>1. /\ pool # <<>> /\ l1' = Append(l1, Head(pool)) /\ UNCHANGED <<chain, lastSub, lastConf>>
          /\ Running' <=> Running
      BY <2>1 DEF MinerCommits, L1Commit, Running
    <3>2. Head(pool) \in Txs /\ Head(pool) = pool[1] /\ Len(pool) # 0
      BY <1>0, <3>1, HeadTailProperties, EmptySeq
    <3>3. 1 \in 1..Len(pool)
      BY <1>0, <3>2
    <3>4. pool[1].blk.par = L1Tip
      BY <3>3 DEF FullInv, LinkInv, LinkedPool
    <3> QED BY <3>1, <3>2, <3>4, LedgerAccepts DEF FullInv
  <2>2. CASE ForeignSubmits
    <3>1. L1Tip \in 0..MaxBlocks /\ nextId \in Nat \ {0} /\ nextId <= MaxBlocks /\ Len(l1) < MaxBlocks
      BY <2>2, TipTypes DEF ForeignSubmits, FullInv, IInv, TypeOK
    <3>2. PICK ds \in SUBSET Deposits :
             L1Foreign([id |-> nextId, num |-> Len(l1) + 1, par |-> L1Tip, deps |-> ds])
      BY <2>2 DEF ForeignSubmits
    <3>3. PICK b : b = [id |-> nextId, num |-> Len(l1) + 1, par |-> L1Tip, deps |-> ds]
      OBVIOUS
    <3>4. b \in Blocks /\ b.par \in 0..MaxBlocks /\ b.par = L1Tip
      BY <1>0, <3>1, <3>3 DEF Blocks, Ids
    <3>5. PICK tx : tx = [blk |-> b, cell |-> b.par]
      OBVIOUS
    <3>6. tx \in Txs /\ tx.blk = b
      BY <3>4, <3>5 DEF Txs
    <3>7. /\ l1' = Append(l1, tx) /\ UNCHANGED <<chain, lastSub, lastConf>>
          /\ Running' <=> Running
      BY <2>2, <3>2, <3>3, <3>5 DEF L1Foreign, ForeignSubmits, Running
    <3> QED BY <3>4, <3>6, <3>7, LedgerAccepts DEF FullInv
  <2>3. CASE PoolDrops \/ OwnerCancels
    BY <1>1, <2>3 DEF PoolDrops, L1Drop, OwnerCancels, L1CancelDeposit, Running
  <2>4. ~ChainReorgs
    BY DEF ChainReorgs, Fault, QuietL1
  <2> QED BY <1>9, <2>1, <2>2, <2>3, <2>4 DEF Layer1
<1>10. CASE UNCHANGED vars
  BY <1>1, <1>10 DEF vars, Running
<1> QED BY <1>4, <1>5, <1>6, <1>7, <1>8, <1>9, <1>10 DEF Next

\* The node with its tasks, counters, cells and mem pool implements the abstract
\* ledger: outside the loop nothing is submitted or confirmed, inside it nothing
\* is taken back, and only blocks on layer 1 are confirmed.
THEOREM PscImplementsLedger == ASSUME QuietL1, PromptAbort PROVE Spec => LedgerSpec
<1>1. Init => L!LedgerInit
  <2> SUFFICES ASSUME Init PROVE L!LedgerInit
    OBVIOUS
  <2>1. l1 = <<>> /\ chain = <<>> /\ lastSub = 0 /\ lastConf = 0 /\ ~Running
    BY DEF Init, CkbInit, Running
  <2>2. L1Blocks = <<>>
    <3>1. <<>> \in Seq(Txs) /\ Len(<<>>) = 0
      BY EmptySeq
    <3>2. PICK t : t = L1Blocks
      OBVIOUS
    <3>3. t \in Seq(Blocks) /\ Len(t) = 0
      BY <2>1, <3>1, <3>2, L1BlocksIs DEF L1Blocks
    <3> QED BY <3>2, <3>3, EmptySeq
  <2> QED BY <2>1, <2>2 DEF L!LedgerInit, L1Blocks
<1>2. FullInv /\ [Next]_vars => [L!LedgerNext]_L!ledgerVars
  BY LedgerStep
<1> QED BY <1>1, <1>2, LedgerInductive, PTL DEF Spec, LedgerSpec, L!LedgerSpecification

-----------------------------------------------------------------------------
(* Deposits.                                                               *)

\* No graceful stop: its mem block file may bring back deposits that a later
\* block has processed.
NoStop == "stop" \notin Faults

\* The blocks of layer 1 and of the pool that continues it.
Ext(n) == IF n <= Len(l1) THEN l1[n].blk ELSE pool[n - Len(l1)].blk
ExtLen == Len(l1) + Len(pool)

\* No deposit is spent twice on layer 1, the pool included.
ExtDisjoint == \A i, j \in 1..ExtLen : i # j => Ext(i).deps \cap Ext(j).deps = {}

\* While the loop runs, the deposits of the attached blocks are spent on layer 1
\* or held dead; those of a block just produced are locked in the next step.
Covered(d) == d \in deadDeps \/ \E i \in 1..Len(l1) : d \in l1[i].blk.deps
DeadInv ==
    Running => \A n \in 1..(IF pc = "notify" THEN Len(chain) - 1 ELSE Len(chain)) :
                  \A d \in chain[n].deps : Covered(d)

\* The mem pool's deposits are in no block up to the tip they were chosen on,
\* wherever that tip is now.
MemChain ==
    \A n \in 1..Len(chain) : chain[n].id = memTip => \A i \in 1..n : chain[i].deps \cap memDeps = {}
MemExt ==
    \A n \in 1..ExtLen : Ext(n).id = memTip => \A i \in 1..n : Ext(i).deps \cap memDeps = {}

MemInv == MemChain /\ MemExt /\ memTip < nextId /\ savedDeps = {}

\* Layer 1 and its pool form one linked chain of known blocks.
LEMMA ExtLinked ==
    ASSUME IInv, LinkInv, NEW n \in 1..ExtLen
    PROVE  /\ Ext(n) \in KnownBlocks /\ Ext(n).num = n
           /\ Ext(n).par = (IF n = 1 THEN 0 ELSE Ext(n - 1).id)
<1>0. Len(l1) \in Nat /\ Len(pool) \in Nat /\ n \in Nat /\ n <= Len(l1) + Len(pool) /\ n >= 1
  BY Basics DEF ExtLen
<1>1. CASE n <= Len(l1)
  <2>1. n \in 1..Len(l1) /\ n - 1 <= Len(l1)
    BY <1>0, <1>1
  <2>2. Ext(n) = l1[n].blk /\ Ext(n - 1) = l1[n - 1].blk
    BY <1>1, <2>1 DEF Ext
  <2> QED BY <2>1, <2>2 DEF LinkInv, LinkedL1, KnownBlocks
<1>2. CASE n > Len(l1)
  <2>1. PICK k : k = n - Len(l1)
    OBVIOUS
  <2>2. k \in 1..Len(pool) /\ Len(l1) + k = n /\ ~(n <= Len(l1))
    BY <1>0, <1>2, <2>1
  <2>3. Ext(n) = pool[k].blk
    BY <2>1, <2>2 DEF Ext
  <2>4. pool[k].blk.num = Len(l1) + k /\ pool[k].blk.par = (IF k = 1 THEN L1Tip ELSE pool[k - 1].blk.id)
    BY <2>2 DEF LinkInv, LinkedPool
  <2>5. CASE k = 1
    <3>1. n - 1 = Len(l1)
      BY <1>0, <2>2, <2>5
    <3>2. Ext(n - 1) = l1[Len(l1)].blk
      BY <1>0, <3>1 DEF Ext
    <3>3. n = 1 <=> Len(l1) = 0
      BY <1>0, <3>1
    <3> QED BY <2>2, <2>3, <2>4, <2>5, <3>2, <3>3, L1TipIs DEF KnownBlocks
  <2>6. CASE k # 1
    <3>1. n # 1 /\ ~(n - 1 <= Len(l1)) /\ (n - 1) - Len(l1) = k - 1
      BY <1>0, <2>2, <2>6
    <3>2. Ext(n - 1) = pool[k - 1].blk
      BY <3>1 DEF Ext
    <3> QED BY <2>2, <2>3, <2>4, <2>6, <3>1, <3>2 DEF KnownBlocks
  <2> QED BY <2>5, <2>6
<1> QED BY <1>0, <1>1, <1>2

\* A block determines the blocks below it: the local chain and layer 1 agree up
\* to every block they share.
SamePrefix ==
    \A n \in 1..Len(chain), k \in 1..ExtLen :
        chain[n].id = Ext(k).id => k = n /\ \A i \in 1..n : chain[i] = Ext(i)

LEMMA SharedPrefix == IInv /\ LinkInv => SamePrefix
<1> SUFFICES ASSUME IInv, LinkInv, NEW n \in 1..Len(chain), NEW k \in 1..ExtLen, chain[n].id = Ext(k).id
             PROVE  k = n /\ \A i \in 1..n : chain[i] = Ext(i)
  BY DEF SamePrefix
<1>0. Len(chain) \in Nat /\ ExtLen \in Nat
  BY Basics DEF ExtLen
<1>1. \A i \in 1..Len(chain) : /\ chain[i] \in KnownBlocks /\ chain[i].num = i
                               /\ chain[i].par = (IF i = 1 THEN 0 ELSE chain[i - 1].id)
  BY DEF KnownBlocks, LinkInv, LinkedChain
<1>2. \A i \in 1..ExtLen : /\ Ext(i) \in KnownBlocks /\ Ext(i).num = i
                           /\ Ext(i).par = (IF i = 1 THEN 0 ELSE Ext(i - 1).id)
  BY ExtLinked
<1>3. \A b, c \in KnownBlocks : b.id = c.id => b = c
  BY DEF LinkInv, UniqueIds
<1>4. chain[n] = Ext(k) /\ k = n
  BY <1>1, <1>2, <1>3
<1>5. ASSUME NEW i \in 1..n, chain[i] # Ext(i) PROVE FALSE
  <2>1. PICK T : T = {j \in 1..n : chain[j] # Ext(j)}
    OBVIOUS
  <2>2. i \in T /\ T # {} /\ T \subseteq Nat /\ n \in Nat /\ \A j \in T : j <= n
    BY <1>0, <1>5, <2>1
  <2>3. PICK g \in T : \A j \in T : j <= g
    BY <2>2, GreatestNat
  <2>4. g \in 1..n /\ chain[g] # Ext(g) /\ g # n
    BY <1>4, <2>1, <2>3
  <2>5. PICK h : h = g + 1
    OBVIOUS
  <2>6. h \in 1..n /\ h # 1 /\ h - 1 = g /\ h \notin T /\ g \in 1..Len(chain) /\ g \in 1..ExtLen
        /\ h \in 1..Len(chain) /\ h \in 1..ExtLen
    BY <1>0, <1>4, <2>3, <2>4, <2>5
  <2>7. chain[h] = Ext(h)
    BY <2>1, <2>6
  <2>8. chain[g].id = Ext(g).id
    BY <1>1, <1>2, <2>6, <2>7
  <2> QED BY <1>1, <1>2, <1>3, <2>4, <2>6, <2>8
<1> QED BY <1>4, <1>5

\* The pool loses its newest transactions, or none.
LEMMA ExtKept ==
    ASSUME IInv, UNCHANGED l1, Len(pool') \in Nat,
           \A i \in 1..Len(pool') : i \in 1..Len(pool) /\ pool'[i] = pool[i]
    PROVE  ExtLen' \in 0..ExtLen /\ \A n \in 1..ExtLen' : Ext(n)' = Ext(n)
<1>0. Len(l1) \in Nat /\ Len(pool) \in Nat
  BY Basics
<1>1. Len(pool') <= Len(pool)
  <2>1. CASE Len(pool') = 0
    BY <1>0, <2>1
  <2>2. CASE Len(pool') # 0
    <3>1. Len(pool') \in 1..Len(pool')
      BY <2>2
    <3> QED BY <1>0, <3>1
  <2> QED BY <2>1, <2>2
<1>2. ASSUME NEW n \in 1..ExtLen' PROVE Ext(n)' = Ext(n)
  <2>1. CASE n <= Len(l1)
    BY <2>1 DEF Ext
  <2>2. CASE ~(n <= Len(l1))
    <3>1. n - Len(l1) \in 1..Len(pool')
      BY <1>0, <2>2 DEF ExtLen
    <3> QED BY <2>2, <3>1 DEF Ext
  <2> QED BY <2>1, <2>2
<1> QED BY <1>0, <1>1, <1>2 DEF ExtLen

\* A transaction joins the pool.
LEMMA ExtSent ==
    ASSUME IInv, UNCHANGED l1, NEW tx \in Txs, pool' = Append(pool, tx), NEW e, e = ExtLen + 1
    PROVE  ExtLen' = e /\ Ext(e)' = tx.blk /\ \A n \in 1..ExtLen : Ext(n)' = Ext(n)
<1>0. Len(l1) \in Nat /\ Len(pool) \in Nat /\ pool \in Seq(Txs)
  BY Basics
<1>1. /\ Len(pool') = Len(pool) + 1 /\ pool'[Len(pool) + 1] = tx
      /\ \A n \in 1..Len(pool) : pool'[n] = pool[n]
  BY <1>0, AppendProperties
<1>2. ASSUME NEW n \in 1..ExtLen PROVE Ext(n)' = Ext(n)
  <2>1. CASE n <= Len(l1)
    BY <2>1 DEF Ext
  <2>2. CASE ~(n <= Len(l1))
    <3>1. n - Len(l1) \in 1..Len(pool)
      BY <1>0, <2>2 DEF ExtLen
    <3> QED BY <1>1, <2>2, <3>1 DEF Ext
  <2> QED BY <2>1, <2>2
<1>3. Ext(e)' = tx.blk
  <2>1. ~(e <= Len(l1)) /\ e - Len(l1) = Len(pool) + 1
    BY <1>0 DEF ExtLen
  <2> QED BY <1>1, <2>1 DEF Ext
<1> QED BY <1>0, <1>1, <1>2, <1>3 DEF ExtLen

\* A miner moves the oldest transaction of the pool to layer 1.
LEMMA ExtCommit ==
    ASSUME IInv, L1Commit PROVE ExtLen' = ExtLen /\ \A n \in 1..ExtLen : Ext(n)' = Ext(n)
<1>0. Len(l1) \in Nat /\ Len(pool) \in Nat /\ pool \in Seq(Txs) /\ pool # <<>>
  BY Basics DEF L1Commit
<1>1. /\ l1' = Append(l1, Head(pool)) /\ Head(pool) = pool[1] /\ Head(pool) \in Txs /\ Len(pool) # 0
      /\ Len(pool') = Len(pool) - 1 /\ \A i \in 1..Len(pool) - 1 : pool'[i] = pool[i + 1]
  BY <1>0, HeadTailProperties, EmptySeq DEF L1Commit
<1>2. /\ Len(l1') = Len(l1) + 1 /\ l1'[Len(l1) + 1] = pool[1]
      /\ \A n \in 1..Len(l1) : l1'[n] = l1[n]
  BY <1>1, LongerL1
<1>3. ASSUME NEW n \in 1..ExtLen PROVE Ext(n)' = Ext(n)
  <2>1. CASE n <= Len(l1)
    <3>1. n \in 1..Len(l1) /\ n <= Len(l1')
      BY <1>0, <1>2, <2>1
    <3> QED BY <1>2, <3>1 DEF Ext
  <2>2. CASE n = Len(l1) + 1
    <3>1. n <= Len(l1') /\ ~(n <= Len(l1)) /\ n - Len(l1) = 1
      BY <1>0, <1>2, <2>2
    <3> QED BY <1>2, <2>2, <3>1 DEF Ext
  <2>3. CASE n > Len(l1) + 1
    <3>1. PICK i : i = n - Len(l1')
      OBVIOUS
    <3>2. /\ i \in 1..Len(pool) - 1 /\ ~(n <= Len(l1')) /\ ~(n <= Len(l1)) /\ n - Len(l1) = i + 1
      BY <1>0, <1>2, <2>3, <3>1 DEF ExtLen
    <3> QED BY <1>1, <3>1, <3>2 DEF Ext
  <2> QED BY <1>0, <2>1, <2>2, <2>3 DEF ExtLen
<1> QED BY <1>0, <1>1, <1>2, <1>3 DEF ExtLen

\* Another node's block replaces the pool.
LEMMA ExtForeign ==
    ASSUME IInv, NEW tx \in Txs, l1' = Append(l1, tx), pool' = <<>>, NEW e, e = Len(l1) + 1
    PROVE  /\ ExtLen' = e /\ Ext(e)' = tx.blk /\ Len(l1) \in 0..ExtLen
           /\ \A n \in 1..Len(l1) : Ext(n)' = Ext(n) /\ Ext(n) = l1[n].blk
<1>0. Len(l1) \in Nat /\ Len(pool) \in Nat /\ Len(pool') = 0
  BY Basics, EmptySeq
<1>1. /\ Len(l1') = Len(l1) + 1 /\ l1'[Len(l1) + 1] = tx
      /\ \A n \in 1..Len(l1) : l1'[n] = l1[n]
  BY LongerL1
<1>2. ASSUME NEW n \in 1..Len(l1) PROVE Ext(n)' = Ext(n) /\ Ext(n) = l1[n].blk
  BY <1>0, <1>1 DEF Ext
<1>3. Ext(e)' = tx.blk
  BY <1>0, <1>1 DEF Ext
<1> QED BY <1>0, <1>1, <1>2, <1>3 DEF ExtLen

\* How a step of layer 1 or of a sender keeps deposits apart: what it keeps is a
\* beginning K, what it adds is b.
LEMMA ExtStep ==
    ASSUME IInv, ExtDisjoint, MemChain, MemExt, SamePrefix', UNCHANGED <<memTip, memDeps>>,
           NEW K \in Nat, K <= ExtLen, \A n \in 1..K : Ext(n)' = Ext(n), NEW b,
           \/ ExtLen' = K
           \/ /\ ExtLen' = K + 1
              /\ \A n \in 1..K + 1 : n = K + 1 => Ext(n)' = b
              /\ \A n \in 1..K : Ext(n).deps \cap b.deps = {}
              /\ \/ b.id # memTip
                 \/ chain' = chain /\ \E k \in 1..Len(chain) : chain[k] = b
    PROVE  ExtDisjoint' /\ MemExt'
<1>0. ExtLen \in Nat /\ Len(chain) \in Nat
  BY Basics DEF ExtLen
<1>1. \A n \in 1..K : n \in 1..ExtLen
  BY <1>0
<1>2. ASSUME NEW i \in 1..K, NEW j \in 1..K, i # j PROVE Ext(i)'.deps \cap Ext(j)'.deps = {}
  BY <1>1, <1>2 DEF ExtDisjoint
<1>3. ASSUME NEW n \in 1..K, Ext(n)'.id = memTip, NEW i \in 1..n PROVE Ext(i)'.deps \cap memDeps = {}
  <2>1. i \in 1..K
    OBVIOUS
  <2> QED BY <1>1, <1>3, <2>1 DEF MemExt
<1>4. CASE ExtLen' = K
  <2>1. ExtDisjoint'
    BY <1>2, <1>4 DEF ExtDisjoint
  <2>2. MemExt'
    BY <1>3, <1>4 DEF MemExt
  <2> QED BY <2>1, <2>2
<1>5. CASE /\ ExtLen' = K + 1
           /\ \A n \in 1..K + 1 : n = K + 1 => Ext(n)' = b
           /\ \A n \in 1..K : Ext(n).deps \cap b.deps = {}
           /\ \/ b.id # memTip
              \/ chain' = chain /\ \E k \in 1..Len(chain) : chain[k] = b
  <2>1. PICK e : e = K + 1
    OBVIOUS
  <2>2. e \in 1..e /\ ExtLen' = e /\ Ext(e)' = b /\ \A n \in 1..e : n \in 1..K \/ n = e
    BY <1>5, <2>1
  <2>3. ExtDisjoint'
    <3> SUFFICES ASSUME NEW i \in 1..e, NEW j \in 1..e, i # j PROVE Ext(i)'.deps \cap Ext(j)'.deps = {}
      BY <2>2 DEF ExtDisjoint
    <3>1. CASE i \in 1..K /\ j \in 1..K
      BY <1>2, <3>1
    <3>2. CASE i = e /\ j \in 1..K
      BY <1>5, <2>2, <3>2
    <3>3. CASE j = e /\ i \in 1..K
      BY <1>5, <2>2, <3>3
    <3> QED BY <2>2, <3>1, <3>2, <3>3
  <2>4. MemExt'
    <3> SUFFICES ASSUME NEW n \in 1..e, Ext(n)'.id = memTip, NEW i \in 1..n
                 PROVE  Ext(i)'.deps \cap memDeps = {}
      BY <2>2 DEF MemExt
    <3>1. CASE n \in 1..K
      BY <1>3, <3>1
    <3>2. CASE n = e
      <4>1. PICK k \in 1..Len(chain) : chain[k] = b /\ chain' = chain
        BY <1>5, <2>2, <3>2
      <4>2. e = k /\ \A m \in 1..k : chain[m] = Ext(m)'
        BY <2>2, <4>1 DEF SamePrefix
      <4> QED BY <2>2, <3>2, <4>1, <4>2 DEF MemChain
    <3> QED BY <2>2, <3>1, <3>2
  <2> QED BY <2>3, <2>4
<1> QED BY <1>4, <1>5

Lengths == Len(l1) \in Nat /\ Len(pool) \in Nat /\ Len(chain) \in Nat

LEMMA LengthsAreNat == IInv => Lengths
BY Basics DEF Lengths

DepInv == ExtDisjoint /\ DeadInv /\ MemInv /\ NoDoubleDeposit

\* A transaction that is sent spends deposits nothing else spends.
LEMMA SentDeposits ==
    ASSUME IInv, ExtDisjoint, MemChain, MemExt, SamePrefix', UNCHANGED <<l1, chain, memTip, memDeps>>,
           NEW tx \in Txs, NEW k \in 1..Len(chain), tx.blk = chain[k], SendOk(tx), Enqueue(tx)
    PROVE  ExtDisjoint' /\ MemExt'
<1>0. Len(l1) \in Nat /\ Len(pool) \in Nat /\ ExtLen \in Nat /\ l1 \in Seq(Txs) /\ pool \in Seq(Txs)
  BY Basics DEF ExtLen
<1>1. CASE InPool(tx) \/ Committed(tx)
  <2>1. pool' = pool
    BY <1>1 DEF Enqueue
  <2>2. Len(pool') \in Nat /\ \A i \in 1..Len(pool') : i \in 1..Len(pool) /\ pool'[i] = pool[i]
    BY <1>0, <2>1
  <2>3. ExtLen' \in 0..ExtLen /\ \A n \in 1..ExtLen' : Ext(n)' = Ext(n)
    BY <2>2, ExtKept
  <2>4. PICK K : K = ExtLen'
    OBVIOUS
  <2>5. K \in Nat /\ K <= ExtLen /\ \A n \in 1..K : Ext(n)' = Ext(n)
    BY <1>0, <2>3, <2>4
  <2> QED BY <2>4, <2>5, ExtStep
<1>2. CASE ~(InPool(tx) \/ Committed(tx))
  <2>1. pool' = Append(pool, tx) /\ Resolves(tx)
    BY <1>2 DEF Enqueue, SendOk
  <2>2. PICK K : K = ExtLen
    OBVIOUS
  <2>3. ExtLen' = K + 1 /\ Ext(K + 1)' = tx.blk /\ \A n \in 1..K : Ext(n)' = Ext(n)
    BY <2>1, <2>2, ExtSent
  <2>4. ASSUME NEW n \in 1..K PROVE Ext(n).deps \cap tx.blk.deps = {}
    <3>1. DOMAIN l1 = 1..Len(l1) /\ DOMAIN pool = 1..Len(pool)
      BY <1>0, LenProperties
    <3>2. CASE n <= Len(l1)
      <4>1. n \in DOMAIN l1 /\ Ext(n) = l1[n].blk
        BY <1>0, <2>2, <3>1, <3>2 DEF Ext
      <4> QED BY <2>1, <4>1 DEF Resolves, DepositFree, DepositLive
    <3>3. CASE ~(n <= Len(l1))
      <4>1. n - Len(l1) \in DOMAIN pool /\ Ext(n) = pool[n - Len(l1)].blk
        BY <1>0, <2>2, <3>1, <3>3 DEF Ext, ExtLen
      <4> QED BY <2>1, <4>1 DEF Resolves, DepositFree
    <3> QED BY <3>2, <3>3
  <2>5. \A n \in 1..K + 1 : n = K + 1 => Ext(n)' = tx.blk
    BY <2>3
  <2>6. K \in Nat /\ K <= ExtLen
    BY <1>0, <2>2
  <2>7. PICK b : b = tx.blk
    OBVIOUS
  <2>8. /\ ExtLen' = K + 1
        /\ \A n \in 1..K + 1 : n = K + 1 => Ext(n)' = b
        /\ \A n \in 1..K : Ext(n).deps \cap b.deps = {}
        /\ chain' = chain /\ \E m \in 1..Len(chain) : chain[m] = b
    BY <2>3, <2>4, <2>5, <2>7
  <2> QED BY <2>3, <2>6, <2>8, ExtStep
<1> QED BY <1>1, <1>2

\* Every step keeps the deposits spent on layer 1 apart.
LEMMA ExtDisjointStep ==
    ASSUME QuietL1, FullInv, FullInv', DepInv, [Next]_vars
    PROVE  ExtDisjoint' /\ (UNCHANGED <<memTip, memDeps>> => MemExt')
<1> USE DEF ckbVars, storeVars, mainVars, taskVars, cellVars, poolVars, boundVars, nodeVars
<1>0. /\ Len(chain) \in Nat /\ Len(l1) \in Nat /\ Len(pool) \in Nat /\ sub \in SubmitTasks
      /\ con \in ConfirmTasks /\ Len(chain) <= MaxBlocks /\ MaxBlocks \in Nat /\ pool \in Seq(Txs)
      /\ lastConf \in Nat /\ lastSub \in Nat /\ lastConf <= lastSub /\ lastSub <= Len(chain)
      /\ l1 \in Seq(Txs) /\ ExtLen \in Nat
  BY Basics DEF FullInv, ExtLen
<1>1. SamePrefix'
  BY SharedPrefix, PTL DEF FullInv
<1>2. IInv /\ ExtDisjoint /\ MemChain /\ MemExt
  BY DEF FullInv, DepInv, MemInv
<1>3. ASSUME UNCHANGED <<l1, pool>> PROVE ExtDisjoint' /\ (UNCHANGED <<memTip, memDeps>> => MemExt')
  BY <1>2, <1>3 DEF ExtDisjoint, MemExt, Ext, ExtLen
<1>4. CASE SubmitTask
  <2>1. CASE SubmitSend
    <3>1. sub.tx # NoTx /\ Running /\ sub.tx \in Txs
      BY <1>0, <2>1 DEF SubmitSend, SubmitStep, FullInv, IInv, TasksInv, Applied, SubmitTasks
    <3>2. sub.n \in 1..Len(chain) /\ sub.tx.blk = chain[sub.n]
      BY <3>1 DEF FullInv, SubTxInv
    <3>3. SendOk(sub.tx) /\ Enqueue(sub.tx) /\ UNCHANGED <<l1, chain, memTip, memDeps>>
      BY <2>1 DEF SubmitSend
    <3> QED BY <1>1, <1>2, <3>1, <3>2, <3>3, SentDeposits
  <2>2. CASE SubmitSnap \/ SubmitCompose \/ SubmitOversize \/ SubmitSave \/ SubmitApply
    BY <1>3, <2>2 DEF SubmitSnap, SubmitCompose, SubmitOversize, SubmitSave, SubmitApply
  <2>3. CASE SubmitCheck \/ SubmitSendFails \/ SubmitSendLost
    BY <1>3, <2>3 DEF SubmitCheck, SubmitSendFails, SubmitSendLost
  <2> QED BY <1>4, <2>1, <2>2, <2>3 DEF SubmitTask
<1>5. CASE ConfirmTask
  <2>1. CASE ConfirmResend
    <3>1. con.tx # NoTx /\ con.tx \in Txs /\ con.n = lastConf + 1 /\ con.tx = StoredTx(con.n)
          /\ lastConf < lastSub
      BY <1>0, <2>1 DEF ConfirmResend, FullInv, IInv, TasksInv, TasksTargetNext, ConfirmTasks
    <3>2. con.n \in 1..Len(chain) /\ con.tx.blk = chain[con.n]
      BY <1>0, <3>1 DEF FullInv, SubTxInv, StoredTx
    <3>3. SendOk(con.tx) /\ Enqueue(con.tx) /\ UNCHANGED <<l1, chain, memTip, memDeps>>
      BY <2>1 DEF ConfirmResend
    <3> QED BY <1>1, <1>2, <3>1, <3>2, <3>3, SentDeposits
  <2>2. CASE ConfirmSnap \/ ConfirmPoll \/ ConfirmResendFails
    BY <1>3, <2>2 DEF ConfirmSnap, ConfirmPoll, ConfirmResendFails
  <2> QED BY <1>5, <2>1, <2>2 DEF ConfirmTask
<1>6. CASE TaskRpcFails
  BY <1>3, <1>6 DEF TaskRpcFails
<1>7. CASE MainLoop
  BY <1>3, <1>7 DEF MainLoop, SpawnSubmit, SpawnConfirm, ProduceLocalBlock, FinishLocalBlock,
     BlockSubmitted, BlockConfirmed, TaskShouldRevert, TaskShouldResync, SignalRevertLocal,
     SignalRevertSubmitted, RaiseRevert
<1>8. CASE Resynchronise
  BY <1>3, <1>8 DEF Resynchronise, Revert, LateSave, SyncKnown, SyncFork, SyncUpdate, SyncPage,
     SyncFails, Reset
<1>9. CASE Process
  BY <1>3, <1>9 DEF Process, Kill, Stop, Reboot, Boot
<1>10. CASE Layer1
  <2>1. CASE MinerCommits
    <3>1. ExtLen' = ExtLen /\ \A n \in 1..ExtLen : Ext(n)' = Ext(n)
      BY <1>2, <2>1, ExtCommit DEF MinerCommits
    <3>2. UNCHANGED <<memTip, memDeps>>
      BY <2>1 DEF MinerCommits
    <3>3. PICK K : K = ExtLen
      OBVIOUS
    <3>4. K \in Nat /\ K <= ExtLen /\ ExtLen' = K /\ \A n \in 1..K : Ext(n)' = Ext(n)
      BY <1>0, <3>1, <3>3
    <3> QED BY <1>1, <1>2, <3>2, <3>4, ExtStep
  <2>2. CASE ForeignSubmits
    <3>1. L1Tip \in 0..MaxBlocks /\ nextId \in Nat \ {0} /\ nextId <= MaxBlocks /\ Len(l1) < MaxBlocks
          /\ memTip < nextId /\ memTip \in Nat
      BY <1>0, <2>2, TipTypes DEF ForeignSubmits, FullInv, IInv, TypeOK, CellTypeOK, DepInv, MemInv
    <3>2. PICK ds \in SUBSET {d \in Deposits : DepositLive(d)} :
             L1Foreign([id |-> nextId, num |-> Len(l1) + 1, par |-> L1Tip, deps |-> ds])
      BY <2>2 DEF ForeignSubmits
    <3>3. PICK b : b = [id |-> nextId, num |-> Len(l1) + 1, par |-> L1Tip, deps |-> ds]
      OBVIOUS
    <3>4. b \in Blocks /\ b.par \in 0..MaxBlocks /\ b.id = nextId /\ b.deps = ds
      BY <1>0, <3>1, <3>3 DEF Blocks, Ids
    <3>5. PICK tx : tx = [blk |-> b, cell |-> b.par]
      OBVIOUS
    <3>6. tx \in Txs /\ tx.blk = b
      BY <3>4, <3>5 DEF Txs
    <3>7. l1' = Append(l1, tx) /\ pool' = <<>> /\ UNCHANGED <<memTip, memDeps>>
      BY <2>2, <3>2, <3>3, <3>5 DEF L1Foreign, ForeignSubmits
    <3>8. PICK K : K = Len(l1)
      OBVIOUS
    <3>9. /\ ExtLen' = K + 1 /\ Ext(K + 1)' = b /\ K \in 0..ExtLen
          /\ \A n \in 1..K : Ext(n)' = Ext(n) /\ Ext(n) = l1[n].blk
      BY <1>2, <3>6, <3>7, <3>8, ExtForeign
    <3>10. DOMAIN l1 = 1..Len(l1)
      BY <1>0, LenProperties
    <3>11. \A n \in 1..K : Ext(n).deps \cap b.deps = {}
      BY <3>4, <3>8, <3>9, <3>10 DEF DepositLive
    <3>12. b.id # memTip
      BY <3>1, <3>4
    <3>13. K \in Nat /\ K <= ExtLen /\ \A n \in 1..K + 1 : n = K + 1 => Ext(n)' = b
      BY <1>0, <3>9
    <3> QED BY <1>1, <1>2, <3>7, <3>9, <3>11, <3>12, <3>13, ExtStep
  <2>3. ASSUME NEW n \in 0..Len(pool), pool' = SubSeq(pool, 1, n), UNCHANGED <<l1, memTip, memDeps>>
        PROVE  ExtDisjoint' /\ MemExt'
    <3>1. \A i \in 1..n : pool[i] \in Txs
      BY <1>0, <2>3, ElementOfSeq
    <3>2. Len(pool') = n /\ \A i \in 1..n : pool'[i] = pool[i]
      BY <2>3, <3>1, SubSeqProperties
    <3>3. Len(pool') \in Nat /\ \A i \in 1..Len(pool') : i \in 1..Len(pool) /\ pool'[i] = pool[i]
      BY <1>0, <2>3, <3>2
    <3>4. ExtLen' \in 0..ExtLen /\ \A m \in 1..ExtLen' : Ext(m)' = Ext(m)
      BY <1>2, <2>3, <3>3, ExtKept
    <3>5. PICK K : K = ExtLen'
      OBVIOUS
    <3>6. K \in Nat /\ K <= ExtLen /\ \A m \in 1..K : Ext(m)' = Ext(m)
      BY <1>0, <3>4, <3>5
    <3> QED BY <1>1, <1>2, <2>3, <3>5, <3>6, ExtStep
  <2>4. CASE PoolDrops
    <3>1. PICK n \in 0..Len(pool) - 1 : pool' = SubSeq(pool, 1, n)
      BY <2>4 DEF PoolDrops, L1Drop
    <3>2. n \in 0..Len(pool)
      BY <1>0
    <3> QED BY <2>3, <2>4, <3>1, <3>2 DEF PoolDrops, L1Drop
  <2>5. CASE OwnerCancels
    <3>1. PICK n \in 0..Len(pool) : pool' = SubSeq(pool, 1, n) /\ UNCHANGED l1
      BY <2>5 DEF OwnerCancels, L1CancelDeposit
    <3> QED BY <2>3, <2>5, <3>1 DEF OwnerCancels
  <2>6. ~ChainReorgs
    BY DEF ChainReorgs, Fault, QuietL1
  <2> QED BY <1>10, <2>1, <2>2, <2>4, <2>5, <2>6 DEF Layer1
<1>11. CASE UNCHANGED vars
  BY <1>3, <1>11 DEF vars
<1> QED BY <1>4, <1>5, <1>6, <1>7, <1>8, <1>9, <1>10, <1>11 DEF Next

\* notify_new_tip chooses deposits that are in no attached block.
LEMMA NotifyDeposits ==
    ASSUME FullInv, SamePrefix, MemChain, MemExt, memTip < nextId, UNCHANGED <<chain, l1, pool, nextId>>,
           NEW dead, NotifyNewTip(dead),
           \A n \in 1..Len(chain) : \A d \in chain[n].deps :
               d \in dead \/ \E i \in 1..Len(l1) : d \in l1[i].blk.deps
    PROVE  MemChain' /\ MemExt' /\ memTip' < nextId'
<1>0. /\ Len(chain) \in Nat /\ Len(l1) \in Nat /\ ExtLen \in Nat /\ l1 \in Seq(Txs)
      /\ DOMAIN l1 = 1..Len(l1)
  BY Basics, LenProperties DEF FullInv, ExtLen
<1>1. CASE memTip = TipId
  <2>1. UNCHANGED <<memTip, memDeps>>
    BY <1>1 DEF NotifyNewTip, poolVars
  <2> QED BY <2>1 DEF MemChain, MemExt, Ext, ExtLen
<1>2. CASE memTip # TipId
  <2>1. memTip' = TipId /\ \A d \in memDeps' : d \notin dead /\ DepositLive(d)
    BY <1>2 DEF NotifyNewTip, RefreshDeposits
  <2>2. \A n \in 1..Len(chain) : chain[n].deps \cap memDeps' = {}
    BY <1>0, <2>1 DEF DepositLive
  <2>3. MemChain'
    BY <2>2 DEF MemChain
  <2>4. nextId \in Nat \ {0} /\ \A b \in KnownBlocks : b.id \in Nat \ {0} /\ b.id < nextId
    BY KnownTypes DEF FullInv, LinkInv, UniqueIds, Blocks, Ids, IInv, TypeOK
  <2>5. CASE Len(chain) = 0
    <3>1. memTip' = 0
      BY <2>1, <2>5, TipIdIs DEF FullInv
    <3>2. \A n \in 1..ExtLen : Ext(n) \in KnownBlocks
      BY ExtLinked DEF FullInv
    <3>3. MemExt'
      <4> SUFFICES ASSUME NEW n \in 1..ExtLen, Ext(n).id = memTip' PROVE FALSE
        BY DEF MemExt, Ext, ExtLen
      <4> QED BY <2>4, <3>1, <3>2
    <3> QED BY <2>3, <2>4, <3>1, <3>3
  <2>6. CASE Len(chain) # 0
    <3>1. PICK t : t = Len(chain)
      OBVIOUS
    <3>2. t \in 1..Len(chain) /\ memTip' = chain[t].id /\ chain[t] \in KnownBlocks
      BY <1>0, <2>1, <2>6, <3>1, TipIdIs DEF FullInv, KnownBlocks
    <3>3. MemExt'
      <4> SUFFICES ASSUME NEW n \in 1..ExtLen, Ext(n).id = memTip', NEW i \in 1..n
                   PROVE  Ext(i).deps \cap memDeps' = {}
        BY DEF MemExt, Ext, ExtLen
      <4>1. n = t /\ \A j \in 1..t : chain[j] = Ext(j)
        BY <3>2 DEF SamePrefix
      <4> QED BY <2>2, <3>1, <4>1
    <3> QED BY <2>3, <2>4, <3>2, <3>3
  <2> QED BY <2>5, <2>6
<1> QED BY <1>1, <1>2

\* Every step keeps the deposits of attached blocks covered while the loop runs.
LEMMA DeadStep ==
    ASSUME QuietL1, FullInv, FullInv', DepInv, [Next]_vars PROVE DeadInv'
<1> USE DEF ckbVars, storeVars, mainVars, taskVars, cellVars, poolVars, boundVars, nodeVars
<1>0. /\ Len(chain) \in Nat /\ Len(l1) \in Nat /\ pool \in Seq(Txs) /\ Len(pool) \in Nat /\ l1 \in Seq(Txs)
      /\ lastConf \in Nat /\ chain \in Seq(Blocks) /\ con \in ConfirmTasks
  BY Basics DEF FullInv
<1>1. ASSUME ~Running' PROVE DeadInv'
  BY <1>1 DEF DeadInv
<1>2. ASSUME UNCHANGED <<chain, pc>>, \A d : Covered(d) => Covered(d)' PROVE DeadInv'
  BY <1>2 DEF DeadInv, DepInv, Running
<1>3. ASSUME UNCHANGED <<chain, pc, l1>>, deadDeps \subseteq deadDeps' PROVE DeadInv'
  BY <1>2, <1>3 DEF Covered
<1>4. CASE SubmitTask
  BY <1>3, <1>4 DEF SubmitTask, SubmitSnap, SubmitCompose, SubmitOversize, SubmitSave,
     SubmitApply, SubmitCheck, SubmitSend, SubmitSendFails, SubmitSendLost, ApplyTx
<1>5. CASE ConfirmTask
  <2>1. CASE ConfirmPoll
    <3>1. Committed(con.tx) /\ deadDeps' = deadDeps \ con.tx.blk.deps /\ UNCHANGED <<chain, pc, l1>>
      BY <2>1 DEF ConfirmPoll, ConfirmTx
    <3>2. PICK i \in 1..Len(l1) : l1[i] = con.tx
      BY <1>0, <3>1, LenProperties DEF Committed
    <3>3. \A d : Covered(d) => Covered(d)'
      BY <3>1, <3>2 DEF Covered
    <3> QED BY <1>2, <3>1, <3>3
  <2>2. CASE ConfirmSnap \/ ConfirmResend \/ ConfirmResendFails
    BY <1>3, <2>2 DEF ConfirmSnap, ConfirmResend, ConfirmResendFails
  <2> QED BY <1>5, <2>1, <2>2 DEF ConfirmTask
<1>6. CASE TaskRpcFails
  BY <1>3, <1>6 DEF TaskRpcFails
<1>7. CASE MainLoop
  <2>1. CASE ProduceLocalBlock
    <3>1. pc = "loop" /\ pc' = "notify" /\ UNCHANGED <<l1, deadDeps>>
      BY <2>1 DEF ProduceLocalBlock
    <3>2. PICK b : b \in Blocks /\ chain' = Append(chain, b)
      <4>1. memTip \in 0..MaxBlocks /\ memDeps \subseteq Deposits /\ nextId \in Nat \ {0} /\ nextId <= MaxBlocks
            /\ Len(chain) < MaxBlocks
        BY <2>1 DEF ProduceLocalBlock, FullInv, IInv, TypeOK, CellTypeOK
      <4>2. [id |-> nextId, num |-> Len(chain) + 1, par |-> memTip, deps |-> memDeps] \in Blocks
        BY <1>0, <4>1, MaxBlocksAssumption DEF Blocks, Ids
      <4> QED BY <2>1, <4>2 DEF ProduceLocalBlock, ProcessBlock
    <3>3. Len(chain') = Len(chain) + 1 /\ \A n \in 1..Len(chain) : chain'[n] = chain[n]
      BY <3>2, AppendedChain DEF FullInv
    <3>4. Len(chain') - 1 = Len(chain)
      BY <1>0, <3>3
    <3>5. \A n \in 1..Len(chain) : \A d \in chain[n].deps : Covered(d)
      BY <3>1 DEF DepInv, DeadInv, Running
    <3>6. \A n \in 1..Len(chain) : \A d \in chain'[n].deps : Covered(d)'
      BY <3>1, <3>3, <3>5 DEF Covered
    <3> QED BY <3>1, <3>4, <3>6 DEF DeadInv
  <2>2. CASE FinishLocalBlock
    <3>1. /\ pc = "notify" /\ pc' = "loop" /\ deadDeps' = deadDeps \cup Last(chain).deps
          /\ UNCHANGED <<l1, chain>>
      BY <2>2 DEF FinishLocalBlock
    <3>2. \A n \in 1..Len(chain) - 1 : \A d \in chain[n].deps : Covered(d)
      BY <3>1 DEF DepInv, DeadInv, Running
    <3>3. \A n \in 1..Len(chain) - 1 : \A d \in chain[n].deps : Covered(d)'
      BY <3>1, <3>2 DEF Covered
    <3>4. \A d \in chain[Len(chain)].deps : Covered(d)'
      BY <3>1 DEF Covered, Last
    <3>5. \A n \in 1..Len(chain) : n \in 1..Len(chain) - 1 \/ n = Len(chain)
      BY <1>0
    <3> QED BY <3>1, <3>3, <3>4, <3>5 DEF DeadInv
  <2>3. CASE SpawnSubmit \/ SpawnConfirm \/ BlockSubmitted \/ BlockConfirmed
    BY <1>3, <2>3 DEF SpawnSubmit, SpawnConfirm, BlockSubmitted, BlockConfirmed
  <2>4. CASE TaskShouldRevert \/ TaskShouldResync \/ SignalRevertLocal \/ SignalRevertSubmitted
    BY <1>1, <2>4 DEF TaskShouldRevert, TaskShouldResync, SignalRevertLocal, SignalRevertSubmitted,
       RaiseRevert, Running
  <2> QED BY <1>7, <2>1, <2>2, <2>3, <2>4 DEF MainLoop
<1>8. CASE Resynchronise
  <2>1. CASE Reset
    <3>1. /\ pc' = "loop" /\ deadDeps' = DepositsOf(lastConf + 1, Len(chain)) /\ UNCHANGED <<l1, chain, lastConf>>
      BY <2>1 DEF Reset
    <3>2. ASSUME NEW n \in 1..Len(chain), NEW d \in chain[n].deps PROVE Covered(d)'
      <4>1. CASE n \in 1..lastConf
        <5>1. n <= Len(l1) /\ l1[n].blk = chain[n]
          BY <4>1 DEF FullInv, L1Inv, ConfirmedOnL1
        <5>2. n \in 1..Len(l1)
          BY <1>0, <5>1
        <5> QED BY <3>1, <3>2, <5>1, <5>2 DEF Covered
      <4>2. CASE n \in lastConf + 1..Len(chain)
        <5>1. d \in DepositsOf(lastConf + 1, Len(chain))
          BY <3>2, <4>2 DEF DepositsOf
        <5> QED BY <3>1, <5>1 DEF Covered
      <4> QED BY <1>0, <4>1, <4>2
    <3> QED BY <3>1, <3>2 DEF DeadInv
  <2>2. CASE LateSave
    BY <1>3, <2>2 DEF LateSave
  <2>3. CASE Revert \/ SyncKnown \/ SyncFork \/ SyncUpdate \/ SyncPage \/ SyncFails
    BY <1>1, <2>3 DEF Revert, SyncKnown, SyncFork, SyncUpdate, SyncPage, SyncFails, Running
  <2> QED BY <1>8, <2>1, <2>2, <2>3 DEF Resynchronise
<1>9. CASE Process
  BY <1>1, <1>9 DEF Process, Kill, Stop, Reboot, Boot, Running
<1>10. CASE Layer1
  <2>1. ASSUME NEW tx \in Txs, l1' = Append(l1, tx), UNCHANGED <<chain, pc, deadDeps>> PROVE DeadInv'
    <3>1. \A n \in 1..Len(l1) : n \in 1..Len(l1') /\ l1'[n] = l1[n]
      BY <2>1, LongerL1 DEF FullInv
    <3>2. \A d : Covered(d) => Covered(d)'
      BY <2>1, <3>1 DEF Covered
    <3> QED BY <1>2, <2>1, <3>2
  <2>2. CASE MinerCommits
    <3>1. pool # <<>> /\ l1' = Append(l1, Head(pool)) /\ UNCHANGED <<chain, pc, deadDeps>>
      BY <2>2 DEF MinerCommits, L1Commit
    <3>2. Head(pool) \in Txs
      BY <1>0, <3>1, HeadTailProperties
    <3> QED BY <2>1, <3>1, <3>2
  <2>3. CASE ForeignSubmits
    <3>1. L1Tip \in 0..MaxBlocks /\ nextId \in Nat \ {0} /\ nextId <= MaxBlocks /\ Len(l1) < MaxBlocks
      BY <2>3, TipTypes DEF ForeignSubmits, FullInv, IInv, TypeOK
    <3>2. PICK ds \in SUBSET Deposits :
             L1Foreign([id |-> nextId, num |-> Len(l1) + 1, par |-> L1Tip, deps |-> ds])
      BY <2>3 DEF ForeignSubmits
    <3>3. PICK b : b = [id |-> nextId, num |-> Len(l1) + 1, par |-> L1Tip, deps |-> ds]
      OBVIOUS
    <3>4. b \in Blocks /\ b.par \in 0..MaxBlocks
      BY <1>0, <3>1, <3>3, MaxBlocksAssumption DEF Blocks, Ids
    <3>5. [blk |-> b, cell |-> b.par] \in Txs
      BY <3>4 DEF Txs
    <3>6. l1' = Append(l1, [blk |-> b, cell |-> b.par]) /\ UNCHANGED <<chain, pc, deadDeps>>
      BY <2>3, <3>2, <3>3 DEF L1Foreign, ForeignSubmits
    <3> QED BY <2>1, <3>5, <3>6
  <2>4. CASE PoolDrops \/ OwnerCancels
    BY <1>3, <2>4 DEF PoolDrops, L1Drop, OwnerCancels, L1CancelDeposit
  <2>5. ~ChainReorgs
    BY DEF ChainReorgs, Fault, QuietL1
  <2> QED BY <1>10, <2>2, <2>3, <2>4, <2>5 DEF Layer1
<1>11. CASE UNCHANGED vars
  BY <1>3, <1>11 DEF vars
<1> QED BY <1>4, <1>5, <1>6, <1>7, <1>8, <1>9, <1>10, <1>11 DEF Next

\* Every step keeps the mem pool's deposits out of the blocks below its tip and
\* the deposits of attached blocks apart.
LEMMA DepositStep ==
    ASSUME QuietL1, NoStop, FullInv, FullInv', DepInv, [Next]_vars
    PROVE  MemInv' /\ NoDoubleDeposit'
<1> USE DEF ckbVars, storeVars, mainVars, taskVars, cellVars, poolVars, boundVars, nodeVars
<1>0. /\ Len(chain) \in Nat /\ Len(l1) \in Nat /\ l1 \in Seq(Txs) /\ lastConf \in Nat
      /\ chain \in Seq(Blocks) /\ nextId \in Nat \ {0} /\ memTip \in 0..MaxBlocks /\ MaxBlocks \in Nat
      /\ ExtLen \in Nat /\ memDeps \subseteq Deposits
  BY Basics DEF FullInv, IInv, TypeOK, CellTypeOK, ExtLen
<1>1. ExtDisjoint' /\ (UNCHANGED <<memTip, memDeps>> => MemExt')
  BY ExtDisjointStep
<1>2. ExtDisjoint /\ DeadInv /\ MemChain /\ MemExt /\ memTip < nextId /\ savedDeps = {} /\ NoDoubleDeposit
  BY DEF DepInv, MemInv
<1>3. ASSUME UNCHANGED <<memTip, memDeps, savedDeps>>, nextId' \in {nextId, nextId + 1},
             \A n \in 1..Len(chain') : n \in 1..Len(chain) /\ chain'[n] = chain[n]
      PROVE  MemInv' /\ NoDoubleDeposit'
  <2>1. MemChain'
    BY <1>2, <1>3 DEF MemChain
  <2>2. NoDoubleDeposit'
    BY <1>2, <1>3 DEF NoDoubleDeposit
  <2>3. memTip' < nextId'
    BY <1>0, <1>2, <1>3
  <2> QED BY <1>1, <1>2, <1>3, <2>1, <2>2, <2>3 DEF MemInv
<1>4. ASSUME UNCHANGED <<memTip, memDeps, savedDeps, nextId, chain>> PROVE MemInv' /\ NoDoubleDeposit'
  BY <1>3, <1>4
<1>5. CASE SubmitTask
  BY <1>4, <1>5 DEF SubmitTask, SubmitSnap, SubmitCompose, SubmitOversize, SubmitSave,
     SubmitApply, SubmitCheck, SubmitSend, SubmitSendFails, SubmitSendLost
<1>6. CASE ConfirmTask \/ TaskRpcFails
  BY <1>4, <1>6 DEF ConfirmTask, ConfirmSnap, ConfirmPoll, ConfirmResend, ConfirmResendFails, TaskRpcFails
<1>7. ASSUME UNCHANGED <<chain, l1, pool, nextId, savedDeps>>, NEW dead, NotifyNewTip(dead),
             \A n \in 1..Len(chain) : \A d \in chain[n].deps :
                 d \in dead \/ \E i \in 1..Len(l1) : d \in l1[i].blk.deps
      PROVE  MemInv' /\ NoDoubleDeposit'
  <2>1. SamePrefix
    BY SharedPrefix DEF FullInv
  <2>2. MemChain' /\ MemExt' /\ memTip' < nextId'
    BY <1>2, <1>7, <2>1, NotifyDeposits
  <2>3. NoDoubleDeposit'
    BY <1>2, <1>7 DEF NoDoubleDeposit
  <2> QED BY <1>2, <1>7, <2>2, <2>3 DEF MemInv
<1>8. CASE MainLoop
  <2>1. CASE ProduceLocalBlock
    <3>1. PICK b : b = [id |-> nextId, num |-> Len(chain) + 1, par |-> memTip, deps |-> memDeps]
      OBVIOUS
    <3>2. nextId <= MaxBlocks /\ Len(chain) < MaxBlocks
      BY <2>1 DEF ProduceLocalBlock
    <3>3. b \in Blocks /\ b.id = nextId /\ b.deps = memDeps /\ b.par = memTip
      BY <1>0, <3>1, <3>2 DEF Blocks, Ids
    <3>4. /\ memTip = TipId /\ chain' = Append(chain, b) /\ nextId' = nextId + 1
          /\ UNCHANGED <<memTip, memDeps, savedDeps>>
      BY <2>1, <3>1, <3>3 DEF ProduceLocalBlock, ProcessBlock
    <3>5. /\ Len(chain') = Len(chain) + 1 /\ chain'[Len(chain) + 1] = b
          /\ \A n \in 1..Len(chain) : chain'[n] = chain[n]
      BY <3>3, <3>4, AppendedChain DEF FullInv
    <3>6. \A n \in 1..Len(chain') : n \in 1..Len(chain) \/ n = Len(chain) + 1
      BY <1>0, <3>5
    <3>7. \A n \in 1..Len(chain) : chain[n].deps \cap memDeps = {}
      <4>1. CASE Len(chain) = 0
        BY <4>1
      <4>2. CASE Len(chain) # 0
        <5>1. Len(chain) \in 1..Len(chain) /\ chain[Len(chain)].id = memTip
          BY <1>0, <3>4, <4>2, TipIdIs DEF FullInv
        <5> QED BY <1>2, <5>1 DEF MemChain
      <4> QED BY <4>1, <4>2
    <3>8. MemChain'
      <4> SUFFICES ASSUME NEW n \in 1..Len(chain'), chain'[n].id = memTip, NEW i \in 1..n
                   PROVE  chain'[i].deps \cap memDeps = {}
        BY <3>4 DEF MemChain
      <4>1. n # Len(chain) + 1
        BY <1>0, <1>2, <3>3, <3>5
      <4>2. n \in 1..Len(chain) /\ i \in 1..Len(chain)
        BY <1>0, <3>6, <4>1
      <4> QED BY <1>2, <3>5, <4>2 DEF MemChain
    <3>9. NoDoubleDeposit'
      <4> SUFFICES ASSUME NEW i \in 1..Len(chain'), NEW j \in 1..Len(chain'), i # j
                   PROVE  chain'[i].deps \cap chain'[j].deps = {}
        BY DEF NoDoubleDeposit
      <4>1. CASE i \in 1..Len(chain) /\ j \in 1..Len(chain)
        BY <1>2, <3>5, <4>1 DEF NoDoubleDeposit
      <4>2. CASE i = Len(chain) + 1 /\ j \in 1..Len(chain)
        BY <3>3, <3>5, <3>7, <4>2
      <4>3. CASE j = Len(chain) + 1 /\ i \in 1..Len(chain)
        BY <3>3, <3>5, <3>7, <4>3
      <4> QED BY <3>6, <4>1, <4>2, <4>3
    <3>10. memTip' < nextId'
      BY <1>0, <1>2, <3>4
    <3> QED BY <1>1, <1>2, <3>4, <3>8, <3>9, <3>10 DEF MemInv
  <2>2. CASE FinishLocalBlock
    <3>1. PICK dead : dead = deadDeps'
      OBVIOUS
    <3>2. /\ pc = "notify" /\ dead = deadDeps \cup Last(chain).deps /\ NotifyNewTip(dead)
          /\ UNCHANGED <<l1, pool, chain, nextId, savedDeps>>
      BY <2>2, <3>1 DEF FinishLocalBlock
    <3>3. \A n \in 1..Len(chain) - 1 : \A d \in chain[n].deps : Covered(d)
      BY <1>2, <3>2 DEF DeadInv, Running
    <3>4. \A n \in 1..Len(chain) : n \in 1..Len(chain) - 1 \/ n = Len(chain)
      BY <1>0
    <3>5. \A n \in 1..Len(chain) : \A d \in chain[n].deps :
             d \in dead \/ \E i \in 1..Len(l1) : d \in l1[i].blk.deps
      BY <3>2, <3>3, <3>4 DEF Covered, Last
    <3> QED BY <1>7, <3>2, <3>5
  <2>3. CASE SpawnSubmit \/ SpawnConfirm \/ BlockSubmitted \/ BlockConfirmed
    BY <1>4, <2>3 DEF SpawnSubmit, SpawnConfirm, BlockSubmitted, BlockConfirmed
  <2>4. CASE TaskShouldRevert \/ TaskShouldResync \/ SignalRevertLocal \/ SignalRevertSubmitted
    BY <1>4, <2>4 DEF TaskShouldRevert, TaskShouldResync, SignalRevertLocal, SignalRevertSubmitted,
       RaiseRevert
  <2> QED BY <1>8, <2>1, <2>2, <2>3, <2>4 DEF MainLoop
<1>9. ASSUME NEW k \in Nat, Detach(k), UNCHANGED <<memTip, memDeps, savedDeps, nextId>>
      PROVE  MemInv' /\ NoDoubleDeposit'
  <2>1. \A n \in 1..Len(chain') : n \in 1..Len(chain) /\ chain'[n] = chain[n]
    BY <1>9, DetachedChain DEF FullInv
  <2> QED BY <1>3, <1>9, <2>1
<1>10. CASE Resynchronise
  <2>1. CASE Revert
    <3>1. target - 1 \in Nat
      BY <2>1 DEF Revert, FullInv, IInv, SyncInv, TypeOK, MainTypeOK
    <3> QED BY <1>9, <2>1, <3>1 DEF Revert
  <2>2. CASE SyncFork
    <3>1. PICK m \in 0..lastConf, k \in 0..MaxBlocks : Detach(m + k)
      BY <2>2 DEF SyncFork
    <3>2. m + k \in Nat
      BY <1>0
    <3> QED BY <1>9, <2>2, <3>1, <3>2 DEF SyncFork
  <2>3. CASE SyncUpdate
    <3>1. pc = "update" /\ UNCHANGED <<memTip, memDeps, savedDeps, nextId>>
      BY <2>3 DEF SyncUpdate
    <3>2. CASE UNCHANGED chain
      BY <1>4, <3>1, <3>2
    <3>3. CASE pc' = "update"
      <4>0. Len(l1') \in Nat /\ Len(pool') \in Nat /\ Len(chain') \in Nat
        <5>1. Lengths'
          BY LengthsAreNat, PTL DEF FullInv
        <5> QED BY <5>1 DEF Lengths
      <4>1. \A n \in 1..Len(chain') : n <= Len(l1') /\ l1'[n].blk = chain'[n]
        BY <3>3 DEF FullInv, L1Inv, AdoptInv
      <4>2. \A n \in 1..Len(chain') : n \in 1..ExtLen' /\ Ext(n)' = chain'[n]
        BY <4>0, <4>1 DEF Ext, ExtLen
      <4>3. NoDoubleDeposit'
        BY <1>1, <4>2 DEF ExtDisjoint, NoDoubleDeposit
      <4>4. MemExt'
        BY <1>1, <3>1
      <4>5. MemChain'
        <5> SUFFICES ASSUME NEW n \in 1..Len(chain'), chain'[n].id = memTip', NEW i \in 1..n
                     PROVE  chain'[i].deps \cap memDeps' = {}
          BY DEF MemChain
        <5>1. i \in 1..Len(chain')
          BY <4>0
        <5> QED BY <4>2, <4>4, <5>1 DEF MemExt
      <4> QED BY <1>2, <3>1, <4>3, <4>4, <4>5 DEF MemInv
    <3> QED BY <2>3, <3>1, <3>2, <3>3 DEF SyncUpdate
  <2>4. CASE LateSave \/ SyncKnown \/ SyncPage \/ SyncFails
    BY <1>4, <2>4 DEF LateSave, SyncKnown, SyncPage, SyncFails
  <2>5. CASE Reset
    <3>1. PICK dead : dead = deadDeps'
      OBVIOUS
    <3>2. /\ dead = DepositsOf(lastConf + 1, Len(chain)) /\ NotifyNewTip(dead)
          /\ UNCHANGED <<l1, pool, chain, nextId, savedDeps>>
      BY <2>5, <3>1 DEF Reset
    <3>3. ASSUME NEW n \in 1..Len(chain), NEW d \in chain[n].deps
          PROVE  d \in dead \/ \E i \in 1..Len(l1) : d \in l1[i].blk.deps
      <4>1. CASE n \in 1..lastConf
        <5>1. n <= Len(l1) /\ l1[n].blk = chain[n]
          BY <4>1 DEF FullInv, L1Inv, ConfirmedOnL1
        <5>2. n \in 1..Len(l1)
          BY <1>0, <5>1
        <5> QED BY <3>3, <5>1, <5>2
      <4>2. CASE n \in lastConf + 1..Len(chain)
        BY <3>2, <3>3, <4>2 DEF DepositsOf
      <4> QED BY <1>0, <4>1, <4>2
    <3> QED BY <1>7, <3>2, <3>3
  <2> QED BY <1>10, <2>1, <2>2, <2>3, <2>4, <2>5 DEF Resynchronise
<1>11. CASE Process
  <2>1. ~Stop
    BY DEF Stop, Fault, NoStop
  <2>2. Boot(savedDeps)
    BY <1>11, <2>1 DEF Process, Kill, Reboot
  <2>3. memDeps' = {} /\ savedDeps' = {} /\ memTip' = TipId /\ UNCHANGED <<l1, pool, chain, nextId>>
    BY <1>2, <2>2 DEF Boot
  <2>4. TipId < nextId
    <3>1. CASE Len(chain) = 0
      BY <1>0, <3>1, TipIdIs DEF FullInv
    <3>2. CASE Len(chain) # 0
      <4>1. Len(chain) \in 1..Len(chain)
        BY <1>0, <3>2
      <4>2. chain[Len(chain)] \in KnownBlocks
        BY <4>1 DEF KnownBlocks
      <4> QED BY <3>2, <4>2, TipIdIs DEF FullInv, LinkInv, UniqueIds
    <3> QED BY <3>1, <3>2
  <2>5. MemChain' /\ MemExt'
    BY <2>3 DEF MemChain, MemExt
  <2>6. NoDoubleDeposit'
    BY <1>2, <2>3 DEF NoDoubleDeposit
  <2> QED BY <2>3, <2>4, <2>5, <2>6 DEF MemInv
<1>12. CASE Layer1
  <2>1. /\ UNCHANGED <<memTip, memDeps, savedDeps, chain>> /\ nextId' \in {nextId, nextId + 1}
    BY <1>12 DEF Layer1, MinerCommits, PoolDrops, ChainReorgs, OwnerCancels, ForeignSubmits
  <2> QED BY <1>3, <2>1
<1>13. CASE UNCHANGED vars
  BY <1>4, <1>13 DEF vars
<1> QED BY <1>5, <1>6, <1>8, <1>10, <1>11, <1>12, <1>13 DEF Next

\* No two attached blocks process the same deposit cell although a block's deposits
\* are chosen while earlier blocks are only local, submitted, just confirmed,
\* reverted or adopted from layer 1.
THEOREM DepositsProcessedOnce ==
    ASSUME QuietL1, PromptAbort, NoStop PROVE Spec => []NoDoubleDeposit
<1>1. Init => DepInv
  <2> SUFFICES ASSUME Init PROVE DepInv
    OBVIOUS
  <2>1. Len(<<>>) = 0
    BY EmptySeq
  <2>2. /\ Len(chain) = 0 /\ Len(l1) = 0 /\ Len(pool) = 0 /\ pc = "sync" /\ memTip = 0 /\ nextId = 1
        /\ savedDeps = {}
    BY <2>1 DEF Init, CkbInit
  <2>3. ExtDisjoint /\ MemExt
    BY <2>2 DEF ExtDisjoint, MemExt, ExtLen
  <2> QED BY <2>2, <2>3 DEF DepInv, DeadInv, MemInv, MemChain, NoDoubleDeposit, Running
<1>2. FullInv /\ FullInv' /\ DepInv /\ [Next]_vars => DepInv'
  BY ExtDisjointStep, DeadStep, DepositStep DEF DepInv
<1>3. DepInv => NoDoubleDeposit
  BY DEF DepInv
<1> QED BY <1>1, <1>2, <1>3, LedgerInductive, PTL DEF Spec

=============================================================================
