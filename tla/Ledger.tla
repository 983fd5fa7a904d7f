------------------------------- MODULE Ledger -------------------------------
(***************************************************************************)
(* What a full node promises about its local chain, seen from outside: an  *)
(* abstract specification of psc.rs and sync_l1.rs without their tasks,    *)
(* counters, cells and mem pool.                                           *)
(*                                                                         *)
(*   - While the loop runs the chain only grows and each pointer moves one *)
(*     block at a time: the submitted pointer up to the tip, the confirmed *)
(*     pointer up to the submitted one and only over a block that layer 1  *)
(*     holds at that number.                                               *)
(*   - Blocks disappear and pointers move back only while the node         *)
(*     synchronises with layer 1, which it leaves with both pointers on    *)
(*     the same block.                                                     *)
(*                                                                         *)
(* Psc implements this specification when layer 1 does not reorganise      *)
(* (property LedgerSpec); BlockSync builds the full node that feeds its    *)
(* read-only nodes out of the actions below.                               *)
(***************************************************************************)
EXTENDS Integers, Sequences, SequencesExt

CONSTANT Block      \* blocks: records with an identity id and a parent identity par

VARIABLES
    l1,             \* blocks submitted on layer 1, oldest first
    chain,          \* attached local blocks; genesis (identity 0) is implicit
    lastSub,        \* last submitted block number
    lastConf,       \* last confirmed block number
    mode            \* "loop", or "sync" from an error or a restart until sync_l1 is done

ledgerVars == <<l1, chain, lastSub, lastConf, mode>>

IdAt(s, n) == IF n = 0 THEN 0 ELSE s[n].id

TipOf(s) == IdAt(s, Len(s))

Below(pointer, k) == IF pointer > k THEN k ELSE pointer

LedgerInit == l1 = <<>> /\ chain = <<>> /\ lastSub = 0 /\ lastConf = 0 /\ mode = "sync"

\* Layer 1 accepts a block that extends its newest one, whoever made it.
L1Accepts(b) ==
    /\ b.par = TipOf(l1)
    /\ l1' = Append(l1, b)
    /\ UNCHANGED <<chain, lastSub, lastConf, mode>>

Produce(b) ==
    /\ mode = "loop"
    /\ b.par = TipOf(chain)
    /\ chain' = Append(chain, b)
    /\ UNCHANGED <<l1, lastSub, lastConf, mode>>

Submit ==
    /\ mode = "loop" /\ lastSub < Len(chain)
    /\ lastSub' = lastSub + 1
    /\ UNCHANGED <<l1, chain, lastConf, mode>>

Confirm ==
    /\ mode = "loop" /\ lastConf < lastSub
    /\ lastConf < Len(l1) /\ l1[lastConf + 1] = chain[lastConf + 1]
    /\ lastConf' = lastConf + 1
    /\ UNCHANGED <<l1, chain, lastSub, mode>>

\* An error of a task, a signal, or a restart of the process.
StartSync ==
    /\ mode = "loop" /\ mode' = "sync"
    /\ UNCHANGED <<l1, chain, lastSub, lastConf>>

\* sync_l1::revert: blocks above k are detached, pointers follow.
Rewind(k) ==
    /\ mode = "sync" /\ k <= Len(chain)
    /\ chain' = SubSeq(chain, 1, k)
    /\ lastSub' = Below(lastSub, k) /\ lastConf' = Below(lastConf, k)
    /\ UNCHANGED <<l1, mode>>

\* Layer 1 holds known blocks only: they are the confirmed ones, local blocks stay.
Known ==
    /\ mode = "sync" /\ IsPrefix(l1, chain)
    /\ lastConf' = Len(l1) /\ lastSub' = Len(l1)
    /\ UNCHANGED <<l1, chain, mode>>

\* The next block of layer 1 is unknown and is attached.
Adopt ==
    /\ mode = "sync" /\ IsStrictPrefix(chain, l1)
    /\ chain' = Append(chain, l1[Len(chain) + 1])
    /\ lastConf' = Len(chain) + 1 /\ lastSub' = Len(chain) + 1
    /\ UNCHANGED <<l1, mode>>

Resume ==
    /\ mode = "sync" /\ lastSub = lastConf
    /\ mode' = "loop"
    /\ UNCHANGED <<l1, chain, lastSub, lastConf>>

LedgerNext ==
    \/ \E b \in Block : L1Accepts(b) \/ Produce(b)
    \/ Submit \/ Confirm
    \/ StartSync \/ (\E k \in 0..Len(chain) : Rewind(k)) \/ Known \/ Adopt \/ Resume

LedgerSpecification == LedgerInit /\ [][LedgerNext]_ledgerVars
=============================================================================
