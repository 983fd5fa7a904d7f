---------------------------- MODULE RollupChain ----------------------------
(***************************************************************************)
(* What the layer-1 scripts promise a node that follows them: a chain of   *)
(* blocks that grows at its end, is frozen while one of its blocks is      *)
(* challenged, and loses that block and every later one or nothing when    *)
(* the challenge ends.  Finality, stakes, assets and time are left out.    *)
(* Rollup implements this specification; ChainSync builds on it.           *)
(*                                                                         *)
(* A block is its index in `right`.                                        *)
(***************************************************************************)
EXTENDS Integers, Sequences

CONSTANTS MaxBlocks,        \* bound: blocks ever submitted, genesis included
          MaxReverted       \* blocks that one revert transaction can take back

ASSUME ChainConstants == MaxBlocks \in Nat \ {0} /\ MaxReverted \in Nat \ {0}

VARIABLES right,    \* for every submitted block, whether its execution is right
          chain,    \* GlobalState.block and tip_block_hash
          halted,   \* the challenged block while status is Halting, 0 otherwise
          undone    \* GlobalState.reverted_block_root

rollupVars == <<right, chain, halted, undone>>

Genesis == 1
Blocks  == 1..MaxBlocks

Last(s)     == s[Len(s)]
Elements(s) == {s[i] : i \in 1..Len(s)}
PositionOf(b, s) == CHOOSE i \in 1..Len(s) : s[i] = b

ChainInit ==
    /\ right = <<TRUE>>
    /\ chain = <<Genesis>>
    /\ halted = 0
    /\ undone = {}

AddBlock(ok) ==
    /\ halted = 0
    /\ Len(right) < MaxBlocks
    /\ right' = Append(right, ok)
    /\ chain' = Append(chain, Len(right) + 1)
    /\ UNCHANGED <<halted, undone>>

Challenge(b) ==
    /\ halted = 0
    /\ b \in Elements(chain) \ {Genesis}
    /\ halted' = b
    /\ UNCHANGED <<right, chain, undone>>

\* The challenge of a block that executes as it should can be answered.
Cancel ==
    /\ halted # 0 /\ right[halted]
    /\ halted' = 0
    /\ UNCHANGED <<right, chain, undone>>

From(b) == SubSeq(chain, PositionOf(b, chain), Len(chain))

Undo ==
    /\ halted # 0
    /\ Len(From(halted)) <= MaxReverted
    /\ chain' = SubSeq(chain, 1, PositionOf(halted, chain) - 1)
    /\ undone' = undone \cup Elements(From(halted))
    /\ halted' = 0
    /\ UNCHANGED right

ChainNext ==
    \/ \E ok \in BOOLEAN : AddBlock(ok)
    \/ \E b \in Blocks : Challenge(b)
    \/ Cancel
    \/ Undo

ChainSpecification == ChainInit /\ [][ChainNext]_rollupVars

=============================================================================
