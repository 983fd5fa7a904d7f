----------------------------- MODULE ChainSync -----------------------------
(***************************************************************************)
(* A node that follows the rollup cell through good and bad blocks,        *)
(* challenges, cancellations and reverts: Chain::update_l1action and       *)
(* revert_l1action, the bad-block part of the store, the passes of         *)
(* sync_l1, the challenger, and the rewind-to-last-valid-block command.    *)
(*                                                                         *)
(* `log` is the list of transactions of the rollup cell.  A pass of        *)
(* sync_l1 starts after the submission of the last confirmed block and     *)
(* applies one transaction after another; an error (or a panic in the      *)
(* blocking task that applies it) ends the pass, and sync_l1 starts over.  *)
(* Reorganisations of layer 1 and the node's own unconfirmed blocks are    *)
(* the subject of Psc.                                                     *)
(***************************************************************************)
EXTENDS RollupChain

CONSTANTS Version,          \* GlobalState.version of the rollup cell
          MaxDisturbances   \* bound: restarts and challenges by others

ASSUME VersionAssumption == Version \in 0..2
ASSUME DisturbancesAssumption == MaxDisturbances \in Nat

VARIABLES log,      \* rollup transactions on layer 1, oldest first
          db,       \* the store
          mem,      \* Chain: local_state, challenge_target, last_sync_event
          pos,      \* rollup transactions seen by the current pass, or Idle
          failed,   \* the last pass that ended was an error
          disturbed \* how many disturbances there were

nodeVars == <<db, mem, pos, failed>>
vars == <<rollupVars, log, db, mem, pos, failed, disturbed>>

Idle == -1

\* What a rollup transaction leaves in the rollup cell, and what it is about.
GenesisState == [kind |-> "submit", block |-> Genesis, blocks |-> <<>>,
                 chain |-> <<Genesis>>, halted |-> 0, undone |-> {}]

Record(kind, b, bs) ==
    log' = Append(log, [kind |-> kind, block |-> b, blocks |-> bs,
                        chain |-> chain', halted |-> halted', undone |-> undone'])

SubmitAt(b) == IF b = Genesis THEN 0
               ELSE CHOOSE i \in 1..Len(log) : log[i].kind = "submit" /\ log[i].block = b

\* get_block_post_global_state
PostState(b) == IF b = Genesis THEN GenesisState ELSE log[SubmitAt(b)]

\* The ancestors of b, which every block names by its parent hash.
PathOf(b) == PostState(b).chain
Number(b) == Len(PathOf(b)) - 1
Parent(b) == PathOf(b)[Number(b)]

Success == [kind |-> "Success", block |-> 0, cell |-> 0, blocks |-> <<>>, root |-> {}]

-----------------------------------------------------------------------------
(* Bad blocks in the store.                                                *)

\* insert_bad_block: it enters the block tree and becomes the tip.
InsertBadBlock(d, b) ==
    [d EXCEPT !.bad = @ \cup {b}, !.smt = @ \cup {b}, !.tip = b]

\* Mutant: an attached block is missing from the block tree.
AttachBlockNoTree(d, b) == [d EXCEPT !.valid = Append(@, b), !.tip = b]

AttachBlock(d, b) ==
    [d EXCEPT !.valid = Append(@, b), !.smt = @ \cup {b}, !.tip = b]

RevertBadBlocks(d, bs) ==
    [d EXCEPT !.smt = @ \ Elements(bs), !.rsmt = @ \cup Elements(bs), !.tip = Parent(bs[1])]

\* package_bad_blocks: from the tip down to the start block, all of them bad.
PackageBadBlocks(b) == SubSeq(PathOf(db.tip), Number(b) + 1, Number(db.tip) + 1)

Packageable(b) ==
    /\ b \in db.bad
    /\ b \in Elements(PathOf(db.tip))
    /\ Elements(PackageBadBlocks(b)) \subseteq db.bad

-----------------------------------------------------------------------------
(* Chain::update_l1action for the next transaction, case by case.          *)

InPass == pos # Idle /\ pos < Len(log)
Action == log[pos + 1]
Running == mem.state.halted = 0

Applied(d, m) ==
    /\ db' = d
    /\ mem' = m
    /\ pos' = pos + 1
    /\ UNCHANGED <<rollupVars, log, failed, disturbed>>

\* "fork detected" and the assertion on the reverted block root.
Extends ==
    /\ Running /\ Action.kind = "submit"
    /\ Parent(Action.block) = mem.tip
    /\ db.rsmt = Action.undone

\* Mutant: a new bad block replaces the target.
KnownTargetNewest(b) == IF mem.target # 0 \/ b \in db.targets THEN b ELSE 0

\* The target a block inherits: the one in memory, or the one stored with it.
KnownTarget(b) ==
    IF mem.target # 0 THEN mem.target ELSE IF b \in db.targets THEN b ELSE 0

\* Mutant: the proof is made from the block tree without the new block.
BadBlockEventEarly(d, t) ==
    [Success EXCEPT !.kind = "BadBlock", !.block = t, !.root = d.smt \ {d.tip}]

BadBlockEvent(d, t) ==
    [Success EXCEPT !.kind = "BadBlock", !.block = t, !.root = d.smt]

SubmitsValid == Extends /\ KnownTarget(Action.block) = 0 /\ right[Action.block]

UpdateValidBlock ==
    /\ InPass /\ SubmitsValid
    /\ Applied(AttachBlock(db, Action.block),
               [tip |-> Action.block, state |-> Action, target |-> 0, event |-> Success])

SubmitsBad ==
    /\ Extends
    /\ KnownTarget(Action.block) # 0 \/ ~right[Action.block]
    /\ InsertBadBlock(db, Action.block).smt = Elements(Action.chain)

UpdateBadBlock ==
    LET b == Action.block
        new == KnownTarget(b) = 0
        t == IF new THEN b ELSE KnownTarget(b)
        d == InsertBadBlock(db, b)
    IN  /\ InPass /\ SubmitsBad
        /\ Applied([d EXCEPT !.targets = IF new THEN @ \cup {b} ELSE @],
                   [tip |-> b, state |-> Action, target |-> t, event |-> BadBlockEvent(d, t)])

\* get_block_number of the local bad block: the index has attached blocks only.
BadBlockAbove(b) == mem.target \in Elements(db.valid) /\ Number(mem.target) > Number(b)

\* Mutant: a challenge of the tip is not among them.
CancelableBelowTip(b) == (mem.target = 0 /\ Number(mem.tip) > Number(b)) \/ BadBlockAbove(b)

Cancelable(b) == (mem.target = 0 /\ Number(mem.tip) >= Number(b)) \/ BadBlockAbove(b)

Challenged == Running /\ Action.kind = "challenge" /\ Elements(Action.chain) = db.smt

BadChallenged ==
    Challenged /\ Cancelable(Action.block) /\ Action.block \in Elements(db.valid)

UpdateBadChallenge ==
    /\ InPass /\ BadChallenged
    /\ Applied(db, [mem EXCEPT !.state = Action,
                      !.event = [Success EXCEPT !.kind = "BadChallenge",
                                                !.block = Action.block, !.cell = pos + 1]])

\* build_revert_context reads the new tip with get_block.
WaitsForRevert ==
    /\ Challenged /\ ~Cancelable(Action.block) /\ mem.target # 0
    /\ Packageable(Action.block)
    /\ Parent(Action.block) \in Elements(db.valid)

UpdateWaitChallenge ==
    /\ InPass /\ WaitsForRevert
    /\ Applied(db, [mem EXCEPT !.state = Action,
                      !.event = [Success EXCEPT !.kind = "WaitChallenge",
                                                !.block = Action.block, !.cell = pos + 1,
                                                !.blocks = PackageBadBlocks(Action.block)]])

EventAfter(d, t) == IF t = 0 THEN Success ELSE BadBlockEvent(d, t)

Cancelled == ~Running /\ Action.kind = "cancel"

UpdateCancel ==
    /\ InPass /\ Cancelled
    /\ Applied(db, [mem EXCEPT !.state = Action, !.event = EventAfter(db, mem.target)])

\* The assertions on numbers, on the blocks and on the roots after the revert.
Reverted ==
    /\ ~Running /\ Action.kind = "revert"
    /\ mem.target # 0
    /\ Number(Action.block) >= Number(mem.target)
    /\ Packageable(Action.block)
    /\ PackageBadBlocks(Action.block) = Action.blocks
    /\ LET d == RevertBadBlocks(db, Action.blocks)
       IN  d.rsmt = Action.undone /\ d.smt = Elements(Action.chain) /\ d.tip = Last(Action.chain)

UpdateRevert ==
    LET d == RevertBadBlocks(db, Action.blocks)
        t == IF Action.block = mem.target THEN 0 ELSE mem.target
    IN  /\ InPass /\ Reverted
        /\ Applied(d, [tip |-> d.tip, state |-> Action, target |-> t, event |-> EventAfter(d, t)])

\* Everything else is an error or a panic; the database transaction is gone.
UpdateFails ==
    /\ InPass
    /\ ~(SubmitsValid \/ SubmitsBad \/ BadChallenged \/ WaitsForRevert \/ Cancelled \/ Reverted)
    /\ pos' = Idle
    /\ failed' = TRUE
    /\ UNCHANGED <<rollupVars, log, db, mem, disturbed>>

-----------------------------------------------------------------------------
(* Passes, restarts, the operator.                                         *)

StartPass ==
    /\ pos = Idle
    /\ pos' = SubmitAt(Last(db.valid))
    /\ UNCHANGED <<rollupVars, log, db, mem, failed, disturbed>>

EndPass ==
    /\ pos = Len(log)
    /\ pos' = Idle
    /\ failed' = FALSE
    /\ UNCHANGED <<rollupVars, log, db, mem, disturbed>>

\* Chain::create
Created(d) == [tip |-> d.tip, state |-> PostState(d.tip), target |-> 0, event |-> Success]

Restart ==
    /\ disturbed < MaxDisturbances
    /\ disturbed' = disturbed + 1
    /\ mem' = Created(db)
    /\ pos' = Idle
    /\ UNCHANGED <<rollupVars, log, db, failed>>

\* RewindToLastValidTip: reverts are taken out of the reverted tree one after
\* the other until its root is the one of the last valid block.
Rewound(d) ==
    LET gone == Elements(PathOf(d.tip)) \ Elements(d.valid)
    IN  [d EXCEPT !.bad = @ \ gone, !.smt = @ \ gone, !.targets = @ \ gone,
                  !.rsmt = PostState(Last(d.valid)).undone, !.tip = Last(d.valid)]

\* The operator stops a node that cannot follow, rewinds it and starts it.
Rewind ==
    /\ failed
    /\ db' = Rewound(db)
    /\ mem' = Created(Rewound(db))
    /\ pos' = Idle
    /\ failed' = FALSE
    /\ UNCHANGED <<rollupVars, log, disturbed>>

-----------------------------------------------------------------------------
(* Challenger::handle_event.  A transaction whose proof or challenge cell  *)
(* is out of date does not pass the dry run.                               *)

ChallengeBlock ==
    /\ mem.event.kind = "BadBlock"
    /\ mem.event.root = Elements(chain)
    /\ Challenge(mem.event.block)
    /\ Record("challenge", mem.event.block, <<>>)
    /\ UNCHANGED <<nodeVars, disturbed>>

CancelChallenge ==
    /\ mem.event.kind = "BadChallenge"
    /\ halted # 0 /\ mem.event.cell = Len(log)
    /\ Cancel
    /\ Record("cancel", halted, <<>>)
    /\ UNCHANGED <<nodeVars, disturbed>>

\* The rollup input of the node's revert carries no since.  From version 2 on the
\* state validator takes the new timepoint from it and refuses the transaction.
RevertPassesDryRun == Version < 2

RevertBlocks ==
    /\ mem.event.kind = "WaitChallenge"
    /\ RevertPassesDryRun
    /\ halted # 0 /\ mem.event.cell = Len(log)
    /\ mem.event.blocks = From(halted)
    /\ Undo
    /\ Record("revert", halted, mem.event.blocks)
    /\ UNCHANGED <<nodeVars, disturbed>>

Challenger == ChallengeBlock \/ CancelChallenge \/ RevertBlocks

-----------------------------------------------------------------------------
(* Others, and the node's own blocks.                                      *)

\* Another producer's block.
ForeignBlock(ok) ==
    /\ AddBlock(ok)
    /\ Record("submit", Len(right) + 1, <<>>)
    /\ UNCHANGED <<nodeVars, disturbed>>

\* A block of this node: produced, submitted and confirmed without a pass.
OwnBlock ==
    LET b == Len(right) + 1
    IN  /\ pos = Idle /\ ~failed
        /\ mem.tip = Last(db.valid) /\ mem.tip = Last(chain)
        /\ db.rsmt = undone
        /\ AddBlock(TRUE)
        /\ Record("submit", b, <<>>)
        /\ db' = AttachBlock(db, b)
        /\ mem' = [mem EXCEPT !.tip = b, !.state = Last(log')]
        /\ UNCHANGED <<pos, failed, disturbed>>

ForeignChallenge(b) ==
    /\ disturbed < MaxDisturbances
    /\ disturbed' = disturbed + 1
    /\ Challenge(b)
    /\ Record("challenge", b, <<>>)
    /\ UNCHANGED nodeVars

ForeignCancel ==
    /\ Cancel
    /\ Record("cancel", halted, <<>>)
    /\ UNCHANGED <<nodeVars, disturbed>>

ForeignRevert ==
    /\ Undo
    /\ Record("revert", halted, From(halted))
    /\ UNCHANGED <<nodeVars, disturbed>>

-----------------------------------------------------------------------------
InitDb == [valid |-> <<Genesis>>, tip |-> Genesis, bad |-> {}, smt |-> {Genesis},
           rsmt |-> {}, targets |-> {}]

Init ==
    /\ ChainInit
    /\ log = <<>>
    /\ db = InitDb
    /\ mem = [tip |-> Genesis, state |-> GenesisState, target |-> 0, event |-> Success]
    /\ pos = Idle
    /\ failed = FALSE
    /\ disturbed = 0

Update ==
    \/ UpdateValidBlock
    \/ UpdateBadBlock
    \/ UpdateBadChallenge
    \/ UpdateWaitChallenge
    \/ UpdateCancel
    \/ UpdateRevert
    \/ UpdateFails

Pass == StartPass \/ Update \/ EndPass

Next ==
    \/ Pass
    \/ Restart
    \/ Rewind
    \/ Challenger
    \/ \E ok \in BOOLEAN : ForeignBlock(ok)
    \/ OwnBlock
    \/ \E b \in Blocks : ForeignChallenge(b)
    \/ ForeignCancel
    \/ ForeignRevert

Spec == Init /\ [][Next]_vars

\* sync_l1 retries, a node whose submissions fail resynchronises, and the
\* challenger looks at the event whenever layer 1 has a new block.
FairSpec == Spec /\ WF_vars(Pass) /\ SF_vars(ChallengeBlock) /\ SF_vars(CancelChallenge)

-----------------------------------------------------------------------------
\* A node that has applied every rollup transaction agrees with the rollup
\* cell: tip, block tree, reverted tree and status; and its state is the one
\* after the longest right prefix of the chain, whatever bad blocks,
\* challenges, reverts, restarts and rewinds there were.
FollowsL1 ==
    pos = Len(log) =>
        /\ mem.tip = Last(chain) /\ db.tip = Last(chain)
        /\ db.smt = Elements(chain) /\ db.rsmt = undone
        /\ mem.state.halted = halted
        /\ IF mem.target = 0
           THEN db.valid = chain
           ELSE db.valid = SubSeq(chain, 1, PositionOf(mem.target, chain) - 1)

WrongIn(s) == {i \in 1..Len(s) : ~right[s[i]]}

\* The node challenges only wrong blocks, and takes part in reverting a block
\* only when that block or one before it is wrong, even when its view is old.
ActsOnWrongBlocks ==
    [][/\ ChallengeBlock => ~right[mem.event.block]
       /\ RevertBlocks => \E i \in WrongIn(chain) : i <= PositionOf(halted, chain)]_vars

FirstWrong(b, s) ==
    \E i \in WrongIn(s) : s[i] = b /\ \A j \in WrongIn(s) : i <= j

\* The transactions after the last block that the node has found to be right.
Unconfirmed == SubSeq(log, SubmitAt(Last(db.valid)) + 1, Len(log))

\* A node that starts on a bad block does not know the target any more.
TargetForgotten == db.tip \in db.bad /\ mem.target = 0

\* A wrong block at the end of a chain that saw nothing but submissions since the
\* last right block gets challenged, whatever passes and restarts there are before
\* the challenger acts, unless a block comes on top of it first or the node was
\* started again on the bad block.
WrongBlockChallenged ==
    \A b \in Blocks :
        (/\ FirstWrong(b, chain) /\ b = Last(chain)
         /\ \A i \in 1..Len(Unconfirmed) : Unconfirmed[i].kind = "submit")
            ~> (halted # 0 \/ b # Last(chain) \/ TargetForgotten)

\* A challenge does not halt a chain of right blocks for ever when it is the first
\* one since the last block that the node has confirmed.
RightChainFreed ==
    (/\ halted # 0 /\ WrongIn(chain) = {}
     /\ \A i \in 1..Len(Unconfirmed) - 1 : Unconfirmed[i].kind # "challenge")
        ~> (halted = 0)

=============================================================================
