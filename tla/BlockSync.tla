----------------------------- MODULE BlockSync -----------------------------
(***************************************************************************)
(* How a read-only node follows a full node                                *)
(* (mem-pool/src/block_sync_server.rs, block-producer/src/                 *)
(* block_sync_client.rs): the full node of Ledger publishes what it does   *)
(* to a buffer of recent messages and to the sessions that subscribed; the *)
(* read-only node synchronises with layer 1, asks for the messages after   *)
(* its last confirmed block, and applies what it receives to its own store.*)
(*                                                                         *)
(* One read-only node is modelled: nodes do not affect the server or each  *)
(* other.  Messages of a session are delivered in order; a session that    *)
(* lags too far behind, or breaks, loses its newest messages and ends.     *)
(* A message names its block by number and identity (hash).                *)
(***************************************************************************)
EXTENDS Ledger, FiniteSets, FiniteSetsExt

CONSTANTS
    BufferCapacity,     \* SyncServerConfig.buffer_capacity
    ChannelCapacity,    \* messages a session may lag behind
    SkipLength,         \* length of the receive buffer that makes the client skip
    MaxBlocks,          \* bound: blocks ever created
    MaxEvents           \* bound: transactions, crashes, broken sessions, signals, foreign blocks

ASSUME BlockSyncAssumption ==
    /\ BufferCapacity \in Nat /\ ChannelCapacity \in Nat \ {0} /\ SkipLength \in Nat \ {0}
    /\ MaxBlocks \in Nat \ {0} /\ MaxEvents \in Nat
    /\ Block = [id : 1..MaxBlocks, par : 0..MaxBlocks]

NoHash == -1        \* the all-zero hash under which a mem block is buffered

VARIABLES
    booting,        \* the process restarted and ProduceSubmitConfirm::init is not done
    pend,           \* the block that is published but not committed, <<>> or <<b>>
    buffer,         \* BlockSyncServerState.buffer: block number -> hash and messages
    sent            \* blocks whose submission was sent to layer 1

serverVars == <<booting, pend, buffer, sent>>

VARIABLES
    cstate,         \* read-only node: "sync" (sync_l1), "ask", "stream"
    session,        \* its subscription is alive
    chan,           \* messages sent to it that it has not applied
    cchain,         \* its store: attached blocks ...
    cSub, cConf,    \* ... last submitted and last confirmed block number ...
    cTx,            \* ... and the block numbers that have a submit tx hash
    stale           \* history: its session began with blocks the full node had reverted

clientVars == <<cstate, session, chan, cchain, cSub, cConf, cTx, stale>>

VARIABLES nextId, events

vars == <<ledgerVars, serverVars, clientVars, nextId, events>>

(***************************************************************************)
(* Messages of the block_sync schema.                                      *)
(***************************************************************************)
Msg(kind, n, b) == [kind |-> kind, num |-> n, blk |-> b]

\* The identity a message about the block at number n of the local chain carries.
About(kind, n) == Msg(kind, n, [id |-> IdAt(chain, n), par |-> 0])

LocalBlock(n, b) == Msg("local", n, b)

\* A mem block for the successor of block n, built on that block.
NextMemBlock(s) == Msg("mem", Len(s) + 1, [id |-> 0, par |-> TipOf(s)])

Init ==
    /\ LedgerInit
    /\ booting = TRUE /\ pend = <<>> /\ buffer = <<>> /\ sent = {}
    /\ cstate = "sync" /\ session = FALSE /\ chan = <<>>
    /\ cchain = <<>> /\ cSub = 0 /\ cConf = 0 /\ cTx = {} /\ stale = FALSE
    /\ nextId = 1 /\ events = 0

\* What comes from outside happens so often only.
Event == events < MaxEvents /\ events' = events + 1

(***************************************************************************)
(* Server: buffer and subscriptions.                                       *)
(***************************************************************************)
Entry(hash, msgs) == [hash |-> hash, msgs |-> msgs]

\* BTreeMap::insert.
Put(f, n, e) == [m \in DOMAIN f \cup {n} |-> IF m = n THEN e ELSE f[m]]

PutLocal(f, n, b) == Put(f, n, Entry(b.id, <<LocalBlock(n, b)>>))

PutMem(f, s) == Put(f, Len(s) + 1, Entry(NoHash, <<NextMemBlock(s)>>))

\* A message about block n joins the entry of its number, if there is one.
Extend(f, n, msg) ==
    IF n \in DOMAIN f THEN [f EXCEPT ![n].msgs = Append(@, msg)] ELSE f

\* The one way to list the k elements of S in the order of lt.
Listings(S, k, lt(_, _)) ==
    {at \in IF Cardinality(S) = k THEN [1..k -> S] ELSE {} :
        \A i, j \in 1..k : i < j => lt(at[i], at[j])}

From(f, n) == [m \in {k \in DOMAIN f : k >= n} |-> f[m]]

UpTo(f, n) == [m \in {k \in DOMAIN f : k <= n} |-> f[m]]

\* Mutant: a session that lags goes on without the messages it missed.
BroadcastLossy(msgs) ==
    /\ chan' = IF session /\ Len(chan) + Len(msgs) <= ChannelCapacity THEN chan \o msgs ELSE chan
    /\ UNCHANGED session

\* tx.send: every live subscriber gets the messages; one that lags is closed.
Broadcast(msgs) ==
    IF session /\ Len(chan) + Len(msgs) > ChannelCapacity
    THEN session' = FALSE /\ UNCHANGED chan
    ELSE chan' = (IF session THEN chan \o msgs ELSE chan) /\ UNCHANGED session

clientStore == <<cstate, cchain, cSub, cConf, cTx, stale>>

(***************************************************************************)
(* Server: the full node.                                                  *)
(***************************************************************************)
Serving == mode = "loop" /\ pend = <<>>

\* produce_local_block publishes the new block before it stores it.
PublishLocalBlock ==
    /\ Serving /\ nextId <= MaxBlocks /\ Len(chain) < MaxBlocks
    /\ LET b == [id |-> nextId, par |-> TipOf(chain)]
           n == Len(chain) + 1
       IN  /\ pend' = <<b>>
           /\ buffer' = PutLocal(buffer, n, b)
           /\ Broadcast(<<LocalBlock(n, b)>>)
    /\ nextId' = nextId + 1
    /\ UNCHANGED <<ledgerVars, booting, sent, clientStore, events>>

\* ... stores it, and the mem pool publishes the mem block that follows.
CommitLocalBlock ==
    /\ pend # <<>> /\ Produce(Head(pend))
    /\ pend' = <<>>
    /\ buffer' = PutMem(buffer, chain')
    /\ Broadcast(<<NextMemBlock(chain')>>)
    /\ UNCHANGED <<booting, sent, clientStore, nextId, events>>

\* ... or fails to: an error of update_local or of the database is logged, and the
\* loop goes on without the block.
FailLocalBlock ==
    /\ pend # <<>> /\ pend' = <<>>
    /\ UNCHANGED <<ledgerVars, booting, buffer, sent, clientVars, nextId, events>>

\* The submit task sends the next submission.  Layer 1 may commit it at once, long
\* before the main loop handles the end of the task, and also when it never does.
SendSubmission ==
    /\ mode = "loop" /\ lastSub < Len(chain) /\ chain[lastSub + 1].id \notin sent
    /\ sent' = sent \cup {chain[lastSub + 1].id}
    /\ UNCHANGED <<ledgerVars, booting, pend, buffer, clientVars, nextId, events>>

\* Mutant: what is submitted is told to live sessions only.
PublishSubmittedUnbuffered ==
    /\ Serving /\ Submit /\ chain[lastSub'].id \in sent
    /\ Broadcast(<<About("submitted", lastSub')>>)
    /\ UNCHANGED <<booting, pend, buffer, sent, clientStore, nextId, events>>

\* The main loop handles the end of the submit task.
PublishSubmitted ==
    /\ Serving /\ Submit /\ chain[lastSub'].id \in sent
    /\ buffer' = Extend(buffer, lastSub', About("submitted", lastSub'))
    /\ Broadcast(<<About("submitted", lastSub')>>)
    /\ UNCHANGED <<booting, pend, sent, clientStore, nextId, events>>

PublishConfirmed ==
    /\ Serving /\ Confirm
    /\ LET n == lastConf'
           keep == IF n > BufferCapacity THEN n - BufferCapacity ELSE 0
       IN  /\ buffer' = From(Extend(buffer, n, About("confirmed", n)), keep + 1)
           /\ Broadcast(<<About("confirmed", n)>>)
    /\ UNCHANGED <<booting, pend, sent, clientStore, nextId, events>>

\* A transaction enters the mem block; it is buffered with its mem block only.
PublishTransaction ==
    /\ ~booting /\ Event
    /\ LET msg  == Msg("push", 0, [id |-> 0, par |-> 0])
           last == Max(DOMAIN buffer)
       IN  /\ buffer' = IF DOMAIN buffer # {} /\ buffer[last].msgs[1].kind = "mem"
                        THEN Extend(buffer, last, msg) ELSE buffer
           /\ Broadcast(<<msg>>)
    /\ UNCHANGED <<ledgerVars, booting, pend, sent, clientStore, nextId>>

\* The next block to submit or to confirm lost its place on layer 1.
ForkNoticed ==
    /\ Serving /\ lastConf < Len(chain) /\ ~IsPrefix(l1, chain) /\ ~IsPrefix(chain, l1)
    /\ StartSync
    /\ UNCHANGED <<serverVars, clientVars, nextId, events>>

\* ShouldRevertError, ShouldResyncError or a signal for any other reason.
Disturb ==
    /\ Serving /\ Event /\ StartSync
    /\ UNCHANGED <<serverVars, clientVars, nextId>>

\* A crash: the buffer, the sessions and the uncommitted block are gone.
Restart ==
    /\ Event
    /\ IF mode = "loop" THEN StartSync ELSE UNCHANGED ledgerVars
    /\ booting' = TRUE /\ pend' = <<>> /\ buffer' = <<>>
    /\ session' = FALSE
    /\ \E k \in 0..Len(chan) : chan' = SubSeq(chan, 1, k)
    /\ UNCHANGED <<sent, clientStore, nextId>>

syncRest == <<serverVars, clientVars, nextId>>

\* The revert a ShouldRevertError asks for, before sync_l1.
RevertBlocks ==
    /\ ~booting /\ Event /\ \E k \in 0..Len(chain) - 1 : Rewind(k)
    /\ UNCHANGED syncRest

\* sync_l1_unknown: the block where the local chain leaves layer 1.
ForkPoint == Max({k \in 0..Len(l1) : k <= Len(chain) /\ SubSeq(l1, 1, k) = SubSeq(chain, 1, k)})

SyncServer ==
    /\ \/ ~IsPrefix(l1, chain) /\ ~IsPrefix(chain, l1) /\ Rewind(ForkPoint)
       \/ Adopt
       \/ Known /\ lastConf # Len(l1)
    /\ UNCHANGED <<syncRest, events>>

Synced == IsPrefix(l1, chain) /\ lastConf = Len(l1) /\ lastSub = Len(l1)

\* The local blocks that are not confirmed, in order.
LocalBlocks == [i \in 1..Len(chain) - lastConf |-> LocalBlock(lastConf + i, chain[lastConf + i])]

Republish(f) ==
    [n \in DOMAIN f \cup {msg.num : msg \in ToSet(LocalBlocks)} |->
        IF n > lastConf /\ n <= Len(chain) /\ LocalBlocks # <<>>
        THEN Entry(chain[n].id, <<LocalBlock(n, chain[n])>>) ELSE f[n]]

\* ProduceSubmitConfirm::run publishes where it reverted to and what is local;
\* the mem pool publishes a mem block if its tip changed.
FinishResync ==
    /\ mode = "sync" /\ ~booting /\ Synced /\ Resume
    /\ \E ms \in {<<>>, <<NextMemBlock(chain)>>} :
           /\ LET f == Republish(UpTo(buffer, lastSub))
              IN  buffer' = IF ms = <<>> THEN f ELSE PutMem(f, chain)
           /\ Broadcast(<<About("revert", lastSub)>> \o LocalBlocks \o ms)
    /\ UNCHANGED <<booting, pend, sent, clientStore, nextId, events>>

\* ProduceSubmitConfirm::init: the mem block first, then the local blocks.
FinishBoot ==
    /\ mode = "sync" /\ booting /\ Synced /\ Resume
    /\ \E ms \in {<<>>, <<NextMemBlock(chain)>>} :
           /\ buffer' = Republish(IF ms = <<>> THEN buffer ELSE PutMem(buffer, chain))
           /\ Broadcast(ms \o LocalBlocks)
    /\ booting' = FALSE
    /\ UNCHANGED <<pend, sent, clientStore, nextId, events>>

(***************************************************************************)
(* Layer 1.                                                                *)
(***************************************************************************)
l1Rest == <<serverVars, clientVars>>

\* A submission of the full node is committed, announced or not.
CommitOwn ==
    /\ IsStrictPrefix(l1, chain) /\ chain[Len(l1) + 1].id \in sent
    /\ L1Accepts(chain[Len(l1) + 1])
    /\ UNCHANGED <<l1Rest, nextId, events>>

\* The submission of a block that the full node has reverted is committed.
CommitReverted ==
    /\ Len(l1) < Len(cchain) /\ cchain[Len(l1) + 1].id \in sent
    /\ ~IsStrictPrefix(l1, chain)
    /\ L1Accepts(cchain[Len(l1) + 1])
    /\ UNCHANGED <<l1Rest, nextId, events>>

\* Another full node submits a block.
CommitForeign ==
    /\ nextId <= MaxBlocks /\ Len(l1) < MaxBlocks /\ Event
    /\ L1Accepts([id |-> nextId, par |-> TipOf(l1)])
    /\ nextId' = nextId + 1
    /\ UNCHANGED l1Rest

(***************************************************************************)
(* Read-only node.                                                         *)
(***************************************************************************)
clientRest == <<ledgerVars, serverVars, nextId, stale>>

\* Block n of the read-only node is the one layer 1 holds, by its submit tx hash.
KnownOnL1(n) == n = 0 \/ (n \in cTx /\ n <= Len(l1) /\ l1[n] = cchain[n])

\* Newest confirmed block that layer 1 holds; every block it passes needs a tx hash.
LastOnL1 == Max({n \in 0..cConf : KnownOnL1(n)})

TxHashesFound == \A n \in LastOnL1 + 1..cConf : n \in cTx

\* The run of known submissions that follows it.
KnownUpTo == Max({k \in LastOnL1..Len(l1) : \A n \in LastOnL1 + 1..k : KnownOnL1(n)})

\* sync_l1; then the mem pool is told about the tip.
ClientSync ==
    /\ cstate = "sync" /\ TxHashesFound
    /\ IF KnownUpTo = Len(l1)
       THEN UNCHANGED <<cchain, cTx>>
       ELSE cchain' = l1 /\ cTx' = {n \in cTx : n <= KnownUpTo} \cup (KnownUpTo + 1..Len(l1))
    /\ cConf' = Len(l1) /\ cSub' = Len(l1)
    /\ cstate' = "ask"
    /\ UNCHANGED <<clientRest, session, chan, events>>

\* Mutant: the hash of the requested block is not compared.
HasBlockByNumber == cConf \in DOMAIN buffer

\* The block the client asks about is in the buffer.
HasBlock == cConf \in DOMAIN buffer /\ buffer[cConf].hash = IdAt(cchain, cConf)

\* Messages of the blocks above n: the number of a buffered block, the place in its entry.
MessagesAfter(n) ==
    UNION {{<<k, i>> : i \in DOMAIN buffer[k].msgs} : k \in {m \in DOMAIN buffer : m > n}}

\* By number, then in the order they were published.
Before(p, q) == p[1] < q[1] \/ (p[1] = q[1] /\ p[2] < q[2])

\* Buffered blocks up to the last confirmed one are blocks of the chain.
ConfirmedFresh ==
    \A n \in DOMAIN buffer : n <= lastConf => buffer[n].hash \in {NoHash, chain[n].id}

\* Buffered blocks follow each other.
Linked ==
    \A n \in DOMAIN buffer : n + 1 \in DOMAIN buffer =>
        buffer[n].hash \in {NoHash, buffer[n + 1].msgs[1].blk.par}

\* Every block of the read-only node above its confirmed one is still announced.
Announced ==
    \A n \in cConf + 1..Len(cchain) : n \in DOMAIN buffer /\ buffer[n].hash # NoHash

Subscribe ==
    /\ cstate = "ask" /\ HasBlock
    /\ \E k \in 0..ChannelCapacity : \E at \in Listings(MessagesAfter(cConf), k, Before) :
           chan' = [j \in 1..k |-> buffer[at[j][1]].msgs[at[j][2]]]
    /\ session' = TRUE /\ cstate' = "stream" /\ stale' = ~(ConfirmedFresh /\ Linked /\ Announced)
    /\ UNCHANGED <<ledgerVars, serverVars, nextId, cchain, cSub, cConf, cTx, events>>

\* TryAgain, or there is no peer: synchronise with layer 1 again later.
AskAgain ==
    /\ cstate = "ask" /\ cstate' = "sync"
    /\ UNCHANGED <<clientRest, session, chan, cchain, cSub, cConf, cTx, events>>

Streaming(kind) == cstate = "stream" /\ chan # <<>> /\ Head(chan).kind = kind

Consume == chan' = Tail(chan) /\ UNCHANGED <<session, cstate>>

\* An error that is not recoverable: disconnect.
Disconnect == chan' = <<>> /\ session' = FALSE /\ cstate' = "sync"

\* Mutant: only the number is checked.
CheckNumber(m) == m.num <= Len(cchain)

CheckNumberHash(m) == m.num <= Len(cchain) /\ IdAt(cchain, m.num) = m.blk.id

\* A different block is stored at the number: it is reverted and committed first.
RevertForLocal ==
    /\ Streaming("local")
    /\ LET m == Head(chan)
           k == m.num - 1
       IN  /\ m.num <= Len(cchain) /\ cchain[m.num] # m.blk
           /\ cchain' = SubSeq(cchain, 1, k)
           /\ cSub' = Below(cSub, k) /\ cConf' = Below(cConf, k)
           /\ cTx' = {n \in cTx : n <= k}
    /\ UNCHANGED <<clientRest, cstate, session, chan, events>>

\* A known block is skipped, the successor of the tip is attached, else an error.
HandleLocalBlock ==
    /\ Streaming("local")
    /\ LET m == Head(chan)
       IN  \/ /\ m.num <= Len(cchain) /\ cchain[m.num] = m.blk
              /\ Consume /\ UNCHANGED cchain
           \/ /\ m.num > Len(cchain)
              /\ IF m.blk.par = TipOf(cchain) /\ m.num = Len(cchain) + 1
                 THEN Consume /\ cchain' = Append(cchain, m.blk)
                 ELSE Disconnect /\ UNCHANGED cchain
    /\ UNCHANGED <<clientRest, cSub, cConf, cTx, events>>

HandleSubmitted ==
    /\ Streaming("submitted")
    /\ LET m == Head(chan)
       IN  IF CheckNumberHash(m)
           THEN Consume /\ cSub' = m.num /\ cTx' = cTx \cup {m.num}
           ELSE Disconnect /\ UNCHANGED <<cSub, cTx>>
    /\ UNCHANGED <<clientRest, cchain, cConf, events>>

HandleConfirmed ==
    /\ Streaming("confirmed")
    /\ LET m == Head(chan)
       IN  IF CheckNumberHash(m)
           THEN Consume /\ cConf' = m.num
           ELSE Disconnect /\ UNCHANGED cConf
    /\ UNCHANGED <<clientRest, cchain, cSub, cTx, events>>

HandleRevert ==
    /\ Streaming("revert")
    /\ LET m == Head(chan)
       IN  IF CheckNumberHash(m)
           THEN Consume /\ cConf' = m.num /\ cSub' = m.num
           ELSE Disconnect /\ UNCHANGED <<cConf, cSub>>
    /\ UNCHANGED <<clientRest, cchain, cTx, events>>

\* Mem blocks and transactions change the mem pool only, and never fail.
HandleMemPool ==
    /\ Streaming("mem") \/ Streaming("push")
    /\ Consume
    /\ UNCHANGED <<clientRest, cchain, cSub, cConf, cTx, events>>

\* The received part of the messages is too long: drop what only the mem pool needs.
SkipMemPool ==
    /\ cstate = "stream"
    /\ \E k \in SkipLength..Len(chan) :
           LET keep == {i \in 1..Len(chan) : i > k \/ chan[i].kind \notin {"mem", "push"}}
           IN  /\ chan[k].kind = "local" /\ keep # 1..Len(chan)
               /\ \E n \in 1..Len(chan) : \E at \in Listings(keep, n, <) :
                      chan' = [j \in 1..n |-> chan[at[j]]]
    /\ UNCHANGED <<clientRest, cstate, session, cchain, cSub, cConf, cTx, events>>

\* Mutant: the end of the stream is noticed when nothing was received only.
StreamEndsUnused ==
    /\ cstate = "stream" /\ ~session /\ chan = <<>> /\ cchain = <<>>
    /\ cstate' = "sync"
    /\ UNCHANGED <<clientRest, session, chan, cchain, cSub, cConf, cTx, events>>

\* The stream ended and every message is applied.
StreamEnds ==
    /\ cstate = "stream" /\ ~session /\ chan = <<>>
    /\ cstate' = "sync"
    /\ UNCHANGED <<clientRest, session, chan, cchain, cSub, cConf, cTx, events>>

\* The session breaks, or the read-only node restarts.
ConnectionLost ==
    /\ cstate = "stream" /\ Event
    /\ \/ session /\ session' = FALSE /\ UNCHANGED cstate
          /\ \E k \in 0..Len(chan) : chan' = SubSeq(chan, 1, k)
       \/ Disconnect
    /\ UNCHANGED <<clientRest, cchain, cSub, cConf, cTx>>

\* The loop of the full node, once there is something to do.
MainLoop ==
    \/ CommitLocalBlock \/ FailLocalBlock \/ PublishSubmitted \/ PublishConfirmed
    \/ ForkNoticed \/ SyncServer \/ FinishResync \/ FinishBoot

Server ==
    \/ MainLoop \/ PublishLocalBlock \/ SendSubmission
    \/ PublishTransaction \/ Disturb \/ Restart \/ RevertBlocks

\* The loop of the read-only node: it synchronises with layer 1 and subscribes ...
Connect == ClientSync \/ Subscribe \/ AskAgain

\* ... and then applies messages until the stream ends.
Apply ==
    \/ RevertForLocal \/ HandleLocalBlock \/ HandleSubmitted \/ HandleConfirmed
    \/ HandleRevert \/ HandleMemPool \/ StreamEnds

Client == Connect \/ Apply \/ SkipMemPool \/ ConnectionLost

Layer1 == CommitOwn \/ CommitReverted \/ CommitForeign

Next == Server \/ Client \/ Layer1

Spec == Init /\ [][Next]_vars

(***************************************************************************)
(* Fairness: each loop goes on while it has something to do, the submit    *)
(* task sends, and layer 1 commits what was sent.  Nothing is assumed of   *)
(* the produce timer, of users or of disturbances.                         *)
(***************************************************************************)
Fairness ==
    /\ WF_vars(MainLoop) /\ WF_vars(SendSubmission) /\ WF_vars(CommitOwn)
    /\ WF_vars(Connect \/ Apply)

FairSpec == Spec /\ Fairness

(***************************************************************************)
(* Properties.                                                             *)
(***************************************************************************)
\* Whatever was published, reverted, lost or resent, the blocks a read-only node
\* calls confirmed are the ones layer 1 holds (check_number_hash).
ClientConfirmedOnL1 ==
    cConf <= Len(l1) /\ SubSeq(cchain, 1, cConf) = SubSeq(l1, 1, cConf)

\* The full node's tip was published as a local block (one it adopted from layer 1
\* is not: read-only nodes find it there themselves).
TipPublished == Len(chain) \in DOMAIN buffer /\ buffer[Len(chain)].hash = TipOf(chain)

\* A read-only node that has applied every message of its live session has every
\* block of the full node up to a published tip and is never on a fork of it,
\* though blocks are published before they are committed, the buffer outlives
\* reverts and the request may arrive in the middle of a resynchronisation.  (It
\* may keep reverted blocks above the full node's tip.)
CaughtUpHasChain ==
    cstate = "stream" /\ session /\ chan = <<>> /\ Serving /\ ~stale =>
        IsPrefix(chain, cchain) \/ (~TipPublished /\ IsPrefix(cchain, chain))

\* refresh_mem_block compares numbers only; still a mem block that is applied was
\* built by the full node on the block that is the read-only node's tip.
MemBlockOnParent ==
    Streaming("mem") /\ ~stale /\ Head(chan).num = Len(cchain) + 1 =>
        Head(chan).blk.par = TipOf(cchain)

\* A confirmation that a read-only node applies is of a block whose submit tx hash it
\* has stored, whatever it missed of earlier sessions: sync_l1 starts from the hash of
\* the confirmed block.  (A revert message does confirm blocks without one: CannotSync.)
ConfirmedHasHash ==
    Streaming("confirmed") /\ ~stale /\ CheckNumberHash(Head(chan)) => Head(chan).num \in cTx

\* sync_l1 fails at every retry: a block it starts from has no submit tx hash.
CannotSync == cstate = "sync" /\ ~TxHashesFound

\* In the end the read-only node has every block of the full node, however often
\* either of them restarts, reverts or is disconnected, or its sync_l1 fails for want
\* of a submit tx hash.  (One whose session began before the full node adopted its tip
\* from layer 1, or before a revert message that moved the confirmed block, waits for
\* the next local block.)
EventuallyFollows ==
    <>[](\/ CannotSync
         \/ /\ cstate # "stream" \/ TipPublished => IsPrefix(chain, cchain)
            /\ cstate # "stream" => cConf >= lastConf)
=============================================================================
