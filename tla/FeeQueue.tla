------------------------------ MODULE FeeQueue ------------------------------
(***************************************************************************)
(* The way of a request from the RPC server into the mem pool: the channel *)
(* of the RPC methods, the map of requests in queue, the fee queue and the *)
(* background task that fetches batches from it (rpc-server/registry.rs,   *)
(* rpc-server/in_queue_request_map.rs, mem-pool/fee).                      *)
(*                                                                         *)
(* The task never shares the queue, so each of its steps is one action;    *)
(* RPC calls and new tips of the mem pool come in between, except while    *)
(* the task holds the lock of the mem pool ("push", "readd").              *)
(***************************************************************************)
EXTENDS Naturals, Sequences, FiniteSets, SequencesExt

CONSTANTS
    Request,    \* function: request |-> [acct, kind, nonce, fee, cycles, cost, bytes]
    Accounts,   \* accounts that exist from the start
    MaxQueue,   \* MAX_QUEUE_SIZE
    DropSize,   \* DROP_SIZE
    Batch,      \* MAX_BATCH_SIZE
    MaxChannel, \* MAX_CHANNEL_SIZE
    MaxTxs,     \* max_txs of a mem block
    MaxCycles,  \* max_cycles_limit of a mem block
    MinCycles,  \* minimal_tx_cycles_limit
    CreateCost, \* cycles of the transaction that creates accounts
    MaxNonce,   \* bound on nonces
    MaxFaults   \* bound on changes of nonces behind the back of the queue

Requests == DOMAIN Request
AllAccounts == {Request[r].acct : r \in Requests} \cup Accounts
Kinds == {"tx", "create", "withdrawal"}

Acct(r)   == Request[r].acct
Kind(r)   == Request[r].kind
Nonce(r)  == Request[r].nonce
Fee(r)    == Request[r].fee
Cycles(r) == Request[r].cycles
Cost(r)   == Request[r].cost
Bytes(r)  == Request[r].bytes

\* FeeItem::cmp returns Equal for equal nonces and compares the bytes otherwise.
ItemEqual(r, s) == Nonce(r) = Nonce(s) \/ Bytes(r) = Bytes(s)
ItemLess(r, s)  == Nonce(r) # Nonce(s) /\ Bytes(r) < Bytes(s)

SameRate(r, s) == Fee(r) * Cycles(s) = Fee(s) * Cycles(r)

ASSUME QueueAssumption ==
    /\ MaxQueue \in Nat /\ DropSize \in Nat /\ DropSize < MaxQueue
    /\ Batch \in Nat \ {0} /\ MaxChannel \in Nat \ {0}
    /\ MaxTxs \in Nat /\ Batch <= MaxTxs
    /\ MaxCycles \in Nat /\ MinCycles \in 0..MaxCycles /\ CreateCost \in Nat
    /\ MaxNonce \in Nat /\ MaxFaults \in Nat

ASSUME RequestAssumption ==
    /\ IsFiniteSet(Requests)
    /\ Request \in [Requests -> [acct : AllAccounts, kind : Kinds, nonce : 0..MaxNonce, fee : Nat,
                                 cycles : Nat \ {0}, cost : Nat, bytes : Nat]]
    /\ \A r \in Requests : Kind(r) = "create" => Nonce(r) = 0
    /\ \A r, s \in Requests : Bytes(r) = Bytes(s) => r = s

\* Outside this assumption FeeItem::cmp is no order and a BTreeMap may do anything.
ASSUME ItemOrderAssumption ==
    \A r, s, t \in Requests :
        /\ SameRate(r, s) /\ SameRate(s, t) /\ Cycles(r) = Cycles(s) /\ Cycles(s) = Cycles(t)
        /\ ItemLess(r, s) /\ ItemLess(s, t)
        => ItemLess(r, t)

VARIABLES
    chan,    \* submit_tx/submit_rx: requests on their way to the task
    inQueue, \* InQueueRequestMap: hashes of requests
    queue,   \* FeeQueue: entries [req, order, hdl], hdl the request whose handle it holds
    pc,      \* where the background task is
    snap,    \* nonces of the state that the task loaded
    batch,   \* items that fetch returns
    future,  \* items with a later nonce, put aside by fetch
    reached  \* block_cycles_limit_reached
VARIABLES
    nonce,   \* nonces in the state of the mem pool
    known,   \* accounts that exist in it
    avail,   \* available cycles of the mem block
    txs,     \* transactions in the mem block
    waiting, \* withdrawals in the pending lists
    faults   \* disturbances so far

task == <<queue, pc, snap, batch, future, reached>>
pool == <<nonce, known, avail, txs, waiting, faults>>
vars == <<chan, inQueue, task, pool>>

Init ==
    /\ chan = <<>> /\ inQueue = {} /\ queue = {} /\ pc = "slots"
    /\ snap = [a \in AllAccounts |-> 0] /\ batch = <<>> /\ future = <<>> /\ reached = FALSE
    /\ nonce = [a \in AllAccounts |-> 0] /\ known = Accounts
    /\ avail = MaxCycles /\ txs = 0 /\ waiting = {} /\ faults = 0

(***************************************************************************)
(* RPC: submit_l2transaction and submit_withdrawal_request.                *)
(***************************************************************************)
\* A transaction is refused unless its nonce is the next one; a sender without an
\* account is expected to start at 0.  Withdrawals are not checked.
NonceAccepted(r) ==
    CASE Kind(r) = "tx"         -> Acct(r) \in known /\ Nonce(r) = nonce[Acct(r)]
      [] Kind(r) = "create"     -> TRUE
      [] Kind(r) = "withdrawal" -> TRUE

\* Mutant: a request that waits already is sent again.
SubmitAgain(r) ==
    /\ NonceAccepted(r)
    /\ Len(chan) < MaxChannel
    /\ inQueue' = inQueue \cup {r}
    /\ chan' = Append(chan, r)
    /\ UNCHANGED <<task, pool>>

Submit(r) ==
    /\ NonceAccepted(r)
    /\ Len(chan) < MaxChannel
    /\ r \notin inQueue
    /\ inQueue' = inQueue \cup {r}
    /\ chan' = Append(chan, r)
    /\ UNCHANGED <<task, pool>>

(***************************************************************************)
(* The fee queue.                                                          *)
(***************************************************************************)
\* FeeEntry::cmp, highest priority last in the BTreeMap.
EntryEqual(e, f) ==
    /\ SameRate(e.req, f.req) /\ e.order = f.order
    /\ Cycles(e.req) = Cycles(f.req) /\ ItemEqual(e.req, f.req)

\* Mutant: the fee decides, whatever cycles it pays for.
HigherFee(e, f) ==
    LET r == e.req  s == f.req IN
    \/ Fee(r) > Fee(s)
    \/ Fee(r) = Fee(s) /\ (\/ e.order < f.order
                           \/ e.order = f.order /\ Bytes(r) < Bytes(s))

Higher(e, f) ==
    LET r == e.req  s == f.req IN
    \/ Fee(r) * Cycles(s) > Fee(s) * Cycles(r)
    \/ SameRate(r, s) /\ (\/ e.order < f.order
                          \/ e.order = f.order /\ (\/ Cycles(r) < Cycles(s)
                                                   \/ Cycles(r) = Cycles(s) /\ ItemLess(r, s)))

\* BTreeMap::insert keeps the key it finds and replaces the value only.
Insert(q, e) ==
    IF \E x \in q : EntryEqual(x, e)
    THEN {IF EntryEqual(x, e) THEN [x EXCEPT !.hdl = e.hdl] ELSE x : x \in q}
    ELSE q \cup {e}

\* A full queue keeps the keys from position DropSize + 1 on.
Trim(q) ==
    IF Cardinality(q) > MaxQueue
    THEN {e \in q : Cardinality({x \in q : Higher(e, x)}) > DropSize}
    ELSE q

\* Mutant: nothing is dropped when the queue is full.
AddUnbounded(q, e) == Insert(q, e)

Add(q, e) == Trim(Insert(q, e))

Handles(q) == {e.hdl : e \in q}
HandlesOf(s) == {s[i].hdl : i \in DOMAIN s}

\* Adding drops the handles of what is replaced or trimmed, and each handle
\* removes its request from the map.
AddEntry(e) ==
    /\ queue' = Add(queue, e)
    /\ inQueue' = inQueue \ ((Handles(queue) \cup {e.hdl}) \ Handles(queue'))

DropEntry(e) == inQueue' = inQueue \ {e.hdl}

Sender(r) == IF Kind(r) = "create" THEN <<"pending", r>> ELSE <<"account", Acct(r)>>
FetchedOf(r) == {i \in DOMAIN batch : Sender(batch[i].req) = Sender(r)}

\* fetched_senders counts from the state that was loaded; a sender to be created from 0.
Expected(r) == (IF Kind(r) = "create" THEN 0 ELSE snap[Acct(r)]) + Cardinality(FetchedOf(r))

(***************************************************************************)
(* The background task.                                                    *)
(***************************************************************************)
Full == txs + Batch > MaxTxs \/ avail < MinCycles

Slots ==
    /\ pc = "slots" /\ ~Full
    /\ pc' = "load"
    /\ UNCHANGED <<chan, inQueue, queue, snap, batch, future, reached, pool>>

\* Waits for a request when the queue is empty, then loads the state.
Load ==
    /\ pc = "load" /\ (queue # {} \/ chan # <<>>)
    /\ snap' = nonce
    /\ pc' = "drain"
    /\ UNCHANGED <<chan, inQueue, queue, batch, future, reached, pool>>

\* A withdrawal of an unknown account has no sender; a request above the limit of
\* a block is dropped.
Convertible(r) == Kind(r) = "withdrawal" => Acct(r) \in known

Drain ==
    /\ pc = "drain" /\ chan # <<>>
    /\ chan' = Tail(chan)
    /\ LET e == [req |-> Head(chan), order |-> Cardinality(queue), hdl |-> Head(chan)]
       IN  IF Convertible(e.req) /\ Cycles(e.req) <= MaxCycles
           THEN AddEntry(e)
           ELSE DropEntry(e) /\ UNCHANGED queue
    /\ UNCHANGED <<pc, snap, batch, future, reached, pool>>

Drained ==
    /\ pc = "drain" /\ chan = <<>>
    /\ pc' = "pop"
    /\ UNCHANGED <<chan, inQueue, queue, snap, batch, future, reached, pool>>

Best == CHOOSE e \in queue : \A f \in queue \ {e} : Higher(e, f)

\* Mutant: the nonce is compared with the state only.
PopIgnoringBatch ==
    /\ pc = "pop" /\ queue # {} /\ Len(batch) < Batch
    /\ queue' = queue \ {Best}
    /\ LET r == Best.req
           n == IF Kind(r) = "create" THEN 0 ELSE snap[Acct(r)]
       IN  \/ Nonce(r) = n /\ batch' = Append(batch, Best) /\ UNCHANGED <<inQueue, future>>
           \/ Nonce(r) > n /\ future' = Append(future, Best) /\ UNCHANGED <<inQueue, batch>>
           \/ Nonce(r) < n /\ DropEntry(Best) /\ UNCHANGED <<batch, future>>
    /\ UNCHANGED <<chan, pc, snap, reached, pool>>

Pop ==
    /\ pc = "pop" /\ queue # {} /\ Len(batch) < Batch
    /\ queue' = queue \ {Best}
    /\ LET r == Best.req
           n == Expected(r)
       IN  \/ Nonce(r) = n /\ batch' = Append(batch, Best) /\ UNCHANGED <<inQueue, future>>
           \/ Nonce(r) > n /\ future' = Append(future, Best) /\ UNCHANGED <<inQueue, batch>>
           \/ Nonce(r) < n /\ DropEntry(Best) /\ UNCHANGED <<batch, future>>
    /\ UNCHANGED <<chan, pc, snap, reached, pool>>

Popped ==
    /\ pc = "pop" /\ (queue = {} \/ Len(batch) = Batch)
    /\ pc' = "back"
    /\ UNCHANGED <<chan, inQueue, queue, snap, batch, future, reached, pool>>

\* Later items return only if another item of their sender was fetched.
AddBack ==
    /\ pc = "back" /\ future # <<>>
    /\ LET e == Head(future)
       IN  IF FetchedOf(e.req) # {} THEN AddEntry(e) ELSE DropEntry(e) /\ UNCHANGED queue
    /\ future' = Tail(future)
    /\ UNCHANGED <<chan, pc, snap, batch, reached, pool>>

Fetched ==
    /\ pc = "back" /\ future = <<>>
    /\ pc' = IF batch = <<>> THEN "slots" ELSE "lock"
    /\ UNCHANGED <<chan, inQueue, queue, snap, batch, future, reached, pool>>

ToCreate == {Acct(batch[i].req) : i \in {j \in DOMAIN batch : Kind(batch[j].req) = "create"}} \ known

\* With the lock: one transaction creates the missing accounts.
CreateAccounts ==
    /\ pc = "lock"
    /\ \/ /\ ToCreate = {}
          /\ pc' = "push" /\ UNCHANGED <<known, nonce, avail, txs>>
       \/ /\ ToCreate # {} /\ CreateCost <= avail
          /\ pc' = "push"
          /\ known' = known \cup ToCreate
          /\ nonce' = [a \in AllAccounts |-> IF a \in ToCreate THEN 0 ELSE nonce[a]]
          /\ avail' = avail - CreateCost /\ txs' = txs + 1
       \/ /\ ToCreate # {} /\ CreateCost > avail /\ CreateCost <= MaxCycles
          /\ pc' = "readd" /\ UNCHANGED <<known, nonce, avail, txs>>
    /\ reached' = FALSE
    /\ UNCHANGED <<chan, inQueue, queue, snap, batch, future, waiting, faults>>

\* For other reasons than cycles the accounts stay unknown and the batch goes on.
CreateFails ==
    /\ pc = "lock" /\ ToCreate # {} /\ faults < MaxFaults
    /\ pc' = "push" /\ faults' = faults + 1
    /\ reached' = FALSE
    /\ UNCHANGED <<chan, inQueue, queue, snap, batch, future, nonce, known, avail, txs, waiting>>

\* "mem block cycles limit reached, retry later"
Readd ==
    /\ pc = "readd"
    /\ IF batch # <<>>
       THEN AddEntry(Head(batch)) /\ batch' = Tail(batch) /\ UNCHANGED pc
       ELSE pc' = "slots" /\ UNCHANGED <<queue, inQueue, batch>>
    /\ UNCHANGED <<chan, snap, future, reached, pool>>

OverLimit(r) == Kind(r) = "tx" /\ (reached \/ Cycles(r) > avail)
Executes(r) == Acct(r) \in known /\ Nonce(r) = nonce[Acct(r)] /\ txs < MaxTxs

\* The limit is reached: transactions go back to the queue, also the ones that
\* run out of cycles while they are executed.
Requeue ==
    /\ pc = "push" /\ batch # <<>>
    /\ LET r == Head(batch).req
       IN  \/ OverLimit(r)
           \/ Kind(r) # "withdrawal" /\ Executes(r) /\ Cost(r) > avail /\ Cost(r) <= MaxCycles
    /\ reached' = TRUE
    /\ AddEntry(Head(batch))
    /\ batch' = Tail(batch)
    /\ UNCHANGED <<chan, pc, snap, future, pool>>

\* MemPool::push_transaction
PushTransaction ==
    /\ pc = "push" /\ batch # <<>>
    /\ LET r == Head(batch).req
       IN  /\ Kind(r) # "withdrawal" /\ ~OverLimit(r) /\ Executes(r) /\ Cost(r) <= avail
           /\ nonce' = [nonce EXCEPT ![Acct(r)] = @ + 1]
           /\ avail' = avail - Cost(r)
    /\ txs' = txs + 1
    /\ DropEntry(Head(batch))
    /\ batch' = Tail(batch)
    /\ UNCHANGED <<chan, queue, pc, snap, future, reached, known, waiting, faults>>

\* MemPool::push_withdrawal_request: executed by a later reset only.
PushWithdrawal ==
    /\ pc = "push" /\ batch # <<>>
    /\ LET r == Head(batch).req
       IN  /\ Kind(r) = "withdrawal" /\ Acct(r) \in known /\ Nonce(r) = nonce[Acct(r)]
           /\ waiting' = waiting \cup {r}
    /\ DropEntry(Head(batch))
    /\ batch' = Tail(batch)
    /\ UNCHANGED <<chan, queue, pc, snap, future, reached, nonce, known, avail, txs, faults>>

\* A request that the mem pool refuses is gone.
PushFails ==
    /\ pc = "push" /\ batch # <<>>
    /\ LET r == Head(batch).req
       IN  /\ ~OverLimit(r)
           /\ IF Kind(r) = "withdrawal"
              THEN ~(Acct(r) \in known /\ Nonce(r) = nonce[Acct(r)])
              ELSE ~Executes(r) \/ Cost(r) > MaxCycles
    /\ DropEntry(Head(batch))
    /\ batch' = Tail(batch)
    /\ UNCHANGED <<chan, queue, pc, snap, future, reached, pool>>

Pushed ==
    /\ pc = "push" /\ batch = <<>>
    /\ pc' = "slots"
    /\ UNCHANGED <<chan, inQueue, queue, snap, batch, future, reached, pool>>

(***************************************************************************)
(* The mem pool, when the task does not hold its lock.                     *)
(***************************************************************************)
Unlocked == pc \notin {"push", "readd"}

\* Mutant: the cycles pool is not renewed.
NewTipKeepsCycles ==
    /\ Unlocked
    /\ txs' = 0
    /\ UNCHANGED <<chan, inQueue, task, nonce, known, avail, waiting, faults>>

\* A block was produced: an empty mem block, into which the next withdrawal of
\* each account is packaged.
NewTip ==
    /\ Unlocked
    /\ LET packed == {r \in waiting : Nonce(r) = nonce[Acct(r)]}
       IN  /\ nonce' = [a \in AllAccounts |->
                          IF \E r \in packed : Acct(r) = a THEN nonce[a] + 1 ELSE nonce[a]]
           /\ waiting' = {r \in waiting : Nonce(r) > nonce[Acct(r)]}
    /\ avail' = MaxCycles /\ txs' = 0
    /\ UNCHANGED <<chan, inQueue, task, known, faults>>

\* The chain was replaced: an account is behind or ahead of where it was.
NonceMoves ==
    /\ Unlocked /\ faults < MaxFaults
    /\ \E a \in known, n \in 0..MaxNonce :
           n # nonce[a] /\ nonce' = [nonce EXCEPT ![a] = n]
    /\ faults' = faults + 1
    /\ UNCHANGED <<chan, inQueue, task, known, avail, txs, waiting>>

Step ==
    \/ Slots \/ Load \/ Drain \/ Drained \/ Pop \/ Popped \/ AddBack \/ Fetched
    \/ CreateAccounts \/ CreateFails \/ Readd \/ Requeue \/ PushTransaction \/ PushWithdrawal
    \/ PushFails \/ Pushed

Next ==
    \/ \E r \in Requests : Submit(r)
    \/ Step
    \/ NewTip
    \/ NonceMoves

Spec == Init /\ [][Next]_vars

\* tokio polls the task again; the full node keeps producing blocks, and the lock of
\* the mem pool is handed on in the order of arrival.
FairSpec == Spec /\ WF_vars(Step) /\ SF_vars(NewTip)

(***************************************************************************)
(* Properties.                                                             *)
(***************************************************************************)
Held == Range(chan) \cup Handles(queue) \cup HandlesOf(batch) \cup HandlesOf(future)

\* A request is reported as waiting by the RPC methods exactly while the channel, the
\* queue or the task holds its handle, and it is held once: submitting it again while
\* it waits adds nothing, dropping or pushing it removes it, whatever step did so.
HandlesMatchMap ==
    /\ inQueue = Held
    /\ Cardinality(Held) = Len(chan) + Cardinality(queue) + Len(batch) + Len(future)

\* The map holds the requests that are in queue ("Hold in queue transactions and
\* withdrawal requests", in_queue_request_map.rs 9).
MapHoldsQueue ==
    inQueue = Range(chan) \cup {e.req : e \in queue \cup Range(batch) \cup Range(future)}

\* What fetch has chosen runs on the state it was chosen for: the items of one sender
\* carry consecutive nonces from the one in the state, although they are taken from
\* the queue in the order of fees.
BatchInNonceOrder ==
    pc \in {"pop", "back", "lock"} =>
        \A i \in DOMAIN batch :
            LET r == batch[i].req
                before == {j \in FetchedOf(r) : j < i}
            IN  Nonce(r) = (IF Kind(r) = "create" THEN 0 ELSE snap[Acct(r)]) + Cardinality(before)

\* fetch returns items in the order of their fee rates, although items whose nonce
\* is not the next one are put aside or dropped on the way (queue.rs 97-141).
BatchInFeeOrder ==
    pc \in {"pop", "back", "lock"} =>
        \A i, j \in DOMAIN batch :
            LET r == batch[i].req
                s == batch[j].req
            IN  i < j => Fee(r) * Cycles(s) >= Fee(s) * Cycles(r)

\* The queue never grows past its limit, also when items return to it.
QueueBounded == Cardinality(queue) <= MaxQueue

\* Once no request is submitted any more every waiting one gets its answer: it is
\* executed, handed to the pending withdrawals or refused, in spite of full blocks,
\* requests that return to the queue and accounts that must be created first.
EventuallySettled ==
    <>[][\A r \in Requests : ~Submit(r)]_vars => []<>(inQueue = {})
=============================================================================
