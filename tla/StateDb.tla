------------------------------ MODULE StateDb ------------------------------
(***************************************************************************)
(* The account state of a node, in its layers: StateDB (dirty values with  *)
(* a journal and snapshots), HistoryState (the state tree and one record   *)
(* per block and key), and the two record columns of the store.  Blocks    *)
(* are applied to it by the generator, attached, abandoned when they turn  *)
(* out bad, and detached by reverts; RPC calls read the state of any       *)
(* attached block.                                                         *)
(*                                                                         *)
(* The tree is the function it stores; its root stands for that function.  *)
(* Scripts and data are alike for the journal: both are Codes.             *)
(***************************************************************************)
EXTENDS Integers, Sequences

CONSTANTS Keys,
          Values,           \* of keys, 0 is H256::zero
          Counts,           \* account counts
          Codes,            \* hashes of scripts and data
          None,
          MaxNumber,        \* bound: block numbers
          MaxJournal,       \* bound: journal entries
          MaxSnapshots      \* bound: snapshots taken while a block is applied

ASSUME StateConstants ==
    /\ 0 \in Values /\ None \notin Values /\ None \notin Counts
    /\ Counts # {} /\ None \notin Nat
    /\ {MaxNumber, MaxJournal, MaxSnapshots} \subseteq Nat

VARIABLES store,        \* tree, records by block and key, reverse records, codes
          posts,        \* post_account of the attached blocks, by number
          number,       \* the block that is being applied, or None
          saved,        \* the store when its database transaction began
          count,        \* HistoryState.account_count
          dirty,        \* dirty_state, dirty_account_count, dirty codes and logs
          journal,      \* JournalEntry list
          revisions,    \* id and journal length, with the dirty state at that time
          nextId        \* next_revision_id

dbVars  == <<dirty, journal, revisions, nextId>>
vars == <<store, posts, number, saved, count, dbVars>>

Numbers == 0..MaxNumber
Clean   == [state |-> [k \in Keys |-> None], count |-> None, codes |-> {}, logs |-> 0]

Tip == Len(posts) - 1
Applying == number # None

-----------------------------------------------------------------------------
(* HistoryStateStore of the store.                                         *)

\* seek_for_prev in the reverse column: the last record at or before block n.
LastRecord(s, n, k) ==
    CHOOSE m \in Numbers : /\ m <= n /\ <<k, m>> \in s.index
                           /\ \A j \in Numbers : (j <= n /\ <<k, j>> \in s.index) => j <= m

HasRecord(s, n, k) == \E m \in Numbers : m <= n /\ <<k, m>> \in s.index

\* get_history_state, where a missing value reads as zero.
GetHistoryState(s, n, k) ==
    IF HasRecord(s, n, k) /\ s.recs[LastRecord(s, n, k)][k] # None
    THEN s.recs[LastRecord(s, n, k)][k]
    ELSE 0

\* iter_block_state_record
RecordedKeys(s, n) == {k \in Keys : s.recs[n][k] # None}

\* Mutant: the reverse records stay.
RemoveBlockStateRecordOnly(s, n) == [s EXCEPT !.recs[n] = [k \in Keys |-> None]]

RemoveBlockStateRecord(s, n) ==
    [s EXCEPT !.recs[n] = [k \in Keys |-> None],
              !.index = @ \ {<<k, n>> : k \in RecordedKeys(s, n)}]

\* Mutant: the block's own record is taken for the previous value.
DetachBlockStateOwn(s, n) ==
    RemoveBlockStateRecord(
        [s EXCEPT !.tree = [k \in Keys |-> IF k \in RecordedKeys(s, n)
                                           THEN GetHistoryState(s, n, k)
                                           ELSE s.tree[k]]], n)

\* Every key the block has written gets the value it had one block earlier.
DetachBlockState(s, n) ==
    RemoveBlockStateRecord(
        [s EXCEPT !.tree = [k \in Keys |-> IF k \in RecordedKeys(s, n)
                                           THEN GetHistoryState(s, n - 1, k)
                                           ELSE s.tree[k]]], n)

-----------------------------------------------------------------------------
(* StateDB.                                                                *)

IsDirty == journal # <<>> \/ revisions # <<>> \/ dirty # Clean

\* get_raw: what the block sees while it is applied.
GetRaw(k) == IF dirty.state[k] # None THEN dirty.state[k] ELSE store.tree[k]

Journaled(entry, d) ==
    /\ Applying
    /\ Len(journal) < MaxJournal
    /\ journal' = Append(journal, entry)
    /\ dirty' = d
    /\ UNCHANGED <<store, posts, number, saved, count, revisions, nextId>>

\* Mutant: the journal takes every key for a clean one.
PreviousForgets(k) == None

Previous(k) == dirty.state[k]

UpdateRaw(k, v) ==
    Journaled([kind |-> "state", key |-> k, prev |-> Previous(k)],
              [dirty EXCEPT !.state[k] = v])

SetAccountCount(c) ==
    Journaled([kind |-> "count", key |-> None, prev |-> dirty.count],
              [dirty EXCEPT !.count = c])

InsertCode(h) ==
    Journaled([kind |-> "code", key |-> h, prev |-> h \in dirty.codes],
              [dirty EXCEPT !.codes = @ \cup {h}])

AppendLog ==
    Journaled([kind |-> "log", key |-> None, prev |-> dirty.logs],
              [dirty EXCEPT !.logs = @ + 1])

UndoEntry(d, e) ==
    CASE e.kind = "state" -> [d EXCEPT !.state[e.key] = e.prev]
      [] e.kind = "count" -> [d EXCEPT !.count = e.prev]
      [] e.kind = "code"  -> IF e.prev THEN d ELSE [d EXCEPT !.codes = @ \ {e.key}]
      [] e.kind = "log"   -> [d EXCEPT !.logs = @ - 1]

\* The dirty state after the entries behind the first len are undone, last first.
UndoneTo(len) ==
    LET back[i \in len..Len(journal)] ==
            IF i = Len(journal) THEN dirty ELSE UndoEntry(back[i + 1], journal[i + 1])
    IN  back[len]

Snapshot ==
    /\ Applying
    /\ nextId < MaxSnapshots
    /\ revisions' = Append(revisions, [id |-> nextId, len |-> Len(journal), view |-> dirty])
    /\ nextId' = nextId + 1
    /\ UNCHANGED <<store, posts, number, saved, count, dirty, journal>>

\* Mutant: later revisions survive.
RevisionsBeforeAll(i) == revisions

\* revisions.truncate(rev_index)
RevisionsBefore(i) == SubSeq(revisions, 1, i - 1)

RevertTo(id) ==
    /\ Applying
    /\ \E i \in 1..Len(revisions) :
          /\ revisions[i].id = id
          /\ dirty' = UndoneTo(revisions[i].len)
          /\ journal' = SubSeq(journal, 1, revisions[i].len)
          /\ revisions' = RevisionsBefore(i)
    /\ UNCHANGED <<store, posts, number, saved, count, nextId>>

\* HistoryState::update_raw with WriteOpt::Block(n) for all dirty keys: the tree,
\* and the two records of record_block_state.
Written(s, n) ==
    LET ks == {k \in Keys : dirty.state[k] # None}
    IN  [s EXCEPT !.tree    = [k \in Keys |-> GetRaw(k)],
                  !.recs[n] = [k \in Keys |-> IF k \in ks THEN dirty.state[k] ELSE @[k]],
                  !.index   = @ \cup {<<k, n>> : k \in ks},
                  !.codes   = @ \cup dirty.codes]

Finalise ==
    /\ Applying
    /\ IsDirty
    /\ count' = IF dirty.count # None THEN dirty.count ELSE count
    /\ store' = Written(store, number)
    /\ dirty' = Clean
    /\ journal' = <<>>
    /\ revisions' = <<>>
    /\ UNCHANGED <<posts, number, saved, nextId>>

-----------------------------------------------------------------------------
(* Blocks.                                                                 *)

\* BlockStateDB::from_store with attach_block, on the last valid block: between
\* blocks count, saved and the StateDB fields are those a new one starts with.
BeginBlock ==
    /\ ~Applying
    /\ Tip < MaxNumber
    /\ number' = Tip + 1
    /\ UNCHANGED <<store, posts, saved, count, dbVars>>

\* The block names the state it leads to, and is attached.
AttachBlock ==
    /\ Applying /\ ~IsDirty
    /\ posts' = Append(posts, [tree |-> store.tree, count |-> count])
    /\ number' = None
    /\ saved' = store
    /\ nextId' = 0
    /\ UNCHANGED <<store, count, dirty, journal, revisions>>

\* A bad block, an error or the end of the process: the transaction is undone.
AbandonBlock ==
    /\ Applying
    /\ store' = saved
    /\ number' = None
    /\ count' = posts[Len(posts)].count
    /\ dirty' = Clean /\ journal' = <<>> /\ revisions' = <<>> /\ nextId' = 0
    /\ UNCHANGED <<posts, saved>>

DetachBlock ==
    /\ ~Applying
    /\ Tip > 0
    /\ store' = DetachBlockState(store, Tip)
    /\ posts' = SubSeq(posts, 1, Len(posts) - 1)
    /\ saved' = store'
    /\ count' = posts[Len(posts) - 1].count
    /\ UNCHANGED <<number, dbVars>>

-----------------------------------------------------------------------------
\* The genesis block writes with attach_block(0) too.
GenesisStore(t) ==
    [tree |-> t,
     recs |-> [n \in Numbers |-> [k \in Keys |-> IF n = 0 /\ t[k] # 0 THEN t[k] ELSE None]],
     index |-> {<<k, 0>> : k \in {j \in Keys : t[j] # 0}},
     codes |-> {}]

Init ==
    /\ \E t \in [Keys -> Values], c \in Counts :
          /\ store = GenesisStore(t)
          /\ posts = <<[tree |-> t, count |-> c]>>
          /\ count = c
    /\ saved = store
    /\ number = None
    /\ dirty = Clean /\ journal = <<>> /\ revisions = <<>> /\ nextId = 0

Next ==
    \/ BeginBlock
    \/ \E k \in Keys, v \in Values : UpdateRaw(k, v)
    \/ \E c \in Counts : SetAccountCount(c)
    \/ \E h \in Codes : InsertCode(h)
    \/ AppendLog
    \/ Snapshot
    \/ \E id \in 0..MaxSnapshots : RevertTo(id)
    \/ Finalise
    \/ AttachBlock
    \/ AbandonBlock
    \/ DetachBlock

Spec == Init /\ [][Next]_vars

-----------------------------------------------------------------------------
Stores == [tree : [Keys -> Values], recs : [Numbers -> [Keys -> Values \cup {None}]],
           index : SUBSET (Keys \X Numbers), codes : SUBSET Codes]

Dirties == [state : [Keys -> Values \cup {None}], count : Counts \cup {None},
            codes : SUBSET Codes, logs : Nat]

\* Every column and field keeps its shape; a revision lies within the journal
\* and revisions are ordered by id, which the binary search relies on.
TypeOK ==
    /\ store \in Stores /\ saved \in Stores
    /\ posts \in Seq([tree : [Keys -> Values], count : Counts])
    /\ Len(posts) \in 1..(MaxNumber + 1)
    /\ number \in Numbers \cup {None} /\ count \in Counts
    /\ dirty \in Dirties
    /\ nextId \in 0..MaxSnapshots
    /\ \A i \in 1..Len(revisions) :
          /\ revisions[i].len \in 0..Len(journal)
          /\ revisions[i].id < nextId
          /\ \A j \in 1..(i - 1) : revisions[j].id < revisions[i].id

\* The tree in the store is the state of the last attached block whenever no
\* block is being applied: after attaching, after abandoning a block half way,
\* and after detaching any number of blocks.
TreeIsTipState == ~Applying => store.tree = posts[Len(posts)].tree

\* A historical read returns, for every attached block and every key, the
\* value that key had after that block: also after other blocks of the same
\* numbers were attached and detached, and while a block is being applied.
HistoryExact ==
    \A n \in 0..Tip, k \in Keys : GetHistoryState(store, n, k) = posts[n + 1].tree[k]

\* Reverting to any live snapshot gives back the dirty values, the account
\* count, the codes and the logs of the moment it was taken, however many
\* snapshots, writes and reverts came in between.
SnapshotsRestore ==
    \A i \in 1..Len(revisions) : UndoneTo(revisions[i].len) = revisions[i].view

=============================================================================
