--------------------------- MODULE StateDbProofs ---------------------------
(***************************************************************************)
(* Proofs about StateDb, for all keys, values, block numbers and lengths   *)
(* of the journal: the tree is the state of the tip, historical reads are  *)
(* exact, and live snapshots can be restored.                              *)
(***************************************************************************)
EXTENDS StateDb, NatLemmas, SequenceTheorems

-----------------------------------------------------------------------------
(* Historical reads.                                                       *)

\* The two record columns agree.
RecordsIndexed(s) ==
    \A k \in Keys, n \in Numbers : <<k, n>> \in s.index <=> s.recs[n][k] # None

\* m is the newest block at or before n that has written key k.
Newest(s, n, k, m) ==
    /\ m \in Numbers /\ m <= n /\ <<k, m>> \in s.index
    /\ \A j \in Numbers : (j <= n /\ <<k, j>> \in s.index) => j <= m

\* A read finds the newest record.
LEMMA ReadNewest ==
    ASSUME NEW s \in Stores, RecordsIndexed(s), NEW n \in Numbers, NEW k \in Keys,
           NEW m, Newest(s, n, k, m)
    PROVE  GetHistoryState(s, n, k) = s.recs[m][k]
<1>1. HasRecord(s, n, k)
  BY DEF HasRecord, Newest
<1>2. Newest(s, n, k, LastRecord(s, n, k))
  BY DEF LastRecord, Newest
<1>3. LastRecord(s, n, k) = m
  BY <1>2 DEF Newest, Numbers
<1>4. s.recs[m][k] # None
  BY DEF Newest, RecordsIndexed
<1> QED BY <1>1, <1>3, <1>4 DEF GetHistoryState

\* A key that was never written reads as zero.
LEMMA ReadNothing ==
    ASSUME NEW s, NEW n \in Numbers, NEW k \in Keys, ~HasRecord(s, n, k)
    PROVE  GetHistoryState(s, n, k) = 0
BY DEF GetHistoryState

\* There is a newest record when there is one.
LEMMA NewestExists ==
    ASSUME NEW s, NEW n \in Numbers, NEW k, HasRecord(s, n, k)
    PROVE  \E m : Newest(s, n, k, m)
<1> DEFINE T == {m \in Numbers : m <= n /\ <<k, m>> \in s.index}
<1>1. T \subseteq Nat /\ T # {} /\ n \in Nat /\ \A x \in T : x <= n
  BY StateConstants DEF HasRecord, Numbers
<1>2. PICK m \in T : \A y \in T : y <= m
  BY <1>1, GreatestNat
<1>3. Newest(s, n, k, m)
  BY <1>2 DEF Newest
<1> QED BY <1>3

\* A block's own record is what a read at that block returns.
LEMMA ReadOwn ==
    ASSUME NEW s \in Stores, RecordsIndexed(s), NEW n \in Numbers, NEW k \in Keys,
           s.recs[n][k] # None
    PROVE  GetHistoryState(s, n, k) = s.recs[n][k]
<1>1. Newest(s, n, k, n)
  BY DEF Newest, RecordsIndexed, Numbers
<1> QED BY <1>1, ReadNewest

\* A read depends only on the records up to its block.
LEMMA ReadSame ==
    ASSUME NEW s \in Stores, RecordsIndexed(s), NEW t \in Stores, RecordsIndexed(t),
           NEW n \in Numbers, NEW k \in Keys,
           \A m \in Numbers : m <= n => s.recs[m][k] = t.recs[m][k]
    PROVE  GetHistoryState(s, n, k) = GetHistoryState(t, n, k)
<1>1. \A m \in Numbers : m <= n => (<<k, m>> \in s.index <=> <<k, m>> \in t.index)
  BY DEF RecordsIndexed
<1>2. CASE HasRecord(s, n, k)
  <2>1. PICK m : Newest(s, n, k, m)
    BY <1>2, NewestExists
  <2>2. Newest(t, n, k, m)
    BY <1>1, <2>1 DEF Newest
  <2> QED BY <2>1, <2>2, ReadNewest DEF Newest
<1>3. CASE ~HasRecord(s, n, k)
  <2>1. ~HasRecord(t, n, k)
    BY <1>1, <1>3 DEF HasRecord
  <2> QED BY <1>3, <2>1, ReadNothing
<1> QED BY <1>2, <1>3

\* A block that did not write a key does not show in its history.
LEMMA ReadBelow ==
    ASSUME NEW s \in Stores, RecordsIndexed(s), NEW n \in Numbers, n > 0, NEW k \in Keys,
           s.recs[n][k] = None
    PROVE  GetHistoryState(s, n, k) = GetHistoryState(s, n - 1, k)
<1>0. n - 1 \in Numbers /\ n \in Int
  BY StateConstants DEF Numbers
<1>1. <<k, n>> \notin s.index
  BY DEF RecordsIndexed
<1>2. \A m \in Numbers : m <= n /\ <<k, m>> \in s.index => m <= n - 1
  BY <1>0, <1>1 DEF Numbers
<1>3. CASE HasRecord(s, n, k)
  <2>1. PICK m : Newest(s, n, k, m)
    BY <1>3, NewestExists
  <2>2. Newest(s, n - 1, k, m)
    BY <1>0, <1>2, <2>1 DEF Newest, Numbers
  <2> QED BY <1>0, <2>1, <2>2, ReadNewest
<1>4. CASE ~HasRecord(s, n, k)
  <2>1. ~HasRecord(s, n - 1, k)
    BY <1>0, <1>4 DEF HasRecord, Numbers
  <2> QED BY <1>0, <1>4, <2>1, ReadNothing
<1> QED BY <1>3, <1>4

-----------------------------------------------------------------------------
(* Undoing the journal.                                                    *)

JournalEntry == [kind : {"state", "count", "code", "log"},
                 key  : Keys \cup Codes \cup {None},
                 prev : Values \cup Counts \cup Nat \cup BOOLEAN \cup {None}]

Revision == [id : Nat, len : Nat, view : Dirties]

\* h lists the dirty states that lie behind the entries of the journal.
Past(h) ==
    /\ h \in [0..Len(journal) -> Dirties]
    /\ h[Len(journal)] = dirty
    /\ \A i \in 0..Len(journal) - 1 : h[i] = UndoEntry(h[i + 1], journal[i + 1])

\* A function that satisfies the equation of UndoneTo agrees with the past.
LEMMA UndoUnique ==
    ASSUME journal \in Seq(JournalEntry), NEW h, Past(h), NEW len \in 0..Len(journal), NEW f,
           f = [i \in len..Len(journal) |->
                   IF i = Len(journal) THEN dirty ELSE UndoEntry(f[i + 1], journal[i + 1])]
    PROVE  \A i \in len..Len(journal) : f[i] = h[i]
<1> DEFINE T == {i \in len..Len(journal) : f[i] # h[i]}
<1>0. Len(journal) \in Nat
  BY LenProperties
<1> SUFFICES ASSUME T # {} PROVE FALSE
  OBVIOUS
<1>1. PICK i \in T : \A j \in T : j <= i
  <2>1. T \subseteq Nat /\ \A x \in T : x <= Len(journal)
    BY <1>0
  <2> QED BY <1>0, <2>1, GreatestNat
<1>2. CASE i = Len(journal)
  BY <1>0, <1>1, <1>2 DEF Past
<1>3. CASE i # Len(journal)
  <2>1. i + 1 \in len..Len(journal) /\ i \in 0..Len(journal) - 1 /\ i + 1 \notin T
    BY <1>0, <1>1, <1>3
  <2>2. f[i + 1] = h[i + 1]
    BY <2>1
  <2>3. f[i] = UndoEntry(f[i + 1], journal[i + 1])
    BY <1>1, <1>3
  <2>4. h[i] = UndoEntry(h[i + 1], journal[i + 1])
    BY <2>1 DEF Past
  <2> QED BY <1>1, <2>2, <2>3, <2>4
<1> QED BY <1>2, <1>3

\* Undoing the journal down to an entry gives the dirty state behind that entry.
LEMMA UndoneToPast ==
    ASSUME journal \in Seq(JournalEntry), NEW h, Past(h), NEW len \in 0..Len(journal)
    PROVE  UndoneTo(len) = h[len]
<1> DEFINE Eq(f) == f = [i \in len..Len(journal) |->
                            IF i = Len(journal) THEN dirty ELSE UndoEntry(f[i + 1], journal[i + 1])]
           g == [i \in len..Len(journal) |-> h[i]]
           back == CHOOSE f : Eq(f)
<1>0. Len(journal) \in Nat
  BY LenProperties
<1>1. Eq(g)
  <2>1. ASSUME NEW i \in len..Len(journal)
        PROVE  g[i] = IF i = Len(journal) THEN dirty ELSE UndoEntry(g[i + 1], journal[i + 1])
    <3>1. CASE i = Len(journal)
      BY <3>1 DEF Past
    <3>2. CASE i # Len(journal)
      <4>1. i + 1 \in len..Len(journal) /\ i \in 0..Len(journal) - 1
        BY <1>0, <3>2
      <4> QED BY <3>2, <4>1 DEF Past
    <3> QED BY <3>1, <3>2
  <2> QED BY <2>1
<1>2. Eq(back)
  <2> HIDE DEF Eq
  <2> QED BY <1>1
<1>3. \A i \in len..Len(journal) : back[i] = h[i]
  <2> HIDE DEF back
  <2> QED BY <1>2, UndoUnique
<1>4. UndoneTo(len) = back[len]
  BY DEF UndoneTo
<1> QED
  <2> HIDE DEF back
  <2> QED BY <1>0, <1>3, <1>4

-----------------------------------------------------------------------------
(* The inductive invariant.                                                *)

PostState == [tree : [Keys -> Values], count : Counts]

\* Journal and snapshots: every live snapshot is one of the past dirty states.
JournalInv ==
    /\ journal \in Seq(JournalEntry) /\ revisions \in Seq(Revision)
    /\ nextId \in 0..MaxSnapshots
    /\ \A i \in 1..Len(revisions) :
          /\ revisions[i].len \in 0..Len(journal) /\ revisions[i].id < nextId
          /\ \A j \in 1..(i - 1) : /\ revisions[j].id < revisions[i].id
                                   /\ revisions[j].len <= revisions[i].len
    /\ \E h : Past(h) /\ \A i \in 1..Len(revisions) : h[revisions[i].len] = revisions[i].view

StoreTypeInv ==
    /\ store \in Stores /\ saved \in Stores
    /\ posts \in Seq(PostState) /\ Len(posts) \in 1..(MaxNumber + 1)
    /\ number \in Numbers \cup {None} /\ count \in Counts

\* s holds the history of the attached blocks and nothing else.
HoldsHistory(s) ==
    /\ RecordsIndexed(s)
    /\ \A n \in Numbers, k \in Keys : n > Tip => s.recs[n][k] = None
    /\ \A n \in 0..Tip, k \in Keys : GetHistoryState(s, n, k) = posts[n + 1].tree[k]
    /\ s.tree = posts[Len(posts)].tree

\* Between blocks the store is the saved one and the StateDB is fresh.
BetweenInv ==
    ~Applying => /\ store = saved /\ count = posts[Len(posts)].count
                 /\ dirty = Clean /\ journal = <<>> /\ revisions = <<>> /\ nextId = 0

\* The block being applied writes its own records, and the tree where it has one.
ApplyingInv ==
    Applying =>
        /\ number = Tip + 1
        /\ RecordsIndexed(store)
        /\ \A n \in Numbers, k \in Keys : n # number => store.recs[n][k] = saved.recs[n][k]
        /\ \A k \in Keys : store.tree[k] = IF store.recs[number][k] # None
                                           THEN store.recs[number][k] ELSE saved.tree[k]

HistoryInv == StoreTypeInv /\ HoldsHistory(saved) /\ BetweenInv /\ ApplyingInv

IInv == JournalInv /\ HistoryInv

\* The dirty state is one of its own past.
LEMMA DirtyType == ASSUME JournalInv PROVE dirty \in Dirties
<1>1. PICK h : Past(h)  BY DEF JournalInv
<1>2. Len(journal) \in 0..Len(journal)  BY LenProperties DEF JournalInv
<1> QED BY <1>1, <1>2 DEF Past

LEMMA CleanType == Clean \in Dirties
BY DEF Clean, Dirties

-----------------------------------------------------------------------------
(* Steps of the journal.                                                   *)

\* A StateDB without entries and snapshots satisfies its invariant.
Fresh ==
    dirty \in Dirties /\ journal = <<>> /\ revisions = <<>> /\ nextId \in 0..MaxSnapshots

LEMMA FreshJournal == Fresh => JournalInv
<1> SUFFICES ASSUME Fresh PROVE JournalInv
  OBVIOUS
<1> DEFINE h == [i \in 0..0 |-> dirty]
<1>1. Len(journal) = 0 /\ Len(revisions) = 0
  BY DEF Fresh
<1>2. Past(h)
  BY <1>1 DEF Past, Fresh
<1>3. journal \in Seq(JournalEntry) /\ revisions \in Seq(Revision)
  BY DEF Fresh
<1> QED BY <1>1, <1>2, <1>3 DEF JournalInv, Fresh

LEMMA FreshJournalNext == Fresh' => JournalInv'
BY FreshJournal, PTL

\* An entry that undoes its own change keeps the past.
LEMMA JournaledStep ==
    ASSUME JournalInv, NEW e \in JournalEntry, NEW d \in Dirties, Journaled(e, d),
           UndoEntry(d, e) = dirty
    PROVE  JournalInv'
<1>0. Len(journal) \in Nat /\ journal \in Seq(JournalEntry) /\ revisions \in Seq(Revision)
      /\ Len(revisions) \in Nat
  BY LenProperties DEF JournalInv
<1>1. journal' = Append(journal, e) /\ dirty' = d /\ revisions' = revisions /\ nextId' = nextId
  BY DEF Journaled
<1>2. /\ journal' \in Seq(JournalEntry) /\ Len(journal') = Len(journal) + 1
      /\ journal'[Len(journal) + 1] = e
      /\ \A i \in 1..Len(journal) : journal'[i] = journal[i]
  BY <1>0, <1>1, AppendProperties
<1>3. PICK h : Past(h) /\ \A i \in 1..Len(revisions) : h[revisions[i].len] = revisions[i].view
  BY DEF JournalInv
<1> DEFINE g == [i \in 0..Len(journal) + 1 |-> IF i = Len(journal) + 1 THEN d ELSE h[i]]
<1>4. g \in [0..Len(journal) + 1 -> Dirties]
  BY <1>0, <1>3 DEF Past
<1>5. ASSUME NEW i \in 0..Len(journal) PROVE g[i] = UndoEntry(g[i + 1], journal'[i + 1])
  <2>1. CASE i = Len(journal)
    BY <1>0, <1>2, <1>3, <2>1 DEF Past
  <2>2. CASE i # Len(journal)
    <3>1. i \in 0..Len(journal) - 1 /\ i + 1 \in 1..Len(journal) /\ i + 1 \in 0..Len(journal) + 1
          /\ i \in 0..Len(journal) + 1 /\ i + 1 # Len(journal) + 1 /\ i # Len(journal) + 1
      BY <1>0, <2>2
    <3>2. h[i] = UndoEntry(h[i + 1], journal[i + 1])
      BY <1>3, <3>1 DEF Past
    <3>3. g[i] = h[i] /\ g[i + 1] = h[i + 1] /\ journal'[i + 1] = journal[i + 1]
      BY <1>2, <3>1
    <3> QED BY <3>2, <3>3
  <2> QED BY <2>1, <2>2
<1>6. PICK f : f = g
  OBVIOUS
<1>7. Past(f)'
  <2>1. f \in [0..Len(journal') -> Dirties] /\ f[Len(journal')] = dirty'
    BY <1>0, <1>1, <1>2, <1>4, <1>6
  <2>2. \A i \in 0..Len(journal') - 1 : f[i] = UndoEntry(f[i + 1], journal'[i + 1])
    <3> HIDE DEF g
    <3> QED BY <1>0, <1>2, <1>5, <1>6
  <2> QED BY <2>1, <2>2 DEF Past
<1>8. \A i \in 1..Len(revisions) : f[revisions[i].len] = revisions[i].view
  BY <1>0, <1>3, <1>6 DEF JournalInv
<1>9. \A i \in 1..Len(revisions) : revisions[i].len \in 0..Len(journal')
  BY <1>0, <1>2 DEF JournalInv
<1> QED
  <2> HIDE DEF g
  <2> QED BY <1>0, <1>1, <1>2, <1>7, <1>8, <1>9 DEF JournalInv

\* Writes of a key, of the account count, of a code and of a log.
LEMMA UpdateRawStep ==
    ASSUME JournalInv, NEW k \in Keys, NEW v \in Values, UpdateRaw(k, v)
    PROVE  JournalInv'
<1> DEFINE e == [kind |-> "state", key |-> k, prev |-> Previous(k)]
           d == [dirty EXCEPT !.state[k] = v]
<1>1. dirty \in Dirties
  BY DirtyType
<1>2. e \in JournalEntry /\ d \in Dirties
  BY <1>1 DEF JournalEntry, Dirties, Previous
<1>3. UndoEntry(d, e) = dirty
  BY <1>1 DEF UndoEntry, Dirties, Previous
<1>4. Journaled(e, d)
  BY DEF UpdateRaw
<1> QED BY <1>2, <1>3, <1>4, JournaledStep

LEMMA SetAccountCountStep ==
    ASSUME JournalInv, NEW c \in Counts, SetAccountCount(c)
    PROVE  JournalInv'
<1> DEFINE e == [kind |-> "count", key |-> None, prev |-> dirty.count]
           d == [dirty EXCEPT !.count = c]
<1>1. dirty \in Dirties
  BY DirtyType
<1>2. e \in JournalEntry /\ d \in Dirties
  BY <1>1 DEF JournalEntry, Dirties
<1>3. UndoEntry(d, e) = dirty
  BY <1>1 DEF UndoEntry, Dirties
<1>4. Journaled(e, d)
  BY DEF SetAccountCount
<1> QED BY <1>2, <1>3, <1>4, JournaledStep

LEMMA InsertCodeStep ==
    ASSUME JournalInv, NEW h \in Codes, InsertCode(h)
    PROVE  JournalInv'
<1> DEFINE e == [kind |-> "code", key |-> h, prev |-> h \in dirty.codes]
           d == [dirty EXCEPT !.codes = @ \cup {h}]
<1>1. dirty \in Dirties
  BY DirtyType
<1>2. e \in JournalEntry /\ d \in Dirties
  BY <1>1 DEF JournalEntry, Dirties
<1>3. UndoEntry(d, e) = dirty
  <2>1. CASE h \in dirty.codes
    BY <1>1, <2>1 DEF UndoEntry, Dirties
  <2>2. CASE h \notin dirty.codes
    <3>1. (dirty.codes \cup {h}) \ {h} = dirty.codes
      BY <2>2
    <3> QED BY <1>1, <2>2, <3>1 DEF UndoEntry, Dirties
  <2> QED BY <2>1, <2>2
<1>4. Journaled(e, d)
  BY DEF InsertCode
<1> QED BY <1>2, <1>3, <1>4, JournaledStep

LEMMA AppendLogStep ==
    ASSUME JournalInv, AppendLog
    PROVE  JournalInv'
<1> DEFINE e == [kind |-> "log", key |-> None, prev |-> dirty.logs]
           d == [dirty EXCEPT !.logs = @ + 1]
<1>1. dirty \in Dirties
  BY DirtyType
<1>2. e \in JournalEntry /\ d \in Dirties
  BY <1>1 DEF JournalEntry, Dirties
<1>3. UndoEntry(d, e) = dirty
  <2>1. UndoEntry(d, e) = [d EXCEPT !.logs = @ - 1]
    BY DEF UndoEntry
  <2>2. (dirty.logs + 1) - 1 = dirty.logs
    BY <1>1 DEF Dirties
  <2> QED BY <1>1, <2>1, <2>2 DEF Dirties
<1>4. Journaled(e, d)
  BY DEF AppendLog
<1> QED BY <1>2, <1>3, <1>4, JournaledStep

\* A snapshot is the newest past state.
LEMMA SnapshotStep ==
    ASSUME JournalInv, Snapshot
    PROVE  JournalInv'
<1> DEFINE r == [id |-> nextId, len |-> Len(journal), view |-> dirty]
<1>0. /\ Len(journal) \in Nat /\ revisions \in Seq(Revision) /\ Len(revisions) \in Nat
      /\ nextId \in Nat /\ MaxSnapshots \in Nat
  BY LenProperties, StateConstants DEF JournalInv
<1>1. r \in Revision
  BY <1>0, DirtyType DEF Revision
<1>2. /\ revisions' \in Seq(Revision) /\ Len(revisions') = Len(revisions) + 1
      /\ revisions'[Len(revisions) + 1] = r
      /\ \A i \in 1..Len(revisions) : revisions'[i] = revisions[i]
  BY <1>0, <1>1, AppendProperties DEF Snapshot
<1>3. PICK h : Past(h) /\ \A i \in 1..Len(revisions) : h[revisions[i].len] = revisions[i].view
  BY DEF JournalInv
<1>4. journal' = journal /\ dirty' = dirty /\ nextId' = nextId + 1 /\ nextId < MaxSnapshots
  BY DEF Snapshot
<1>5. Past(h)'
  BY <1>3, <1>4 DEF Past
<1>6. ASSUME NEW i \in 1..Len(revisions')
      PROVE  /\ revisions'[i].len \in 0..Len(journal') /\ revisions'[i].id < nextId'
             /\ \A j \in 1..(i - 1) : /\ revisions'[j].id < revisions'[i].id
                                      /\ revisions'[j].len <= revisions'[i].len
             /\ h[revisions'[i].len] = revisions'[i].view
  <2>0. \A j \in 1..Len(revisions) : /\ revisions[j].id \in Nat /\ revisions[j].id < nextId
                                      /\ revisions[j].len \in 0..Len(journal)
    <3>1. \A j \in 1..Len(revisions) : revisions[j] \in Revision
      BY <1>0, ElementOfSeq
    <3> QED BY <3>1 DEF JournalInv, Revision
  <2>1. CASE i \in 1..Len(revisions)
    <3>1. revisions'[i] = revisions[i] /\ \A j \in 1..(i - 1) : revisions'[j] = revisions[j]
      BY <1>0, <1>2, <2>1
    <3>2. revisions[i].id < nextId + 1
      BY <1>0, <2>0, <2>1
    <3>3. \A j \in 1..(i - 1) : revisions[j].id < revisions[i].id /\ revisions[j].len <= revisions[i].len
      BY <2>1 DEF JournalInv
    <3> QED BY <1>3, <1>4, <2>0, <2>1, <3>1, <3>2, <3>3
  <2>2. CASE i = Len(revisions) + 1
    <3>1. revisions'[i] = r /\ \A j \in 1..(i - 1) : revisions'[j] = revisions[j] /\ j \in 1..Len(revisions)
      BY <1>0, <1>2, <2>2
    <3>2. r.len \in 0..Len(journal) /\ r.id < nextId + 1 /\ h[r.len] = r.view
      BY <1>0, <1>3 DEF Past
    <3> QED BY <1>0, <1>4, <2>0, <3>1, <3>2
  <2> QED BY <1>0, <1>2, <2>1, <2>2
<1>7. nextId' \in 0..MaxSnapshots /\ journal' \in Seq(JournalEntry)
  BY <1>0, <1>4 DEF JournalInv
<1> QED BY <1>2, <1>5, <1>6, <1>7 DEF JournalInv

\* Reverting to a snapshot returns to its past state and keeps the earlier ones.
LEMMA RevertToStep ==
    ASSUME JournalInv, NEW id, RevertTo(id)
    PROVE  JournalInv'
<1>0. /\ Len(journal) \in Nat /\ journal \in Seq(JournalEntry)
      /\ revisions \in Seq(Revision) /\ Len(revisions) \in Nat
  BY LenProperties DEF JournalInv
<1>1. PICK n \in 1..Len(revisions) :
            /\ dirty' = UndoneTo(revisions[n].len)
            /\ journal' = SubSeq(journal, 1, revisions[n].len)
            /\ revisions' = SubSeq(revisions, 1, n - 1)
  BY DEF RevertTo, RevisionsBefore
<1> DEFINE len == revisions[n].len
<1>2. PICK h : Past(h) /\ \A i \in 1..Len(revisions) : h[revisions[i].len] = revisions[i].view
  BY DEF JournalInv
<1>3. len \in 0..Len(journal) /\ len \in Nat
  BY <1>0, <1>1 DEF JournalInv
<1>4. /\ journal' \in Seq(JournalEntry) /\ Len(journal') = len
      /\ \A i \in 1..len : journal'[i] = journal[i]
  BY <1>0, <1>1, <1>3, SubSeqProperties
<1>5. /\ revisions' \in Seq(Revision) /\ Len(revisions') = n - 1
      /\ \A i \in 1..(n - 1) : revisions'[i] = revisions[i]
  BY <1>0, <1>1, SubSeqProperties
<1>6. dirty' = h[len]
  BY <1>0, <1>1, <1>2, <1>3, UndoneToPast
<1>7. PICK f : f = [i \in 0..len |-> h[i]]
  OBVIOUS
<1>8. Past(f)'
  <2>1. f \in [0..Len(journal') -> Dirties] /\ f[Len(journal')] = dirty'
    BY <1>2, <1>3, <1>4, <1>6, <1>7 DEF Past
  <2>2. ASSUME NEW i \in 0..Len(journal') - 1
        PROVE  f[i] = UndoEntry(f[i + 1], journal'[i + 1])
    <3>1. i \in 0..Len(journal) - 1 /\ i \in 0..len /\ i + 1 \in 0..len /\ i + 1 \in 1..len
      BY <1>0, <1>3, <1>4
    <3>2. h[i] = UndoEntry(h[i + 1], journal[i + 1])
      BY <1>2, <3>1 DEF Past
    <3> QED BY <1>4, <1>7, <3>1, <3>2
  <2> QED BY <2>1, <2>2 DEF Past
<1>9. ASSUME NEW i \in 1..Len(revisions')
      PROVE  /\ revisions'[i].len \in 0..Len(journal') /\ revisions'[i].id < nextId'
             /\ \A j \in 1..(i - 1) : /\ revisions'[j].id < revisions'[i].id
                                      /\ revisions'[j].len <= revisions'[i].len
             /\ f[revisions'[i].len] = revisions'[i].view
  <2>1. i \in 1..(n - 1) /\ i \in 1..Len(revisions) /\ n \in Nat
    BY <1>0, <1>5
  <2>2. revisions[i].len \in 0..len
    BY <1>0, <2>1 DEF JournalInv
  <2>3. revisions'[i] = revisions[i] /\ \A j \in 1..(i - 1) : revisions'[j] = revisions[j]
    BY <1>5, <2>1
  <2>4. nextId' = nextId
    BY DEF RevertTo
  <2> QED BY <1>2, <1>4, <1>7, <2>1, <2>2, <2>3, <2>4 DEF JournalInv
<1>10. nextId' \in 0..MaxSnapshots
  BY DEF RevertTo, JournalInv
<1> QED BY <1>4, <1>5, <1>8, <1>9, <1>10 DEF JournalInv

-----------------------------------------------------------------------------
(* Steps of the store.                                                     *)

\* A step that touches only dirty values keeps the history.
LEMMA DirtyOnlyStep ==
    ASSUME HistoryInv, Applying, UNCHANGED <<store, posts, number, saved, count>>
    PROVE  HistoryInv'
<1>1. HoldsHistory(saved)'
  BY DEF HistoryInv, HoldsHistory, RecordsIndexed, Tip
<1>2. StoreTypeInv'
  BY DEF HistoryInv, StoreTypeInv
<1>3. BetweenInv' /\ ApplyingInv'
  BY DEF HistoryInv, BetweenInv, ApplyingInv, Applying, RecordsIndexed, Tip
<1> QED BY <1>1, <1>2, <1>3 DEF HistoryInv

LEMMA BeginBlockStep ==
    ASSUME HistoryInv, BeginBlock
    PROVE  HistoryInv'
<1>0. /\ Len(posts) \in Nat \ {0} /\ store = saved /\ Tip < MaxNumber /\ number' = Tip + 1
      /\ MaxNumber \in Nat
  BY StateConstants DEF HistoryInv, StoreTypeInv, BeginBlock, BetweenInv
<1>1. number' \in Numbers /\ number' # None /\ Tip' = Tip
  BY <1>0, StateConstants DEF Numbers, Tip, BeginBlock
<1>2. HoldsHistory(saved)'
  BY DEF BeginBlock, HistoryInv, HoldsHistory, RecordsIndexed, Tip
<1>3. StoreTypeInv'
  BY <1>1 DEF BeginBlock, HistoryInv, StoreTypeInv
<1>4. ApplyingInv'
  <2>1. \A k \in Keys : store.recs[number'][k] = None
    BY <1>0, <1>1 DEF HistoryInv, HoldsHistory, Tip
  <2> QED BY <1>0, <1>1, <2>1 DEF ApplyingInv, BeginBlock, HistoryInv, HoldsHistory, RecordsIndexed
<1>5. BetweenInv'
  BY <1>1 DEF BetweenInv, Applying
<1> QED BY <1>2, <1>3, <1>4, <1>5 DEF HistoryInv

\* What writing the dirty values of block n makes of a store.
LEMMA WrittenStore ==
    ASSUME NEW s \in Stores, s = store, RecordsIndexed(s), dirty \in Dirties, NEW n \in Numbers
    PROVE  /\ Written(s, n) \in Stores
           /\ RecordsIndexed(Written(s, n))
           /\ \A m \in Numbers, k \in Keys : m # n => Written(s, n).recs[m][k] = s.recs[m][k]
           /\ \A k \in Keys :
                 /\ Written(s, n).recs[n][k] = IF dirty.state[k] # None THEN dirty.state[k] ELSE s.recs[n][k]
                 /\ Written(s, n).tree[k] = IF dirty.state[k] # None THEN dirty.state[k] ELSE s.tree[k]
<1> DEFINE ks == {k \in Keys : dirty.state[k] # None}
           w  == Written(s, n)
<1>1. /\ w.tree = [k \in Keys |-> GetRaw(k)]
      /\ w.recs = [s.recs EXCEPT ![n] = [k \in Keys |-> IF k \in ks THEN dirty.state[k] ELSE s.recs[n][k]]]
      /\ w.index = s.index \cup {<<k, n>> : k \in ks}
      /\ w.codes = s.codes \cup dirty.codes
      /\ w = [tree |-> w.tree, recs |-> w.recs, index |-> w.index, codes |-> w.codes]
  <2>1. PICK a : a = [k \in Keys |-> GetRaw(k)]
    OBVIOUS
  <2>2. PICK b : b = [k \in Keys |-> IF k \in ks THEN dirty.state[k] ELSE s.recs[n][k]]
    OBVIOUS
  <2>3. PICK c : c = s.index \cup {<<k, n>> : k \in ks}
    OBVIOUS
  <2>4. PICK d : d = s.codes \cup dirty.codes
    OBVIOUS
  <2>5. w = [s EXCEPT !.tree = a, !.recs[n] = b, !.index = c, !.codes = d]
    BY <2>1, <2>2, <2>3, <2>4 DEF Written
  <2>6. w = [tree |-> a, recs |-> [s.recs EXCEPT ![n] = b], index |-> c, codes |-> d]
    <3>1. w \in [tree : {a}, recs : {[s.recs EXCEPT ![n] = b]}, index : {c}, codes : {d}]
      <4> HIDE DEF w
      <4> QED BY <2>5 DEF Stores
    <3> HIDE DEF w
    <3> QED BY <3>1
  <2> HIDE DEF w
  <2> QED BY <2>1, <2>2, <2>3, <2>4, <2>6
<1>2. \A k \in Keys : GetRaw(k) = IF dirty.state[k] # None THEN dirty.state[k] ELSE s.tree[k]
  BY DEF GetRaw
<1>3. \A k \in Keys : dirty.state[k] \in Values \cup {None}
  BY DEF Dirties
<1> HIDE DEF w
<1>4. w \in Stores
  <2>1. w.tree \in [Keys -> Values]
    BY <1>1, <1>2, <1>3 DEF Stores
  <2>2. w.recs \in [Numbers -> [Keys -> Values \cup {None}]]
    BY <1>1, <1>3 DEF Stores
  <2>3. w.index \in SUBSET (Keys \X Numbers) /\ w.codes \in SUBSET Codes
    BY <1>1 DEF Stores, Dirties
  <2> QED BY <1>1, <2>1, <2>2, <2>3 DEF Stores
<1>5. /\ \A m \in Numbers, k \in Keys : m # n => w.recs[m][k] = s.recs[m][k]
      /\ \A k \in Keys : w.recs[n][k] = IF dirty.state[k] # None THEN dirty.state[k] ELSE s.recs[n][k]
  BY <1>1 DEF Stores
<1>6. \A k \in Keys, m \in Numbers :
         <<k, m>> \in w.index <=> (<<k, m>> \in s.index \/ (m = n /\ dirty.state[k] # None))
  BY <1>1
<1>7. RecordsIndexed(w)
  BY <1>5, <1>6, ZenonT(60) DEF RecordsIndexed
<1>8. \A k \in Keys : w.tree[k] = IF dirty.state[k] # None THEN dirty.state[k] ELSE s.tree[k]
  BY <1>1, <1>2
<1> QED BY <1>4, <1>5, <1>7, <1>8 DEF w

LEMMA FinaliseStep ==
    ASSUME HistoryInv, dirty \in Dirties, Finalise
    PROVE  HistoryInv'
<1>0. Applying /\ number \in Numbers /\ store \in Stores /\ RecordsIndexed(store)
  BY DEF Finalise, HistoryInv, StoreTypeInv, ApplyingInv, Applying
<1>1. /\ store' \in Stores
      /\ RecordsIndexed(store')
      /\ \A m \in Numbers, k \in Keys : m # number => store'.recs[m][k] = store.recs[m][k]
      /\ \A k \in Keys :
            /\ store'.recs[number][k] = IF dirty.state[k] # None THEN dirty.state[k] ELSE store.recs[number][k]
            /\ store'.tree[k] = IF dirty.state[k] # None THEN dirty.state[k] ELSE store.tree[k]
  <2>1. store' = Written(store, number)
    BY DEF Finalise
  <2> HIDE DEF Written
  <2> QED BY <1>0, <2>1, WrittenStore
<1>2. HoldsHistory(saved)'
  BY DEF Finalise, HistoryInv, HoldsHistory, RecordsIndexed, Tip
<1>3. StoreTypeInv'
  BY <1>1 DEF Finalise, HistoryInv, StoreTypeInv, Dirties
<1>4. BetweenInv'
  BY <1>0 DEF BetweenInv, Finalise, Applying
<1>5. ApplyingInv'
  <2>1. number' = number /\ number' = Tip' + 1 /\ saved' = saved
    BY <1>0 DEF Finalise, HistoryInv, ApplyingInv, Tip
  <2>2. \A n \in Numbers, k \in Keys : n # number => store'.recs[n][k] = saved.recs[n][k]
    BY <1>0, <1>1 DEF HistoryInv, ApplyingInv
  <2>3. \A k \in Keys : store'.tree[k] = IF store'.recs[number][k] # None
                                         THEN store'.recs[number][k] ELSE saved.tree[k]
    BY <1>0, <1>1 DEF HistoryInv, ApplyingInv
  <2>4. RecordsIndexed(store)'
    BY <1>1 DEF RecordsIndexed
  <2> QED BY <2>1, <2>2, <2>3, <2>4 DEF ApplyingInv
<1> QED BY <1>2, <1>3, <1>4, <1>5 DEF HistoryInv

\* While a block is applied, reads of attached blocks are those of the saved store.
LEMMA ReadWhileApplying ==
    ASSUME HistoryInv, Applying, NEW n \in 0..Tip, NEW k \in Keys
    PROVE  GetHistoryState(store, n, k) = posts[n + 1].tree[k]
<1>1. /\ number = Tip + 1 /\ number \in Numbers /\ Tip \in Nat /\ MaxNumber \in Nat
      /\ RecordsIndexed(store) /\ RecordsIndexed(saved) /\ store \in Stores /\ saved \in Stores
  BY StateConstants
     DEF HistoryInv, ApplyingInv, HoldsHistory, StoreTypeInv, Applying, Tip
<1>2. n \in Numbers /\ \A m \in Numbers : m <= n => m # number
  BY <1>1 DEF Numbers
<1>3. \A m \in Numbers : m <= n => store.recs[m][k] = saved.recs[m][k]
  BY <1>2 DEF HistoryInv, ApplyingInv
<1>4. GetHistoryState(store, n, k) = GetHistoryState(saved, n, k)
  BY <1>1, <1>2, <1>3, ReadSame
<1> QED BY <1>4 DEF HistoryInv, HoldsHistory

\* The new tip's state is what its records and the block below make of it.
LEMMA AttachBlockStep ==
    ASSUME HistoryInv, AttachBlock
    PROVE  HistoryInv'
<1> DEFINE p == [tree |-> store.tree, count |-> count]
<1>0. /\ number = Tip + 1 /\ number \in Numbers /\ Tip \in Nat /\ MaxNumber \in Nat
      /\ Applying /\ RecordsIndexed(store) /\ store \in Stores
      /\ posts \in Seq(PostState) /\ Len(posts) = Tip + 1
  BY StateConstants
     DEF AttachBlock, HistoryInv, ApplyingInv, HoldsHistory, StoreTypeInv, Applying, Tip
<1>1. p \in PostState
  BY <1>0 DEF HistoryInv, StoreTypeInv, Stores, PostState
<1>2. /\ posts' \in Seq(PostState) /\ Len(posts') = Tip + 2 /\ posts'[Tip + 2] = p
      /\ \A i \in 1..Tip + 1 : posts'[i] = posts[i]
  BY <1>0, <1>1, AppendProperties DEF AttachBlock
<1>3. Tip' = Tip + 1
  BY <1>0, <1>2 DEF Tip
<1>4. \A n \in Numbers, k \in Keys : n > Tip + 1 => store.recs[n][k] = None
  BY <1>0 DEF HistoryInv, ApplyingInv, HoldsHistory, Numbers
<1>5. ASSUME NEW n \in 0..Tip + 1, NEW k \in Keys
      PROVE  GetHistoryState(store, n, k) = posts'[n + 1].tree[k]
  <2>1. CASE n <= Tip
    <3>1. n \in 0..Tip /\ n + 1 \in 1..Tip + 1
      BY <1>0, <2>1
    <3> QED BY <1>0, <1>2, <3>1, ReadWhileApplying
  <2>2. CASE n = Tip + 1
    <3>1. posts'[n + 1].tree[k] = store.tree[k]
      BY <1>0, <1>2, <2>2
    <3>2. CASE store.recs[n][k] # None
      <4>1. store.tree[k] = store.recs[n][k]
        BY <1>0, <2>2, <3>2 DEF HistoryInv, ApplyingInv
      <4> QED BY <1>0, <2>2, <3>1, <3>2, <4>1, ReadOwn
    <3>3. CASE store.recs[n][k] = None
      <4>1. store.tree[k] = saved.tree[k]
        BY <1>0, <2>2, <3>3 DEF HistoryInv, ApplyingInv
      <4>2. saved.tree = posts[Tip + 1].tree
        BY <1>0 DEF HistoryInv, HoldsHistory
      <4>3. GetHistoryState(store, n, k) = GetHistoryState(store, n - 1, k)
        BY <1>0, <2>2, <3>3, ReadBelow
      <4>4. n - 1 = Tip /\ Tip \in 0..Tip
        BY <1>0, <2>2
      <4> QED BY <1>0, <3>1, <4>1, <4>2, <4>3, <4>4, ReadWhileApplying
    <3> QED BY <3>2, <3>3
  <2> QED BY <1>0, <2>1, <2>2
<1>6. saved' = store /\ store' = store /\ count' = count /\ number' = None
      /\ dirty' = Clean /\ journal' = <<>> /\ revisions' = <<>> /\ nextId' = 0
  BY DEF AttachBlock, IsDirty
<1>7. HoldsHistory(saved)'
  <2>1. RecordsIndexed(saved)'
    BY <1>0, <1>6 DEF RecordsIndexed
  <2>2. saved'.tree = posts'[Len(posts')].tree
    BY <1>2, <1>6
  <2> QED BY <1>3, <1>4, <1>5, <1>6, <2>1, <2>2 DEF HoldsHistory
<1>8. StoreTypeInv'
  BY <1>0, <1>2, <1>6 DEF HistoryInv, StoreTypeInv, Numbers
<1>9. BetweenInv' /\ ApplyingInv'
  BY <1>2, <1>6 DEF BetweenInv, ApplyingInv, Applying
<1> QED BY <1>7, <1>8, <1>9 DEF HistoryInv

\* Undoing the database transaction leads back to the saved store.
LEMMA AbandonBlockStep ==
    ASSUME HistoryInv, AbandonBlock
    PROVE  HistoryInv'
<1>1. /\ store' = saved /\ saved' = saved /\ posts' = posts /\ number' = None
      /\ count' = posts[Len(posts)].count
      /\ dirty' = Clean /\ journal' = <<>> /\ revisions' = <<>> /\ nextId' = 0
  BY DEF AbandonBlock
<1>2. HoldsHistory(saved)'
  BY <1>1 DEF HistoryInv, HoldsHistory, RecordsIndexed, Tip
<1>3. count' \in Counts
  <2>1. Len(posts) \in 1..Len(posts) /\ posts \in Seq(PostState)
    BY LenProperties DEF HistoryInv, StoreTypeInv
  <2>2. posts[Len(posts)] \in PostState
    BY <2>1, ElementOfSeq
  <2> QED BY <1>1, <2>2 DEF PostState
<1>4. StoreTypeInv'
  BY <1>1, <1>3 DEF HistoryInv, StoreTypeInv
<1>5. BetweenInv' /\ ApplyingInv'
  BY <1>1 DEF BetweenInv, ApplyingInv, Applying
<1> QED BY <1>2, <1>4, <1>5 DEF HistoryInv

\* What removing the records of block n makes of a store.
LEMMA RemovedStore ==
    ASSUME NEW s \in Stores, RecordsIndexed(s), NEW n \in Numbers,
           NEW w, w = RemoveBlockStateRecord(s, n)
    PROVE  /\ w \in Stores /\ RecordsIndexed(w) /\ w.tree = s.tree
           /\ \A m \in Numbers, k \in Keys : m # n => w.recs[m][k] = s.recs[m][k]
           /\ \A k \in Keys : w.recs[n][k] = None
<1>1. PICK b : b = [k \in Keys |-> None]
  OBVIOUS
<1>2. PICK c : c = s.index \ {<<k, n>> : k \in RecordedKeys(s, n)}
  OBVIOUS
<1>3. w = [s EXCEPT !.recs[n] = b, !.index = c]
  BY <1>1, <1>2 DEF RemoveBlockStateRecord
<1>4. w \in [tree : {s.tree}, recs : {[s.recs EXCEPT ![n] = b]}, index : {c}, codes : {s.codes}]
  BY <1>3 DEF Stores
<1>5. /\ w.tree = s.tree /\ w.recs = [s.recs EXCEPT ![n] = b]
      /\ w.index = s.index \ {<<k, n>> : k \in RecordedKeys(s, n)}
  BY <1>2, <1>4
<1>6. w \in Stores
  <2>1. [s.recs EXCEPT ![n] = b] \in [Numbers -> [Keys -> Values \cup {None}]]
    BY <1>1 DEF Stores
  <2>2. c \in SUBSET (Keys \X Numbers)
    BY <1>2 DEF Stores
  <2> QED BY <1>4, <2>1, <2>2 DEF Stores
<1>7. /\ \A m \in Numbers, k \in Keys : m # n => w.recs[m][k] = s.recs[m][k]
      /\ \A k \in Keys : w.recs[n][k] = None
  BY <1>1, <1>5 DEF Stores
<1>8. \A m \in Numbers, k \in Keys :
         <<k, m>> \in w.index <=> (<<k, m>> \in s.index /\ ~(m = n /\ s.recs[n][k] # None))
  BY <1>5 DEF RecordedKeys
<1>9. RecordsIndexed(w)
  BY <1>7, <1>8 DEF RecordsIndexed
<1> QED BY <1>5, <1>6, <1>7, <1>9

\* A read returns a value.
LEMMA ReadType ==
    ASSUME NEW s \in Stores, RecordsIndexed(s), NEW n \in Numbers, NEW k \in Keys
    PROVE  GetHistoryState(s, n, k) \in Values
<1>1. CASE HasRecord(s, n, k)
  <2>1. PICK m : Newest(s, n, k, m)
    BY <1>1, NewestExists
  <2>2. GetHistoryState(s, n, k) = s.recs[m][k] /\ m \in Numbers /\ s.recs[m][k] # None
    BY <2>1, ReadNewest DEF Newest, RecordsIndexed
  <2> QED BY <2>2 DEF Stores
<1>2. CASE ~HasRecord(s, n, k)
  BY <1>2, ReadNothing, StateConstants
<1> QED BY <1>1, <1>2

\* Detaching the tip leads back to the history without it.
LEMMA DetachBlockStep ==
    ASSUME HistoryInv, DetachBlock
    PROVE  HistoryInv'
<1>0. /\ store = saved /\ store \in Stores /\ RecordsIndexed(store) /\ HoldsHistory(store)
      /\ Tip \in Nat \ {0} /\ MaxNumber \in Nat /\ Tip \in Numbers /\ Tip - 1 \in Numbers
      /\ posts \in Seq(PostState) /\ Len(posts) = Tip + 1 /\ ~Applying
  BY StateConstants
     DEF DetachBlock, HistoryInv, BetweenInv, HoldsHistory, StoreTypeInv, Tip, Numbers
<1>1. PICK tr : tr = [k \in Keys |-> IF k \in RecordedKeys(store, Tip)
                                     THEN GetHistoryState(store, Tip - 1, k)
                                     ELSE store.tree[k]]
  OBVIOUS
<1>2. PICK s : s = [store EXCEPT !.tree = tr]
  OBVIOUS
<1>3. store' = RemoveBlockStateRecord(s, Tip)
  BY <1>1, <1>2 DEF DetachBlock, DetachBlockState
<1>4. tr \in [Keys -> Values]
  BY <1>0, <1>1, ReadType DEF Stores
<1>5. s \in Stores /\ s.tree = tr /\ s.recs = store.recs /\ s.index = store.index
  <2>1. s \in [tree : {tr}, recs : {store.recs}, index : {store.index}, codes : {store.codes}]
    BY <1>0, <1>2 DEF Stores
  <2> QED BY <1>0, <1>4, <2>1 DEF Stores
<1>6. RecordsIndexed(s)
  BY <1>0, <1>5 DEF RecordsIndexed
<1>7. /\ store' \in Stores /\ RecordsIndexed(store') /\ store'.tree = tr
      /\ \A m \in Numbers, k \in Keys : m # Tip => store'.recs[m][k] = store.recs[m][k]
      /\ \A k \in Keys : store'.recs[Tip][k] = None
  <2>1. PICK w, n : w = RemoveBlockStateRecord(s, n) /\ n = Tip
    OBVIOUS
  <2>2. /\ w \in Stores /\ RecordsIndexed(w) /\ w.tree = s.tree
        /\ \A m \in Numbers, k \in Keys : m # n => w.recs[m][k] = s.recs[m][k]
        /\ \A k \in Keys : w.recs[n][k] = None
    <3>1. n \in Numbers
      BY <1>0, <2>1
    <3> QED BY <1>5, <1>6, <2>1, <3>1, RemovedStore
  <2> QED BY <1>3, <1>5, <2>1, <2>2
<1>8. /\ posts' \in Seq(PostState) /\ Len(posts') = Tip /\ \A i \in 1..Tip : posts'[i] = posts[i]
  BY <1>0, SubSeqProperties DEF DetachBlock
<1>9. Tip' = Tip - 1
  BY <1>0, <1>8 DEF Tip
<1>10. \A n \in Numbers, k \in Keys : n > Tip - 1 => store'.recs[n][k] = None
  BY <1>0, <1>7 DEF HoldsHistory, Numbers
<1>11. ASSUME NEW n \in 0..Tip - 1, NEW k \in Keys
       PROVE  GetHistoryState(store', n, k) = posts'[n + 1].tree[k]
  <2>1. n \in Numbers /\ n \in 0..Tip /\ n + 1 \in 1..Tip
    BY <1>0 DEF Numbers
  <2>2. \A m \in Numbers : m <= n => store.recs[m][k] = store'.recs[m][k]
    BY <1>0, <1>7 DEF Numbers
  <2>3. GetHistoryState(store, n, k) = GetHistoryState(store', n, k)
    BY <1>0, <1>7, <2>1, <2>2, ReadSame
  <2> QED BY <1>0, <1>8, <2>1, <2>3 DEF HoldsHistory
<1>12. tr = posts'[Tip].tree
  <2>1. ASSUME NEW k \in Keys PROVE tr[k] = posts[Tip].tree[k]
    <3>1. GetHistoryState(store, Tip - 1, k) = posts[Tip].tree[k]
      BY <1>0 DEF HoldsHistory
    <3>2. CASE k \in RecordedKeys(store, Tip)
      BY <1>1, <3>1, <3>2
    <3>3. CASE k \notin RecordedKeys(store, Tip)
      <4>1. store.recs[Tip][k] = None
        BY <3>3 DEF RecordedKeys
      <4>2. GetHistoryState(store, Tip, k) = GetHistoryState(store, Tip - 1, k)
        BY <1>0, <4>1, ReadBelow
      <4>3. Tip \in 0..Tip
        BY <1>0
      <4>4. GetHistoryState(store, Tip, k) = posts[Tip + 1].tree[k]
        BY <1>0, <4>3 DEF HoldsHistory
      <4>5. store.tree[k] = posts[Tip + 1].tree[k]
        BY <1>0 DEF HoldsHistory
      <4> QED BY <1>1, <3>1, <3>3, <4>2, <4>4, <4>5
    <3> QED BY <3>2, <3>3
  <2>2. posts'[Tip] = posts[Tip] /\ posts[Tip] \in PostState
    BY <1>0, <1>8, ElementOfSeq
  <2> QED BY <1>4, <2>1, <2>2 DEF PostState
<1>13. /\ saved' = store' /\ number' = number /\ count' = posts[Tip].count
       /\ UNCHANGED <<dirty, journal, revisions, nextId>>
  BY <1>0 DEF DetachBlock, dbVars
<1>14. HoldsHistory(saved)'
  <2>1. RecordsIndexed(saved)'
    BY <1>7, <1>13 DEF RecordsIndexed
  <2> QED BY <1>7, <1>8, <1>9, <1>10, <1>11, <1>12, <1>13, <2>1 DEF HoldsHistory
<1>15. count' \in Counts /\ count' = posts'[Len(posts')].count
  <2>1. posts[Tip] \in PostState
    BY <1>0, ElementOfSeq
  <2> QED BY <1>0, <1>8, <1>13, <2>1 DEF PostState
<1>16. StoreTypeInv'
  BY <1>0, <1>7, <1>8, <1>13, <1>15 DEF HistoryInv, StoreTypeInv, Numbers
<1>17. BetweenInv' /\ ApplyingInv'
  BY <1>0, <1>13, <1>15 DEF HistoryInv, BetweenInv, ApplyingInv, Applying
<1> QED BY <1>14, <1>16, <1>17 DEF HistoryInv

-----------------------------------------------------------------------------
(* The theorems.                                                           *)

\* The genesis block leaves a store that holds its own state as history.
LEMMA InitHistory == Init => IInv
<1> SUFFICES ASSUME Init PROVE IInv
  OBVIOUS
<1>1. PICK t \in [Keys -> Values], c \in Counts :
         store = GenesisStore(t) /\ posts = <<[tree |-> t, count |-> c]>> /\ count = c
  BY DEF Init
<1>2. /\ store.tree = t /\ store.index = {<<k, 0>> : k \in {j \in Keys : t[j] # 0}}
      /\ store.recs = [n \in Numbers |-> [k \in Keys |-> IF n = 0 /\ t[k] # 0 THEN t[k] ELSE None]]
      /\ store.codes = {}
  BY <1>1 DEF GenesisStore
<1>3. store \in Stores
  <2>1. 0 \in Numbers
    BY StateConstants DEF Numbers
  <2>2. {<<k, 0>> : k \in {j \in Keys : t[j] # 0}} \subseteq Keys \X Numbers
    BY <2>1
  <2>3. [n \in Numbers |-> [k \in Keys |-> IF n = 0 /\ t[k] # 0 THEN t[k] ELSE None]]
           \in [Numbers -> [Keys -> Values \cup {None}]]
    OBVIOUS
  <2> QED BY <1>1, <2>2, <2>3 DEF GenesisStore, Stores
<1>4. /\ posts \in Seq(PostState) /\ Len(posts) = 1 /\ Tip = 0 /\ posts[1].tree = t
      /\ posts[1].count = c
  BY <1>1 DEF PostState, Tip
<1>5. RecordsIndexed(store)
  BY <1>2, StateConstants DEF RecordsIndexed
<1>6. \A n \in Numbers, k \in Keys : n > 0 => store.recs[n][k] = None
  BY <1>2 DEF Numbers
<1>7. ASSUME NEW k \in Keys PROVE GetHistoryState(store, 0, k) = t[k]
  <2>0. 0 \in Numbers
    BY StateConstants DEF Numbers
  <2>1. CASE t[k] # 0
    <3>1. store.recs[0][k] = t[k] /\ t[k] # None
      BY <1>2, <2>0, <2>1, StateConstants
    <3> QED BY <1>3, <1>5, <2>0, <3>1, ReadOwn
  <2>2. CASE t[k] = 0
    <3>1. ~HasRecord(store, 0, k)
      BY <1>2, <2>2 DEF HasRecord
    <3> QED BY <2>0, <2>2, <3>1, ReadNothing
  <2> QED BY <2>1, <2>2
<1>8. saved = store /\ number = None /\ dirty = Clean /\ journal = <<>> /\ revisions = <<>> /\ nextId = 0
  BY DEF Init
<1>9. HoldsHistory(saved)
  <2>1. \A n \in 0..Tip, k \in Keys : GetHistoryState(saved, n, k) = posts[n + 1].tree[k]
    <3> SUFFICES ASSUME NEW n \in 0..Tip, NEW k \in Keys
                 PROVE  GetHistoryState(saved, n, k) = posts[n + 1].tree[k]
      OBVIOUS
    <3>1. n = 0 /\ n + 1 = 1
      BY <1>4
    <3> QED BY <1>4, <1>7, <1>8, <3>1
  <2> QED BY <1>2, <1>4, <1>5, <1>6, <1>8, <2>1 DEF HoldsHistory
<1>10. StoreTypeInv
  BY <1>1, <1>3, <1>4, <1>8, StateConstants DEF StoreTypeInv
<1>11. BetweenInv /\ ApplyingInv
  BY <1>1, <1>4, <1>8 DEF BetweenInv, ApplyingInv, Applying
<1>12. JournalInv
  <2>1. Fresh
    BY <1>8, CleanType, StateConstants DEF Fresh
  <2> QED BY <2>1, FreshJournal
<1> QED BY <1>9, <1>10, <1>11, <1>12 DEF IInv, HistoryInv

\* Every step of the StateDB, of a block and of a revert keeps the invariant.
LEMMA NextHistory == IInv /\ [Next]_vars => IInv'
<1> SUFFICES ASSUME IInv, [Next]_vars PROVE IInv'
  OBVIOUS
<1>0. JournalInv /\ HistoryInv /\ dirty \in Dirties /\ nextId \in 0..MaxSnapshots /\ 0 \in 0..MaxSnapshots
  BY DirtyType, StateConstants DEF IInv, JournalInv
<1>1. CASE BeginBlock
  <2>1. HistoryInv'
    BY <1>0, <1>1, BeginBlockStep
  <2>2. JournalInv'
    <3>1. Fresh'
      BY <1>0, <1>1, CleanType DEF BeginBlock, HistoryInv, BetweenInv, Fresh, dbVars
    <3> QED BY <3>1, FreshJournalNext
  <2> QED BY <2>1, <2>2 DEF IInv
<1>2. ASSUME NEW k \in Keys, NEW v \in Values, UpdateRaw(k, v) PROVE IInv'
  BY <1>0, <1>2, UpdateRawStep, DirtyOnlyStep DEF UpdateRaw, Journaled, IInv
<1>3. ASSUME NEW c \in Counts, SetAccountCount(c) PROVE IInv'
  BY <1>0, <1>3, SetAccountCountStep, DirtyOnlyStep DEF SetAccountCount, Journaled, IInv
<1>4. ASSUME NEW h \in Codes, InsertCode(h) PROVE IInv'
  BY <1>0, <1>4, InsertCodeStep, DirtyOnlyStep DEF InsertCode, Journaled, IInv
<1>5. CASE AppendLog
  BY <1>0, <1>5, AppendLogStep, DirtyOnlyStep DEF AppendLog, Journaled, IInv
<1>6. CASE Snapshot
  BY <1>0, <1>6, SnapshotStep, DirtyOnlyStep DEF Snapshot, IInv
<1>7. ASSUME NEW id \in 0..MaxSnapshots, RevertTo(id) PROVE IInv'
  BY <1>0, <1>7, RevertToStep, DirtyOnlyStep DEF RevertTo, IInv
<1>8. CASE Finalise
  <2>1. HistoryInv'
    BY <1>0, <1>8, FinaliseStep
  <2>2. Fresh'
    BY <1>0, <1>8, CleanType DEF Finalise, Fresh
  <2> QED BY <2>1, <2>2, FreshJournalNext DEF IInv
<1>9. CASE AttachBlock
  <2>1. HistoryInv'
    BY <1>0, <1>9, AttachBlockStep
  <2>2. Fresh'
    BY <1>0, <1>9, CleanType DEF AttachBlock, IsDirty, Fresh
  <2> QED BY <2>1, <2>2, FreshJournalNext DEF IInv
<1>10. CASE AbandonBlock
  <2>1. HistoryInv'
    BY <1>0, <1>10, AbandonBlockStep
  <2>2. Fresh'
    BY <1>0, <1>10, CleanType DEF AbandonBlock, Fresh
  <2> QED BY <2>1, <2>2, FreshJournalNext DEF IInv
<1>11. CASE DetachBlock
  <2>1. HistoryInv'
    BY <1>0, <1>11, DetachBlockStep
  <2>2. Fresh'
    <3>1. UNCHANGED <<dirty, journal, revisions, nextId>>
      BY <1>11 DEF DetachBlock, dbVars
    <3>2. dirty = Clean /\ journal = <<>> /\ revisions = <<>>
      BY <1>0, <1>11 DEF DetachBlock, HistoryInv, BetweenInv
    <3> QED BY <1>0, <3>1, <3>2, CleanType DEF Fresh
  <2> QED BY <2>1, <2>2, FreshJournalNext DEF IInv
<1>12. CASE UNCHANGED vars
  BY <1>0, <1>12, ZenonT(60)
     DEF IInv, JournalInv, Past, HistoryInv, StoreTypeInv, HoldsHistory, RecordsIndexed,
         BetweenInv, ApplyingInv, Applying, Tip, vars, dbVars
<1> QED BY <1>1, <1>2, <1>3, <1>4, <1>5, <1>6, <1>7, <1>8, <1>9, <1>10, <1>11, <1>12 DEF Next

\* The inductive invariant holds in every reachable state.
THEOREM StateDbInductive == Spec => []IInv
BY InitHistory, NextHistory, PTL DEF Spec

\* Columns, posts, dirty values, journal and revisions keep their shape, and
\* revisions stay ordered by id, as revert_to_snapshot's binary search needs.
THEOREM StateDbTypeCorrect == Spec => []TypeOK
<1>1. IInv => TypeOK
  <2> SUFFICES ASSUME IInv PROVE TypeOK
    OBVIOUS
  <2>1. dirty \in Dirties
    BY DirtyType DEF IInv
  <2> QED BY <2>1 DEF IInv, JournalInv, HistoryInv, StoreTypeInv, PostState, TypeOK
<1> QED BY <1>1, StateDbInductive, PTL

\* Between blocks the state tree is the post state of the tip: attaching,
\* abandoning and detaching blocks (detach_block_state) leave nothing behind.
THEOREM TreeIsTheTipState == Spec => []TreeIsTipState
<1>1. IInv => TreeIsTipState
  BY DEF IInv, HistoryInv, HoldsHistory, BetweenInv, TreeIsTipState
<1> QED BY <1>1, StateDbInductive, PTL

\* get_history_state returns for every attached block the value the key had
\* after that block, whatever was attached and detached before.
THEOREM HistoryIsExact == Spec => []HistoryExact
<1>1. IInv => HistoryExact
  <2> SUFFICES ASSUME IInv, NEW n \in 0..Tip, NEW k \in Keys
               PROVE  GetHistoryState(store, n, k) = posts[n + 1].tree[k]
    BY DEF HistoryExact
  <2>1. CASE Applying
    BY <2>1, ReadWhileApplying DEF IInv
  <2>2. CASE ~Applying
    BY <2>2 DEF IInv, HistoryInv, HoldsHistory, BetweenInv
  <2> QED BY <2>1, <2>2
<1> QED BY <1>1, StateDbInductive, PTL

\* Undoing the journal down to a live revision gives the StateDB of the
\* moment that revision was taken.
THEOREM LiveSnapshotsRestore == Spec => []SnapshotsRestore
<1>1. IInv => SnapshotsRestore
  <2> SUFFICES ASSUME IInv, NEW i \in 1..Len(revisions)
               PROVE  UndoneTo(revisions[i].len) = revisions[i].view
    BY DEF SnapshotsRestore
  <2>1. PICK h : Past(h) /\ \A j \in 1..Len(revisions) : h[revisions[j].len] = revisions[j].view
    BY DEF IInv, JournalInv
  <2> QED BY <2>1, UndoneToPast DEF IInv, JournalInv
<1> QED BY <1>1, StateDbInductive, PTL

=============================================================================
