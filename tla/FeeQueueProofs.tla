--------------------------- MODULE FeeQueueProofs ---------------------------
(***************************************************************************)
(* Proofs about the fee queue and the task that fetches from it, for any   *)
(* set of requests, any limits and any interleaving of submissions, new    *)
(* tips and disturbances.                                                  *)
(***************************************************************************)
EXTENDS FeeQueue, NatLemmas, FiniteSetTheorems, SequenceTheorems

Entries == [req : Requests, order : Nat, hdl : Requests]

\* No two keys of the BTreeMap compare as equal.
DistinctKeys(q) == \A e, f \in q : EntryEqual(e, f) => e = f

\* No two entries hold the same handle.
DistinctHandles(q) == \A e, f \in q : e.hdl = f.hdl => e = f

AtLeast(r, s) == Fee(r) * Cycles(s) >= Fee(s) * Cycles(r)

(***************************************************************************)
(* The order of the entries.                                               *)
(***************************************************************************)
\* What the assumption on the requests says of one of them.
LEMMA RequestType ==
    ASSUME NEW r \in Requests
    PROVE  /\ Acct(r) \in AllAccounts /\ Kind(r) \in Kinds /\ Nonce(r) \in Nat
           /\ Fee(r) \in Nat /\ Cycles(r) \in Nat /\ Cycles(r) > 0 /\ Cost(r) \in Nat
           /\ Bytes(r) \in Nat
<1>1. Request[r] \in [acct : AllAccounts, kind : Kinds, nonce : 0..MaxNonce, fee : Nat,
                      cycles : Nat \ {0}, cost : Nat, bytes : Nat]
  BY RequestAssumption
<1> PICK q : q = Request[r]  OBVIOUS
<1>2. /\ q.acct \in AllAccounts /\ q.kind \in Kinds /\ q.nonce \in Nat
      /\ q.fee \in Nat /\ q.cycles \in Nat /\ q.cycles > 0 /\ q.cost \in Nat
      /\ q.bytes \in Nat
  BY <1>1, QueueAssumption
<1> QED BY <1>2 DEF Acct, Kind, Nonce, Fee, Cycles, Cost, Bytes

\* Cross-multiplied fractions are ordered transitively, strictly if one step is strict.
LEMMA FractionsTransitive ==
    ASSUME NEW a \in Nat, NEW b \in Nat, NEW c \in Nat,
           NEW x \in Nat, NEW y \in Nat, NEW z \in Nat, x > 0, y > 0, z > 0,
           a * y >= b * x, b * z >= c * y
    PROVE  /\ a * z >= c * x
           /\ (a * y > b * x \/ b * z > c * y) => a * z > c * x
<1>1. (a * y) * z >= (b * x) * z  OBVIOUS
<1>2. (b * z) * x >= (c * y) * x  OBVIOUS
<1>3. /\ (a * y) * z = (a * z) * y /\ (b * x) * z = (b * z) * x
      /\ (c * y) * x = (c * x) * y
  OBVIOUS
<1> PICK m \in Nat, n \in Nat : m = a * z /\ n = c * x  OBVIOUS
<1>4. m * y >= n * y  BY <1>1, <1>2, <1>3
<1>5. ~ (m < n)
  <2>1. SUFFICES ASSUME m < n PROVE FALSE  OBVIOUS
  <2>2. n >= m + 1  BY <2>1
  <2>3. n * y >= (m + 1) * y  BY <2>2
  <2>4. (m + 1) * y = m * y + y  OBVIOUS
  <2> QED BY <2>3, <2>4, <1>4
<1>6. ASSUME a * y > b * x \/ b * z > c * y PROVE m > n
  <2>1. a * y > b * x => (a * y) * z > (b * x) * z  OBVIOUS
  <2>2. b * z > c * y => (b * z) * x > (c * y) * x  OBVIOUS
  <2>3. m * y > n * y  BY <1>1, <1>2, <1>3, <1>6, <2>1, <2>2
  <2>4. m # n  BY <2>3
  <2> QED BY <2>4, <1>5
<1> QED BY <1>5, <1>6

\* With the bytes of requests unique, keys are equal exactly if they agree in four numbers.
LEMMA EqualKeys ==
    ASSUME NEW e \in Entries, NEW f \in Entries
    PROVE  EntryEqual(e, f) <=> /\ Fee(e.req) = Fee(f.req) /\ Cycles(e.req) = Cycles(f.req)
                                /\ e.order = f.order /\ Nonce(e.req) = Nonce(f.req)
<1> e.req \in Requests /\ f.req \in Requests  BY DEF Entries
<1> PICK a \in Nat, b \in Nat, c \in Nat, d \in Nat :
        a = Fee(e.req) /\ b = Fee(f.req) /\ c = Cycles(e.req) /\ d = Cycles(f.req) /\ c > 0 /\ d > 0
  BY RequestType
<1>1. c = d => (a * d = b * c <=> a = b)
  <2> SUFFICES ASSUME c = d, a * c = b * c PROVE a = b  OBVIOUS
  <2>1. a < b => FALSE
    <3> SUFFICES ASSUME a < b PROVE FALSE  OBVIOUS
    <3>1. b * c >= (a + 1) * c  OBVIOUS
    <3>2. (a + 1) * c = a * c + c  OBVIOUS
    <3> QED BY <3>1, <3>2
  <2>2. b < a => FALSE
    <3> SUFFICES ASSUME b < a PROVE FALSE  OBVIOUS
    <3>1. a * c >= (b + 1) * c  OBVIOUS
    <3>2. (b + 1) * c = b * c + c  OBVIOUS
    <3> QED BY <3>1, <3>2
  <2> QED BY <2>1, <2>2
<1>2. ItemEqual(e.req, f.req) <=> Nonce(e.req) = Nonce(f.req)
  BY RequestAssumption DEF ItemEqual
<1>3. SameRate(e.req, f.req) <=> a * d = b * c
  BY DEF SameRate
<1> QED BY <1>1, <1>2, <1>3 DEF EntryEqual

\* How entries of the same fee rate are ordered.
Tie(e, f) ==
    \/ e.order < f.order
    \/ e.order = f.order /\ Cycles(e.req) < Cycles(f.req)
    \/ e.order = f.order /\ Cycles(e.req) = Cycles(f.req) /\ ItemLess(e.req, f.req)

Above(r, s) == Fee(r) * Cycles(s) > Fee(s) * Cycles(r)

\* The order on the entries by cases.
LEMMA HigherCases ==
    ASSUME NEW e, NEW f
    PROVE  Higher(e, f) <=> (Above(e.req, f.req) \/ (SameRate(e.req, f.req) /\ Tie(e, f)))
BY DEF Higher, Above, Tie

\* The order on the entries is transitive.
LEMMA HigherTransitive ==
    ASSUME NEW e \in Entries, NEW f \in Entries, NEW g \in Entries,
           Higher(e, f), Higher(f, g)
    PROVE  Higher(e, g)
<1> e.req \in Requests /\ f.req \in Requests /\ g.req \in Requests
    /\ e.order \in Nat /\ f.order \in Nat /\ g.order \in Nat
  BY DEF Entries
<1> PICK r \in Requests, s \in Requests, t \in Requests : r = e.req /\ s = f.req /\ t = g.req
  OBVIOUS
<1>1. /\ Fee(r) \in Nat /\ Fee(s) \in Nat /\ Fee(t) \in Nat
      /\ Cycles(r) \in Nat /\ Cycles(s) \in Nat /\ Cycles(t) \in Nat
      /\ Cycles(r) > 0 /\ Cycles(s) > 0 /\ Cycles(t) > 0
  BY RequestType
<1>2. AtLeast(r, s) /\ AtLeast(s, t)
  BY <1>1, HigherCases DEF AtLeast, Above, SameRate
<1>3. /\ AtLeast(r, t)
      /\ Above(r, s) \/ Above(s, t) => Above(r, t)
  BY <1>1, <1>2, FractionsTransitive DEF AtLeast, Above
<1>4. CASE Above(r, t)
  BY <1>4, HigherCases
<1>5. CASE ~ Above(r, t)
  <2>1. SameRate(r, t)  BY <1>1, <1>3, <1>5 DEF AtLeast, Above, SameRate
  <2>2. SameRate(r, s) /\ Tie(e, f) /\ SameRate(s, t) /\ Tie(f, g)
    BY <1>3, <1>5, HigherCases
  <2>3. Cycles(r) = Cycles(s) /\ Cycles(s) = Cycles(t) /\ ItemLess(r, s) /\ ItemLess(s, t)
        => ItemLess(r, t)
    BY <2>2, ItemOrderAssumption
  <2>4. Tie(e, g)
    BY <1>1, <2>2, <2>3 DEF Tie
  <2> QED BY <2>1, <2>4, HigherCases
<1> QED BY <1>4, <1>5

\* No entry is above itself, and of two with different keys one is above the other.
LEMMA HigherTotal ==
    ASSUME NEW e \in Entries, NEW f \in Entries
    PROVE  /\ ~ Higher(e, e)
           /\ ~ EntryEqual(e, f) => Higher(e, f) \/ Higher(f, e)
<1> e.req \in Requests /\ f.req \in Requests /\ e.order \in Nat /\ f.order \in Nat
  BY DEF Entries
<1> PICK r \in Requests, s \in Requests : r = e.req /\ s = f.req
  OBVIOUS
<1>1. /\ Fee(r) \in Nat /\ Fee(s) \in Nat /\ Cycles(r) \in Nat /\ Cycles(s) \in Nat
      /\ Bytes(r) \in Nat /\ Bytes(s) \in Nat
  BY RequestType
<1>2. ~ Higher(e, e)
  <2>1. ~ ItemLess(r, r)  BY DEF ItemLess
  <2> PICK m \in Nat : m = Fee(r) * Cycles(r)  BY <1>1
  <2>2. ~ (m > m) /\ ~ (e.order < e.order) /\ ~ (Cycles(r) < Cycles(r))  BY <1>1
  <2> QED BY <2>1, <2>2 DEF Higher
<1>4. ~ ItemEqual(r, s) => ItemLess(r, s) \/ ItemLess(s, r)
  <2> PICK m \in Nat, n \in Nat : m = Bytes(r) /\ n = Bytes(s)  BY <1>1
  <2>1. m = n \/ m < n \/ n < m  OBVIOUS
  <2> QED BY <2>1, Zenon DEF ItemEqual, ItemLess
<1>3. ASSUME ~ EntryEqual(e, f) PROVE Higher(e, f) \/ Higher(f, e)
  <2> PICK m \in Nat, n \in Nat : m = Fee(r) * Cycles(s) /\ n = Fee(s) * Cycles(r)  BY <1>1
  <2>2. CASE m # n
    <3>1. m > n \/ n > m  BY <2>2
    <3>2. Above(r, s) \/ Above(s, r)  BY <3>1 DEF Above
    <3> QED BY <3>2, HigherCases
  <2>3. CASE m = n
    <3>1. SameRate(r, s) /\ SameRate(s, r)  BY <2>3 DEF SameRate
    <3>2. Tie(e, f) \/ Tie(f, e)  BY <1>1, <1>3, <1>4, <3>1 DEF Tie, EntryEqual
    <3> QED BY <3>1, <3>2, HigherCases
  <2> QED BY <2>2, <2>3
<1> QED BY <1>2, <1>3

(***************************************************************************)
(* The highest and the lowest entry of a queue.                            *)
(***************************************************************************)
\* A finite set that is not empty and totally ordered by R has a first element.
LEMMA FirstElement ==
    ASSUME NEW S, IsFiniteSet(S), S # {}, NEW R,
           \A x \in S : <<x, x>> \notin R,
           \A x, y \in S : x # y => <<x, y>> \in R \/ <<y, x>> \in R,
           \A x, y, z \in S : <<x, y>> \in R /\ <<y, z>> \in R => <<x, z>> \in R
    PROVE  \E m \in S : \A y \in S \ {m} : <<m, y>> \in R
<1> DEFINE Below(m) == {x \in S : <<x, m>> \in R}
           T == {Cardinality(Below(m)) : m \in S}
<1>1. \A m \in S : IsFiniteSet(Below(m)) /\ Cardinality(Below(m)) \in Nat
  <2> TAKE m \in S
  <2>1. Below(m) \in SUBSET S  OBVIOUS
  <2>2. IsFiniteSet(Below(m))  BY <2>1, FS_Subset
  <2> QED BY <2>2, FS_CardinalityType
<1>2. T \subseteq Nat /\ T # {}
  <2>1. \A m \in S : Cardinality(Below(m)) \in Nat  BY <1>1
  <2> HIDE DEF Below
  <2> QED BY <2>1
<1>3. PICK n \in T : \A k \in T : n <= k  BY <1>2, LeastNat
<1>4. PICK m \in S : n = Cardinality(Below(m))  BY <1>3
<1>5. ASSUME NEW y \in S \ {m} PROVE <<m, y>> \in R
  <2>1. SUFFICES ASSUME <<y, m>> \in R PROVE FALSE  OBVIOUS
  <2>2. Below(y) \in SUBSET Below(m)  BY <2>1
  <2>3. y \in Below(m) /\ y \notin Below(y)  BY <2>1
  <2>4. Cardinality(Below(y)) <= Cardinality(Below(m)) /\ Cardinality(Below(m)) # Cardinality(Below(y))
    BY <1>1, <2>2, <2>3, FS_Subset
  <2>5. Cardinality(Below(y)) \in T  OBVIOUS
  <2> HIDE DEF T, Below
  <2> QED BY <1>1, <1>3, <1>4, <2>4, <2>5
<1> QED BY <1>5

\* A queue that is not empty has a highest entry.
LEMMA HighestEntry ==
    ASSUME NEW q \in SUBSET Entries, IsFiniteSet(q), q # {}, DistinctKeys(q)
    PROVE  \E m \in q : \A y \in q \ {m} : Higher(m, y)
<1> DEFINE R == {p \in q \X q : Higher(p[1], p[2])}
<1>1. \A x, y \in q : <<x, y>> \in R <=> Higher(x, y)  OBVIOUS
<1> HIDE DEF R
<1>2. \A x \in q : <<x, x>> \notin R
  BY <1>1, HigherTotal
<1>3. \A x, y \in q : x # y => <<x, y>> \in R \/ <<y, x>> \in R
  BY <1>1, HigherTotal DEF DistinctKeys
<1>4. \A x, y, z \in q : <<x, y>> \in R /\ <<y, z>> \in R => <<x, z>> \in R
  BY <1>1, HigherTransitive
<1>5. \E m \in q : \A y \in q \ {m} : <<m, y>> \in R
  BY <1>2, <1>3, <1>4, FirstElement
<1> QED BY <1>1, <1>5

\* ... and a lowest one.
LEMMA LowestEntry ==
    ASSUME NEW q \in SUBSET Entries, IsFiniteSet(q), q # {}, DistinctKeys(q)
    PROVE  \E m \in q : \A y \in q : ~ Higher(m, y)
<1> DEFINE R == {p \in q \X q : Higher(p[2], p[1])}
<1>1. \A x, y \in q : <<x, y>> \in R <=> Higher(y, x)  OBVIOUS
<1> HIDE DEF R
<1>2. \A x \in q : <<x, x>> \notin R
  BY <1>1, HigherTotal
<1>3. \A x, y \in q : x # y => <<x, y>> \in R \/ <<y, x>> \in R
  BY <1>1, HigherTotal DEF DistinctKeys
<1>4. \A x, y, z \in q : <<x, y>> \in R /\ <<y, z>> \in R => <<x, z>> \in R
  BY <1>1, HigherTransitive
<1>5. PICK m \in q : \A y \in q \ {m} : <<m, y>> \in R
  BY <1>2, <1>3, <1>4, FirstElement
<1>6. ASSUME NEW y \in q, Higher(m, y) PROVE FALSE
  <2>1. y # m  BY <1>6, HigherTotal
  <2>2. Higher(y, m)  BY <1>1, <1>5, <2>1
  <2>3. Higher(m, m)  BY <1>6, <2>2, HigherTransitive
  <2> QED BY <2>3, HigherTotal
<1> QED BY <1>6

\* BTreeMap::pop_last: the entry that is taken has the best fee rate of the queue.
LEMMA BestIsHighest ==
    ASSUME queue \subseteq Entries, IsFiniteSet(queue), queue # {}, DistinctKeys(queue)
    PROVE  /\ Best \in queue
           /\ \A y \in queue : AtLeast(Best.req, y.req)
<1>1. \E m \in queue : \A y \in queue \ {m} : Higher(m, y)
  BY HighestEntry
<1>2. Best \in queue /\ \A y \in queue \ {Best} : Higher(Best, y)
  BY <1>1 DEF Best
<1> PICK b : b = Best  OBVIOUS
<1>3. ASSUME NEW y \in queue PROVE AtLeast(b.req, y.req)
  <2>1. b.req \in Requests /\ y.req \in Requests  BY <1>2 DEF Entries
  <2>2. /\ Fee(b.req) \in Nat /\ Fee(y.req) \in Nat /\ Cycles(b.req) \in Nat /\ Cycles(y.req) \in Nat
    BY <2>1, RequestType
  <2> PICK m \in Nat, n \in Nat : m = Fee(b.req) * Cycles(y.req) /\ n = Fee(y.req) * Cycles(b.req)
    BY <2>2
  <2>3. y = b \/ Higher(b, y)  BY <1>2
  <2>4. m >= n  BY <2>3 DEF Higher, SameRate
  <2> QED BY <2>4 DEF AtLeast
<1> QED BY <1>2, <1>3

(***************************************************************************)
(* Adding an entry.                                                        *)
(***************************************************************************)
GoodQueue(q) == q \subseteq Entries /\ IsFiniteSet(q) /\ DistinctKeys(q)

\* BTreeMap::insert keeps the keys distinct, adds at most one and moves at most one handle.
LEMMA InsertKeeps ==
    ASSUME NEW q, GoodQueue(q), NEW e \in Entries, NEW w, w = Insert(q, e)
    PROVE  /\ GoodQueue(w) /\ Cardinality(w) <= Cardinality(q) + 1
           /\ Handles(w) \subseteq Handles(q) \cup {e.hdl}
           /\ DistinctHandles(q) /\ e.hdl \notin Handles(q) => DistinctHandles(w)
<1>0. q \subseteq Entries /\ IsFiniteSet(q) /\ DistinctKeys(q) /\ Cardinality(q) \in Nat
  BY FS_CardinalityType DEF GoodQueue
<1>1. CASE ~ \E x \in q : EntryEqual(x, e)
  <2>1. w = q \cup {e}  BY <1>1 DEF Insert
  <2>2. IsFiniteSet(w) /\ Cardinality(w) <= Cardinality(q) + 1
    BY <1>0, <2>1, FS_AddElement
  <2>3. \A x \in q : ~ EntryEqual(x, e) /\ ~ EntryEqual(e, x)
    BY <1>0, <1>1, EqualKeys
  <2>4. DistinctKeys(w)
    BY <1>0, <2>1, <2>3 DEF DistinctKeys
  <2>5. Handles(w) \subseteq Handles(q) \cup {e.hdl}
    BY <2>1 DEF Handles
  <2>6. ASSUME DistinctHandles(q), e.hdl \notin Handles(q) PROVE DistinctHandles(w)
    BY <2>1, <2>6 DEF DistinctHandles, Handles
  <2> QED BY <1>0, <2>1, <2>2, <2>4, <2>5, <2>6 DEF GoodQueue
<1>2. CASE \E x \in q : EntryEqual(x, e)
  <2>1. PICK x \in q : EntryEqual(x, e)  BY <1>2
  <2>2. \A y \in q : EntryEqual(y, e) => y = x
    <3> SUFFICES ASSUME NEW y \in q, EntryEqual(y, e) PROVE y = x  OBVIOUS
    <3>1. x \in Entries /\ y \in Entries  BY <1>0
    <3>2. EntryEqual(x, y)  BY <2>1, <3>1, EqualKeys
    <3> QED BY <1>0, <3>2 DEF DistinctKeys
  <2> PICK z : z = [x EXCEPT !.hdl = e.hdl]  OBVIOUS
  <2>3. z \in Entries /\ z.req = x.req /\ z.order = x.order /\ z.hdl = e.hdl
    BY <1>0 DEF Entries
  <2> DEFINE F(y) == IF EntryEqual(y, e) THEN [y EXCEPT !.hdl = e.hdl] ELSE y
  <2>4. w = {F(y) : y \in q}
    BY <1>2 DEF Insert
  <2>5. F(x) = z  BY <2>1
  <2>6. \A y \in q \ {x} : F(y) = y  BY <2>2
  <2>7. w = (q \ {x}) \cup {z}
    <3> HIDE DEF F
    <3>1. \A v \in w : v \in (q \ {x}) \cup {z}
      <4> TAKE v \in w
      <4>1. PICK y \in q : v = F(y)  BY <2>4
      <4> QED BY <4>1, <2>5, <2>6
    <3>2. \A y \in q : F(y) \in w  BY <2>4
    <3> QED BY <2>5, <2>6, <3>1, <3>2
  <2>8. IsFiniteSet(q \ {x}) /\ Cardinality(q \ {x}) = Cardinality(q) - 1
    BY <1>0, FS_RemoveElement
  <2>9. IsFiniteSet(w) /\ Cardinality(w) <= Cardinality(q) + 1
    <3>1. IsFiniteSet((q \ {x}) \cup {z})
          /\ Cardinality((q \ {x}) \cup {z}) = IF z \in q \ {x} THEN Cardinality(q \ {x})
                                                              ELSE Cardinality(q \ {x}) + 1
      BY <2>8, FS_AddElement
    <3> QED BY <1>0, <2>7, <2>8, <3>1
  <2>10. \A y \in Entries : (EntryEqual(y, z) <=> EntryEqual(y, x)) /\ (EntryEqual(z, y) <=> EntryEqual(x, y))
    <3> TAKE y \in Entries
    <3> DEFINE Same(a, b) == /\ Fee(a.req) = Fee(b.req) /\ Cycles(a.req) = Cycles(b.req)
                             /\ a.order = b.order /\ Nonce(a.req) = Nonce(b.req)
    <3>1. x \in Entries /\ z \in Entries  BY <1>0, <2>3
    <3>2. (EntryEqual(y, z) <=> Same(y, z)) /\ (EntryEqual(z, y) <=> Same(z, y))
      BY <3>1, EqualKeys, ZenonT(60)
    <3>3. (EntryEqual(y, x) <=> Same(y, x)) /\ (EntryEqual(x, y) <=> Same(x, y))
      BY <3>1, EqualKeys
    <3>4. (Same(y, z) <=> Same(y, x)) /\ (Same(z, y) <=> Same(x, y))
      BY <2>3, Zenon
    <3> QED BY <3>2, <3>3, <3>4
  <2>11. DistinctKeys(w)
    BY <1>0, <2>7, <2>10 DEF DistinctKeys
  <2>12. Handles(w) \subseteq Handles(q) \cup {e.hdl}
    BY <2>3, <2>7 DEF Handles
  <2>13. ASSUME DistinctHandles(q), e.hdl \notin Handles(q) PROVE DistinctHandles(w)
    BY <2>3, <2>7, <2>13 DEF DistinctHandles, Handles
  <2> QED BY <1>0, <2>3, <2>7, <2>9, <2>11, <2>12, <2>13 DEF GoodQueue
<1> QED BY <1>1, <1>2

\* FeeQueue::add keeps the queue within its limit: a full queue loses its lowest entry at least.
LEMMA AddKeeps ==
    ASSUME NEW q, GoodQueue(q), Cardinality(q) <= MaxQueue, NEW e \in Entries,
           NEW w, w = Add(q, e)
    PROVE  /\ GoodQueue(w) /\ Cardinality(w) <= MaxQueue
           /\ Handles(w) \subseteq Handles(q) \cup {e.hdl}
           /\ DistinctHandles(q) /\ e.hdl \notin Handles(q) => DistinctHandles(w)
<1> PICK p : p = Insert(q, e)  OBVIOUS
<1>1. /\ GoodQueue(p) /\ Cardinality(p) <= Cardinality(q) + 1
      /\ Handles(p) \subseteq Handles(q) \cup {e.hdl}
      /\ DistinctHandles(q) /\ e.hdl \notin Handles(q) => DistinctHandles(p)
  BY InsertKeeps
<1>2. Cardinality(p) \in Nat /\ Cardinality(q) \in Nat
  BY <1>1, FS_CardinalityType DEF GoodQueue
<1>3. w = Trim(p)  BY DEF Add
<1>4. w \in SUBSET p  BY <1>3 DEF Trim
<1>5. GoodQueue(w)
  BY <1>1, <1>4, FS_Subset DEF GoodQueue, DistinctKeys
<1>6. Handles(w) \subseteq Handles(p) /\ (DistinctHandles(p) => DistinctHandles(w))
  BY <1>4 DEF Handles, DistinctHandles
<1>7. Cardinality(w) <= MaxQueue
  <2>1. CASE ~ (Cardinality(p) > MaxQueue)
    <3>1. w = p  BY <1>3, <2>1 DEF Trim
    <3> QED BY <1>2, <2>1, <3>1, QueueAssumption
  <2>2. CASE Cardinality(p) > MaxQueue
    <3>1. p # {}  BY <2>2, FS_EmptySet, QueueAssumption
    <3>2. PICK m \in p : \A y \in p : ~ Higher(m, y)
      BY <1>1, <3>1, LowestEntry DEF GoodQueue
    <3>3. {x \in p : Higher(m, x)} = {}  BY <3>2
    <3>4. ~ (Cardinality({x \in p : Higher(m, x)}) > DropSize)
      BY <3>3, FS_EmptySet, QueueAssumption
    <3>5. w = {f \in p : Cardinality({x \in p : Higher(f, x)}) > DropSize}
      BY <1>3, <2>2 DEF Trim
    <3>6. m \notin w  BY <3>4, <3>5
    <3>7. w \in SUBSET (p \ {m})  BY <1>4, <3>6
    <3>8. IsFiniteSet(p \ {m}) /\ Cardinality(p \ {m}) = Cardinality(p) - 1
      BY <1>1, <3>2, FS_RemoveElement DEF GoodQueue
    <3>9. Cardinality(w) <= Cardinality(p) - 1
      BY <3>7, <3>8, FS_Subset
    <3>10. Cardinality(w) \in Nat  BY <1>5, FS_CardinalityType DEF GoodQueue
    <3> QED BY <1>1, <1>2, <3>9, <3>10, QueueAssumption
  <2> QED BY <2>1, <2>2
<1> QED BY <1>1, <1>5, <1>6, <1>7


(***************************************************************************)
(* The types, the limit of the queue, and where the task keeps items.      *)
(***************************************************************************)
Places == {"slots", "load", "drain", "pop", "back", "lock", "push", "readd"}

TypeInv ==
    /\ chan \in Seq(Requests) /\ batch \in Seq(Entries) /\ future \in Seq(Entries)
    /\ GoodQueue(queue) /\ QueueBounded
    /\ pc \in Places
    /\ snap \in [AllAccounts -> Nat] /\ nonce \in [AllAccounts -> Nat]

PhaseInv ==
    /\ pc \in {"slots", "load", "drain"} => batch = <<>>
    /\ pc \notin {"pop", "back"} => future = <<>>

\* The step AddEntry keeps the queue good and within its limit.
LEMMA AddEntryKeeps ==
    ASSUME TypeInv, NEW e \in Entries, AddEntry(e)
    PROVE  GoodQueue(queue') /\ Cardinality(queue') <= MaxQueue
<1>1. queue' = Add(queue, e)  BY DEF AddEntry
<1>2. GoodQueue(queue) /\ Cardinality(queue) <= MaxQueue  BY DEF TypeInv, QueueBounded
<1> PICK w : w = queue'  OBVIOUS
<1>3. GoodQueue(w) /\ Cardinality(w) <= MaxQueue
  BY <1>1, <1>2, AddKeeps
<1> QED BY <1>3

\* A queue that loses an entry stays good.
LEMMA RemoveKeeps ==
    ASSUME NEW q, GoodQueue(q), Cardinality(q) <= MaxQueue, NEW e, NEW w, w = q \ {e}
    PROVE  GoodQueue(w) /\ Cardinality(w) <= MaxQueue
<1>1. IsFiniteSet(q)  BY DEF GoodQueue
<1>2. w \in SUBSET q  OBVIOUS
<1>3. IsFiniteSet(w) /\ Cardinality(w) <= Cardinality(q)  BY <1>1, <1>2, FS_Subset
<1>4. Cardinality(w) \in Nat /\ Cardinality(q) \in Nat  BY <1>1, <1>3, FS_CardinalityType
<1>5. Cardinality(w) <= MaxQueue  BY <1>3, <1>4, QueueAssumption
<1> QED BY <1>2, <1>3, <1>5 DEF GoodQueue, DistinctKeys

\* A non-empty sequence without its head.
LEMMA TailFacts ==
    ASSUME NEW S, NEW s \in Seq(S), s # <<>>, NEW t, t = Tail(s)
    PROVE  /\ Head(s) \in S /\ t \in Seq(S) /\ Head(s) = s[1]
           /\ Len(s) \in Nat /\ Len(t) = Len(s) - 1 /\ Len(s) >= 1
           /\ DOMAIN s = 1..Len(s) /\ DOMAIN t = 1..Len(t)
           /\ \A i \in 1..Len(t) : t[i] = s[i + 1]
<1>1. Len(s) \in Nat \ {0}  BY EmptySeq
<1>2. Head(s) \in S /\ t \in Seq(S) /\ Len(t) = Len(s) - 1 /\ \A i \in 1..Len(t) : t[i] = s[i + 1]
  BY HeadTailProperties
<1>3. DOMAIN s = 1..Len(s) /\ DOMAIN t = 1..Len(t)  BY <1>2, LenProperties
<1> QED BY <1>1, <1>2, <1>3

\* The entry that Pop takes.
LEMMA PopTakes ==
    ASSUME TypeInv, queue # {}
    PROVE  Best \in queue /\ Best \in Entries /\ \A y \in queue : AtLeast(Best.req, y.req)
<1>1. queue \subseteq Entries /\ IsFiniteSet(queue) /\ DistinctKeys(queue)
  BY DEF TypeInv, GoodQueue
<1> QED BY <1>1, BestIsHighest

TypePhase == TypeInv /\ PhaseInv

\* Initially the queue and the task are empty.
LEMMA TypePhaseInit == Init => TypePhase
<1> SUFFICES ASSUME Init PROVE TypePhase  OBVIOUS
<1>1. <<>> \in Seq(Requests) /\ <<>> \in Seq(Entries)  BY EmptySeq
<1>2. GoodQueue({})  BY FS_EmptySet DEF GoodQueue, DistinctKeys
<1>3. Cardinality({}) <= MaxQueue  BY FS_EmptySet, QueueAssumption
<1> QED BY <1>1, <1>2, <1>3 DEF Init, TypePhase, TypeInv, PhaseInv, Places, QueueBounded

\* Every step keeps the types, the limit of the queue and the phases.
LEMMA TypePhaseNext == TypePhase /\ [Next]_vars => TypePhase'
<1> SUFFICES ASSUME TypeInv, PhaseInv, [Next]_vars PROVE TypeInv' /\ PhaseInv'
  BY DEF TypePhase
<1> USE DEF TypeInv, PhaseInv, QueueBounded, Places
<1>1. CASE UNCHANGED vars
  BY <1>1 DEF vars, task, pool
<1>2. ASSUME NEW r \in Requests, Submit(r) PROVE TypeInv' /\ PhaseInv'
  <2>1. Append(chan, r) \in Seq(Requests)  BY AppendProperties
  <2> QED BY <1>2, <2>1 DEF Submit, task, pool
<1>3. CASE Slots
  BY <1>3 DEF Slots, pool
<1>4. CASE Load
  BY <1>4 DEF Load, pool
<1>5. CASE Drain
  <2> DEFINE e == [req |-> Head(chan), order |-> Cardinality(queue), hdl |-> Head(chan)]
  <2>1. Head(chan) \in Requests /\ Tail(chan) \in Seq(Requests)
    BY <1>5, TailFacts DEF Drain
  <2>2. e \in Entries
    BY <2>1, FS_CardinalityType DEF Entries, GoodQueue
  <2> HIDE DEF e
  <2>3. chan' = Tail(chan) /\ UNCHANGED <<pc, snap, batch, future, reached, pool>>
    BY <1>5 DEF Drain
  <2>4. AddEntry(e) \/ UNCHANGED queue
    BY <1>5 DEF Drain, e
  <2>5. GoodQueue(queue') /\ Cardinality(queue') <= MaxQueue
    BY <2>2, <2>4, AddEntryKeeps
  <2> QED BY <2>1, <2>3, <2>5 DEF pool
<1>6. CASE Drained
  BY <1>6 DEF Drained, pool
<1>7. CASE Pop
  <2>1. Best \in Entries  BY <1>7, PopTakes DEF Pop
  <2>2. Append(batch, Best) \in Seq(Entries) /\ Append(future, Best) \in Seq(Entries)
    BY <2>1, AppendProperties
  <2>3. queue' = queue \ {Best} /\ pc = "pop" /\ UNCHANGED <<chan, pc, snap, reached, pool>>
    BY <1>7 DEF Pop
  <2>4. \/ batch' = Append(batch, Best) /\ UNCHANGED future
        \/ future' = Append(future, Best) /\ UNCHANGED batch
        \/ UNCHANGED <<batch, future>>
    BY <1>7 DEF Pop
  <2>5. GoodQueue(queue') /\ Cardinality(queue') <= MaxQueue
    BY <2>3, RemoveKeeps
  <2> QED BY <2>2, <2>3, <2>4, <2>5 DEF pool
<1>8. CASE Popped
  BY <1>8 DEF Popped, pool
<1>9. CASE AddBack
  <2>1. Head(future) \in Entries /\ Tail(future) \in Seq(Entries)
    BY <1>9, TailFacts DEF AddBack
  <2>2. AddEntry(Head(future)) \/ UNCHANGED queue
    BY <1>9 DEF AddBack
  <2>3. GoodQueue(queue') /\ Cardinality(queue') <= MaxQueue
    BY <2>1, <2>2, AddEntryKeeps
  <2>4. pc = "back" /\ future' = Tail(future) /\ UNCHANGED <<chan, pc, snap, batch, reached, pool>>
    BY <1>9 DEF AddBack
  <2> QED BY <2>1, <2>3, <2>4 DEF pool
<1>10. CASE Fetched
  BY <1>10 DEF Fetched, pool
<1>11. CASE CreateAccounts
  <2>1. nonce' \in [AllAccounts -> Nat]  BY <1>11 DEF CreateAccounts
  <2>2. pc = "lock" /\ pc' \in {"push", "readd"} /\ UNCHANGED <<chan, queue, snap, batch, future>>
    BY <1>11 DEF CreateAccounts
  <2> QED BY <2>1, <2>2
<1>12. CASE CreateFails
  BY <1>12 DEF CreateFails
<1>13. CASE Readd
  <2>1. CASE batch = <<>>
    BY <1>13, <2>1 DEF Readd, pool
  <2>2. CASE batch # <<>>
    <3>1. Head(batch) \in Entries /\ Tail(batch) \in Seq(Entries)
      BY <2>2, TailFacts
    <3>2. pc = "readd" /\ AddEntry(Head(batch)) /\ batch' = Tail(batch)
          /\ UNCHANGED <<pc, chan, snap, future, reached, pool>>
      BY <1>13, <2>2 DEF Readd
    <3>3. GoodQueue(queue') /\ Cardinality(queue') <= MaxQueue
      BY <3>1, <3>2, AddEntryKeeps
    <3> QED BY <3>1, <3>2, <3>3 DEF pool
  <2> QED BY <2>1, <2>2
<1>14. CASE Requeue
  <2>1. Head(batch) \in Entries /\ Tail(batch) \in Seq(Entries)
    BY <1>14, TailFacts DEF Requeue
  <2>2. pc = "push" /\ AddEntry(Head(batch)) /\ batch' = Tail(batch)
        /\ UNCHANGED <<chan, pc, snap, future, pool>>
    BY <1>14 DEF Requeue
  <2>3. GoodQueue(queue') /\ Cardinality(queue') <= MaxQueue
    BY <2>1, <2>2, AddEntryKeeps
  <2> QED BY <2>1, <2>2, <2>3 DEF pool
<1>15. CASE PushTransaction
  <2>1. Head(batch) \in Entries /\ Tail(batch) \in Seq(Entries)
    BY <1>15, TailFacts DEF PushTransaction
  <2>2. Acct(Head(batch).req) \in AllAccounts  BY <2>1, RequestType DEF Entries
  <2>3. nonce' \in [AllAccounts -> Nat]
    <3>1. nonce' = [nonce EXCEPT ![Acct(Head(batch).req)] = @ + 1]  BY <1>15 DEF PushTransaction
    <3> QED BY <2>2, <3>1
  <2>4. pc = "push" /\ batch' = Tail(batch) /\ UNCHANGED <<chan, queue, pc, snap, future>>
    BY <1>15 DEF PushTransaction
  <2> QED BY <2>1, <2>3, <2>4
<1>16. CASE PushWithdrawal
  <2>1. Head(batch) \in Entries /\ Tail(batch) \in Seq(Entries)
    BY <1>16, TailFacts DEF PushWithdrawal
  <2> QED BY <1>16, <2>1 DEF PushWithdrawal
<1>17. CASE PushFails
  <2>1. Head(batch) \in Entries /\ Tail(batch) \in Seq(Entries)
    BY <1>17, TailFacts DEF PushFails
  <2>2. pc = "push" /\ batch' = Tail(batch) /\ UNCHANGED <<chan, queue, pc, snap, future, pool>>
    BY <1>17 DEF PushFails
  <2> QED BY <2>1, <2>2 DEF pool
<1>18. CASE Pushed
  BY <1>18 DEF Pushed, pool
<1>19. CASE NewTip
  <2>1. nonce' \in [AllAccounts -> Nat]  BY <1>19 DEF NewTip
  <2>2. UNCHANGED <<chan, task>>  BY <1>19 DEF NewTip
  <2> QED BY <2>1, <2>2 DEF task
<1>20. CASE NonceMoves
  <2>1. nonce' \in [AllAccounts -> Nat]
    <3>1. PICK a \in known, n \in 0..MaxNonce : nonce' = [nonce EXCEPT ![a] = n]
      BY <1>20 DEF NonceMoves
    <3>2. n \in Nat  BY <3>1, QueueAssumption
    <3> QED BY <3>1, <3>2
  <2>2. UNCHANGED <<chan, task>>  BY <1>20 DEF NonceMoves
  <2> QED BY <2>1, <2>2 DEF task
<1> QED BY <1>1, <1>2, <1>3, <1>4, <1>5, <1>6, <1>7, <1>8, <1>9, <1>10, <1>11, <1>12, <1>13,
           <1>14, <1>15, <1>16, <1>17, <1>18, <1>19, <1>20 DEF Next, Step

\* The queue never grows past MAX_QUEUE_SIZE, whatever returns to it.
THEOREM QueueStaysBounded == Spec => []QueueBounded
<1>1. TypePhase => QueueBounded  BY DEF TypePhase, TypeInv
<1> QED BY <1>1, TypePhaseInit, TypePhaseNext, PTL DEF Spec


(***************************************************************************)
(* The order of a batch.                                                   *)
(***************************************************************************)
Fetching == pc \in {"pop", "back", "lock"}

\* While entries are popped, what was fetched pays at least what the queue still holds.
RestPaysLess ==
    pc = "pop" => \A i \in DOMAIN batch : \A e \in queue : AtLeast(batch[i].req, e.req)

FetchInv == RestPaysLess /\ BatchInFeeOrder /\ BatchInNonceOrder

\* A step that leaves the batch and the loaded state alone and starts no fetch keeps FetchInv.
LEMMA FetchFrame ==
    ASSUME FetchInv, UNCHANGED <<batch, snap>>, Fetching' => Fetching,
           pc' = "pop" => pc = "pop" /\ queue' = queue
    PROVE  FetchInv'
<1>1. RestPaysLess'
  BY DEF FetchInv, RestPaysLess
<1>2. BatchInFeeOrder'
  BY DEF FetchInv, BatchInFeeOrder, Fetching
<1>3. BatchInNonceOrder'
  <2>1. \A r : FetchedOf(r)' = FetchedOf(r)  BY DEF FetchedOf
  <2> QED BY <2>1 DEF FetchInv, BatchInNonceOrder, Fetching, FetchedOf
<1> QED BY <1>1, <1>2, <1>3 DEF FetchInv

\* A step to a state without a batch under way, or with an empty one, keeps FetchInv.
LEMMA FetchIdle ==
    ASSUME Fetching' => batch' = <<>>
    PROVE  FetchInv'
<1>1. Fetching' => DOMAIN batch' = {}
  OBVIOUS
<1>2. RestPaysLess'  BY <1>1 DEF RestPaysLess, Fetching
<1>3. BatchInFeeOrder'  BY <1>1 DEF BatchInFeeOrder, Fetching
<1>4. BatchInNonceOrder'  BY <1>1 DEF BatchInNonceOrder, Fetching
<1> QED BY <1>2, <1>3, <1>4 DEF FetchInv

\* The item that Pop appends carries the next nonce of its sender and pays at most what
\* was appended before it.
LEMMA FetchPop ==
    ASSUME TypeInv, FetchInv, Pop
    PROVE  FetchInv'
<1> PICK b : b = Best  OBVIOUS
<1>1. b \in queue /\ b \in Entries /\ \A y \in queue : AtLeast(b.req, y.req)
  BY PopTakes DEF Pop
<1>2. queue' = queue \ {b} /\ pc = "pop" /\ pc' = pc /\ snap' = snap
  BY DEF Pop
<1>3. CASE UNCHANGED batch
  <2>1. RestPaysLess'  BY <1>2, <1>3 DEF FetchInv, RestPaysLess
  <2>2. BatchInFeeOrder'  BY <1>2, <1>3 DEF FetchInv, BatchInFeeOrder
  <2>3. BatchInNonceOrder'
    <3>1. \A r : FetchedOf(r)' = FetchedOf(r)  BY <1>3 DEF FetchedOf
    <3> QED BY <1>2, <1>3, <3>1 DEF FetchInv, BatchInNonceOrder, FetchedOf
  <2> QED BY <2>1, <2>2, <2>3 DEF FetchInv
<1>4. CASE batch' = Append(batch, b) /\ Nonce(b.req) = Expected(b.req)
  <2> PICK n \in Nat : n = Len(batch)  BY LenProperties DEF TypeInv
  <2>1. /\ DOMAIN batch = 1..n /\ DOMAIN batch' = 1..(n + 1)
        /\ \A i \in 1..n : batch'[i] = batch[i]
        /\ batch'[n + 1] = b
    <3>1. batch \in Seq(Entries)  BY DEF TypeInv
    <3>2. batch' \in Seq(Entries) /\ Len(batch') = n + 1 /\ batch'[n + 1] = b
          /\ \A i \in 1..n : batch'[i] = batch[i]
      BY <1>1, <1>4, <3>1, AppendProperties
    <3> QED BY <3>1, <3>2, LenProperties
  <2>2. \A i \in 1..(n + 1) : i \in 1..n \/ i = n + 1  OBVIOUS
  <2>3. \A i \in 1..n : AtLeast(batch[i].req, b.req)
    BY <1>1, <1>2, <2>1 DEF FetchInv, RestPaysLess
  <2>4. RestPaysLess'
    <3>1. \A i \in 1..n : \A e \in queue : AtLeast(batch[i].req, e.req)
      BY <1>2, <2>1 DEF FetchInv, RestPaysLess
    <3> QED BY <1>1, <1>2, <2>1, <2>2, <3>1 DEF RestPaysLess
  <2>5. BatchInFeeOrder'
    <3>1. \A i, j \in 1..n : i < j => AtLeast(batch[i].req, batch[j].req)
      BY <1>2, <2>1 DEF FetchInv, BatchInFeeOrder, AtLeast
    <3>2. ASSUME NEW i \in 1..(n + 1), NEW j \in 1..(n + 1), i < j
          PROVE  AtLeast(batch'[i].req, batch'[j].req)
      <4>1. i \in 1..n  BY <3>2
      <4>2. CASE j \in 1..n  BY <2>1, <3>1, <3>2, <4>1, <4>2
      <4>3. CASE j = n + 1  BY <2>1, <2>3, <4>1, <4>3
      <4> QED BY <2>2, <4>2, <4>3
    <3> QED BY <2>1, <3>2 DEF BatchInFeeOrder, AtLeast
  <2>6. BatchInNonceOrder'
    <3> DEFINE Base(r) == IF Kind(r) = "create" THEN 0 ELSE snap[Acct(r)]
               Earlier(bs, i, r) == {j \in DOMAIN bs : Sender(bs[j].req) = Sender(r) /\ j < i}
    <3>1. \A i \in 1..n : Nonce(batch[i].req)
                           = Base(batch[i].req) + Cardinality(Earlier(batch, i, batch[i].req))
      <4> TAKE i \in 1..n
      <4>1. {j \in FetchedOf(batch[i].req) : j < i} = Earlier(batch, i, batch[i].req)
        BY DEF FetchedOf
      <4> QED BY <1>2, <2>1, <4>1 DEF FetchInv, BatchInNonceOrder
    <3>2. Nonce(b.req) = Base(b.req) + Cardinality(FetchedOf(b.req))
      BY <1>4 DEF Expected
    <3>3. \A i \in 1..n : Earlier(batch', i, batch[i].req) = Earlier(batch, i, batch[i].req)
      BY <2>1
    <3>4. Earlier(batch', n + 1, b.req) = FetchedOf(b.req)
      BY <2>1 DEF FetchedOf
    <3>5. ASSUME NEW i \in 1..(n + 1)
          PROVE  Nonce(batch'[i].req)
                 = Base(batch'[i].req) + Cardinality(Earlier(batch', i, batch'[i].req))
      <4>1. CASE i \in 1..n
        <5>1. batch'[i] = batch[i]  BY <2>1, <4>1
        <5> HIDE DEF Base, Earlier
        <5> QED BY <3>1, <3>3, <4>1, <5>1
      <4>2. CASE i = n + 1
        <5>1. batch'[i] = b  BY <2>1, <4>2
        <5> HIDE DEF Base, Earlier
        <5> QED BY <3>2, <3>4, <4>2, <5>1
      <4> QED BY <2>2, <4>1, <4>2
    <3>6. \A i \in 1..(n + 1) :
              {j \in {k \in DOMAIN batch' : Sender(batch'[k].req) = Sender(batch'[i].req)} : j < i}
              = Earlier(batch', i, batch'[i].req)
      OBVIOUS
    <3> QED BY <1>2, <2>1, <3>5, <3>6 DEF BatchInNonceOrder, FetchedOf
  <2> QED BY <2>4, <2>5, <2>6 DEF FetchInv
<1>5. UNCHANGED batch \/ (batch' = Append(batch, b) /\ Nonce(b.req) = Expected(b.req))
  BY DEF Pop
<1> QED BY <1>3, <1>4, <1>5

\* Every step keeps the order of the batch.
LEMMA FetchNext == TypePhase /\ FetchInv /\ [Next]_vars => FetchInv'
<1> SUFFICES ASSUME TypeInv, PhaseInv, FetchInv, [Next]_vars PROVE FetchInv'
  BY DEF TypePhase
<1>1. CASE UNCHANGED <<pc, snap, batch, queue>>
  BY <1>1, FetchFrame DEF Fetching
<1>2. CASE pc' \notin {"pop", "back", "lock"}
  BY <1>2, FetchIdle DEF Fetching
<1>3. CASE Drained
  <2>1. batch' = <<>>  BY <1>3 DEF Drained, PhaseInv
  <2> QED BY <2>1, FetchIdle
<1>4. CASE Pop
  BY <1>4, FetchPop
<1>5. CASE Popped \/ AddBack
  <2>1. UNCHANGED <<batch, snap>> /\ Fetching /\ pc' # "pop"
    BY <1>5 DEF Popped, AddBack, Fetching
  <2> QED BY <2>1, FetchFrame
<1>6. CASE Fetched
  <2>1. UNCHANGED <<batch, snap>> /\ Fetching /\ pc' # "pop"
    BY <1>6 DEF Fetched, Fetching
  <2> QED BY <2>1, FetchFrame
<1>7. ASSUME NEW r \in Requests, Submit(r) PROVE UNCHANGED <<pc, snap, batch, queue>>
  BY <1>7 DEF Submit, task
<1>8. CASE Slots \/ Load \/ Drain
  BY <1>2, <1>8 DEF Slots, Load, Drain
<1>9. CASE CreateAccounts \/ CreateFails \/ Readd
  BY <1>2, <1>9 DEF CreateAccounts, CreateFails, Readd
<1>10. CASE Requeue \/ PushTransaction \/ PushWithdrawal
  BY <1>2, <1>10 DEF Requeue, PushTransaction, PushWithdrawal
<1>11. CASE PushFails \/ Pushed
  BY <1>2, <1>11 DEF PushFails, Pushed
<1>12. CASE NewTip \/ NonceMoves
  BY <1>1, <1>12 DEF NewTip, NonceMoves, task
<1>13. CASE UNCHANGED vars
  BY <1>1, <1>13 DEF vars, task
<1> QED BY <1>1, <1>3, <1>4, <1>5, <1>6, <1>7, <1>8, <1>9, <1>10, <1>11, <1>12, <1>13 DEF Next, Step

\* The inductive invariant of the batch.
LEMMA FetchAlways == Spec => [](TypePhase /\ FetchInv)
<1>1. Init => FetchInv
  BY DEF Init, FetchInv, RestPaysLess, BatchInFeeOrder, BatchInNonceOrder
<1> QED BY <1>1, TypePhaseInit, TypePhaseNext, FetchNext, PTL DEF Spec

\* FeeQueue::fetch returns items in the order of their fee rates.
THEOREM BatchesInFeeOrder == Spec => []BatchInFeeOrder
<1>1. FetchInv => BatchInFeeOrder  BY DEF FetchInv
<1> QED BY <1>1, FetchAlways, PTL

\* The items of one sender in a batch carry consecutive nonces from the loaded state on.
THEOREM BatchesInNonceOrder == Spec => []BatchInNonceOrder
<1>1. FetchInv => BatchInNonceOrder  BY DEF FetchInv
<1> QED BY <1>1, FetchAlways, PTL


(***************************************************************************)
(* The handles and the map of requests in queue.                           *)
(***************************************************************************)
\* A sequence of entries holds every handle once; the channel every request.
HandlesOnce(s) == \A i, j \in DOMAIN s : s[i].hdl = s[j].hdl => i = j
Once(s) == \A i, j \in DOMAIN s : s[i] = s[j] => i = j

Apart(C, Q, B, F) ==
    /\ C \cap Q = {} /\ C \cap B = {} /\ C \cap F = {}
    /\ Q \cap B = {} /\ Q \cap F = {} /\ B \cap F = {}

HandleInv ==
    /\ inQueue = Held
    /\ Once(chan) /\ DistinctHandles(queue) /\ HandlesOnce(batch) /\ HandlesOnce(future)
    /\ Apart(Range(chan), Handles(queue), HandlesOf(batch), HandlesOf(future))

\* The handles of a sequence with one more entry.
LEMMA HandlesAppend ==
    ASSUME NEW s \in Seq(Entries), NEW e \in Entries, NEW t, t = Append(s, e)
    PROVE  /\ HandlesOf(t) = HandlesOf(s) \cup {e.hdl}
           /\ HandlesOnce(s) /\ e.hdl \notin HandlesOf(s) => HandlesOnce(t)
<1> PICK n \in Nat : n = Len(s)  BY LenProperties
<1>1. /\ DOMAIN s = 1..n /\ DOMAIN t = 1..(n + 1)
      /\ \A i \in 1..n : t[i] = s[i]
      /\ t[n + 1] = e
  <2>1. t \in Seq(Entries) /\ Len(t) = n + 1 /\ t[n + 1] = e /\ \A i \in 1..n : t[i] = s[i]
    BY AppendProperties
  <2> QED BY <2>1, LenProperties
<1>2. \A i \in 1..(n + 1) : i \in 1..n \/ i = n + 1  OBVIOUS
<1>3. HandlesOf(t) = HandlesOf(s) \cup {e.hdl}
  BY <1>1, <1>2 DEF HandlesOf
<1>4. ASSUME HandlesOnce(s), e.hdl \notin HandlesOf(s) PROVE HandlesOnce(t)
  BY <1>1, <1>2, <1>4 DEF HandlesOf, HandlesOnce
<1> QED BY <1>3, <1>4

\* The handles of a sequence without its head.
LEMMA HandlesTail ==
    ASSUME NEW s \in Seq(Entries), s # <<>>, NEW t, t = Tail(s), HandlesOnce(s)
    PROVE  /\ HandlesOf(s) = HandlesOf(t) \cup {Head(s).hdl}
           /\ Head(s).hdl \notin HandlesOf(t) /\ HandlesOnce(t)
<1> PICK n \in Nat : n = Len(s)  BY LenProperties
<1>1. /\ n >= 1 /\ DOMAIN s = 1..n /\ DOMAIN t = 1..(n - 1)
      /\ \A i \in 1..(n - 1) : t[i] = s[i + 1]
      /\ Head(s) = s[1]
  BY TailFacts
<1>2. \A i \in 1..n : i = 1 \/ \E k \in 1..(n - 1) : s[i] = t[k]
  <2> SUFFICES ASSUME NEW i \in 1..n, i # 1 PROVE \E k \in 1..(n - 1) : s[i] = t[k]  OBVIOUS
  <2> PICK k : k = i - 1  OBVIOUS
  <2>1. k \in 1..(n - 1) /\ k + 1 = i  OBVIOUS
  <2>2. t[k] = s[i]  BY <1>1, <2>1
  <2> QED BY <2>1, <2>2
<1>3. \A i \in 1..(n - 1) : i + 1 \in 1..n /\ i + 1 # 1  BY <1>1
<1>4. 1 \in 1..n  BY <1>1
<1>5. HandlesOf(s) \subseteq HandlesOf(t) \cup {Head(s).hdl}
  <2> SUFFICES ASSUME NEW i \in 1..n PROVE s[i].hdl \in HandlesOf(t) \cup {Head(s).hdl}
    BY <1>1 DEF HandlesOf
  <2> QED BY <1>1, <1>2 DEF HandlesOf
<1>6. HandlesOf(t) \subseteq HandlesOf(s) /\ Head(s).hdl \in HandlesOf(s)
  BY <1>1, <1>3, <1>4 DEF HandlesOf
<1>7. Head(s).hdl \notin HandlesOf(t)
  BY <1>1, <1>3, <1>4 DEF HandlesOf, HandlesOnce
<1>8. HandlesOnce(t)
  BY <1>1, <1>3 DEF HandlesOnce
<1> QED BY <1>5, <1>6, <1>7, <1>8

\* The channel with one more request.
LEMMA ChannelAppend ==
    ASSUME NEW s \in Seq(Requests), NEW r \in Requests, NEW t, t = Append(s, r)
    PROVE  /\ Range(t) = Range(s) \cup {r}
           /\ Once(s) /\ r \notin Range(s) => Once(t)
<1> PICK n \in Nat : n = Len(s)  BY LenProperties
<1>1. /\ DOMAIN s = 1..n /\ DOMAIN t = 1..(n + 1)
      /\ \A i \in 1..n : t[i] = s[i]
      /\ t[n + 1] = r
  <2>1. t \in Seq(Requests) /\ Len(t) = n + 1 /\ t[n + 1] = r /\ \A i \in 1..n : t[i] = s[i]
    BY AppendProperties
  <2> QED BY <2>1, LenProperties
<1>2. \A i \in 1..(n + 1) : i \in 1..n \/ i = n + 1  OBVIOUS
<1>3. Range(t) = Range(s) \cup {r}
  BY <1>1, <1>2 DEF Range
<1>4. ASSUME Once(s), r \notin Range(s) PROVE Once(t)
  BY <1>1, <1>2, <1>4 DEF Range, Once
<1> QED BY <1>3, <1>4

\* The channel without its first request.
LEMMA ChannelTail ==
    ASSUME NEW s \in Seq(Requests), s # <<>>, NEW t, t = Tail(s), Once(s)
    PROVE  /\ Range(s) = Range(t) \cup {Head(s)}
           /\ Head(s) \notin Range(t) /\ Once(t)
<1> PICK n \in Nat : n = Len(s)  BY LenProperties
<1>1. /\ n >= 1 /\ DOMAIN s = 1..n /\ DOMAIN t = 1..(n - 1)
      /\ \A i \in 1..(n - 1) : t[i] = s[i + 1]
      /\ Head(s) = s[1]
  BY TailFacts
<1>2. \A i \in 1..n : i = 1 \/ \E k \in 1..(n - 1) : s[i] = t[k]
  <2> SUFFICES ASSUME NEW i \in 1..n, i # 1 PROVE \E k \in 1..(n - 1) : s[i] = t[k]  OBVIOUS
  <2> PICK k : k = i - 1  OBVIOUS
  <2>1. k \in 1..(n - 1) /\ k + 1 = i  OBVIOUS
  <2>2. t[k] = s[i]  BY <1>1, <2>1
  <2> QED BY <2>1, <2>2
<1>3. \A i \in 1..(n - 1) : i + 1 \in 1..n /\ i + 1 # 1  BY <1>1
<1>4. 1 \in 1..n  BY <1>1
<1>5. Range(s) \subseteq Range(t) \cup {Head(s)}
  <2> SUFFICES ASSUME NEW i \in 1..n PROVE s[i] \in Range(t) \cup {Head(s)}
    BY <1>1 DEF Range
  <2> QED BY <1>1, <1>2 DEF Range
<1>6. Range(t) \subseteq Range(s) /\ Head(s) \in Range(s)
  BY <1>1, <1>3, <1>4 DEF Range
<1>7. Head(s) \notin Range(t)
  BY <1>1, <1>3, <1>4 DEF Range, Once
<1>8. Once(t)
  BY <1>1, <1>3 DEF Once
<1> QED BY <1>5, <1>6, <1>7, <1>8

\* A queue without one of its entries.
LEMMA HandlesRemove ==
    ASSUME NEW q, DistinctHandles(q), NEW e \in q, NEW w, w = q \ {e}
    PROVE  /\ Handles(q) = Handles(w) \cup {e.hdl}
           /\ e.hdl \notin Handles(w) /\ DistinctHandles(w)
BY DEF Handles, DistinctHandles

\* What AddEntry does to the handles, the entry coming from outside the queue.
LEMMA AddEntryHandles ==
    ASSUME TypeInv, NEW e \in Entries, AddEntry(e), DistinctHandles(queue),
           NEW X, inQueue = X \cup Handles(queue) \cup {e.hdl},
           X \cap Handles(queue) = {}, e.hdl \notin X, e.hdl \notin Handles(queue)
    PROVE  /\ DistinctHandles(queue') /\ inQueue' = X \cup Handles(queue')
           /\ X \cap Handles(queue') = {}
<1> PICK Q : Q = Handles(queue)  OBVIOUS
<1> PICK w : w = queue'  OBVIOUS
<1>1. w = Add(queue, e)  BY DEF AddEntry
<1>2. GoodQueue(queue) /\ Cardinality(queue) <= MaxQueue  BY DEF TypeInv, QueueBounded
<1>3. Handles(w) \subseteq Q \cup {e.hdl} /\ DistinctHandles(w)
  BY <1>1, <1>2, AddKeeps
<1> PICK Q2 : Q2 = Handles(w)  OBVIOUS
<1>4. inQueue' = inQueue \ ((Q \cup {e.hdl}) \ Q2)
  BY DEF AddEntry
<1>5. inQueue' = X \cup Q2 /\ X \cap Q2 = {}
  BY <1>3, <1>4
<1> QED BY <1>3, <1>5

\* What the invariant says for each place a handle can be in.
LEMMA HandleInvPrime ==
    ASSUME NEW C, NEW Q, NEW B, NEW F, C = Range(chan'), Q = Handles(queue'),
           B = HandlesOf(batch'), F = HandlesOf(future'),
           inQueue' = C \cup Q \cup B \cup F, Apart(C, Q, B, F),
           Once(chan'), DistinctHandles(queue'), HandlesOnce(batch'), HandlesOnce(future')
    PROVE  HandleInv'
BY DEF HandleInv, Held


\* A step that moves no handle.
LEMMA HandleFrame ==
    ASSUME HandleInv, UNCHANGED <<chan, inQueue, queue, batch, future>>
    PROVE  HandleInv'
BY DEF HandleInv, Held

\* A step that takes an item from the batch and drops its handle.
LEMMA HandleDropHead ==
    ASSUME TypeInv, HandleInv, batch # <<>>, batch' = Tail(batch), DropEntry(Head(batch)),
           UNCHANGED <<chan, queue, future>>
    PROVE  HandleInv'
<1> PICK C, Q, B, F : C = Range(chan) /\ Q = Handles(queue) /\ B = HandlesOf(batch) /\ F = HandlesOf(future)
  OBVIOUS
<1> PICK t, h : t = batch' /\ h = Head(batch).hdl  OBVIOUS
<1> PICK B2 : B2 = HandlesOf(t)  OBVIOUS
<1>1. batch \in Seq(Entries)  BY DEF TypeInv
<1>2. inQueue = C \cup Q \cup B \cup F /\ Apart(C, Q, B, F)  BY DEF HandleInv, Held
<1>3. B = B2 \cup {h} /\ h \notin B2 /\ HandlesOnce(t)
  BY <1>1, HandlesTail DEF HandleInv
<1>4. inQueue' = inQueue \ {h}  BY DEF DropEntry
<1>5. inQueue' = C \cup Q \cup B2 \cup F /\ Apart(C, Q, B2, F)
  BY <1>2, <1>3, <1>4 DEF Apart
<1>6. Once(chan') /\ DistinctHandles(queue') /\ HandlesOnce(batch') /\ HandlesOnce(future')
  BY <1>3 DEF HandleInv
<1> QED BY <1>5, <1>6, HandleInvPrime

\* A step that takes an item from the batch and returns it to the queue.
LEMMA HandleReturnHead ==
    ASSUME TypeInv, HandleInv, batch # <<>>, batch' = Tail(batch), AddEntry(Head(batch)),
           UNCHANGED <<chan, future>>
    PROVE  HandleInv'
<1> PICK C, Q, B, F : C = Range(chan) /\ Q = Handles(queue) /\ B = HandlesOf(batch) /\ F = HandlesOf(future)
  OBVIOUS
<1> PICK t, h, e : t = batch' /\ h = Head(batch).hdl /\ e = Head(batch)  OBVIOUS
<1> PICK B2, Q2, X : B2 = HandlesOf(t) /\ Q2 = Handles(queue') /\ X = C \cup B2 \cup F  OBVIOUS
<1>1. batch \in Seq(Entries)  BY DEF TypeInv
<1>2. inQueue = C \cup Q \cup B \cup F /\ Apart(C, Q, B, F) /\ DistinctHandles(queue)
  BY DEF HandleInv, Held
<1>3. B = B2 \cup {h} /\ h \notin B2 /\ HandlesOnce(t)
  BY <1>1, HandlesTail DEF HandleInv
<1>4. e \in Entries  BY <1>1, TailFacts
<1>5. inQueue = X \cup Q \cup {h} /\ X \cap Q = {} /\ h \notin X /\ h \notin Q
  BY <1>2, <1>3 DEF Apart
<1>6. DistinctHandles(queue') /\ inQueue' = X \cup Q2 /\ X \cap Q2 = {}
  BY <1>2, <1>4, <1>5, AddEntryHandles
<1>7. inQueue' = C \cup Q2 \cup B2 \cup F /\ Apart(C, Q2, B2, F)
  BY <1>2, <1>3, <1>6 DEF Apart
<1>8. Once(chan') /\ HandlesOnce(batch') /\ HandlesOnce(future')
  BY <1>3 DEF HandleInv
<1> QED BY <1>6, <1>7, <1>8, HandleInvPrime

\* Submit puts a request into the channel that nothing held.
LEMMA HandleSubmit ==
    ASSUME TypeInv, HandleInv, NEW r \in Requests, Submit(r)
    PROVE  HandleInv'
<1> PICK C, Q, B, F : C = Range(chan) /\ Q = Handles(queue) /\ B = HandlesOf(batch) /\ F = HandlesOf(future)
  OBVIOUS
<1> PICK t : t = chan'  OBVIOUS
<1> PICK C2 : C2 = Range(t)  OBVIOUS
<1>1. chan \in Seq(Requests)  BY DEF TypeInv
<1>2. inQueue = C \cup Q \cup B \cup F /\ Apart(C, Q, B, F)  BY DEF HandleInv, Held
<1>3. t = Append(chan, r) /\ inQueue' = inQueue \cup {r} /\ r \notin inQueue
      /\ UNCHANGED <<queue, batch, future>>
  BY DEF Submit, task
<1>4. C2 = C \cup {r} /\ Once(t)
  BY <1>1, <1>2, <1>3, ChannelAppend DEF HandleInv
<1>5. inQueue' = C2 \cup Q \cup B \cup F /\ Apart(C2, Q, B, F)
  BY <1>2, <1>3, <1>4 DEF Apart
<1>6. Once(chan') /\ DistinctHandles(queue') /\ HandlesOnce(batch') /\ HandlesOnce(future')
  BY <1>3, <1>4 DEF HandleInv
<1>7. Q = Handles(queue') /\ B = HandlesOf(batch') /\ F = HandlesOf(future')  BY <1>3
<1> QED BY <1>5, <1>6, <1>7, HandleInvPrime

\* Drain moves a request from the channel into the queue or drops it.
LEMMA HandleDrain ==
    ASSUME TypeInv, HandleInv, Drain
    PROVE  HandleInv'
<1> PICK C, Q, B, F : C = Range(chan) /\ Q = Handles(queue) /\ B = HandlesOf(batch) /\ F = HandlesOf(future)
  OBVIOUS
<1> PICK t, h, e : t = chan' /\ h = Head(chan)
                   /\ e = [req |-> Head(chan), order |-> Cardinality(queue), hdl |-> Head(chan)]
  OBVIOUS
<1> PICK C2, Q2, X : C2 = Range(t) /\ Q2 = Handles(queue') /\ X = C2 \cup B \cup F  OBVIOUS
<1>1. chan \in Seq(Requests) /\ chan # <<>> /\ t = Tail(chan) /\ UNCHANGED <<batch, future>>
  BY DEF TypeInv, Drain
<1>2. inQueue = C \cup Q \cup B \cup F /\ Apart(C, Q, B, F) /\ DistinctHandles(queue)
  BY DEF HandleInv, Held
<1>3. C = C2 \cup {h} /\ h \notin C2 /\ Once(t)
  BY <1>1, ChannelTail DEF HandleInv
<1>4. h \in Requests  BY <1>1, TailFacts
<1>5. Cardinality(queue) \in Nat  BY FS_CardinalityType DEF TypeInv, GoodQueue
<1>6. e \in Entries /\ e.hdl = h  BY <1>4, <1>5 DEF Entries
<1>7. AddEntry(e) \/ (DropEntry(e) /\ UNCHANGED queue)
  BY DEF Drain
<1>8. inQueue = X \cup Q \cup {h} /\ X \cap Q = {} /\ h \notin X /\ h \notin Q
  BY <1>2, <1>3 DEF Apart
<1>9. DistinctHandles(queue') /\ inQueue' = X \cup Q2 /\ X \cap Q2 = {}
  <2>1. CASE AddEntry(e)
    BY <1>2, <1>6, <1>8, <2>1, AddEntryHandles
  <2>2. CASE DropEntry(e) /\ UNCHANGED queue
    <3>1. inQueue' = inQueue \ {h} /\ Q2 = Q  BY <1>6, <2>2 DEF DropEntry
    <3> QED BY <1>2, <1>8, <2>2, <3>1
  <2> QED BY <1>7, <2>1, <2>2
<1>10. inQueue' = C2 \cup Q2 \cup B \cup F /\ Apart(C2, Q2, B, F)
  BY <1>2, <1>3, <1>9 DEF Apart
<1>11. Once(chan') /\ HandlesOnce(batch') /\ HandlesOnce(future')
  BY <1>1, <1>3 DEF HandleInv
<1>12. B = HandlesOf(batch') /\ F = HandlesOf(future')  BY <1>1
<1> QED BY <1>9, <1>10, <1>11, <1>12, HandleInvPrime

\* AddBack moves an item that was put aside into the queue or drops it.
LEMMA HandleAddBack ==
    ASSUME TypeInv, HandleInv, AddBack
    PROVE  HandleInv'
<1> PICK C, Q, B, F : C = Range(chan) /\ Q = Handles(queue) /\ B = HandlesOf(batch) /\ F = HandlesOf(future)
  OBVIOUS
<1> PICK t, h, e : t = future' /\ h = Head(future).hdl /\ e = Head(future)  OBVIOUS
<1> PICK F2, Q2, X : F2 = HandlesOf(t) /\ Q2 = Handles(queue') /\ X = C \cup B \cup F2  OBVIOUS
<1>1. future \in Seq(Entries) /\ future # <<>> /\ t = Tail(future) /\ UNCHANGED <<chan, batch>>
  BY DEF TypeInv, AddBack
<1>2. inQueue = C \cup Q \cup B \cup F /\ Apart(C, Q, B, F) /\ DistinctHandles(queue)
  BY DEF HandleInv, Held
<1>3. F = F2 \cup {h} /\ h \notin F2 /\ HandlesOnce(t)
  BY <1>1, HandlesTail DEF HandleInv
<1>4. e \in Entries  BY <1>1, TailFacts
<1>5. AddEntry(e) \/ (DropEntry(e) /\ UNCHANGED queue)
  BY DEF AddBack
<1>6. inQueue = X \cup Q \cup {h} /\ X \cap Q = {} /\ h \notin X /\ h \notin Q
  BY <1>2, <1>3 DEF Apart
<1>7. DistinctHandles(queue') /\ inQueue' = X \cup Q2 /\ X \cap Q2 = {}
  <2>1. CASE AddEntry(e)
    BY <1>2, <1>4, <1>6, <2>1, AddEntryHandles
  <2>2. CASE DropEntry(e) /\ UNCHANGED queue
    <3>1. inQueue' = inQueue \ {h} /\ Q2 = Q  BY <2>2 DEF DropEntry
    <3> QED BY <1>2, <1>6, <2>2, <3>1
  <2> QED BY <1>5, <2>1, <2>2
<1>8. inQueue' = C \cup Q2 \cup B \cup F2 /\ Apart(C, Q2, B, F2)
  BY <1>2, <1>3, <1>7 DEF Apart
<1>9. Once(chan') /\ HandlesOnce(batch') /\ HandlesOnce(future')
  BY <1>1, <1>3 DEF HandleInv
<1>10. C = Range(chan') /\ B = HandlesOf(batch')  BY <1>1
<1> QED BY <1>7, <1>8, <1>9, <1>10, HandleInvPrime

\* Pop moves an entry to the batch, puts it aside or drops it.
LEMMA HandlePop ==
    ASSUME TypeInv, HandleInv, Pop
    PROVE  HandleInv'
<1> PICK C, Q, B, F : C = Range(chan) /\ Q = Handles(queue) /\ B = HandlesOf(batch) /\ F = HandlesOf(future)
  OBVIOUS
<1> PICK b, w, h : b = Best /\ w = queue' /\ h = b.hdl  OBVIOUS
<1> PICK Q2, B2, F2 : Q2 = Handles(w) /\ B2 = HandlesOf(batch') /\ F2 = HandlesOf(future')  OBVIOUS
<1>1. b \in queue /\ b \in Entries  BY PopTakes DEF Pop
<1>2. inQueue = C \cup Q \cup B \cup F /\ Apart(C, Q, B, F) /\ DistinctHandles(queue)
  BY DEF HandleInv, Held
<1>3. w = queue \ {b} /\ chan' = chan  BY DEF Pop
<1>4. Q = Q2 \cup {h} /\ h \notin Q2 /\ DistinctHandles(w)
  BY <1>1, <1>2, <1>3, HandlesRemove
<1>5. h \notin C /\ h \notin B /\ h \notin F  BY <1>2, <1>4 DEF Apart
<1>6. batch \in Seq(Entries) /\ future \in Seq(Entries) /\ HandlesOnce(batch) /\ HandlesOnce(future)
      /\ Once(chan)
  BY DEF TypeInv, HandleInv
<1>7. CASE batch' = Append(batch, b) /\ UNCHANGED <<inQueue, future>>
  <2>1. B2 = B \cup {h} /\ HandlesOnce(batch')
    <3> PICK t : t = batch'  OBVIOUS
    <3>1. HandlesOf(t) = B \cup {h} /\ HandlesOnce(t)
      BY <1>1, <1>5, <1>6, <1>7, HandlesAppend
    <3> QED BY <3>1
  <2>2. inQueue' = C \cup Q2 \cup B2 \cup F /\ Apart(C, Q2, B2, F)
    <3>1. inQueue' = inQueue  BY <1>7
    <3>2. inQueue' = C \cup Q2 \cup B2 \cup F  BY <1>2, <1>4, <2>1, <3>1
    <3> QED BY <1>2, <1>4, <1>5, <2>1, <3>2 DEF Apart
  <2>3. F = HandlesOf(future') /\ C = Range(chan') /\ HandlesOnce(future') /\ Once(chan')
    BY <1>3, <1>6, <1>7
  <2> QED BY <1>4, <2>1, <2>2, <2>3, HandleInvPrime
<1>8. CASE future' = Append(future, b) /\ UNCHANGED <<inQueue, batch>>
  <2>1. F2 = F \cup {h} /\ HandlesOnce(future')
    <3> PICK t : t = future'  OBVIOUS
    <3>1. HandlesOf(t) = F \cup {h} /\ HandlesOnce(t)
      BY <1>1, <1>5, <1>6, <1>8, HandlesAppend
    <3> QED BY <3>1
  <2>2. inQueue' = C \cup Q2 \cup B \cup F2 /\ Apart(C, Q2, B, F2)
    <3>1. inQueue' = inQueue  BY <1>8
    <3>2. inQueue' = C \cup Q2 \cup B \cup F2  BY <1>2, <1>4, <2>1, <3>1
    <3> QED BY <1>2, <1>4, <1>5, <2>1, <3>2 DEF Apart
  <2>3. B = HandlesOf(batch') /\ C = Range(chan') /\ HandlesOnce(batch') /\ Once(chan')
    BY <1>3, <1>6, <1>8
  <2> QED BY <1>4, <2>1, <2>2, <2>3, HandleInvPrime
<1>9. CASE DropEntry(b) /\ UNCHANGED <<batch, future>>
  <2>1. inQueue' = inQueue \ {h}  BY <1>9 DEF DropEntry
  <2>2. inQueue' = C \cup Q2 \cup B \cup F /\ Apart(C, Q2, B, F)
    BY <1>2, <1>4, <1>5, <2>1 DEF Apart
  <2>3. B = HandlesOf(batch') /\ F = HandlesOf(future') /\ C = Range(chan')
        /\ HandlesOnce(batch') /\ HandlesOnce(future') /\ Once(chan')
    BY <1>3, <1>6, <1>9
  <2> QED BY <1>4, <2>2, <2>3, HandleInvPrime
<1>10. \/ batch' = Append(batch, b) /\ UNCHANGED <<inQueue, future>>
       \/ future' = Append(future, b) /\ UNCHANGED <<inQueue, batch>>
       \/ DropEntry(b) /\ UNCHANGED <<batch, future>>
  BY DEF Pop
<1> QED BY <1>7, <1>8, <1>9, <1>10


\* Every step keeps the handles.
LEMMA HandleNext == TypePhase /\ HandleInv /\ [Next]_vars => HandleInv'
<1> SUFFICES ASSUME TypeInv, HandleInv, [Next]_vars PROVE HandleInv'
  BY DEF TypePhase
<1>1. ASSUME NEW r \in Requests, Submit(r) PROVE HandleInv'
  BY <1>1, HandleSubmit
<1>2. CASE Drain  BY <1>2, HandleDrain
<1>3. CASE Pop  BY <1>3, HandlePop
<1>4. CASE AddBack  BY <1>4, HandleAddBack
<1>5. CASE Slots \/ Load \/ Drained \/ Popped
  BY <1>5, HandleFrame DEF Slots, Load, Drained, Popped
<1>6. CASE Fetched \/ CreateAccounts \/ CreateFails \/ Pushed
  BY <1>6, HandleFrame DEF Fetched, CreateAccounts, CreateFails, Pushed
<1>7. CASE Readd
  <2>1. CASE batch = <<>>
    BY <1>7, <2>1, HandleFrame DEF Readd
  <2>2. CASE batch # <<>>
    BY <1>7, <2>2, HandleReturnHead DEF Readd
  <2> QED BY <2>1, <2>2
<1>8. CASE Requeue
  BY <1>8, HandleReturnHead DEF Requeue
<1>9. CASE PushTransaction
  BY <1>9, HandleDropHead DEF PushTransaction
<1>10. CASE PushWithdrawal
  BY <1>10, HandleDropHead DEF PushWithdrawal
<1>11. CASE PushFails
  BY <1>11, HandleDropHead DEF PushFails
<1>12. CASE NewTip \/ NonceMoves \/ UNCHANGED vars
  BY <1>12, HandleFrame DEF NewTip, NonceMoves, vars, task
<1> QED BY <1>1, <1>2, <1>3, <1>4, <1>5, <1>6, <1>7, <1>8, <1>9, <1>10, <1>11, <1>12 DEF Next, Step

\* A sequence holds as many handles as it has entries.
LEMMA CountHandles ==
    ASSUME NEW s \in Seq(Entries), HandlesOnce(s)
    PROVE  IsFiniteSet(HandlesOf(s)) /\ Cardinality(HandlesOf(s)) = Len(s)
<1> PICK n \in Nat : n = Len(s) /\ DOMAIN s = 1..n  BY LenProperties
<1> DEFINE f == [i \in 1..n |-> s[i].hdl]
<1>1. f \in Injection(1..n, HandlesOf(s))
  BY DEF Injection, IsInjective, HandlesOf, HandlesOnce
<1>2. f \in Surjection(1..n, HandlesOf(s))
  BY DEF Surjection, HandlesOf
<1>3. ExistsBijection(1..n, HandlesOf(s))
  BY <1>1, <1>2 DEF ExistsBijection, Bijection
<1> QED BY <1>3, FS_CountingElements, FS_NatBijection

\* The channel holds as many requests as it is long.
LEMMA CountChannel ==
    ASSUME NEW s \in Seq(Requests), Once(s)
    PROVE  IsFiniteSet(Range(s)) /\ Cardinality(Range(s)) = Len(s)
<1> PICK n \in Nat : n = Len(s) /\ s \in [1..n -> Requests] /\ DOMAIN s = 1..n  BY LenProperties
<1> DEFINE f == [i \in 1..n |-> s[i]]
<1>1. f \in Injection(1..n, Range(s))
  BY DEF Injection, IsInjective, Range, Once
<1>2. f \in Surjection(1..n, Range(s))
  BY DEF Surjection, Range
<1>3. ExistsBijection(1..n, Range(s))
  BY <1>1, <1>2 DEF ExistsBijection, Bijection
<1> QED BY <1>3, FS_CountingElements, FS_NatBijection

\* The queue holds as many handles as it has entries.
LEMMA CountQueue ==
    ASSUME NEW q, IsFiniteSet(q), DistinctHandles(q)
    PROVE  IsFiniteSet(Handles(q)) /\ Cardinality(Handles(q)) = Cardinality(q)
<1> DEFINE f == [e \in q |-> e.hdl]
<1>1. f \in Injection(q, Handles(q))
  BY DEF Injection, IsInjective, Handles, DistinctHandles
<1>2. f \in Surjection(q, Handles(q))
  BY DEF Surjection, Handles
<1>3. ExistsBijection(q, Handles(q))
  BY <1>1, <1>2 DEF ExistsBijection, Bijection
<1> QED BY <1>3, FS_Bijection

\* Disjoint finite sets.
LEMMA DisjointUnion ==
    ASSUME NEW S, NEW T, IsFiniteSet(S), IsFiniteSet(T), S \cap T = {}
    PROVE  IsFiniteSet(S \cup T) /\ Cardinality(S \cup T) = Cardinality(S) + Cardinality(T)
<1>1. Cardinality(S) \in Nat /\ Cardinality(T) \in Nat  BY FS_CardinalityType
<1>2. Cardinality(S \cap T) = 0  BY FS_EmptySet
<1>3. IsFiniteSet(S \cup T)
      /\ Cardinality(S \cup T) = Cardinality(S) + Cardinality(T) - Cardinality(S \cap T)
  BY FS_Union
<1> QED BY <1>1, <1>2, <1>3

\* With every handle in one place only, the handles add up.
LEMMA HandlesAddUp ==
    ASSUME TypeInv, HandleInv
    PROVE  HandlesMatchMap
<1> PICK C, Q, B, F : C = Range(chan) /\ Q = Handles(queue) /\ B = HandlesOf(batch) /\ F = HandlesOf(future)
  OBVIOUS
<1>1. Held = C \cup Q \cup B \cup F /\ inQueue = Held /\ Apart(C, Q, B, F)
  BY DEF HandleInv, Held
<1>2. IsFiniteSet(C) /\ Cardinality(C) = Len(chan)  BY CountChannel DEF TypeInv, HandleInv
<1>3. IsFiniteSet(Q) /\ Cardinality(Q) = Cardinality(queue)
  BY CountQueue DEF TypeInv, HandleInv, GoodQueue
<1>4. IsFiniteSet(B) /\ Cardinality(B) = Len(batch)  BY CountHandles DEF TypeInv, HandleInv
<1>5. IsFiniteSet(F) /\ Cardinality(F) = Len(future)  BY CountHandles DEF TypeInv, HandleInv
<1>6. C \cap Q = {} /\ (C \cup Q) \cap B = {} /\ (C \cup Q \cup B) \cap F = {}
  BY <1>1 DEF Apart
<1>7. IsFiniteSet(C \cup Q) /\ Cardinality(C \cup Q) = Len(chan) + Cardinality(queue)
  BY <1>2, <1>3, <1>6, DisjointUnion
<1> PICK X : X = C \cup Q  OBVIOUS
<1>8. IsFiniteSet(X \cup B) /\ Cardinality(X \cup B) = Cardinality(X) + Cardinality(B)
  BY <1>4, <1>6, <1>7, DisjointUnion
<1> PICK Y : Y = X \cup B  OBVIOUS
<1>9. Cardinality(Y \cup F) = Cardinality(Y) + Cardinality(F)
  BY <1>5, <1>6, <1>8, DisjointUnion
<1>10. Held = Y \cup F  BY <1>1
<1>11. Cardinality(Held) = Len(chan) + Cardinality(queue) + Len(batch) + Len(future)
  BY <1>4, <1>5, <1>7, <1>8, <1>9, <1>10
<1> QED BY <1>1, <1>11 DEF HandlesMatchMap

HandlePhase == TypePhase /\ HandleInv

\* A request is in the map exactly while one place holds its handle, however submissions,
\* fetches, returns and drops interleave.
THEOREM MapMatchesHandles == Spec => []HandlesMatchMap
<1>1. Init => HandleInv
  BY DEF Init, HandleInv, Held, Apart, Once, DistinctHandles, HandlesOnce, Handles, HandlesOf, Range
<1>2. HandlePhase => HandlesMatchMap
  BY HandlesAddUp DEF HandlePhase, TypePhase
<1>3. Init => HandlePhase  BY <1>1, TypePhaseInit DEF HandlePhase
<1>4. HandlePhase /\ [Next]_vars => HandlePhase'
  BY TypePhaseNext, HandleNext DEF HandlePhase
<1> QED BY <1>2, <1>3, <1>4, PTL DEF Spec

=============================================================================
