--------------------------- MODULE MemPoolProofs ---------------------------
(***************************************************************************)
(* Proofs about MemPool for every set of accounts, all limits, every set   *)
(* of requests that may fail and every set of disturbances.                *)
(***************************************************************************)
EXTENDS MemPool, NatLemmas, FiniteSetTheorems, SequenceTheorems

-----------------------------------------------------------------------------
(* What the recursive definitions compute, one step at a time.             *)

RetainRun(rs, S, f) ==
    /\ f[0] = <<>>
    /\ \A i \in 1..Len(rs) :
           f[i] = IF rs[i] \in S THEN Append(f[i-1], rs[i]) ELSE f[i-1]
    /\ Retain(rs, S) = f[Len(rs)]

LEMMA RetainSteps ==
    ASSUME NEW R, NEW rs \in Seq(R), NEW S
    PROVE  \E f \in [0..Len(rs) -> Seq(R)] : RetainRun(rs, S, f)
<1>1. PICK n \in Nat : n = Len(rs)  OBVIOUS
<1>2. PICK V : V = Seq(R)  OBVIOUS
<1>3. PICK e \in V : e = <<>>
  <2>1. <<>> \in Seq(R)  OBVIOUS
  <2> QED BY <1>2, <2>1, Zenon
<1> DEFINE Step(i, v) == IF rs[i] \in S THEN Append(v, rs[i]) ELSE v
           Is(g) == g = [i \in 0..Len(rs) |-> IF i = 0 THEN <<>> ELSE Step(i, g[i-1])]
           G == [x \in (1..n) \X V |-> Step(x[1], x[2])]
<1>4. \A i \in 1..n, v \in V : Step(i, v) \in V  BY <1>1, <1>2
<1>5. PICK f \in [0..n -> V] : f[0] = e /\ \A i \in 1..n : f[i] = Step(i, f[i-1])
  <2> HIDE DEF Step
  <2>1. G \in [(1..n) \X V -> V]  BY <1>4
  <2>2. \A i \in 1..n, v \in V : G[<<i, v>>] = Step(i, v)  OBVIOUS
  <2> HIDE DEF G
  <2>3. PICK f \in [0..n -> V] : Runs(n, e, G, f)  BY <2>1, RecExists
  <2>4. \A i \in 1..n : f[i-1] \in V  BY <2>3
  <2> QED BY <2>2, <2>3, <2>4 DEF Runs
<1> HIDE DEF Step
<1>6. Is(f)
  <2>1. f = [i \in 0..n |-> f[i]]  BY <1>5
  <2>2. \A i \in 0..n : i # 0 => i \in 1..n  OBVIOUS
  <2>3. \A i \in 0..n : f[i] = IF i = 0 THEN e ELSE Step(i, f[i-1])  BY <1>5, <2>2
  <2> QED BY <1>1, <1>3, <2>1, <2>3
<1>7. PICK h : h = CHOOSE g : Is(g)  OBVIOUS
<1>8. Is(h)
  <2> HIDE DEF Is
  <2> QED BY <1>6, <1>7
<1>9. Retain(rs, S) = h[Len(rs)]  BY <1>7 DEF Retain, Step
<1>10. h = [i \in 0..n |-> h[i]] /\ h[0] = e /\ \A i \in 1..n : h[i] = Step(i, h[i-1])
  <2>1. h = [i \in 0..n |-> IF i = 0 THEN e ELSE Step(i, h[i-1])]  BY <1>1, <1>3, <1>8
  <2>2. DOMAIN h = 0..n /\ \A i \in 0..n : h[i] = IF i = 0 THEN e ELSE Step(i, h[i-1])
    BY <2>1
  <2> QED BY <2>1, <2>2
<1>11. h \in [0..n -> V]
  <2>1. \A i \in 1..n : h[i-1] \in V => h[i] \in V  BY <1>4, <1>10
  <2>2. \A i \in 0..n : h[i] \in V  BY <1>3, <1>10, <2>1, RunTyped, ZenonT(60)
  <2> QED BY <1>10, <2>2
<1> QED BY <1>1, <1>2, <1>3, <1>9, <1>10, <1>11 DEF RetainRun, Step


\* ks has the members of the first k of rs that are in S, in the order of rs.
FromPart(rs, S, k, ks) == \A i \in DOMAIN ks : \E u \in 1..k : ks[i] = rs[u] /\ rs[u] \in S
AllOfPart(rs, S, k, ks) == \A u \in 1..k : rs[u] \in S => \E i \in DOMAIN ks : ks[i] = rs[u]
OrderOfPart(rs, k, ks) ==
    \A i, j \in DOMAIN ks : i < j => \E u, v \in 1..k : u < v /\ ks[i] = rs[u] /\ ks[j] = rs[v]

RetainedFrom(R, rs, S, ks) ==
    /\ ks \in Seq(R)
    /\ FromPart(rs, S, Len(rs), ks) /\ AllOfPart(rs, S, Len(rs), ks) /\ OrderOfPart(rs, Len(rs), ks)

LEMMA RetainFacts ==
    ASSUME NEW R, NEW rs \in Seq(R), NEW S
    PROVE  RetainedFrom(R, rs, S, Retain(rs, S))
<1>1. PICK n \in Nat : n = Len(rs)  OBVIOUS
<1>2. PICK f \in [0..n -> Seq(R)] : RetainRun(rs, S, f)  BY <1>1, RetainSteps
<1> DEFINE In(k) == FromPart(rs, S, k, f[k])
           All(k) == AllOfPart(rs, S, k, f[k])
           Ordered(k) == OrderOfPart(rs, k, f[k])
           T == {k \in 0..n : In(k) /\ All(k) /\ Ordered(k)}
<1>3. 0 \in T
  <2>1. f[0] = <<>>  BY <1>2 DEF RetainRun
  <2>2. DOMAIN f[0] = {}  BY <2>1
  <2>3. \A u \in 1..0 : FALSE  OBVIOUS
  <2> QED BY <2>2, <2>3 DEF FromPart, AllOfPart, OrderOfPart
<1>4. ASSUME NEW k \in 0..n, k < n, k \in T PROVE k + 1 \in T
  <2>1. k + 1 \in 0..n /\ k + 1 \in 1..n /\ (k + 1) - 1 = k  BY <1>4
  <2>2. PICK s \in Seq(R) : s = f[k]  BY <1>2
  <2>3. PICK t \in Seq(R) : t = f[k + 1]  BY <1>2, <2>1
  <2>4. PICK r \in R : r = rs[k + 1]  BY <1>1, <2>1
  <2>5. t = IF r \in S THEN Append(s, r) ELSE s  BY <1>1, <1>2, <2>1, <2>2, <2>3, <2>4 DEF RetainRun
  <2>6. \A i \in DOMAIN s : \E u \in 1..k : s[i] = rs[u] /\ rs[u] \in S  BY <1>4, <2>2 DEF FromPart
  <2>7. \A u \in 1..k : rs[u] \in S => \E i \in DOMAIN s : s[i] = rs[u]  BY <1>4, <2>2 DEF AllOfPart
  <2>8. \A i, j \in DOMAIN s : i < j => \E u, v \in 1..k : u < v /\ s[i] = rs[u] /\ s[j] = rs[v]
    BY <1>4, <2>2 DEF OrderOfPart
  <2>9. \A u \in 1..k : u \in 1..(k + 1)  BY <1>4
  <2>10. \A u \in 1..(k + 1) : u \in 1..k \/ u = k + 1  BY <1>4
  <2>11. CASE r \notin S
    <3>1. t = s  BY <2>5, <2>11
    <3>2. In(k + 1)
      <4>1. FromPart(rs, S, k + 1, s)  BY <2>6, <2>9 DEF FromPart
      <4> QED BY <2>3, <3>1, <4>1
    <3>3. All(k + 1)  BY <2>3, <2>4, <2>7, <2>10, <2>11, <3>1 DEF AllOfPart
    <3>4. Ordered(k + 1)  BY <2>3, <2>8, <2>9, <3>1 DEF OrderOfPart
    <3> QED BY <2>1, <3>2, <3>3, <3>4
  <2>12. CASE r \in S
    <3>1. t = Append(s, r)  BY <2>5, <2>12
    <3>2. PICK l \in Nat : l = Len(s)  OBVIOUS
    <3>3. DOMAIN t = 1..(l + 1) /\ DOMAIN s = 1..l /\ t[l + 1] = r /\ \A i \in 1..l : t[i] = s[i]
      BY <3>1, <3>2
    <3>4. \A i \in 1..(l + 1) : i \in 1..l \/ i = l + 1  BY <3>2
    <3>5. k + 1 \in 1..(k + 1) /\ \A u \in 1..k : u < k + 1  BY <1>4
    <3>6. In(k + 1)
      <4>1. SUFFICES ASSUME NEW i \in 1..(l + 1)
                     PROVE  \E u \in 1..(k + 1) : t[i] = rs[u] /\ rs[u] \in S
        BY <2>3, <3>3 DEF FromPart
      <4>2. CASE i = l + 1  BY <2>4, <2>12, <3>3, <3>5, <4>2
      <4>3. CASE i \in 1..l
        <5>1. PICK u \in 1..k : s[i] = rs[u] /\ rs[u] \in S  BY <2>6, <3>3, <4>3
        <5> QED BY <2>9, <3>3, <4>3, <5>1
      <4> QED BY <3>4, <4>2, <4>3
    <3>7. All(k + 1)
      <4>1. SUFFICES ASSUME NEW u \in 1..(k + 1), rs[u] \in S PROVE \E i \in 1..(l + 1) : t[i] = rs[u]
        BY <2>3, <3>3 DEF AllOfPart
      <4>2. CASE u = k + 1
        <5>1. l + 1 \in 1..(l + 1)  BY <3>2
        <5> QED BY <2>4, <3>3, <4>2, <5>1
      <4>3. CASE u \in 1..k
        <5>1. PICK i \in 1..l : s[i] = rs[u]  BY <2>7, <3>3, <4>1, <4>3
        <5>2. i \in 1..(l + 1) /\ t[i] = s[i]  BY <3>2, <3>3, <5>1
        <5> QED BY <5>1, <5>2
      <4> QED BY <2>10, <4>2, <4>3
    <3>8. Ordered(k + 1)
      <4> SUFFICES OrderOfPart(rs, k + 1, t)  BY <2>3
      <4>1. SUFFICES ASSUME NEW i \in DOMAIN t, NEW j \in DOMAIN t, i < j
                     PROVE  \E u, v \in 1..(k + 1) : u < v /\ t[i] = rs[u] /\ t[j] = rs[v]
        BY DEF OrderOfPart
      <4>2. i \in 1..l /\ t[i] = s[i]  BY <3>2, <3>3, <4>1
      <4>3. CASE j = l + 1
        <5>1. PICK u \in 1..k : s[i] = rs[u]  BY <2>6, <3>3, <4>2
        <5> QED BY <2>4, <2>9, <3>3, <3>5, <4>2, <4>3, <5>1
      <4>4. CASE j \in 1..l
        <5>1. PICK u, v \in 1..k : u < v /\ s[i] = rs[u] /\ s[j] = rs[v]
          BY <2>8, <3>3, <4>1, <4>2, <4>4, SMTT(60)
        <5> QED BY <2>9, <3>3, <4>2, <4>4, <5>1
      <4> QED BY <3>3, <3>4, <4>3, <4>4
    <3> QED BY <2>1, <3>6, <3>7, <3>8
  <2> QED BY <2>11, <2>12
<1>5. n \in T
  <2> HIDE DEF T
  <2>1. \A i \in 0..n : i \in T  BY <1>3, <1>4, NatInd
  <2> QED BY <2>1
<1>6. f[n] = Retain(rs, S) /\ f[n] \in Seq(R) /\ DOMAIN rs = 1..n  BY <1>1, <1>2 DEF RetainRun
<1>7. In(n) /\ All(n) /\ Ordered(n)  BY <1>5
<1> QED BY <1>1, <1>6, <1>7 DEF RetainedFrom

\* Nothing is lost when every member is in S.
LEMMA RetainAll ==
    ASSUME NEW R, NEW rs \in Seq(R), NEW S, \A u \in DOMAIN rs : rs[u] \in S
    PROVE  Retain(rs, S) = rs
<1>1. PICK n \in Nat : n = Len(rs)  OBVIOUS
<1>2. PICK f \in [0..n -> Seq(R)] : RetainRun(rs, S, f)  BY <1>1, RetainSteps
<1> DEFINE Same(k) == Len(f[k]) = k /\ \A i \in 1..k : f[k][i] = rs[i]
           T == {k \in 0..n : Same(k)}
<1>3. 0 \in T
  <2>1. f[0] = <<>>  BY <1>2 DEF RetainRun
  <2>2. Len(f[0]) = 0  BY <2>1
  <2>3. \A u \in 1..0 : FALSE  OBVIOUS
  <2> QED BY <2>2, <2>3
<1>4. ASSUME NEW k \in 0..n, k < n, k \in T PROVE k + 1 \in T
  <2>1. k + 1 \in 0..n /\ k + 1 \in 1..n /\ (k + 1) - 1 = k  BY <1>4
  <2>2. PICK s \in Seq(R) : s = f[k]  BY <1>2
  <2>3. PICK t \in Seq(R) : t = f[k + 1]  BY <1>2, <2>1
  <2>4. rs[k + 1] \in S /\ rs[k + 1] \in R  BY <1>1, <2>1
  <2>5. t = Append(s, rs[k + 1])  BY <1>1, <1>2, <2>1, <2>2, <2>3, <2>4 DEF RetainRun
  <2>6. Len(s) = k /\ \A i \in 1..k : s[i] = rs[i]  BY <1>4, <2>2
  <2>7. Len(t) = k + 1 /\ \A i \in 1..(k + 1) : t[i] = rs[i]  BY <1>4, <2>4, <2>5, <2>6
  <2> QED BY <2>1, <2>3, <2>7
<1>5. n \in T
  <2> HIDE DEF T
  <2>1. \A i \in 0..n : i \in T  BY <1>3, <1>4, NatInd
  <2> QED BY <2>1
<1>6. f[n] = Retain(rs, S) /\ f[n] \in Seq(R)  BY <1>1, <1>2 DEF RetainRun
<1>7. PICK s \in Seq(R) : s = f[n]  BY <1>6
<1>8. Len(s) = Len(rs) /\ \A i \in 1..Len(rs) : s[i] = rs[i]  BY <1>1, <1>5, <1>7
<1>9. s = rs  BY <1>8, SeqEqual
<1> QED BY <1>6, <1>7, <1>9


-----------------------------------------------------------------------------
(* Pushing requests one after the other.                                   *)

PoolType == [nonce : [Accounts -> Nat], wds : Seq(Wds), txs : Seq(Txs),
             pendWds : [Accounts -> Seq(Wds)], pendTxs : [Accounts -> Seq(Txs)],
             dbWds : SUBSET Wds, dbTxs : SUBSET Txs]

LEMMA RequestFacts ==
    /\ \A r \in Requests : r.acct \in Accounts /\ r.nonce \in Nat
    /\ Txs \subseteq Requests /\ Wds \subseteq Requests
BY DEF Requests, Txs, Wds

\* What an accepted transaction changes.
Accepts(p, t, failing) ==
    /\ t \notin Range(p.txs) /\ Len(p.txs) < MaxTxs
    /\ t.nonce = p.nonce[t.acct] /\ t \notin failing

Pushed(p, t) ==
    [nonce |-> [p.nonce EXCEPT ![t.acct] = p.nonce[t.acct] + 1], wds |-> p.wds,
     txs |-> Append(p.txs, t), pendWds |-> p.pendWds,
     pendTxs |-> [p.pendTxs EXCEPT ![t.acct] = Append(p.pendTxs[t.acct], t)],
     dbWds |-> p.dbWds, dbTxs |-> p.dbTxs \cup {t}]

LEMMA PushFacts ==
    ASSUME NEW p \in PoolType, NEW t \in Txs, NEW failing
    PROVE  PushTransaction(p, t, failing) = IF Accepts(p, t, failing) THEN Pushed(p, t) ELSE p
<1>1. Len(p.txs) \in Nat /\ MaxTxs \in Nat  BY MemPoolAssumption DEF PoolType
<1>2. CASE Accepts(p, t, failing)
  <2>1. PushTransaction(p, t, failing) =
          [p EXCEPT !.txs = Append(@, t), !.nonce[t.acct] = @ + 1,
                    !.dbTxs = @ \cup {t}, !.pendTxs[t.acct] = Append(@, t)]
    BY <1>1, <1>2 DEF PushTransaction, Accepts
  <2> QED BY <1>2, <2>1 DEF Pushed, PoolType
<1>3. CASE ~Accepts(p, t, failing)  BY <1>1, <1>3 DEF PushTransaction, Accepts
<1> QED BY <1>2, <1>3

LEMMA PushTyped ==
    ASSUME NEW p \in PoolType, NEW t \in Txs, NEW failing
    PROVE  PushTransaction(p, t, failing) \in PoolType
<1>1. t.acct \in Accounts  BY RequestFacts
<1>2. Append(p.txs, t) \in Seq(Txs) /\ Append(p.pendTxs[t.acct], t) \in Seq(Txs)
  BY <1>1 DEF PoolType
<1>3. Pushed(p, t) \in PoolType  BY <1>1, <1>2 DEF Pushed, PoolType
<1> QED BY <1>3, PushFacts

\* What an executed withdrawal changes.
Withdrawn(p, w) ==
    [nonce |-> [p.nonce EXCEPT ![w.acct] = p.nonce[w.acct] + 1], wds |-> Append(p.wds, w),
     txs |-> p.txs, pendTxs |-> p.pendTxs, dbTxs |-> p.dbTxs,
     pendWds |-> IF w \in Range(p.pendWds[w.acct]) THEN p.pendWds
                 ELSE [p.pendWds EXCEPT ![w.acct] = Append(p.pendWds[w.acct], w)],
     dbWds |-> IF w \in Range(p.pendWds[w.acct]) THEN p.dbWds ELSE p.dbWds \cup {w}]

LEMMA FinalizeFacts ==
    ASSUME NEW p \in PoolType, NEW w \in Wds, NEW failing
    PROVE  FinalizeWithdrawal(p, w, failing)
             = IF w.nonce = p.nonce[w.acct] /\ w \notin failing THEN Withdrawn(p, w) ELSE p
<1>1. CASE w.nonce = p.nonce[w.acct] /\ w \notin failing
  <2> DEFINE q == [p EXCEPT !.wds = Append(@, w), !.nonce[w.acct] = @ + 1]
  <2>1. FinalizeWithdrawal(p, w, failing) =
          IF w \in Range(p.pendWds[w.acct]) THEN q
          ELSE [q EXCEPT !.pendWds[w.acct] = Append(@, w), !.dbWds = @ \cup {w}]
    BY <1>1 DEF FinalizeWithdrawal
  <2>2. CASE w \in Range(p.pendWds[w.acct])
    BY <1>1, <2>1, <2>2 DEF Withdrawn, PoolType
  <2>3. CASE w \notin Range(p.pendWds[w.acct])
    BY <1>1, <2>1, <2>3 DEF Withdrawn, PoolType
  <2> QED BY <2>2, <2>3
<1>2. CASE ~(w.nonce = p.nonce[w.acct] /\ w \notin failing)
  BY <1>2 DEF FinalizeWithdrawal
<1> QED BY <1>1, <1>2

LEMMA FinalizeTyped ==
    ASSUME NEW p \in PoolType, NEW w \in Wds, NEW failing
    PROVE  FinalizeWithdrawal(p, w, failing) \in PoolType
<1>1. w.acct \in Accounts  BY RequestFacts
<1>2. Append(p.wds, w) \in Seq(Wds) /\ Append(p.pendWds[w.acct], w) \in Seq(Wds)
  BY <1>1 DEF PoolType
<1>3. Withdrawn(p, w) \in PoolType  BY <1>1, <1>2 DEF Withdrawn, PoolType
<1> QED BY <1>3, FinalizeFacts

PushRun(p, ts, failing, f) ==
    /\ f[0] = p
    /\ \A i \in 1..Len(ts) : f[i] = PushTransaction(f[i-1], ts[i], failing)
    /\ PushTransactions(p, ts, failing) = f[Len(ts)]

LEMMA PushSteps ==
    ASSUME NEW p \in PoolType, NEW ts \in Seq(Txs), NEW failing
    PROVE  \E f \in [0..Len(ts) -> PoolType] : PushRun(p, ts, failing, f)
<1>1. PICK n \in Nat : n = Len(ts)  OBVIOUS
<1> DEFINE Step(i, v) == PushTransaction(v, ts[i], failing)
           Is(g) == g = [i \in 0..Len(ts) |-> IF i = 0 THEN p ELSE Step(i, g[i-1])]
           G == [x \in (1..n) \X PoolType |-> Step(x[1], x[2])]
<1>4. \A i \in 1..n, v \in PoolType : Step(i, v) \in PoolType  BY <1>1, PushTyped
<1>5. PICK f \in [0..n -> PoolType] : f[0] = p /\ \A i \in 1..n : f[i] = Step(i, f[i-1])
  <2> HIDE DEF Step
  <2>1. G \in [(1..n) \X PoolType -> PoolType]  BY <1>4
  <2>2. \A i \in 1..n, v \in PoolType : G[<<i, v>>] = Step(i, v)  OBVIOUS
  <2> HIDE DEF G
  <2>3. PICK f \in [0..n -> PoolType] : Runs(n, p, G, f)  BY <2>1, RecExists
  <2>4. \A i \in 1..n : f[i-1] \in PoolType  BY <2>3
  <2> QED BY <2>2, <2>3, <2>4 DEF Runs
<1> HIDE DEF Step
<1>6. Is(f)
  <2>1. f = [i \in 0..n |-> f[i]]  BY <1>5
  <2>2. \A i \in 0..n : i # 0 => i \in 1..n  OBVIOUS
  <2>3. \A i \in 0..n : f[i] = IF i = 0 THEN p ELSE Step(i, f[i-1])  BY <1>5, <2>2
  <2> QED BY <1>1, <2>1, <2>3
<1>7. PICK h : h = CHOOSE g : Is(g)  OBVIOUS
<1>8. Is(h)
  <2> HIDE DEF Is
  <2> QED BY <1>6, <1>7
<1>9. PushTransactions(p, ts, failing) = h[Len(ts)]  BY <1>7 DEF PushTransactions, Step
<1>10. h = [i \in 0..n |-> h[i]] /\ h[0] = p /\ \A i \in 1..n : h[i] = Step(i, h[i-1])
  <2>1. h = [i \in 0..n |-> IF i = 0 THEN p ELSE Step(i, h[i-1])]  BY <1>1, <1>8
  <2>2. DOMAIN h = 0..n /\ \A i \in 0..n : h[i] = IF i = 0 THEN p ELSE Step(i, h[i-1])
    BY <2>1
  <2> QED BY <2>1, <2>2
<1>11. h \in [0..n -> PoolType]
  <2>1. \A i \in 1..n : h[i-1] \in PoolType => h[i] \in PoolType  BY <1>4, <1>10
  <2>2. \A i \in 0..n : h[i] \in PoolType  BY <1>10, <2>1, RunTyped
  <2> QED BY <1>10, <2>2
<1> QED BY <1>1, <1>9, <1>10, <1>11 DEF PushRun, Step

FinalizeRun(p, ws, failing, f) ==
    /\ f[0] = p
    /\ \A i \in 1..Len(ws) : f[i] = FinalizeWithdrawal(f[i-1], ws[i], failing)
    /\ FinalizeWithdrawals(p, ws, failing) = f[Len(ws)]

LEMMA FinalizeSteps ==
    ASSUME NEW p \in PoolType, NEW ws \in Seq(Wds), NEW failing
    PROVE  \E f \in [0..Len(ws) -> PoolType] : FinalizeRun(p, ws, failing, f)
<1>1. PICK n \in Nat : n = Len(ws)  OBVIOUS
<1> DEFINE Step(i, v) == FinalizeWithdrawal(v, ws[i], failing)
           Is(g) == g = [i \in 0..Len(ws) |-> IF i = 0 THEN p ELSE Step(i, g[i-1])]
           G == [x \in (1..n) \X PoolType |-> Step(x[1], x[2])]
<1>4. \A i \in 1..n, v \in PoolType : Step(i, v) \in PoolType  BY <1>1, FinalizeTyped
<1>5. PICK f \in [0..n -> PoolType] : f[0] = p /\ \A i \in 1..n : f[i] = Step(i, f[i-1])
  <2> HIDE DEF Step
  <2>1. G \in [(1..n) \X PoolType -> PoolType]  BY <1>4
  <2>2. \A i \in 1..n, v \in PoolType : G[<<i, v>>] = Step(i, v)  OBVIOUS
  <2> HIDE DEF G
  <2>3. PICK f \in [0..n -> PoolType] : Runs(n, p, G, f)  BY <2>1, RecExists
  <2>4. \A i \in 1..n : f[i-1] \in PoolType  BY <2>3
  <2> QED BY <2>2, <2>3, <2>4 DEF Runs
<1> HIDE DEF Step
<1>6. Is(f)
  <2>1. f = [i \in 0..n |-> f[i]]  BY <1>5
  <2>2. \A i \in 0..n : i # 0 => i \in 1..n  OBVIOUS
  <2>3. \A i \in 0..n : f[i] = IF i = 0 THEN p ELSE Step(i, f[i-1])  BY <1>5, <2>2
  <2> QED BY <1>1, <2>1, <2>3
<1>7. PICK h : h = CHOOSE g : Is(g)  OBVIOUS
<1>8. Is(h)
  <2> HIDE DEF Is
  <2> QED BY <1>6, <1>7
<1>9. FinalizeWithdrawals(p, ws, failing) = h[Len(ws)]  BY <1>7 DEF FinalizeWithdrawals, Step
<1>10. h = [i \in 0..n |-> h[i]] /\ h[0] = p /\ \A i \in 1..n : h[i] = Step(i, h[i-1])
  <2>1. h = [i \in 0..n |-> IF i = 0 THEN p ELSE Step(i, h[i-1])]  BY <1>1, <1>8
  <2>2. DOMAIN h = 0..n /\ \A i \in 0..n : h[i] = IF i = 0 THEN p ELSE Step(i, h[i-1])
    BY <2>1
  <2> QED BY <2>1, <2>2
<1>11. h \in [0..n -> PoolType]
  <2>1. \A i \in 1..n : h[i-1] \in PoolType => h[i] \in PoolType  BY <1>4, <1>10
  <2>2. \A i \in 0..n : h[i] \in PoolType  BY <1>10, <2>1, RunTyped
  <2> QED BY <1>10, <2>2
<1> QED BY <1>1, <1>9, <1>10, <1>11 DEF FinalizeRun, Step


-----------------------------------------------------------------------------
(* Counting the requests of an account.                                    *)

\* Requests of account a among the first k of rs.
CountOf(rs, k, a) == Cardinality({j \in 1..k : rs[j].acct = a})

LEMMA CountSteps ==
    ASSUME NEW rs, NEW a
    PROVE  /\ CountOf(rs, 0, a) = 0
           /\ \A k \in Nat : /\ CountOf(rs, k, a) \in Nat
                             /\ CountOf(rs, k + 1, a) = CountOf(rs, k, a)
                                    + (IF rs[k + 1].acct = a THEN 1 ELSE 0)
<1>1. CountOf(rs, 0, a) = 0
  <2>1. {j \in 1..0 : rs[j].acct = a} = {}  OBVIOUS
  <2> QED BY <2>1, FS_EmptySet DEF CountOf
<1>2. ASSUME NEW k \in Nat
      PROVE  /\ CountOf(rs, k, a) \in Nat
             /\ CountOf(rs, k + 1, a) = CountOf(rs, k, a) + (IF rs[k + 1].acct = a THEN 1 ELSE 0)
  <2>1. PICK A : A = {j \in 1..k : rs[j].acct = a}  OBVIOUS
  <2>2. PICK B : B = {j \in 1..(k + 1) : rs[j].acct = a}  OBVIOUS
  <2>3. IsFiniteSet(1..k)  BY FS_Interval
  <2>4. IsFiniteSet(A)  BY <2>1, <2>3, FS_Subset
  <2>5. Cardinality(A) \in Nat  BY <2>4, FS_CardinalityType
  <2>6. CountOf(rs, k, a) = Cardinality(A) /\ CountOf(rs, k + 1, a) = Cardinality(B)
    BY <2>1, <2>2 DEF CountOf
  <2>7. CASE rs[k + 1].acct = a
    <3>1. B = A \cup {k + 1} /\ k + 1 \notin A  BY <2>1, <2>2, <2>7
    <3>2. Cardinality(A \cup {k + 1}) = Cardinality(A) + 1  BY <2>4, <3>1, FS_AddElement
    <3> QED BY <2>5, <2>6, <2>7, <3>1, <3>2
  <2>8. CASE rs[k + 1].acct # a
    <3>1. B = A  BY <2>1, <2>2, <2>8
    <3> QED BY <2>5, <2>6, <2>8, <3>1
  <2> QED BY <2>7, <2>8
<1> QED BY <1>1, <1>2

LEMMA CountMonotone ==
    ASSUME NEW rs, NEW a, NEW i \in Nat, NEW k \in Nat, i <= k
    PROVE  /\ CountOf(rs, i, a) <= CountOf(rs, k, a)
           /\ i < k /\ rs[i + 1].acct = a => CountOf(rs, i, a) < CountOf(rs, k, a)
<1> DEFINE C(m) == CountOf(rs, m, a)
           T == {m \in 0..k : i <= m => C(i) <= C(m)}
           U == {m \in 0..k : i < m /\ rs[i + 1].acct = a => C(i) < C(m)}
<1>1. \A m \in Nat : C(m) \in Nat /\ C(m + 1) = C(m) + (IF rs[m + 1].acct = a THEN 1 ELSE 0)
  BY CountSteps
<1> HIDE DEF C
<1>2. \A m \in 0..k : m \in T
  <2>1. 0 \in T  BY <1>1
  <2>2. ASSUME NEW m \in 0..k, m < k, m \in T PROVE m + 1 \in T
    <3>1. C(m) \in Nat /\ C(i) \in Nat /\ C(m + 1) >= C(m) /\ C(m + 1) \in Nat  BY <1>1
    <3>2. CASE i <= m  BY <2>2, <3>1, <3>2
    <3>3. CASE i > m
      <4>1. i <= m + 1 => i = m + 1  BY <3>3
      <4> QED BY <2>2, <3>1, <4>1
    <3> QED BY <3>2, <3>3
  <2> HIDE DEF T
  <2> QED BY <2>1, <2>2, NatInd
<1>3. C(i) <= C(k)  BY <1>2
<1>4. ASSUME i < k, rs[i + 1].acct = a PROVE C(i) < C(k)
  <2>1. \A m \in 0..k : m \in U
    <3>1. 0 \in U  OBVIOUS
    <3>2. ASSUME NEW m \in 0..k, m < k, m \in U PROVE m + 1 \in U
      <4>1. C(m) \in Nat /\ C(i) \in Nat /\ C(m + 1) >= C(m) /\ C(m + 1) \in Nat  BY <1>1
      <4>2. CASE i < m  BY <3>2, <4>1, <4>2
      <4>3. CASE i = m  BY <1>1, <1>4, <3>2, <4>1, <4>3
      <4>4. CASE i > m  BY <3>2, <4>1, <4>4
      <4> QED BY <4>2, <4>3, <4>4
    <3> HIDE DEF U
    <3> QED BY <3>1, <3>2, NatInd
  <2> QED BY <1>4, <2>1
<1> QED BY <1>3, <1>4 DEF C

LEMMA CountSame ==
    ASSUME NEW rs, NEW qs, NEW k \in Nat, \A j \in 1..k : rs[j].acct = qs[j].acct, NEW a
    PROVE  CountOf(rs, k, a) = CountOf(qs, k, a)
<1>1. {j \in 1..k : rs[j].acct = a} = {j \in 1..k : qs[j].acct = a}  OBVIOUS
<1> QED BY <1>1 DEF CountOf

\* Executes and After in these terms.
LEMMA ExecutesCounts ==
    ASSUME NEW n, NEW rs \in Seq(Requests)
    PROVE  /\ Executes(n, rs) <=> \A i \in 1..Len(rs) :
                  rs[i].nonce = n[rs[i].acct] + CountOf(rs, i - 1, rs[i].acct)
           /\ After(n, rs) = [a \in Accounts |-> n[a] + CountOf(rs, Len(rs), a)]
<1>1. DOMAIN rs = 1..Len(rs)  OBVIOUS
<1> QED BY <1>1 DEF Executes, After, CountOf


Nonces == [Accounts -> Nat]

LEMMA AfterTyped ==
    ASSUME NEW n \in Nonces, NEW rs \in Seq(Requests)
    PROVE  After(n, rs) \in Nonces /\ \A a \in Accounts : n[a] <= After(n, rs)[a]
<1>1. Len(rs) \in Nat  OBVIOUS
<1>2. \A a \in Accounts : CountOf(rs, Len(rs), a) \in Nat  BY <1>1, CountSteps
<1> QED BY <1>2, ExecutesCounts DEF Nonces

LEMMA ExecEmpty ==
    ASSUME NEW n \in Nonces
    PROVE  Executes(n, <<>>) /\ After(n, <<>>) = n
<1>1. PICK e \in Seq(Requests) : e = <<>>
  <2>1. <<>> \in Seq(Requests)  OBVIOUS
  <2> QED BY <2>1, Zenon
<1>2. Len(e) = 0 /\ DOMAIN e = {}  BY <1>1
<1>3. Executes(n, e)  BY <1>2 DEF Executes
<1>4. After(n, e) = [a \in Accounts |-> n[a] + CountOf(e, 0, a)]
  <2>1. After(n, e) = [a \in Accounts |-> n[a] + CountOf(e, Len(e), a)]  BY ExecutesCounts
  <2> QED BY <1>2, <2>1, Zenon
<1>5. \A a \in Accounts : n[a] + CountOf(e, 0, a) = n[a]  BY CountSteps DEF Nonces
<1>6. After(n, e) = n  BY <1>4, <1>5 DEF Nonces
<1> QED BY <1>1, <1>3, <1>6

\* A request with the nonce of its account may follow.
LEMMA ExecAppend ==
    ASSUME NEW n \in Nonces, NEW rs \in Seq(Requests), NEW r \in Requests,
           Executes(n, rs), r.nonce = After(n, rs)[r.acct]
    PROVE  /\ Executes(n, Append(rs, r))
           /\ After(n, Append(rs, r)) = [After(n, rs) EXCEPT ![r.acct] = After(n, rs)[r.acct] + 1]
<1>1. PICK l \in Nat : l = Len(rs)  OBVIOUS
<1>2. PICK qs \in Seq(Requests) : qs = Append(rs, r)
  <2>1. Append(rs, r) \in Seq(Requests)  OBVIOUS
  <2> QED BY <2>1, Zenon
<1>3. Len(qs) = l + 1 /\ qs[l + 1] = r /\ \A i \in 1..l : qs[i] = rs[i]  BY <1>1, <1>2
<1>4. \A a : \A k \in 0..l : CountOf(qs, k, a) = CountOf(rs, k, a)
  <2>1. SUFFICES ASSUME NEW k \in 0..l, NEW a PROVE CountOf(qs, k, a) = CountOf(rs, k, a)  OBVIOUS
  <2>2. \A j \in 1..k : qs[j].acct = rs[j].acct  BY <1>1, <1>3
  <2> QED BY <2>2, CountSame
<1>5. r.acct \in Accounts  BY RequestFacts
<1>6. r.nonce = n[r.acct] + CountOf(rs, l, r.acct)  BY <1>1, <1>5, ExecutesCounts
<1>7. Executes(n, qs)
  <2>1. SUFFICES ASSUME NEW i \in 1..(l + 1)
                 PROVE  qs[i].nonce = n[qs[i].acct] + CountOf(qs, i - 1, qs[i].acct)
    BY <1>3, ExecutesCounts
  <2>2. i - 1 \in 0..l  BY <1>1
  <2>3. CountOf(qs, i - 1, qs[i].acct) = CountOf(rs, i - 1, qs[i].acct)  BY <1>4, <2>2
  <2>4. CASE i = l + 1
    <3>1. i - 1 = l /\ qs[i] = r  BY <1>1, <1>3, <2>4
    <3> QED BY <1>6, <2>3, <3>1
  <2>5. CASE i # l + 1
    <3>1. i \in 1..l /\ qs[i] = rs[i]  BY <1>1, <1>3, <2>5
    <3>2. rs[i].nonce = n[rs[i].acct] + CountOf(rs, i - 1, rs[i].acct)
      BY <1>1, <3>1, ExecutesCounts
    <3> QED BY <2>3, <3>1, <3>2
  <2> QED BY <2>4, <2>5
<1>8. \A a \in Accounts : After(n, qs)[a] = After(n, rs)[a] + (IF a = r.acct THEN 1 ELSE 0)
  <2>1. SUFFICES ASSUME NEW a \in Accounts
                 PROVE  After(n, qs)[a] = After(n, rs)[a] + (IF a = r.acct THEN 1 ELSE 0)
    OBVIOUS
  <2>2. After(n, qs)[a] = n[a] + CountOf(qs, l + 1, a) /\ After(n, rs)[a] = n[a] + CountOf(rs, l, a)
    BY <1>1, <1>3, ExecutesCounts
  <2>3. CountOf(qs, l + 1, a) = CountOf(qs, l, a) + (IF qs[l + 1].acct = a THEN 1 ELSE 0)
    BY CountSteps
  <2>4. CountOf(qs, l, a) = CountOf(rs, l, a) /\ CountOf(rs, l, a) \in Nat
    <3>1. l \in 0..l  BY <1>1
    <3> QED BY <1>4, <3>1, CountSteps
  <2>5. n[a] \in Nat  BY DEF Nonces
  <2> QED BY <1>3, <2>2, <2>3, <2>4, <2>5
<1>9. After(n, qs) \in Nonces /\ After(n, rs) \in Nonces  BY AfterTyped
<1>10. After(n, qs) = [After(n, rs) EXCEPT ![r.acct] = After(n, rs)[r.acct] + 1]
  <2>1. PICK x \in Nonces, y \in Nonces : x = After(n, qs) /\ y = After(n, rs)  BY <1>9
  <2>2. \A a \in Accounts : x[a] = y[a] + (IF a = r.acct THEN 1 ELSE 0)  BY <1>8, <2>1
  <2>3. x = [y EXCEPT ![r.acct] = y[r.acct] + 1]  BY <1>5, <2>2 DEF Nonces
  <2> QED BY <2>1, <2>3
<1> QED BY <1>2, <1>7, <1>10

\* The nonces of an account: below the state that follows, increasing, and all of
\* those in between.
ExecOrder(n, m, rs) ==
    /\ \A i \in DOMAIN rs : n[rs[i].acct] <= rs[i].nonce /\ rs[i].nonce < m[rs[i].acct]
    /\ \A i, j \in DOMAIN rs : i < j /\ rs[i].acct = rs[j].acct => rs[i].nonce < rs[j].nonce
    /\ \A a \in Accounts : \A k \in Nat : n[a] <= k /\ k < m[a] =>
           \E i \in DOMAIN rs : rs[i].acct = a /\ rs[i].nonce = k

LEMMA ExecFacts ==
    ASSUME NEW n \in Nonces, NEW rs \in Seq(Requests), Executes(n, rs)
    PROVE  ExecOrder(n, After(n, rs), rs)
<1>1. PICK l \in Nat : l = Len(rs)  OBVIOUS
<1>2. PICK m \in Nonces : m = After(n, rs)  BY AfterTyped
<1>3. DOMAIN rs = 1..l  BY <1>1
<1>4. \A i \in 1..l : rs[i].nonce = n[rs[i].acct] + CountOf(rs, i - 1, rs[i].acct)
  BY <1>1, ExecutesCounts
<1>5. \A a \in Accounts : m[a] = n[a] + CountOf(rs, l, a)  BY <1>1, <1>2, ExecutesCounts
<1>6. \A i \in 1..l : rs[i] \in Requests /\ rs[i].acct \in Accounts  BY <1>1, RequestFacts
<1>7. ASSUME NEW i \in 1..l
      PROVE  n[rs[i].acct] <= rs[i].nonce /\ rs[i].nonce < m[rs[i].acct]
  <2>1. PICK a \in Accounts : a = rs[i].acct  BY <1>6
  <2>2. i - 1 \in Nat /\ i - 1 <= l /\ i - 1 < l /\ (i - 1) + 1 = i  BY <1>1
  <2>3. CountOf(rs, i - 1, a) < CountOf(rs, l, a)  BY <2>1, <2>2, CountMonotone
  <2>4. CountOf(rs, i - 1, a) \in Nat /\ CountOf(rs, l, a) \in Nat  BY <2>2, CountSteps
  <2>5. n[a] \in Nat  BY DEF Nonces
  <2>6. a \in Accounts /\ rs[i].nonce = n[a] + CountOf(rs, i - 1, a) /\ m[a] = n[a] + CountOf(rs, l, a)
    BY <1>4, <1>5, <2>1
  <2> QED BY <2>1, <2>3, <2>4, <2>5, <2>6, SMTT(60)
<1>8. ASSUME NEW i \in 1..l, NEW j \in 1..l, i < j, rs[i].acct = rs[j].acct
      PROVE  rs[i].nonce < rs[j].nonce
  <2>1. PICK a \in Accounts : a = rs[i].acct  BY <1>6
  <2>2. i - 1 \in Nat /\ j - 1 \in Nat /\ i - 1 <= j - 1 /\ i - 1 < j - 1 /\ (i - 1) + 1 = i  BY <1>8
  <2>3. CountOf(rs, i - 1, a) < CountOf(rs, j - 1, a)  BY <2>1, <2>2, CountMonotone
  <2>4. CountOf(rs, i - 1, a) \in Nat /\ CountOf(rs, j - 1, a) \in Nat  BY <2>2, CountSteps
  <2>5. n[a] \in Nat  BY DEF Nonces
  <2>6. rs[i].nonce = n[a] + CountOf(rs, i - 1, a) /\ rs[j].nonce = n[a] + CountOf(rs, j - 1, a)
    BY <1>4, <1>8, <2>1
  <2> QED BY <2>3, <2>4, <2>5, <2>6, SMTT(60)
<1>9. ASSUME NEW a \in Accounts, NEW k \in Nat, n[a] <= k, k < m[a]
      PROVE  \E i \in 1..l : rs[i].acct = a /\ rs[i].nonce = k
  <2> DEFINE C(i) == CountOf(rs, i, a)
             T == {i \in Nat : i <= l /\ k < n[a] + C(i)}
  <2>1. n[a] \in Nat  BY DEF Nonces
  <2>2. l \in T  BY <1>5, <1>9
  <2>3. PICK i \in T : \A j \in T : i <= j
    <3>1. T \subseteq Nat /\ T # {}  BY <2>2
    <3> HIDE DEF T
    <3> QED BY <3>1, LeastNat
  <2>4. i \in Nat /\ i <= l /\ k < n[a] + C(i)  BY <2>3
  <2>5. i # 0  BY <1>9, <2>1, <2>4, CountSteps
  <2>6. PICK h \in Nat : i = h + 1  BY <2>4, <2>5
  <2>7. ~(k < n[a] + C(h))
    <3>1. h \notin T  BY <2>3, <2>6
    <3> QED BY <2>4, <2>6, <3>1
  <2>8. C(h) \in Nat /\ C(i) = C(h) + (IF rs[i].acct = a THEN 1 ELSE 0)  BY <2>6, CountSteps
  <2> HIDE DEF C, T
  <2>9. rs[i].acct = a /\ k = n[a] + C(h)  BY <2>1, <2>4, <2>7, <2>8, SMTT(60)
  <2>10. i \in 1..l /\ i - 1 = h  BY <2>4, <2>6
  <2>11. rs[i].nonce = n[a] + C(h)  BY <1>4, <2>9, <2>10 DEF C
  <2> QED BY <2>9, <2>10, <2>11
<1>10. ExecOrder(n, m, rs)  BY <1>3, <1>7, <1>8, <1>9 DEF ExecOrder
<1> QED BY <1>2, <1>10

\* A first part of what executes executes.
LEMMA ExecPrefix ==
    ASSUME NEW n \in Nonces, NEW rs \in Seq(Requests), NEW qs \in Seq(Requests),
           Executes(n, rs), Len(qs) <= Len(rs), \A i \in 1..Len(qs) : qs[i] = rs[i]
    PROVE  Executes(n, qs)
<1>1. PICK l \in Nat : l = Len(qs)  OBVIOUS
<1>2. SUFFICES ASSUME NEW i \in 1..l
               PROVE  qs[i].nonce = n[qs[i].acct] + CountOf(qs, i - 1, qs[i].acct)
  BY <1>1, ExecutesCounts
<1>3. i \in 1..Len(rs) /\ qs[i] = rs[i] /\ i - 1 \in Nat  BY <1>1
<1>4. \A j \in 1..(i - 1) : qs[j].acct = rs[j].acct  BY <1>1
<1>5. CountOf(qs, i - 1, qs[i].acct) = CountOf(rs, i - 1, qs[i].acct)  BY <1>3, <1>4, CountSame
<1>6. rs[i].nonce = n[rs[i].acct] + CountOf(rs, i - 1, rs[i].acct)  BY <1>3, ExecutesCounts
<1> QED BY <1>3, <1>5, <1>6


-----------------------------------------------------------------------------
(* What is true of every pool: it replays on the state of its block, its   *)
(* transactions are stored, and a pending withdrawal that is not stored is *)
(* behind one with a higher nonce.                                         *)

Replays(base, p) ==
    /\ Executes(base, p.wds \o p.txs)
    /\ p.nonce = After(base, p.wds \o p.txs)

TxsKept(p) == \A i \in DOMAIN p.txs : p.txs[i] \in p.dbTxs

PendKept(p) ==
    \A a \in Accounts : \A i \in DOMAIN p.pendWds[a] :
        /\ p.pendWds[a][i].acct = a
        /\ \/ p.pendWds[a][i] \in p.dbWds
           \/ \E h \in 1..(i - 1) : p.pendWds[a][h].nonce > p.pendWds[a][i].nonce

WdsKept(p) ==
    \A i \in DOMAIN p.wds : Sorted(p.pendWds[p.wds[i].acct]) => p.wds[i] \in p.dbWds

GoodPool(base, p) == p \in PoolType /\ Replays(base, p) /\ TxsKept(p) /\ PendKept(p) /\ WdsKept(p)

LEMMA WidenSeq ==
    ASSUME NEW A, NEW B, A \subseteq B, NEW s \in Seq(A)
    PROVE  s \in Seq(B)
OBVIOUS

LEMMA PoolRequests ==
    ASSUME NEW p \in PoolType
    PROVE  /\ p.wds \in Seq(Requests) /\ p.txs \in Seq(Requests)
           /\ p.wds \o p.txs \in Seq(Requests) /\ p.nonce \in Nonces
<1>1. p.wds \in Seq(Wds) /\ p.txs \in Seq(Txs) /\ p.nonce \in Nonces  BY DEF PoolType, Nonces
<1>2. p.wds \in Seq(Requests) /\ p.txs \in Seq(Requests)  BY <1>1, RequestFacts, WidenSeq
<1> QED BY <1>1, <1>2

LEMMA ConcatAppend ==
    ASSUME NEW R, NEW s \in Seq(R), NEW t \in Seq(R), NEW r \in R
    PROVE  s \o Append(t, r) = Append(s \o t, r)
<1>1. PICK u \in Seq(R) : u = s \o Append(t, r)
  <2>1. s \o Append(t, r) \in Seq(R)  OBVIOUS
  <2> QED BY <2>1, Zenon
<1>2. PICK v \in Seq(R) : v = Append(s \o t, r)
  <2>1. Append(s \o t, r) \in Seq(R)  OBVIOUS
  <2> QED BY <2>1, Zenon
<1>3. Len(u) = Len(v) /\ \A i \in 1..Len(u) : u[i] = v[i]  BY <1>1, <1>2
<1>4. u = v  BY <1>3, SeqEqual
<1> QED BY <1>1, <1>2, <1>4

LEMMA PushGood ==
    ASSUME NEW base \in Nonces, NEW p, GoodPool(base, p), NEW t \in Txs, NEW failing
    PROVE  GoodPool(base, PushTransaction(p, t, failing))
<1>1. p \in PoolType  BY DEF GoodPool
<1>2. CASE ~Accepts(p, t, failing)  BY <1>1, <1>2, PushFacts
<1>3. CASE Accepts(p, t, failing)
  <2>1. PICK q : q = Pushed(p, t)  OBVIOUS
  <2>2. PushTransaction(p, t, failing) = q /\ q \in PoolType  BY <1>1, <1>3, <2>1, PushFacts, PushTyped
  <2>3. q.wds = p.wds /\ q.pendWds = p.pendWds /\ q.dbWds = p.dbWds /\ q.txs = Append(p.txs, t)
        /\ q.dbTxs = p.dbTxs \cup {t} /\ q.nonce = [p.nonce EXCEPT ![t.acct] = p.nonce[t.acct] + 1]
    BY <2>1 DEF Pushed
  <2>4. PICK rs \in Seq(Requests) : rs = p.wds \o p.txs
    <3>1. p.wds \o p.txs \in Seq(Requests)  BY <1>1, PoolRequests
    <3> QED BY <3>1, Zenon
  <2>5. t \in Requests  BY RequestFacts
  <2>6. q.wds \o q.txs = Append(rs, t)
    <3>1. p.wds \in Seq(Requests) /\ p.txs \in Seq(Requests)  BY <1>1, PoolRequests
    <3>2. PICK x \in Seq(Requests), y \in Seq(Requests) : x = p.wds /\ y = p.txs  BY <3>1
    <3>3. x \o Append(y, t) = Append(x \o y, t)  BY <2>5, ConcatAppend
    <3> QED BY <2>3, <2>4, <3>2, <3>3, Zenon
  <2>7. Executes(base, rs) /\ p.nonce = After(base, rs)  BY <2>4 DEF GoodPool, Replays
  <2>8. t.nonce = After(base, rs)[t.acct]  BY <1>3, <2>7 DEF Accepts
  <2>9. Executes(base, Append(rs, t))
        /\ After(base, Append(rs, t)) = [After(base, rs) EXCEPT ![t.acct] = After(base, rs)[t.acct] + 1]
    BY <2>5, <2>7, <2>8, ExecAppend
  <2>10. Replays(base, q)  BY <2>3, <2>6, <2>7, <2>9 DEF Replays
  <2>11. TxsKept(q)
    <3>1. PICK s \in Seq(Txs) : s = p.txs  BY <1>1 DEF PoolType
    <3>2. q.txs = Append(s, t)  BY <2>3, <3>1
    <3>3. \A i \in DOMAIN q.txs : q.txs[i] = t \/ (i \in DOMAIN s /\ q.txs[i] = s[i])  BY <3>2
    <3> QED BY <2>3, <3>1, <3>3 DEF TxsKept, GoodPool
  <2>12. PendKept(q) /\ WdsKept(q)  BY <2>3 DEF PendKept, WdsKept, GoodPool
  <2> QED BY <2>2, <2>10, <2>11, <2>12 DEF GoodPool
<1> QED BY <1>2, <1>3

\* A list that is sorted after an append was sorted before.
LEMMA SortedAppend ==
    ASSUME NEW s \in Seq(Wds), NEW w \in Wds, Sorted(Append(s, w))
    PROVE  Sorted(s)
BY DEF Sorted

LEMMA FinalizeGood ==
    ASSUME NEW base \in Nonces, NEW p, GoodPool(base, p), p.txs = <<>>, NEW w \in Wds, NEW failing
    PROVE  /\ GoodPool(base, FinalizeWithdrawal(p, w, failing))
           /\ FinalizeWithdrawal(p, w, failing).txs = <<>>
<1>1. p \in PoolType  BY DEF GoodPool
<1>2. CASE ~(w.nonce = p.nonce[w.acct] /\ w \notin failing)  BY <1>1, <1>2, FinalizeFacts
<1>3. CASE w.nonce = p.nonce[w.acct] /\ w \notin failing
  <2>1. PICK q : q = Withdrawn(p, w)  OBVIOUS
  <2>2. FinalizeWithdrawal(p, w, failing) = q /\ q \in PoolType
    BY <1>1, <1>3, <2>1, FinalizeFacts, FinalizeTyped
  <2>3. PICK L \in Seq(Wds) : L = p.pendWds[w.acct]  BY <1>1, RequestFacts DEF PoolType
  <2>4. q.wds = Append(p.wds, w) /\ q.txs = p.txs /\ q.dbTxs = p.dbTxs
        /\ q.nonce = [p.nonce EXCEPT ![w.acct] = p.nonce[w.acct] + 1]
        /\ q.pendWds = (IF w \in Range(L) THEN p.pendWds
                        ELSE [p.pendWds EXCEPT ![w.acct] = Append(L, w)])
        /\ q.dbWds = IF w \in Range(L) THEN p.dbWds ELSE p.dbWds \cup {w}
    BY <2>1, <2>3 DEF Withdrawn
  <2>5. p.wds \in Seq(Wds) /\ w \in Requests /\ w.acct \in Accounts /\ p.wds \in Seq(Requests)
        /\ p.pendWds \in [Accounts -> Seq(Wds)]
    BY <1>1, RequestFacts, PoolRequests DEF PoolType
  <2>6. p.wds \o p.txs = p.wds /\ q.wds \o q.txs = Append(p.wds, w)
    BY <2>4, <2>5
  <2>7. Executes(base, p.wds) /\ p.nonce = After(base, p.wds)  BY <2>6 DEF GoodPool, Replays
  <2>8. w.nonce = After(base, p.wds)[w.acct]  BY <1>3, <2>7
  <2>9. Executes(base, Append(p.wds, w))
        /\ After(base, Append(p.wds, w))
             = [After(base, p.wds) EXCEPT ![w.acct] = After(base, p.wds)[w.acct] + 1]
    BY <2>5, <2>7, <2>8, ExecAppend
  <2>10. Replays(base, q)  BY <2>4, <2>6, <2>7, <2>9 DEF Replays
  <2>11. TxsKept(q)  BY <2>4 DEF TxsKept, GoodPool
  <2>12. p.dbWds \subseteq q.dbWds  BY <2>4
  <2>13. PendKept(q)
    <3>1. CASE w \in Range(L)  BY <2>4, <3>1 DEF PendKept, GoodPool
    <3>2. CASE w \notin Range(L)
      <4>1. SUFFICES ASSUME NEW a \in Accounts, NEW i \in DOMAIN q.pendWds[a]
                     PROVE  /\ q.pendWds[a][i].acct = a
                            /\ \/ q.pendWds[a][i] \in q.dbWds
                               \/ \E h \in 1..(i - 1) : q.pendWds[a][h].nonce > q.pendWds[a][i].nonce
        BY DEF PendKept
      <4>2. CASE a # w.acct
        <5>1. q.pendWds[a] = p.pendWds[a]  BY <2>4, <2>5, <3>2, <4>2
        <5> QED BY <2>12, <4>1, <5>1 DEF PendKept, GoodPool
      <4>3. CASE a = w.acct
        <5>1. PICK M \in Seq(Wds) : M = q.pendWds[a]  BY <2>2 DEF PoolType
        <5>2. M = Append(L, w)  BY <2>4, <2>5, <3>2, <4>3, <5>1
        <5>3. CASE i = Len(L) + 1  BY <2>4, <3>2, <4>3, <5>1, <5>2, <5>3
        <5>4. CASE i # Len(L) + 1
          <6>1. i \in DOMAIN L /\ M[i] = L[i] /\ \A h \in 1..(i - 1) : M[h] = L[h]
            BY <4>1, <5>1, <5>2, <5>4
          <6>2. L[i].acct = a
                /\ (L[i] \in p.dbWds \/ \E h \in 1..(i - 1) : L[h].nonce > L[i].nonce)
            BY <2>3, <4>3, <6>1 DEF PendKept, GoodPool
          <6> QED BY <2>12, <5>1, <6>1, <6>2
        <5> QED BY <5>3, <5>4
      <4> QED BY <4>2, <4>3
    <3> QED BY <3>1, <3>2
  <2>14. WdsKept(q)
    <3>1. SUFFICES ASSUME NEW i \in DOMAIN q.wds, Sorted(q.pendWds[q.wds[i].acct])
                   PROVE  q.wds[i] \in q.dbWds
      BY DEF WdsKept
    <3>2. CASE i = Len(p.wds) + 1
      <4>1. q.wds[i] = w  BY <2>4, <2>5, <3>2
      <4>2. CASE w \notin Range(L)  BY <2>4, <4>1, <4>2
      <4>3. CASE w \in Range(L)
        <5>1. Sorted(L)  BY <2>3, <2>4, <3>1, <4>1, <4>3
        <5>2. PICK k \in DOMAIN L : L[k] = w  BY <4>3 DEF Range
        <5>3. L[k] \in p.dbWds \/ \E h \in 1..(k - 1) : L[h].nonce > L[k].nonce
          BY <2>3, <2>5, <5>2 DEF PendKept, GoodPool
        <5>4. ASSUME NEW h \in 1..(k - 1), L[h].nonce > L[k].nonce PROVE FALSE
          <6>1. h \in DOMAIN L /\ h < k  BY <5>2, <5>4
          <6>2. L[h].nonce <= L[k].nonce  BY <5>1, <5>2, <6>1 DEF Sorted
          <6>3. L[h] \in Wds /\ L[k] \in Wds  BY <5>2, <6>1
          <6>4. L[h].nonce \in Nat /\ L[k].nonce \in Nat  BY <6>3, RequestFacts
          <6> QED BY <5>4, <6>2, <6>4
        <5> QED BY <2>12, <4>1, <5>2, <5>3, <5>4
      <4> QED BY <4>2, <4>3
    <3>3. CASE i # Len(p.wds) + 1
      <4>1. i \in DOMAIN p.wds /\ q.wds[i] = p.wds[i]  BY <2>4, <2>5, <3>1, <3>3
      <4>2. PICK v \in Wds : v = p.wds[i]  BY <2>5, <4>1
      <4>3. v.acct \in Accounts  BY RequestFacts
      <4>4. Sorted(p.pendWds[v.acct])
        <5>1. CASE v.acct = w.acct /\ w \notin Range(L)
          <6>1. q.pendWds[v.acct] = Append(L, w)  BY <2>4, <2>5, <5>1
          <6> QED BY <2>3, <3>1, <4>1, <4>2, <5>1, <6>1, SortedAppend
        <5>2. CASE v.acct # w.acct \/ w \in Range(L)
          <6>1. q.pendWds[v.acct] = p.pendWds[v.acct]  BY <2>4, <2>5, <4>3, <5>2
          <6> QED BY <3>1, <4>1, <4>2, <6>1
        <5> QED BY <5>1, <5>2
      <4> QED BY <2>12, <4>1, <4>2, <4>4 DEF WdsKept, GoodPool
    <3> QED BY <3>2, <3>3
  <2> QED BY <2>2, <2>4, <2>10, <2>11, <2>13, <2>14 DEF GoodPool
<1> QED BY <1>2, <1>3


LEMMA PushAllGood ==
    ASSUME NEW base \in Nonces, NEW p, GoodPool(base, p), NEW ts \in Seq(Txs), NEW failing
    PROVE  GoodPool(base, PushTransactions(p, ts, failing))
<1>1. PICK n \in Nat : n = Len(ts)  OBVIOUS
<1>2. PICK f \in [0..n -> PoolType] : PushRun(p, ts, failing, f)
  BY <1>1, PushSteps DEF GoodPool
<1> DEFINE T == {i \in 0..n : GoodPool(base, f[i])}
<1>3. 0 \in T  BY <1>2 DEF PushRun
<1>4. ASSUME NEW i \in 0..n, i < n, i \in T PROVE i + 1 \in T
  <2>1. i + 1 \in 0..n /\ i + 1 \in 1..n /\ (i + 1) - 1 = i  BY <1>4
  <2>2. f[i + 1] = PushTransaction(f[i], ts[i + 1], failing)  BY <1>1, <1>2, <2>1 DEF PushRun
  <2>3. ts[i + 1] \in Txs /\ GoodPool(base, f[i])  BY <1>1, <1>4, <2>1
  <2>4. GoodPool(base, PushTransaction(f[i], ts[i + 1], failing))  BY <2>3, PushGood
  <2> QED BY <2>1, <2>2, <2>4
<1>5. n \in T
  <2> HIDE DEF T
  <2>1. \A i \in 0..n : i \in T  BY <1>3, <1>4, NatInd
  <2> QED BY <2>1
<1> QED BY <1>1, <1>2, <1>5 DEF PushRun

LEMMA FinalizeAllGood ==
    ASSUME NEW base \in Nonces, NEW p, GoodPool(base, p), p.txs = <<>>, NEW ws \in Seq(Wds), NEW failing
    PROVE  /\ GoodPool(base, FinalizeWithdrawals(p, ws, failing))
           /\ FinalizeWithdrawals(p, ws, failing).txs = <<>>
<1>1. PICK n \in Nat : n = Len(ws)  OBVIOUS
<1>2. PICK f \in [0..n -> PoolType] : FinalizeRun(p, ws, failing, f)
  BY <1>1, FinalizeSteps DEF GoodPool
<1> DEFINE T == {i \in 0..n : GoodPool(base, f[i]) /\ f[i].txs = <<>>}
<1>3. 0 \in T  BY <1>2 DEF FinalizeRun
<1>4. ASSUME NEW i \in 0..n, i < n, i \in T PROVE i + 1 \in T
  <2>1. i + 1 \in 0..n /\ i + 1 \in 1..n /\ (i + 1) - 1 = i  BY <1>4
  <2>2. f[i + 1] = FinalizeWithdrawal(f[i], ws[i + 1], failing)  BY <1>1, <1>2, <2>1 DEF FinalizeRun
  <2>3. ws[i + 1] \in Wds /\ GoodPool(base, f[i]) /\ f[i].txs = <<>>  BY <1>1, <1>4, <2>1
  <2>4. GoodPool(base, FinalizeWithdrawal(f[i], ws[i + 1], failing))
        /\ FinalizeWithdrawal(f[i], ws[i + 1], failing).txs = <<>>
    BY <2>3, FinalizeGood
  <2> QED BY <2>1, <2>2, <2>4
<1>5. n \in T
  <2> HIDE DEF T
  <2>1. \A i \in 0..n : i \in T  BY <1>3, <1>4, NatInd
  <2> QED BY <2>1
<1> QED BY <1>1, <1>2, <1>5 DEF FinalizeRun

\* Kept members keep their type, and are in S.
LEMMA RetainTyped ==
    ASSUME NEW R, NEW rs \in Seq(R), NEW S
    PROVE  Retain(rs, S) \in Seq(R) /\ Retain(rs, S) \in Seq(S)
<1>1. PICK ks : ks = Retain(rs, S)  OBVIOUS
<1>2. RetainedFrom(R, rs, S, ks)  BY <1>1, RetainFacts
<1>3. ks \in Seq(R) /\ \A i \in DOMAIN ks : ks[i] \in S  BY <1>2 DEF RetainedFrom, FromPart
<1>4. ks \in Seq(S)  BY <1>3
<1> QED BY <1>1, <1>3, <1>4

LEMMA CanExecuteTyped ==
    ASSUME NEW R, NEW nonces, NEW rs \in Seq(R)
    PROVE  CanExecute(nonces, rs) \in Seq(R)
BY RetainTyped DEF CanExecute

LEMMA StoredTyped ==
    ASSUME NEW R, NEW db, NEW rs \in Seq(R)
    PROVE  Stored(rs, db) \in Seq(R)
BY RetainTyped DEF Stored

LEMMA PrepareGood ==
    ASSUME NEW base \in Nonces, NEW p, GoodPool(base, p), p.txs = <<>>,
           NEW ws \in Seq(Wds), NEW ts \in Seq(Txs), NEW failing
    PROVE  GoodPool(base, PrepareNextMemBlock(p, ws, ts, failing))
<1>1. PICK xs \in Seq(Txs) : xs = CanExecute(p.nonce, ts)
  <2>1. CanExecute(p.nonce, ts) \in Seq(Txs)  BY CanExecuteTyped
  <2> QED BY <2>1, Zenon
<1>2. PICK q : q = FinalizeWithdrawals(p, ws, failing)  OBVIOUS
<1>3. GoodPool(base, q)  BY <1>2, FinalizeAllGood
<1>4. GoodPool(base, PushTransactions(q, xs, failing))  BY <1>3, PushAllGood
<1> QED BY <1>1, <1>2, <1>4 DEF PrepareNextMemBlock


-----------------------------------------------------------------------------
(* Dropping pending requests.                                              *)

\* ks is what is left of rs after its first m - 1 members, the longest run whose
\* nonces are below nonce.
DropAt(rs, nonce, ks, m) ==
    /\ m \in 1..(Len(rs) + 1)
    /\ Len(ks) = Len(rs) - m + 1
    /\ \A i \in 1..Len(ks) : ks[i] = rs[m - 1 + i]
    /\ \A i \in 1..(m - 1) : rs[i].nonce < nonce
    /\ m <= Len(rs) => rs[m].nonce >= nonce

LEMMA DropFacts ==
    ASSUME NEW R, R \subseteq Requests, NEW rs \in Seq(R), NEW nonce \in Nat
    PROVE  /\ DropLower(rs, nonce) \in Seq(R)
           /\ \E m : DropAt(rs, nonce, DropLower(rs, nonce), m)
<1>1. PICK l \in Nat : l = Len(rs) /\ DOMAIN rs = 1..l  OBVIOUS
<1>2. \A i \in 1..l : rs[i] \in R /\ rs[i].nonce \in Nat  BY <1>1, RequestFacts
<1>3. PICK keep : keep = {i \in DOMAIN rs : rs[i].nonce >= nonce}  OBVIOUS
<1>4. DropLower(rs, nonce) = IF keep = {} THEN <<>> ELSE SubSeq(rs, Min(keep), Len(rs))
  BY <1>3 DEF DropLower
<1>5. CASE keep = {}
  <2>1. PICK ks \in Seq(R) : ks = <<>>
    <3>1. <<>> \in Seq(R)  OBVIOUS
    <3> QED BY <3>1, Zenon
  <2>2. Len(ks) = 0  BY <2>1
  <2>3. \A i \in 1..l : rs[i].nonce < nonce
    <3>1. SUFFICES ASSUME NEW i \in 1..l PROVE rs[i].nonce < nonce  OBVIOUS
    <3>2. i \notin keep  BY <1>5
    <3>3. ~(rs[i].nonce >= nonce)  BY <1>1, <1>3, <3>2
    <3> QED BY <1>2, <3>3
  <2>4. DropAt(rs, nonce, ks, l + 1)  BY <1>1, <2>2, <2>3 DEF DropAt
  <2> QED BY <1>4, <1>5, <2>1, <2>4
<1>6. CASE keep # {}
  <2>1. keep \subseteq Nat  BY <1>1, <1>3
  <2>2. \E x \in keep : \A y \in keep : x <= y  BY <1>6, <2>1, LeastNat
  <2>3. PICK m : m = Min(keep)  OBVIOUS
  <2>4. m \in keep /\ \A y \in keep : m <= y  BY <2>2, <2>3 DEF Min
  <2>5. m \in 1..l /\ rs[m].nonce >= nonce  BY <1>1, <1>3, <2>4
  <2>6. \A i \in 1..(m - 1) : rs[i].nonce < nonce
    <3>1. SUFFICES ASSUME NEW i \in 1..(m - 1) PROVE rs[i].nonce < nonce  OBVIOUS
    <3>2. i \in 1..l /\ ~(m <= i)  BY <1>1, <2>5
    <3>3. i \notin keep  BY <2>4, <3>2
    <3>4. ~(rs[i].nonce >= nonce)  BY <1>1, <1>3, <3>2, <3>3
    <3> QED BY <1>2, <3>2, <3>4
  <2>7. PICK ks : ks = SubSeq(rs, m, l)  OBVIOUS
  <2>8. ks \in Seq(R) /\ Len(ks) = l - m + 1 /\ \A i \in 1..(l - m + 1) : ks[i] = rs[m - 1 + i]
    BY <1>1, <2>5, <2>7
  <2>9. DropAt(rs, nonce, ks, m)  BY <1>1, <2>5, <2>6, <2>8, SMTT(60) DEF DropAt
  <2> QED BY <1>1, <1>4, <1>6, <2>3, <2>7, <2>8, <2>9
<1> QED BY <1>5, <1>6

\* What is dropped is a member of the list; with DropAt, one before the cut.
LEMMA DroppedFacts ==
    ASSUME NEW R, NEW rs \in Seq(R), NEW ks \in Seq(R), Len(ks) <= Len(rs), NEW x \in Dropped(rs, ks)
    PROVE  \E u \in 1..(Len(rs) - Len(ks)) : x = rs[u] /\ u \in DOMAIN rs
<1>1. PICK l \in Nat, k \in Nat : l = Len(rs) /\ k = Len(ks)  OBVIOUS
<1>2. PICK d \in Nat : d = l - k  BY <1>1
<1>3. d <= l  BY <1>1, <1>2
<1>4. PICK s : s = SubSeq(rs, 1, d)  OBVIOUS
<1>5. Len(s) = d /\ s \in Seq(R) /\ \A i \in 1..d : s[i] = rs[i]  BY <1>1, <1>2, <1>3, <1>4
<1>6. PICK u \in DOMAIN s : x = s[u]  BY <1>1, <1>2, <1>4 DEF Dropped, Range
<1>7. u \in 1..d  BY <1>5, <1>6
<1> QED BY <1>1, <1>2, <1>3, <1>5, <1>6, <1>7

\* The pending lists and the database after remove_unexecutables.
LeftTxs(p, nonces) == [a \in Accounts |-> DropLower(p.pendTxs[a], nonces[a])]
LeftWds(p, nonces, poor) ==
    [a \in Accounts |-> IF a \in poor THEN <<>> ELSE DropLower(p.pendWds[a], nonces[a])]

Emptied(p, nonces, poor) == RemoveUnexecutables(Cleared(p, nonces), nonces, poor)

LEMMA EmptiedFacts ==
    ASSUME NEW p \in PoolType, NEW nonces, NEW poor
    PROVE  Emptied(p, nonces, poor) =
             [nonce |-> nonces, wds |-> <<>>, txs |-> <<>>,
              pendWds |-> LeftWds(p, nonces, poor), pendTxs |-> LeftTxs(p, nonces),
              dbWds |-> p.dbWds \ UNION {Dropped(p.pendWds[a], LeftWds(p, nonces, poor)[a]) : a \in Accounts},
              dbTxs |-> p.dbTxs \ UNION {Dropped(p.pendTxs[a], LeftTxs(p, nonces)[a]) : a \in Accounts}]
<1>1. PICK c : c = Cleared(p, nonces)  OBVIOUS
<1>2. c = [nonce |-> nonces, wds |-> <<>>, txs |-> <<>>, pendWds |-> p.pendWds,
           pendTxs |-> p.pendTxs, dbWds |-> p.dbWds, dbTxs |-> p.dbTxs]
  BY <1>1 DEF Cleared, PoolType
<1>3. PICK ws, ts : ws = LeftWds(p, nonces, poor) /\ ts = LeftTxs(p, nonces)  OBVIOUS
<1>4. RemoveUnexecutables(c, nonces, poor) =
        [c EXCEPT !.pendTxs = ts, !.pendWds = ws,
                  !.dbTxs = @ \ UNION {Dropped(p.pendTxs[a], ts[a]) : a \in Accounts},
                  !.dbWds = @ \ UNION {Dropped(p.pendWds[a], ws[a]) : a \in Accounts}]
  BY <1>2, <1>3 DEF RemoveUnexecutables, LeftWds, LeftTxs
<1>5. RemoveUnexecutables(c, nonces, poor) =
        [nonce |-> nonces, wds |-> <<>>, txs |-> <<>>, pendWds |-> ws, pendTxs |-> ts,
         dbWds |-> p.dbWds \ UNION {Dropped(p.pendWds[a], ws[a]) : a \in Accounts},
         dbTxs |-> p.dbTxs \ UNION {Dropped(p.pendTxs[a], ts[a]) : a \in Accounts}]
  BY <1>2, <1>4
<1> QED BY <1>1, <1>3, <1>5 DEF Emptied


LEMMA LeftTyped ==
    ASSUME NEW p \in PoolType, NEW nonces \in Nonces, NEW poor
    PROVE  /\ LeftTxs(p, nonces) \in [Accounts -> Seq(Txs)]
           /\ LeftWds(p, nonces, poor) \in [Accounts -> Seq(Wds)]
<1>1. ASSUME NEW a \in Accounts PROVE DropLower(p.pendTxs[a], nonces[a]) \in Seq(Txs)
  <2>1. p.pendTxs[a] \in Seq(Txs) /\ nonces[a] \in Nat  BY DEF PoolType, Nonces
  <2> QED BY <2>1, RequestFacts, DropFacts
<1>2. ASSUME NEW a \in Accounts
      PROVE  (IF a \in poor THEN <<>> ELSE DropLower(p.pendWds[a], nonces[a])) \in Seq(Wds)
  <2>1. p.pendWds[a] \in Seq(Wds) /\ nonces[a] \in Nat  BY DEF PoolType, Nonces
  <2>2. DropLower(p.pendWds[a], nonces[a]) \in Seq(Wds)  BY <2>1, RequestFacts, DropFacts
  <2>3. <<>> \in Seq(Wds)  OBVIOUS
  <2> QED BY <2>2, <2>3, Zenon
<1> QED BY <1>1, <1>2 DEF LeftTxs, LeftWds

\* An emptied pool, whatever it held before.
LEMMA EmptiedGood ==
    ASSUME NEW p \in PoolType, PendKept(p), NEW nonces \in Nonces, NEW poor
    PROVE  /\ GoodPool(nonces, Emptied(p, nonces, poor))
           /\ Emptied(p, nonces, poor).txs = <<>>
<1>1. PICK q : q = Emptied(p, nonces, poor)  OBVIOUS
<1>2. PICK W \in [Accounts -> Seq(Wds)], X \in [Accounts -> Seq(Txs)] :
        W = LeftWds(p, nonces, poor) /\ X = LeftTxs(p, nonces)
  BY LeftTyped
<1>3. q = [nonce |-> nonces, wds |-> <<>>, txs |-> <<>>, pendWds |-> W, pendTxs |-> X,
           dbWds |-> p.dbWds \ UNION {Dropped(p.pendWds[a], W[a]) : a \in Accounts},
           dbTxs |-> p.dbTxs \ UNION {Dropped(p.pendTxs[a], X[a]) : a \in Accounts}]
  BY <1>1, <1>2, EmptiedFacts
<1>4. PICK e \in Seq(Wds) : e = <<>>
  <2>1. <<>> \in Seq(Wds)  OBVIOUS
  <2> QED BY <2>1, Zenon
<1>5. <<>> \in Seq(Txs) /\ <<>> \in Seq(Wds) /\ Len(e) = 0  BY <1>4
<1>6. q \in PoolType  BY <1>2, <1>3, <1>5 DEF PoolType, Nonces
<1>7. Replays(nonces, q)
  <2>1. q.wds \o q.txs = <<>>  BY <1>3
  <2>2. q.nonce = nonces  BY <1>3
  <2> QED BY <2>1, <2>2, ExecEmpty DEF Replays
<1>8. q.wds = <<>> /\ q.txs = <<>>  BY <1>3
<1>9. TxsKept(q) /\ WdsKept(q)  BY <1>8 DEF TxsKept, WdsKept
<1>10. PendKept(q)
  <2>1. SUFFICES ASSUME NEW a \in Accounts, NEW i \in DOMAIN q.pendWds[a]
                 PROVE  /\ q.pendWds[a][i].acct = a
                        /\ \/ q.pendWds[a][i] \in q.dbWds
                           \/ \E h \in 1..(i - 1) : q.pendWds[a][h].nonce > q.pendWds[a][i].nonce
    BY DEF PendKept
  <2>2. PICK rs \in Seq(Wds), n \in Nat : rs = p.pendWds[a] /\ n = nonces[a]  BY DEF PoolType, Nonces
  <2>3. PICK ks \in Seq(Wds) : ks = W[a]  BY <1>2
  <2>4. q.pendWds[a] = ks  BY <1>3, <2>3
  <2>5. i \in DOMAIN ks  BY <2>1, <2>4
  <2>6. a \notin poor /\ ks = DropLower(rs, n)
    <3>1. ks = IF a \in poor THEN e ELSE DropLower(rs, n)  BY <1>2, <1>4, <2>2, <2>3 DEF LeftWds
    <3>2. a \notin poor
      <4>1. SUFFICES ASSUME a \in poor PROVE FALSE  OBVIOUS
      <4>2. ks = e  BY <3>1, <4>1
      <4> QED BY <1>5, <2>5, <4>2
    <3> QED BY <3>1, <3>2
  <2>7. PICK m : DropAt(rs, n, ks, m)  BY <2>6, RequestFacts, DropFacts
  <2>8. PICK l \in Nat : l = Len(rs)  OBVIOUS
  <2>9. m \in 1..(l + 1) /\ Len(ks) = l - m + 1 /\ i \in 1..Len(ks)  BY <2>5, <2>7, <2>8 DEF DropAt
  <2>10. PICK j : j = m - 1 + i  OBVIOUS
  <2>11. j \in DOMAIN rs /\ j \in 1..l /\ j >= m /\ ks[i] = rs[j] /\ m <= l
    <3>1. ks[i] = rs[m - 1 + i]  BY <2>7, <2>9 DEF DropAt
    <3>2. m \in Int /\ i \in Int /\ 1 <= i /\ i <= l - m + 1 /\ 1 <= m  BY <2>8, <2>9
    <3>3. j \in 1..l /\ j >= m /\ m <= l  BY <2>8, <2>10, <3>2
    <3> QED BY <2>8, <2>10, <3>1, <3>3
  <2>12. 1 \in 1..Len(ks) /\ ks[1] = rs[m] /\ rs[m].nonce >= n
    <3>1. 1 \in 1..Len(ks) /\ m - 1 + 1 = m  BY <2>9
    <3> QED BY <2>7, <2>8, <2>11, <3>1 DEF DropAt
  <2>13. \A u \in 1..l : rs[u] \in Wds /\ rs[u].nonce \in Nat  BY <2>8, RequestFacts
  <2>14. rs[j].acct = a /\ (rs[j] \in p.dbWds \/ \E h \in 1..(j - 1) : rs[h].nonce > rs[j].nonce)
    BY <2>2, <2>11 DEF PendKept
  <2>15. ASSUME rs[j].nonce < n PROVE \E h \in 1..(i - 1) : ks[h].nonce > ks[i].nonce
    <3>1. rs[m].nonce \in Nat /\ rs[j].nonce \in Nat  BY <2>9, <2>11, <2>13
    <3>2. rs[m].nonce > rs[j].nonce  BY <2>12, <2>15, <3>1, SMTT(60)
    <3>3. j # m  BY <3>1, <3>2
    <3>4. 1 \in 1..(i - 1)  BY <2>9, <2>10, <3>3
    <3> QED BY <2>11, <2>12, <3>2, <3>4
  <2>16. CASE ~(rs[j] \in p.dbWds)
    <3>1. PICK h \in 1..(j - 1) : rs[h].nonce > rs[j].nonce  BY <2>14, <2>16
    <3>2. CASE h < m
      <4>1. rs[h].nonce < n  BY <2>7, <2>9, <3>2 DEF DropAt
      <4>2. h \in 1..l  BY <2>8, <2>11
      <4>3. rs[j].nonce < n  BY <2>11, <2>13, <3>1, <4>1, <4>2, SMTT(60)
      <4> QED BY <2>4, <2>11, <2>14, <2>15, <4>3
    <3>3. CASE h >= m
      <4>1. h - m + 1 \in 1..(i - 1) /\ h - m + 1 \in 1..Len(ks) /\ m - 1 + (h - m + 1) = h
        <5>1. m \in Int /\ i \in Int /\ h \in Int /\ j = m - 1 + i /\ h <= j - 1 /\ h >= m
              /\ i <= Len(ks) /\ Len(ks) \in Nat
          BY <2>9, <2>10, <2>11, <3>3
        <5> QED BY <5>1
      <4>2. ks[h - m + 1] = rs[h]  BY <2>7, <4>1 DEF DropAt
      <4> QED BY <2>4, <2>11, <2>14, <3>1, <4>1, <4>2
    <3> QED BY <2>9, <2>11, <3>2, <3>3
  <2>17. CASE rs[j] \in p.dbWds /\ rs[j] \notin q.dbWds
    <3>1. PICK b \in Accounts : rs[j] \in Dropped(p.pendWds[b], W[b])  BY <1>3, <2>17
    <3>2. PICK bs \in Seq(Wds), cs \in Seq(Wds), k \in Nat :
            bs = p.pendWds[b] /\ cs = W[b] /\ k = nonces[b]
      BY <1>2 DEF PoolType, Nonces
    <3>3. Len(cs) <= Len(bs)
      <4>1. cs = IF b \in poor THEN e ELSE DropLower(bs, k)  BY <1>2, <1>4, <3>2 DEF LeftWds
      <4>2. CASE b \in poor  BY <1>5, <4>1, <4>2
      <4>3. CASE b \notin poor
        <5>1. PICK c : DropAt(bs, k, cs, c)  BY <4>1, <4>3, RequestFacts, DropFacts
        <5> QED BY <5>1 DEF DropAt
      <4> QED BY <4>2, <4>3
    <3>4. PICK u \in 1..(Len(bs) - Len(cs)) : rs[j] = bs[u] /\ u \in DOMAIN bs
      BY <3>1, <3>2, <3>3, DroppedFacts
    <3>5. bs[u].acct = b  BY <3>2, <3>4 DEF PendKept
    <3>6. b = a  BY <2>14, <3>4, <3>5
    <3>7. bs = rs /\ cs = ks  BY <2>2, <2>3, <3>2, <3>6
    <3>8. u \in 1..(m - 1)
      <4>1. Len(rs) - Len(ks) = m - 1  BY <2>8, <2>9
      <4> QED BY <3>4, <3>7, <4>1
    <3>9. rs[u].nonce < n  BY <2>7, <3>8 DEF DropAt
    <3> QED BY <2>4, <2>11, <2>14, <2>15, <3>4, <3>7, <3>9
  <2>18. CASE rs[j] \in q.dbWds  BY <2>4, <2>11, <2>14, <2>18
  <2> QED BY <2>16, <2>17, <2>18
<1>11. GoodPool(nonces, q)  BY <1>6, <1>7, <1>9, <1>10 DEF GoodPool
<1> QED BY <1>1, <1>8, <1>11


-----------------------------------------------------------------------------
(* The requests of several blocks, one block after the other.              *)

FlatRun(ss, f) ==
    /\ f[0] = <<>>
    /\ \A i \in 1..Len(ss) : f[i] = f[i-1] \o ss[i]
    /\ FlattenSeq(ss) = f[Len(ss)]

LEMMA FlatSteps ==
    ASSUME NEW R, NEW ss \in Seq(Seq(R))
    PROVE  \E f \in [0..Len(ss) -> Seq(R)] : FlatRun(ss, f)
<1>1. PICK n \in Nat : n = Len(ss)  OBVIOUS
<1>2. PICK V : V = Seq(R)  OBVIOUS
<1>3. PICK e \in V : e = <<>>
  <2>1. <<>> \in Seq(R)  OBVIOUS
  <2> QED BY <1>2, <2>1, Zenon
<1>4. \A i \in 1..n : ss[i] \in Seq(R) /\ ss[i] \in V /\ e \o ss[i] = ss[i]
  <2>1. \A i \in 1..n : ss[i] \in Seq(R)  BY <1>1
  <2>2. \A s \in Seq(R) : <<>> \o s = s  OBVIOUS
  <2> QED BY <1>2, <1>3, <2>1, <2>2
<1>5. CASE n = 0
  <2>1. ss = <<>>  BY <1>1, <1>5, EmptySeq
  <2>2. FlattenSeq(ss) = ss  BY <1>1, <1>5 DEF FlattenSeq
  <2> DEFINE f == [i \in 0..n |-> e]
  <2>3. f \in [0..n -> V] /\ f[0] = e /\ f[n] = e  BY <1>5
  <2>4. \A i \in 1..n : FALSE  BY <1>5
  <2> HIDE DEF f
  <2>5. FlatRun(ss, f)  BY <1>1, <1>3, <2>1, <2>2, <2>3, <2>4 DEF FlatRun
  <2> QED BY <1>1, <1>2, <2>3, <2>5
<1>6. CASE n # 0
  <2> DEFINE Step(i, v) == v \o ss[i]
             Is(g) == g = [i \in 1..Len(ss) |-> IF i = 1 THEN ss[i] ELSE Step(i, g[i-1])]
             G == [x \in (1..n) \X V |-> Step(x[1], x[2])]
  <2>1. \A i \in 1..n, v \in V : Step(i, v) \in V  BY <1>2, <1>4
  <2>2. \A i \in 1..n : Step(i, e) = ss[i]  BY <1>4
  <2>3. PICK f \in [0..n -> V] : f[0] = e /\ \A i \in 1..n : f[i] = Step(i, f[i-1])
    <3> HIDE DEF Step
    <3>1. G \in [(1..n) \X V -> V]  BY <2>1
    <3>2. \A i \in 1..n, v \in V : G[<<i, v>>] = Step(i, v)  OBVIOUS
    <3> HIDE DEF G
    <3>3. PICK f \in [0..n -> V] : Runs(n, e, G, f)  BY <3>1, RecExists
    <3>4. \A i \in 1..n : f[i-1] \in V  BY <3>3
    <3> QED BY <3>2, <3>3, <3>4 DEF Runs
  <2> HIDE DEF Step
  <2> DEFINE g == [i \in 1..n |-> f[i]]
  <2>4. Is(g)
    <3>1. \A i \in 1..n : g[i] = f[i]  OBVIOUS
    <3>2. \A i \in 1..n : i # 1 => i - 1 \in 1..n  OBVIOUS
    <3>3. \A i \in 1..n : g[i] = IF i = 1 THEN ss[i] ELSE Step(i, g[i-1])
      <4>1. SUFFICES ASSUME NEW i \in 1..n PROVE g[i] = IF i = 1 THEN ss[i] ELSE Step(i, g[i-1])
        OBVIOUS
      <4>2. CASE i = 1
        <5>1. f[i] = Step(i, f[i-1]) /\ i - 1 = 0  BY <2>3, <4>2
        <5> QED BY <2>2, <2>3, <3>1, <4>2, <5>1
      <4>3. CASE i # 1
        <5>1. f[i] = Step(i, f[i-1]) /\ g[i-1] = f[i-1]  BY <2>3, <3>1, <3>2, <4>3
        <5> QED BY <3>1, <4>3, <5>1
      <4> QED BY <4>2, <4>3
    <3>4. g = [i \in 1..n |-> g[i]]  OBVIOUS
    <3> HIDE DEF g
    <3> QED BY <1>1, <3>3, <3>4
  <2> HIDE DEF g
  <2>5. PICK h : h = CHOOSE k : Is(k)  OBVIOUS
  <2>6. Is(h)
    <3> HIDE DEF Is
    <3> QED BY <2>4, <2>5
  <2>7. FlattenSeq(ss) = h[n]  BY <1>1, <1>6, <2>5 DEF FlattenSeq, Step
  <2>8. \A i \in 1..n : h[i] = IF i = 1 THEN ss[i] ELSE Step(i, h[i-1])
    <3>1. h = [i \in 1..n |-> IF i = 1 THEN ss[i] ELSE Step(i, h[i-1])]  BY <1>1, <2>6
    <3> QED BY <3>1
  <2> DEFINE k == [i \in 0..n |-> IF i = 0 THEN e ELSE h[i]]
  <2>9. k[0] = e /\ (\A i \in 1..n : k[i] = h[i])  OBVIOUS
  <2>10. k = [i \in 0..n |-> k[i]]  OBVIOUS
  <2> HIDE DEF k
  <2>11. \A i \in 1..n : k[i] = Step(i, k[i-1])
    <3>1. SUFFICES ASSUME NEW i \in 1..n PROVE k[i] = Step(i, k[i-1])  OBVIOUS
    <3>2. CASE i = 1
      <4>1. i - 1 = 0 /\ h[i] = ss[i] /\ Step(i, e) = ss[i]  BY <2>2, <2>8, <3>2
      <4> QED BY <2>9, <4>1
    <3>3. CASE i # 1
      <4>1. i - 1 \in 1..n /\ h[i] = Step(i, h[i-1])  BY <2>8, <3>3
      <4>2. k[i-1] = h[i-1] /\ k[i] = h[i]  BY <2>9, <4>1
      <4> QED BY <4>1, <4>2
    <3> QED BY <3>2, <3>3
  <2>12. k \in [0..n -> V]
    <3>1. \A i \in 1..n : k[i-1] \in V => k[i] \in V  BY <2>1, <2>11
    <3>2. \A i \in 0..n : k[i] \in V  BY <2>9, <3>1, RunTyped
    <3> QED BY <2>10, <3>2
  <2>13. FlattenSeq(ss) = k[n]  BY <1>6, <2>7, <2>9
  <2> QED BY <1>1, <1>2, <1>3, <2>9, <2>11, <2>12, <2>13 DEF FlatRun, Step
<1> QED BY <1>5, <1>6


\* fs has the members of the first k of ss, in order.
FlatIn(ss, k, fs) == \A i \in DOMAIN fs : \E b \in 1..k : \E u \in DOMAIN ss[b] : fs[i] = ss[b][u]
FlatAll(ss, k, fs) == \A b \in 1..k : \A u \in DOMAIN ss[b] : \E i \in DOMAIN fs : fs[i] = ss[b][u]
FlatPair(ss, k, x, y) ==
    \E b \in 1..k : \E c \in 1..k : \E u \in DOMAIN ss[b] : \E v \in DOMAIN ss[c] :
        x = ss[b][u] /\ y = ss[c][v] /\ (b < c \/ (b = c /\ u < v))
FlatOrder(ss, k, fs) == \A i, j \in DOMAIN fs : i < j => FlatPair(ss, k, fs[i], fs[j])

FlatFrom(R, ss, fs) ==
    /\ fs \in Seq(R)
    /\ FlatIn(ss, Len(ss), fs) /\ FlatAll(ss, Len(ss), fs) /\ FlatOrder(ss, Len(ss), fs)

LEMMA FlatFacts ==
    ASSUME NEW R, NEW ss \in Seq(Seq(R))
    PROVE  FlatFrom(R, ss, FlattenSeq(ss))
<1>1. PICK n \in Nat : n = Len(ss)  OBVIOUS
<1>2. PICK f \in [0..n -> Seq(R)] : FlatRun(ss, f)  BY <1>1, FlatSteps
<1> DEFINE T == {k \in 0..n : FlatIn(ss, k, f[k]) /\ FlatAll(ss, k, f[k]) /\ FlatOrder(ss, k, f[k])}
<1>3. 0 \in T
  <2>1. f[0] = <<>>  BY <1>2 DEF FlatRun
  <2>2. DOMAIN f[0] = {}  BY <2>1
  <2>3. \A u \in 1..0 : FALSE  OBVIOUS
  <2> QED BY <2>2, <2>3 DEF FlatIn, FlatAll, FlatOrder
<1>4. ASSUME NEW k \in 0..n, k < n, k \in T PROVE k + 1 \in T
  <2>1. k + 1 \in 0..n /\ k + 1 \in 1..n /\ (k + 1) - 1 = k  BY <1>4
  <2>2. PICK s \in Seq(R) : s = f[k]  BY <1>2
  <2>3. PICK t \in Seq(R) : t = f[k + 1]  BY <1>2, <2>1
  <2>4. PICK r \in Seq(R) : r = ss[k + 1]  BY <1>1, <2>1
  <2>5. t = s \o r  BY <1>1, <1>2, <2>1, <2>2, <2>3, <2>4 DEF FlatRun
  <2>6. FlatIn(ss, k, s) /\ FlatAll(ss, k, s) /\ FlatOrder(ss, k, s)  BY <1>4, <2>2
  <2>7. PICK l \in Nat, m \in Nat : l = Len(s) /\ m = Len(r)  OBVIOUS
  <2>8. DOMAIN s = 1..l /\ DOMAIN r = 1..m /\ DOMAIN t = 1..(l + m)  BY <2>5, <2>7
  <2>9. \A i \in 1..l : i \in 1..(l + m) /\ t[i] = s[i]  BY <2>5, <2>7
  <2>10. \A i \in 1..m : l + i \in 1..(l + m) /\ t[l + i] = r[i]  BY <2>5, <2>7
  <2>11. \A i \in 1..(l + m) : i \in 1..l \/ (i - l \in 1..m /\ t[i] = r[i - l])
    <3>1. SUFFICES ASSUME NEW i \in 1..(l + m), i \notin 1..l PROVE i - l \in 1..m /\ t[i] = r[i - l]
      OBVIOUS
    <3>2. i - l \in 1..m /\ l + (i - l) = i  BY <2>7, <3>1
    <3> QED BY <2>10, <3>2
  <2>12. \A b \in 1..k : b \in 1..(k + 1) /\ b < k + 1  BY <1>4
  <2>13. k + 1 \in 1..(k + 1) /\ \A b \in 1..(k + 1) : b \in 1..k \/ b = k + 1  BY <1>4
  <2>14. FlatIn(ss, k + 1, t)
    <3>1. SUFFICES ASSUME NEW i \in DOMAIN t
                   PROVE  \E b \in 1..(k + 1) : \E u \in DOMAIN ss[b] : t[i] = ss[b][u]
      BY DEF FlatIn
    <3>2. CASE i \in 1..l
      <4>1. PICK b \in 1..k : \E u \in DOMAIN ss[b] : s[i] = ss[b][u]
        BY <2>6, <2>8, <3>2 DEF FlatIn
      <4> QED BY <2>9, <2>12, <3>2, <4>1
    <3>3. CASE i - l \in 1..m /\ t[i] = r[i - l]
      <4>1. i - l \in DOMAIN ss[k + 1] /\ t[i] = ss[k + 1][i - l]  BY <2>4, <2>8, <3>3
      <4> QED BY <2>13, <4>1
    <3> QED BY <2>8, <2>11, <3>2, <3>3
  <2>15. FlatAll(ss, k + 1, t)
    <3>1. SUFFICES ASSUME NEW b \in 1..(k + 1), NEW u \in DOMAIN ss[b]
                   PROVE  \E i \in DOMAIN t : t[i] = ss[b][u]
      BY DEF FlatAll
    <3>2. CASE b \in 1..k
      <4>1. PICK i \in DOMAIN s : s[i] = ss[b][u]  BY <2>6, <3>2 DEF FlatAll
      <4> QED BY <2>8, <2>9, <4>1
    <3>3. CASE b = k + 1
      <4>1. u \in 1..m /\ ss[b][u] = r[u]  BY <2>4, <2>8, <3>1, <3>3
      <4> QED BY <2>8, <2>10, <4>1
    <3> QED BY <2>13, <3>2, <3>3
  <2>16. FlatOrder(ss, k + 1, t)
    <3>1. SUFFICES ASSUME NEW i \in DOMAIN t, NEW j \in DOMAIN t, i < j
                   PROVE  FlatPair(ss, k + 1, t[i], t[j])
      BY DEF FlatOrder
    <3>2. CASE j \in 1..l
      <4>1. i \in 1..l /\ t[i] = s[i] /\ t[j] = s[j]  BY <2>7, <2>8, <2>9, <3>1, <3>2
      <4>2. FlatPair(ss, k, s[i], s[j])  BY <2>6, <2>8, <3>1, <3>2, <4>1 DEF FlatOrder
      <4>3. FlatPair(ss, k + 1, s[i], s[j])
        <5>1. PICK b \in 1..k, c \in 1..k : \E u \in DOMAIN ss[b] : \E v \in DOMAIN ss[c] :
                s[i] = ss[b][u] /\ s[j] = ss[c][v] /\ (b < c \/ (b = c /\ u < v))
          BY <4>2 DEF FlatPair
        <5>2. b \in 1..(k + 1) /\ c \in 1..(k + 1)  BY <2>12
        <5> QED BY <5>1, <5>2 DEF FlatPair
      <4> QED BY <4>1, <4>3
    <3>3. CASE j - l \in 1..m /\ t[j] = r[j - l]
      <4>1. j - l \in DOMAIN ss[k + 1] /\ t[j] = ss[k + 1][j - l]  BY <2>4, <2>8, <3>3
      <4>2. CASE i \in 1..l
        <5>1. PICK b \in 1..k : \E u \in DOMAIN ss[b] : s[i] = ss[b][u]
          BY <2>6, <2>8, <4>2 DEF FlatIn
        <5>2. PICK u \in DOMAIN ss[b] : t[i] = ss[b][u]  BY <2>9, <4>2, <5>1
        <5> QED BY <2>12, <2>13, <4>1, <5>2 DEF FlatPair
      <4>3. CASE i - l \in 1..m /\ t[i] = r[i - l]
        <5>1. i - l \in DOMAIN ss[k + 1] /\ t[i] = ss[k + 1][i - l]  BY <2>4, <2>8, <4>3
        <5>2. i - l < j - l  BY <2>7, <2>8, <3>1
        <5> QED BY <2>13, <4>1, <5>1, <5>2 DEF FlatPair
      <4> QED BY <2>8, <2>11, <4>2, <4>3
    <3> QED BY <2>8, <2>11, <3>2, <3>3
  <2> QED BY <2>1, <2>3, <2>14, <2>15, <2>16
<1>5. n \in T
  <2> HIDE DEF T
  <2>1. \A i \in 0..n : i \in T  BY <1>3, <1>4, NatInd
  <2> QED BY <2>1
<1>6. f[n] = FlattenSeq(ss) /\ f[n] \in Seq(R)  BY <1>1, <1>2 DEF FlatRun
<1> QED BY <1>1, <1>5, <1>6 DEF FlatFrom

-----------------------------------------------------------------------------
(* The store.                                                              *)

BlockType == [par : Nat, num : Nat, wds : Seq(Wds), txs : Seq(Txs), post : Nonces]

\* Nonces after block b of a store.
PostOf(bs, b) == IF b = 0 THEN ZeroNonces ELSE bs[b].post

\* A block executes on its parent, which is an older one.
BlockGood(bs, b) ==
    /\ bs[b].par \in 0..(b - 1)
    /\ Executes(PostOf(bs, bs[b].par), bs[b].wds \o bs[b].txs)
    /\ bs[b].post = After(PostOf(bs, bs[b].par), bs[b].wds \o bs[b].txs)

Store(bs) == bs \in Seq(BlockType) /\ \A b \in 1..Len(bs) : BlockGood(bs, b)

PathOf(n, par, f) == f[0] = <<>> /\ \A c \in 1..n : f[c] = Append(f[par[c]], c)

\* Paths to the blocks of a store.
LEMMA PathsExist ==
    ASSUME NEW n \in Nat, NEW par, \A c \in 1..n : par[c] \in 0..(c - 1)
    PROVE  \E f \in [0..n -> Seq(1..n)] : PathOf(n, par, f)
<1>1. PICK V : V = Seq(1..n)  OBVIOUS
<1>2. PICK e \in V : e = <<>>
  <2>1. <<>> \in Seq(1..n)  OBVIOUS
  <2> QED BY <1>1, <2>1, Zenon
<1>3. \A v \in V, c \in 1..n : Append(v, c) \in V  BY <1>1
<1> DEFINE T == {k \in 0..n : \E f \in [0..k -> V] : PathOf(k, par, f)}
<1>4. 0 \in T
  <2> DEFINE f == [i \in 0..0 |-> e]
  <2>1. f \in [0..0 -> V] /\ f[0] = e  OBVIOUS
  <2> HIDE DEF f
  <2>2. PathOf(0, par, f)  BY <1>2, <2>1 DEF PathOf
  <2> QED BY <2>1, <2>2
<1>5. ASSUME NEW k \in 0..n, k < n, k \in T PROVE k + 1 \in T
  <2>1. PICK f \in [0..k -> V] : PathOf(k, par, f)  BY <1>5
  <2>2. k + 1 \in 1..n /\ k + 1 \in 0..n /\ par[k + 1] \in 0..k  BY <1>5
  <2>3. PICK v \in V : v = Append(f[par[k + 1]], k + 1)  BY <1>3, <2>1, <2>2
  <2> DEFINE g == [i \in 0..(k + 1) |-> IF i = k + 1 THEN v ELSE f[i]]
  <2>4. \A i \in 0..(k + 1) : i # k + 1 => i \in 0..k  BY <1>5
  <2>5. g \in [0..(k + 1) -> V] /\ g[k + 1] = v /\ \A i \in 0..k : g[i] = f[i]  BY <1>5, <2>1, <2>4
  <2> HIDE DEF g
  <2>6. \A c \in 1..(k + 1) : g[c] = Append(g[par[c]], c)
    <3>1. SUFFICES ASSUME NEW c \in 1..(k + 1) PROVE g[c] = Append(g[par[c]], c)  OBVIOUS
    <3>2. CASE c = k + 1  BY <2>2, <2>3, <2>5, <3>2
    <3>3. CASE c # k + 1
      <4>1. c \in 1..k /\ c \in 0..k /\ c \in 1..n  BY <1>5, <3>3
      <4>2. par[c] \in 0..k  BY <1>5, <4>1
      <4> QED BY <2>1, <2>5, <4>1, <4>2 DEF PathOf
    <3> QED BY <3>2, <3>3
  <2>7. g[0] = <<>>  BY <1>5, <2>1, <2>5 DEF PathOf
  <2>8. PathOf(k + 1, par, g)  BY <2>6, <2>7 DEF PathOf
  <2> QED BY <2>2, <2>5, <2>8
<1>6. n \in T
  <2> HIDE DEF T
  <2>1. \A i \in 0..n : i \in T  BY <1>4, <1>5, NatInd
  <2> QED BY <2>1
<1> QED BY <1>1, <1>6


\* o is the path from genesis to block b.
ChainTo(bs, b, o) ==
    /\ o \in Seq(1..Len(bs))
    /\ \A p \in 1..Len(o) : bs[o[p]].par = IF p = 1 THEN 0 ELSE o[p - 1]
    /\ b = IF Len(o) = 0 THEN 0 ELSE o[Len(o)]

LEMMA BranchFacts ==
    ASSUME Store(blocks), NEW b \in 0..Len(blocks)
    PROVE  ChainTo(blocks, b, Branch(b))
<1>1. PICK n \in Nat : n = Len(blocks)  BY DEF Store
<1>2. \A c \in 1..n : blocks[c].par \in 0..(c - 1)  BY <1>1 DEF Store, BlockGood
<1>3. PICK par : par = [c \in 1..n |-> blocks[c].par]  OBVIOUS
<1>4. \A c \in 1..n : par[c] = blocks[c].par /\ par[c] \in 0..(c - 1)  BY <1>2, <1>3
<1>5. PICK f \in [0..n -> Seq(1..n)] : PathOf(n, par, f)  BY <1>4, PathsExist
<1> DEFINE Is(g) == g = [c \in 0..Len(blocks) |->
                            IF c = 0 THEN <<>> ELSE Append(g[blocks[c].par], c)]
<1>6. Is(f)
  <2>1. f = [c \in 0..n |-> f[c]]  BY <1>5
  <2>2. \A c \in 0..n : c # 0 => c \in 1..n  OBVIOUS
  <2>3. \A c \in 0..n : f[c] = IF c = 0 THEN <<>> ELSE Append(f[blocks[c].par], c)
    BY <1>4, <1>5, <2>2 DEF PathOf
  <2> QED BY <1>1, <2>1, <2>3
<1>7. PICK h : h = CHOOSE g : Is(g)  OBVIOUS
<1>8. Is(h)
  <2> HIDE DEF Is
  <2> QED BY <1>6, <1>7
<1>9. Branch(b) = h[b]  BY <1>7 DEF Branch
<1>10. h[0] = <<>> /\ \A c \in 1..n : h[c] = Append(h[par[c]], c)
  <2>1. PICK e : e = <<>>  OBVIOUS
  <2>2. h = [c \in 0..n |-> IF c = 0 THEN e ELSE Append(h[blocks[c].par], c)]  BY <1>1, <1>8, <2>1
  <2>3. \A c \in 0..n : h[c] = IF c = 0 THEN e ELSE Append(h[blocks[c].par], c)  BY <2>2
  <2>4. 0 \in 0..n /\ \A c \in 1..n : c \in 0..n /\ c # 0  OBVIOUS
  <2>5. h[0] = e  BY <2>3, <2>4
  <2>6. \A c \in 1..n : h[c] = Append(h[blocks[c].par], c)  BY <2>3, <2>4
  <2>7. \A c \in 1..n : h[par[c]] = h[blocks[c].par]  BY <1>4
  <2> QED BY <2>1, <2>5, <2>6, <2>7
<1> HIDE DEF Is
<1> DEFINE T == {k \in 0..n : \A c \in 0..k : ChainTo(blocks, c, h[c])}
<1>11. 0 \in T
  <2>1. PICK e \in Seq(1..n) : e = <<>>
    <3>1. <<>> \in Seq(1..n)  OBVIOUS
    <3> QED BY <3>1, Zenon
  <2>2. Len(e) = 0  BY <2>1
  <2>3. ChainTo(blocks, 0, e)  BY <1>1, <2>2 DEF ChainTo
  <2>4. \A c \in 0..0 : c = 0  OBVIOUS
  <2> QED BY <1>10, <2>1, <2>3, <2>4
<1>12. ASSUME NEW k \in 0..n, k < n, k \in T PROVE k + 1 \in T
  <2>1. k + 1 \in 1..n /\ k + 1 \in 0..n  BY <1>12
  <2>2. PICK q : q = par[k + 1]  OBVIOUS
  <2>3. q \in 0..k /\ blocks[k + 1].par = q
    <3>1. (k + 1) - 1 = k  BY <1>12
    <3>2. par[k + 1] \in 0..((k + 1) - 1) /\ par[k + 1] = blocks[k + 1].par  BY <1>4, <2>1
    <3> QED BY <2>2, <3>1, <3>2
  <2>4. PICK o : o = h[q]  OBVIOUS
  <2>5. ChainTo(blocks, q, o)  BY <1>12, <2>3, <2>4
  <2>6. o \in Seq(1..n)  BY <1>1, <2>5 DEF ChainTo
  <2>7. PICK l \in Nat : l = Len(o)  BY <2>6
  <2>8. PICK r \in Seq(1..n) : r = Append(o, k + 1)
    <3>1. Append(o, k + 1) \in Seq(1..n)  BY <2>1, <2>6
    <3> QED BY <3>1, Zenon
  <2>9. Len(r) = l + 1 /\ r[l + 1] = k + 1 /\ \A i \in 1..l : r[i] = o[i]  BY <2>6, <2>7, <2>8
  <2>10. \A p \in 1..l : blocks[o[p]].par = IF p = 1 THEN 0 ELSE o[p - 1]  BY <2>5, <2>7 DEF ChainTo
  <2>11. q = IF l = 0 THEN 0 ELSE o[l]  BY <2>5, <2>7 DEF ChainTo
  <2>12. ASSUME NEW p \in 1..(l + 1) PROVE blocks[r[p]].par = IF p = 1 THEN 0 ELSE r[p - 1]
    <3>1. CASE p = l + 1
      <4>1. p = 1 <=> l = 0  BY <2>7, <3>1
      <4>2. p - 1 = l /\ (l # 0 => l \in 1..l)  BY <2>7, <3>1
      <4> QED BY <2>3, <2>9, <2>11, <3>1, <4>1, <4>2
    <3>2. CASE p # l + 1
      <4>1. p \in 1..l  BY <3>2
      <4>2. p # 1 => p - 1 \in 1..l  BY <2>7, <4>1
      <4> QED BY <2>9, <2>10, <4>1, <4>2
    <3> QED BY <3>1, <3>2
  <2>13. l + 1 # 0 /\ Len(r) # 0  BY <2>7, <2>9
  <2>14. ChainTo(blocks, k + 1, r)  BY <1>1, <2>9, <2>12, <2>13 DEF ChainTo
  <2>15. h[k + 1] = r  BY <1>10, <2>1, <2>2, <2>4, <2>8
  <2>16. \A c \in 0..(k + 1) : c \in 0..k \/ c = k + 1  BY <1>12
  <2> QED BY <1>12, <2>1, <2>14, <2>15, <2>16
<1>13. n \in T
  <2> HIDE DEF T
  <2>1. \A i \in 0..n : i \in T  BY <1>11, <1>12, NatInd
  <2> QED BY <2>1
<1> QED BY <1>1, <1>9, <1>13

\* The requests of blocks of the store.
LEMMA OfTyped ==
    ASSUME Store(blocks), NEW s \in Seq(1..Len(blocks))
    PROVE  /\ [i \in DOMAIN s |-> blocks[s[i]].wds] \in Seq(Seq(Wds))
           /\ [i \in DOMAIN s |-> blocks[s[i]].txs] \in Seq(Seq(Txs))
           /\ WithdrawalsOf(s) \in Seq(Wds) /\ TransactionsOf(s) \in Seq(Txs)
<1>1. PICK n \in Nat : n = Len(blocks)  BY DEF Store
<1>2. PICK l \in Nat : l = Len(s) /\ DOMAIN s = 1..l  OBVIOUS
<1>3. \A i \in 1..l : s[i] \in 1..n  BY <1>1, <1>2
<1>4. \A c \in 1..n : blocks[c] \in BlockType  BY <1>1 DEF Store
<1>5. \A i \in 1..l : blocks[s[i]].wds \in Seq(Wds) /\ blocks[s[i]].txs \in Seq(Txs)
  BY <1>3, <1>4 DEF BlockType
<1>6. PICK W : W = [i \in DOMAIN s |-> blocks[s[i]].wds]  OBVIOUS
<1>7. PICK X : X = [i \in DOMAIN s |-> blocks[s[i]].txs]  OBVIOUS
<1>8. W \in Seq(Seq(Wds)) /\ X \in Seq(Seq(Txs))
  <2>1. W \in [1..l -> Seq(Wds)] /\ X \in [1..l -> Seq(Txs)]  BY <1>2, <1>5, <1>6, <1>7
  <2> QED BY <2>1, SeqDef
<1>9. FlattenSeq(W) \in Seq(Wds) /\ FlattenSeq(X) \in Seq(Txs)  BY <1>8, FlatFacts DEF FlatFrom
<1> QED BY <1>6, <1>7, <1>8, <1>9 DEF WithdrawalsOf, TransactionsOf


LEMMA PartTyped ==
    ASSUME NEW R, NEW o \in Seq(R), NEW k \in Nat, NEW m \in Nat, m <= Len(o)
    PROVE  SubSeq(o, k + 1, m) \in Seq(R)
<1>1. PICK l \in Nat : l = Len(o)  OBVIOUS
<1>2. \A i \in (k + 1)..m : o[i] \in R  BY <1>1
<1> QED BY <1>1, <1>2

LEMMA ForkTyped ==
    ASSUME NEW R, NEW old \in Seq(R), NEW new \in Seq(R)
    PROVE  /\ ForkNumber(old, new) \in Nat
           /\ \/ ForkNumber(old, new) = 0
              \/ /\ ForkNumber(old, new) \in 1..Len(old) /\ ForkNumber(old, new) \in 1..Len(new)
                 /\ old[ForkNumber(old, new)] = new[ForkNumber(old, new)]
<1>1. PICK l \in Nat : l = Len(old)  OBVIOUS
<1>2. PICK S : S = {0} \cup {n \in 1..Len(old) : n <= Len(new) /\ old[n] = new[n]}  OBVIOUS
<1>3. S \subseteq Nat /\ S # {} /\ \A x \in S : x <= l  BY <1>1, <1>2
<1>4. \E x \in S : \A y \in S : y <= x  BY <1>3, GreatestNat
<1>5. PICK k : k = ForkNumber(old, new)  OBVIOUS
<1>6. k = CHOOSE x \in S : \A y \in S : x >= y  BY <1>2, <1>5 DEF ForkNumber, Max
<1>7. \E x \in S : \A y \in S : x >= y  BY <1>3, <1>4
<1>8. k \in S  BY <1>6, <1>7
<1>9. k \in Nat /\ (k = 0 \/ (k \in 1..Len(old) /\ k <= Len(new) /\ old[k] = new[k]))
  BY <1>2, <1>3, <1>8
<1>10. Len(new) \in Nat  OBVIOUS
<1> QED BY <1>5, <1>9, <1>10

LEMMA ReinjectTyped ==
    ASSUME Store(blocks), NEW old \in 0..Len(blocks), NEW new \in 0..Len(blocks)
    PROVE  /\ ReinjectTxs(old, new) \in Seq(Txs)
           /\ ReinjectWithdrawals(old, new) \in Seq(Wds)
<1>1. PICK n \in Nat : n = Len(blocks)  BY DEF Store
<1>2. PICK o \in Seq(1..n) : o = Branch(old)
  <2>1. Branch(old) \in Seq(1..n)  BY <1>1, BranchFacts DEF ChainTo
  <2> QED BY <2>1, Zenon
<1>3. PICK r \in Seq(1..n) : r = Branch(new)
  <2>1. Branch(new) \in Seq(1..n)  BY <1>1, BranchFacts DEF ChainTo
  <2> QED BY <2>1, Zenon
<1>4. PICK k \in Nat : k = ForkNumber(o, r)
  <2>1. ForkNumber(o, r) \in Nat  BY ForkTyped
  <2> QED BY <2>1, Zenon
<1>5. PICK l \in Nat : l = Len(o)  OBVIOUS
<1>6. PICK s \in Seq(1..n) : s = SubSeq(o, k + 1, l)
  <2>1. SubSeq(o, k + 1, l) \in Seq(1..n)  BY <1>5, PartTyped
  <2> QED BY <2>1, Zenon
<1>7. TransactionsOf(s) \in Seq(Txs) /\ WithdrawalsOf(s) \in Seq(Wds)  BY <1>1, OfTyped
<1>8. \E S : ReinjectTxs(old, new) = Retain(TransactionsOf(s), S)
  BY <1>2, <1>3, <1>4, <1>5, <1>6, Zenon DEF ReinjectTxs
<1>9. \E S : ReinjectWithdrawals(old, new) = Retain(WithdrawalsOf(s), S)
  BY <1>2, <1>3, <1>4, <1>5, <1>6, Zenon DEF ReinjectWithdrawals
<1> QED BY <1>7, <1>8, <1>9, RetainTyped

LEMMA PackageTyped ==
    ASSUME NEW p \in PoolType, NEW nonces, NEW ws \in Seq(Wds), NEW order \in SetToSeqs(Accounts)
    PROVE  PackageMore(p, nonces, ws, order) \in Seq(Wds)
<1>1. PICK c \in Nat : c = Cardinality(Accounts)  BY MemPoolAssumption, FS_CardinalityType
<1>2. order \in [1..c -> Accounts]  BY <1>1 DEF SetToSeqs
<1>3. order \in Seq(Accounts)  BY <1>2, SeqDef
<1>4. PICK S : S = {a \in Accounts : p.pendWds[a] # <<>>}  OBVIOUS
<1>5. PICK accts \in Seq(S) : accts = Retain(order, S)
  <2>1. Retain(order, S) \in Seq(S)  BY <1>3, RetainTyped
  <2> QED BY <2>1, Zenon
<1>6. PICK mine \in Seq(Wds) : mine = CanExecute(nonces, ws)
  <2>1. CanExecute(nonces, ws) \in Seq(Wds)  BY CanExecuteTyped
  <2> QED BY <2>1, Zenon
<1>7. PICK l \in Nat : l = Len(accts) /\ DOMAIN accts = 1..l  OBVIOUS
<1>8. PICK more : more = [i \in DOMAIN accts |-> Head(p.pendWds[accts[i]])]  OBVIOUS
<1>9. more \in Seq(Wds) /\ Len(more) = l
  <2>1. ASSUME NEW i \in 1..l PROVE Head(p.pendWds[accts[i]]) \in Wds
    <3>1. PICK a \in S : a = accts[i]  BY <1>7
    <3>2. a \in Accounts /\ p.pendWds[a] # <<>>  BY <1>4, <3>1
    <3>3. p.pendWds[a] \in Seq(Wds)  BY <3>2 DEF PoolType
    <3>4. Head(p.pendWds[a]) \in Wds  BY <3>2, <3>3, HeadTailProperties
    <3> QED BY <3>1, <3>4
  <2>2. more \in [1..l -> Wds]  BY <1>7, <1>8, <2>1
  <2>3. more \in Seq(Wds)  BY <2>2, SeqDef
  <2>4. DOMAIN more = 1..l  BY <2>2
  <2> QED BY <2>3, <2>4, LenProperties
<1>10. PackageMore(p, nonces, ws, order) =
         IF Len(mine) >= MaxWithdrawals THEN mine
         ELSE mine \o SubSeq(more, 1, Min({Len(more), MaxWithdrawals - Len(mine)}))
  BY <1>4, <1>5, <1>6, <1>8, Zenon DEF PackageMore
<1>11. CASE Len(mine) >= MaxWithdrawals  BY <1>10, <1>11
<1>12. CASE ~(Len(mine) >= MaxWithdrawals)
  <2>1. PICK d \in Nat : d = MaxWithdrawals - Len(mine)
    BY <1>6, <1>12, MemPoolAssumption, LenProperties
  <2>2. PICK m : m = Min({l, d})  OBVIOUS
  <2>3. m \in Nat /\ m <= l
    <3>1. m = CHOOSE x \in {l, d} : \A y \in {l, d} : x <= y  BY <2>2 DEF Min
    <3>2. \E x \in {l, d} : \A y \in {l, d} : x <= y  BY <1>7, <2>1
    <3>3. m \in {l, d} /\ \A y \in {l, d} : m <= y  BY <3>1, <3>2
    <3> QED BY <1>7, <2>1, <3>3
  <2>4. SubSeq(more, 1, m) \in Seq(Wds)  BY <1>7, <1>9, <2>3
  <2>5. mine \o SubSeq(more, 1, m) \in Seq(Wds)  BY <2>4
  <2>6. PackageMore(p, nonces, ws, order) = mine \o SubSeq(more, 1, m)
    BY <1>9, <1>10, <1>12, <2>1, <2>2
  <2> QED BY <2>5, <2>6, Zenon
<1> QED BY <1>11, <1>12

-----------------------------------------------------------------------------
(* The invariant.                                                          *)

LEMMA PostTyped ==
    ASSUME NEW bs, Store(bs), NEW b \in 0..Len(bs)
    PROVE  PostOf(bs, b) \in Nonces
<1>1. CASE b = 0  BY <1>1 DEF PostOf, ZeroNonces, Nonces
<1>2. CASE b # 0
  <2>1. b \in 1..Len(bs)  BY <1>2 DEF Store
  <2>2. bs[b] \in BlockType  BY <2>1 DEF Store
  <2> QED BY <1>2, <2>2 DEF PostOf, BlockType
<1> QED BY <1>1, <1>2

LEMMA PostSame ==
    ASSUME NEW b
    PROVE  Post(b) = PostOf(blocks, b)
BY DEF Post, PostOf

\* A new block that executes on one of the store.
LEMMA StoreAppend ==
    ASSUME NEW bs, Store(bs), NEW t \in 0..Len(bs), NEW x \in BlockType, x.par = t,
           Executes(PostOf(bs, t), x.wds \o x.txs),
           x.post = After(PostOf(bs, t), x.wds \o x.txs)
    PROVE  /\ Store(Append(bs, x))
           /\ Len(Append(bs, x)) = Len(bs) + 1
           /\ \A b \in 0..Len(bs) : PostOf(Append(bs, x), b) = PostOf(bs, b)
<1>1. PICK n \in Nat : n = Len(bs)  BY DEF Store
<1>2. bs \in Seq(BlockType)  BY DEF Store
<1>3. PICK cs \in Seq(BlockType) : cs = Append(bs, x)
  <2>1. Append(bs, x) \in Seq(BlockType)  BY <1>2
  <2> QED BY <2>1, Zenon
<1>4. Len(cs) = n + 1 /\ cs[n + 1] = x /\ \A b \in 1..n : cs[b] = bs[b]  BY <1>1, <1>2, <1>3
<1>5. \A b \in 0..n : PostOf(cs, b) = PostOf(bs, b)
  <2>1. \A b \in 0..n : b = 0 \/ b \in 1..n  OBVIOUS
  <2> QED BY <1>4, <2>1 DEF PostOf
<1>6. ASSUME NEW b \in 1..(n + 1) PROVE BlockGood(cs, b)
  <2>1. CASE b = n + 1
    <3>1. t \in 0..((n + 1) - 1) /\ t \in 0..n  BY <1>1
    <3>2. PostOf(cs, t) = PostOf(bs, t)  BY <1>5, <3>1
    <3> QED BY <1>4, <2>1, <3>1, <3>2 DEF BlockGood
  <2>2. CASE b # n + 1
    <3>1. b \in 1..n  BY <2>2
    <3>2. BlockGood(bs, b) /\ cs[b] = bs[b]  BY <1>1, <1>4, <3>1 DEF Store
    <3>3. bs[b].par \in 0..n  BY <3>1, <3>2 DEF BlockGood
    <3>4. PostOf(cs, bs[b].par) = PostOf(bs, bs[b].par)  BY <1>5, <3>3
    <3> QED BY <3>2, <3>4 DEF BlockGood
  <2> QED BY <2>1, <2>2
<1> QED BY <1>1, <1>3, <1>4, <1>5, <1>6 DEF Store

\* What a new block leaves alone.
Extends(bs, cs) ==
    /\ Store(cs) /\ Len(cs) >= Len(bs)
    /\ \A b \in 0..Len(bs) : PostOf(cs, b) = PostOf(bs, b)

LEMMA NewBlockGood ==
    ASSUME Store(blocks), tip \in 0..Len(blocks), NEW ws \in Seq(Wds), NEW ts \in Seq(Txs),
           Executes(Post(tip), ws \o ts), NewBlock(ws, ts)
    PROVE  Extends(blocks, blocks') /\ tip' \in 0..Len(blocks')
<1>1. PICK n \in Nat : n = Len(blocks)  BY DEF Store
<1>2. PICK x : x = [par |-> tip, num |-> Number(tip) + 1, wds |-> ws, txs |-> ts,
                    post |-> After(Post(tip), ws \o ts)]  OBVIOUS
<1>3. blocks' = Append(blocks, x) /\ tip' = n + 1  BY <1>1, <1>2 DEF NewBlock
<1>4. Number(tip) \in Nat
  <2>1. CASE tip = 0  BY <2>1 DEF Number
  <2>2. CASE tip # 0
    <3>1. tip \in 1..Len(blocks)  BY <1>1, <2>2
    <3>2. blocks[tip] \in BlockType  BY <3>1 DEF Store
    <3> QED BY <2>2, <3>2 DEF Number, BlockType
  <2> QED BY <2>1, <2>2
<1>5. PICK nn \in Nonces : nn = Post(tip)
  <2>1. Post(tip) \in Nonces  BY PostTyped, PostSame
  <2> QED BY <2>1, Zenon
<1>6. ws \o ts \in Seq(Requests)
  <2>1. ws \in Seq(Requests) /\ ts \in Seq(Requests)  BY RequestFacts, WidenSeq
  <2> QED BY <2>1
<1>7. After(nn, ws \o ts) \in Nonces  BY <1>6, AfterTyped
<1>8. x \in BlockType
  <2>1. tip \in Nat  BY <1>1
  <2> QED BY <1>2, <1>4, <1>5, <1>7, <2>1 DEF BlockType
<1>9. x.par = tip /\ x.wds = ws /\ x.txs = ts /\ x.post = After(Post(tip), ws \o ts)  BY <1>2
<1>10. Post(tip) = PostOf(blocks, tip)  BY PostSame
<1>11. /\ Store(Append(blocks, x)) /\ Len(Append(blocks, x)) = Len(blocks) + 1
       /\ \A b \in 0..Len(blocks) : PostOf(Append(blocks, x), b) = PostOf(blocks, b)
  BY <1>8, <1>9, <1>10, StoreAppend
<1>12. Len(blocks') >= Len(blocks) /\ tip' \in 0..Len(blocks')  BY <1>1, <1>3, <1>11
<1> QED BY <1>3, <1>11, <1>12 DEF Extends

LEMMA ResetGood ==
    ASSUME Store(blocks), tip \in 0..Len(blocks), NEW p \in PoolType, PendKept(p),
           NEW wds \in Seq(Wds), NEW txs \in Seq(Txs), NEW recovery,
           ResetTo(p, wds, txs, recovery)
    PROVE  memTip' = tip /\ GoodPool(PostOf(blocks, tip), pool')
<1>1. PICK nonces \in Nonces : nonces = Post(tip) /\ nonces = PostOf(blocks, tip)
  <2>1. PostOf(blocks, tip) \in Nonces  BY PostTyped
  <2> QED BY <2>1, PostSame
<1>2a. PICK failing \in Failures, order \in SetToSeqs(Accounts) : \E poor :
        /\ memTip' = tip
        /\ pool' = PrepareNextMemBlock(Emptied(p, nonces, poor),
                       IF recovery THEN Stored(p.wds, p.dbWds)
                       ELSE PackageMore(Emptied(p, nonces, poor), nonces, wds, order),
                       NextTxs(p, txs), failing)
  BY <1>1, Zenon DEF ResetTo, Emptied
<1>2. PICK poor :
        /\ memTip' = tip
        /\ pool' = PrepareNextMemBlock(Emptied(p, nonces, poor),
                       IF recovery THEN Stored(p.wds, p.dbWds)
                       ELSE PackageMore(Emptied(p, nonces, poor), nonces, wds, order),
                       NextTxs(p, txs), failing)
  BY <1>2a, Zenon
<1>3. PICK q : q = Emptied(p, nonces, poor)  OBVIOUS
<1>4. GoodPool(nonces, q) /\ q.txs = <<>>  BY <1>3, EmptiedGood
<1>5. q \in PoolType  BY <1>4 DEF GoodPool
<1>6. PICK ts \in Seq(Txs) : ts = NextTxs(p, txs)
  <2>1. p.txs \in Seq(Txs)  BY DEF PoolType
  <2>2. Stored(p.txs, p.dbTxs) \in Seq(Txs)  BY <2>1, StoredTyped
  <2>3. txs \o Stored(p.txs, p.dbTxs) \in Seq(Txs)  BY <2>2
  <2> QED BY <2>3, Zenon DEF NextTxs
<1>7. PICK ws \in Seq(Wds) : ws = IF recovery THEN Stored(p.wds, p.dbWds)
                                  ELSE PackageMore(q, nonces, wds, order)
  <2>1. p.wds \in Seq(Wds)  BY DEF PoolType
  <2>2. Stored(p.wds, p.dbWds) \in Seq(Wds)  BY <2>1, StoredTyped
  <2>3. PackageMore(q, nonces, wds, order) \in Seq(Wds)  BY <1>2, <1>5, PackageTyped
  <2> QED BY <2>2, <2>3, Zenon
<1>8. GoodPool(nonces, PrepareNextMemBlock(q, ws, ts, failing))  BY <1>4, PrepareGood
<1> QED BY <1>1, <1>2, <1>3, <1>6, <1>7, <1>8

\* What a verified withdrawal changes.
Queued(p, w) ==
    [nonce |-> p.nonce, wds |-> p.wds, txs |-> p.txs,
     pendWds |-> [p.pendWds EXCEPT ![w.acct] = Append(p.pendWds[w.acct], w)],
     pendTxs |-> p.pendTxs, dbWds |-> p.dbWds \cup {w}, dbTxs |-> p.dbTxs]

LEMMA QueuedFacts ==
    ASSUME NEW p \in PoolType, NEW w \in Wds, NEW r,
           r = [p EXCEPT !.pendWds[w.acct] = Append(@, w), !.dbWds = @ \cup {w}]
    PROVE  r = Queued(p, w)
BY DEF Queued, PoolType

LEMMA PushWithdrawalGood ==
    ASSUME NEW base \in Nonces, NEW p, GoodPool(base, p), NEW w \in Wds, NEW failing
    PROVE  GoodPool(base, PushWithdrawalRequest(p, w, failing))
<1>1. p \in PoolType  BY DEF GoodPool
<1>2. w.acct \in Accounts  BY RequestFacts
<1>3. PICK W \in [Accounts -> Seq(Wds)] : W = p.pendWds  BY <1>1 DEF PoolType
<1>4. PICK V \in [Accounts -> Seq(Wds)] : V = [W EXCEPT ![w.acct] = Append(W[w.acct], w)]
  <2>1. Append(W[w.acct], w) \in Seq(Wds)  BY <1>2
  <2>2. [W EXCEPT ![w.acct] = Append(W[w.acct], w)] \in [Accounts -> Seq(Wds)]  BY <2>1
  <2> QED BY <2>2, Zenon
<1>5. PICK q : q = [nonce |-> p.nonce, wds |-> p.wds, txs |-> p.txs, pendWds |-> V,
                    pendTxs |-> p.pendTxs, dbWds |-> p.dbWds \cup {w}, dbTxs |-> p.dbTxs]  OBVIOUS
<1>6. PushWithdrawalRequest(p, w, failing) \in {p, q}
  <2>1. [p EXCEPT !.pendWds[w.acct] = Append(@, w), !.dbWds = @ \cup {w}] = q
    BY <1>3, <1>4, <1>5, <1>1, QueuedFacts, Zenon DEF Queued
  <2> QED BY <2>1 DEF PushWithdrawalRequest
<1>7. q \in PoolType  BY <1>1, <1>4, <1>5 DEF PoolType
<1>8. Replays(base, q) /\ TxsKept(q)
  <2>1. q.wds = p.wds /\ q.txs = p.txs /\ q.nonce = p.nonce /\ q.dbTxs = p.dbTxs  BY <1>5
  <2> QED BY <2>1 DEF GoodPool, Replays, TxsKept
<1>9. q.pendWds = V /\ q.dbWds = p.dbWds \cup {w} /\ q.wds = p.wds  BY <1>5
<1>10. ASSUME NEW a \in Accounts, NEW i \in DOMAIN V[a]
       PROVE  /\ V[a][i].acct = a
              /\ V[a][i] \in q.dbWds \/ \E h \in 1..(i - 1) : V[a][h].nonce > V[a][i].nonce
  <2>1. PICK s \in Seq(Wds), l \in Nat : s = W[a] /\ l = Len(s)  BY <1>3
  <2>2. \A k \in 1..l : /\ s[k].acct = a
                        /\ s[k] \in p.dbWds \/ \E h \in 1..(k - 1) : s[h].nonce > s[k].nonce
    BY <1>3, <2>1 DEF GoodPool, PendKept
  <2>3. CASE a # w.acct
    <3>1. V[a] = s  BY <1>4, <2>1, <2>3
    <3>2. i \in 1..l  BY <1>10, <2>1, <3>1
    <3> QED BY <1>9, <2>2, <3>1, <3>2
  <2>4. CASE a = w.acct
    <3>1. PICK v \in Seq(Wds) : v = Append(s, w)
      <4>1. Append(s, w) \in Seq(Wds)  OBVIOUS
      <4> QED BY <4>1, Zenon
    <3>2. V[a] = v  BY <1>2, <1>4, <2>1, <2>4, <3>1
    <3>3. Len(v) = l + 1 /\ v[l + 1] = w /\ \A k \in 1..l : v[k] = s[k]  BY <2>1, <3>1
    <3>4. i \in 1..(l + 1)  BY <1>10, <3>2, <3>3
    <3>5. CASE i = l + 1  BY <1>9, <2>4, <3>2, <3>3, <3>5
    <3>6. CASE i # l + 1
      <4>1. i \in 1..l /\ \A h \in 1..(i - 1) : h \in 1..l  BY <2>1, <3>4, <3>6
      <4> QED BY <1>9, <2>2, <3>2, <3>3, <4>1
    <3> QED BY <3>5, <3>6
  <2> QED BY <2>3, <2>4
<1>11. PendKept(q)  BY <1>9, <1>10 DEF PendKept
<1>12. WdsKept(q)
  <2>1. SUFFICES ASSUME NEW i \in DOMAIN q.wds, Sorted(q.pendWds[q.wds[i].acct])
                 PROVE  q.wds[i] \in q.dbWds
    BY DEF WdsKept
  <2>2. PICK a \in Accounts : a = q.wds[i].acct
    <3>1. q.wds[i] \in Wds  BY <1>7, <2>1 DEF PoolType
    <3> QED BY <3>1, RequestFacts
  <2>3. Sorted(V[a])  BY <1>9, <2>1, <2>2
  <2>4. Sorted(W[a])
    <3>1. CASE a # w.acct  BY <1>4, <2>3, <3>1
    <3>2. CASE a = w.acct
      <4>1. V[a] = Append(W[a], w)  BY <1>2, <1>4, <3>2
      <4> QED BY <1>3, <2>3, <4>1, SortedAppend
    <3> QED BY <3>1, <3>2
  <2>5. p.wds[i] \in p.dbWds  BY <1>3, <1>9, <2>1, <2>2, <2>4 DEF GoodPool, WdsKept
  <2> QED BY <1>9, <2>5
<1>13. GoodPool(base, q)  BY <1>7, <1>8, <1>11, <1>12 DEF GoodPool
<1> QED BY <1>6, <1>13

\* The list of a set with at most one member.
LEMMA OneToSeq ==
    ASSUME NEW S, \A x, y \in S : x = y
    PROVE  SetToSeq(S) \in Seq(S)
<1> DEFINE Inj(f) == \A a, b \in DOMAIN f : f[a] = f[b] => a = b
<1>1. PICK c \in Nat : c = Cardinality(S) /\ \E f \in [1..c -> S] : Inj(f)
  <2>1. CASE S = {}
    <3>1. Cardinality(S) = 0  BY <2>1, FS_EmptySet
    <3>2. 1..0 = {}  OBVIOUS
    <3>3. PICK f : f = [i \in 1..0 |-> 0]  OBVIOUS
    <3>4. f \in [1..0 -> S] /\ Inj(f)  BY <2>1, <3>2, <3>3
    <3> HIDE DEF Inj
    <3>5. \E g \in [1..0 -> S] : Inj(g)  BY <3>4, Zenon
    <3>6. 0 \in Nat  OBVIOUS
    <3> QED BY <3>1, <3>5, <3>6, Zenon
  <2>2. CASE S # {}
    <3>1. PICK x \in S : S = {x}  BY <2>2
    <3>2. Cardinality(S) = 1  BY <3>1, FS_Singleton
    <3>3. PICK f : f = [i \in 1..1 |-> x]  OBVIOUS
    <3>4. f \in [1..1 -> S] /\ Inj(f)  BY <3>1, <3>3
    <3> HIDE DEF Inj
    <3> QED BY <3>2, <3>4
  <2> QED BY <2>1, <2>2
<1>2. SetToSeq(S) = CHOOSE f \in [1..c -> S] : Inj(f)  BY <1>1 DEF SetToSeq, IsInjective
<1> HIDE DEF Inj
<1>3. SetToSeq(S) \in [1..c -> S]  BY <1>1, <1>2
<1> QED BY <1>3, SeqDef

\* The pool that MemPool::create resets.
Reopened(p, f, nonces, valid) ==
    [nonce |-> nonces, wds |-> f.wds, txs |-> <<>>,
     pendWds |-> [a \in Accounts |-> SetToSeq({w \in valid : w.acct = a})], pendTxs |-> NoneOf,
     dbWds |-> p.dbWds \ ((p.dbWds \ Range(f.wds)) \ valid), dbTxs |-> p.dbTxs \cap Range(f.txs)]

ValidOf(p, f, nonces, failing) ==
    {w \in p.dbWds \ Range(f.wds) : w.nonce = nonces[w.acct] /\ w \notin failing}

FileType == [wds : Seq(Wds), txs : Seq(Txs)]

LEMMA ReopenedGood ==
    ASSUME NEW p \in PoolType, NEW f \in FileType, NEW nonces \in Nonces, NEW failing
    PROVE  LET q == Reopened(p, f, nonces, ValidOf(p, f, nonces, failing))
           IN  q \in PoolType /\ PendKept(q)
<1>1. PICK valid : valid = ValidOf(p, f, nonces, failing)  OBVIOUS
<1>2. valid \subseteq Wds /\ valid \subseteq p.dbWds /\ \A w \in valid : w.nonce = nonces[w.acct]
  BY <1>1 DEF ValidOf, PoolType
<1>3. ASSUME NEW a \in Accounts
      PROVE  SetToSeq({w \in valid : w.acct = a}) \in Seq({w \in valid : w.acct = a})
  <2>1. PICK S : S = {w \in valid : w.acct = a}  OBVIOUS
  <2>2. ASSUME NEW x \in S, NEW y \in S PROVE x = y
    <3>1. x \in Wds /\ y \in Wds /\ x.acct = y.acct /\ x.nonce = y.nonce  BY <1>2, <2>1
    <3>2. x \in Requests /\ y \in Requests /\ x.kind = y.kind  BY <3>1 DEF Wds
    <3> QED BY <3>1, <3>2 DEF Requests
  <2> QED BY <2>1, <2>2, OneToSeq
<1>4. PICK W : W = [a \in Accounts |-> SetToSeq({w \in valid : w.acct = a})]  OBVIOUS
<1>5. \A a \in Accounts : W[a] \in Seq({w \in valid : w.acct = a})  BY <1>3, <1>4
<1>6. W \in [Accounts -> Seq(Wds)]
  <2>1. \A a \in Accounts : W[a] \in Seq(Wds)
    <3>1. SUFFICES ASSUME NEW a \in Accounts PROVE W[a] \in Seq(Wds)  OBVIOUS
    <3>2. {w \in valid : w.acct = a} \subseteq Wds  BY <1>2
    <3> QED BY <1>5, <3>2, WidenSeq
  <2> QED BY <1>4, <2>1
<1>7. PICK q : q = Reopened(p, f, nonces, valid)  OBVIOUS
<1>8. /\ q = [nonce |-> nonces, wds |-> f.wds, txs |-> <<>>, pendWds |-> W, pendTxs |-> NoneOf,
              dbWds |-> p.dbWds \ ((p.dbWds \ Range(f.wds)) \ valid), dbTxs |-> p.dbTxs \cap Range(f.txs)]
  BY <1>4, <1>7 DEF Reopened
<1>9. q \in PoolType
  <2>1. <<>> \in Seq(Txs)  OBVIOUS
  <2>2. NoneOf \in [Accounts -> Seq(Txs)]  BY <2>1 DEF NoneOf
  <2> QED BY <1>6, <1>8, <2>1, <2>2 DEF PoolType, Nonces, FileType
<1>10. q.pendWds = W /\ valid \subseteq q.dbWds  BY <1>2, <1>8
<1>11. PendKept(q)
  <2>1. SUFFICES ASSUME NEW a \in Accounts, NEW i \in DOMAIN W[a]
                 PROVE  W[a][i].acct = a /\ W[a][i] \in q.dbWds
    BY <1>10 DEF PendKept
  <2>2. W[a][i] \in {w \in valid : w.acct = a}
    <3>1. PICK S : S = {w \in valid : w.acct = a}  OBVIOUS
    <3>2. PICK s \in Seq(S) : s = W[a]  BY <1>5, <3>1
    <3> QED BY <2>1, <3>1, <3>2
  <2> QED BY <1>10, <2>2
<1> QED BY <1>1, <1>7, <1>9, <1>11

LEMMA ReopenedFacts ==
    ASSUME NEW p \in PoolType, NEW f, NEW nonces, NEW valid, NEW r,
           r = [Cleared(p, nonces) EXCEPT
                    !.wds = f.wds,
                    !.pendTxs = NoneOf,
                    !.pendWds = [a \in Accounts |-> SetToSeq({w \in valid : w.acct = a})],
                    !.dbWds = @ \ ((p.dbWds \ Range(f.wds)) \ valid),
                    !.dbTxs = @ \cap Range(f.txs)]
    PROVE  r = Reopened(p, f, nonces, valid)
<1>1. PICK c : c = Cleared(p, nonces)  OBVIOUS
<1>2. c = [nonce |-> nonces, wds |-> <<>>, txs |-> <<>>, pendWds |-> p.pendWds,
           pendTxs |-> p.pendTxs, dbWds |-> p.dbWds, dbTxs |-> p.dbTxs]
  BY <1>1 DEF Cleared, PoolType
<1>3. PICK W, X : W = [a \in Accounts |-> SetToSeq({w \in valid : w.acct = a})] /\ X = NoneOf  OBVIOUS
<1>4. PICK d, e : d = p.dbWds \ ((p.dbWds \ Range(f.wds)) \ valid) /\ e = p.dbTxs \cap Range(f.txs)
  OBVIOUS
<1>5. r = [c EXCEPT !.wds = f.wds, !.pendTxs = X, !.pendWds = W, !.dbWds = d, !.dbTxs = e]
  BY <1>1, <1>2, <1>3, <1>4
<1>6. r = [nonce |-> nonces, wds |-> f.wds, txs |-> <<>>, pendWds |-> W, pendTxs |-> X,
           dbWds |-> d, dbTxs |-> e]
  BY <1>2, <1>5
<1> QED BY <1>3, <1>4, <1>6 DEF Reopened

LEMMA StartFacts ==
    ASSUME pool \in PoolType, Start
    PROVE  \E failing \in Failures :
             ResetTo(Reopened(pool, file, Post(tip), ValidOf(pool, file, Post(tip), failing)),
                     <<>>, <<>>, TRUE)
<1>1a. PICK failing \in Failures : \E r :
        LET queued == pool.dbWds \ Range(file.wds)
            valid  == {w \in queued : Restorable(w, failing)}
        IN  /\ r = [Cleared(pool, Post(tip)) EXCEPT
                        !.wds = file.wds,
                        !.pendTxs = NoneOf,
                        !.pendWds = [a \in Accounts |-> SetToSeq({w \in valid : w.acct = a})],
                        !.dbWds = @ \ (queued \ valid),
                        !.dbTxs = @ \cap Range(file.txs)]
            /\ ResetTo(r, <<>>, <<>>, TRUE)
  BY Zenon DEF Start
<1>1. PICK r :
        LET queued == pool.dbWds \ Range(file.wds)
            valid  == {w \in queued : Restorable(w, failing)}
        IN  /\ r = [Cleared(pool, Post(tip)) EXCEPT
                        !.wds = file.wds,
                        !.pendTxs = NoneOf,
                        !.pendWds = [a \in Accounts |-> SetToSeq({w \in valid : w.acct = a})],
                        !.dbWds = @ \ (queued \ valid),
                        !.dbTxs = @ \cap Range(file.txs)]
            /\ ResetTo(r, <<>>, <<>>, TRUE)
  BY <1>1a, Zenon
<1>2. PICK valid : valid = ValidOf(pool, file, Post(tip), failing)  OBVIOUS
<1>3. {w \in pool.dbWds \ Range(file.wds) : Restorable(w, failing)} = valid
  BY <1>2, Zenon DEF Restorable, ValidOf
<1>4. r = [Cleared(pool, Post(tip)) EXCEPT
               !.wds = file.wds,
               !.pendTxs = NoneOf,
               !.pendWds = [a \in Accounts |-> SetToSeq({w \in valid : w.acct = a})],
               !.dbWds = @ \ ((pool.dbWds \ Range(file.wds)) \ valid),
               !.dbTxs = @ \cap Range(file.txs)]
  BY <1>1, <1>3, Zenon
<1>5. r = Reopened(pool, file, Post(tip), valid)  BY <1>4, ReopenedFacts
<1> QED BY <1>1, <1>2, <1>5, Zenon

\* The inductive invariant: blocks execute on their parents, and the pool, even of
\* a process that is down, replays on the block it was built on.
Inv ==
    /\ Store(blocks) /\ tip \in 0..Len(blocks) /\ memTip \in 0..Len(blocks)
    /\ GoodPool(PostOf(blocks, memTip), pool)
    /\ restored \in Seq(Txs) /\ file \in FileType

LEMMA InvInit == Init => Inv
<1>1. SUFFICES ASSUME Init PROVE Inv  OBVIOUS
<1>2. PICK e \in Seq(BlockType) : e = <<>>
  <2>1. <<>> \in Seq(BlockType)  OBVIOUS
  <2> QED BY <2>1, Zenon
<1>3. Len(e) = 0  BY <1>2
<1>4. blocks = e  BY <1>1, <1>2 DEF Init
<1>5. Store(blocks) /\ tip \in 0..Len(blocks) /\ memTip \in 0..Len(blocks)
  BY <1>1, <1>3, <1>4 DEF Init, Store
<1>6. PICK u \in Seq(Wds), v \in Seq(Txs) : u = <<>> /\ v = <<>>
  <2>1. <<>> \in Seq(Wds) /\ <<>> \in Seq(Txs)  OBVIOUS
  <2> QED BY <2>1, Zenon
<1>7. Len(u) = 0 /\ Len(v) = 0  BY <1>6
<1>8. ZeroNonces \in Nonces  BY DEF ZeroNonces, Nonces
<1>9. pool = [nonce |-> ZeroNonces, wds |-> u, txs |-> v, pendWds |-> NoneOf,
              pendTxs |-> NoneOf, dbWds |-> {}, dbTxs |-> {}]
  BY <1>1, <1>6 DEF Init
<1>10. pool \in PoolType
  <2>1. NoneOf \in [Accounts -> Seq(Txs)] /\ NoneOf \in [Accounts -> Seq(Wds)]  BY <1>6 DEF NoneOf
  <2> QED BY <1>8, <1>9, <2>1 DEF PoolType, Nonces
<1>11. PostOf(blocks, memTip) = ZeroNonces  BY <1>1 DEF Init, PostOf
<1>12. Replays(ZeroNonces, pool)
  <2>1. pool.wds \o pool.txs = <<>>  BY <1>6, <1>9
  <2>2. pool.nonce = ZeroNonces  BY <1>9
  <2> QED BY <1>8, <2>1, <2>2, ExecEmpty DEF Replays
<1>13. TxsKept(pool) /\ WdsKept(pool)
  <2>1. pool.wds = <<>> /\ pool.txs = <<>>  BY <1>6, <1>9
  <2> QED BY <2>1 DEF TxsKept, WdsKept
<1>14. PendKept(pool)
  <2>1. \A a \in Accounts : pool.pendWds[a] = u  BY <1>6, <1>9 DEF NoneOf
  <2> QED BY <1>7, <2>1 DEF PendKept
<1>15. restored \in Seq(Txs) /\ file \in FileType
  BY <1>1, <1>6 DEF Init, NoFile, FileType
<1> QED BY <1>5, <1>10, <1>11, <1>12, <1>13, <1>14, <1>15 DEF Inv, GoodPool

\* A block of the first requests of a mem block executes where the mem block does.
LEMMA PartExecutes ==
    ASSUME NEW base \in Nonces, NEW ws \in Seq(Wds), NEW ts \in Seq(Txs), Executes(base, ws \o ts),
           NEW w \in 0..Len(ws), NEW t \in 0..Len(ts), t > 0 => w = Len(ws)
    PROVE  /\ SubSeq(ws, 1, w) \in Seq(Wds) /\ SubSeq(ts, 1, t) \in Seq(Txs)
           /\ Executes(base, SubSeq(ws, 1, w) \o SubSeq(ts, 1, t))
<1>1. PICK k \in Nat, m \in Nat : k = Len(ws) /\ m = Len(ts)  OBVIOUS
<1>2. w \in Nat /\ t \in Nat /\ w <= k /\ t <= m  BY <1>1
<1>3. PICK u \in Seq(Wds) : u = SubSeq(ws, 1, w)
  <2>1. SubSeq(ws, 1, w) \in Seq(Wds)  BY <1>1, <1>2
  <2> QED BY <2>1, Zenon
<1>4. PICK v \in Seq(Txs) : v = SubSeq(ts, 1, t)
  <2>1. SubSeq(ts, 1, t) \in Seq(Txs)  BY <1>1, <1>2
  <2> QED BY <2>1, Zenon
<1>5. Len(u) = w /\ \A i \in 1..w : u[i] = ws[i]  BY <1>1, <1>2, <1>3
<1>6. Len(v) = t /\ \A i \in 1..t : v[i] = ts[i]  BY <1>1, <1>2, <1>4
<1>7. ws \in Seq(Requests) /\ ts \in Seq(Requests) /\ u \in Seq(Requests) /\ v \in Seq(Requests)
  BY RequestFacts, WidenSeq
<1>8. PICK rs \in Seq(Requests) : rs = ws \o ts
  <2>1. ws \o ts \in Seq(Requests)  BY <1>7
  <2> QED BY <2>1, Zenon
<1>9. PICK qs \in Seq(Requests) : qs = u \o v
  <2>1. u \o v \in Seq(Requests)  BY <1>7
  <2> QED BY <2>1, Zenon
<1>10. Len(rs) = k + m /\ (\A i \in 1..k : rs[i] = ws[i]) /\ \A i \in 1..m : rs[k + i] = ts[i]
  BY <1>1, <1>8
<1>11. Len(qs) = w + t /\ (\A i \in 1..w : qs[i] = u[i]) /\ \A i \in 1..t : qs[w + i] = v[i]
  <2>1. Len(u) = w /\ Len(v) = t  BY <1>5, <1>6
  <2>2. Len(qs) = w + t /\ \A i \in 1..(w + t) : qs[i] = IF i <= w THEN u[i] ELSE v[i - w]
    <3>1. PICK x \in Seq(Requests), y \in Seq(Requests) : x = u /\ y = v  BY <1>7
    <3>2. Len(x \o y) = Len(x) + Len(y)
          /\ \A i \in 1..(Len(x) + Len(y)) : (x \o y)[i] = IF i <= Len(x) THEN x[i] ELSE y[i - Len(x)]
      BY ConcatProperties
    <3> QED BY <1>9, <2>1, <3>1, <3>2
  <2>3. \A i \in 1..w : i \in 1..(w + t) /\ i <= w  BY <1>2
  <2>4. \A i \in 1..t : w + i \in 1..(w + t) /\ ~(w + i <= w) /\ (w + i) - w = i  BY <1>2
  <2> QED BY <2>2, <2>3, <2>4
<1>12. ASSUME NEW i \in 1..(w + t) PROVE qs[i] = rs[i]
  <2>1. CASE i \in 1..w
    <3>1. i \in 1..k  BY <1>2, <2>1
    <3> QED BY <1>5, <1>10, <1>11, <2>1, <3>1
  <2>2. CASE i \notin 1..w
    <3>1. t > 0 /\ w = k  BY <1>1, <1>2, <2>2
    <3>2. PICK j : j = i - w  OBVIOUS
    <3>3. j \in 1..t /\ j \in 1..m /\ w + j = i /\ k + j = i  BY <1>2, <2>2, <3>1, <3>2
    <3> QED BY <1>6, <1>10, <1>11, <3>3, ZenonT(60)
  <2> QED BY <2>1, <2>2
<1>13. Len(qs) <= Len(rs)  BY <1>2, <1>10, <1>11
<1>14. Executes(base, qs)  BY <1>8, <1>11, <1>12, <1>13, ExecPrefix
<1> QED BY <1>3, <1>4, <1>9, <1>14

LEMMA BoundedTyped ==
    ASSUME NEW R, NEW k \in Nat, NEW rs \in BoundedSeq(R, k)
    PROVE  rs \in Seq(R)
<1>1. PICK m \in 0..k : rs \in [1..m -> R]  BY DEF BoundedSeq, SeqOf
<1> QED BY <1>1, SeqDef

LEMMA InvProduce ==
    ASSUME Inv, ProduceBlock
    PROVE  Extends(blocks, blocks') /\ tip' \in 0..Len(blocks')
<1>1. Store(blocks) /\ tip \in 0..Len(blocks) /\ memTip = tip /\ GoodPool(PostOf(blocks, tip), pool)
  BY DEF Inv, ProduceBlock
<1>2. PICK base \in Nonces : base = PostOf(blocks, tip)
  <2>1. PostOf(blocks, tip) \in Nonces  BY <1>1, PostTyped
  <2> QED BY <2>1, Zenon
<1>3. PICK w \in 0..Len(pool.wds), t \in 0..Len(pool.txs) :
        /\ t > 0 => w = Len(pool.wds)
        /\ NewBlock(SubSeq(pool.wds, 1, w), SubSeq(pool.txs, 1, t))
  BY DEF ProduceBlock
<1>4. PICK ws \in Seq(Wds), ts \in Seq(Txs) : ws = pool.wds /\ ts = pool.txs
  BY <1>1 DEF GoodPool, PoolType
<1>5. Executes(base, ws \o ts)  BY <1>1, <1>2, <1>4 DEF GoodPool, Replays
<1>6. w \in 0..Len(ws) /\ t \in 0..Len(ts) /\ (t > 0 => w = Len(ws))  BY <1>3, <1>4
<1>7. /\ SubSeq(ws, 1, w) \in Seq(Wds) /\ SubSeq(ts, 1, t) \in Seq(Txs)
      /\ Executes(base, SubSeq(ws, 1, w) \o SubSeq(ts, 1, t))
  BY <1>5, <1>6, PartExecutes
<1>8. PICK u \in Seq(Wds), v \in Seq(Txs) : u = SubSeq(ws, 1, w) /\ v = SubSeq(ts, 1, t)
  BY <1>7, Zenon
<1>9. NewBlock(u, v) /\ Executes(base, u \o v)  BY <1>3, <1>4, <1>7, <1>8, Zenon
<1>10. base = Post(tip)  BY <1>2, PostSame
<1>11. Executes(Post(tip), u \o v)  BY <1>9, <1>10
<1> QED BY <1>1, <1>9, <1>11, NewBlockGood

LEMMA InvForeign ==
    ASSUME Inv, NEW rs \in BoundedSeq(Requests, 2), NEW ws, NEW ts,
           ws = Retain(rs, Wds), ts = Retain(rs, Txs),
           rs = ws \o ts, Executes(Post(tip), rs), NewBlock(ws, ts)
    PROVE  Extends(blocks, blocks') /\ tip' \in 0..Len(blocks')
<1>1. rs \in Seq(Requests)  BY BoundedTyped
<1>2. ws \in Seq(Wds) /\ ts \in Seq(Txs)  BY <1>1, RetainTyped
<1>3. Executes(Post(tip), ws \o ts)  OBVIOUS
<1>4. Store(blocks) /\ tip \in 0..Len(blocks)  BY DEF Inv
<1> QED BY <1>2, <1>3, <1>4, NewBlockGood

\* A step that only moves the store.
LEMMA InvStore ==
    ASSUME Inv, Extends(blocks, blocks'), tip' \in 0..Len(blocks'),
           UNCHANGED <<memTip, pool, restored, file>>
    PROVE  Inv'
<1>1. Len(blocks) \in Nat /\ Len(blocks') \in Nat  BY DEF Inv, Extends, Store
<1>2. memTip \in 0..Len(blocks) /\ Len(blocks') >= Len(blocks)  BY DEF Inv, Extends
<1>3. memTip' \in 0..Len(blocks')  BY <1>1, <1>2
<1>4. PostOf(blocks', memTip') = PostOf(blocks, memTip)  BY <1>2 DEF Extends
<1>5. GoodPool(PostOf(blocks', memTip'), pool')  BY <1>4 DEF Inv
<1> QED BY <1>3, <1>5 DEF Inv, Extends

LEMMA InvReset ==
    ASSUME Inv, NEW p \in PoolType, PendKept(p), NEW wds \in Seq(Wds), NEW txs \in Seq(Txs), NEW recovery,
           ResetTo(p, wds, txs, recovery), UNCHANGED <<blocks, tip>>,
           restored' \in Seq(Txs), file' \in FileType
    PROVE  Inv'
<1>1. Store(blocks) /\ tip \in 0..Len(blocks)  BY DEF Inv
<1>2. memTip' = tip /\ GoodPool(PostOf(blocks, tip), pool')  BY <1>1, ResetGood
<1> QED BY <1>1, <1>2 DEF Inv

LEMMA InvNotify ==
    ASSUME Inv, NotifyNewTip
    PROVE  Inv'
<1>1. pool \in PoolType /\ PendKept(pool)  BY DEF Inv, GoodPool
<1>2. UNCHANGED <<blocks, tip, restored, file>> /\ restored' \in Seq(Txs) /\ file' \in FileType
  BY DEF Inv, NotifyNewTip
<1>3. PICK u \in Seq(Wds), v \in Seq(Txs) : u = <<>> /\ v = <<>>
  <2>1. <<>> \in Seq(Wds) /\ <<>> \in Seq(Txs)  OBVIOUS
  <2> QED BY <2>1, Zenon
<1>4. CASE ResetTo(pool, <<>>, <<>>, FALSE)
  <2>1. ResetTo(pool, u, v, FALSE)  BY <1>3, <1>4
  <2> QED BY <1>1, <1>2, <2>1, InvReset
<1>5. CASE ResetTo(pool, ReinjectWithdrawals(memTip, tip), ReinjectTxs(memTip, tip), FALSE)
  <2>1. Store(blocks) /\ memTip \in 0..Len(blocks) /\ tip \in 0..Len(blocks)  BY DEF Inv
  <2>2. ReinjectTxs(memTip, tip) \in Seq(Txs) /\ ReinjectWithdrawals(memTip, tip) \in Seq(Wds)
    BY <2>1, ReinjectTyped
  <2> QED BY <1>1, <1>2, <1>5, <2>2, InvReset
<1>6. CASE UNCHANGED <<memTip, pool>>
  BY <1>2, <1>6 DEF Inv
<1> QED BY <1>4, <1>5, <1>6 DEF NotifyNewTip

LEMMA InvStart ==
    ASSUME Inv, Start
    PROVE  Inv'
<1>1. pool \in PoolType  BY DEF Inv, GoodPool
<1>2. PICK nonces \in Nonces : nonces = Post(tip)
  <2>1. Post(tip) \in Nonces  BY PostSame, PostTyped DEF Inv
  <2> QED BY <2>1, Zenon
<1>3. PICK failing \in Failures :
        ResetTo(Reopened(pool, file, nonces, ValidOf(pool, file, nonces, failing)), <<>>, <<>>, TRUE)
  BY <1>1, <1>2, StartFacts
<1>4. PICK q : q = Reopened(pool, file, nonces, ValidOf(pool, file, nonces, failing))  OBVIOUS
<1>5. q \in PoolType /\ PendKept(q)  BY <1>1, <1>4, ReopenedGood DEF Inv
<1>6. PICK u \in Seq(Wds), v \in Seq(Txs) : u = <<>> /\ v = <<>>
  <2>1. <<>> \in Seq(Wds) /\ <<>> \in Seq(Txs)  OBVIOUS
  <2> QED BY <2>1, Zenon
<1>7. ResetTo(q, u, v, TRUE)  BY <1>3, <1>4, <1>6
<1>8. restored' \in Seq(Txs) /\ file' \in FileType /\ UNCHANGED <<blocks, tip>>
  <2>1. NoFile \in FileType  BY <1>6 DEF NoFile, FileType
  <2>2. file \in FileType /\ file' \in {file, NoFile} /\ restored' = file.txs  BY DEF Start, Inv
  <2> QED BY <2>1, <2>2 DEF Start, FileType
<1> QED BY <1>5, <1>7, <1>8, InvReset

LEMMA InvNext == Inv /\ [Next]_vars => Inv'
<1>1. SUFFICES ASSUME Inv, [Next]_vars PROVE Inv'  OBVIOUS
<1>2. PICK base \in Nonces : base = PostOf(blocks, memTip)
  <2>1. PostOf(blocks, memTip) \in Nonces  BY <1>1, PostTyped DEF Inv
  <2> QED BY <2>1, Zenon
<1>3. GoodPool(base, pool) /\ pool \in PoolType  BY <1>1, <1>2 DEF Inv, GoodPool
<1>4. ASSUME GoodPool(base, pool'), UNCHANGED <<blocks, tip, memTip, file>>, restored' \in Seq(Txs)
      PROVE  Inv'
  BY <1>1, <1>2, <1>4 DEF Inv
<1>5. CASE PushTx
  <2>1. PICK t \in Txs, failing \in Failures : pool' = PushTransaction(pool, t, failing)
    BY <1>5 DEF PushTx
  <2>2. GoodPool(base, pool')  BY <1>3, <2>1, PushGood
  <2> QED BY <1>1, <1>4, <1>5, <2>2 DEF PushTx, Inv
<1>6. CASE PushWithdrawal
  <2>1. PICK w \in Wds, failing \in Failures : pool' = PushWithdrawalRequest(pool, w, failing)
    BY <1>6 DEF PushWithdrawal
  <2>2. GoodPool(base, pool')  BY <1>3, <2>1, PushWithdrawalGood
  <2> QED BY <1>1, <1>4, <1>6, <2>2 DEF PushWithdrawal, Inv
<1>7. CASE RestoreTxs
  <2>1. PICK failing \in Failures : pool' = PushTransactions(pool, Stored(restored, pool.dbTxs), failing)
    BY <1>7 DEF RestoreTxs
  <2>2. Stored(restored, pool.dbTxs) \in Seq(Txs)  BY <1>1, StoredTyped DEF Inv
  <2>3. GoodPool(base, pool')  BY <1>3, <2>1, <2>2, PushAllGood
  <2>4. restored' \in Seq(Txs)
    <3>1. <<>> \in Seq(Txs)  OBVIOUS
    <3> QED BY <1>7, <3>1, Zenon DEF RestoreTxs
  <2> QED BY <1>4, <1>7, <2>3, <2>4 DEF RestoreTxs
<1>8. CASE ProduceBlock  BY <1>1, <1>8, InvProduce, InvStore DEF ProduceBlock
<1>9. CASE RevertBlock
  <2>1. tip \in 1..Len(blocks)  BY <1>1, <1>9 DEF RevertBlock, Inv, Store
  <2>2. blocks[tip].par \in 0..(tip - 1)  BY <1>1, <2>1 DEF Inv, Store, BlockGood
  <2>3. Len(blocks) \in Nat  BY <1>1 DEF Inv, Store
  <2>4. tip' \in 0..Len(blocks) /\ UNCHANGED <<blocks, memTip, pool, restored, file>>
    BY <1>9, <2>1, <2>2, <2>3 DEF RevertBlock
  <2> QED BY <1>1, <2>4 DEF Inv
<1>10. CASE AttachBlock
  <2>1. UNCHANGED <<memTip, pool, restored, file>>  BY <1>10 DEF AttachBlock
  <2>2. CASE \E rs \in BoundedSeq(Requests, 2) :
                 LET ws == Retain(rs, Wds)
                     ts == Retain(rs, Txs)
                 IN  rs = ws \o ts /\ Executes(Post(tip), rs) /\ NewBlock(ws, ts)
    <3>1a. PICK rs \in BoundedSeq(Requests, 2) : \E ws, ts :
            /\ ws = Retain(rs, Wds) /\ ts = Retain(rs, Txs)
            /\ rs = ws \o ts /\ Executes(Post(tip), rs) /\ NewBlock(ws, ts)
      BY <2>2, Zenon
    <3>1. PICK ws, ts :
            /\ ws = Retain(rs, Wds) /\ ts = Retain(rs, Txs)
            /\ rs = ws \o ts /\ Executes(Post(tip), rs) /\ NewBlock(ws, ts)
      BY <3>1a, Zenon
    <3>2. Extends(blocks, blocks') /\ tip' \in 0..Len(blocks')  BY <1>1, <3>1, InvForeign
    <3> QED BY <1>1, <2>1, <3>2, InvStore
  <2>3. CASE tip' \in {b \in DOMAIN blocks : blocks[b].par = tip} /\ UNCHANGED <<blocks, faults>>
    <3>1. Len(blocks) \in Nat /\ DOMAIN blocks = 1..Len(blocks)  BY <1>1 DEF Inv, Store
    <3>2. tip' \in 0..Len(blocks)  BY <2>3, <3>1
    <3> QED BY <1>1, <2>1, <2>3, <3>2 DEF Inv
  <2> QED BY <1>10, <2>2, <2>3, Zenon DEF AttachBlock
<1>11. CASE NotifyNewTip  BY <1>1, <1>11, InvNotify
<1>12. CASE Kill  BY <1>1, <1>12 DEF Kill, Inv
<1>13. CASE Stop
  <2>1. file' \in FileType
    <3>1. pool.wds \in Seq(Wds) /\ pool.txs \in Seq(Txs)  BY <1>3 DEF PoolType
    <3>2. Retain(restored, Requests \ Range(pool.txs)) \in Seq(Txs)  BY <1>1, RetainTyped DEF Inv
    <3>3. pool.txs \o Retain(restored, Requests \ Range(pool.txs)) \in Seq(Txs)  BY <3>1, <3>2
    <3> QED BY <1>13, <3>1, <3>3 DEF Stop, Saved, FileType
  <2> QED BY <1>1, <1>13, <2>1 DEF Stop, Inv
<1>14. CASE Start  BY <1>1, <1>14, InvStart
<1>15. CASE UNCHANGED vars  BY <1>1, <1>15 DEF vars, Inv
<1> QED BY <1>1, <1>5, <1>6, <1>7, <1>8, <1>9, <1>10, <1>11, <1>12, <1>13, <1>14, <1>15 DEF Next

LEMMA InvAlways == Spec => []Inv
BY InvInit, InvNext, PTL DEF Spec

-----------------------------------------------------------------------------
(* Theorems.                                                               *)

\* The mem block of a running node replays on the block it is built on and yields
\* the state that new requests are checked against (MemBlockExecutes), whatever
\* was reverted, attached, abandoned, restored or packed in part, for any number
\* of accounts, limits, failures and restarts.
THEOREM MemBlockExecutesHolds == Spec => []MemBlockExecutes
<1>1. Inv => MemBlockExecutes
  BY PostSame DEF Inv, GoodPool, Replays, MemBlockExecutes
<1> QED BY <1>1, InvAlways, PTL

\* Every transaction of the mem block is in the database, and so is every
\* withdrawal of it whose account has its pending withdrawals in order
\* (MemBlockStored): produce_block finds what it has to pack.
THEOREM MemBlockStoredHolds == Spec => []MemBlockStored
<1>1. Inv => MemBlockStored
  <2>1. SUFFICES ASSUME Inv PROVE MemBlockStored  OBVIOUS
  <2>2. TxsKept(pool) /\ WdsKept(pool)  BY <2>1 DEF Inv, GoodPool
  <2>3. Range(pool.txs) \subseteq pool.dbTxs  BY <2>2 DEF TxsKept, Range
  <2>4. \A w \in Range(pool.wds) : Sorted(pool.pendWds[w.acct]) => w \in pool.dbWds
    BY <2>2 DEF WdsKept, Range
  <2> QED BY <2>3, <2>4 DEF MemBlockStored
<1> QED BY <1>1, InvAlways, PTL

-----------------------------------------------------------------------------
(* The order of transactions.                                              *)

Increasing(ts) ==
    \A i, j \in DOMAIN ts : i < j /\ ts[i].acct = ts[j].acct => ts[i].nonce < ts[j].nonce

Within(n, m, ts) ==
    \A i \in DOMAIN ts : n[ts[i].acct] <= ts[i].nonce /\ ts[i].nonce < m[ts[i].acct]

Has(rs, a, k) == \E i \in DOMAIN rs : rs[i].acct = a /\ rs[i].nonce = k

Covered(n, m, ws, ts) ==
    \A a \in Accounts : \A k \in Nat : n[a] <= k /\ k < m[a] => Has(ws, a, k) \/ Has(ts, a, k)

Below(n, m) == \A a \in Accounts : n[a] <= m[a]

\* The transactions of a block, or of the mem block.
Transacts(n, m, ws, ts) ==
    Increasing(ts) /\ Within(n, m, ts) /\ Covered(n, m, ws, ts) /\ Below(n, m)

LEMMA ExecParts ==
    ASSUME NEW n \in Nonces, NEW ws \in Seq(Wds), NEW ts \in Seq(Txs), Executes(n, ws \o ts)
    PROVE  Transacts(n, After(n, ws \o ts), ws, ts)
<1>1. PICK k \in Nat, l \in Nat : k = Len(ws) /\ l = Len(ts)  OBVIOUS
<1>2. PICK x \in Seq(Requests), y \in Seq(Requests) : x = ws /\ y = ts
  <2>1. ws \in Seq(Requests) /\ ts \in Seq(Requests)  BY RequestFacts, WidenSeq
  <2> QED BY <2>1
<1>3. PICK rs \in Seq(Requests) : rs = x \o y
  <2>1. x \o y \in Seq(Requests)  OBVIOUS
  <2> QED BY <2>1, Zenon
<1>4. Len(rs) = k + l /\ (\A i \in 1..k : rs[i] = ws[i]) /\ \A i \in 1..l : rs[k + i] = ts[i]
  BY <1>1, <1>2, <1>3
<1>5. rs = ws \o ts  BY <1>2, <1>3
<1>6. PICK m \in Nonces : m = After(n, rs)  BY AfterTyped
<1>7. ExecOrder(n, m, rs)  BY <1>5, <1>6, ExecFacts
<1>8. DOMAIN rs = 1..(k + l) /\ DOMAIN ts = 1..l /\ DOMAIN ws = 1..k  BY <1>1, <1>4
<1>9. \A i \in 1..l : k + i \in 1..(k + l)  OBVIOUS
<1>10. Increasing(ts)
  <2>1. SUFFICES ASSUME NEW i \in 1..l, NEW j \in 1..l, i < j, ts[i].acct = ts[j].acct
                 PROVE  ts[i].nonce < ts[j].nonce
    BY <1>8 DEF Increasing
  <2>2. PICK u \in 1..(k + l), v \in 1..(k + l) : u = k + i /\ v = k + j  BY <1>9
  <2>3. u < v  BY <2>1, <2>2
  <2>4. rs[u] = ts[i] /\ rs[v] = ts[j]  BY <1>4, <2>2
  <2>5. \A c, d \in 1..(k + l) : c < d /\ rs[c].acct = rs[d].acct => rs[c].nonce < rs[d].nonce
    BY <1>7, <1>8 DEF ExecOrder
  <2>6. rs[u].acct = rs[v].acct  BY <2>1, <2>4
  <2>7. rs[u].nonce < rs[v].nonce  BY <2>3, <2>5, <2>6
  <2> QED BY <2>4, <2>7
<1>11. Within(n, m, ts)  BY <1>4, <1>7, <1>8, <1>9 DEF ExecOrder, Within
<1>12. Covered(n, m, ws, ts)
  <2>1. SUFFICES ASSUME NEW a \in Accounts, NEW c \in Nat, n[a] <= c, c < m[a]
                 PROVE  Has(ws, a, c) \/ Has(ts, a, c)
    BY DEF Covered
  <2>2. PICK i \in 1..(k + l) : rs[i].acct = a /\ rs[i].nonce = c
    <3>1. \A e \in Accounts : \A d \in Nat : n[e] <= d /\ d < m[e] =>
            \E i \in DOMAIN rs : rs[i].acct = e /\ rs[i].nonce = d
      BY <1>7, Zenon DEF ExecOrder
    <3>2. \E i \in DOMAIN rs : rs[i].acct = a /\ rs[i].nonce = c  BY <2>1, <3>1, Zenon
    <3> QED BY <1>8, <3>2, Zenon
  <2>3. CASE i \in 1..k  BY <1>4, <1>8, <2>2, <2>3 DEF Has
  <2>4. CASE i \notin 1..k
    <3>1. PICK j : j = i - k  OBVIOUS
    <3>2. j \in 1..l /\ k + j = i  BY <2>4, <3>1
    <3> QED BY <1>4, <1>8, <2>2, <3>2 DEF Has
  <2> QED BY <2>3, <2>4
<1>13. Below(n, m)  BY <1>6, AfterTyped DEF Below
<1> QED BY <1>5, <1>6, <1>10, <1>11, <1>12, <1>13 DEF Transacts

\* What is kept of an increasing sequence is increasing.
LEMMA RetainOrder ==
    ASSUME NEW rs \in Seq(Txs), NEW S, Increasing(rs)
    PROVE  Increasing(Retain(rs, S))
<1>1. PICK ks : ks = Retain(rs, S)  OBVIOUS
<1>2. PICK n \in Nat : n = Len(rs) /\ DOMAIN rs = 1..n  OBVIOUS
<1>3. OrderOfPart(rs, n, ks)  BY <1>1, <1>2, RetainFacts DEF RetainedFrom
<1>4. SUFFICES ASSUME NEW i \in DOMAIN ks, NEW j \in DOMAIN ks, i < j, ks[i].acct = ks[j].acct
               PROVE  ks[i].nonce < ks[j].nonce
  BY <1>1 DEF Increasing
<1>5. PICK u \in 1..n, v \in 1..n : u < v /\ ks[i] = rs[u] /\ ks[j] = rs[v]
  BY <1>3, <1>4 DEF OrderOfPart
<1> QED BY <1>2, <1>4, <1>5 DEF Increasing

LEMMA OrderSuffices ==
    ASSUME NEW ts, Increasing(ts)
    PROVE  InputsOrdered(ts)
BY DEF Increasing, InputsOrdered

\* Low nonces before high ones.
LEMMA ConcatOrder ==
    ASSUME NEW m \in Nonces, NEW x \in Seq(Txs), NEW y \in Seq(Txs), Increasing(x), Increasing(y),
           \A i \in DOMAIN x : x[i].nonce < m[x[i].acct],
           \A i \in DOMAIN y : m[y[i].acct] <= y[i].nonce
    PROVE  Increasing(x \o y)
<1>1. PICK k \in Nat, l \in Nat : k = Len(x) /\ l = Len(y) /\ DOMAIN x = 1..k /\ DOMAIN y = 1..l
  OBVIOUS
<1>2. PICK z \in Seq(Txs) : z = x \o y
  <2>1. x \o y \in Seq(Txs)  OBVIOUS
  <2> QED BY <2>1, Zenon
<1>3. Len(z) = k + l /\ (\A i \in 1..k : z[i] = x[i]) /\ \A i \in 1..l : z[k + i] = y[i]  BY <1>1, <1>2
<1>4. SUFFICES ASSUME NEW i \in 1..(k + l), NEW j \in 1..(k + l), i < j, z[i].acct = z[j].acct
               PROVE  z[i].nonce < z[j].nonce
  <2>1. DOMAIN z = 1..(k + l)  BY <1>3
  <2> QED BY <1>2, <2>1 DEF Increasing
<1>5. PICK u, v : u = i - k /\ v = j - k  OBVIOUS
<1>6. CASE j \in 1..k
  <2>1. i \in 1..k  BY <1>4, <1>6
  <2> QED BY <1>1, <1>3, <1>4, <1>6, <2>1 DEF Increasing
<1>7. CASE i \notin 1..k
  <2>1. u \in 1..l /\ v \in 1..l /\ u < v /\ k + u = i /\ k + v = j  BY <1>4, <1>5, <1>7
  <2>2. z[i] = y[u] /\ z[j] = y[v]  BY <1>3, <2>1
  <2> QED BY <1>1, <1>4, <2>1, <2>2 DEF Increasing
<1>8. CASE i \in 1..k /\ j \notin 1..k
  <2>1. v \in 1..l /\ k + v = j  BY <1>4, <1>5, <1>8
  <2>2. z[i] = x[i] /\ z[j] = y[v] /\ z[i] \in Txs /\ z[j] \in Txs
    <3>1. z[i] = x[i]  BY <1>3, <1>8, Zenon
    <3>2. z[j] = z[k + v] /\ z[k + v] = y[v]  BY <1>3, <2>1, Zenon
    <3>3. \A e \in 1..k : x[e] \in Txs  BY <1>1
    <3>4. \A e \in 1..l : y[e] \in Txs  BY <1>1
    <3> QED BY <1>8, <2>1, <3>1, <3>2, <3>3, <3>4, Zenon
  <2>3. PICK a \in Accounts : a = z[i].acct /\ z[i].nonce \in Nat /\ z[j].nonce \in Nat
    BY <2>2, RequestFacts
  <2>4. z[i].nonce < m[a] /\ m[a] <= z[j].nonce  BY <1>1, <1>4, <1>8, <2>1, <2>2, <2>3
  <2>5. m[a] \in Nat  BY DEF Nonces
  <2> QED BY <2>3, <2>4, <2>5
<1> QED BY <1>6, <1>7, <1>8

\* Nonces along a chain of blocks.
Chained(l, N) ==
    /\ N \in [0..l -> Nonces]
    /\ \A p \in 1..l : Below(N[p-1], N[p])

LEMMA ChainMonotone ==
    ASSUME NEW l \in Nat, NEW N, Chained(l, N), NEW p \in 0..l, NEW q \in 0..l, p <= q
    PROVE  Below(N[p], N[q])
<1> DEFINE T == {i \in 0..l : p <= i => Below(N[p], N[i])}
<1>1. \A i \in 0..l : N[i] \in Nonces  BY DEF Chained
<1>2. \A n, m, k \in Nonces : Below(n, m) /\ Below(m, k) => Below(n, k)
  <2>1. SUFFICES ASSUME NEW n \in Nonces, NEW m \in Nonces, NEW k \in Nonces, Below(n, m), Below(m, k),
                        NEW a \in Accounts
                 PROVE  n[a] <= k[a]
    BY DEF Below
  <2>2. n[a] \in Nat /\ m[a] \in Nat /\ k[a] \in Nat /\ n[a] <= m[a] /\ m[a] <= k[a]
    BY <2>1 DEF Below, Nonces
  <2> QED BY <2>2
<1>3. \A n \in Nonces : Below(n, n)  BY DEF Below, Nonces
<1>4. 0 \in T
  <2>1. p <= 0 => p = 0  OBVIOUS
  <2> QED BY <1>1, <1>3, <2>1
<1>5. ASSUME NEW i \in 0..l, i < l, i \in T PROVE i + 1 \in T
  <2>1. i + 1 \in 0..l /\ i + 1 \in 1..l /\ (i + 1) - 1 = i  BY <1>5
  <2>2. Below(N[i], N[i + 1])  BY <2>1 DEF Chained
  <2>3. CASE p <= i
    <3>1. Below(N[p], N[i])  BY <1>5, <2>3
    <3>2. N[p] \in Nonces /\ N[i] \in Nonces /\ N[i + 1] \in Nonces  BY <1>1, <2>1
    <3> QED BY <1>2, <2>1, <2>2, <3>1, <3>2
  <2>4. CASE p = i + 1  BY <1>1, <1>3, <2>1, <2>4
  <2>5. CASE p > i + 1  BY <2>1, <2>5
  <2> QED BY <2>3, <2>4, <2>5
<1>6. q \in T
  <2> HIDE DEF T
  <2>1. \A i \in 0..l : i \in T  BY <1>4, <1>5, NatInd
  <2> QED BY <2>1
<1> QED BY <1>6

\* The transactions of a chain of blocks.
LEMMA FlatChain ==
    ASSUME NEW l \in Nat, NEW N, Chained(l, N), NEW ss \in Seq(Seq(Txs)), Len(ss) = l,
           \A p \in 1..l : Increasing(ss[p]) /\ Within(N[p-1], N[p], ss[p])
    PROVE  Increasing(FlattenSeq(ss)) /\ Within(N[0], N[l], FlattenSeq(ss))
<1>1. PICK fs \in Seq(Txs) : fs = FlattenSeq(ss) /\ FlatIn(ss, l, fs) /\ FlatOrder(ss, l, fs)
  <2>1. FlatFrom(Txs, ss, FlattenSeq(ss))  BY FlatFacts
  <2> QED BY <2>1 DEF FlatFrom
<1>2. \A p \in 0..l : N[p] \in Nonces  BY DEF Chained
<1>3. \A p \in 1..l : ss[p] \in Seq(Txs)  OBVIOUS
<1>4. ASSUME NEW p \in 1..l, NEW u \in DOMAIN ss[p]
      PROVE  /\ ss[p][u].acct \in Accounts /\ ss[p][u].nonce \in Nat
             /\ N[p-1][ss[p][u].acct] <= ss[p][u].nonce /\ ss[p][u].nonce < N[p][ss[p][u].acct]
  <2>1. ss[p][u] \in Txs  BY <1>3
  <2> QED BY <2>1, RequestFacts DEF Within
<1>5. Within(N[0], N[l], fs)
  <2>1. SUFFICES ASSUME NEW i \in DOMAIN fs
                 PROVE  N[0][fs[i].acct] <= fs[i].nonce /\ fs[i].nonce < N[l][fs[i].acct]
    BY DEF Within
  <2>2. PICK p \in 1..l : \E u \in DOMAIN ss[p] : fs[i] = ss[p][u]  BY <1>1 DEF FlatIn
  <2>3. PICK a \in Accounts, k \in Nat : a = fs[i].acct /\ k = fs[i].nonce  BY <1>4, <2>2
  <2>4. N[p-1][a] <= k /\ k < N[p][a]  BY <1>4, <2>2, <2>3
  <2>5. p - 1 \in 0..l /\ p \in 0..l /\ 0 \in 0..l /\ l \in 0..l /\ 0 <= p - 1 /\ p <= l  OBVIOUS
  <2>6. Below(N[0], N[p-1]) /\ Below(N[p], N[l])  BY <2>5, ChainMonotone
  <2>7. N[0][a] \in Nat /\ N[p-1][a] \in Nat /\ N[p][a] \in Nat /\ N[l][a] \in Nat
    BY <1>2, <2>5 DEF Nonces
  <2>8. N[0][a] <= N[p-1][a] /\ N[p][a] <= N[l][a]  BY <2>6 DEF Below
  <2>9. N[0][a] <= k /\ k < N[l][a]
    <3>1. PICK c \in Nat, d \in Nat, e \in Nat, f \in Nat :
            c = N[0][a] /\ d = N[p-1][a] /\ e = N[p][a] /\ f = N[l][a]
      BY <2>7
    <3>2. c <= d /\ d <= k /\ k < e /\ e <= f  BY <2>4, <2>8, <3>1
    <3>3. c <= k /\ k < f  BY <3>2
    <3> QED BY <3>1, <3>3
  <2> QED BY <2>3, <2>9
<1>6. Increasing(fs)
  <2>1. SUFFICES ASSUME NEW i \in DOMAIN fs, NEW j \in DOMAIN fs, i < j, fs[i].acct = fs[j].acct
                 PROVE  fs[i].nonce < fs[j].nonce
    BY DEF Increasing
  <2>2. FlatPair(ss, l, fs[i], fs[j])  BY <1>1, <2>1 DEF FlatOrder
  <2>3a. PICK b \in 1..l, c \in 1..l : \E u, v :
          /\ u \in DOMAIN ss[b] /\ v \in DOMAIN ss[c]
          /\ fs[i] = ss[b][u] /\ fs[j] = ss[c][v] /\ (b < c \/ (b = c /\ u < v))
    BY <2>2, Zenon DEF FlatPair
  <2>3. PICK u, v :
          /\ u \in DOMAIN ss[b] /\ v \in DOMAIN ss[c]
          /\ fs[i] = ss[b][u] /\ fs[j] = ss[c][v] /\ (b < c \/ (b = c /\ u < v))
    BY <2>3a, Zenon
  <2>4. CASE b < c
    <3>1. PICK a \in Accounts, k \in Nat, m \in Nat :
            a = fs[i].acct /\ a = fs[j].acct /\ k = fs[i].nonce /\ m = fs[j].nonce
      BY <1>4, <2>1, <2>3
    <3>2. k < N[b][a] /\ N[c-1][a] <= m  BY <1>4, <2>3, <3>1
    <3>3. b \in 0..l /\ c - 1 \in 0..l /\ b <= c - 1  BY <2>4
    <3>4. Below(N[b], N[c-1])  BY <3>3, ChainMonotone
    <3>5. N[b][a] <= N[c-1][a] /\ N[b][a] \in Nat /\ N[c-1][a] \in Nat  BY <1>2, <3>3, <3>4 DEF Below, Nonces
    <3>6. k < m
      <4>1. PICK d \in Nat, e \in Nat : d = N[b][a] /\ e = N[c-1][a]  BY <3>5
      <4>2. k < d /\ d <= e /\ e <= m  BY <3>2, <3>5, <4>1
      <4> QED BY <4>2
    <3> QED BY <3>1, <3>6
  <2>5. CASE b = c /\ u < v
    <3>1. Increasing(ss[b])  OBVIOUS
    <3> QED BY <2>1, <2>3, <2>5, <3>1 DEF Increasing
  <2> QED BY <2>3, <2>4, <2>5
<1> QED BY <1>1, <1>5, <1>6

\* The nonces after each block of a branch.
NoncesOf(b, o, N) ==
    /\ Chained(Len(o), N)
    /\ N[0] = ZeroNonces /\ N[Len(o)] = PostOf(blocks, b)
    /\ \A p \in 1..Len(o) :
           /\ N[p] = PostOf(blocks, o[p])
           /\ Transacts(N[p-1], N[p], blocks[o[p]].wds, blocks[o[p]].txs)

LEMMA BranchNonces ==
    ASSUME Store(blocks), NEW b \in 0..Len(blocks)
    PROVE  \E N : NoncesOf(b, Branch(b), N)
<1>1. PICK n \in Nat : n = Len(blocks)  BY DEF Store
<1>2. PICK o \in Seq(1..n) : o = Branch(b) /\ ChainTo(blocks, b, o)
  <2>1. ChainTo(blocks, b, Branch(b))  BY BranchFacts
  <2> QED BY <1>1, <2>1 DEF ChainTo
<1>3. PICK l \in Nat : l = Len(o)  OBVIOUS
<1>4. \A p \in 1..l : o[p] \in 1..n /\ o[p] # 0  BY <1>3
<1>5. PICK N : N = [p \in 0..l |-> IF p = 0 THEN ZeroNonces ELSE PostOf(blocks, o[p])]  OBVIOUS
<1>6. N[0] = ZeroNonces /\ \A p \in 1..l : N[p] = PostOf(blocks, o[p])
  <2>1. 0 \in 0..l /\ \A p \in 1..l : p \in 0..l /\ p # 0  OBVIOUS
  <2> QED BY <1>5, <2>1
<1>7. N \in [0..l -> Nonces]
  <2>1. ZeroNonces \in Nonces  BY DEF ZeroNonces, Nonces
  <2>2. \A p \in 1..l : PostOf(blocks, o[p]) \in Nonces
    <3>1. \A c \in 1..n : c \in 0..Len(blocks)  BY <1>1
    <3> QED BY <1>4, <3>1, PostTyped
  <2>3. \A p \in 0..l : p # 0 => p \in 1..l  OBVIOUS
  <2> QED BY <1>5, <2>1, <2>2, <2>3
<1>8. ASSUME NEW p \in 1..l
      PROVE  Transacts(N[p-1], N[p], blocks[o[p]].wds, blocks[o[p]].txs)
  <2>1. PICK c \in 1..n : c = o[p]  BY <1>4
  <2>2. BlockGood(blocks, c) /\ blocks[c] \in BlockType  BY <1>1, <2>1 DEF Store
  <2>3. PICK d : d = blocks[c].par  OBVIOUS
  <2>4. d = IF p = 1 THEN 0 ELSE o[p - 1]  BY <1>2, <1>3, <2>1, <2>3 DEF ChainTo
  <2>5. N[p-1] = PostOf(blocks, d)
    <3>1. CASE p = 1
      <4>1. p - 1 = 0 /\ d = 0  BY <2>4, <3>1
      <4> QED BY <1>6, <4>1 DEF PostOf
    <3>2. CASE p # 1
      <4>1. p - 1 \in 1..l  BY <3>2
      <4> QED BY <1>6, <2>4, <3>2, <4>1
    <3> QED BY <3>1, <3>2
  <2>6. PICK m \in Nonces : m = N[p-1]
    <3>1. p - 1 \in 0..l  OBVIOUS
    <3> QED BY <1>7, <3>1
  <2>7. PICK ws \in Seq(Wds), ts \in Seq(Txs) : ws = blocks[c].wds /\ ts = blocks[c].txs
    BY <2>2 DEF BlockType
  <2>8. Executes(m, ws \o ts) /\ blocks[c].post = After(m, ws \o ts)
    BY <2>2, <2>3, <2>5, <2>6, <2>7 DEF BlockGood
  <2>9. N[p] = After(m, ws \o ts)
    <3>1. c # 0  BY <2>1
    <3> QED BY <1>6, <2>1, <2>8, <3>1 DEF PostOf
  <2>10. Transacts(m, After(m, ws \o ts), ws, ts)  BY <2>8, ExecParts
  <2> QED BY <2>1, <2>6, <2>7, <2>9, <2>10
<1>9. Chained(l, N)  BY <1>7, <1>8 DEF Chained, Transacts
<1>10. N[l] = PostOf(blocks, b)
  <2>1. b = IF l = 0 THEN 0 ELSE o[l]  BY <1>2, <1>3 DEF ChainTo
  <2>2. CASE l = 0  BY <1>6, <2>1, <2>2 DEF PostOf
  <2>3. CASE l # 0
    <3>1. l \in 1..l  BY <2>3
    <3> QED BY <1>6, <2>1, <2>3, <3>1
  <2> QED BY <2>2, <2>3
<1>11. NoncesOf(b, o, N)  BY <1>3, <1>6, <1>8, <1>9, <1>10 DEF NoncesOf
<1> QED BY <1>2, <1>11

\* A last part of a branch.
LEMMA PartFacts ==
    ASSUME NEW R, NEW o \in Seq(R), NEW k \in Nat, NEW l \in Nat, l = Len(o), k <= l,
           NEW s, s = SubSeq(o, k + 1, l)
    PROVE  s \in Seq(R) /\ Len(s) = l - k /\ \A i \in 1..(l - k) : s[i] = o[k + i]
<1>1. s \in Seq(R)  BY PartTyped
<1>2. Len(s) = l - k  OBVIOUS
<1>3. \A i \in 1..((l - (k + 1)) + 1) : s[i] = o[(i + (k + 1)) - 1]  OBVIOUS
<1>4. (l - (k + 1)) + 1 = l - k /\ \A i \in 1..(l - k) : (i + (k + 1)) - 1 = k + i  OBVIOUS
<1> QED BY <1>1, <1>2, <1>3, <1>4

\* The transactions of the blocks of a branch above number k.
AboveIn(o, k, ts) ==
    \A i \in DOMAIN ts : \E p \in (k + 1)..Len(o) : \E u \in DOMAIN blocks[o[p]].txs :
        ts[i] = blocks[o[p]].txs[u]

AboveAll(o, k, ts) ==
    \A p \in (k + 1)..Len(o) : \A u \in DOMAIN blocks[o[p]].txs : \E i \in DOMAIN ts :
        ts[i] = blocks[o[p]].txs[u]

LEMMA AboveFacts ==
    ASSUME Store(blocks), NEW b \in 0..Len(blocks), NEW o, o = Branch(b), NEW N, NoncesOf(b, o, N),
           NEW k \in Nat, k <= Len(o)
    PROVE  LET ts == TransactionsOf(SubSeq(o, k + 1, Len(o)))
           IN  /\ ts \in Seq(Txs) /\ AboveIn(o, k, ts) /\ AboveAll(o, k, ts)
               /\ Increasing(ts) /\ Within(N[k], PostOf(blocks, b), ts)
<1>1. PICK n \in Nat : n = Len(blocks)  BY DEF Store
<1>2. o \in Seq(1..n)  BY <1>1, BranchFacts DEF ChainTo
<1>3. PICK l \in Nat : l = Len(o)  BY <1>2
<1>22. k <= l  BY <1>3
<1>4. PICK s \in Seq(1..n) : s = SubSeq(o, k + 1, l) /\ Len(s) = l - k /\ \A i \in 1..(l - k) : s[i] = o[k + i]
  <2>1. PICK s : s = SubSeq(o, k + 1, l)  OBVIOUS
  <2>2. s \in Seq(1..n) /\ Len(s) = l - k /\ \A i \in 1..(l - k) : s[i] = o[k + i]
    <3>1. o \in Seq(1..n)  BY <1>2
    <3>2. l = Len(o)  BY <1>3
    <3>3. k <= l BY <1>22
    <3>4. s = SubSeq(o, k + 1, l) BY <2>1
    <3>5. s \in Seq(1..n) BY <3>1, <3>2, <3>3, <3>4, PartFacts
    <3>6. Len(s) = l - k BY <3>1, <3>2, <3>3, <3>4, PartFacts
    <3>7. \A i \in 1..(l - k) : s[i] = o[k + i] BY <3>1, <3>2, <3>3, <3>4, PartFacts
    <3> QED BY <3>5, <3>6, <3>7
  <2> QED BY <2>1, <2>2, Zenon
<1>5. PICK m \in Nat : m = l - k  BY <1>22
<1>6. PICK ss \in Seq(Seq(Txs)) : ss = [i \in DOMAIN s |-> blocks[s[i]].txs]
  <2>1. [i \in DOMAIN s |-> blocks[s[i]].txs] \in Seq(Seq(Txs))  BY <1>1, OfTyped
  <2> QED BY <2>1, Zenon
<1>7. DOMAIN s = 1..m /\ DOMAIN ss = 1..m /\ Len(ss) = m
  <2>1. DOMAIN s = 1..m  BY <1>4, <1>5
  <2>2. DOMAIN ss = 1..m  BY <1>6, <2>1
  <2>3. Len(ss) \in Nat /\ DOMAIN ss = 1..Len(ss)  BY LenProperties
  <2>4. Len(ss) = m  BY <2>2, <2>3
  <2> QED BY <2>1, <2>2, <2>4
<1>8. \A i \in 1..m : ss[i] = blocks[o[k + i]].txs  BY <1>4, <1>5, <1>6, <1>7
<1>9. PICK ts \in Seq(Txs) : ts = FlattenSeq(ss) /\ FlatIn(ss, m, ts) /\ FlatAll(ss, m, ts)
  <2>1. FlatFrom(Txs, ss, FlattenSeq(ss))  BY FlatFacts
  <2> QED BY <1>7, <2>1 DEF FlatFrom
<1>10. ts = TransactionsOf(SubSeq(o, k + 1, Len(o)))  BY <1>3, <1>4, <1>6, <1>9 DEF TransactionsOf
<1>11. AboveIn(o, k, ts)
  <2>1. SUFFICES ASSUME NEW i \in DOMAIN ts
                 PROVE  \E p \in (k + 1)..Len(o) : \E u \in DOMAIN blocks[o[p]].txs : ts[i] = blocks[o[p]].txs[u]
    BY DEF AboveIn
  <2>2. PICK c \in 1..m : \E u \in DOMAIN ss[c] : ts[i] = ss[c][u]  BY <1>9 DEF FlatIn
  <2>3. PICK p : p = k + c  OBVIOUS
  <2>4. p \in (k + 1)..Len(o)  BY <1>3, <1>5, <2>3
  <2>5. ss[c] = blocks[o[p]].txs  BY <1>8, <2>3
  <2> QED BY <2>2, <2>4, <2>5
<1>12. AboveAll(o, k, ts)
  <2>1. SUFFICES ASSUME NEW p \in (k + 1)..Len(o), NEW u \in DOMAIN blocks[o[p]].txs
                 PROVE  \E i \in DOMAIN ts : ts[i] = blocks[o[p]].txs[u]
    BY DEF AboveAll
  <2>2. PICK c : c = p - k  OBVIOUS
  <2>3. c \in 1..m /\ k + c = p  BY <1>3, <1>5, <2>2
  <2>4. ss[c] = blocks[o[p]].txs  BY <1>8, <2>3
  <2> QED BY <1>9, <2>1, <2>3, <2>4, SMTT(60) DEF FlatAll
<1>13. Chained(l, N) /\ N[l] = PostOf(blocks, b)  BY <1>3 DEF NoncesOf
<1>14. PICK M : M = [p \in 0..m |-> N[k + p]]  OBVIOUS
<1>15. \A p \in 0..m : M[p] = N[k + p] /\ k + p \in 0..l  BY <1>3, <1>5, <1>14
<1>16. \A p \in 1..m : p - 1 \in 0..m /\ p \in 0..m /\ k + p \in 1..l /\ k + (p - 1) = (k + p) - 1
  BY <1>3, <1>5
<1>17. \A p \in 1..m : M[p] = N[k + p] /\ M[p-1] = N[(k + p) - 1]  BY <1>15, <1>16
<1>18. Chained(m, M)
  <2>1. N \in [0..l -> Nonces] /\ \A p \in 1..l : Below(N[p-1], N[p])  BY <1>13 DEF Chained
  <2>2. M \in [0..m -> Nonces]  BY <1>14, <1>15, <2>1
  <2>3. \A p \in 1..m : Below(M[p-1], M[p])  BY <1>16, <1>17, <2>1
  <2> QED BY <2>2, <2>3 DEF Chained
<1>19. ASSUME NEW p \in 1..m PROVE Increasing(ss[p]) /\ Within(M[p-1], M[p], ss[p])
  <2>1. PICK q \in 1..l : q = k + p  BY <1>16
  <2>2. Transacts(N[q-1], N[q], blocks[o[q]].wds, blocks[o[q]].txs)  BY <1>3 DEF NoncesOf
  <2>3. Increasing(blocks[o[q]].txs) /\ Within(N[q-1], N[q], blocks[o[q]].txs)  BY <2>2 DEF Transacts
  <2> QED BY <1>8, <1>17, <2>1, <2>3
<1>20. Increasing(ts) /\ Within(M[0], M[m], ts)  BY <1>7, <1>9, <1>18, <1>19, FlatChain
<1>21. M[0] = N[k] /\ M[m] = PostOf(blocks, b)
  <2>1. 0 \in 0..m /\ m \in 0..m /\ k + 0 = k /\ k + m = l  BY <1>3, <1>5
  <2> QED BY <1>13, <1>15, <2>1
<1> QED BY <1>10, <1>11, <1>12, <1>20, <1>21

\* The abandoned transactions: in order, and with nonces below those of the old tip.
LEMMA ReinjectOrder ==
    ASSUME Store(blocks), NEW old \in 0..Len(blocks), NEW new \in 0..Len(blocks)
    PROVE  LET ts == ReinjectTxs(old, new)
           IN  Increasing(ts) /\ \A i \in DOMAIN ts : ts[i].nonce < PostOf(blocks, old)[ts[i].acct]
<1>1. PICK n \in Nat : n = Len(blocks)  BY DEF Store
<1>2. PICK o \in Seq(1..n) : o = Branch(old)
  <2>1. Branch(old) \in Seq(1..n)  BY <1>1, BranchFacts DEF ChainTo
  <2> QED BY <2>1, Zenon
<1>3. PICK r \in Seq(1..n) : r = Branch(new)
  <2>1. Branch(new) \in Seq(1..n)  BY <1>1, BranchFacts DEF ChainTo
  <2> QED BY <2>1, Zenon
<1>4. PICK k \in Nat : k = ForkNumber(o, r) /\ k <= Len(o)
  <2>1. ForkNumber(o, r) \in Nat /\ (ForkNumber(o, r) = 0 \/ ForkNumber(o, r) \in 1..Len(o))
    BY ForkTyped
  <2>2. Len(o) \in Nat  OBVIOUS
  <2>3. ForkNumber(o, r) <= Len(o)  BY <2>1, <2>2
  <2> QED BY <2>1, <2>3, Zenon
<1>5. PICK N : NoncesOf(old, o, N)  BY <1>2, BranchNonces
<1>6. PICK xs : xs = TransactionsOf(SubSeq(o, k + 1, Len(o)))  OBVIOUS
<1>7. xs \in Seq(Txs) /\ Increasing(xs) /\ Within(N[k], PostOf(blocks, old), xs)
  BY <1>2, <1>4, <1>5, <1>6, AboveFacts
<1>8. PICK S : ReinjectTxs(old, new) = Retain(xs, S)
  BY <1>2, <1>3, <1>4, <1>6, Zenon DEF ReinjectTxs
<1>9. PICK ts : ts = Retain(xs, S)  OBVIOUS
<1>10. Increasing(ts)  BY <1>7, <1>9, RetainOrder
<1>11. FromPart(xs, S, Len(xs), ts)  BY <1>7, <1>9, RetainFacts DEF RetainedFrom
<1>12. ASSUME NEW i \in DOMAIN ts PROVE ts[i].nonce < PostOf(blocks, old)[ts[i].acct]
  <2>1. PICK u \in 1..Len(xs) : ts[i] = xs[u]  BY <1>11 DEF FromPart
  <2>2. u \in DOMAIN xs  BY <1>7, <2>1
  <2> QED BY <1>7, <2>1, <2>2 DEF Within
<1> QED BY <1>8, <1>9, <1>10, <1>12

\* The order assertion of a reset.
LEMMA ResetOrder ==
    ASSUME NEW p, NEW wds, NEW txs, NEW recovery, ResetTo(p, wds, txs, recovery),
           NextTxs(p, txs) \in Seq(Txs), Increasing(NextTxs(p, txs))
    PROVE  st' = "up"
<1>1. PICK xs \in Seq(Txs) : xs = NextTxs(p, txs)  BY Zenon
<1>2. PICK c : c = CanExecute(Post(tip), xs)  OBVIOUS
<1>3. Increasing(c)  BY <1>1, <1>2, RetainOrder DEF CanExecute
<1>4. InputsOrdered(c)  BY <1>3, OrderSuffices
<1>5. st' = IF InputsOrdered(CanExecute(Post(tip), NextTxs(p, txs))) THEN "up" ELSE "order"
  BY Zenon DEF ResetTo
<1> QED BY <1>1, <1>2, <1>4, <1>5

\* The transactions of the mem block follow all abandoned ones.
LEMMA NextOrder ==
    ASSUME NEW base \in Nonces, NEW p, GoodPool(base, p), NEW txs \in Seq(Txs), Increasing(txs),
           \A i \in DOMAIN txs : txs[i].nonce < base[txs[i].acct]
    PROVE  /\ NextTxs(p, txs) = txs \o p.txs
           /\ NextTxs(p, txs) \in Seq(Txs) /\ Increasing(NextTxs(p, txs))
<1>1. PICK ws \in Seq(Wds), ts \in Seq(Txs) : ws = p.wds /\ ts = p.txs  BY DEF GoodPool, PoolType
<1>2. \A u \in DOMAIN ts : ts[u] \in p.dbTxs  BY <1>1 DEF GoodPool, TxsKept
<1>3. Stored(ts, p.dbTxs) = ts  BY <1>2, RetainAll DEF Stored
<1>4. Executes(base, ws \o ts)  BY <1>1 DEF GoodPool, Replays
<1>5. Transacts(base, After(base, ws \o ts), ws, ts)  BY <1>4, ExecParts
<1>6. Increasing(ts) /\ \A i \in DOMAIN ts : base[ts[i].acct] <= ts[i].nonce
  BY <1>5 DEF Transacts, Within
<1>7. Increasing(txs \o ts)  BY <1>6, ConcatOrder
<1>8. txs \o ts \in Seq(Txs)  OBVIOUS
<1>9. NextTxs(p, txs) = txs \o ts  BY <1>1, <1>3 DEF NextTxs
<1> QED BY <1>1, <1>7, <1>8, <1>9

LEMMA NothingNext ==
    ASSUME NEW p, p.txs = <<>>
    PROVE  NextTxs(p, <<>>) = <<>>
<1>1. PICK e \in Seq(Txs) : e = <<>>
  <2>1. <<>> \in Seq(Txs)  OBVIOUS
  <2> QED BY <2>1, Zenon
<1>2. Len(e) = 0 /\ DOMAIN e = {}  BY <1>1
<1>3. Retain(e, p.dbTxs) = e
  <2>1. \A u \in DOMAIN e : e[u] \in p.dbTxs  BY <1>2
  <2> QED BY <2>1, RetainAll
<1>4. NextTxs(p, e) = e \o e  BY <1>1, <1>3 DEF NextTxs, Stored
<1>5. e \o e = e  BY <1>1
<1> QED BY <1>1, <1>4, <1>5

LEMMA EmptyOrder == <<>> \in Seq(Txs) /\ Increasing(<<>>)
BY DEF Increasing

\* The pool a node starts with holds no transactions of its own.
LEMMA StartOrder ==
    ASSUME Inv, Start
    PROVE  st' = "up"
<1>1. pool \in PoolType  BY DEF Inv, GoodPool
<1>2. PICK failing \in Failures :
        ResetTo(Reopened(pool, file, Post(tip), ValidOf(pool, file, Post(tip), failing)), <<>>, <<>>, TRUE)
  BY <1>1, StartFacts
<1>3. PICK q : q = Reopened(pool, file, Post(tip), ValidOf(pool, file, Post(tip), failing))  OBVIOUS
<1>4. q.txs = <<>>  BY <1>3 DEF Reopened
<1>5. NextTxs(q, <<>>) = <<>>  BY <1>4, NothingNext
<1>6. NextTxs(q, <<>>) \in Seq(Txs) /\ Increasing(NextTxs(q, <<>>))  BY <1>5, EmptyOrder
<1>7. ResetTo(q, <<>>, <<>>, TRUE)  BY <1>2, <1>3
<1> QED BY <1>6, <1>7, ResetOrder

LEMMA NotifyOrder ==
    ASSUME Inv, NotifyNewTip
    PROVE  st' \in {"up", "lookup"}
<1>1. Store(blocks) /\ memTip \in 0..Len(blocks) /\ tip \in 0..Len(blocks)  BY DEF Inv
<1>2. PICK base \in Nonces : base = PostOf(blocks, memTip)
  <2>1. PostOf(blocks, memTip) \in Nonces  BY <1>1, PostTyped
  <2> QED BY <2>1, Zenon
<1>3. GoodPool(base, pool)  BY <1>2 DEF Inv
<1>4. CASE ResetTo(pool, <<>>, <<>>, FALSE)
  <2>1. PICK e \in Seq(Txs) : e = <<>>  BY EmptyOrder, Zenon
  <2>2. Increasing(e) /\ DOMAIN e = {}  BY <2>1, EmptyOrder
  <2>3. NextTxs(pool, e) \in Seq(Txs) /\ Increasing(NextTxs(pool, e))  BY <1>3, <2>2, NextOrder
  <2>4. ResetTo(pool, <<>>, e, FALSE)  BY <1>4, <2>1
  <2> QED BY <2>3, <2>4, ResetOrder
<1>5. CASE ResetTo(pool, ReinjectWithdrawals(memTip, tip), ReinjectTxs(memTip, tip), FALSE)
  <2>1. PICK x \in Seq(Txs) : x = ReinjectTxs(memTip, tip)
    <3>1. ReinjectTxs(memTip, tip) \in Seq(Txs)  BY <1>1, ReinjectTyped
    <3> QED BY <3>1, Zenon
  <2>2. Increasing(x) /\ \A i \in DOMAIN x : x[i].nonce < base[x[i].acct]
    BY <1>1, <1>2, <2>1, ReinjectOrder
  <2>3. NextTxs(pool, x) \in Seq(Txs) /\ Increasing(NextTxs(pool, x))  BY <1>3, <2>2, NextOrder
  <2> QED BY <1>5, <2>1, <2>3, ResetOrder
<1>6. CASE st' = "lookup"  BY <1>6
<1> QED BY <1>4, <1>5, <1>6 DEF NotifyNewTip

\* The assertion on the order of reinjected transactions (pool.rs 942) never fails
\* (InputsStayOrdered): the abandoned blocks hold the nonces of an account in
\* order and below those of the mem block, whichever blocks are abandoned.
THEOREM InputsStayOrderedHolds == Spec => []InputsStayOrdered
<1>1. Init => InputsStayOrdered  BY DEF Init, InputsStayOrdered
<1>2. Inv /\ InputsStayOrdered /\ [Next]_vars => InputsStayOrdered'
  <2>1. SUFFICES ASSUME Inv, InputsStayOrdered, [Next]_vars PROVE InputsStayOrdered'  OBVIOUS
  <2>2. CASE Start  BY <2>1, <2>2, StartOrder DEF InputsStayOrdered
  <2>3. CASE NotifyNewTip  BY <2>1, <2>3, NotifyOrder DEF InputsStayOrdered
  <2>4. CASE PushTx \/ PushWithdrawal \/ RestoreTxs \/ ProduceBlock \/ RevertBlock \/ AttachBlock
    BY <2>1, <2>4 DEF InputsStayOrdered, PushTx, PushWithdrawal, RestoreTxs, ProduceBlock, RevertBlock,
        AttachBlock
  <2>5. CASE Kill \/ Stop  BY <2>5 DEF InputsStayOrdered, Kill, Stop
  <2>6. CASE UNCHANGED vars  BY <2>1, <2>6 DEF InputsStayOrdered, vars
  <2> QED BY <2>1, <2>2, <2>3, <2>4, <2>5, <2>6 DEF Next
<1> QED BY <1>1, <1>2, InvAlways, PTL DEF Spec

-----------------------------------------------------------------------------
(* Restarts.                                                               *)

Joins(x, k, y, l, z) == (\A j \in 1..k : z[j] = x[j]) /\ \A j \in 1..l : z[k + j] = y[j]

LEMMA CountConcat ==
    ASSUME NEW x, NEW y, NEW z, NEW k \in Nat, NEW l \in Nat, Joins(x, k, y, l, z),
           NEW i \in 0..l, NEW a
    PROVE  CountOf(z, k + i, a) = CountOf(x, k, a) + CountOf(y, i, a)
<1>1. (\A j \in 1..k : z[j] = x[j]) /\ \A j \in 1..l : z[k + j] = y[j]  BY DEF Joins
<1>2. \A j \in Nat : CountOf(x, j, a) \in Nat /\ CountOf(y, j, a) \in Nat  BY CountSteps
<1> DEFINE T == {j \in 0..l : CountOf(z, k + j, a) = CountOf(x, k, a) + CountOf(y, j, a)}
<1>3. 0 \in T
  <2>1. CountOf(z, k, a) = CountOf(x, k, a)
    <3>1. \A j \in 1..k : z[j].acct = x[j].acct  BY <1>1
    <3> QED BY <3>1, CountSame, SMTT(60)
  <2>2. CountOf(y, 0, a) = 0 /\ CountOf(x, k, a) \in Nat /\ k + 0 = k  BY <1>2, CountSteps
  <2> QED BY <2>1, <2>2
<1>4. ASSUME NEW j \in 0..l, j < l, j \in T PROVE j + 1 \in T
  <2>1. j + 1 \in 1..l /\ j + 1 \in 0..l /\ k + j \in Nat /\ (k + j) + 1 = k + (j + 1) /\ j \in Nat
    BY <1>4
  <2>2. CountOf(z, (k + j) + 1, a) = CountOf(z, k + j, a) + (IF z[(k + j) + 1].acct = a THEN 1 ELSE 0)
    <3>1. \A h \in Nat : CountOf(z, h + 1, a) = CountOf(z, h, a) + (IF z[h + 1].acct = a THEN 1 ELSE 0)
      BY CountSteps, Zenon
    <3> QED BY <2>1, <3>1, Zenon
  <2>3. CountOf(y, j + 1, a) = CountOf(y, j, a) + (IF y[j + 1].acct = a THEN 1 ELSE 0)
    <3>1. \A h \in Nat : CountOf(y, h + 1, a) = CountOf(y, h, a) + (IF y[h + 1].acct = a THEN 1 ELSE 0)
      BY CountSteps, Zenon
    <3> QED BY <2>1, <3>1, Zenon
  <2>4. CountOf(x, k, a) \in Nat /\ CountOf(y, j, a) \in Nat  BY <1>2, <2>1
  <2>5. z[k + (j + 1)] = y[j + 1]  BY <1>1, <2>1
  <2>6. CountOf(z, k + j, a) = CountOf(x, k, a) + CountOf(y, j, a)  BY <1>4
  <2>7. PICK d \in Nat : d = IF y[j + 1].acct = a THEN 1 ELSE 0
    <3>1. CASE y[j + 1].acct = a  BY <3>1
    <3>2. CASE y[j + 1].acct # a  BY <3>2
    <3> QED BY <3>1, <3>2
  <2>8. CountOf(z, k + (j + 1), a) = CountOf(x, k, a) + (CountOf(y, j, a) + d)
    <3>1. CountOf(z, k + (j + 1), a) = CountOf(z, k + j, a) + d  BY <2>1, <2>2, <2>5, <2>7
    <3> QED BY <2>4, <2>6, <3>1
  <2>9. CountOf(y, j + 1, a) = CountOf(y, j, a) + d  BY <2>3, <2>7
  <2> QED BY <2>1, <2>8, <2>9
<1>5. i \in T
  <2> HIDE DEF T
  <2>1. \A j \in 0..l : j \in T  BY <1>3, <1>4, NatInd
  <2> QED BY <2>1
<1> QED BY <1>5

\* What executes after something else executes on the state that leaves.
LEMMA ExecRest ==
    ASSUME NEW n \in Nonces, NEW x \in Seq(Requests), NEW y \in Seq(Requests), Executes(n, x \o y)
    PROVE  Executes(n, x) /\ Executes(After(n, x), y)
<1>1. PICK k \in Nat, l \in Nat : k = Len(x) /\ l = Len(y)  OBVIOUS
<1>2. PICK z \in Seq(Requests) : z = x \o y
  <2>1. x \o y \in Seq(Requests)  OBVIOUS
  <2> QED BY <2>1, Zenon
<1>3. Len(z) = k + l /\ (\A i \in 1..k : z[i] = x[i]) /\ \A i \in 1..l : z[k + i] = y[i]  BY <1>1, <1>2
<1>4. Executes(n, x)
  <2>1. Executes(n, z)  BY <1>2
  <2>2. Len(x) <= Len(z)  BY <1>1, <1>3
  <2>3. \A i \in 1..Len(x) : x[i] = z[i]  BY <1>1, <1>3
  <2> QED BY <2>1, <2>2, <2>3, ExecPrefix
<1>5. PICK m \in Nonces : m = After(n, x)  BY AfterTyped
<1>6. \A a \in Accounts : m[a] = n[a] + CountOf(x, k, a)  BY <1>1, <1>5, ExecutesCounts
<1>7. Executes(m, y)
  <2>1. SUFFICES ASSUME NEW i \in 1..l
                 PROVE  y[i].nonce = m[y[i].acct] + CountOf(y, i - 1, y[i].acct)
    BY <1>1, ExecutesCounts
  <2>2. PICK a \in Accounts : a = y[i].acct
    <3>1. y[i] \in Requests  BY <1>1
    <3> QED BY <3>1, RequestFacts
  <2>3. k + i \in 1..(k + l) /\ (k + i) - 1 = k + (i - 1) /\ i - 1 \in 0..l /\ i - 1 \in Nat  OBVIOUS
  <2>4. z[k + i].nonce = n[z[k + i].acct] + CountOf(z, (k + i) - 1, z[k + i].acct)
    <3>1. Executes(n, z)  BY <1>2
    <3>2. \A j \in 1..Len(z) : z[j].nonce = n[z[j].acct] + CountOf(z, j - 1, z[j].acct)
      BY <3>1, ExecutesCounts
    <3>3. k + i \in 1..Len(z)  BY <1>3, <2>3
    <3> QED BY <3>2, <3>3
  <2>5. y[i].nonce = n[a] + CountOf(z, k + (i - 1), a)  BY <1>3, <2>2, <2>3, <2>4
  <2>6. CountOf(z, k + (i - 1), a) = CountOf(x, k, a) + CountOf(y, i - 1, a)
    <3>1. Joins(x, k, y, l, z)  BY <1>3 DEF Joins
    <3>2. PICK h \in 0..l : h = i - 1  BY <2>3
    <3>3. CountOf(z, k + h, a) = CountOf(x, k, a) + CountOf(y, h, a)  BY <3>1, CountConcat
    <3> QED BY <3>2, <3>3
  <2>7. CountOf(x, k, a) \in Nat /\ CountOf(y, i - 1, a) \in Nat /\ n[a] \in Nat
    BY <2>3, CountSteps DEF Nonces
  <2>8. y[i].nonce = m[a] + CountOf(y, i - 1, a)  BY <1>6, <2>5, <2>6, <2>7
  <2> QED BY <2>2, <2>8
<1> QED BY <1>4, <1>5, <1>7

\* Withdrawals that execute are all taken again.
LEMMA FinalizeReplays ==
    ASSUME NEW n \in Nonces, NEW p \in PoolType, p.nonce = n, p.wds = <<>>,
           NEW ws \in Seq(Wds), Executes(n, ws)
    PROVE  LET q == FinalizeWithdrawals(p, ws, {})
           IN  q.wds = ws /\ q.nonce = After(n, ws) /\ q.dbTxs = p.dbTxs
<1>1. PICK l \in Nat : l = Len(ws)  OBVIOUS
<1>2. PICK f \in [0..l -> PoolType] : FinalizeRun(p, ws, {}, f)  BY <1>1, FinalizeSteps
<1>3. ws \in Seq(Requests)  BY RequestFacts, WidenSeq
<1>4. \A i \in 1..l : ws[i].nonce = n[ws[i].acct] + CountOf(ws, i - 1, ws[i].acct)
  BY <1>1, <1>3, ExecutesCounts
<1> DEFINE Taken(i) == /\ Len(f[i].wds) = i /\ \A u \in 1..i : f[i].wds[u] = ws[u]
                       /\ \A a \in Accounts : f[i].nonce[a] = n[a] + CountOf(ws, i, a)
                       /\ f[i].dbTxs = p.dbTxs
           T == {i \in 0..l : Taken(i)}
<1>5. 0 \in T
  <2>1. f[0] = p  BY <1>2 DEF FinalizeRun
  <2>2. Len(p.wds) = 0  OBVIOUS
  <2>3. \A a \in Accounts : n[a] = n[a] + CountOf(ws, 0, a)
    <3>1. \A a \in Accounts : n[a] \in Nat  BY DEF Nonces
    <3> QED BY <3>1, CountSteps
  <2> QED BY <2>1, <2>2, <2>3
<1>6. ASSUME NEW i \in 0..l, i < l, i \in T PROVE i + 1 \in T
  <2>1. i + 1 \in 0..l /\ i + 1 \in 1..l /\ (i + 1) - 1 = i /\ i \in Nat  BY <1>6
  <2>2. PICK g \in PoolType, w \in Wds : g = f[i] /\ w = ws[i + 1]  BY <1>1, <2>1
  <2>3. /\ Len(g.wds) = i /\ \A u \in 1..i : g.wds[u] = ws[u]
        /\ \A a \in Accounts : g.nonce[a] = n[a] + CountOf(ws, i, a)
        /\ g.dbTxs = p.dbTxs
    BY <1>6, <2>2
  <2>4. PICK b \in Accounts : b = w.acct  BY <2>2, RequestFacts
  <2>5. w.nonce = g.nonce[w.acct]
    <3>1. ws[i + 1].nonce = n[b] + CountOf(ws, i, b)  BY <1>4, <2>1, <2>2, <2>4
    <3> QED BY <2>2, <2>3, <2>4, <3>1
  <2>6. f[i + 1] = FinalizeWithdrawal(g, w, {})  BY <1>1, <1>2, <2>1, <2>2 DEF FinalizeRun
  <2>7. f[i + 1] = Withdrawn(g, w)  BY <2>5, <2>6, FinalizeFacts
  <2>8. PICK h : h = f[i + 1]  OBVIOUS
  <2>9. /\ h.wds = Append(g.wds, w) /\ h.dbTxs = g.dbTxs
        /\ h.nonce = [g.nonce EXCEPT ![b] = g.nonce[b] + 1]
    BY <2>4, <2>7, <2>8 DEF Withdrawn
  <2>10. PICK v \in Seq(Wds) : v = g.wds  BY DEF PoolType
  <2>11. Len(h.wds) = i + 1 /\ \A u \in 1..(i + 1) : h.wds[u] = ws[u]
    <3>1. Len(v) = i /\ \A u \in 1..i : v[u] = ws[u]  BY <2>3, <2>10
    <3>2. PICK y \in Seq(Wds) : y = Append(v, w)
      <4>1. Append(v, w) \in Seq(Wds)  OBVIOUS
      <4> QED BY <4>1, Zenon
    <3>3. Len(y) = i + 1 /\ y[i + 1] = w /\ \A u \in 1..i : y[u] = v[u]  BY <2>1, <3>1, <3>2
    <3>4. \A u \in 1..(i + 1) : u = i + 1 \/ u \in 1..i  BY <2>1
    <3>5. \A u \in 1..(i + 1) : y[u] = ws[u]  BY <2>2, <3>1, <3>3, <3>4
    <3> QED BY <2>9, <2>10, <3>2, <3>3, <3>5
  <2>12. ASSUME NEW a \in Accounts PROVE h.nonce[a] = n[a] + CountOf(ws, i + 1, a)
    <3>1. CountOf(ws, i + 1, a) = CountOf(ws, i, a) + (IF ws[i + 1].acct = a THEN 1 ELSE 0)
          /\ CountOf(ws, i, a) \in Nat
      BY <2>1, CountSteps
    <3>2. n[a] \in Nat /\ g.nonce \in [Accounts -> Nat]  BY DEF Nonces, PoolType
    <3>3. CASE a = b
      <4>1. h.nonce[a] = g.nonce[a] + 1  BY <2>9, <3>2, <3>3
      <4>2. CountOf(ws, i + 1, a) = CountOf(ws, i, a) + 1  BY <2>2, <2>4, <3>1, <3>3
      <4>3. g.nonce[a] = n[a] + CountOf(ws, i, a)  BY <2>3
      <4> QED BY <3>1, <3>2, <4>1, <4>2, <4>3
    <3>4. CASE a # b
      <4>1. h.nonce[a] = g.nonce[a]  BY <2>9, <3>2, <3>4
      <4>2. CountOf(ws, i + 1, a) = CountOf(ws, i, a)  BY <2>2, <2>4, <3>1, <3>4
      <4>3. g.nonce[a] = n[a] + CountOf(ws, i, a)  BY <2>3
      <4> QED BY <4>1, <4>2, <4>3
    <3> QED BY <3>3, <3>4
  <2>13. h.dbTxs = p.dbTxs  BY <2>3, <2>9
  <2> QED BY <2>1, <2>8, <2>11, <2>12, <2>13
<1>7. l \in T
  <2> HIDE DEF T
  <2>1. \A i \in 0..l : i \in T  BY <1>5, <1>6, NatInd
  <2> QED BY <2>1
<1>8. PICK q \in PoolType : q = f[l] /\ q = FinalizeWithdrawals(p, ws, {})  BY <1>1, <1>2 DEF FinalizeRun
<1>9. /\ Len(q.wds) = l /\ \A u \in 1..l : q.wds[u] = ws[u]
      /\ \A a \in Accounts : q.nonce[a] = n[a] + CountOf(ws, l, a)
      /\ q.dbTxs = p.dbTxs
  BY <1>7, <1>8
<1>10. q.wds = ws
  <2>1. PICK v \in Seq(Wds) : v = q.wds  BY DEF PoolType
  <2>2. Len(v) = Len(ws) /\ \A u \in 1..Len(v) : v[u] = ws[u]  BY <1>1, <1>9, <2>1
  <2>3. v = ws  BY <2>2, SeqEqual
  <2> QED BY <2>1, <2>3
<1>11. q.nonce = After(n, ws)
  <2>1. q.nonce \in [Accounts -> Nat]  BY DEF PoolType
  <2>2. After(n, ws) = [a \in Accounts |-> n[a] + CountOf(ws, l, a)]  BY <1>1, <1>3, ExecutesCounts
  <2>3. q.nonce = [a \in Accounts |-> q.nonce[a]]  BY <2>1
  <2>4. [a \in Accounts |-> q.nonce[a]] = [a \in Accounts |-> n[a] + CountOf(ws, l, a)]  BY <1>9
  <2> QED BY <2>2, <2>3, <2>4
<1> QED BY <1>8, <1>9, <1>10, <1>11

LEMMA NothingKept ==
    ASSUME NEW nonces
    PROVE  CanExecute(nonces, <<>>) = <<>>
<1>1. PICK e \in Seq(Txs) : e = <<>>  BY EmptyOrder, Zenon
<1>2. DOMAIN e = {}  BY <1>1
<1>3. PICK S : CanExecute(nonces, e) = Retain(e, S)  BY DEF CanExecute
<1>4. \A u \in DOMAIN e : e[u] \in S  BY <1>2
<1>5. Retain(e, S) = e  BY <1>4, RetainAll
<1> QED BY <1>1, <1>3, <1>5

LEMMA PushNothing ==
    ASSUME NEW p \in PoolType, NEW failing
    PROVE  PushTransactions(p, <<>>, failing) = p
<1>1. PICK e \in Seq(Txs) : e = <<>>  BY EmptyOrder, Zenon
<1>2. Len(e) = 0  BY <1>1
<1>3. PICK f \in [0..Len(e) -> PoolType] : PushRun(p, e, failing, f)  BY PushSteps
<1>4. PushTransactions(p, e, failing) = f[0] /\ f[0] = p  BY <1>2, <1>3 DEF PushRun
<1> QED BY <1>1, <1>4

\* No stored transaction is dropped when none is pending.
LEMMA NothingDropped ==
    ASSUME NEW p \in PoolType, p.pendTxs = NoneOf, NEW nonces \in Nonces, NEW poor
    PROVE  Emptied(p, nonces, poor).dbTxs = p.dbTxs
<1>1. PICK e \in Seq(Txs) : e = <<>>  BY EmptyOrder, Zenon
<1>2. Len(e) = 0  BY <1>1
<1>3. PICK X : X = LeftTxs(p, nonces)  OBVIOUS
<1>4. ASSUME NEW a \in Accounts PROVE Dropped(p.pendTxs[a], X[a]) = {}
  <2>1. p.pendTxs[a] = e  BY <1>1 DEF NoneOf
  <2>2. PICK m \in Nat : m = nonces[a]  BY DEF Nonces
  <2>3. X[a] = DropLower(e, m)  BY <1>3, <2>1, <2>2 DEF LeftTxs
  <2>4. PICK ks \in Seq(Txs) : ks = DropLower(e, m)
    <3>1. DropLower(e, m) \in Seq(Txs)  BY RequestFacts, DropFacts
    <3> QED BY <3>1, Zenon
  <2>5. PICK c : DropAt(e, m, ks, c)  BY <2>4, RequestFacts, DropFacts
  <2>6. c \in 1..(0 + 1) /\ Len(ks) = 0 - c + 1  BY <1>2, <2>5 DEF DropAt
  <2>7. Len(ks) = 0 /\ Len(ks) <= Len(e)  BY <1>2, <2>6
  <2>8. SUFFICES ASSUME NEW x \in Dropped(e, ks) PROVE FALSE  BY <2>1, <2>3, <2>4
  <2>9. \E u \in 1..(Len(e) - Len(ks)) : x = e[u] /\ u \in DOMAIN e
    <3>1. Len(ks) <= Len(e)  BY <2>7
    <3> QED BY <2>8, <3>1, DroppedFacts, Zenon
  <2> QED BY <1>2, <2>7, <2>9
<1>5. UNION {Dropped(p.pendTxs[a], X[a]) : a \in Accounts} = {}  BY <1>4
<1>6. Emptied(p, nonces, poor).dbTxs = p.dbTxs \ UNION {Dropped(p.pendTxs[a], X[a]) : a \in Accounts}
  BY <1>3, EmptiedFacts
<1> QED BY <1>5, <1>6

\* A reset in recovery mode takes back the stored withdrawals it is given.
LEMMA RecoveryKeeps ==
    ASSUME Store(blocks), tip \in 0..Len(blocks), Unstable = {}, NEW q \in PoolType, PendKept(q),
           q.txs = <<>>, q.pendTxs = NoneOf, \A i \in DOMAIN q.wds : q.wds[i] \in q.dbWds,
           Executes(Post(tip), q.wds), ResetTo(q, <<>>, <<>>, TRUE)
    PROVE  pool'.wds = q.wds /\ pool'.nonce = After(Post(tip), q.wds) /\ pool'.dbTxs = q.dbTxs
<1>1. PICK nonces \in Nonces : nonces = Post(tip)
  <2>1. PostOf(blocks, tip) \in Nonces  BY PostTyped
  <2> QED BY <2>1, PostSame
<1>2a. PICK failing \in Failures : \E poor :
        pool' = PrepareNextMemBlock(Emptied(q, nonces, poor), Stored(q.wds, q.dbWds),
                                    NextTxs(q, <<>>), failing)
  BY <1>1, Zenon DEF ResetTo, Emptied
<1>2. PICK poor :
        pool' = PrepareNextMemBlock(Emptied(q, nonces, poor), Stored(q.wds, q.dbWds),
                                    NextTxs(q, <<>>), failing)
  BY <1>2a, Zenon
<1>3. failing = {}  BY <1>2 DEF Failures
<1>4. PICK ws \in Seq(Wds) : ws = q.wds  BY DEF PoolType
<1>5. Stored(ws, q.dbWds) = ws
  <2>1. \A i \in DOMAIN ws : ws[i] \in q.dbWds  BY <1>4
  <2> QED BY <2>1, RetainAll DEF Stored
<1>6. NextTxs(q, <<>>) = <<>>  BY NothingNext
<1>7. PICK e : e = Emptied(q, nonces, poor)  OBVIOUS
<1>8. e \in PoolType  BY <1>7, EmptiedGood DEF GoodPool
<1>9. e.nonce = nonces /\ e.wds = <<>>  BY <1>7, EmptiedFacts
<1>10. e.dbTxs = q.dbTxs  BY <1>7, NothingDropped
<1>11. PICK r : r = FinalizeWithdrawals(e, ws, {})  OBVIOUS
<1>12. Executes(nonces, ws)  BY <1>1, <1>4
<1>13. r.wds = ws /\ r.nonce = After(nonces, ws) /\ r.dbTxs = e.dbTxs
  BY <1>8, <1>9, <1>11, <1>12, FinalizeReplays
<1>14. r \in PoolType
  <2>1. PICK l \in Nat : l = Len(ws)  OBVIOUS
  <2>2. PICK f \in [0..l -> PoolType] : FinalizeRun(e, ws, {}, f)  BY <1>8, <2>1, FinalizeSteps
  <2> QED BY <1>11, <2>1, <2>2 DEF FinalizeRun
<1>15. pool' = PushTransactions(r, CanExecute(e.nonce, <<>>), failing)
  BY <1>2, <1>3, <1>4, <1>5, <1>6, <1>7, <1>11 DEF PrepareNextMemBlock
<1>16. pool' = r  BY <1>14, <1>15, NothingKept, PushNothing
<1> QED BY <1>1, <1>4, <1>10, <1>13, <1>16

\* A node that was stopped has saved its mem block.
StoppedSaved == st = "stopped" => file = Saved

LEMMA StoppedAlways == Spec => []StoppedSaved
<1>1. Init => StoppedSaved  BY DEF Init, StoppedSaved
<1>2. Inv /\ StoppedSaved /\ [Next]_vars => StoppedSaved'
  <2>1. SUFFICES ASSUME Inv, StoppedSaved, [Next]_vars PROVE StoppedSaved'  OBVIOUS
  <2>2. CASE Start  BY <2>1, <2>2, StartOrder DEF StoppedSaved
  <2>3. CASE NotifyNewTip  BY <2>1, <2>3, NotifyOrder DEF StoppedSaved
  <2>4. CASE PushTx \/ PushWithdrawal \/ RestoreTxs \/ ProduceBlock \/ RevertBlock \/ AttachBlock
    BY <2>4 DEF StoppedSaved, Open, PushTx, PushWithdrawal, RestoreTxs, ProduceBlock, RevertBlock,
        AttachBlock
  <2>5. CASE Kill  BY <2>5 DEF StoppedSaved, Kill
  <2>6. CASE Stop  BY <2>6 DEF StoppedSaved, Stop, Saved
  <2>7. CASE UNCHANGED vars  BY <2>1, <2>7 DEF StoppedSaved, vars, Saved
  <2> QED BY <2>1, <2>2, <2>3, <2>4, <2>5, <2>6, <2>7 DEF Next
<1> QED BY <1>1, <1>2, InvAlways, PTL DEF Spec

LEMMA RestartStep ==
    ASSUME Inv, StoppedSaved, Start, st = "stopped", memTip = tip, restored = <<>>, Unstable = {},
           Range(pool.wds) \subseteq pool.dbWds
    PROVE  /\ pool'.wds = pool.wds
           /\ restored' = pool.txs
           /\ Range(restored') \subseteq pool'.dbTxs
           /\ Executes(pool'.nonce, restored')
<1>1. /\ Store(blocks) /\ tip \in 0..Len(blocks) /\ GoodPool(PostOf(blocks, tip), pool)
      /\ pool \in PoolType /\ file \in FileType
  BY DEF Inv, GoodPool
<1>2. PICK nonces \in Nonces : nonces = Post(tip) /\ nonces = PostOf(blocks, tip)
  <2>1. PostOf(blocks, tip) \in Nonces  BY <1>1, PostTyped
  <2> QED BY <2>1, PostSame
<1>3. PICK ws \in Seq(Wds), ts \in Seq(Txs) : ws = pool.wds /\ ts = pool.txs  BY <1>1 DEF PoolType
<1>4. file.wds = ws /\ file.txs = ts
  <2>1. PICK e \in Seq(Txs) : e = <<>>  BY EmptyOrder, Zenon
  <2>2. PICK S : Saved = [wds |-> ws, txs |-> ts \o Retain(e, S)]  BY <1>3, <2>1 DEF Saved
  <2>3. DOMAIN e = {}  BY <2>1
  <2>4. Retain(e, S) = e
    <3>1. \A u \in DOMAIN e : e[u] \in S  BY <2>3
    <3> QED BY <3>1, RetainAll
  <2>5. ts \o e = ts  BY <2>1
  <2> QED BY <2>2, <2>4, <2>5 DEF StoppedSaved
<1>5. PICK failing \in Failures :
        ResetTo(Reopened(pool, file, nonces, ValidOf(pool, file, nonces, failing)), <<>>, <<>>, TRUE)
  BY <1>1, <1>2, StartFacts
<1>6. PICK valid : valid = ValidOf(pool, file, nonces, failing)  OBVIOUS
<1>7. PICK q : q = Reopened(pool, file, nonces, valid)  OBVIOUS
<1>8. q \in PoolType /\ PendKept(q)  BY <1>1, <1>6, <1>7, ReopenedGood
<1>9. /\ q.wds = ws /\ q.txs = <<>> /\ q.pendTxs = NoneOf
      /\ q.dbWds = pool.dbWds \ ((pool.dbWds \ Range(ws)) \ valid)
      /\ q.dbTxs = pool.dbTxs \cap Range(ts)
  BY <1>4, <1>7 DEF Reopened
<1>10. \A i \in DOMAIN ws : ws[i] \in pool.dbWds /\ ws[i] \in Range(ws)  BY <1>3 DEF Range
<1>11. \A i \in DOMAIN q.wds : q.wds[i] \in q.dbWds  BY <1>9, <1>10
<1>12. PICK x \in Seq(Requests), y \in Seq(Requests) : x = ws /\ y = ts
  <2>1. ws \in Seq(Requests) /\ ts \in Seq(Requests)  BY RequestFacts, WidenSeq
  <2> QED BY <2>1
<1>13. Executes(nonces, x \o y)  BY <1>1, <1>2, <1>3, <1>12 DEF GoodPool, Replays
<1>14. Executes(nonces, ws) /\ Executes(After(nonces, ws), ts)  BY <1>12, <1>13, ExecRest
<1>15. ResetTo(q, <<>>, <<>>, TRUE)  BY <1>5, <1>6, <1>7
<1>16. Executes(Post(tip), q.wds)  BY <1>2, <1>9, <1>14
<1>17. pool'.wds = q.wds /\ pool'.nonce = After(Post(tip), q.wds) /\ pool'.dbTxs = q.dbTxs
  BY <1>1, <1>8, <1>9, <1>11, <1>15, <1>16, RecoveryKeeps
<1>18. restored' = ts  BY <1>4 DEF Start
<1>19. Range(ts) \subseteq pool'.dbTxs
  <2>1. Range(ts) \subseteq pool.dbTxs  BY <1>1, <1>3 DEF GoodPool, TxsKept, Range
  <2> QED BY <1>9, <1>17, <2>1
<1> QED BY <1>2, <1>3, <1>9, <1>14, <1>17, <1>18, <1>19

\* A graceful stop and the next start give the mem block back
\* (RestartKeepsMemBlock): nothing between save_mem_block and the recovery reset of
\* MemPool::create loses, reorders or refuses a request.
THEOREM RestartsKeepMemBlock == Spec => RestartKeepsMemBlock
<1>1. Inv /\ StoppedSaved /\ [Next]_vars =>
        [(/\ st = "stopped" /\ Up' /\ memTip = tip /\ restored = <<>> /\ Unstable = {}
          /\ Range(pool.wds) \subseteq pool.dbWds) =>
             /\ pool'.wds = pool.wds
             /\ restored' = pool.txs
             /\ Range(restored') \subseteq pool'.dbTxs
             /\ Executes(pool'.nonce, restored')]_vars
  <2>1. SUFFICES ASSUME Inv, StoppedSaved, [Next]_vars, st = "stopped", Up', memTip = tip, restored = <<>>,
                        Unstable = {}, Range(pool.wds) \subseteq pool.dbWds
                 PROVE  /\ pool'.wds = pool.wds
                        /\ restored' = pool.txs
                        /\ Range(restored') \subseteq pool'.dbTxs
                        /\ Executes(pool'.nonce, restored')
    OBVIOUS
  <2>2. Start
    <3>1. ~ UNCHANGED vars  BY <2>1 DEF Up, vars
    <3>2. ~ PushTx /\ ~ PushWithdrawal /\ ~ RestoreTxs /\ ~ ProduceBlock /\ ~ RevertBlock /\ ~ AttachBlock
          /\ ~ NotifyNewTip /\ ~ Kill /\ ~ Stop
      BY <2>1 DEF Open, PushTx, PushWithdrawal, RestoreTxs, ProduceBlock, RevertBlock, AttachBlock,
          NotifyNewTip, Kill, Stop
    <3> QED BY <2>1, <3>1, <3>2 DEF Next
  <2> QED BY <2>1, <2>2, RestartStep
<1> QED BY <1>1, InvAlways, StoppedAlways, PTL DEF Spec, RestartKeepsMemBlock

-----------------------------------------------------------------------------
(* What a reset keeps.                                                     *)

LEMMA PoolNonces ==
    ASSUME NEW base \in Nonces, NEW p, GoodPool(base, p)
    PROVE  Transacts(base, p.nonce, p.wds, p.txs) /\ p.nonce \in Nonces
<1>1. p \in PoolType /\ Replays(base, p)  BY DEF GoodPool
<1>2. PICK ws \in Seq(Wds), ts \in Seq(Txs) : ws = p.wds /\ ts = p.txs  BY <1>1 DEF PoolType
<1>3. Executes(base, ws \o ts) /\ p.nonce = After(base, ws \o ts)  BY <1>1, <1>2 DEF Replays
<1>4. Transacts(base, After(base, ws \o ts), ws, ts)  BY <1>3, ExecParts
<1> QED BY <1>1, <1>2, <1>3, <1>4 DEF PoolType, Nonces

\* A pushed transaction leaves those before it and the withdrawals alone.
LEMMA PushKeeps ==
    ASSUME NEW p \in PoolType, NEW t \in Txs, NEW failing, NEW q, q = PushTransaction(p, t, failing)
    PROVE  /\ q.wds = p.wds /\ Len(p.txs) <= Len(q.txs) /\ Range(p.txs) \subseteq Range(q.txs)
           /\ \A a \in Accounts : a # t.acct => q.nonce[a] = p.nonce[a]
<1>1. CASE ~Accepts(p, t, failing)
  <2>1. q = p  BY <1>1, PushFacts
  <2>2. Len(p.txs) \in Nat  BY DEF PoolType
  <2> QED BY <2>1, <2>2
<1>2. CASE Accepts(p, t, failing)
  <2>1. q = Pushed(p, t)  BY <1>2, PushFacts
  <2>2. q.wds = p.wds /\ q.txs = Append(p.txs, t)
        /\ q.nonce = [p.nonce EXCEPT ![t.acct] = p.nonce[t.acct] + 1]
    BY <2>1 DEF Pushed
  <2>3. PICK s \in Seq(Txs), m \in [Accounts -> Nat] : s = p.txs /\ m = p.nonce  BY DEF PoolType
  <2>4. PICK y \in Seq(Txs) : y = Append(s, t)
    <3>1. Append(s, t) \in Seq(Txs)  OBVIOUS
    <3> QED BY <3>1, Zenon
  <2>5. Len(y) = Len(s) + 1 /\ \A i \in 1..Len(s) : y[i] = s[i]  BY <2>4
  <2>6. Len(s) <= Len(y) /\ \A i \in DOMAIN s : i \in DOMAIN y /\ y[i] = s[i]  BY <2>5
  <2>7. Range(s) \subseteq Range(y)  BY <2>6 DEF Range
  <2>8. \A a \in Accounts : a # t.acct => q.nonce[a] = p.nonce[a]  BY <2>2, <2>3
  <2> QED BY <2>2, <2>3, <2>4, <2>6, <2>7, <2>8
<1> QED BY <1>1, <1>2

\* Nothing of account a is missing from xs between the state and its transactions.
Gapless(n, a, xs) ==
    \A i \in DOMAIN xs : xs[i].acct = a =>
        /\ n[a] <= xs[i].nonce
        /\ n[a] < xs[i].nonce => Has(xs, a, xs[i].nonce - 1)

\* The mem block has account a's transactions of the first i of xs, and no nonce of
\* it was used for anything else.
Taken(n, a, xs, i, g) ==
    /\ \A u \in 1..i : xs[u].acct = a => xs[u] \in Range(g.txs)
    /\ g.nonce[a] = n[a] \/ \E u \in 1..i : xs[u].acct = a /\ xs[u].nonce + 1 = g.nonce[a]

Spares(failing, a) == \A r \in failing : r.acct # a

\* One step of the pushes.
LEMMA PushCoversStep ==
    ASSUME NEW n \in Nonces, NEW a \in Accounts, NEW xs \in Seq(Txs), Increasing(xs), Gapless(n, a, xs),
           NEW failing, Spares(failing, a),
           NEW i \in Nat, i < Len(xs), NEW g, GoodPool(n, g), Len(g.txs) < MaxTxs, Taken(n, a, xs, i, g),
           NEW h, h = PushTransaction(g, xs[i + 1], failing)
    PROVE  Taken(n, a, xs, i + 1, h)
<1>1. PICK l \in Nat : l = Len(xs)  OBVIOUS
<1>2. i + 1 \in 1..l /\ i + 1 \in DOMAIN xs /\ \A u \in 1..i : u \in DOMAIN xs /\ u < i + 1 /\ u \in 1..(i + 1)
  BY <1>1
<1>3. \A u \in DOMAIN xs : xs[u] \in Txs /\ xs[u].acct \in Accounts /\ xs[u].nonce \in Nat  BY RequestFacts
<1>4. PICK t \in Txs : t = xs[i + 1]  BY <1>2
<1>5. g \in PoolType  BY DEF GoodPool
<1>6. h = PushTransaction(g, t, failing)  BY <1>4
<1>7. /\ Range(g.txs) \subseteq Range(h.txs)
      /\ \A b \in Accounts : b # t.acct => h.nonce[b] = g.nonce[b]
  BY <1>5, <1>6, PushKeeps
<1>8. \A u \in 1..i : xs[u].acct = a => xs[u] \in Range(h.txs)  BY <1>7 DEF Taken
<1>9. \A u \in 1..(i + 1) : u \in 1..i \/ u = i + 1  OBVIOUS
<1>10. CASE t.acct # a
  <2>1. h.nonce[a] = g.nonce[a]  BY <1>7, <1>10
  <2>2. \A u \in 1..(i + 1) : xs[u].acct = a => xs[u] \in Range(h.txs)  BY <1>4, <1>8, <1>9, <1>10
  <2>3. h.nonce[a] = n[a] \/ \E u \in 1..(i + 1) : xs[u].acct = a /\ xs[u].nonce + 1 = h.nonce[a]
    BY <1>2, <2>1 DEF Taken
  <2> QED BY <2>2, <2>3 DEF Taken
<1>11. CASE t.acct = a
  <2>1. PICK m \in Nat, b \in Nat, c \in Nat : m = t.nonce /\ b = n[a] /\ c = g.nonce[a]
    BY <1>5, RequestFacts DEF PoolType, Nonces
  <2>2. Transacts(n, g.nonce, g.wds, g.txs)  BY PoolNonces
  <2>3. b <= c  BY <2>1, <2>2 DEF Transacts, Below
  <2>4. \A x \in Range(g.txs) : x.acct = a => x.nonce < c  BY <2>1, <2>2 DEF Transacts, Within, Range
  <2>5. b <= m /\ (b < m => Has(xs, a, m - 1))  BY <1>2, <1>4, <1>11, <2>1 DEF Gapless
  <2>6. ASSUME NEW u \in 1..i, xs[u].acct = a PROVE xs[u].nonce < m /\ xs[u].nonce \in Nat
    <3>1. u \in DOMAIN xs /\ i + 1 \in DOMAIN xs /\ u < i + 1  BY <1>2
    <3>2. xs[u].acct = xs[i + 1].acct  BY <1>4, <1>11, <2>6
    <3> QED BY <1>3, <1>4, <2>1, <3>1, <3>2 DEF Increasing
  <2>7. ~(m < c)
    <3>1. SUFFICES ASSUME m < c PROVE FALSE  OBVIOUS
    <3>2. b # c  BY <2>5, <3>1
    <3>3. PICK u \in 1..i : xs[u].acct = a /\ xs[u].nonce + 1 = c  BY <2>1, <3>2 DEF Taken
    <3>4. xs[u].nonce < m /\ xs[u].nonce \in Nat  BY <2>6, <3>3
    <3> QED BY <3>1, <3>3, <3>4
  <2>8. ~(c < m)
    <3>1. SUFFICES ASSUME c < m PROVE FALSE  OBVIOUS
    <3>2. Has(xs, a, m - 1)  BY <2>3, <2>5, <3>1
    <3>3. PICK v \in DOMAIN xs : xs[v].acct = a /\ xs[v].nonce = m - 1  BY <3>2 DEF Has
    <3>4. v \in 1..i
      <4>1. SUFFICES ASSUME v > i PROVE FALSE  BY <1>1
      <4>2. v # i + 1  BY <1>4, <2>1, <3>3
      <4>3. i + 1 < v  BY <1>1, <4>1, <4>2
      <4>4. xs[i + 1].nonce < xs[v].nonce  BY <1>2, <1>4, <1>11, <3>3, <4>3 DEF Increasing
      <4>5. m < m - 1  BY <1>4, <2>1, <3>3, <4>4
      <4> QED BY <4>5
    <3>5. xs[v] \in Range(g.txs)  BY <3>3, <3>4 DEF Taken
    <3>6. m - 1 < c  BY <2>4, <3>3, <3>5
    <3> QED BY <3>1, <3>6
  <2>9. m = c  BY <2>7, <2>8
  <2>10. t \notin Range(g.txs)
    <3>1. SUFFICES ASSUME t \in Range(g.txs) PROVE FALSE  OBVIOUS
    <3>2. m < c  BY <1>11, <2>1, <2>4, <3>1
    <3> QED BY <2>9, <3>2
  <2>11. t \notin failing  BY <1>11 DEF Spares
  <2>12. Accepts(g, t, failing)  BY <1>11, <2>1, <2>9, <2>10, <2>11 DEF Accepts
  <2>13. h = Pushed(g, t)  BY <1>5, <1>6, <2>12, PushFacts
  <2>14. h.txs = Append(g.txs, t) /\ h.nonce = [g.nonce EXCEPT ![t.acct] = g.nonce[t.acct] + 1]
    BY <2>13 DEF Pushed
  <2>15. t \in Range(h.txs)
    <3>1. PICK s \in Seq(Txs) : s = g.txs  BY <1>5 DEF PoolType
    <3>2. PICK y \in Seq(Txs) : y = Append(s, t)
      <4>1. Append(s, t) \in Seq(Txs)  OBVIOUS
      <4> QED BY <4>1, Zenon
    <3>3. y[Len(s) + 1] = t /\ Len(s) + 1 \in DOMAIN y  BY <3>2
    <3> QED BY <2>14, <3>1, <3>2, <3>3 DEF Range
  <2>16. h.nonce[a] = m + 1
    <3>1. g.nonce \in [Accounts -> Nat]  BY <1>5 DEF PoolType
    <3> QED BY <1>11, <2>1, <2>9, <2>14, <3>1
  <2>17. \A u \in 1..(i + 1) : xs[u].acct = a => xs[u] \in Range(h.txs)  BY <1>4, <1>8, <1>9, <2>15
  <2>18. xs[i + 1].acct = a /\ xs[i + 1].nonce + 1 = h.nonce[a]  BY <1>4, <1>11, <2>1, <2>16
  <2>19. i + 1 \in 1..(i + 1)  OBVIOUS
  <2> QED BY <2>17, <2>18, <2>19 DEF Taken
<1> QED BY <1>10, <1>11

\* While the mem block has room, every push of account a's transactions goes through.
LEMMA PushCovers ==
    ASSUME NEW n \in Nonces, NEW a \in Accounts, NEW xs \in Seq(Txs), Increasing(xs), Gapless(n, a, xs),
           NEW failing, Spares(failing, a), NEW p, GoodPool(n, p), p.nonce[a] = n[a],
           NEW q, q = PushTransactions(p, xs, failing), Len(q.txs) < MaxTxs
    PROVE  \A u \in DOMAIN xs : xs[u].acct = a => xs[u] \in Range(q.txs)
<1>1. PICK l \in Nat : l = Len(xs) /\ DOMAIN xs = 1..l  OBVIOUS
<1>2. PICK f \in [0..l -> PoolType] : PushRun(p, xs, failing, f)  BY <1>1, PushSteps DEF GoodPool
<1>3. f[0] = p /\ f[l] = q  BY <1>1, <1>2 DEF PushRun
<1>4. ASSUME NEW i \in 0..l, i < l
      PROVE  /\ i + 1 \in 0..l /\ i + 1 \in 1..l /\ xs[i + 1] \in Txs
             /\ f[i] \in PoolType /\ f[i + 1] \in PoolType
             /\ f[i + 1] = PushTransaction(f[i], xs[i + 1], failing)
  <2>1. i + 1 \in 0..l /\ i + 1 \in 1..l /\ (i + 1) - 1 = i  BY <1>4
  <2>2. f[i + 1] = PushTransaction(f[i], xs[i + 1], failing)  BY <1>1, <1>2, <2>1 DEF PushRun
  <2> QED BY <1>1, <1>2, <2>1, <2>2
<1>5. \A i \in 0..l : Len(f[i].txs) \in Nat  BY <1>2 DEF PoolType
<1> DEFINE Longest(i) == \A j \in 0..i : Len(f[j].txs) <= Len(f[i].txs)
           L == {i \in 0..l : Longest(i)}
<1>6. 0 \in L
  <2>1. \A j \in 0..0 : j = 0  OBVIOUS
  <2>2. 0 \in 0..l  OBVIOUS
  <2> QED BY <1>3, <1>5, <2>1, <2>2
<1>7. ASSUME NEW i \in 0..l, i < l, i \in L PROVE i + 1 \in L
  <2>1. Len(f[i].txs) <= Len(f[i + 1].txs)  BY <1>4, <1>7, PushKeeps
  <2>2. \A j \in 0..i : Len(f[j].txs) <= Len(f[i].txs)  BY <1>7
  <2>3. i + 1 \in 0..l  BY <1>7
  <2>4. ASSUME NEW j \in 0..(i + 1) PROVE Len(f[j].txs) <= Len(f[i + 1].txs)
    <3>1. j \in 0..l /\ (j \in 0..i \/ j = i + 1)  BY <2>3
    <3>2. Len(f[j].txs) \in Nat /\ Len(f[i].txs) \in Nat /\ Len(f[i + 1].txs) \in Nat
      BY <1>5, <2>3, <3>1
    <3>3. CASE j \in 0..i
      <4>1. Len(f[j].txs) <= Len(f[i].txs)  BY <2>2, <3>3
      <4> QED BY <2>1, <3>2, <4>1, SMTT(60)
    <3>4. CASE j = i + 1  BY <3>2, <3>4
    <3> QED BY <3>1, <3>3, <3>4
  <2> QED BY <2>3, <2>4
<1>8. l \in L
  <2> HIDE DEF L
  <2>1. \A i \in 0..l : i \in L  BY <1>6, <1>7, NatInd
  <2> QED BY <2>1
<1>9. \A i \in 0..l : Len(f[i].txs) < MaxTxs
  <2>1. SUFFICES ASSUME NEW i \in 0..l PROVE Len(f[i].txs) < MaxTxs  OBVIOUS
  <2>2. Len(f[i].txs) <= Len(f[l].txs)  BY <1>8
  <2>3. l \in 0..l  OBVIOUS
  <2>4. Len(f[i].txs) \in Nat /\ Len(f[l].txs) \in Nat /\ MaxTxs \in Nat  BY <1>5, <2>3, MemPoolAssumption
  <2> QED BY <1>3, <2>2, <2>4
<1> DEFINE T == {i \in 0..l : GoodPool(n, f[i]) /\ Taken(n, a, xs, i, f[i])}
<1>10. 0 \in T
  <2>1. \A u \in 1..0 : FALSE  OBVIOUS
  <2>2. 0 \in 0..l  OBVIOUS
  <2>3. GoodPool(n, f[0]) /\ f[0].nonce[a] = n[a]  BY <1>3
  <2> QED BY <2>1, <2>2, <2>3 DEF Taken
<1>11. ASSUME NEW i \in 0..l, i < l, i \in T PROVE i + 1 \in T
  <2>1. GoodPool(n, f[i]) /\ Taken(n, a, xs, i, f[i])  BY <1>11
  <2>2. PICK g, h : g = f[i] /\ h = f[i + 1]  OBVIOUS
  <2>3. h = PushTransaction(g, xs[i + 1], failing) /\ xs[i + 1] \in Txs /\ i + 1 \in 0..l
    BY <1>4, <1>11, <2>2
  <2>4. GoodPool(n, g)  BY <2>1, <2>2
  <2>5. GoodPool(n, h)  BY <2>3, <2>4, PushGood
  <2>6. Taken(n, a, xs, i, g)  BY <2>1, <2>2
  <2>7. i \in Nat /\ i < Len(xs) /\ Len(g.txs) < MaxTxs  BY <1>1, <1>9, <1>11, <2>2
  <2>8. Taken(n, a, xs, i + 1, h)  BY <2>3, <2>4, <2>6, <2>7, PushCoversStep
  <2> QED BY <2>2, <2>3, <2>5, <2>8
<1>12. l \in T
  <2> HIDE DEF T
  <2>1. \A i \in 0..l : i \in T  BY <1>10, <1>11, NatInd
  <2> QED BY <2>1
<1>13. \A u \in 1..l : xs[u].acct = a => xs[u] \in Range(q.txs)  BY <1>3, <1>12 DEF Taken
<1> QED BY <1>1, <1>13

LEMMA PushAllWds ==
    ASSUME NEW p \in PoolType, NEW xs \in Seq(Txs), NEW failing
    PROVE  PushTransactions(p, xs, failing).wds = p.wds
<1>1. PICK l \in Nat : l = Len(xs) /\ DOMAIN xs = 1..l  OBVIOUS
<1>2. PICK f \in [0..l -> PoolType] : PushRun(p, xs, failing, f)  BY <1>1, PushSteps
<1> DEFINE T == {i \in 0..l : f[i].wds = p.wds}
<1>3. 0 \in T  BY <1>2 DEF PushRun
<1>4. ASSUME NEW i \in 0..l, i < l, i \in T PROVE i + 1 \in T
  <2>1. i + 1 \in 0..l /\ i + 1 \in 1..l /\ (i + 1) - 1 = i  BY <1>4
  <2>2. f[i + 1] = PushTransaction(f[i], xs[i + 1], failing)  BY <1>1, <1>2, <2>1 DEF PushRun
  <2>3. f[i] \in PoolType /\ xs[i + 1] \in Txs  BY <1>1, <1>2, <2>1
  <2>4. f[i + 1].wds = f[i].wds  BY <2>2, <2>3, PushKeeps
  <2> QED BY <1>4, <2>1, <2>4
<1>5. l \in T
  <2> HIDE DEF T
  <2>1. \A i \in 0..l : i \in T  BY <1>3, <1>4, NatInd
  <2> QED BY <2>1
<1> QED BY <1>1, <1>2, <1>5 DEF PushRun

\* A mem block without requests of account a leaves its nonce alone.
LEMMA IdleNonce ==
    ASSUME NEW n \in Nonces, NEW a \in Accounts, NEW p, GoodPool(n, p), p.txs = <<>>,
           \A i \in DOMAIN p.wds : p.wds[i].acct # a
    PROVE  p.nonce[a] = n[a]
<1>1. Transacts(n, p.nonce, p.wds, p.txs) /\ p.nonce \in Nonces  BY PoolNonces
<1>2. PICK b \in Nat, c \in Nat : b = n[a] /\ c = p.nonce[a]  BY <1>1 DEF Nonces
<1>3. b <= c  BY <1>1, <1>2 DEF Transacts, Below
<1>4. SUFFICES ASSUME b < c PROVE FALSE  BY <1>2, <1>3
<1>5. Has(p.wds, a, b) \/ Has(p.txs, a, b)  BY <1>1, <1>2, <1>4 DEF Transacts, Covered
<1>6. DOMAIN p.txs = {}  OBVIOUS
<1> QED BY <1>5, <1>6 DEF Has

\* The transactions ts supply every nonce of account a between the state n and
\* the transactions themselves.
Supplied(n, a, ts) ==
    \A i \in DOMAIN ts : ts[i].acct = a /\ n[a] < ts[i].nonce => Has(ts, a, ts[i].nonce - 1)

LEMMA PrepareCovers ==
    ASSUME NEW n \in Nonces, NEW a \in Accounts, NEW p, GoodPool(n, p), p.txs = <<>>, p.nonce = n,
           NEW ws \in Seq(Wds), NEW ts \in Seq(Txs), Increasing(ts), Supplied(n, a, ts),
           NEW failing, Spares(failing, a),
           NEW q, q = PrepareNextMemBlock(p, ws, ts, failing), Len(q.txs) < MaxTxs,
           \A i \in DOMAIN q.wds : q.wds[i].acct # a
    PROVE  \A u \in DOMAIN ts : ts[u].acct = a /\ n[a] <= ts[u].nonce => ts[u] \in Range(q.txs)
<1>1. PICK S : S = {r \in Requests : r.nonce >= n[r.acct]}  OBVIOUS
<1>2. PICK xs \in Seq(Txs) : xs = Retain(ts, S)
  <2>1. Retain(ts, S) \in Seq(Txs)  BY RetainTyped
  <2> QED BY <2>1, Zenon
<1>3. PICK w : w = FinalizeWithdrawals(p, ws, failing)  OBVIOUS
<1>4. GoodPool(n, w) /\ w.txs = <<>> /\ w \in PoolType  BY <1>3, FinalizeAllGood DEF GoodPool
<1>5. q = PushTransactions(w, xs, failing)  BY <1>1, <1>2, <1>3 DEF PrepareNextMemBlock, CanExecute
<1>6. q.wds = w.wds  BY <1>4, <1>5, PushAllWds
<1>7. w.nonce[a] = n[a]  BY <1>4, <1>6, IdleNonce
<1>8. Increasing(xs)  BY <1>2, RetainOrder
<1>9. PICK l \in Nat : l = Len(ts) /\ DOMAIN ts = 1..l  OBVIOUS
<1>10. FromPart(ts, S, l, xs) /\ AllOfPart(ts, S, l, xs)  BY <1>2, <1>9, RetainFacts DEF RetainedFrom
<1>11. \A u \in 1..l : ts[u] \in Requests /\ ts[u].nonce \in Nat /\ ts[u].acct \in Accounts
  BY <1>9, RequestFacts
<1>12. PICK b \in Nat : b = n[a]  BY DEF Nonces
<1>13. ASSUME NEW u \in 1..l, ts[u].acct = a, b <= ts[u].nonce
       PROVE  \E i \in DOMAIN xs : xs[i] = ts[u]
  <2>1. ts[u] \in S  BY <1>1, <1>11, <1>12, <1>13
  <2> QED BY <1>10, <2>1 DEF AllOfPart
<1>14. Gapless(n, a, xs)
  <2>1. SUFFICES ASSUME NEW i \in DOMAIN xs, xs[i].acct = a
                 PROVE  b <= xs[i].nonce /\ (b < xs[i].nonce => Has(xs, a, xs[i].nonce - 1))
    BY <1>12 DEF Gapless
  <2>2. PICK u \in 1..l : xs[i] = ts[u] /\ ts[u] \in S  BY <1>10 DEF FromPart
  <2>3. PICK m \in Nat : m = xs[i].nonce  BY <1>11, <2>2
  <2>4. b <= m  BY <1>1, <1>12, <2>1, <2>2, <2>3
  <2>5. ASSUME b < m PROVE Has(xs, a, m - 1)
    <3>1. ts[u].acct = a /\ n[a] < ts[u].nonce /\ ts[u].nonce = m  BY <1>12, <2>1, <2>2, <2>3, <2>5
    <3>2. Has(ts, a, m - 1)  BY <1>9, <3>1 DEF Supplied
    <3>3. PICK v \in 1..l : ts[v].acct = a /\ ts[v].nonce = m - 1  BY <1>9, <3>2 DEF Has
    <3>4. b <= ts[v].nonce  BY <2>3, <2>5, <3>3
    <3>5. PICK j \in DOMAIN xs : xs[j] = ts[v]  BY <1>13, <3>3, <3>4
    <3> QED BY <3>3, <3>5 DEF Has
  <2> QED BY <2>3, <2>4, <2>5
<1>15. \A i \in DOMAIN xs : xs[i].acct = a => xs[i] \in Range(q.txs)
  BY <1>4, <1>5, <1>7, <1>8, <1>14, PushCovers
<1>16. SUFFICES ASSUME NEW u \in 1..l, ts[u].acct = a, b <= ts[u].nonce PROVE ts[u] \in Range(q.txs)
  BY <1>9, <1>12
<1>17. PICK i \in DOMAIN xs : xs[i] = ts[u]  BY <1>13, <1>16
<1> QED BY <1>15, <1>16, <1>17

LEMMA ResetCovers ==
    ASSUME Store(blocks), tip \in 0..Len(blocks), NEW p \in PoolType, PendKept(p),
           NEW wds \in Seq(Wds), NEW txs, ResetTo(p, wds, txs, FALSE),
           NEW ts \in Seq(Txs), ts = NextTxs(p, txs), Increasing(ts),
           NEW n \in Nonces, n = PostOf(blocks, tip), NEW a \in Accounts, Supplied(n, a, ts),
           Spares(Unstable, a), Len(pool'.txs) < MaxTxs,
           \A i \in DOMAIN pool'.wds : pool'.wds[i].acct # a
    PROVE  \A u \in DOMAIN ts : ts[u].acct = a /\ n[a] <= ts[u].nonce => ts[u] \in Range(pool'.txs)
<1>1. n = Post(tip)  BY PostSame
<1>2a. PICK failing \in Failures, order \in SetToSeqs(Accounts) : \E poor :
        pool' = PrepareNextMemBlock(Emptied(p, n, poor), PackageMore(Emptied(p, n, poor), n, wds, order),
                                    NextTxs(p, txs), failing)
  BY <1>1, Zenon DEF ResetTo, Emptied
<1>2. PICK poor :
        pool' = PrepareNextMemBlock(Emptied(p, n, poor), PackageMore(Emptied(p, n, poor), n, wds, order),
                                    NextTxs(p, txs), failing)
  BY <1>2a, Zenon
<1>3. PICK q : q = Emptied(p, n, poor)  OBVIOUS
<1>4. GoodPool(n, q) /\ q.txs = <<>>  BY <1>3, EmptiedGood
<1>5. q \in PoolType /\ q.nonce = n  BY <1>3, <1>4, EmptiedFacts DEF GoodPool
<1>6. PICK ws \in Seq(Wds) : ws = PackageMore(q, n, wds, order)
  <2>1. PackageMore(q, n, wds, order) \in Seq(Wds)  BY <1>2, <1>5, PackageTyped
  <2> QED BY <2>1, Zenon
<1>7. Spares(failing, a)  BY <1>2 DEF Spares, Failures
<1>8. pool' = PrepareNextMemBlock(q, ws, ts, failing)  BY <1>2, <1>3, <1>6
<1>9. PICK z : z = pool'  OBVIOUS
<1>10. z = PrepareNextMemBlock(q, ws, ts, failing) /\ Len(z.txs) < MaxTxs
       /\ \A i \in DOMAIN z.wds : z.wds[i].acct # a
  BY <1>8, <1>9
<1>11. \A u \in DOMAIN ts : ts[u].acct = a /\ n[a] <= ts[u].nonce => ts[u] \in Range(z.txs)
  BY <1>4, <1>5, <1>7, <1>10, PrepareCovers
<1> QED BY <1>9, <1>11

\* The abandoned transactions and the mem block have every nonce of account a
\* between the state of the new tip and that of the mem block.
LEMMA NextSupplied ==
    ASSUME NEW base \in Nonces, NEW p, GoodPool(base, p), NEW txs \in Seq(Txs),
           \A i \in DOMAIN txs : txs[i].nonce < base[txs[i].acct],
           NEW n \in Nonces, NEW a \in Accounts, \A i \in DOMAIN p.wds : p.wds[i].acct # a,
           \A c \in Nat : n[a] <= c /\ c < base[a] => Has(txs, a, c),
           NEW ts \in Seq(Txs), ts = txs \o p.txs
    PROVE  Supplied(n, a, ts)
<1>1. Transacts(base, p.nonce, p.wds, p.txs) /\ p.nonce \in Nonces  BY PoolNonces
<1>2. PICK x \in Seq(Txs), y \in Seq(Txs) : x = txs /\ y = p.txs  BY DEF GoodPool, PoolType
<1>3. PICK k \in Nat, l \in Nat : k = Len(x) /\ l = Len(y) /\ DOMAIN x = 1..k /\ DOMAIN y = 1..l  OBVIOUS
<1>4. DOMAIN ts = 1..(k + l) /\ (\A i \in 1..k : ts[i] = x[i]) /\ \A i \in 1..l : ts[k + i] = y[i]
  <2>1. ts = x \o y  BY <1>2
  <2> QED BY <1>3, <2>1
<1>5. PICK b \in Nat, c \in Nat, d \in Nat : b = base[a] /\ c = p.nonce[a] /\ d = n[a]
  BY <1>1 DEF Nonces
<1>6. b <= c  BY <1>1, <1>5 DEF Transacts, Below
<1>7. \A m \in Nat : Has(x, a, m) => Has(ts, a, m)
  <2>1. \A i \in 1..k : i \in 1..(k + l)  OBVIOUS
  <2> QED BY <1>3, <1>4, <2>1 DEF Has
<1>8. \A m \in Nat : Has(y, a, m) => Has(ts, a, m)
  <2>1. SUFFICES ASSUME NEW m \in Nat, NEW i \in 1..l, y[i].acct = a, y[i].nonce = m PROVE Has(ts, a, m)
    BY <1>3 DEF Has
  <2>2. PICK j \in 1..(k + l) : j = k + i  OBVIOUS
  <2>3. ts[j] = y[i]  BY <1>4, <2>2
  <2> QED BY <1>4, <2>1, <2>3 DEF Has
<1>9. SUFFICES ASSUME NEW i \in 1..(k + l), ts[i].acct = a, n[a] < ts[i].nonce
               PROVE  Has(ts, a, ts[i].nonce - 1)
  BY <1>4 DEF Supplied
<1>10. PICK m \in Nat : m = ts[i].nonce
  <2>1. ts[i] \in Txs  BY <1>4
  <2> QED BY <2>1, RequestFacts
<1>11. m < c
  <2>1. CASE i \in 1..k
    <3>1. x[i].acct = a /\ x[i].nonce = m  BY <1>4, <1>9, <1>10, <2>1
    <3>2. m < b  BY <1>2, <1>3, <1>5, <2>1, <3>1
    <3> QED BY <1>6, <3>2
  <2>2. CASE i \notin 1..k
    <3>1. PICK j : j = i - k  OBVIOUS
    <3>2. j \in 1..l /\ k + j = i  BY <2>2, <3>1
    <3>3. y[j].acct = a /\ y[j].nonce = m  BY <1>4, <1>9, <1>10, <3>2
    <3> QED BY <1>1, <1>2, <1>3, <1>5, <3>2, <3>3 DEF Transacts, Within
  <2> QED BY <2>1, <2>2
<1>12. PICK h \in Nat : h = m - 1 /\ d <= h /\ h < c
  <2>1. d < m  BY <1>5, <1>9, <1>10
  <2>2. m - 1 \in Nat /\ d <= m - 1 /\ m - 1 < c  BY <1>11, <2>1
  <2> QED BY <2>2
<1>13. CASE h < b
  <2>1. Has(x, a, h)  BY <1>2, <1>5, <1>12, <1>13
  <2> QED BY <1>7, <1>10, <1>12, <2>1
<1>14. CASE ~(h < b)
  <2>1. base[a] <= h /\ h < p.nonce[a]  BY <1>5, <1>12, <1>14
  <2>2. Has(p.wds, a, h) \/ Has(p.txs, a, h)  BY <1>1, <2>1 DEF Transacts, Covered
  <2>3. Has(y, a, h)  BY <1>2, <2>2 DEF Has
  <2> QED BY <1>8, <1>10, <1>12, <2>3
<1> QED BY <1>13, <1>14

\* Every nonce an account has used on a branch is that of a request of some block.
LEMMA BranchCovers ==
    ASSUME Store(blocks), NEW b \in 0..Len(blocks), NEW o, o = Branch(b), NEW a \in Accounts, NEW c \in Nat,
           c < PostOf(blocks, b)[a]
    PROVE  \E p \in 1..Len(o) : Has(blocks[o[p]].wds, a, c) \/ Has(blocks[o[p]].txs, a, c)
<1>1. PICK N : NoncesOf(b, o, N)  BY BranchNonces
<1>2. PICK l \in Nat : l = Len(o)
  <2>1. o \in Seq(1..Len(blocks))  BY BranchFacts DEF ChainTo
  <2> QED BY <2>1
<1>3. \A p \in 0..l : N[p] \in Nonces /\ N[p][a] \in Nat  BY <1>1, <1>2 DEF NoncesOf, Chained, Nonces
<1>4. N[0][a] = 0 /\ c < N[l][a]  BY <1>1, <1>2 DEF NoncesOf, ZeroNonces
<1> DEFINE T == {p \in 0..l : c < N[p][a]}
<1>5. PICK x \in T : \A y \in T : x <= y
  <2>1. l \in T  BY <1>4
  <2>2. T \subseteq Nat /\ T # {}  BY <2>1
  <2> HIDE DEF T
  <2> QED BY <2>2, LeastNat
<1>6. x \in 0..l /\ c < N[x][a]  BY <1>5
<1>7. x # 0  BY <1>4, <1>6
<1>8. PICK y \in 0..l : y = x - 1  BY <1>6, <1>7
<1>9. N[y][a] <= c
  <2>1. y \notin T  BY <1>5, <1>6, <1>8
  <2>2. ~(c < N[y][a])  BY <2>1
  <2> QED BY <1>3, <2>2
<1>10. x \in 1..l  BY <1>6, <1>7
<1>11. Transacts(N[y], N[x], blocks[o[x]].wds, blocks[o[x]].txs)  BY <1>1, <1>2, <1>8, <1>10 DEF NoncesOf
<1>12. Has(blocks[o[x]].wds, a, c) \/ Has(blocks[o[x]].txs, a, c)
  BY <1>6, <1>9, <1>11 DEF Transacts, Covered
<1> QED BY <1>2, <1>10, <1>12

\* A transaction of the old branch that the new one has not overtaken is reinjected.
LEMMA ReinjectKeeps ==
    ASSUME Store(blocks), NEW old \in 0..Len(blocks), NEW new \in 0..Len(blocks), NEW o, o = Branch(old),
           NEW p \in 1..Len(o), NEW u \in DOMAIN blocks[o[p]].txs,
           NEW t, t = blocks[o[p]].txs[u], PostOf(blocks, new)[t.acct] <= t.nonce,
           NEW ts, ts = ReinjectTxs(old, new)
    PROVE  \E i \in DOMAIN ts : ts[i] = t
<1>1. PICK n \in Nat : n = Len(blocks)  BY DEF Store
<1>2. o \in Seq(1..n)  BY <1>1, BranchFacts DEF ChainTo
<1>3. PICK r \in Seq(1..n) : r = Branch(new)
  <2>1. Branch(new) \in Seq(1..n)  BY <1>1, BranchFacts DEF ChainTo
  <2> QED BY <2>1, Zenon
<1>4. PICK l \in Nat, m \in Nat : l = Len(o) /\ m = Len(r)  BY <1>2
<1>5. PICK k \in Nat : k = ForkNumber(o, r) /\ (k = 0 \/ (k \in 1..l /\ k \in 1..m /\ o[k] = r[k]))
  BY <1>2, <1>4, ForkTyped
<1>6. k <= l /\ k <= m /\ k \in 0..l /\ k \in 0..m  BY <1>5
<1>7. PICK N : NoncesOf(old, o, N)  BY BranchNonces
<1>8. PICK M : NoncesOf(new, r, M)  BY <1>3, BranchNonces
<1>9. Chained(l, N) /\ Chained(m, M) /\ M[m] = PostOf(blocks, new)  BY <1>4, <1>7, <1>8 DEF NoncesOf
<1>10. N[k] = M[k]
  <2>1. CASE k = 0  BY <1>7, <1>8, <2>1 DEF NoncesOf
  <2>2. CASE k # 0
    <3>1. k \in 1..l /\ k \in 1..m /\ o[k] = r[k]  BY <1>5, <2>2
    <3> QED BY <1>4, <1>7, <1>8, <3>1 DEF NoncesOf
  <2> QED BY <2>1, <2>2
<1>11. t \in Txs /\ t \in Requests /\ t.acct \in Accounts /\ t.nonce \in Nat
  <2>1. o[p] \in 1..n  BY <1>2
  <2>2. blocks[o[p]] \in BlockType  BY <1>1, <2>1 DEF Store
  <2>3. blocks[o[p]].txs \in Seq(Txs)  BY <2>2 DEF BlockType
  <2>4. t \in Txs  BY <2>3
  <2> QED BY <2>4, RequestFacts
<1>12. k < p
  <2>1. SUFFICES ASSUME p <= k PROVE FALSE  BY <1>4, <1>5
  <2>2. p \in 0..l  BY <1>4
  <2>3. Below(N[p], N[k])  BY <1>6, <1>9, <2>1, <2>2, ChainMonotone
  <2>4. m \in 0..m  OBVIOUS
  <2>5. Below(M[k], M[m])  BY <1>6, <1>9, <2>4, ChainMonotone
  <2>6. Within(N[p-1], N[p], blocks[o[p]].txs)  BY <1>7 DEF NoncesOf, Transacts
  <2>7. PICK c \in Nat, d \in Nat, e \in Nat : c = N[p][t.acct] /\ d = N[k][t.acct] /\ e = M[m][t.acct]
    BY <1>6, <1>9, <1>11, <2>2, <2>4 DEF Chained, Nonces
  <2>8. t.nonce < c  BY <2>6, <2>7 DEF Within
  <2>9. c <= d  BY <1>11, <2>3, <2>7 DEF Below
  <2>10. d <= e  BY <1>10, <1>11, <2>5, <2>7 DEF Below
  <2>11. e <= t.nonce  BY <1>9, <2>7
  <2> QED BY <1>11, <2>8, <2>9, <2>10, <2>11, SMTT(60)
<1>13. PICK xs : xs = TransactionsOf(SubSeq(o, k + 1, Len(o)))  OBVIOUS
<1>14. xs \in Seq(Txs) /\ AboveAll(o, k, xs)  BY <1>4, <1>6, <1>7, <1>13, AboveFacts
<1>15. PICK ys : ys = TransactionsOf(SubSeq(r, k + 1, Len(r)))  OBVIOUS
<1>16. ys \in Seq(Txs) /\ Within(M[k], PostOf(blocks, new), ys)
  BY <1>3, <1>4, <1>6, <1>8, <1>15, AboveFacts
<1>17. t \notin Range(ys)
  <2>1. SUFFICES ASSUME NEW i \in DOMAIN ys, ys[i] = t PROVE FALSE  BY DEF Range
  <2>2. t.nonce < PostOf(blocks, new)[t.acct]  BY <1>16, <2>1 DEF Within
  <2>3. PostOf(blocks, new)[t.acct] \in Nat  BY <1>11, PostTyped DEF Nonces
  <2> QED BY <1>11, <2>2, <2>3
<1>18. PICK S : S = Requests \ Range(ys)  OBVIOUS
<1>19. ts = Retain(xs, S)  BY <1>3, <1>5, <1>13, <1>15, <1>18, Zenon DEF ReinjectTxs
<1>20. PICK i \in DOMAIN xs : xs[i] = t
  <2>1. p \in (k + 1)..Len(o)  BY <1>4, <1>12
  <2> QED BY <1>14, <2>1 DEF AboveAll
<1>21. i \in 1..Len(xs) /\ xs[i] \in S  BY <1>11, <1>14, <1>17, <1>18, <1>20
<1>22. AllOfPart(xs, S, Len(xs), ts)  BY <1>14, <1>19, RetainFacts DEF RetainedFrom
<1> QED BY <1>20, <1>21, <1>22 DEF AllOfPart

\* The requests of a branch are those of its blocks.
LEMMA BranchRequests ==
    ASSUME Store(blocks), NEW b \in 0..Len(blocks), NEW o, o = Branch(b)
    PROVE  /\ \A t \in Range(TransactionsOf(o)) : \E p \in 1..Len(o) : \E u \in DOMAIN blocks[o[p]].txs :
                  t = blocks[o[p]].txs[u]
           /\ \A p \in 1..Len(o) : \A u \in DOMAIN blocks[o[p]].wds : blocks[o[p]].wds[u] \in Range(WithdrawalsOf(o))
           /\ TransactionsOf(o) \in Seq(Txs) /\ WithdrawalsOf(o) \in Seq(Wds)
<1>1. o \in Seq(1..Len(blocks))  BY BranchFacts DEF ChainTo
<1>2. PICK l \in Nat : l = Len(o) /\ DOMAIN o = 1..l  BY <1>1
<1>3. PICK X : X = [i \in DOMAIN o |-> blocks[o[i]].txs]  OBVIOUS
<1>4. PICK W : W = [i \in DOMAIN o |-> blocks[o[i]].wds]  OBVIOUS
<1>5. X \in Seq(Seq(Txs)) /\ W \in Seq(Seq(Wds)) /\ TransactionsOf(o) \in Seq(Txs) /\ WithdrawalsOf(o) \in Seq(Wds)
  BY <1>1, <1>3, <1>4, OfTyped
<1>6. Len(X) = l /\ Len(W) = l
  <2>1. DOMAIN X = 1..l /\ DOMAIN W = 1..l  BY <1>2, <1>3, <1>4
  <2> QED BY <1>5, <2>1, LenProperties
<1>7. \A p \in 1..l : X[p] = blocks[o[p]].txs /\ W[p] = blocks[o[p]].wds  BY <1>2, <1>3, <1>4
<1>8. PICK ts, ws : ts = FlattenSeq(X) /\ ws = FlattenSeq(W)  OBVIOUS
<1>9. ts = TransactionsOf(o) /\ ws = WithdrawalsOf(o)
  BY <1>3, <1>4, <1>8 DEF TransactionsOf, WithdrawalsOf
<1>10. FlatIn(X, l, ts)  BY <1>5, <1>6, <1>8, FlatFacts DEF FlatFrom
<1>11. FlatAll(W, l, ws)  BY <1>5, <1>6, <1>8, FlatFacts DEF FlatFrom
<1>12. ASSUME NEW t \in Range(ts)
       PROVE  \E p \in 1..l : \E u \in DOMAIN blocks[o[p]].txs : t = blocks[o[p]].txs[u]
  <2>1. PICK i \in DOMAIN ts : t = ts[i]  BY DEF Range
  <2>2. PICK p \in 1..l : \E u \in DOMAIN X[p] : t = X[p][u]  BY <1>10, <2>1 DEF FlatIn
  <2> QED BY <1>7, <2>2
<1>13. ASSUME NEW p \in 1..l, NEW u \in DOMAIN blocks[o[p]].wds PROVE blocks[o[p]].wds[u] \in Range(ws)
  <2>1. W[p] = blocks[o[p]].wds  BY <1>7
  <2>2. \E i \in DOMAIN ws : ws[i] = W[p][u]  BY <1>11, <2>1 DEF FlatAll
  <2> QED BY <2>1, <2>2 DEF Range
<1>14. \A t \in Range(TransactionsOf(o)) : \E p \in 1..Len(o) : \E u \in DOMAIN blocks[o[p]].txs :
          t = blocks[o[p]].txs[u]
  BY <1>2, <1>9, <1>12, Zenon
<1>15. \A p \in 1..Len(o) : \A u \in DOMAIN blocks[o[p]].wds : blocks[o[p]].wds[u] \in Range(WithdrawalsOf(o))
  BY <1>2, <1>9, <1>13, Zenon
<1> QED BY <1>5, <1>14, <1>15, Zenon

LEMMA ConcatRange ==
    ASSUME NEW R, NEW x \in Seq(R), NEW y \in Seq(R)
    PROVE  Range(x \o y) = Range(x) \cup Range(y)
<1>1. PICK k \in Nat, l \in Nat : k = Len(x) /\ l = Len(y) /\ DOMAIN x = 1..k /\ DOMAIN y = 1..l  OBVIOUS
<1>2. PICK z \in Seq(R) : z = x \o y
  <2>1. x \o y \in Seq(R)  OBVIOUS
  <2> QED BY <2>1, Zenon
<1>3. DOMAIN z = 1..(k + l) /\ (\A i \in 1..k : z[i] = x[i]) /\ \A i \in 1..l : z[k + i] = y[i]
  BY <1>1, <1>2
<1>4. ASSUME NEW i \in 1..k PROVE x[i] \in Range(z)
  <2>1. i \in 1..(k + l) /\ z[i] = x[i]  BY <1>3
  <2> QED BY <1>3, <2>1 DEF Range
<1>5. ASSUME NEW i \in 1..l PROVE y[i] \in Range(z)
  <2>1. PICK j \in 1..(k + l) : j = k + i  OBVIOUS
  <2>2. z[j] = y[i]  BY <1>3, <2>1
  <2> QED BY <1>3, <2>2 DEF Range
<1>6. ASSUME NEW i \in 1..(k + l) PROVE z[i] \in Range(x) \cup Range(y)
  <2>1. CASE i \in 1..k  BY <1>1, <1>3, <2>1 DEF Range
  <2>2. CASE i \notin 1..k
    <3>1. PICK j : j = i - k  OBVIOUS
    <3>2. j \in 1..l /\ k + j = i  BY <2>2, <3>1
    <3>3. z[i] = y[j]  BY <1>3, <3>2
    <3> QED BY <1>1, <3>2, <3>3 DEF Range
  <2> QED BY <2>1, <2>2
<1>7. Range(x) \subseteq Range(z) /\ Range(y) \subseteq Range(z)  BY <1>1, <1>4, <1>5 DEF Range
<1>8. Range(z) \subseteq Range(x) \cup Range(y)
  <2>1. \A e \in Range(z) : \E i \in 1..(k + l) : e = z[i]  BY <1>3 DEF Range
  <2> QED BY <1>6, <2>1
<1> QED BY <1>2, <1>7, <1>8

Without(a, rs) == \A i \in DOMAIN rs : rs[i].acct # a

Fills(n, base, a, txs) == \A c \in Nat : n[a] <= c /\ c < base[a] => Has(txs, a, c)

\* A reset keeps the transactions of an account whose nonces the abandoned blocks
\* supply.
LEMMA KeepsCore ==
    ASSUME Inv, NEW base \in Nonces, base = PostOf(blocks, memTip), NEW n \in Nonces, n = PostOf(blocks, tip),
           NEW wds \in Seq(Wds), NEW txs \in Seq(Txs), Increasing(txs),
           \A i \in DOMAIN txs : txs[i].nonce < base[txs[i].acct],
           ResetTo(pool, wds, txs, FALSE), NEW a \in Accounts, Fills(n, base, a, txs),
           Without(a, pool.wds), Without(a, pool'.wds), Spares(Unstable, a), Len(pool'.txs) < MaxTxs,
           NEW t, t \in Range(txs) \/ t \in Range(pool.txs), t.acct = a, n[a] <= t.nonce
    PROVE  t \in Range(pool'.txs)
<1>1. Store(blocks) /\ tip \in 0..Len(blocks) /\ GoodPool(base, pool)  BY DEF Inv
<1>2. pool \in PoolType /\ PendKept(pool)  BY <1>1 DEF GoodPool
<1>3. /\ NextTxs(pool, txs) = txs \o pool.txs
      /\ NextTxs(pool, txs) \in Seq(Txs) /\ Increasing(NextTxs(pool, txs))
  BY <1>1, NextOrder
<1>4. PICK ts \in Seq(Txs) : ts = NextTxs(pool, txs)  BY <1>3, Zenon
<1>5. ts = txs \o pool.txs /\ Increasing(ts)  BY <1>3, <1>4
<1>6. \A i \in DOMAIN pool.wds : pool.wds[i].acct # a  BY DEF Without
<1>7. \A c \in Nat : n[a] <= c /\ c < base[a] => Has(txs, a, c)  BY DEF Fills
<1>8. Supplied(n, a, ts)  BY <1>1, <1>5, <1>6, <1>7, NextSupplied
<1>9. \A i \in DOMAIN pool'.wds : pool'.wds[i].acct # a  BY DEF Without
<1>10. \A u \in DOMAIN ts : ts[u].acct = a /\ n[a] <= ts[u].nonce => ts[u] \in Range(pool'.txs)
  BY <1>1, <1>2, <1>4, <1>5, <1>8, <1>9, ResetCovers
<1>11. Range(ts) = Range(txs) \cup Range(pool.txs)
  <2>1. PICK y \in Seq(Txs) : y = pool.txs  BY <1>2 DEF PoolType
  <2>2. Range(txs \o y) = Range(txs) \cup Range(y)  BY ConcatRange
  <2> QED BY <1>5, <2>1, <2>2
<1>12. PICK u \in DOMAIN ts : t = ts[u]  BY <1>11 DEF Range
<1> QED BY <1>10, <1>12

\* What ResetKeepsTxs says of one transaction, and when it promises nothing.
Excused(t) ==
    \/ Len(pool'.txs) >= MaxTxs
    \/ Number(memTip) - Number(tip) \notin -ReorgDepth..ReorgDepth
    \/ \E r \in Unstable \cup Range(WithdrawalsOf(Branch(memTip)) \o pool.wds \o pool'.wds) : r.acct = t.acct

LEMMA NotExcused ==
    ASSUME Inv, pool' \in PoolType, NEW t, ~Excused(t), NEW a, a = t.acct
    PROVE  /\ Len(pool'.txs) < MaxTxs /\ Spares(Unstable, a)
           /\ Without(a, pool.wds) /\ Without(a, pool'.wds)
           /\ \A r \in Range(WithdrawalsOf(Branch(memTip))) : r.acct # a
           /\ Number(memTip) - Number(tip) \in -ReorgDepth..ReorgDepth
<1>1. Store(blocks) /\ memTip \in 0..Len(blocks) /\ pool \in PoolType  BY DEF Inv, GoodPool
<1>2. PICK x \in Seq(Wds) : x = WithdrawalsOf(Branch(memTip))
  <2>1. WithdrawalsOf(Branch(memTip)) \in Seq(Wds)  BY <1>1, BranchRequests
  <2> QED BY <2>1, Zenon
<1>3. PICK y \in Seq(Wds), z \in Seq(Wds) : y = pool.wds /\ z = pool'.wds  BY <1>1 DEF PoolType
<1>4. PICK w \in Seq(Wds) : w = x \o y
  <2>1. x \o y \in Seq(Wds)  OBVIOUS
  <2> QED BY <2>1, Zenon
<1>5. Range(w) = Range(x) \cup Range(y)  BY <1>4, ConcatRange
<1>6. Range(w \o z) = Range(w) \cup Range(z)  BY ConcatRange
<1>7. \A r \in Unstable \cup Range(w \o z) : r.acct # a  BY <1>2, <1>3, <1>4 DEF Excused
<1>8. Len(pool'.txs) \in Nat /\ MaxTxs \in Nat  BY MemPoolAssumption DEF PoolType
<1>9. Len(pool'.txs) < MaxTxs  BY <1>8 DEF Excused
<1>10. \A r \in Range(y) \cup Range(z) : r.acct # a  BY <1>5, <1>6, <1>7
<1>11. Without(a, y) /\ Without(a, z)  BY <1>10 DEF Without, Range
<1>12. Spares(Unstable, a)  BY <1>7 DEF Spares
<1>13. \A r \in Range(x) : r.acct # a  BY <1>5, <1>6, <1>7
<1>14. Number(memTip) - Number(tip) \in -ReorgDepth..ReorgDepth  BY DEF Excused
<1> QED BY <1>2, <1>3, <1>9, <1>11, <1>12, <1>13, <1>14

LEMMA KeepsStep ==
    ASSUME Inv, NotifyNewTip, memTip' # memTip,
           NEW t, t \in Range(TransactionsOf(Branch(memTip)) \o pool.txs)
    PROVE  /\ memTip' = tip
           /\ t.nonce < Post(tip)[t.acct] \/ t \in Range(pool'.txs) \/ Excused(t)
<1>1. Store(blocks) /\ tip \in 0..Len(blocks) /\ memTip \in 0..Len(blocks) /\ pool \in PoolType
  BY DEF Inv, GoodPool
<1>2. Inv'  BY InvNotify
<1>3. pool' \in PoolType  BY <1>2 DEF Inv, GoodPool
<1>4. PICK wds, txs :
        /\ ResetTo(pool, wds, txs, FALSE)
        /\ \/ wds = ReinjectWithdrawals(memTip, tip) /\ txs = ReinjectTxs(memTip, tip)
           \/ wds = <<>> /\ txs = <<>> /\ ~Reorganises(memTip, tip)
  BY DEF NotifyNewTip
<1>5. memTip' = tip  BY <1>4 DEF ResetTo
<1>6. PICK base \in Nonces, n \in Nonces : base = PostOf(blocks, memTip) /\ n = PostOf(blocks, tip)
  <2>1. PostOf(blocks, memTip) \in Nonces /\ PostOf(blocks, tip) \in Nonces  BY <1>1, PostTyped
  <2> QED BY <2>1
<1>7. n = Post(tip)  BY <1>6, PostSame
<1>8. PICK o : o = Branch(memTip)  OBVIOUS
<1>9. t \in Range(TransactionsOf(o)) \/ t \in Range(pool.txs)
  <2>1. TransactionsOf(o) \in Seq(Txs)  BY <1>1, <1>8, BranchRequests
  <2>2. PICK x \in Seq(Txs), y \in Seq(Txs) : x = TransactionsOf(o) /\ y = pool.txs
    BY <1>1, <2>1 DEF PoolType
  <2>3. Range(x \o y) = Range(x) \cup Range(y)  BY ConcatRange
  <2> QED BY <1>8, <2>2, <2>3
<1>10. ASSUME t \in Range(TransactionsOf(o))
       PROVE  \E p \in 1..Len(o) : \E u \in DOMAIN blocks[o[p]].txs : t = blocks[o[p]].txs[u]
  <2>1. \A s \in Range(TransactionsOf(o)) :
          \E p \in 1..Len(o) : \E u \in DOMAIN blocks[o[p]].txs : s = blocks[o[p]].txs[u]
    BY <1>1, <1>8, BranchRequests, SMTT(60)
  <2> QED BY <1>10, <2>1
<1>11. t \in Txs /\ t.acct \in Accounts /\ t.nonce \in Nat
  <2>1. TransactionsOf(o) \in Seq(Txs) /\ pool.txs \in Seq(Txs)  BY <1>1, <1>8, BranchRequests DEF PoolType
  <2>2. t \in Txs  BY <1>9, <2>1 DEF Range
  <2> QED BY <2>2, RequestFacts
<1>12. SUFFICES ASSUME ~(t.nonce < n[t.acct]), ~Excused(t) PROVE t \in Range(pool'.txs)
  BY <1>5, <1>7
<1>13. PICK a \in Accounts : a = t.acct  BY <1>11
<1>14. n[a] <= t.nonce
  <2>1. n[a] \in Nat  BY DEF Nonces
  <2> QED BY <1>11, <1>12, <1>13, <2>1
<1>15. /\ Len(pool'.txs) < MaxTxs /\ Spares(Unstable, a)
       /\ Without(a, pool.wds) /\ Without(a, pool'.wds)
       /\ \A r \in Range(WithdrawalsOf(o)) : r.acct # a
       /\ Number(memTip) - Number(tip) \in -ReorgDepth..ReorgDepth
  BY <1>3, <1>8, <1>12, <1>13, NotExcused
<1>16. CASE wds = ReinjectWithdrawals(memTip, tip) /\ txs = ReinjectTxs(memTip, tip)
  <2>1. PICK u \in Seq(Wds), x \in Seq(Txs) : u = wds /\ x = txs
    <3>1. wds \in Seq(Wds) /\ txs \in Seq(Txs)  BY <1>1, <1>16, ReinjectTyped
    <3> QED BY <3>1
  <2>2. x = ReinjectTxs(memTip, tip)  BY <1>16, <2>1
  <2>3. Increasing(x) /\ \A i \in DOMAIN x : x[i].nonce < base[x[i].acct]
    BY <1>1, <1>6, <2>2, ReinjectOrder
  <2>4. ASSUME NEW p \in 1..Len(o), NEW v \in DOMAIN blocks[o[p]].txs,
               NEW e, e = blocks[o[p]].txs[v], n[e.acct] <= e.nonce
        PROVE  \E i \in DOMAIN x : x[i] = e
    <3>1. PostOf(blocks, tip)[e.acct] <= e.nonce  BY <1>6, <2>4
    <3> QED BY <1>1, <1>8, <2>2, <2>4, <3>1, ReinjectKeeps, SMTT(60)
  <2>5. Fills(n, base, a, x)
    <3>1. SUFFICES ASSUME NEW c \in Nat, n[a] <= c, c < base[a] PROVE Has(x, a, c)  BY DEF Fills
    <3>2. c < PostOf(blocks, memTip)[a]  BY <1>6, <3>1
    <3>3. PICK p \in 1..Len(o) : Has(blocks[o[p]].wds, a, c) \/ Has(blocks[o[p]].txs, a, c)
      BY <1>1, <1>8, <3>2, BranchCovers
    <3>4. ~Has(blocks[o[p]].wds, a, c)
      <4>1. \A v \in DOMAIN blocks[o[p]].wds : blocks[o[p]].wds[v] \in Range(WithdrawalsOf(o))
        BY <1>1, <1>8, BranchRequests
      <4> QED BY <1>15, <4>1 DEF Has
    <3>5. PICK v \in DOMAIN blocks[o[p]].txs : blocks[o[p]].txs[v].acct = a /\ blocks[o[p]].txs[v].nonce = c
      BY <3>3, <3>4 DEF Has
    <3>6. PICK e : e = blocks[o[p]].txs[v]  OBVIOUS
    <3>7. e.acct = a /\ e.nonce = c /\ n[e.acct] <= e.nonce  BY <3>1, <3>5, <3>6
    <3>8. \E i \in DOMAIN x : x[i] = e  BY <2>4, <3>6, <3>7
    <3> QED BY <3>7, <3>8 DEF Has
  <2>6. t \in Range(x) \/ t \in Range(pool.txs)
    <3>1. SUFFICES ASSUME t \in Range(TransactionsOf(o)) PROVE t \in Range(x)  BY <1>9
    <3>2. PICK p \in 1..Len(o) : \E v \in DOMAIN blocks[o[p]].txs : t = blocks[o[p]].txs[v]  BY <1>10, <3>1
    <3>3. PICK v \in DOMAIN blocks[o[p]].txs : t = blocks[o[p]].txs[v]  BY <3>2
    <3>4. \E i \in DOMAIN x : x[i] = t  BY <1>13, <1>14, <2>4, <3>3
    <3> QED BY <3>4 DEF Range
  <2>7. ResetTo(pool, u, x, FALSE)  BY <1>4, <2>1
  <2> QED BY <1>6, <1>13, <1>14, <1>15, <2>3, <2>5, <2>6, <2>7, KeepsCore
<1>17. CASE wds = <<>> /\ txs = <<>> /\ ~Reorganises(memTip, tip)
  <2>1. PICK u \in Seq(Wds), x \in Seq(Txs) : u = wds /\ x = txs
    <3>1. wds \in Seq(Wds) /\ txs \in Seq(Txs)  BY <1>17
    <3> QED BY <3>1
  <2>2. Increasing(x) /\ DOMAIN x = {}  BY <1>17, <2>1, EmptyOrder
  <2>3. tip # 0 /\ blocks[tip].par = memTip  BY <1>15, <1>17 DEF Reorganises
  <2>4. Below(base, n)
    <3>1. tip \in 1..Len(blocks)  BY <1>1, <2>3 DEF Store
    <3>2. BlockGood(blocks, tip) /\ blocks[tip] \in BlockType  BY <1>1, <3>1 DEF Store
    <3>3. PICK ws \in Seq(Wds), ts \in Seq(Txs) : ws = blocks[tip].wds /\ ts = blocks[tip].txs
      BY <3>2 DEF BlockType
    <3>4. Executes(base, ws \o ts) /\ blocks[tip].post = After(base, ws \o ts)
      BY <1>6, <2>3, <3>2, <3>3 DEF BlockGood
    <3>5. Transacts(base, After(base, ws \o ts), ws, ts)  BY <3>4, ExecParts
    <3>6. n = After(base, ws \o ts)  BY <1>6, <2>3, <3>4 DEF PostOf
    <3> QED BY <3>5, <3>6 DEF Transacts
  <2>5. PICK b \in Nat, c \in Nat : b = base[a] /\ c = n[a]  BY DEF Nonces
  <2>6. b <= c  BY <2>4, <2>5 DEF Below
  <2>7. Fills(n, base, a, x)
    <3>1. SUFFICES ASSUME NEW d \in Nat, n[a] <= d, d < base[a] PROVE FALSE  BY DEF Fills
    <3>2. c <= d /\ d < b  BY <2>5, <3>1
    <3> QED BY <2>6, <3>2
  <2>8. t \in Range(pool.txs)
    <3>1. SUFFICES ASSUME t \in Range(TransactionsOf(o)) PROVE FALSE  BY <1>9
    <3>2. PICK p \in 1..Len(o) : \E v \in DOMAIN blocks[o[p]].txs : t = blocks[o[p]].txs[v]  BY <1>10, <3>1
    <3>3. PICK v \in DOMAIN blocks[o[p]].txs : t = blocks[o[p]].txs[v]  BY <3>2
    <3>4. PICK N : NoncesOf(memTip, o, N)  BY <1>1, <1>8, BranchNonces
    <3>5. PICK l \in Nat : l = Len(o)
      <4>1. o \in Seq(1..Len(blocks))  BY <1>1, <1>8, BranchFacts DEF ChainTo
      <4> QED BY <4>1
    <3>6. Chained(l, N) /\ N[l] = base  BY <1>6, <3>4, <3>5 DEF NoncesOf
    <3>7. p \in 0..l /\ l \in 0..l /\ p <= l  BY <3>5
    <3>8. Below(N[p], N[l])  BY <3>6, <3>7, ChainMonotone
    <3>9. Within(N[p-1], N[p], blocks[o[p]].txs)  BY <3>4 DEF NoncesOf, Transacts
    <3>10. PICK d \in Nat : d = N[p][a]  BY <3>6, <3>7 DEF Chained, Nonces
    <3>11. t.nonce < d  BY <1>13, <3>3, <3>9, <3>10 DEF Within
    <3>12. d <= b  BY <2>5, <3>6, <3>8, <3>10 DEF Below
    <3>13. c <= t.nonce  BY <1>14, <2>5
    <3> QED BY <1>11, <2>6, <3>11, <3>12, <3>13
  <2>9. ResetTo(pool, u, x, FALSE)  BY <1>4, <2>1
  <2>10. \A i \in DOMAIN x : x[i].nonce < base[x[i].acct]  BY <2>2
  <2> QED BY <1>6, <1>13, <1>14, <1>15, <2>2, <2>7, <2>8, <2>9, <2>10, KeepsCore
<1> QED BY <1>4, <1>16, <1>17

\* A reset keeps every transaction of the abandoned blocks and of the mem block that
\* the new branch has not overtaken (ResetKeepsTxs), whatever was abandoned: the
\* nonces of an account that neither withdraws nor fails are supplied without a gap,
\* so nothing that is executed again is refused but for want of room.
THEOREM ResetsKeepTxs == Spec => ResetKeepsTxs
<1>1. Inv /\ [Next]_vars =>
        [Resets => \A t \in Range(TransactionsOf(Branch(memTip)) \o pool.txs) :
           \/ t.nonce < Post(memTip')[t.acct]
           \/ t \in Range(pool'.txs)
           \/ Len(pool'.txs) >= MaxTxs
           \/ Number(memTip) - Number(memTip') \notin -ReorgDepth..ReorgDepth
           \/ \E r \in Unstable \cup Range(WithdrawalsOf(Branch(memTip)) \o pool.wds \o pool'.wds) :
                  r.acct = t.acct]_vars
  <2>1. SUFFICES ASSUME Inv, [Next]_vars, Resets,
                        NEW t \in Range(TransactionsOf(Branch(memTip)) \o pool.txs)
                 PROVE  \/ t.nonce < Post(memTip')[t.acct]
                        \/ t \in Range(pool'.txs)
                        \/ Len(pool'.txs) >= MaxTxs
                        \/ Number(memTip) - Number(memTip') \notin -ReorgDepth..ReorgDepth
                        \/ \E r \in Unstable \cup Range(WithdrawalsOf(Branch(memTip)) \o pool.wds \o pool'.wds) :
                               r.acct = t.acct
    OBVIOUS
  <2>2. NotifyNewTip
    <3>1. Up /\ memTip' # memTip  BY <2>1 DEF Resets
    <3>2. ~ UNCHANGED vars  BY <3>1 DEF vars
    <3>3. ~ PushTx /\ ~ PushWithdrawal /\ ~ RestoreTxs /\ ~ ProduceBlock /\ ~ RevertBlock /\ ~ AttachBlock
          /\ ~ Kill /\ ~ Stop /\ ~ Start
      BY <3>1 DEF PushTx, PushWithdrawal, RestoreTxs, ProduceBlock, RevertBlock, AttachBlock, Kill, Stop, Start
    <3> QED BY <2>1, <3>2, <3>3 DEF Next
  <2>3. memTip' = tip /\ (t.nonce < Post(tip)[t.acct] \/ t \in Range(pool'.txs) \/ Excused(t))
    BY <2>1, <2>2, KeepsStep DEF Resets
  <2> QED BY <2>3 DEF Excused
<1> QED BY <1>1, InvAlways, PTL DEF Spec, ResetKeepsTxs

=============================================================================
