-------------------------- MODULE BlockSyncProofs --------------------------
(***************************************************************************)
(* Proofs about BlockSync, for every value of its constants: what a        *)
(* read-only node calls confirmed is what layer 1 holds; a node that has   *)
(* applied its session has the chain of the full node; a mem block is      *)
(* applied on the block it was built on; and a confirmation is applied to  *)
(* a block whose submit tx hash is stored.                                 *)
(*                                                                         *)
(* A block identity (hash) is made once and names one block with one       *)
(* parent.  So two chains that agree on the identity at some number agree  *)
(* up to it, and check_number_hash, which compares one identity, compares  *)
(* the whole chain.  The messages that move the confirmed block carry the  *)
(* identity layer 1 holds at their number, wherever they wait: in a        *)
(* session, in the buffer, or resent to a later session.                   *)
(*                                                                         *)
(* The second part replays the messages a session still holds: the         *)
(* invariant says that they are applied one after another until the first  *)
(* that does not fit, that each is safe to apply, and that the view they   *)
(* lead to is one the full node published.                                 *)
(***************************************************************************)
EXTENDS BlockSync, NatLemmas, SequenceTheorems, FiniteSetTheorems

BlockRec == [id : Nat, par : Nat]

Message == [kind : {"local", "mem", "push", "submitted", "confirmed", "revert"},
            num : Nat, blk : BlockRec]

BufferEntry == [hash : Int, msgs : Seq(Message)]

(***************************************************************************)
(* The parts of the inductive invariant.  f maps an identity to its block. *)
(***************************************************************************)
\* The identities below n are made, one block each.
Made(f, n) == n \in Nat \ {0} /\ f \in [1..n - 1 -> BlockRec]

\* b is a block that was made.
Of(f, b) == b \in BlockRec /\ b.id \in DOMAIN f /\ b = f[b.id]

\* s is a chain of blocks that were made, each on its predecessor.
ChainOf(f, s) ==
    /\ s \in Seq(BlockRec)
    /\ \A i \in 1..Len(s) : Of(f, s[i]) /\ s[i].par = IdAt(s, i - 1)

\* b is block n of some chain.
Placed(f, n, b) == \E s : ChainOf(f, s) /\ n \in 1..Len(s) /\ s[n] = b

\* Layer 1 holds the block with this identity at number n.
OnL1(l, n, id) == n <= Len(l) /\ (n # 0 => l[n].id = id)

MsgOK(f, l, m) ==
    /\ m \in Message
    /\ m.kind = "local" => m.num # 0 /\ Of(f, m.blk) /\ Placed(f, m.num, m.blk)
    /\ m.kind = "submitted" => m.num # 0
    /\ m.kind \in {"confirmed", "revert"} => OnL1(l, m.num, m.blk.id)

MsgsOK(f, l, ms) == ms \in Seq(Message) /\ \A i \in 1..Len(ms) : MsgOK(f, l, ms[i])

EntryOK(f, l, e) == e \in BufferEntry /\ MsgsOK(f, l, e.msgs)

BufferOK(f, l, b) == \A n \in DOMAIN b : n \in Nat /\ EntryOK(f, l, b[n])

NodeOK(f, c, sub, conf, p) ==
    /\ ChainOf(f, c) /\ sub \in 0..Len(c) /\ conf \in 0..Len(c)
    /\ p \in Seq(BlockRec) /\ \A i \in 1..Len(p) : Of(f, p[i])

\* The read-only node: its confirmed blocks are those of layer 1.
ClientOK(f, l, c, conf, tx) ==
    /\ ChainOf(f, c) /\ conf \in 0..Len(c) /\ tx \subseteq 1..Len(c)
    /\ conf <= Len(l) /\ \A i \in 1..conf : c[i] = l[i]

\* The inductive invariant.
SyncOK(f) ==
    /\ Made(f, nextId) /\ ChainOf(f, l1)
    /\ NodeOK(f, chain, lastSub, lastConf, pend)
    /\ BufferOK(f, l1, buffer) /\ MsgsOK(f, l1, chan)
    /\ ClientOK(f, l1, cchain, cConf, cTx)

BlockSyncInv == \E f : SyncOK(f)

(***************************************************************************)
(* Chains.                                                                 *)
(***************************************************************************)
\* The block at a number of a chain, and the identity there.
LEMMA ChainBlock ==
    ASSUME NEW f, NEW s, ChainOf(f, s), NEW i \in 1..Len(s)
    PROVE  Of(f, s[i]) /\ s[i] \in BlockRec /\ s[i].par = IdAt(s, i - 1)
BY DEF ChainOf, Of

LEMMA IdIsNat ==
    ASSUME NEW f, NEW s, ChainOf(f, s), NEW i \in 0..Len(s)
    PROVE  IdAt(s, i) \in Nat
<1> Len(s) \in Nat  BY LenProperties DEF ChainOf
<1>1. CASE i = 0  BY <1>1 DEF IdAt
<1>2. CASE i # 0
  <2>1. i \in 1..Len(s)  BY <1>2
  <2>2. s[i] \in BlockRec  BY <2>1, ChainBlock
  <2> QED BY <2>2, <1>2 DEF IdAt, BlockRec
<1> QED BY <1>1, <1>2

\* Two chains with the same identity at a number are the same up to it.
LEMMA SameIdentity ==
    ASSUME NEW f, NEW s, NEW t, ChainOf(f, s), ChainOf(f, t),
           NEW n \in 1..Len(s), n <= Len(t), s[n].id = t[n].id
    PROVE  \A i \in 1..n : s[i] = t[i]
<1> Len(s) \in Nat /\ Len(t) \in Nat  BY LenProperties DEF ChainOf
<1> DEFINE T == {i \in 1..n : s[i] # t[i]}
<1>1. SUFFICES ASSUME T # {} PROVE FALSE  OBVIOUS
<1>2. PICK k \in T : \A y \in T : y <= k
  <2>1. T \subseteq Nat /\ n \in Nat /\ \A x \in T : x <= n  OBVIOUS
  <2> HIDE DEF T
  <2> QED BY <1>1, <2>1, GreatestNat
<1>3. k \in 1..n /\ s[k] # t[k] /\ k \in 1..Len(s) /\ k \in 1..Len(t)  BY <1>2
<1>4. Of(f, s[k]) /\ Of(f, t[k])  BY <1>3, ChainBlock
<1>5. s[k].id = t[k].id
  <2>1. CASE k = n  BY <2>1
  <2>2. CASE k # n
    <3>1. PICK j : j = k + 1  OBVIOUS
    <3>2. j \in 1..n /\ j \notin T /\ j \in 1..Len(s) /\ j \in 1..Len(t)  BY <3>1, <2>2, <1>2, <1>3
    <3>3. s[j] = t[j]  BY <3>2
    <3>4. s[j].par = IdAt(s, j - 1) /\ t[j].par = IdAt(t, j - 1)  BY <3>2, ChainBlock
    <3>5. j - 1 = k /\ k # 0  BY <3>1, <1>3
    <3> QED BY <3>3, <3>4, <3>5 DEF IdAt
  <2> QED BY <2>1, <2>2
<1> QED BY <1>3, <1>4, <1>5 DEF Of

\* A block on the tip extends a chain.
LEMMA ChainAppend ==
    ASSUME NEW f, NEW s, ChainOf(f, s), NEW b, Of(f, b), b.par = TipOf(s)
    PROVE  ChainOf(f, Append(s, b)) /\ Len(Append(s, b)) = Len(s) + 1
           /\ \A i \in 1..Len(s) : Append(s, b)[i] = s[i]
<1> Len(s) \in Nat /\ s \in Seq(BlockRec) /\ b \in BlockRec  BY LenProperties DEF ChainOf, Of
<1>1. PICK t : t = Append(s, b)  OBVIOUS
<1>2. /\ t \in Seq(BlockRec) /\ Len(t) = Len(s) + 1 /\ t[Len(s) + 1] = b
      /\ \A i \in 1..Len(s) : t[i] = s[i]
  BY <1>1, AppendProperties
<1>3. ASSUME NEW i \in 1..Len(t) PROVE Of(f, t[i]) /\ t[i].par = IdAt(t, i - 1)
  <2>1. CASE i = Len(s) + 1
    <3>1. IdAt(t, i - 1) = TipOf(s)  BY <1>2, <2>1 DEF IdAt, TipOf
    <3> QED BY <3>1, <1>2, <2>1
  <2>2. CASE i # Len(s) + 1
    <3>1. i \in 1..Len(s)  BY <1>2, <2>2
    <3>2. Of(f, s[i]) /\ s[i].par = IdAt(s, i - 1)  BY <3>1, ChainBlock
    <3>3. IdAt(t, i - 1) = IdAt(s, i - 1)
      <4>1. CASE i = 1  BY <4>1 DEF IdAt
      <4>2. CASE i # 1
        <5>1. PICK j : j = i - 1  OBVIOUS
        <5>2. j \in 1..Len(s) /\ j # 0  BY <5>1, <4>2, <3>1
        <5> QED BY <5>1, <5>2, <1>2 DEF IdAt
      <4> QED BY <4>1, <4>2
    <3> QED BY <3>1, <3>2, <3>3, <1>2
  <2> QED BY <2>1, <2>2
<1> QED BY <1>1, <1>2, <1>3 DEF ChainOf

\* A beginning of a chain is a chain.
LEMMA ChainPrefix ==
    ASSUME NEW f, NEW s, ChainOf(f, s), NEW k \in 0..Len(s)
    PROVE  ChainOf(f, SubSeq(s, 1, k)) /\ Len(SubSeq(s, 1, k)) = k
           /\ \A i \in 1..k : SubSeq(s, 1, k)[i] = s[i]
<1> Len(s) \in Nat /\ s \in Seq(BlockRec)  BY LenProperties DEF ChainOf
<1>1. PICK t : t = SubSeq(s, 1, k)  OBVIOUS
<1>2. t \in Seq(BlockRec) /\ Len(t) = k /\ \A i \in 1..k : t[i] = s[i]
  <2>1. \A i \in 1..k : s[i] \in BlockRec  BY ElementOfSeq
  <2> QED BY <1>1, <2>1, SubSeqProperties
<1>3. ASSUME NEW i \in 1..Len(t) PROVE Of(f, t[i]) /\ t[i].par = IdAt(t, i - 1)
  <2>1. i \in 1..k /\ i \in 1..Len(s)  BY <1>2
  <2>2. Of(f, s[i]) /\ s[i].par = IdAt(s, i - 1)  BY <2>1, ChainBlock
  <2>3. IdAt(t, i - 1) = IdAt(s, i - 1)
    <3>1. CASE i = 1  BY <3>1 DEF IdAt
    <3>2. CASE i # 1
      <4>1. PICK j : j = i - 1  OBVIOUS
      <4>2. j \in 1..k /\ j # 0  BY <4>1, <3>2, <2>1
      <4> QED BY <4>1, <4>2, <1>2 DEF IdAt
    <3> QED BY <3>1, <3>2
  <2> QED BY <2>1, <2>2, <2>3, <1>2
<1> QED BY <1>1, <1>2, <1>3 DEF ChainOf

(***************************************************************************)
(* More identities and a longer layer 1 keep what was known.               *)
(***************************************************************************)
\* g knows the blocks of f, m the blocks of l.
Knows(f, g) == \A i \in DOMAIN f : i \in DOMAIN g /\ g[i] = f[i]

Grown(l, m) == Len(l) <= Len(m) /\ \A i \in 1..Len(l) : m[i] = l[i]

LEMMA OfGrows ==
    ASSUME NEW f, NEW g, Knows(f, g), NEW b, Of(f, b)
    PROVE  Of(g, b)
BY DEF Knows, Of

LEMMA ChainGrows ==
    ASSUME NEW f, NEW g, Knows(f, g), NEW s, ChainOf(f, s)
    PROVE  ChainOf(g, s)
BY OfGrows DEF ChainOf

LEMMA PlacedGrows ==
    ASSUME NEW f, NEW g, Knows(f, g), NEW n, NEW b, Placed(f, n, b)
    PROVE  Placed(g, n, b)
<1>1. PICK s : ChainOf(f, s) /\ n \in 1..Len(s) /\ s[n] = b  BY DEF Placed
<1>2. ChainOf(g, s)  BY <1>1, ChainGrows
<1> QED BY <1>1, <1>2 DEF Placed

LEMMA MsgGrows ==
    ASSUME NEW f, NEW g, Knows(f, g), NEW l, NEW m, Grown(l, m),
           Len(l) \in Nat, Len(m) \in Nat, NEW x, MsgOK(f, l, x)
    PROVE  MsgOK(g, m, x)
<1>1. x \in Message /\ x.num \in Nat  BY DEF MsgOK, Message
<1>2. x.kind = "local" => x.num # 0 /\ Of(g, x.blk) /\ Placed(g, x.num, x.blk)
  BY OfGrows, PlacedGrows DEF MsgOK
<1>3. ASSUME x.kind \in {"confirmed", "revert"} PROVE OnL1(m, x.num, x.blk.id)
  <2>1. OnL1(l, x.num, x.blk.id)  BY <1>3 DEF MsgOK
  <2>2. x.num <= Len(l) /\ (x.num # 0 => l[x.num].id = x.blk.id)  BY <2>1 DEF OnL1
  <2>3. ASSUME x.num # 0 PROVE m[x.num].id = x.blk.id
    <3>1. x.num \in 1..Len(l)  BY <2>2, <2>3, <1>1
    <3> QED BY <3>1, <2>2, <2>3 DEF Grown
  <2> QED BY <2>2, <2>3, <1>1 DEF OnL1, Grown
<1> QED BY <1>1, <1>2, <1>3 DEF MsgOK

LEMMA MsgsGrow ==
    ASSUME NEW f, NEW g, Knows(f, g), NEW l, NEW m, Grown(l, m),
           Len(l) \in Nat, Len(m) \in Nat, NEW x, MsgsOK(f, l, x)
    PROVE  MsgsOK(g, m, x)
BY MsgGrows DEF MsgsOK

LEMMA BufferGrows ==
    ASSUME NEW f, NEW g, Knows(f, g), NEW l, NEW m, Grown(l, m),
           Len(l) \in Nat, Len(m) \in Nat, NEW x, BufferOK(f, l, x)
    PROVE  BufferOK(g, m, x)
BY MsgsGrow DEF BufferOK, EntryOK

LEMMA NodeGrows ==
    ASSUME NEW f, NEW g, Knows(f, g), NEW c, NEW sub, NEW conf, NEW p, NodeOK(f, c, sub, conf, p)
    PROVE  NodeOK(g, c, sub, conf, p)
BY ChainGrows, OfGrows DEF NodeOK

LEMMA ClientGrows ==
    ASSUME NEW f, NEW g, Knows(f, g), NEW l, NEW m, Grown(l, m),
           Len(l) \in Nat, Len(m) \in Nat, NEW c, NEW conf, NEW tx, ClientOK(f, l, c, conf, tx)
    PROVE  ClientOK(g, m, c, conf, tx)
<1>1. ChainOf(g, c) /\ conf \in 0..Len(c) /\ tx \subseteq 1..Len(c)  BY ChainGrows DEF ClientOK
<1>2. Len(c) \in Nat  BY LenProperties DEF ClientOK, ChainOf
<1>3. conf <= Len(m)  BY <1>1, <1>2 DEF ClientOK, Grown
<1>4. ASSUME NEW i \in 1..conf PROVE c[i] = m[i]
  <2>1. i \in 1..Len(l) /\ c[i] = l[i]  BY <1>1, <1>2 DEF ClientOK
  <2> QED BY <2>1 DEF Grown
<1> QED BY <1>1, <1>3, <1>4 DEF ClientOK

(***************************************************************************)
(* Messages and the buffer.                                                *)
(***************************************************************************)
LEMMA NoMsgs ==
    ASSUME NEW f, NEW l
    PROVE  MsgsOK(f, l, <<>>)
BY EmptySeq DEF MsgsOK

LEMMA OneMsg ==
    ASSUME NEW f, NEW l, NEW x, MsgOK(f, l, x)
    PROVE  MsgsOK(f, l, <<x>>)
<1>1. x \in Message  BY DEF MsgOK
<1>2. <<x>> \in Seq(Message) /\ Len(<<x>>) = 1 /\ <<x>>[1] = x  BY <1>1
<1> QED BY <1>2 DEF MsgsOK

LEMMA MsgsJoin ==
    ASSUME NEW f, NEW l, NEW x, NEW y, MsgsOK(f, l, x), MsgsOK(f, l, y)
    PROVE  MsgsOK(f, l, x \o y)
<1>1. x \in Seq(Message) /\ y \in Seq(Message) /\ Len(x) \in Nat /\ Len(y) \in Nat
  BY LenProperties DEF MsgsOK
<1>2. PICK z : z = x \o y  OBVIOUS
<1>3. z \in Seq(Message) /\ Len(z) = Len(x) + Len(y)
      /\ \A i \in 1..Len(z) : z[i] = IF i <= Len(x) THEN x[i] ELSE y[i - Len(x)]
  BY <1>1, <1>2, ConcatProperties
<1>4. ASSUME NEW i \in 1..Len(z) PROVE MsgOK(f, l, z[i])
  <2>1. CASE i <= Len(x)  BY <2>1, <1>1, <1>3 DEF MsgsOK
  <2>2. CASE ~ (i <= Len(x))
    <3>1. PICK j : j = i - Len(x)  OBVIOUS
    <3>2. j \in 1..Len(y) /\ z[i] = y[j]  BY <3>1, <2>2, <1>1, <1>3
    <3> QED BY <3>2 DEF MsgsOK
  <2> QED BY <2>1, <2>2
<1> QED BY <1>2, <1>3, <1>4 DEF MsgsOK

LEMMA MsgsPrefix ==
    ASSUME NEW f, NEW l, NEW x, MsgsOK(f, l, x), NEW k \in 0..Len(x)
    PROVE  MsgsOK(f, l, SubSeq(x, 1, k))
<1> x \in Seq(Message) /\ Len(x) \in Nat  BY LenProperties DEF MsgsOK
<1>1. PICK t : t = SubSeq(x, 1, k)  OBVIOUS
<1>2. t \in Seq(Message) /\ Len(t) = k /\ \A i \in 1..k : t[i] = x[i]
  <2>1. \A i \in 1..k : x[i] \in Message  BY ElementOfSeq
  <2> QED BY <1>1, <2>1, SubSeqProperties
<1>3. ASSUME NEW i \in 1..Len(t) PROVE MsgOK(f, l, t[i])
  BY <1>2 DEF MsgsOK
<1> QED BY <1>1, <1>2, <1>3 DEF MsgsOK

\* Any choice of good messages is good.
LEMMA MsgsChosen ==
    ASSUME NEW f, NEW l, NEW n \in Nat, NEW t, t = [j \in 1..n |-> t[j]],
           \A j \in 1..n : MsgOK(f, l, t[j])
    PROVE  MsgsOK(f, l, t)
<1>1. \A j \in 1..n : t[j] \in Message  BY DEF MsgOK
<1>2. t \in Seq(Message) /\ Len(t) = n  BY <1>1
<1> QED BY <1>2 DEF MsgsOK

LEMMA MsgsTail ==
    ASSUME NEW f, NEW l, NEW x, MsgsOK(f, l, x), x # <<>>
    PROVE  MsgsOK(f, l, Tail(x)) /\ MsgOK(f, l, Head(x))
<1> x \in Seq(Message) /\ Len(x) \in Nat  BY LenProperties DEF MsgsOK
<1>1. PICK t : t = Tail(x)  OBVIOUS
<1>2. t \in Seq(Message) /\ Len(t) = Len(x) - 1 /\ \A i \in 1..Len(t) : t[i] = x[i + 1]
  BY <1>1, HeadTailProperties
<1>3. Len(x) # 0  BY EmptySeq
<1>4. ASSUME NEW i \in 1..Len(t) PROVE MsgOK(f, l, t[i])
  <2>1. PICK j : j = i + 1  OBVIOUS
  <2>2. j \in 1..Len(x) /\ t[i] = x[j]  BY <2>1, <1>2
  <2> QED BY <2>2 DEF MsgsOK
<1>5. Head(x) = x[1] /\ 1 \in 1..Len(x)  BY <1>3, HeadTailProperties
<1> QED BY <1>1, <1>2, <1>4, <1>5 DEF MsgsOK

LEMMA BroadcastOK ==
    ASSUME NEW f, NEW l, NEW ms, MsgsOK(f, l, ms), MsgsOK(f, l, chan), Broadcast(ms)
    PROVE  MsgsOK(f, l, chan')
<1>1. MsgsOK(f, l, chan \o ms)  BY MsgsJoin
<1>2. chan' = chan \/ chan' = chan \o ms  BY DEF Broadcast
<1> QED BY <1>1, <1>2

LEMMA NewEntry ==
    ASSUME NEW f, NEW l, NEW h \in Int, NEW ms, MsgsOK(f, l, ms)
    PROVE  EntryOK(f, l, Entry(h, ms))
<1>1. ms \in Seq(Message)  BY DEF MsgsOK
<1>2. Entry(h, ms) \in BufferEntry /\ Entry(h, ms).msgs = ms  BY <1>1 DEF Entry, BufferEntry
<1> QED BY <1>2 DEF EntryOK

LEMMA PutOK ==
    ASSUME NEW f, NEW l, NEW b, BufferOK(f, l, b), NEW n \in Nat, NEW e, EntryOK(f, l, e)
    PROVE  BufferOK(f, l, Put(b, n, e))
BY DEF BufferOK, Put

LEMMA ExtendOK ==
    ASSUME NEW f, NEW l, NEW b, BufferOK(f, l, b), NEW n, NEW x, MsgOK(f, l, x)
    PROVE  BufferOK(f, l, Extend(b, n, x))
<1>1. CASE n \notin DOMAIN b  BY <1>1 DEF Extend
<1>2. CASE n \in DOMAIN b
  <2>1. PICK e : e = [b[n] EXCEPT !.msgs = Append(@, x)]  OBVIOUS
  <2>2. b[n] \in BufferEntry /\ MsgsOK(f, l, b[n].msgs)  BY <1>2 DEF BufferOK, EntryOK
  <2>3. PICK ms : ms = b[n].msgs  OBVIOUS
  <2>4. Append(ms, x) = ms \o <<x>>
    BY <2>2, <2>3, AppendIsConcat DEF MsgsOK, MsgOK
  <2>5. MsgsOK(f, l, Append(ms, x))  BY <2>2, <2>3, <2>4, OneMsg, MsgsJoin
  <2>6. Append(ms, x) \in Seq(Message)  BY <2>5 DEF MsgsOK
  <2>7. e \in BufferEntry /\ e.msgs = Append(ms, x)  BY <2>1, <2>2, <2>3, <2>6 DEF BufferEntry
  <2>8. EntryOK(f, l, e)  BY <2>5, <2>7 DEF EntryOK
  <2>9. Extend(b, n, x) = [b EXCEPT ![n] = e]  BY <1>2, <2>1 DEF Extend
  <2>10. \A m \in DOMAIN b : [b EXCEPT ![n] = e][m] = IF m = n THEN e ELSE b[m]  OBVIOUS
  <2> QED BY <2>8, <2>9, <2>10 DEF BufferOK
<1> QED BY <1>1, <1>2

LEMMA CutOK ==
    ASSUME NEW f, NEW l, NEW b, BufferOK(f, l, b), NEW n
    PROVE  BufferOK(f, l, From(b, n)) /\ BufferOK(f, l, UpTo(b, n))
BY DEF BufferOK, From, UpTo


(***************************************************************************)
(* The messages the full node publishes.                                   *)
(***************************************************************************)
LEMMA LocalOK ==
    ASSUME NEW f, NEW l, NEW n \in Nat \ {0}, NEW b, Of(f, b), Placed(f, n, b)
    PROVE  MsgOK(f, l, LocalBlock(n, b))
BY DEF MsgOK, LocalBlock, Msg, Message, Of

LEMMA MemOK ==
    ASSUME NEW f, NEW l, NEW s, ChainOf(f, s)
    PROVE  MsgOK(f, l, NextMemBlock(s))
<1> Len(s) \in Nat  BY LenProperties DEF ChainOf
<1>1. TipOf(s) \in Nat  BY IdIsNat DEF TipOf
<1> QED BY <1>1 DEF MsgOK, NextMemBlock, Msg, Message, BlockRec

\* A message about a block of the local chain, which layer 1 holds if it moves
\* the confirmed block.
LEMMA AboutOK ==
    ASSUME NEW f, NEW l, ChainOf(f, chain), NEW n \in 0..Len(chain),
           NEW kind \in {"submitted", "confirmed", "revert"},
           kind = "submitted" => n # 0,
           kind # "submitted" => n <= Len(l) /\ (n # 0 => l[n] = chain[n])
    PROVE  MsgOK(f, l, About(kind, n))
<1> Len(chain) \in Nat  BY LenProperties DEF ChainOf
<1>1. IdAt(chain, n) \in Nat  BY IdIsNat
<1>2. PICK i : i = IdAt(chain, n)  OBVIOUS
<1>3. n # 0 => i = chain[n].id  BY <1>2 DEF IdAt
<1>4. About(kind, n) = [kind |-> kind, num |-> n, blk |-> [id |-> i, par |-> 0]]
  BY <1>2 DEF About, Msg
<1>5. About(kind, n) \in Message  BY <1>1, <1>2, <1>4 DEF Message, BlockRec
<1>6. /\ About(kind, n).kind = kind /\ About(kind, n).num = n /\ About(kind, n).blk.id = i
  BY <1>4
<1>7. kind # "submitted" => OnL1(l, n, i)  BY <1>3 DEF OnL1
<1> QED BY <1>5, <1>6, <1>7 DEF MsgOK

\* The local blocks that are published again.
LEMMA LocalBlocksOK ==
    ASSUME NEW f, NEW l, ChainOf(f, chain), lastConf \in 0..Len(chain)
    PROVE  MsgsOK(f, l, LocalBlocks)
<1> Len(chain) \in Nat  BY LenProperties DEF ChainOf
<1>1. PICK n : n = Len(chain) - lastConf  OBVIOUS
<1>2. n \in Nat  BY <1>1
<1>3. PICK t : t = [i \in 1..n |-> LocalBlock(lastConf + i, chain[lastConf + i])]  OBVIOUS
<1>4. LocalBlocks = t /\ t = [j \in 1..n |-> t[j]]  BY <1>1, <1>3 DEF LocalBlocks
<1>5. ASSUME NEW j \in 1..n PROVE MsgOK(f, l, t[j])
  <2>1. PICK k : k = lastConf + j  OBVIOUS
  <2>2. k \in 1..Len(chain) /\ k \in Nat \ {0} /\ t[j] = LocalBlock(k, chain[k])
    BY <2>1, <1>1, <1>3
  <2>3. Of(f, chain[k]) /\ Placed(f, k, chain[k])  BY <2>2, ChainBlock DEF Placed
  <2> QED BY <2>2, <2>3, LocalOK
<1> QED BY <1>2, <1>4, <1>5, MsgsChosen

LEMMA RepublishOK ==
    ASSUME NEW f, NEW l, ChainOf(f, chain), lastConf \in 0..Len(chain),
           NEW b, BufferOK(f, l, b)
    PROVE  BufferOK(f, l, Republish(b))
<1> Len(chain) \in Nat  BY LenProperties DEF ChainOf
<1>1. PICK N : N = {msg.num : msg \in ToSet(LocalBlocks)}  OBVIOUS
<1>2. \A n \in N : n \in lastConf + 1..Len(chain) /\ LocalBlocks # <<>>
  <2>1. SUFFICES ASSUME NEW x \in ToSet(LocalBlocks)
                 PROVE x.num \in lastConf + 1..Len(chain) /\ LocalBlocks # <<>>
    BY <1>1
  <2>2. PICK i \in 1..Len(chain) - lastConf : x = LocalBlocks[i]
    BY <2>1 DEF ToSet, LocalBlocks
  <2>3. LocalBlocks[i] = LocalBlock(lastConf + i, chain[lastConf + i])  BY DEF LocalBlocks
  <2>4. x.num = lastConf + i  BY <2>2, <2>3 DEF LocalBlock, Msg
  <2>5. LocalBlocks # <<>>
    <3>1. DOMAIN LocalBlocks = 1..Len(chain) - lastConf  BY DEF LocalBlocks
    <3>2. DOMAIN <<>> = {}  OBVIOUS
    <3> QED BY <3>1, <3>2, <2>2
  <2> QED BY <2>2, <2>4, <2>5
<1>3. PICK r : r = Republish(b)  OBVIOUS
<1>4. DOMAIN r = DOMAIN b \cup N
      /\ \A n \in DOMAIN r :
            r[n] = IF n > lastConf /\ n <= Len(chain) /\ LocalBlocks # <<>>
                   THEN Entry(chain[n].id, <<LocalBlock(n, chain[n])>>) ELSE b[n]
  BY <1>1, <1>3 DEF Republish
<1>5. ASSUME NEW n \in DOMAIN r PROVE n \in Nat /\ EntryOK(f, l, r[n])
  <2>1. CASE n \in N
    <3>1. n \in 1..Len(chain) /\ n \in Nat \ {0} /\ n > lastConf  BY <2>1, <1>2
    <3>2. Of(f, chain[n]) /\ chain[n] \in BlockRec /\ Placed(f, n, chain[n])
      BY <3>1, ChainBlock DEF Placed
    <3>3. MsgsOK(f, l, <<LocalBlock(n, chain[n])>>)  BY <3>1, <3>2, LocalOK, OneMsg
    <3>4. chain[n].id \in Int  BY <3>2 DEF BlockRec
    <3>5. r[n] = Entry(chain[n].id, <<LocalBlock(n, chain[n])>>)  BY <1>2, <1>4, <2>1, <3>1
    <3> QED BY <3>1, <3>3, <3>4, <3>5, NewEntry
  <2>2. CASE n \notin N /\ r[n] = b[n]
    BY <2>2, <1>4 DEF BufferOK
  <2>3. CASE n \notin N /\ r[n] # b[n]
    <3>1. n > lastConf /\ n <= Len(chain) /\ LocalBlocks # <<>>
          /\ r[n] = Entry(chain[n].id, <<LocalBlock(n, chain[n])>>)
      BY <2>3, <1>4
    <3>2. n \in Nat  BY <2>3, <1>4 DEF BufferOK
    <3>3. n \in 1..Len(chain) /\ n \in Nat \ {0}  BY <3>1, <3>2
    <3>4. Of(f, chain[n]) /\ chain[n] \in BlockRec /\ Placed(f, n, chain[n])
      BY <3>3, ChainBlock DEF Placed
    <3>5. MsgsOK(f, l, <<LocalBlock(n, chain[n])>>)  BY <3>3, <3>4, LocalOK, OneMsg
    <3>6. chain[n].id \in Int  BY <3>4 DEF BlockRec
    <3> QED BY <3>1, <3>2, <3>5, <3>6, NewEntry
  <2> QED BY <2>1, <2>2, <2>3
<1> QED BY <1>3, <1>5 DEF BufferOK


(***************************************************************************)
(* Steps of the full node.                                                 *)
(***************************************************************************)
\* A block with a new identity is made.
LEMMA NewBlock ==
    ASSUME NEW f, NEW n, Made(f, n), NEW p \in Nat
    PROVE  \E g : Made(g, n + 1) /\ Knows(f, g) /\ Of(g, [id |-> n, par |-> p])
<1>1. n \in Nat \ {0} /\ f \in [1..n - 1 -> BlockRec]  BY DEF Made
<1>2. PICK b : b = [id |-> n, par |-> p]  OBVIOUS
<1>3. b \in BlockRec /\ b.id = n  BY <1>1, <1>2 DEF BlockRec
<1> DEFINE g == [i \in 1..n |-> IF i = n THEN b ELSE f[i]]
<1>4. n + 1 \in Nat \ {0} /\ (n + 1) - 1 = n  BY <1>1
<1>5. g \in [1..n -> BlockRec]  BY <1>1, <1>3
<1>6. Made(g, n + 1)
  <2> HIDE DEF g
  <2> QED BY <1>4, <1>5 DEF Made
<1>7. Knows(f, g)  BY <1>1 DEF Knows
<1>8. Of(g, b)  BY <1>1, <1>3 DEF Of
<1> HIDE DEF g
<1> QED BY <1>2, <1>6, <1>7, <1>8

\* The block that is produced next makes one more identity.
LEMMA NextBlock ==
    ASSUME NEW f, SyncOK(f), NEW b, b = [id |-> nextId, par |-> TipOf(chain)],
           NEW n, n = Len(chain) + 1
    PROVE  \E g : /\ Made(g, nextId + 1) /\ Knows(f, g) /\ Of(g, b)
                  /\ ChainOf(g, l1) /\ NodeOK(g, chain, lastSub, lastConf, pend)
                  /\ BufferOK(g, l1, buffer) /\ MsgsOK(g, l1, chan)
                  /\ ClientOK(g, l1, cchain, cConf, cTx)
                  /\ MsgOK(g, l1, LocalBlock(n, b))
<1> Len(chain) \in Nat /\ Len(l1) \in Nat  BY LenProperties DEF SyncOK, NodeOK, ChainOf
<1>1. TipOf(chain) \in Nat  BY IdIsNat DEF TipOf, SyncOK, NodeOK
<1>2. PICK g : Made(g, nextId + 1) /\ Knows(f, g) /\ Of(g, b)
  BY <1>1, NewBlock DEF SyncOK
<1>3. Grown(l1, l1)  BY DEF Grown
<1>4. ChainOf(g, l1) /\ NodeOK(g, chain, lastSub, lastConf, pend)
      /\ BufferOK(g, l1, buffer) /\ MsgsOK(g, l1, chan)
      /\ ClientOK(g, l1, cchain, cConf, cTx)
  BY <1>2, <1>3, ChainGrows, NodeGrows, BufferGrows, MsgsGrow, ClientGrows DEF SyncOK
<1>5. MsgOK(g, l1, LocalBlock(n, b))
  <2>1. PICK s : s = Append(chain, b)  OBVIOUS
  <2>2. ChainOf(g, chain) /\ b.par = TipOf(chain) /\ n \in Nat \ {0}  BY <1>4 DEF NodeOK
  <2>3. ChainOf(g, s) /\ Len(s) = n  BY <1>2, <2>1, <2>2, ChainAppend
  <2>4. s[n] = b  BY <1>2, <2>1, <2>2, AppendProperties DEF ChainOf, Of
  <2>5. Placed(g, n, b)  BY <2>2, <2>3, <2>4 DEF Placed
  <2> QED BY <1>2, <2>2, <2>5, LocalOK
<1> QED BY <1>2, <1>4, <1>5

LEMMA PublishLocalBlockOK ==
    ASSUME NEW f, SyncOK(f), PublishLocalBlock
    PROVE  BlockSyncInv'
<1> Len(chain) \in Nat  BY LenProperties DEF SyncOK, NodeOK, ChainOf
<1>1. PICK b, n : b = [id |-> nextId, par |-> TipOf(chain)] /\ n = Len(chain) + 1  OBVIOUS
<1>2. /\ pend' = <<b>> /\ buffer' = PutLocal(buffer, n, b) /\ Broadcast(<<LocalBlock(n, b)>>)
      /\ nextId' = nextId + 1
      /\ UNCHANGED <<l1, chain, lastSub, lastConf, cchain, cConf, cTx>>
  BY <1>1 DEF PublishLocalBlock, ledgerVars, clientStore
<1>3. PICK g : /\ Made(g, nextId + 1) /\ Of(g, b)
               /\ ChainOf(g, l1) /\ NodeOK(g, chain, lastSub, lastConf, pend)
               /\ BufferOK(g, l1, buffer) /\ MsgsOK(g, l1, chan)
               /\ ClientOK(g, l1, cchain, cConf, cTx) /\ MsgOK(g, l1, LocalBlock(n, b))
  BY <1>1, NextBlock
<1>4. MsgsOK(g, l1, <<LocalBlock(n, b)>>)  BY <1>3, OneMsg
<1>5. b.id \in Int /\ n \in Nat  BY <1>1, <1>3 DEF Of, BlockRec
<1>6. BufferOK(g, l1, buffer')  BY <1>2, <1>3, <1>4, <1>5, NewEntry, PutOK DEF PutLocal
<1>7. MsgsOK(g, l1, chan')  BY <1>2, <1>3, <1>4, BroadcastOK
<1>8. NodeOK(g, chain, lastSub, lastConf, <<b>>)
  <2>1. <<b>> \in Seq(BlockRec) /\ Len(<<b>>) = 1 /\ <<b>>[1] = b  BY <1>3 DEF Of
  <2> QED BY <2>1, <1>3 DEF NodeOK
<1> QED BY <1>2, <1>3, <1>6, <1>7, <1>8 DEF BlockSyncInv, SyncOK

LEMMA CommitLocalBlockOK ==
    ASSUME NEW f, SyncOK(f), CommitLocalBlock
    PROVE  SyncOK(f)'
<1> Len(chain) \in Nat /\ pend \in Seq(BlockRec)  BY LenProperties DEF SyncOK, NodeOK, ChainOf
<1>1. PICK b, c : b = Head(pend) /\ c = Append(chain, b)  OBVIOUS
<1>2. /\ pend # <<>> /\ b.par = TipOf(chain) /\ chain' = c /\ pend' = <<>>
      /\ buffer' = PutMem(buffer, c) /\ Broadcast(<<NextMemBlock(c)>>)
      /\ UNCHANGED <<l1, lastSub, lastConf, nextId, cchain, cConf, cTx>>
  BY <1>1 DEF CommitLocalBlock, Produce, clientStore
<1>3. Of(f, b)
  <2>1. Len(pend) \in Nat /\ Len(pend) # 0 /\ b = pend[1]
    BY <1>1, <1>2, EmptySeq, LenProperties, HeadTailProperties
  <2> QED BY <2>1 DEF SyncOK, NodeOK
<1>4. ChainOf(f, c) /\ Len(c) = Len(chain) + 1  BY <1>1, <1>2, <1>3, ChainAppend DEF SyncOK, NodeOK
<1>5. MsgsOK(f, l1, <<NextMemBlock(c)>>)  BY <1>4, MemOK, OneMsg
<1>6. NoHash \in Int /\ Len(c) + 1 \in Nat  BY <1>4 DEF NoHash
<1>7. BufferOK(f, l1, buffer')  BY <1>2, <1>5, <1>6, NewEntry, PutOK DEF PutMem, SyncOK
<1>8. MsgsOK(f, l1, chan')  BY <1>2, <1>5, BroadcastOK DEF SyncOK
<1>9. NodeOK(f, c, lastSub, lastConf, <<>>)
  <2>1. lastSub \in 0..Len(c) /\ lastConf \in 0..Len(c)  BY <1>4 DEF SyncOK, NodeOK
  <2> QED BY <2>1, <1>4, EmptySeq DEF NodeOK
<1> QED BY <1>2, <1>7, <1>8, <1>9 DEF SyncOK

LEMMA PublishSubmittedOK ==
    ASSUME NEW f, SyncOK(f), PublishSubmitted
    PROVE  SyncOK(f)'
<1> Len(chain) \in Nat /\ ChainOf(f, chain) /\ lastSub \in 0..Len(chain)
  BY LenProperties DEF SyncOK, NodeOK, ChainOf
<1>1. PICK n : n = lastSub + 1  OBVIOUS
<1>2. /\ lastSub < Len(chain) /\ lastSub' = n
      /\ buffer' = Extend(buffer, n, About("submitted", n))
      /\ Broadcast(<<About("submitted", n)>>)
      /\ UNCHANGED <<l1, chain, lastConf, pend, nextId, cchain, cConf, cTx>>
  BY <1>1 DEF PublishSubmitted, Submit, clientStore
<1>3. n \in 0..Len(chain) /\ n # 0  BY <1>1, <1>2
<1>4. MsgOK(f, l1, About("submitted", n))  BY <1>3, AboutOK
<1>5. BufferOK(f, l1, buffer')  BY <1>2, <1>4, ExtendOK DEF SyncOK
<1>6. MsgsOK(f, l1, chan')  BY <1>2, <1>4, OneMsg, BroadcastOK DEF SyncOK
<1>7. NodeOK(f, chain, n, lastConf, pend)  BY <1>3 DEF SyncOK, NodeOK
<1> QED BY <1>2, <1>5, <1>6, <1>7 DEF SyncOK

\* A block that is not stored after all, and a submission that is sent.
LEMMA UnpublishedOK ==
    ASSUME NEW f, SyncOK(f), FailLocalBlock \/ SendSubmission
    PROVE  SyncOK(f)'
<1>1. /\ UNCHANGED <<l1, chain, lastSub, lastConf, buffer, nextId, chan, cchain, cConf, cTx>>
      /\ pend' = pend \/ pend' = <<>>
  BY DEF FailLocalBlock, SendSubmission, ledgerVars, clientVars
<1>2. NodeOK(f, chain, lastSub, lastConf, <<>>)  BY EmptySeq DEF SyncOK, NodeOK
<1> QED BY <1>1, <1>2 DEF SyncOK

LEMMA PublishConfirmedOK ==
    ASSUME NEW f, SyncOK(f), PublishConfirmed
    PROVE  SyncOK(f)'
<1> Len(chain) \in Nat /\ Len(l1) \in Nat /\ ChainOf(f, chain)
    /\ lastSub \in 0..Len(chain) /\ lastConf \in 0..Len(chain)
  BY LenProperties DEF SyncOK, NodeOK, ChainOf
<1>1. PICK n : n = lastConf + 1  OBVIOUS
<1>2. PICK k : k = (IF n > BufferCapacity THEN n - BufferCapacity ELSE 0) + 1  OBVIOUS
<1>3. /\ lastConf < lastSub /\ lastConf' = n /\ n <= Len(l1) /\ l1[n] = chain[n]
      /\ buffer' = From(Extend(buffer, n, About("confirmed", n)), k)
      /\ Broadcast(<<About("confirmed", n)>>)
      /\ UNCHANGED <<l1, chain, lastSub, pend, nextId, cchain, cConf, cTx>>
  BY <1>1, <1>2 DEF PublishConfirmed, Confirm, clientStore
<1>4. n \in 0..Len(chain) /\ n # 0  BY <1>1, <1>3
<1>5. MsgOK(f, l1, About("confirmed", n))  BY <1>3, <1>4, AboutOK
<1>6. BufferOK(f, l1, buffer')  BY <1>3, <1>5, ExtendOK, CutOK DEF SyncOK
<1>7. MsgsOK(f, l1, chan')  BY <1>3, <1>5, OneMsg, BroadcastOK DEF SyncOK
<1>8. NodeOK(f, chain, lastSub, n, pend)  BY <1>4 DEF SyncOK, NodeOK
<1> QED BY <1>3, <1>6, <1>7, <1>8 DEF SyncOK

LEMMA PublishTransactionOK ==
    ASSUME NEW f, SyncOK(f), PublishTransaction
    PROVE  SyncOK(f)'
<1>1. PICK x, k : x = Msg("push", 0, [id |-> 0, par |-> 0]) /\ k = Max(DOMAIN buffer)  OBVIOUS
<1>2. /\ buffer' = Extend(buffer, k, x) \/ buffer' = buffer
      /\ Broadcast(<<x>>)
      /\ UNCHANGED <<l1, chain, lastSub, lastConf, pend, nextId, cchain, cConf, cTx>>
  BY <1>1 DEF PublishTransaction, ledgerVars, clientStore
<1>3. MsgOK(f, l1, x)  BY <1>1 DEF MsgOK, Msg, Message, BlockRec
<1>4. BufferOK(f, l1, buffer')  BY <1>2, <1>3, ExtendOK DEF SyncOK
<1>5. MsgsOK(f, l1, chan')  BY <1>2, <1>3, OneMsg, BroadcastOK DEF SyncOK
<1> QED BY <1>2, <1>4, <1>5 DEF SyncOK


LEMMA RestartOK ==
    ASSUME NEW f, SyncOK(f), Restart
    PROVE  SyncOK(f)'
<1>1. /\ UNCHANGED <<l1, chain, lastSub, lastConf, nextId, cchain, cConf, cTx>>
      /\ pend' = <<>> /\ buffer' = <<>>
  BY DEF Restart, StartSync, ledgerVars, clientStore
<1>2. PICK k \in 0..Len(chan) : chan' = SubSeq(chan, 1, k)  BY DEF Restart
<1>3. MsgsOK(f, l1, chan')  BY <1>2, MsgsPrefix DEF SyncOK
<1>4. BufferOK(f, l1, <<>>)  BY DEF BufferOK
<1>5. NodeOK(f, chain, lastSub, lastConf, <<>>)  BY EmptySeq DEF SyncOK, NodeOK
<1> QED BY <1>1, <1>3, <1>4, <1>5 DEF SyncOK

\* A revert keeps a beginning of the chain.
LEMMA RewindOK ==
    ASSUME NEW f, NodeOK(f, chain, lastSub, lastConf, pend), NEW k \in Nat, Rewind(k)
    PROVE  NodeOK(f, chain', lastSub', lastConf', pend)
<1> Len(chain) \in Nat /\ ChainOf(f, chain) /\ lastSub \in 0..Len(chain)
    /\ lastConf \in 0..Len(chain)
  BY LenProperties DEF NodeOK, ChainOf
<1>1. k \in 0..Len(chain)  BY DEF Rewind
<1>2. PICK c : c = SubSeq(chain, 1, k)  OBVIOUS
<1>3. ChainOf(f, c) /\ Len(c) = k  BY <1>1, <1>2, ChainPrefix
<1>4. Below(lastSub, k) \in 0..k /\ Below(lastConf, k) \in 0..k  BY <1>1 DEF Below
<1> QED BY <1>2, <1>3, <1>4 DEF Rewind, NodeOK

LEMMA SyncServerOK ==
    ASSUME NEW f, SyncOK(f), SyncServer \/ RevertBlocks \/ ForkNoticed \/ Disturb
    PROVE  SyncOK(f)'
<1> Len(chain) \in Nat /\ Len(l1) \in Nat /\ ChainOf(f, chain) /\ ChainOf(f, l1)
    /\ NodeOK(f, chain, lastSub, lastConf, pend)
  BY LenProperties DEF SyncOK, NodeOK, ChainOf
<1>1. UNCHANGED <<l1, pend, buffer, chan, nextId, cchain, cConf, cTx>>
  BY DEF SyncServer, RevertBlocks, ForkNoticed, Disturb, StartSync, Rewind, Adopt, Known,
         syncRest, serverVars, clientVars
<1>2. NodeOK(f, chain', lastSub', lastConf', pend)
  <2>1. CASE ForkNoticed \/ Disturb  BY <2>1 DEF ForkNoticed, Disturb, StartSync
  <2>2. CASE RevertBlocks
    <3>1. PICK k \in 0..Len(chain) - 1 : Rewind(k)  BY <2>2 DEF RevertBlocks
    <3> QED BY <3>1, RewindOK
  <2>3. CASE SyncServer /\ Rewind(ForkPoint)
    <3> DEFINE S == {k \in 0..Len(l1) : k <= Len(chain) /\ SubSeq(l1, 1, k) = SubSeq(chain, 1, k)}
    <3>1. 0 \in S
      <4>1. SubSeq(l1, 1, 0) = <<>> /\ SubSeq(chain, 1, 0) = <<>>
        BY SubSeqEmpty DEF ChainOf
      <4> QED BY <4>1
    <3>2. S \subseteq Nat /\ \A x \in S : x <= Len(l1)  OBVIOUS
    <3>3. ForkPoint = Max(S)  BY DEF ForkPoint
    <3> HIDE DEF S
    <3>4. \E x \in S : \A y \in S : y <= x  BY <3>1, <3>2, GreatestNat
    <3>5. Max(S) \in S
      <4>1. \E x \in S : \A y \in S : x >= y  BY <3>2, <3>4
      <4> QED BY <4>1 DEF Max
    <3> QED BY <2>3, <3>2, <3>3, <3>5, RewindOK
  <2>4. CASE SyncServer /\ Adopt
    <3>1. PICK n : n = Len(chain) + 1  OBVIOUS
    <3>2. /\ IsPrefix(chain, l1) /\ chain # l1 /\ chain' = Append(chain, l1[n])
          /\ lastConf' = n /\ lastSub' = n
      BY <2>4, <3>1 DEF Adopt, IsStrictPrefix
    <3>3. Len(chain) <= Len(l1) /\ SubSeq(chain, 1, Len(chain)) = SubSeq(l1, 1, Len(chain))
      BY <3>2 DEF IsPrefix
    <3>4. \A i \in 1..Len(chain) : chain[i] = l1[i]  BY <3>3, ChainPrefix
    <3>5. Len(chain) # Len(l1)
      <4>1. SUFFICES ASSUME Len(chain) = Len(l1) PROVE FALSE  OBVIOUS
      <4>2. chain = l1  BY <3>4, <4>1, SeqEqual DEF ChainOf
      <4> QED BY <4>2, <3>2
    <3>6. n \in 1..Len(l1) /\ n - 1 = Len(chain)  BY <3>1, <3>3, <3>5
    <3>7. Of(f, l1[n]) /\ l1[n].par = IdAt(l1, n - 1)  BY <3>6, ChainBlock
    <3>8. IdAt(l1, Len(chain)) = TipOf(chain)  BY <3>4 DEF IdAt, TipOf
    <3>9. ChainOf(f, chain') /\ Len(chain') = n  BY <3>1, <3>2, <3>6, <3>7, <3>8, ChainAppend
    <3>10. n \in 0..n  BY <3>6
    <3> QED BY <3>2, <3>9, <3>10 DEF NodeOK
  <2>5. CASE SyncServer /\ Known
    BY <2>5 DEF Known, IsPrefix, NodeOK
  <2> QED BY <2>1, <2>2, <2>3, <2>4, <2>5 DEF SyncServer
<1> QED BY <1>1, <1>2 DEF SyncOK

LEMMA FinishOK ==
    ASSUME NEW f, SyncOK(f), FinishResync \/ FinishBoot
    PROVE  SyncOK(f)'
<1> Len(chain) \in Nat /\ Len(l1) \in Nat /\ ChainOf(f, chain) /\ ChainOf(f, l1)
    /\ lastConf \in 0..Len(chain) /\ lastSub \in 0..Len(chain)
  BY LenProperties DEF SyncOK, NodeOK, ChainOf
<1>1. /\ IsPrefix(l1, chain) /\ lastConf = Len(l1) /\ lastSub = Len(l1)
      /\ UNCHANGED <<l1, chain, lastSub, lastConf, pend, nextId, cchain, cConf, cTx>>
  BY DEF FinishResync, FinishBoot, Synced, Resume, clientStore
<1>2. Len(l1) <= Len(chain) /\ SubSeq(l1, 1, Len(l1)) = SubSeq(chain, 1, Len(l1))
  BY <1>1 DEF IsPrefix
<1>3. \A i \in 1..Len(l1) : l1[i] = chain[i]  BY <1>2, ChainPrefix
<1>4. lastSub # 0 => l1[lastSub] = chain[lastSub]  BY <1>1, <1>3
<1>5. MsgOK(f, l1, About("revert", lastSub))  BY <1>1, <1>4, AboutOK
<1>6. MsgsOK(f, l1, <<About("revert", lastSub)>>) /\ MsgsOK(f, l1, LocalBlocks)
  BY <1>5, OneMsg, LocalBlocksOK
<1>7. MsgsOK(f, l1, <<NextMemBlock(chain)>>) /\ MsgsOK(f, l1, <<>>)
  BY MemOK, OneMsg, NoMsgs
<1>8. \A b : BufferOK(f, l1, b) => BufferOK(f, l1, PutMem(b, chain))
  <2>1. NoHash \in Int /\ Len(chain) + 1 \in Nat  BY DEF NoHash
  <2> QED BY <1>7, <2>1, NewEntry, PutOK DEF PutMem
<1>9. \A b : BufferOK(f, l1, b) => BufferOK(f, l1, Republish(b))  BY RepublishOK
<1>10. BufferOK(f, l1, UpTo(buffer, lastSub)) /\ BufferOK(f, l1, buffer)  BY CutOK DEF SyncOK
<1>11. MsgsOK(f, l1, chan)  BY DEF SyncOK
<1>12. BufferOK(f, l1, buffer') /\ MsgsOK(f, l1, chan')
  <2>1. CASE FinishResync
    <3>1. PICK ms \in {<<>>, <<NextMemBlock(chain)>>} :
             /\ LET b == Republish(UpTo(buffer, lastSub))
                IN  buffer' = IF ms = <<>> THEN b ELSE PutMem(b, chain)
             /\ Broadcast(<<About("revert", lastSub)>> \o LocalBlocks \o ms)
      BY <2>1 DEF FinishResync
    <3>2. BufferOK(f, l1, buffer')  BY <3>1, <1>8, <1>9, <1>10
    <3>3. MsgsOK(f, l1, <<About("revert", lastSub)>> \o LocalBlocks \o ms)
      BY <1>6, <1>7, MsgsJoin
    <3> QED BY <3>1, <3>2, <3>3, <1>11, BroadcastOK
  <2>2. CASE FinishBoot
    <3>1. PICK ms \in {<<>>, <<NextMemBlock(chain)>>} :
             /\ buffer' = Republish(IF ms = <<>> THEN buffer ELSE PutMem(buffer, chain))
             /\ Broadcast(ms \o LocalBlocks)
      BY <2>2 DEF FinishBoot
    <3>2. BufferOK(f, l1, buffer')  BY <3>1, <1>8, <1>9, <1>10
    <3>3. MsgsOK(f, l1, ms \o LocalBlocks)  BY <1>6, <1>7, MsgsJoin
    <3> QED BY <3>1, <3>2, <3>3, <1>11, BroadcastOK
  <2> QED BY <2>1, <2>2
<1> QED BY <1>1, <1>12 DEF SyncOK

(***************************************************************************)
(* Layer 1.                                                                *)
(***************************************************************************)
\* A block that extends layer 1.
LEMMA L1AcceptsOK ==
    ASSUME NEW f, SyncOK(f), NEW g, Knows(f, g), Made(g, nextId'),
           NEW b, Of(g, b), L1Accepts(b), UNCHANGED <<serverVars, clientVars>>
    PROVE  SyncOK(g)'
<1>1. ChainOf(f, l1) /\ Len(l1) \in Nat  BY LenProperties DEF SyncOK, ChainOf
<1>2. PICK l : l = Append(l1, b)  OBVIOUS
<1>3. l1' = l /\ b.par = TipOf(l1) /\ UNCHANGED <<chain, lastSub, lastConf>>
  BY <1>2 DEF L1Accepts
<1>4. UNCHANGED <<pend, buffer, chan, cchain, cConf, cTx>>  BY DEF serverVars, clientVars
<1>5. ChainOf(g, l) /\ Len(l) = Len(l1) + 1 /\ \A i \in 1..Len(l1) : l[i] = l1[i]
  BY <1>1, <1>2, <1>3, ChainGrows, ChainAppend
<1>6. Grown(l1, l) /\ Len(l) \in Nat  BY <1>1, <1>5 DEF Grown
<1>7. /\ NodeOK(g, chain, lastSub, lastConf, pend)
      /\ BufferOK(g, l, buffer) /\ MsgsOK(g, l, chan) /\ ClientOK(g, l, cchain, cConf, cTx)
  BY <1>1, <1>6, NodeGrows, BufferGrows, MsgsGrow, ClientGrows DEF SyncOK
<1> QED BY <1>3, <1>4, <1>5, <1>7 DEF SyncOK

LEMMA Layer1OK ==
    ASSUME NEW f, SyncOK(f), Layer1
    PROVE  BlockSyncInv'
<1> Len(chain) \in Nat /\ Len(l1) \in Nat /\ Len(cchain) \in Nat
    /\ ChainOf(f, chain) /\ ChainOf(f, l1) /\ ChainOf(f, cchain) /\ Made(f, nextId)
  BY LenProperties DEF SyncOK, NodeOK, ClientOK, ChainOf
<1>1. Knows(f, f)  BY DEF Knows
<1>2. UNCHANGED <<serverVars, clientVars>>  BY DEF Layer1, CommitOwn, CommitReverted, CommitForeign, l1Rest
<1>3. PICK n : n = Len(l1) + 1  OBVIOUS
<1>4. CASE CommitOwn
  <2>1. L1Accepts(chain[n]) /\ nextId' = nextId /\ IsPrefix(l1, chain) /\ l1 # chain
    BY <1>3, <1>4 DEF CommitOwn, IsStrictPrefix
  <2>2. Len(l1) <= Len(chain) /\ SubSeq(l1, 1, Len(l1)) = SubSeq(chain, 1, Len(l1))
    BY <2>1 DEF IsPrefix
  <2>3. \A i \in 1..Len(l1) : l1[i] = chain[i]  BY <2>2, ChainPrefix
  <2>4. Len(chain) # Len(l1)
    <3>1. SUFFICES ASSUME Len(chain) = Len(l1) PROVE FALSE  OBVIOUS
    <3>2. chain = l1  BY <2>3, <3>1, SeqEqual DEF ChainOf
    <3> QED BY <3>2, <2>1
  <2>5. n \in 1..Len(chain)  BY <1>3, <2>2, <2>4
  <2>6. Of(f, chain[n])  BY <2>5, ChainBlock
  <2>7. Made(f, nextId')  BY <2>1
  <2>8. SyncOK(f)'  BY <1>1, <1>2, <2>1, <2>6, <2>7, L1AcceptsOK
  <2> QED BY <2>8 DEF BlockSyncInv
<1>5. CASE CommitReverted
  <2>1. L1Accepts(cchain[n]) /\ nextId' = nextId /\ Len(l1) < Len(cchain)
    BY <1>3, <1>5 DEF CommitReverted
  <2>2. n \in 1..Len(cchain)  BY <1>3, <2>1
  <2>3. Of(f, cchain[n])  BY <2>2, ChainBlock
  <2>4. Made(f, nextId')  BY <2>1
  <2>5. SyncOK(f)'  BY <1>1, <1>2, <2>1, <2>3, <2>4, L1AcceptsOK
  <2> QED BY <2>5 DEF BlockSyncInv
<1>6. CASE CommitForeign
  <2>1. PICK b : b = [id |-> nextId, par |-> TipOf(l1)]  OBVIOUS
  <2>2. L1Accepts(b) /\ nextId' = nextId + 1  BY <1>6, <2>1 DEF CommitForeign
  <2>3. TipOf(l1) \in Nat  BY IdIsNat DEF TipOf
  <2>4. PICK g : Made(g, nextId + 1) /\ Knows(f, g) /\ Of(g, b)  BY <2>1, <2>3, NewBlock
  <2>5. SyncOK(g)'  BY <1>2, <2>2, <2>4, L1AcceptsOK
  <2> QED BY <2>5 DEF BlockSyncInv
<1> QED BY <1>4, <1>5, <1>6 DEF Layer1


(***************************************************************************)
(* Steps of the read-only node.                                            *)
(***************************************************************************)
\* What a step of the read-only node leaves alone.
LEMMA ClientFrame ==
    ASSUME NEW f, SyncOK(f), UNCHANGED <<ledgerVars, serverVars, nextId>>,
           MsgsOK(f, l1, chan'), ClientOK(f, l1, cchain', cConf', cTx')
    PROVE  SyncOK(f)'
<1>1. UNCHANGED <<l1, chain, lastSub, lastConf, pend, buffer, nextId>>
  BY DEF ledgerVars, serverVars
<1> QED BY <1>1 DEF SyncOK

\* The read-only node agrees with layer 1 up to a block that layer 1 holds.
LEMMA MovesOnL1 ==
    ASSUME NEW f, NEW l, NEW c, ChainOf(f, l), ChainOf(f, c), NEW n \in 0..Len(c),
           n <= Len(l), n # 0 => c[n].id = l[n].id
    PROVE  \A i \in 1..n : c[i] = l[i]
<1> Len(c) \in Nat /\ Len(l) \in Nat  BY LenProperties DEF ChainOf
<1>1. CASE n = 0  BY <1>1
<1>2. CASE n # 0
  <2>1. n \in 1..Len(c)  BY <1>2
  <2> QED BY <1>2, <2>1, SameIdentity
<1> QED BY <1>1, <1>2

\* What sync_l1 finds of the read-only node's blocks on layer 1.
LEMMA KnownFacts ==
    ASSUME NEW f, SyncOK(f)
    PROVE  /\ LastOnL1 \in 0..cConf /\ KnownOnL1(LastOnL1)
           /\ KnownUpTo \in LastOnL1..Len(l1)
           /\ \A n \in LastOnL1 + 1..KnownUpTo : KnownOnL1(n)
<1> cConf \in Nat /\ cConf <= Len(l1) /\ Len(l1) \in Nat
  BY LenProperties DEF SyncOK, ClientOK, ChainOf
<1>3. LastOnL1 \in 0..cConf /\ KnownOnL1(LastOnL1)
  <2> DEFINE S == {n \in 0..cConf : KnownOnL1(n)}
  <2>1. 0 \in S  BY DEF KnownOnL1
  <2>2. S \subseteq Nat /\ cConf \in Nat /\ \A x \in S : x <= cConf /\ x \in 0..cConf /\ KnownOnL1(x)
    OBVIOUS
  <2>3. LastOnL1 = Max(S)  BY DEF LastOnL1
  <2> HIDE DEF S
  <2>4. \E x \in S : \A y \in S : y <= x  BY <2>1, <2>2, GreatestNat
  <2>5. \E x \in S : \A y \in S : x >= y  BY <2>2, <2>4
  <2>6. Max(S) \in S  BY <2>5 DEF Max
  <2> QED BY <2>2, <2>3, <2>6
<1>4. KnownUpTo \in LastOnL1..Len(l1) /\ \A n \in LastOnL1 + 1..KnownUpTo : KnownOnL1(n)
  <2>1. PICK k : k = LastOnL1  OBVIOUS
  <2>2. k \in 0..Len(l1)  BY <2>1, <1>3
  <2> DEFINE S == {m \in k..Len(l1) : \A n \in k + 1..m : KnownOnL1(n)}
  <2>3. k \in S  BY <2>2
  <2>4. S \subseteq Nat /\ \A x \in S : x <= Len(l1) /\ x \in k..Len(l1)
                                        /\ \A n \in k + 1..x : KnownOnL1(n)
    BY <2>2
  <2>5. KnownUpTo = Max(S)  BY <2>1 DEF KnownUpTo
  <2> HIDE DEF S
  <2>6. \E x \in S : \A y \in S : y <= x  BY <2>3, <2>4, GreatestNat
  <2>7. \E x \in S : \A y \in S : x >= y  BY <2>4, <2>6
  <2>8. Max(S) \in S  BY <2>7 DEF Max
  <2> QED BY <2>1, <2>4, <2>5, <2>8
<1> QED BY <1>3, <1>4

\* sync_l1: the newest known block of layer 1 is the tip, or the blocks of layer 1
\* replace the local ones.
LEMMA ClientSyncOK ==
    ASSUME NEW f, SyncOK(f), ClientSync
    PROVE  SyncOK(f)'
<1> ChainOf(f, l1) /\ ChainOf(f, cchain) /\ cTx \subseteq 1..Len(cchain)
    /\ cConf \in 0..Len(cchain) /\ cConf <= Len(l1) /\ Len(l1) \in Nat /\ Len(cchain) \in Nat
  BY LenProperties DEF SyncOK, ClientOK, ChainOf
<1>1. UNCHANGED <<ledgerVars, serverVars, nextId, chan>>  BY DEF ClientSync, clientRest
<1>2. cConf' = Len(l1)  BY DEF ClientSync
<1>3. LastOnL1 \in 0..cConf /\ KnownOnL1(LastOnL1)  BY KnownFacts
<1>4. KnownUpTo \in LastOnL1..Len(l1) /\ \A n \in LastOnL1 + 1..KnownUpTo : KnownOnL1(n)
  BY KnownFacts
<1>5. PICK k, u : k = LastOnL1 /\ u = KnownUpTo  OBVIOUS
<1>6. k \in 0..cConf /\ u \in k..Len(l1) /\ KnownOnL1(u)
  <2>1. CASE u = k  BY <2>1, <1>3, <1>4, <1>5
  <2>2. CASE u # k  BY <2>2, <1>3, <1>4, <1>5
  <2> QED BY <2>1, <2>2
<1>7. ClientOK(f, l1, cchain', cConf', cTx')
  <2>1. CASE u = Len(l1)
    <3>1. cchain' = cchain /\ cTx' = cTx  BY <2>1, <1>5 DEF ClientSync
    <3>2. u \in 0..Len(cchain) /\ (u # 0 => cchain[u].id = l1[u].id)  BY <1>6 DEF KnownOnL1
    <3>3. \A i \in 1..u : cchain[i] = l1[i]  BY <2>1, <3>2, MovesOnL1
    <3> QED BY <1>2, <2>1, <3>1, <3>2, <3>3 DEF ClientOK
  <2>2. CASE u # Len(l1)
    <3>1. cchain' = l1 /\ cTx' = {n \in cTx : n <= u} \cup (u + 1..Len(l1))
      BY <2>2, <1>5 DEF ClientSync
    <3>2. cTx' \subseteq 1..Len(l1)
      <4>1. \A n \in cTx : n \in 1..Len(cchain)  OBVIOUS
      <4>2. u \in Nat /\ u <= Len(l1)  BY <1>6
      <4>3. \A n \in cTx : n <= u => n \in 1..Len(l1)  BY <4>1, <4>2
      <4>4. \A n \in u + 1..Len(l1) : n \in 1..Len(l1)  BY <4>2
      <4> QED BY <3>1, <4>3, <4>4
    <3> QED BY <1>2, <3>1, <3>2 DEF ClientOK
  <2> QED BY <2>1, <2>2
<1> QED BY <1>1, <1>7, ClientFrame DEF SyncOK

\* at lists the k messages of S, places of the buffer, in order; t is what they say.
Lists(S, k, at) ==
    /\ k \in Nat /\ Cardinality(S) = k /\ at \in [1..k -> S]
    /\ \A i, j \in 1..k : i < j => Before(at[i], at[j])

Resent(k, at, t) ==
    Lists(MessagesAfter(cConf), k, at) /\ t = [j \in 1..k |-> buffer[at[j][1]].msgs[at[j][2]]]

LEMMA SubscribeFacts ==
    ASSUME Subscribe
    PROVE  \E k, at : Resent(k, at, chan')
<1>1. PICK k \in 0..ChannelCapacity :
         \E at \in {h \in IF Cardinality(MessagesAfter(cConf)) = k
                         THEN [1..k -> MessagesAfter(cConf)] ELSE {} :
                      \A i, j \in 1..k : i < j => Before(h[i], h[j])} :
            chan' = [j \in 1..k |-> buffer[at[j][1]].msgs[at[j][2]]]
  BY Zenon DEF Subscribe, Listings
<1>2. PICK S : S = MessagesAfter(cConf)  OBVIOUS
<1>3. PICK at \in {h \in IF Cardinality(S) = k THEN [1..k -> S] ELSE {} :
                      \A i, j \in 1..k : i < j => Before(h[i], h[j])} :
            chan' = [j \in 1..k |-> buffer[at[j][1]].msgs[at[j][2]]]
  BY <1>1, <1>2
<1>4. k \in Nat  BY BlockSyncAssumption
<1>5. Cardinality(S) = k /\ at \in [1..k -> S]  BY <1>3
<1>6. \A i, j \in 1..k : i < j => Before(at[i], at[j])  BY <1>3
<1>7. Lists(S, k, at)  BY <1>4, <1>5, <1>6 DEF Lists
<1> QED BY <1>2, <1>3, <1>7 DEF Resent

\* keep lists the places that stay, and those of the messages that matter are among them.
Skips(keep, n, at, t) ==
    /\ keep \subseteq 1..Len(chan) /\ n \in 1..Len(chan) /\ Cardinality(keep) = n
    /\ at \in [1..n -> keep] /\ \A i, j \in 1..n : i < j => at[i] < at[j]
    /\ \A i \in 1..Len(chan) : chan[i].kind \notin {"mem", "push"} => i \in keep
    /\ t = [j \in 1..n |-> chan[at[j]]]

LEMMA SkipFacts ==
    ASSUME SkipMemPool
    PROVE  \E keep, n, at : Skips(keep, n, at, chan')
<1>1. PICK k \in SkipLength..Len(chan) :
         LET keep == {i \in 1..Len(chan) : i > k \/ chan[i].kind \notin {"mem", "push"}}
         IN  \E n \in 1..Len(chan) :
             \E at \in {h \in IF Cardinality(keep) = n THEN [1..n -> keep] ELSE {} :
                          \A i, j \in 1..n : i < j => h[i] < h[j]} :
                chan' = [j \in 1..n |-> chan[at[j]]]
  BY Zenon DEF SkipMemPool, Listings
<1>2. PICK S : S = {i \in 1..Len(chan) : i > k \/ chan[i].kind \notin {"mem", "push"}}  OBVIOUS
<1>3. /\ S \subseteq 1..Len(chan)
      /\ \A i \in 1..Len(chan) : chan[i].kind \notin {"mem", "push"} => i \in S
  BY <1>2
<1>4. \E n \in 1..Len(chan) :
         \E at \in {h \in IF Cardinality(S) = n THEN [1..n -> S] ELSE {} :
                      \A i, j \in 1..n : i < j => h[i] < h[j]} :
            chan' = [j \in 1..n |-> chan[at[j]]]
  BY <1>1, <1>2
<1>5. PICK n \in 1..Len(chan) :
         \E at \in {h \in IF Cardinality(S) = n THEN [1..n -> S] ELSE {} :
                      \A i, j \in 1..n : i < j => h[i] < h[j]} :
            chan' = [j \in 1..n |-> chan[at[j]]]
  BY <1>4
<1>6. PICK at \in {h \in IF Cardinality(S) = n THEN [1..n -> S] ELSE {} :
                      \A i, j \in 1..n : i < j => h[i] < h[j]} :
            chan' = [j \in 1..n |-> chan[at[j]]]
  BY <1>5
<1>7. Cardinality(S) = n /\ at \in [1..n -> S]  BY <1>6
<1>8. \A i, j \in 1..n : i < j => at[i] < at[j]  BY <1>6
<1> QED BY <1>3, <1>6, <1>7, <1>8 DEF Skips

\* get_and_subscribe: the messages come from the buffer.
LEMMA SubscribeOK ==
    ASSUME NEW f, SyncOK(f), Subscribe
    PROVE  SyncOK(f)'
<1>1. UNCHANGED <<ledgerVars, serverVars, nextId, cchain, cConf, cTx>>  BY DEF Subscribe
<1>2. PICK k, at : Resent(k, at, chan')  BY SubscribeFacts
<1>3. at \in [1..k -> MessagesAfter(cConf)]
      /\ chan' = [j \in 1..k |-> buffer[at[j][1]].msgs[at[j][2]]]
  BY <1>2 DEF Resent, Lists
<1>4. k \in Nat  BY <1>2 DEF Resent, Lists
<1>5. ASSUME NEW j \in 1..k PROVE MsgOK(f, l1, chan'[j])
  <2>1. at[j] \in MessagesAfter(cConf)  BY <1>3
  <2>2. PICK n \in DOMAIN buffer : \E i \in DOMAIN buffer[n].msgs : at[j] = <<n, i>>
    BY <2>1 DEF MessagesAfter
  <2>3. PICK i \in DOMAIN buffer[n].msgs : at[j] = <<n, i>>  BY <2>2
  <2>4. chan'[j] = buffer[n].msgs[i]  BY <1>3, <2>3
  <2>5. MsgsOK(f, l1, buffer[n].msgs)  BY DEF SyncOK, BufferOK, EntryOK
  <2>6. DOMAIN buffer[n].msgs = 1..Len(buffer[n].msgs)  BY <2>5, LenProperties DEF MsgsOK
  <2> QED BY <2>3, <2>4, <2>5, <2>6 DEF MsgsOK
<1>6. MsgsOK(f, l1, chan')
  <2>1. PICK t : t = chan'  OBVIOUS
  <2>2. t = [j \in 1..k |-> t[j]]  BY <1>3, <2>1
  <2> QED BY <1>4, <1>5, <2>1, <2>2, MsgsChosen
<1> QED BY <1>1, <1>6, ClientFrame DEF SyncOK

LEMMA SkipMemPoolOK ==
    ASSUME NEW f, SyncOK(f), SkipMemPool
    PROVE  SyncOK(f)'
<1> Len(chan) \in Nat /\ MsgsOK(f, l1, chan)  BY LenProperties DEF SyncOK, MsgsOK
<1>1. UNCHANGED <<ledgerVars, serverVars, nextId, cchain, cConf, cTx>>
  BY DEF SkipMemPool, clientRest
<1>2. PICK keep, n, at : Skips(keep, n, at, chan')  BY SkipFacts
<1>3. keep \subseteq 1..Len(chan) /\ n \in 1..Len(chan)  BY <1>2 DEF Skips
<1>4. at \in [1..n -> keep] /\ chan' = [j \in 1..n |-> chan[at[j]]]  BY <1>2 DEF Skips
<1>6. PICK t : t = chan'  OBVIOUS
<1>7. t = [j \in 1..n |-> t[j]] /\ n \in Nat  BY <1>3, <1>4, <1>6
<1>8. ASSUME NEW j \in 1..n PROVE MsgOK(f, l1, t[j])
  <2>1. at[j] \in 1..Len(chan) /\ t[j] = chan[at[j]]  BY <1>3, <1>4, <1>6
  <2> QED BY <2>1 DEF MsgsOK
<1>9. MsgsOK(f, l1, chan')  BY <1>6, <1>7, <1>8, MsgsChosen
<1> QED BY <1>1, <1>9, ClientFrame DEF SyncOK

\* The first message of the stream is a good one, and so are the others.
LEMMA Received ==
    ASSUME NEW f, SyncOK(f), NEW kind, Streaming(kind)
    PROVE  /\ MsgOK(f, l1, Head(chan)) /\ Head(chan).kind = kind
           /\ Head(chan).num \in Nat /\ MsgsOK(f, l1, Tail(chan)) /\ MsgsOK(f, l1, <<>>)
<1>1. chan # <<>> /\ Head(chan).kind = kind  BY DEF Streaming
<1>2. MsgOK(f, l1, Head(chan)) /\ MsgsOK(f, l1, Tail(chan))  BY <1>1, MsgsTail DEF SyncOK
<1> QED BY <1>1, <1>2, NoMsgs DEF MsgOK, Message

LEMMA LocalMsgOK ==
    ASSUME NEW f, SyncOK(f), RevertForLocal \/ HandleLocalBlock
    PROVE  SyncOK(f)'
<1> ChainOf(f, cchain) /\ Len(cchain) \in Nat /\ cConf \in 0..Len(cchain)
    /\ cTx \subseteq 1..Len(cchain) /\ cConf <= Len(l1) /\ (\A i \in 1..cConf : cchain[i] = l1[i])
    /\ ClientOK(f, l1, cchain, cConf, cTx) /\ Len(l1) \in Nat
  BY LenProperties DEF SyncOK, ClientOK, ChainOf
<1>1. Streaming("local") /\ UNCHANGED <<ledgerVars, serverVars, nextId>>
  BY DEF RevertForLocal, HandleLocalBlock, clientRest
<1>2. PICK m : m = Head(chan)  OBVIOUS
<1>3. MsgOK(f, l1, m) /\ m.kind = "local" /\ m.num \in Nat
      /\ MsgsOK(f, l1, Tail(chan)) /\ MsgsOK(f, l1, <<>>)
  BY <1>1, <1>2, Received
<1>4. m.num # 0 /\ Of(f, m.blk)  BY <1>3 DEF MsgOK
<1>5. CASE RevertForLocal
  <2>1. PICK k : k = m.num - 1  OBVIOUS
  <2>2. PICK c : c = SubSeq(cchain, 1, k)  OBVIOUS
  <2>3. /\ m.num <= Len(cchain) /\ cchain' = c /\ cConf' = Below(cConf, k)
        /\ cTx' = {n \in cTx : n <= k} /\ chan' = chan
    BY <1>2, <1>5, <2>1, <2>2 DEF RevertForLocal
  <2>4. k \in 0..Len(cchain)  BY <1>3, <1>4, <2>1, <2>3
  <2>5. ChainOf(f, c) /\ Len(c) = k /\ \A i \in 1..k : c[i] = cchain[i]
    BY <2>2, <2>4, ChainPrefix
  <2>6. PICK n : n = Below(cConf, k)  OBVIOUS
  <2>7. n \in 0..k /\ n <= cConf  BY <2>4, <2>6 DEF Below
  <2>8. \A i \in 1..n : c[i] = l1[i]  BY <2>4, <2>5, <2>7
  <2>9. {i \in cTx : i <= k} \subseteq 1..k
    <3>1. \A i \in cTx : i \in 1..Len(cchain)  OBVIOUS
    <3>2. \A i \in cTx : i <= k => i \in 1..k  BY <2>4, <3>1
    <3> QED BY <3>2
  <2>10. ClientOK(f, l1, c, n, {i \in cTx : i <= k})  BY <2>5, <2>7, <2>8, <2>9 DEF ClientOK
  <2> QED BY <1>1, <2>3, <2>6, <2>10, ClientFrame DEF SyncOK
<1>6. CASE HandleLocalBlock
  <2>1. cConf' = cConf /\ cTx' = cTx  BY <1>6 DEF HandleLocalBlock
  <2>2. chan' = Tail(chan) \/ chan' = <<>>
    BY <1>6 DEF HandleLocalBlock, Consume, Disconnect
  <2>3. cchain' = cchain \/ (cchain' = Append(cchain, m.blk) /\ m.blk.par = TipOf(cchain))
    BY <1>2, <1>6 DEF HandleLocalBlock
  <2>4. ClientOK(f, l1, cchain', cConf, cTx)
    <3>1. CASE cchain' = cchain  BY <3>1
    <3>2. CASE cchain' = Append(cchain, m.blk) /\ m.blk.par = TipOf(cchain)
      <4>1. PICK c : c = Append(cchain, m.blk)  OBVIOUS
      <4>2. ChainOf(f, c) /\ Len(c) = Len(cchain) + 1 /\ \A i \in 1..Len(cchain) : c[i] = cchain[i]
        BY <1>4, <3>2, <4>1, ChainAppend
      <4>3. cConf \in 0..Len(c) /\ cTx \subseteq 1..Len(c) /\ \A i \in 1..cConf : c[i] = l1[i]
        BY <4>2
      <4> QED BY <3>2, <4>1, <4>2, <4>3 DEF ClientOK
    <3> QED BY <2>3, <3>1, <3>2
  <2> QED BY <1>1, <1>3, <2>1, <2>2, <2>4, ClientFrame
<1> QED BY <1>5, <1>6

\* check_number_hash before the confirmed block moves.
LEMMA PointerMsgOK ==
    ASSUME NEW f, SyncOK(f), HandleSubmitted \/ HandleConfirmed \/ HandleRevert
    PROVE  SyncOK(f)'
<1> ChainOf(f, cchain) /\ ChainOf(f, l1) /\ Len(cchain) \in Nat /\ Len(l1) \in Nat
    /\ cTx \subseteq 1..Len(cchain) /\ ClientOK(f, l1, cchain, cConf, cTx)
  BY LenProperties DEF SyncOK, ClientOK, ChainOf
<1>1. PICK m : m = Head(chan)  OBVIOUS
<1>2. PICK kind \in {"submitted", "confirmed", "revert"} :
         Streaming(kind) /\ (kind = "submitted" <=> HandleSubmitted)
  BY DEF HandleSubmitted, HandleConfirmed, HandleRevert, Streaming
<1>3. MsgOK(f, l1, m) /\ m.kind = kind /\ m.num \in Nat
      /\ MsgsOK(f, l1, Tail(chan)) /\ MsgsOK(f, l1, <<>>)
  BY <1>1, <1>2, Received
<1>4. UNCHANGED <<ledgerVars, serverVars, nextId, cchain>>
  BY DEF HandleSubmitted, HandleConfirmed, HandleRevert, clientRest
<1>5. chan' = Tail(chan) \/ chan' = <<>>
  BY DEF HandleSubmitted, HandleConfirmed, HandleRevert, Consume, Disconnect
<1>6. ClientOK(f, l1, cchain, cConf', cTx')
  <2>1. CASE kind = "submitted"
    <3>1. cConf' = cConf /\ (cTx' = cTx \/ (cTx' = cTx \cup {m.num} /\ CheckNumberHash(m)))
      BY <1>1, <1>2, <2>1 DEF HandleSubmitted
    <3>2. m.num # 0  BY <1>3, <2>1 DEF MsgOK
    <3>3. CheckNumberHash(m) => m.num \in 1..Len(cchain)  BY <1>3, <3>2 DEF CheckNumberHash
    <3>4. cTx' \subseteq 1..Len(cchain)  BY <3>1, <3>3
    <3> QED BY <3>1, <3>4 DEF ClientOK
  <2>2. CASE kind # "submitted"
    <3>1. cTx' = cTx /\ (cConf' = cConf \/ (cConf' = m.num /\ CheckNumberHash(m)))
      BY <1>1, <1>2, <2>2 DEF HandleConfirmed, HandleRevert
    <3>2. CASE cConf' = cConf  BY <3>1, <3>2
    <3>3. CASE cConf' = m.num /\ CheckNumberHash(m)
      <4>1. OnL1(l1, m.num, m.blk.id)  BY <1>3, <2>2 DEF MsgOK
      <4>2. PICK n : n = m.num  OBVIOUS
      <4>3. n \in 0..Len(cchain) /\ n <= Len(l1) /\ (n # 0 => cchain[n].id = l1[n].id)
        BY <1>3, <3>3, <4>1, <4>2 DEF CheckNumberHash, OnL1, IdAt
      <4>4. \A i \in 1..n : cchain[i] = l1[i]  BY <4>3, MovesOnL1
      <4> QED BY <3>1, <3>3, <4>2, <4>3, <4>4 DEF ClientOK
    <3> QED BY <3>1, <3>2, <3>3
  <2> QED BY <2>1, <2>2
<1> QED BY <1>3, <1>4, <1>5, <1>6, ClientFrame

LEMMA ClientRestOK ==
    ASSUME NEW f, SyncOK(f), HandleMemPool \/ AskAgain \/ StreamEnds \/ ConnectionLost
    PROVE  SyncOK(f)'
<1>1. UNCHANGED <<ledgerVars, serverVars, nextId, cchain, cConf, cTx>>
  BY DEF HandleMemPool, AskAgain, StreamEnds, ConnectionLost, clientRest
<1>2. MsgsOK(f, l1, chan')
  <2>1. CASE HandleMemPool
    <3>1. PICK kind \in {"mem", "push"} : Streaming(kind)  BY <2>1 DEF HandleMemPool
    <3>2. chan' = Tail(chan)  BY <2>1 DEF HandleMemPool, Consume
    <3> QED BY <3>1, <3>2, Received
  <2>2. CASE AskAgain \/ StreamEnds  BY <2>2 DEF AskAgain, StreamEnds, SyncOK
  <2>3. CASE ConnectionLost
    <3>1. chan' = <<>> \/ \E k \in 0..Len(chan) : chan' = SubSeq(chan, 1, k)
      BY <2>3 DEF ConnectionLost, Disconnect
    <3> QED BY <3>1, NoMsgs, MsgsPrefix DEF SyncOK
  <2> QED BY <2>1, <2>2, <2>3
<1> QED BY <1>1, <1>2, ClientFrame DEF SyncOK

(***************************************************************************)
(* Theorems.                                                               *)
(***************************************************************************)
\* The inductive invariant of the full node, its buffer, the session and the
\* read-only node holds in every reachable state.
THEOREM BlockSyncInductive == Spec => []BlockSyncInv
<1>1. Init => BlockSyncInv
  <2>1. SUFFICES ASSUME Init PROVE BlockSyncInv  OBVIOUS
  <2>2. /\ l1 = <<>> /\ chain = <<>> /\ lastSub = 0 /\ lastConf = 0 /\ pend = <<>>
        /\ buffer = <<>> /\ chan = <<>> /\ cchain = <<>> /\ cConf = 0 /\ cTx = {} /\ nextId = 1
    BY <2>1 DEF Init, LedgerInit
  <2>3. PICK f : f = [i \in 1..0 |-> [id |-> 0, par |-> 0]]  OBVIOUS
  <2>4. Made(f, nextId)  BY <2>2, <2>3 DEF Made, BlockRec
  <2>5. ChainOf(f, <<>>) /\ Len(<<>>) = 0  BY EmptySeq DEF ChainOf
  <2>6. NodeOK(f, <<>>, 0, 0, <<>>)  BY <2>5, EmptySeq DEF NodeOK
  <2>7. ClientOK(f, <<>>, <<>>, 0, {})  BY <2>5 DEF ClientOK
  <2>8. BufferOK(f, <<>>, <<>>)  BY DEF BufferOK
  <2> QED BY <2>2, <2>4, <2>5, <2>6, <2>7, <2>8, NoMsgs DEF BlockSyncInv, SyncOK
<1>2. BlockSyncInv /\ [Next]_vars => BlockSyncInv'
  <2>1. SUFFICES ASSUME BlockSyncInv, [Next]_vars PROVE BlockSyncInv'  OBVIOUS
  <2>2. PICK f : SyncOK(f)  BY <2>1 DEF BlockSyncInv
  <2>3. CASE UNCHANGED vars
    <3>1. SyncOK(f)'  BY <2>2, <2>3 DEF SyncOK, vars, ledgerVars, serverVars, clientVars
    <3> QED BY <3>1 DEF BlockSyncInv
  <2>4. CASE Layer1  BY <2>2, <2>4, Layer1OK
  <2>5. CASE PublishLocalBlock  BY <2>2, <2>5, PublishLocalBlockOK
  <2>6. CASE Server /\ ~ PublishLocalBlock
    <3>1. SyncOK(f)'
      BY <2>2, <2>6, CommitLocalBlockOK, UnpublishedOK, PublishSubmittedOK, PublishConfirmedOK,
         PublishTransactionOK, RestartOK, SyncServerOK, FinishOK DEF Server, MainLoop
    <3> QED BY <3>1 DEF BlockSyncInv
  <2>7. CASE Client
    <3>1. SyncOK(f)'
      BY <2>2, <2>7, ClientSyncOK, SubscribeOK, SkipMemPoolOK, LocalMsgOK, PointerMsgOK,
         ClientRestOK DEF Client, Connect, Apply
    <3> QED BY <3>1 DEF BlockSyncInv
  <2> QED BY <2>1, <2>3, <2>4, <2>5, <2>6, <2>7 DEF Next
<1> QED BY <1>1, <1>2, PTL DEF Spec

\* Whatever was published, reverted, lost or resent, the blocks a read-only node
\* calls confirmed are the ones layer 1 holds.
THEOREM ConfirmedReachesClients == Spec => []ClientConfirmedOnL1
<1>1. BlockSyncInv => ClientConfirmedOnL1
  <2>1. SUFFICES ASSUME NEW f, SyncOK(f) PROVE ClientConfirmedOnL1  BY DEF BlockSyncInv
  <2>2. /\ ChainOf(f, l1) /\ ChainOf(f, cchain) /\ Len(l1) \in Nat /\ Len(cchain) \in Nat
        /\ cConf \in 0..Len(cchain) /\ cConf <= Len(l1) /\ \A i \in 1..cConf : cchain[i] = l1[i]
    BY <2>1, LenProperties DEF SyncOK, ClientOK, ChainOf
  <2>3. PICK s, t : s = SubSeq(cchain, 1, cConf) /\ t = SubSeq(l1, 1, cConf)  OBVIOUS
  <2>4. /\ ChainOf(f, s) /\ Len(s) = cConf /\ \A i \in 1..cConf : s[i] = cchain[i]
        /\ ChainOf(f, t) /\ Len(t) = cConf /\ \A i \in 1..cConf : t[i] = l1[i]
    <3>1. cConf \in 0..Len(l1)  BY <2>2
    <3> QED BY <2>2, <2>3, <3>1, ChainPrefix
  <2>5. s = t  BY <2>2, <2>4, SeqEqual DEF ChainOf
  <2> QED BY <2>2, <2>3, <2>5 DEF ClientConfirmedOnL1
<1> QED BY <1>1, BlockSyncInductive, PTL

(***************************************************************************)
(* What a session will do.  A view is what the messages change of a        *)
(* read-only node: its chain c, the numbers t that have a submit tx hash   *)
(* and its confirmed block k.                                              *)
(***************************************************************************)
Views == [c : Seq(BlockRec), t : SUBSET Nat, k : Nat]

Now == [c |-> cchain, t |-> cTx, k |-> cConf]

Attached(v, m) == m.num <= Len(v.c) /\ v.c[m.num] = m.blk

\* The node applies the message; otherwise it disconnects.
Fits(v, m) ==
    /\ m.kind = "local" =>
          Attached(v, m) \/ (m.num <= Len(v.c) + 1 /\ m.blk.par = IdAt(v.c, m.num - 1))
    /\ m.kind \in {"submitted", "confirmed", "revert"} =>
          m.num <= Len(v.c) /\ IdAt(v.c, m.num) = m.blk.id

New(v, m) == m.kind = "local" /\ ~Attached(v, m)

\* What it is then.
After(v, m) ==
    [c |-> IF New(v, m) THEN Append(SubSeq(v.c, 1, m.num - 1), m.blk) ELSE v.c,
     t |-> IF New(v, m) THEN {n \in v.t : n <= m.num - 1}
           ELSE IF m.kind = "submitted" THEN v.t \cup {m.num} ELSE v.t,
     k |-> IF New(v, m) THEN Below(v.k, m.num - 1)
           ELSE IF m.kind \in {"confirmed", "revert"} THEN m.num ELSE v.k]

\* From v the first d of the first n messages are applied, one view after another, and
\* the next one, if there is one, is refused.
Replay(v, ms, n, d, h) ==
    /\ n \in Nat /\ d \in 0..n /\ h \in [0..d -> Views] /\ h[0] = v
    /\ \A i \in 1..d : Fits(h[i - 1], ms[i]) /\ h[i] = After(h[i - 1], ms[i])
    /\ d < n => ~Fits(h[d], ms[d + 1])

\* A local block is not below a confirmed one, whether it is applied or not.
Clear(v, m) == m.kind = "local" => v.k < m.num

\* What must be true when a message is applied: a mem block for the next number was
\* built on the tip, no local block replaces a confirmed one, and a block that is
\* confirmed has a submit tx hash.
Step(v, m) ==
    /\ m.kind = "mem" /\ m.num = Len(v.c) + 1 => m.blk.par = TipOf(v.c)
    /\ Clear(v, m)
    /\ m.kind = "confirmed" => m.num \in v.t

Steady(v, ms, n, d, h) ==
    /\ Replay(v, ms, n, d, h) /\ \A i \in 1..d : Step(h[i - 1], ms[i])
    /\ d < n => Clear(h[d], ms[d + 1])

\* The messages are applied steadily, and a live session that applies all of them ends
\* in one of the views E.
Follow(v, ms, live, E) ==
    \E d, h : Steady(v, ms, Len(ms), d, h) /\ (live /\ d = Len(ms) => h[d] \in E)

ViewOK(f, l, v) == v \in Views /\ ClientOK(f, l, v.c, v.k, v.t)

\* The identities of a chain are made.
LEMMA ChainIds ==
    ASSUME NEW f, NEW N, Made(f, N), NEW s, ChainOf(f, s), NEW i \in 1..Len(s)
    PROVE  s[i].id \in Nat /\ s[i].id # 0 /\ s[i].id < N
<1>1. Of(f, s[i])  BY ChainBlock
<1> QED BY <1>1 DEF Of, Made

\* A block has one number.
LEMMA OneHeight ==
    ASSUME NEW f, NEW s, NEW t, NEW N, Made(f, N), ChainOf(f, s), ChainOf(f, t),
           NEW p \in 1..Len(s), NEW q \in 1..Len(t), s[p].id = t[q].id
    PROVE  p = q
<1> Len(s) \in Nat /\ Len(t) \in Nat  BY LenProperties DEF ChainOf
<1> DEFINE D == {i \in 1..Len(s) : \E j \in 1..Len(t) : s[i].id = t[j].id /\ i # j}
<1>1. SUFFICES ASSUME D # {} PROVE FALSE  OBVIOUS
<1>2. D \subseteq Nat  OBVIOUS
<1>3. PICK i \in D : \A y \in D : i <= y
  <2> HIDE DEF D
  <2> QED BY <1>1, <1>2, LeastNat
<1>4. PICK j \in 1..Len(t) : s[i].id = t[j].id /\ i # j  BY <1>3
<1>5. i \in 1..Len(s)  BY <1>3
<1>6. /\ Of(f, s[i]) /\ s[i].par = IdAt(s, i - 1)
      /\ Of(f, t[j]) /\ t[j].par = IdAt(t, j - 1)
  BY <1>5, ChainBlock
<1>7. IdAt(s, i - 1) = IdAt(t, j - 1)  BY <1>4, <1>6 DEF Of
<1>8. \A x \in 1..Len(s) : s[x].id # 0  BY ChainIds
<1>9. \A x \in 1..Len(t) : t[x].id # 0  BY ChainIds
<1>10. CASE i = 1
  <2>1. IdAt(s, i - 1) = 0  BY <1>10 DEF IdAt
  <2>2. PICK y : y = j - 1  OBVIOUS
  <2>3. y \in 1..Len(t) /\ y # 0  BY <2>2, <1>4, <1>10
  <2> QED BY <2>1, <2>2, <2>3, <1>7, <1>9 DEF IdAt
<1>11. CASE i # 1
  <2>1. PICK x : x = i - 1  OBVIOUS
  <2>2. x \in 1..Len(s) /\ x # 0 /\ x < i  BY <2>1, <1>5, <1>11
  <2>3. IdAt(s, i - 1) = s[x].id  BY <2>1, <2>2 DEF IdAt
  <2>4. j # 1  BY <2>2, <2>3, <1>7, <1>8 DEF IdAt
  <2>5. PICK y : y = j - 1  OBVIOUS
  <2>6. y \in 1..Len(t) /\ y # 0 /\ x # y  BY <2>1, <2>4, <2>5, <1>4, <1>5
  <2>7. s[x].id = t[y].id  BY <2>3, <2>5, <2>6, <1>7 DEF IdAt
  <2>8. x \in D  BY <2>2, <2>6, <2>7
  <2>9. i <= x  BY <2>8, <1>3
  <2> QED BY <2>2, <2>9, <1>5
<1> QED BY <1>10, <1>11

(***************************************************************************)
(* Views.                                                                  *)
(***************************************************************************)
LEMMA ViewFacts ==
    ASSUME NEW f, NEW l, NEW v, ViewOK(f, l, v)
    PROVE  /\ v.c \in Seq(BlockRec) /\ ChainOf(f, v.c) /\ Len(v.c) \in Nat
           /\ v.k \in 0..Len(v.c) /\ v.t \subseteq 1..Len(v.c) /\ v.k \in Nat
           /\ v.k <= Len(l) /\ (\A i \in 1..v.k : v.c[i] = l[i])
BY LenProperties DEF ViewOK, Views, ClientOK, ChainOf

\* The shape of what comes after a message.
LEMMA AfterFacts ==
    ASSUME NEW v, NEW m
    PROVE  /\ New(v, m) => /\ After(v, m).c = Append(SubSeq(v.c, 1, m.num - 1), m.blk)
                           /\ After(v, m).t = {n \in v.t : n <= m.num - 1}
                           /\ After(v, m).k = Below(v.k, m.num - 1)
           /\ ~New(v, m) => /\ After(v, m).c = v.c
                            /\ m.kind # "submitted" => After(v, m).t = v.t
                            /\ m.kind = "submitted" => After(v, m).t = v.t \cup {m.num}
                            /\ m.kind \notin {"confirmed", "revert"} => After(v, m).k = v.k
                            /\ m.kind \in {"confirmed", "revert"} => After(v, m).k = m.num
BY DEF After

\* The chain after a new local block.
LEMMA NewFacts ==
    ASSUME NEW f, NEW l, NEW v, ViewOK(f, l, v), NEW m, MsgOK(f, l, m), New(v, m), Fits(v, m)
    PROVE  /\ m.num \in 1..Len(v.c) + 1
           /\ ChainOf(f, After(v, m).c) /\ Len(After(v, m).c) = m.num
           /\ After(v, m).c[m.num] = m.blk
           /\ \A i \in 1..m.num - 1 : After(v, m).c[i] = v.c[i]
<1> /\ ChainOf(f, v.c) /\ Len(v.c) \in Nat  BY ViewFacts
<1>1. m.kind = "local" /\ m.num \in Nat /\ m.num # 0 /\ Of(f, m.blk)
      /\ m.num <= Len(v.c) + 1 /\ m.blk.par = IdAt(v.c, m.num - 1)
  BY DEF New, Fits, MsgOK, Message, Attached
<1>2. PICK j : j = m.num - 1  OBVIOUS
<1>3. j \in 0..Len(v.c) /\ m.num = j + 1  BY <1>1, <1>2
<1>4. PICK s : s = SubSeq(v.c, 1, j)  OBVIOUS
<1>5. ChainOf(f, s) /\ Len(s) = j /\ \A i \in 1..j : s[i] = v.c[i]  BY <1>3, <1>4, ChainPrefix
<1>6. TipOf(s) = IdAt(v.c, j)  BY <1>3, <1>5 DEF TipOf, IdAt
<1>7. After(v, m).c = Append(s, m.blk)  BY <1>2, <1>4, AfterFacts
<1>8. ChainOf(f, Append(s, m.blk)) /\ Len(Append(s, m.blk)) = Len(s) + 1
      /\ \A i \in 1..Len(s) : Append(s, m.blk)[i] = s[i]
  BY <1>1, <1>2, <1>5, <1>6, ChainAppend
<1>9. Append(s, m.blk)[Len(s) + 1] = m.blk
  BY <1>1, <1>5, AppendProperties DEF ChainOf, Of
<1> QED BY <1>1, <1>2, <1>3, <1>5, <1>7, <1>8, <1>9

LEMMA AfterOK ==
    ASSUME NEW f, NEW l, ChainOf(f, l), NEW v, ViewOK(f, l, v),
           NEW m, MsgOK(f, l, m), Fits(v, m)
    PROVE  ViewOK(f, l, After(v, m))
<1> /\ ChainOf(f, v.c) /\ Len(v.c) \in Nat /\ v.k \in 0..Len(v.c) /\ v.t \subseteq 1..Len(v.c)
    /\ v.k <= Len(l) /\ (\A i \in 1..v.k : v.c[i] = l[i]) /\ v.c \in Seq(BlockRec)
  BY ViewFacts
<1> Len(l) \in Nat /\ m.num \in Nat  BY LenProperties DEF ChainOf, MsgOK, Message
<1>1. PICK w : w = After(v, m)  OBVIOUS
<1>2. w = [c |-> w.c, t |-> w.t, k |-> w.k]  BY <1>1 DEF After
<1>3. CASE New(v, m)
  <2>1. PICK j : j = m.num - 1  OBVIOUS
  <2>2. /\ m.num \in 1..Len(v.c) + 1 /\ ChainOf(f, w.c) /\ Len(w.c) = m.num
        /\ \A i \in 1..j : w.c[i] = v.c[i]
    BY <1>1, <1>3, <2>1, NewFacts
  <2>3. w.t = {n \in v.t : n <= j} /\ w.k = Below(v.k, j)  BY <1>1, <1>3, <2>1, AfterFacts
  <2>4. j \in Nat /\ j < Len(w.c) /\ Len(w.c) \in Nat  BY <2>1, <2>2
  <2>5. w.k \in 0..j /\ w.k <= v.k /\ w.k \in Nat  BY <2>3, <2>4 DEF Below
  <2>6. \A n \in w.t : n \in 1..Len(w.c)
    <3>1. \A n \in v.t : n \in 1..Len(v.c)  OBVIOUS
    <3> QED BY <2>3, <2>4, <3>1
  <2>7. w.k \in 0..Len(w.c) /\ w.k <= Len(l)  BY <2>4, <2>5
  <2>8. \A i \in 1..w.k : w.c[i] = l[i]
    <3>1. \A i \in 1..w.k : i \in 1..j /\ i \in 1..v.k  BY <2>4, <2>5
    <3> QED BY <2>2, <3>1
  <2>9. ClientOK(f, l, w.c, w.k, w.t)  BY <2>2, <2>6, <2>7, <2>8 DEF ClientOK
  <2>10. w \in Views
    <3>1. w.t \in SUBSET Nat  BY <2>4, <2>6
    <3>2. w.c \in Seq(BlockRec)  BY <2>2 DEF ChainOf
    <3> QED BY <1>2, <2>5, <3>1, <3>2 DEF Views
  <2> QED BY <1>1, <2>9, <2>10 DEF ViewOK
<1>4. CASE ~New(v, m)
  <2>1. w.c = v.c  BY <1>1, <1>4, AfterFacts
  <2>2. w.t \subseteq 1..Len(v.c)
    <3>1. CASE m.kind = "submitted"
      <4>1. w.t = v.t \cup {m.num}  BY <1>1, <1>4, <3>1, AfterFacts
      <4>2. m.num # 0 /\ m.num <= Len(v.c)  BY <3>1 DEF MsgOK, Fits
      <4>3. m.num \in 1..Len(v.c)  BY <4>2
      <4> QED BY <4>1, <4>3
    <3>2. CASE m.kind # "submitted"
      <4>1. w.t = v.t  BY <1>1, <1>4, <3>2, AfterFacts
      <4> QED BY <4>1
    <3> QED BY <3>1, <3>2
  <2>3. /\ w.k \in 0..Len(v.c) /\ w.k <= Len(l) /\ \A i \in 1..w.k : v.c[i] = l[i]
    <3>1. CASE m.kind \in {"confirmed", "revert"}
      <4>1. w.k = m.num  BY <1>1, <1>4, <3>1, AfterFacts
      <4>2. m.num <= Len(v.c) /\ IdAt(v.c, m.num) = m.blk.id /\ OnL1(l, m.num, m.blk.id)
        BY <3>1 DEF MsgOK, Fits
      <4>3. m.num <= Len(l) /\ (m.num # 0 => v.c[m.num].id = l[m.num].id)
        BY <4>2 DEF IdAt, OnL1
      <4>4. \A i \in 1..m.num : v.c[i] = l[i]
        <5>1. CASE m.num = 0  BY <5>1
        <5>2. CASE m.num # 0
          <6>1. m.num \in 1..Len(v.c)  BY <4>2, <5>2
          <6> QED BY <6>1, <4>3, <5>2, SameIdentity
        <5> QED BY <5>1, <5>2
      <4> QED BY <4>1, <4>2, <4>3, <4>4
    <3>2. CASE m.kind \notin {"confirmed", "revert"}
      <4>1. w.k = v.k  BY <1>1, <1>4, <3>2, AfterFacts
      <4> QED BY <4>1
    <3> QED BY <3>1, <3>2
  <2>4. ClientOK(f, l, w.c, w.k, w.t)  BY <2>1, <2>2, <2>3 DEF ClientOK
  <2>5. w \in Views
    <3>1. w.t \in SUBSET Nat /\ w.k \in Nat  BY <2>2, <2>3
    <3> QED BY <1>2, <2>1, <3>1 DEF Views
  <2> QED BY <1>1, <2>4, <2>5 DEF ViewOK
<1> QED BY <1>3, <1>4

(***************************************************************************)
(* Replays.                                                                *)
(***************************************************************************)
\* Every view of a replay is one a read-only node can have.
LEMMA ReplayOK ==
    ASSUME NEW f, NEW l, ChainOf(f, l), NEW ms, MsgsOK(f, l, ms), NEW v, ViewOK(f, l, v),
           NEW n, n <= Len(ms), NEW d, NEW h, Replay(v, ms, n, d, h)
    PROVE  \A i \in 0..d : ViewOK(f, l, h[i])
<1> Len(ms) \in Nat  BY LenProperties DEF MsgsOK
<1> n \in Nat /\ d \in Nat /\ d <= n  BY DEF Replay
<1> DEFINE V == {w \in Views : ViewOK(f, l, w)}
<1>1. h[0] \in V  BY DEF Replay, ViewOK
<1>2. ASSUME NEW i \in 1..d, h[i - 1] \in V PROVE h[i] \in V
  <2>1. i \in 1..Len(ms)  OBVIOUS
  <2>2. MsgOK(f, l, ms[i])  BY <2>1 DEF MsgsOK
  <2>3. Fits(h[i - 1], ms[i]) /\ h[i] = After(h[i - 1], ms[i])  BY DEF Replay
  <2>4. ViewOK(f, l, h[i - 1])  BY <1>2
  <2>5. ViewOK(f, l, h[i])  BY <2>2, <2>3, <2>4, AfterOK
  <2> QED BY <2>5 DEF ViewOK
<1> HIDE DEF V
<1>3. \A i \in 0..d : h[i] \in V  BY <1>1, <1>2, RunTyped
<1> QED BY <1>3 DEF V

\* A replay goes on, or stops, at one more message.
LEMMA ReplayMore ==
    ASSUME NEW f, NEW l, ChainOf(f, l), NEW ms, MsgsOK(f, l, ms), NEW v, ViewOK(f, l, v),
           NEW n \in 0..Len(ms), n < Len(ms), NEW d, NEW h, Replay(v, ms, n, d, h)
    PROVE  \E e, g : Replay(v, ms, n + 1, e, g)
<1> Len(ms) \in Nat  BY LenProperties DEF MsgsOK
<1> n \in Nat /\ d \in Nat /\ d <= n /\ n + 1 \in Nat  BY DEF Replay
<1>1. CASE d < n
  <2>1. Replay(v, ms, n + 1, d, h)  BY <1>1 DEF Replay
  <2> QED BY <2>1
<1>2. CASE d = n /\ ~Fits(h[d], ms[d + 1])
  <2>1. Replay(v, ms, n + 1, d, h)  BY <1>2 DEF Replay
  <2> QED BY <2>1
<1>3. CASE d = n /\ Fits(h[d], ms[d + 1])
  <2>1. ViewOK(f, l, h[d])
    <3>1. \A i \in 0..d : ViewOK(f, l, h[i])  BY ReplayOK
    <3> QED BY <3>1
  <2>2. d + 1 \in 1..Len(ms)  BY <1>3
  <2>3. MsgOK(f, l, ms[d + 1])  BY <2>2 DEF MsgsOK
  <2>4. PICK w : w = After(h[d], ms[d + 1])  OBVIOUS
  <2>5. w \in Views  BY <1>3, <2>1, <2>3, <2>4, AfterOK DEF ViewOK
  <2> DEFINE g == [i \in 0..d + 1 |-> IF i = d + 1 THEN w ELSE h[i]]
  <2>6. \A i \in 0..d + 1 : i # d + 1 => i \in 0..d  OBVIOUS
  <2>7. g \in [0..d + 1 -> Views]  BY <2>5, <2>6 DEF Replay
  <2>8. (\A i \in 0..d : g[i] = h[i]) /\ g[d + 1] = w  OBVIOUS
  <2> HIDE DEF g
  <2>9. ASSUME NEW i \in 1..d + 1 PROVE Fits(g[i - 1], ms[i]) /\ g[i] = After(g[i - 1], ms[i])
    <3>1. i - 1 \in 0..d  OBVIOUS
    <3>2. g[i - 1] = h[i - 1]  BY <2>8, <3>1
    <3>3. CASE i = d + 1
      <4>1. i - 1 = d  BY <3>3
      <4> QED BY <1>3, <2>4, <2>8, <3>2, <3>3, <4>1
    <3>4. CASE i # d + 1
      <4>1. i \in 1..d /\ i \in 0..d  BY <3>4
      <4> QED BY <2>8, <3>2, <4>1 DEF Replay
    <3> QED BY <3>3, <3>4
  <2>10. d + 1 \in 0..n + 1 /\ ~(d + 1 < n + 1)  BY <1>3
  <2>11. g[0] = v  BY <2>8 DEF Replay
  <2>12. Replay(v, ms, n + 1, d + 1, g)  BY <2>7, <2>9, <2>10, <2>11 DEF Replay
  <2> QED BY <2>12
<1> QED BY <1>1, <1>2, <1>3

LEMMA ReplayNone ==
    ASSUME NEW v \in Views, NEW ms
    PROVE  Replay(v, ms, 0, 0, [i \in 0..0 |-> v])
BY DEF Replay

\* Any messages can be replayed.
LEMMA ReplayExists ==
    ASSUME NEW f, NEW l, ChainOf(f, l), NEW ms, MsgsOK(f, l, ms), NEW v, ViewOK(f, l, v)
    PROVE  \E d, h : Replay(v, ms, Len(ms), d, h)
<1> Len(ms) \in Nat  BY LenProperties DEF MsgsOK
<1> DEFINE R(n) == \E d, h : Replay(v, ms, n, d, h)
           T == {n \in 0..Len(ms) : R(n)}
<1>1. 0 \in T
  <2>1. v \in Views  BY DEF ViewOK
  <2>2. R(0)  BY <2>1, ReplayNone
  <2> HIDE DEF R
  <2> QED BY <2>2
<1>2. ASSUME NEW n \in 0..Len(ms), n < Len(ms), n \in T PROVE n + 1 \in T
  <2>1. PICK d, h : Replay(v, ms, n, d, h)  BY <1>2
  <2>2. R(n + 1)  BY <1>2, <2>1, ReplayMore
  <2>3. n + 1 \in 0..Len(ms)  BY <1>2
  <2> HIDE DEF R
  <2> QED BY <2>2, <2>3
<1>3. \A n \in 0..Len(ms) : n \in T
  <2> HIDE DEF T
  <2> QED BY <1>1, <1>2, NatInd
<1>4. Len(ms) \in T  BY <1>3
<1> QED BY <1>4

\* A shorter stretch of the messages.
LEMMA SteadyCut ==
    ASSUME NEW v, NEW ms, NEW n, NEW d, NEW h, Steady(v, ms, n, d, h),
           NEW xs, NEW p \in 0..n, \A i \in 1..p : xs[i] = ms[i]
    PROVE  \E e, g : Steady(v, xs, p, e, g)
<1> n \in Nat /\ d \in Nat /\ d <= n /\ p \in Nat  BY DEF Replay, Steady
<1>1. PICK e \in Nat : e = IF d <= p THEN d ELSE p  OBVIOUS
<1>2. e \in 0..p /\ e <= d /\ (e < p => e = d) /\ 0..e \subseteq 0..d  BY <1>1
<1> DEFINE g == [i \in 0..e |-> h[i]]
<1>3. g \in [0..e -> Views] /\ \A i \in 0..e : g[i] = h[i]  BY <1>2 DEF Steady, Replay
<1> HIDE DEF g
<1>4. g[0] = v  BY <1>3 DEF Steady, Replay
<1>5. ASSUME NEW i \in 1..e
      PROVE  Fits(g[i - 1], xs[i]) /\ g[i] = After(g[i - 1], xs[i]) /\ Step(g[i - 1], xs[i])
  <2>1. i \in 1..d /\ i \in 1..p /\ i - 1 \in 0..e /\ i \in 0..e  BY <1>2
  <2>2. g[i - 1] = h[i - 1] /\ g[i] = h[i] /\ xs[i] = ms[i]  BY <1>3, <2>1
  <2> QED BY <2>1, <2>2 DEF Steady, Replay
<1>6. ASSUME e < p PROVE ~Fits(g[e], xs[e + 1]) /\ Clear(g[e], xs[e + 1])
  <2>1. e = d /\ d < n /\ e + 1 \in 1..p /\ e \in 0..e  BY <1>2, <1>6
  <2>2. g[e] = h[d] /\ xs[e + 1] = ms[d + 1]  BY <1>3, <2>1
  <2> QED BY <2>1, <2>2 DEF Steady, Replay
<1>7. Replay(v, xs, p, e, g)  BY <1>2, <1>3, <1>4, <1>5, <1>6 DEF Replay
<1> QED BY <1>5, <1>6, <1>7 DEF Steady

\* The first message is applied.
LEMMA SteadyNext ==
    ASSUME NEW v, NEW ms, NEW n, NEW d, NEW h, Steady(v, ms, n, d, h), d # 0,
           NEW xs, \A i \in 1..n - 1 : xs[i] = ms[i + 1]
    PROVE  /\ n # 0 /\ Fits(v, ms[1]) /\ Step(v, ms[1])
           /\ \E e, g : /\ Steady(After(v, ms[1]), xs, n - 1, e, g)
                        /\ (e = n - 1 => d = n) /\ g[e] = h[d]
<1> n \in Nat /\ d \in Nat /\ d <= n /\ n # 0 /\ n - 1 \in Nat /\ d - 1 \in Nat
  BY DEF Replay, Steady
<1>1. h[0] = v /\ Fits(h[0], ms[1]) /\ h[1] = After(h[0], ms[1]) /\ Step(h[0], ms[1])
  <2>1. 1 \in 1..d /\ 1 - 1 = 0  OBVIOUS
  <2> QED BY <2>1 DEF Steady, Replay
<1>2. PICK e \in Nat : e = d - 1  OBVIOUS
<1> DEFINE g == [i \in 0..e |-> h[i + 1]]
<1>3. g \in [0..e -> Views] /\ \A i \in 0..e : g[i] = h[i + 1]
  <2>1. \A i \in 0..e : i + 1 \in 0..d  BY <1>2
  <2> QED BY <2>1 DEF Steady, Replay
<1> HIDE DEF g
<1>4. g[0] = After(v, ms[1])  BY <1>1, <1>3
<1>5. ASSUME NEW i \in 1..e
      PROVE  Fits(g[i - 1], xs[i]) /\ g[i] = After(g[i - 1], xs[i]) /\ Step(g[i - 1], xs[i])
  <2>1. PICK j : j = i + 1  OBVIOUS
  <2>2. j \in 1..d /\ i \in 1..n - 1 /\ i - 1 \in 0..e /\ i \in 0..e /\ (i - 1) + 1 = j - 1
    BY <1>2, <2>1
  <2>3. g[i - 1] = h[j - 1] /\ g[i] = h[j] /\ xs[i] = ms[j]  BY <1>3, <2>1, <2>2
  <2> QED BY <2>2, <2>3 DEF Steady, Replay
<1>6. ASSUME e < n - 1 PROVE ~Fits(g[e], xs[e + 1]) /\ Clear(g[e], xs[e + 1])
  <2>1. PICK j : j = e + 1  OBVIOUS
  <2>2. j = d /\ d < n /\ j \in 1..n - 1 /\ e \in 0..e  BY <1>2, <1>6, <2>1
  <2>3. g[e] = h[d] /\ xs[j] = ms[d + 1]  BY <1>3, <2>1, <2>2
  <2> QED BY <2>1, <2>2, <2>3 DEF Steady, Replay
<1>7. e \in 0..n - 1 /\ n - 1 \in Nat  BY <1>2
<1>8. Replay(After(v, ms[1]), xs, n - 1, e, g)  BY <1>3, <1>4, <1>5, <1>6, <1>7 DEF Replay
<1>9. Steady(After(v, ms[1]), xs, n - 1, e, g)  BY <1>5, <1>6, <1>8 DEF Steady
<1>10. g[e] = h[d] /\ (e = n - 1 => d = n)
  <2>1. e \in 0..e /\ e + 1 = d  BY <1>2
  <2> QED BY <1>3, <2>1
<1> QED BY <1>1, <1>9, <1>10

\* A replay that was refused a message does not see what comes later.
LEMMA SteadyStopped ==
    ASSUME NEW v, NEW ms, NEW n, NEW d, NEW h, Steady(v, ms, n, d, h), d < n,
           NEW xs, NEW p \in Nat, n <= p, \A i \in 1..n : xs[i] = ms[i]
    PROVE  Steady(v, xs, p, d, h) /\ d # p
<1> n \in Nat /\ d \in Nat /\ d + 1 \in 1..n /\ d \in 0..p /\ 1..d \subseteq 1..n  BY DEF Replay, Steady
<1>1. \A i \in 1..d : xs[i] = ms[i]  OBVIOUS
<1>2. xs[d + 1] = ms[d + 1]  OBVIOUS
<1>3. Replay(v, xs, p, d, h)  BY <1>1, <1>2 DEF Steady, Replay
<1> QED BY <1>1, <1>2, <1>3 DEF Steady

\* xs begins with the n messages of ms and the p messages of ys.
Joined(ms, n, ys, p, xs) ==
    (\A i \in 1..n : xs[i] = ms[i]) /\ (\A i \in 1..p : xs[n + i] = ys[i])

\* A replay of all messages goes on with a replay of the next ones.
LEMMA SteadyJoin ==
    ASSUME NEW v, NEW ms, NEW n, NEW h, Steady(v, ms, n, n, h),
           NEW x, x = h[n], NEW ys, NEW p, NEW e, NEW g, Steady(x, ys, p, e, g),
           NEW xs, Joined(ms, n, ys, p, xs)
    PROVE  \E u : Steady(v, xs, n + p, n + e, u) /\ u[n + e] = g[e]
<1> n \in Nat /\ p \in Nat /\ e \in Nat /\ e <= p  BY DEF Replay, Steady
<1> (\A i \in 1..n : xs[i] = ms[i]) /\ (\A i \in 1..p : xs[n + i] = ys[i])  BY DEF Joined
<1> DEFINE u == [i \in 0..n + e |-> IF i <= n THEN h[i] ELSE g[i - n]]
<1>1. u \in [0..n + e -> Views]
  <2>1. \A i \in 0..n + e : i <= n => i \in 0..n  OBVIOUS
  <2>2. \A i \in 0..n + e : ~(i <= n) => i - n \in 0..e  OBVIOUS
  <2> QED BY <2>1, <2>2 DEF Steady, Replay
<1>2. g[0] = h[n]  BY DEF Steady, Replay
<1>3. \A i \in 0..n : u[i] = h[i]  OBVIOUS
<1>4. \A i \in 0..e : u[n + i] = g[i]
  <2>1. SUFFICES ASSUME NEW i \in 0..e PROVE u[n + i] = g[i]  OBVIOUS
  <2>2. CASE i = 0  BY <2>2, <1>2
  <2>3. CASE i # 0
    <3>1. n + i \in 0..n + e /\ ~(n + i <= n) /\ (n + i) - n = i  BY <2>3
    <3> QED BY <3>1
  <2> QED BY <2>2, <2>3
<1> HIDE DEF u
<1>5. u[0] = v  BY <1>3 DEF Steady, Replay
<1>6. ASSUME NEW i \in 1..n + e
      PROVE  Fits(u[i - 1], xs[i]) /\ u[i] = After(u[i - 1], xs[i]) /\ Step(u[i - 1], xs[i])
  <2>1. CASE i <= n
    <3>1. i \in 1..n /\ i - 1 \in 0..n /\ i \in 0..n  BY <2>1
    <3>2. u[i - 1] = h[i - 1] /\ u[i] = h[i] /\ xs[i] = ms[i]  BY <1>3, <3>1
    <3> QED BY <3>1, <3>2 DEF Steady, Replay
  <2>2. CASE ~(i <= n)
    <3>1. PICK j \in 1..e : i = n + j  
      <4>1. i - n \in 1..e /\ i = n + (i - n)  BY <2>2
      <4> QED BY <4>1
    <3>2. j - 1 \in 0..e /\ j \in 0..e /\ i - 1 = n + (j - 1) /\ j \in 1..p  BY <3>1
    <3>3. u[i - 1] = g[j - 1] /\ u[i] = g[j] /\ xs[i] = ys[j]  BY <1>4, <3>1, <3>2
    <3> QED BY <3>3 DEF Steady, Replay
  <2> QED BY <2>1, <2>2
<1>7. ASSUME n + e < n + p PROVE ~Fits(u[n + e], xs[(n + e) + 1]) /\ Clear(u[n + e], xs[(n + e) + 1])
  <2>1. e < p /\ e + 1 \in 1..p /\ e \in 0..e /\ (n + e) + 1 = n + (e + 1)  BY <1>7
  <2>2. u[n + e] = g[e] /\ xs[(n + e) + 1] = ys[e + 1]  BY <1>4, <2>1
  <2> QED BY <2>1, <2>2 DEF Steady, Replay
<1>8. n + e \in 0..n + p /\ n + p \in Nat  OBVIOUS
<1>9. Replay(v, xs, n + p, n + e, u)  BY <1>1, <1>5, <1>6, <1>7, <1>8 DEF Replay
<1>10. e \in 0..e  OBVIOUS
<1> QED BY <1>4, <1>6, <1>7, <1>9, <1>10 DEF Steady

(***************************************************************************)
(* What a session follows.                                                 *)
(***************************************************************************)
\* More messages are sent to a live session.
LEMMA FollowJoin ==
    ASSUME NEW f, NEW l, ChainOf(f, l), NEW ms, MsgsOK(f, l, ms), NEW v, ViewOK(f, l, v),
           NEW E, NEW D, Follow(v, ms, TRUE, E), NEW ys \in Seq(Message),
           \A w \in E : ViewOK(f, l, w) => Follow(w, ys, TRUE, D)
    PROVE  Follow(v, ms \o ys, TRUE, D)
<1> ms \in Seq(Message) /\ Len(ms) \in Nat /\ Len(ys) \in Nat  BY LenProperties DEF MsgsOK
<1>1. PICK xs : xs = ms \o ys  OBVIOUS
<1>2. Len(xs) = Len(ms) + Len(ys)
      /\ \A i \in 1..Len(xs) : xs[i] = IF i <= Len(ms) THEN ms[i] ELSE ys[i - Len(ms)]
  BY <1>1, ConcatProperties
<1>3. \A i \in 1..Len(ms) : xs[i] = ms[i]  BY <1>2
<1>4. \A i \in 1..Len(ys) : xs[Len(ms) + i] = ys[i]
  <2>1. SUFFICES ASSUME NEW i \in 1..Len(ys) PROVE xs[Len(ms) + i] = ys[i]  OBVIOUS
  <2>2. Len(ms) + i \in 1..Len(xs) /\ ~(Len(ms) + i <= Len(ms)) /\ (Len(ms) + i) - Len(ms) = i
    BY <1>2
  <2> QED BY <1>2, <2>2
<1>5. PICK d, h : Steady(v, ms, Len(ms), d, h) /\ (d = Len(ms) => h[d] \in E)
  BY DEF Follow
<1>6. d \in Nat /\ d <= Len(ms)  BY <1>5 DEF Steady, Replay
<1>7. CASE d < Len(ms)
  <2>1. Len(xs) \in Nat /\ Len(ms) <= Len(xs)  BY <1>2
  <2>2. Steady(v, xs, Len(xs), d, h) /\ d # Len(xs)  BY <1>3, <1>5, <1>7, <2>1, SteadyStopped
  <2> QED BY <1>1, <2>2 DEF Follow
<1>8. CASE d = Len(ms)
  <2>1. ViewOK(f, l, h[d])
    <3>1. Replay(v, ms, Len(ms), d, h) /\ Len(ms) <= Len(ms)  BY <1>5 DEF Steady
    <3>2. \A i \in 0..d : ViewOK(f, l, h[i])  BY <3>1, ReplayOK
    <3> QED BY <3>2, <1>6
  <2>2. Follow(h[d], ys, TRUE, D)  BY <1>5, <1>8, <2>1
  <2>3. PICK e, g : Steady(h[d], ys, Len(ys), e, g) /\ (e = Len(ys) => g[e] \in D)
    BY <2>2 DEF Follow
  <2>4. PICK u : Steady(v, xs, d + Len(ys), d + e, u) /\ u[d + e] = g[e]
    <3>1. Steady(v, ms, d, d, h)  BY <1>5, <1>8
    <3>2. Steady(h[d], ys, Len(ys), e, g)  BY <2>3
    <3>3. Joined(ms, d, ys, Len(ys), xs)  BY <1>3, <1>4, <1>8 DEF Joined
    <3>4. PICK p, x : p = Len(ys) /\ x = h[d]  OBVIOUS
    <3>5. Steady(x, ys, p, e, g) /\ Joined(ms, d, ys, p, xs)  BY <3>2, <3>3, <3>4
    <3>6. \E u : Steady(v, xs, d + p, d + e, u) /\ u[d + e] = g[e]
      BY <3>1, <3>4, <3>5, SteadyJoin
    <3> QED BY <3>4, <3>6
  <2>5. e \in Nat  BY <2>3 DEF Steady, Replay
  <2>6. d + e = Len(xs) => e = Len(ys)  BY <1>2, <1>8, <2>5
  <2>7. Steady(v, xs, Len(xs), d + e, u)  BY <1>2, <1>8, <2>4
  <2>8. d + e = Len(xs) => u[d + e] \in D  BY <2>3, <2>4, <2>6
  <2> QED BY <1>1, <2>7, <2>8 DEF Follow
<1>9. d < Len(ms) \/ d = Len(ms)  BY <1>6
<1> QED BY <1>7, <1>8, <1>9, Zenon

\* Weaker conclusions.
LEMMA FollowWeaken ==
    ASSUME NEW v, NEW ms, NEW E, NEW live, Follow(v, ms, live, E), NEW now, NEW D,
           now => live /\ \A w \in E : w \in D
    PROVE  Follow(v, ms, now, D)
<1>1. PICK d, h : Steady(v, ms, Len(ms), d, h) /\ (live /\ d = Len(ms) => h[d] \in E)
  BY DEF Follow
<1> QED BY <1>1 DEF Follow

\* No message: the view is as it is.
LEMMA FollowNone ==
    ASSUME NEW v \in Views, NEW live, NEW E, live => v \in E
    PROVE  Follow(v, <<>>, live, E)
<1>1. PICK h : h = [i \in 0..0 |-> v]  OBVIOUS
<1>2. Replay(v, <<>>, 0, 0, h)  BY <1>1, ReplayNone
<1>3. Steady(v, <<>>, 0, 0, h)  BY <1>2 DEF Steady
<1>4. h[0] = v /\ Len(<<>>) = 0  BY <1>1
<1> QED BY <1>3, <1>4 DEF Follow

\* One message.
LEMMA FollowOne ==
    ASSUME NEW f, NEW l, ChainOf(f, l), NEW v, ViewOK(f, l, v), NEW m, MsgOK(f, l, m), NEW E,
           Clear(v, m), Fits(v, m) => Step(v, m) /\ After(v, m) \in E
    PROVE  Follow(v, <<m>>, TRUE, E)
<1>1. PICK ms : ms = <<m>>  OBVIOUS
<1>2. Len(ms) = 1 /\ ms[1] = m  BY <1>1
<1>3. v \in Views  BY DEF ViewOK
<1>4. CASE ~Fits(v, m)
  <2>1. PICK h : h = [i \in 0..0 |-> v]  OBVIOUS
  <2>2. h \in [0..0 -> Views] /\ h[0] = v /\ 0 \in 0..1 /\ 0 + 1 = 1  BY <1>3, <2>1
  <2>3. Replay(v, ms, 1, 0, h)  BY <1>2, <1>4, <2>2 DEF Replay
  <2>4. Steady(v, ms, 1, 0, h)  BY <1>2, <2>2, <2>3 DEF Steady
  <2> QED BY <1>1, <1>2, <2>4 DEF Follow
<1>5. CASE Fits(v, m)
  <2>1. PICK w : w = After(v, m)  OBVIOUS
  <2>2. w \in Views  BY <1>5, <2>1, AfterOK DEF ViewOK
  <2>3. PICK h : h = [i \in 0..1 |-> IF i = 0 THEN v ELSE w]  OBVIOUS
  <2>4. h \in [0..1 -> Views] /\ h[0] = v /\ h[1] = w /\ 1 \in 0..1  BY <1>3, <2>2, <2>3
  <2>5. \A i \in 1..1 : i = 1 /\ i - 1 = 0  OBVIOUS
  <2>6. Replay(v, ms, 1, 1, h)  BY <1>2, <1>5, <2>1, <2>4, <2>5 DEF Replay
  <2>7. Steady(v, ms, 1, 1, h)  BY <1>2, <1>5, <2>4, <2>5, <2>6 DEF Steady
  <2> QED BY <1>1, <1>2, <1>5, <2>1, <2>4, <2>7 DEF Follow
<1> QED BY <1>4, <1>5

\* tx.send: a session gets the messages, ends, or was over.
LEMMA BroadcastFollow ==
    ASSUME NEW f, NEW l, ChainOf(f, l), MsgsOK(f, l, chan), NEW v, ViewOK(f, l, v),
           session \in BOOLEAN, NEW E, NEW D, Follow(v, chan, session, E),
           NEW ys \in Seq(Message), Broadcast(ys),
           session => \A w \in E : ViewOK(f, l, w) => Follow(w, ys, TRUE, D)
    PROVE  Follow(v, chan', session', D)
<1>1. CASE ~session
  <2>1. chan' = chan /\ session' = session  BY <1>1 DEF Broadcast
  <2> QED BY <1>1, <2>1, FollowWeaken
<1>2. CASE session /\ chan' = chan /\ session' = FALSE
  BY <1>2, FollowWeaken
<1>3. CASE session /\ chan' = chan \o ys /\ session' = session
  <2>1. Follow(v, chan, TRUE, E)  BY <1>3
  <2>2. Follow(v, chan \o ys, TRUE, D)  BY <1>3, <2>1, FollowJoin
  <2> QED BY <1>3, <2>2
<1> QED BY <1>1, <1>2, <1>3 DEF Broadcast

(***************************************************************************)
(* The invariant of the full node, its buffer and the session.             *)
(***************************************************************************)
Ids(l) == {l[i].id : i \in 1..Len(l)}

\* Blocks whose submit tx hash was announced to every session that knows them, since
\* the loop began.
Due == IF mode = "loop" THEN {chain[n].id : n \in lastConf + 1..lastSub} ELSE {}

\* Blocks that were sent to layer 1 or that it holds.
OnTheWay == sent \cup Ids(l1)

\* Nothing above this number was announced as confirmed.
Limit == IF mode = "loop" THEN lastConf ELSE Len(l1)

\* The chain with the block that is published and not committed.
FullOf(ch, p) == IF p = <<>> THEN ch ELSE Append(ch, p[1])

\* The view has the submit tx hash of its blocks in D.
Backed(v, D) == \A i \in 1..Len(v.c) : v.c[i].id \in D => i \in v.t

\* The view has the blocks of the full node, or it lacks blocks that were not published.
Tracks(v, ch, p, b) ==
    \/ v.k <= Len(ch) /\ Grown(FullOf(ch, p), v.c)
    \/ /\ p = <<>> /\ Grown(v.c, ch) /\ Len(v.c) < Len(ch)
       /\ ~(Len(ch) \in DOMAIN b /\ b[Len(ch)].hash = TipOf(ch))

\* The views that a live session ends in.
Ending == {v \in Views : /\ Backed(v, Due)
                         /\ mode = "loop" => Tracks(v, chain, pend, buffer)}

SeenOK(ms, L) ==
    \A i \in 1..Len(ms) : ms[i].kind \in {"confirmed", "revert"} => ms[i].num <= L

\* An entry starts with the block or the mem block it is about ...
Opens(n, e) ==
    /\ n # 0 /\ Len(e.msgs) # 0 /\ e.msgs[1].num = n
    /\ e.hash = NoHash => e.msgs[1].kind = "mem"
    /\ e.hash # NoHash => e.msgs[1].kind = "local" /\ e.msgs[1].blk.id = e.hash

\* ... goes on with what became of it ...
Continues(n, ms) ==
    \A i \in 2..Len(ms) : /\ ms[i].kind \in {"submitted", "confirmed", "push"}
                          /\ ms[i].kind # "push" => ms[i].num = n

Told(ms, n, id) == \E q \in 2..n : ms[q].kind = "submitted" /\ ms[q].blk.id = id

\* ... and says that the block was submitted before it can be confirmed.
Paired(e, D) ==
    /\ \A i \in 2..Len(e.msgs) :
          e.msgs[i].kind = "confirmed" => Told(e.msgs, i - 1, e.msgs[i].blk.id)
    /\ e.hash \in D => Told(e.msgs, Len(e.msgs), e.hash)

EntryShape(n, e, D, L) ==
    Opens(n, e) /\ Continues(n, e.msgs) /\ SeenOK(e.msgs, L) /\ Paired(e, D)

Shape(b, D, L) == IsFiniteSet(DOMAIN b) /\ \A n \in DOMAIN b : EntryShape(n, b[n], D, L)

\* The local blocks that are not confirmed are in the buffer, and at most a mem block
\* or a block that was not stored, so none of S, follows them.
Covered(b, ch, p, conf, S) ==
    /\ \A n \in DOMAIN b : n <= Len(ch) + 1
    /\ \A n \in conf + 1..Len(FullOf(ch, p)) : n \in DOMAIN b /\ b[n].hash = FullOf(ch, p)[n].id
    /\ p = <<>> /\ Len(ch) + 1 \in DOMAIN b => b[Len(ch) + 1].hash \notin S

NodeFacts ==
    /\ mode \in {"loop", "sync"} /\ session \in BOOLEAN
    /\ booting => mode = "sync" /\ buffer = <<>> /\ session = FALSE /\ pend = <<>>
    /\ pend # <<>> => /\ mode = "loop" /\ pend[1].par = TipOf(chain)
                      /\ pend[1].id \notin OnTheWay
    /\ \A x \in sent : x \in Nat /\ x < nextId
    /\ mode = "loop" => lastConf <= lastSub /\ lastConf <= Len(l1)
    /\ cstate # "stream" => chan = <<>> /\ session = FALSE

\* Confirmed blocks without a submit tx hash are below what was announced as confirmed.
Holes == \A i \in 1..cConf : i \in cTx \/ i <= Limit

Followed == cstate = "stream" /\ ~stale => Follow(Now, chan, session, Ending)

FollowInv ==
    /\ NodeFacts /\ Shape(buffer, Due, Limit)
    /\ mode = "loop" => Covered(buffer, chain, pend, lastConf, OnTheWay)
    /\ SeenOK(chan, Limit) /\ Holes /\ Followed

(***************************************************************************)
(* The pointers and the block that is not committed.                       *)
(***************************************************************************)
LEMMA IdsAppend ==
    ASSUME NEW l \in Seq(BlockRec), NEW b \in BlockRec
    PROVE  \A x \in Ids(Append(l, b)) : x \in Ids(l) \/ x = b.id
<1> Len(l) \in Nat  BY LenProperties
<1>1. PICK t : t = Append(l, b)  OBVIOUS
<1>2. Len(t) = Len(l) + 1 /\ t[Len(l) + 1] = b /\ \A i \in 1..Len(l) : t[i] = l[i]
  BY <1>1, AppendProperties
<1>3. \A i \in 1..Len(t) : i = Len(l) + 1 \/ i \in 1..Len(l)  BY <1>2
<1> QED BY <1>1, <1>2, <1>3 DEF Ids

LEMMA IdsMade ==
    ASSUME NEW f, NEW N, Made(f, N), NEW s, ChainOf(f, s)
    PROVE  \A x \in Ids(s) : x \in Nat /\ x # 0 /\ x < N
BY ChainIds DEF Ids

LEMMA BroadcastBool ==
    ASSUME NEW ms, Broadcast(ms), session \in BOOLEAN
    PROVE  /\ session' \in BOOLEAN /\ (session = FALSE => session' = FALSE /\ chan' = chan)
           /\ (session' = FALSE \/ (session = TRUE /\ session' = TRUE))
BY DEF Broadcast

LEMMA PublishFacts ==
    ASSUME NEW f, SyncOK(f), NodeFacts,
           PublishLocalBlock \/ CommitLocalBlock \/ FailLocalBlock \/ PublishSubmitted
           \/ PublishConfirmed \/ PublishTransaction
    PROVE  NodeFacts'
<1> /\ Len(chain) \in Nat /\ Len(l1) \in Nat /\ ChainOf(f, chain) /\ ChainOf(f, l1)
    /\ lastSub \in 0..Len(chain) /\ lastConf \in 0..Len(chain) /\ Made(f, nextId)
  BY LenProperties DEF SyncOK, NodeOK, ChainOf
<1> /\ mode \in {"loop", "sync"} /\ session \in BOOLEAN
    /\ (booting => mode = "sync" /\ buffer = <<>> /\ session = FALSE /\ pend = <<>>)
    /\ (\A x \in sent : x \in Nat /\ x < nextId)
    /\ (cstate # "stream" => chan = <<>> /\ session = FALSE)
  BY DEF NodeFacts
<1>1. nextId \in Nat  BY DEF Made
<1>2. CASE PublishLocalBlock
  <2>1. PICK b : b = [id |-> nextId, par |-> TipOf(chain)]  OBVIOUS
  <2>2. /\ mode = "loop" /\ pend' = <<b>> /\ nextId' = nextId + 1
        /\ UNCHANGED <<l1, chain, lastSub, lastConf, mode, booting, sent, cstate>>
        /\ \E ms : Broadcast(ms)
    BY <1>2, <2>1 DEF PublishLocalBlock, Serving, ledgerVars, clientStore
  <2>3. ~booting  BY <2>2
  <2>4. pend'[1] = b /\ b.par = TipOf(chain) /\ b.id = nextId  BY <2>1, <2>2
  <2>5. nextId \notin sent  BY <1>1
  <2>6. nextId \notin Ids(l1)  BY <1>1, IdsMade
  <2>7. \A x \in sent : x \in Nat /\ x < nextId + 1  BY <1>1
  <2>8. session' \in BOOLEAN /\ (session = FALSE => session' = FALSE /\ chan' = chan)
    BY <2>2, BroadcastBool
  <2>9. pend' # <<>>  BY <2>2
  <2>10. lastConf <= lastSub /\ lastConf <= Len(l1)  BY <2>2 DEF NodeFacts
  <2> QED BY <2>2, <2>3, <2>4, <2>5, <2>6, <2>7, <2>8, <2>9, <2>10 DEF NodeFacts, OnTheWay
<1>3. CASE CommitLocalBlock
  <2>1. /\ mode = "loop" /\ pend' = <<>>
        /\ UNCHANGED <<l1, lastSub, lastConf, mode, booting, sent, cstate, nextId>>
        /\ \E ms : Broadcast(ms)
    BY <1>3 DEF CommitLocalBlock, Produce, clientStore
  <2>2. session' \in BOOLEAN /\ (session = FALSE => session' = FALSE /\ chan' = chan)
    BY <2>1, BroadcastBool
  <2> QED BY <2>1, <2>2 DEF NodeFacts
<1>4. CASE PublishSubmitted
  <2>1. /\ mode = "loop" /\ pend = <<>> /\ lastSub < Len(chain) /\ lastSub' = lastSub + 1
        /\ UNCHANGED <<l1, chain, lastConf, mode, pend, booting, cstate, nextId, sent>>
        /\ \E ms : Broadcast(ms)
    BY <1>4 DEF PublishSubmitted, Submit, Serving, clientStore
  <2>2. session' \in BOOLEAN /\ (session = FALSE => session' = FALSE /\ chan' = chan)
    BY <2>1, BroadcastBool
  <2>3. lastConf <= lastSub' /\ lastConf <= Len(l1)  BY <2>1 DEF NodeFacts
  <2> QED BY <2>1, <2>2, <2>3 DEF NodeFacts
<1>5. CASE PublishConfirmed
  <2>1. /\ mode = "loop" /\ pend = <<>> /\ lastConf < lastSub /\ lastConf' = lastConf + 1
        /\ lastConf < Len(l1)
        /\ UNCHANGED <<l1, chain, lastSub, mode, pend, booting, cstate, nextId, sent>>
        /\ \E ms : Broadcast(ms)
    BY <1>5 DEF PublishConfirmed, Confirm, Serving, clientStore
  <2>2. session' \in BOOLEAN /\ (session = FALSE => session' = FALSE /\ chan' = chan)
    BY <2>1, BroadcastBool
  <2>3. lastConf' <= lastSub /\ lastConf' <= Len(l1)  BY <2>1
  <2> QED BY <2>1, <2>2, <2>3 DEF NodeFacts
<1>6. CASE PublishTransaction
  <2>1. /\ ~booting
        /\ UNCHANGED <<l1, chain, lastSub, lastConf, mode, pend, booting, cstate, nextId, sent>>
        /\ \E ms : Broadcast(ms)
    BY <1>6 DEF PublishTransaction, ledgerVars, clientStore
  <2>2. session' \in BOOLEAN /\ (session = FALSE => session' = FALSE /\ chan' = chan)
    BY <2>1, BroadcastBool
  <2> QED BY <2>1, <2>2 DEF NodeFacts, OnTheWay
<1>7. CASE FailLocalBlock
  <2>1. /\ pend' = <<>>
        /\ UNCHANGED <<l1, chain, lastSub, lastConf, mode, booting, buffer, cstate, nextId, sent,
                       session, chan>>
    BY <1>7 DEF FailLocalBlock, ledgerVars, clientVars
  <2> QED BY <2>1 DEF NodeFacts
<1> QED BY <1>2, <1>3, <1>4, <1>5, <1>6, <1>7

LEMMA SyncFacts ==
    ASSUME NEW f, SyncOK(f), NodeFacts,
           ForkNoticed \/ Disturb \/ RevertBlocks \/ SyncServer \/ Restart
           \/ FinishResync \/ FinishBoot
    PROVE  NodeFacts'
<1> /\ Len(chain) \in Nat /\ Len(l1) \in Nat  BY LenProperties DEF SyncOK, NodeOK, ChainOf
<1> /\ mode \in {"loop", "sync"} /\ session \in BOOLEAN
    /\ (booting => mode = "sync" /\ buffer = <<>> /\ session = FALSE /\ pend = <<>>)
    /\ (\A x \in sent : x \in Nat /\ x < nextId)
    /\ (cstate # "stream" => chan = <<>> /\ session = FALSE)
  BY DEF NodeFacts
<1>1. CASE ForkNoticed \/ Disturb
  <2>1. /\ mode' = "sync" /\ pend = <<>>
        /\ UNCHANGED <<serverVars, clientVars, nextId>>
    BY <1>1 DEF ForkNoticed, Disturb, StartSync, Serving
  <2> QED BY <2>1 DEF NodeFacts, serverVars, clientVars
<1>2. CASE RevertBlocks \/ SyncServer
  <2>1. /\ mode = "sync" /\ mode' = "sync" /\ l1' = l1
        /\ UNCHANGED <<serverVars, clientVars, nextId>>
    BY <1>2 DEF RevertBlocks, SyncServer, Rewind, Adopt, Known, syncRest
  <2>2. pend = <<>>  BY <2>1 DEF NodeFacts
  <2> QED BY <2>1, <2>2 DEF NodeFacts, serverVars, clientVars
<1>3. CASE Restart
  <2>1. /\ mode' = "sync" /\ booting' = TRUE /\ pend' = <<>> /\ buffer' = <<>> /\ session' = FALSE
        /\ UNCHANGED <<sent, nextId, cstate>>
    BY <1>3 DEF Restart, StartSync, ledgerVars, clientStore
  <2>2. chan = <<>> => chan' = <<>>
    <3>1. PICK k \in 0..Len(chan) : chan' = SubSeq(chan, 1, k)  BY <1>3 DEF Restart
    <3>2. SUFFICES ASSUME chan = <<>> PROVE chan' = <<>>  OBVIOUS
    <3>3. k = 0  BY <3>1, <3>2
    <3> QED BY <3>1, <3>2, <3>3
  <2> QED BY <2>1, <2>2 DEF NodeFacts
<1>4. CASE FinishResync \/ FinishBoot
  <2>1. /\ mode = "sync" /\ mode' = "loop" /\ lastConf = Len(l1) /\ lastSub = Len(l1)
        /\ booting' = FALSE /\ UNCHANGED <<l1, chain, lastSub, lastConf, pend, nextId, cstate>>
        /\ sent' = sent /\ \E ms : Broadcast(ms)
    <3>1. CASE FinishResync
      <4>1. booting' = FALSE
        BY <3>1 DEF FinishResync
      <4> QED BY <3>1, <4>1 DEF FinishResync, Resume, Synced, clientStore
    <3>2. CASE FinishBoot  BY <3>2 DEF FinishBoot, Resume, Synced, clientStore
    <3> QED BY <1>4, <3>1, <3>2
  <2>2. session' \in BOOLEAN /\ (session = FALSE => session' = FALSE /\ chan' = chan)
    BY <2>1, BroadcastBool
  <2>3. pend = <<>>  BY <2>1 DEF NodeFacts
  <2>4. lastConf' <= lastSub' /\ lastConf' <= Len(l1)  BY <2>1
  <2> QED BY <2>1, <2>2, <2>3, <2>4 DEF NodeFacts
<1> QED BY <1>1, <1>2, <1>3, <1>4

\* The published chain is a chain that begins with the stored one.
LEMMA FullFacts ==
    ASSUME NEW f, SyncOK(f), NodeFacts
    PROVE  /\ ChainOf(f, FullOf(chain, pend)) /\ Len(FullOf(chain, pend)) \in Nat
           /\ Len(chain) \in Nat /\ Grown(chain, FullOf(chain, pend))
           /\ pend = <<>> => FullOf(chain, pend) = chain
           /\ pend # <<>> => /\ Len(FullOf(chain, pend)) = Len(chain) + 1
                             /\ FullOf(chain, pend)[Len(chain) + 1] = pend[1]
                             /\ Of(f, pend[1]) /\ pend[1] = Head(pend)
<1> /\ Len(chain) \in Nat /\ ChainOf(f, chain) /\ pend \in Seq(BlockRec)
    /\ \A i \in 1..Len(pend) : Of(f, pend[i])
  BY LenProperties DEF SyncOK, NodeOK, ChainOf
<1>1. PICK s : s = FullOf(chain, pend)  OBVIOUS
<1>2. CASE pend = <<>>
  <2>1. s = chain  BY <1>1, <1>2 DEF FullOf
  <2> QED BY <1>1, <1>2, <2>1 DEF Grown
<1>3. CASE pend # <<>>
  <2>1. s = Append(chain, pend[1])  BY <1>1, <1>3 DEF FullOf
  <2>2. Len(pend) \in Nat /\ Len(pend) # 0 /\ Head(pend) = pend[1]
    BY <1>3, EmptySeq, LenProperties, HeadTailProperties
  <2>3. Of(f, pend[1])  BY <2>2
  <2>4. pend[1].par = TipOf(chain)  BY <1>3 DEF NodeFacts
  <2>5. ChainOf(f, s) /\ Len(s) = Len(chain) + 1 /\ \A i \in 1..Len(chain) : s[i] = chain[i]
    BY <2>1, <2>3, <2>4, ChainAppend
  <2>6. s[Len(chain) + 1] = pend[1]
    BY <2>1, <2>3, AppendProperties DEF ChainOf, Of
  <2> QED BY <1>1, <1>3, <2>2, <2>3, <2>5, <2>6 DEF Grown
<1> QED BY <1>2, <1>3

\* A stored block is not the one that is published and not committed.
LEMMA PendApart ==
    ASSUME NEW f, SyncOK(f), NodeFacts, pend # <<>>, NEW n \in 1..Len(chain)
    PROVE  chain[n].id # pend[1].id
<1>1. PICK s : s = FullOf(chain, pend)  OBVIOUS
<1>2. /\ ChainOf(f, s) /\ Len(s) = Len(chain) + 1 /\ s[Len(chain) + 1] = pend[1]
      /\ Grown(chain, s) /\ Len(chain) \in Nat
  BY <1>1, FullFacts
<1>3. s[n] = chain[n] /\ n \in 1..Len(s)  BY <1>2 DEF Grown
<1>4. PICK q \in 1..Len(s) : q = Len(chain) + 1  BY <1>2
<1>5. s[n].id = s[q].id => n = q  BY <1>2, <1>3, OneHeight DEF SyncOK
<1> QED BY <1>2, <1>3, <1>4, <1>5

LEMMA SendFacts ==
    ASSUME NEW f, SyncOK(f), NodeFacts, SendSubmission
    PROVE  /\ NodeFacts'
           /\ \E n \in 1..Len(chain) : sent' = sent \cup {chain[n].id}
           /\ UNCHANGED <<ledgerVars, booting, pend, buffer, clientVars, nextId>>
<1> /\ Len(chain) \in Nat /\ ChainOf(f, chain) /\ lastSub \in Nat /\ Made(f, nextId)
  BY LenProperties DEF SyncOK, NodeOK, ChainOf
<1>1. /\ mode = "loop" /\ lastSub < Len(chain) /\ sent' = sent \cup {chain[lastSub + 1].id}
      /\ UNCHANGED <<ledgerVars, booting, pend, buffer, clientVars, nextId>>
  BY DEF SendSubmission
<1>2. PICK n \in 1..Len(chain) : n = lastSub + 1  BY <1>1
<1>3. chain[n].id \in Nat /\ chain[n].id < nextId  BY ChainIds
<1>4. \A x \in sent' : x \in Nat /\ x < nextId  BY <1>1, <1>2, <1>3 DEF NodeFacts
<1>5. pend # <<>> => pend[1].id \notin sent' \cup Ids(l1)
  BY <1>1, <1>2, PendApart DEF NodeFacts, OnTheWay
<1>6. UNCHANGED <<l1, chain, lastSub, lastConf, mode, booting, pend, buffer, nextId, cstate, session, chan>>
  BY <1>1 DEF ledgerVars, clientVars
<1>7. OnTheWay' = sent' \cup Ids(l1)  BY <1>6 DEF OnTheWay, Ids
<1>8. NodeFacts'  BY <1>4, <1>5, <1>6, <1>7 DEF NodeFacts
<1> QED BY <1>1, <1>2, <1>8

\* The block layer 1 accepts was sent or is new, so it is not the one that is published
\* and not committed.
LEMMA Layer1Facts ==
    ASSUME NEW f, SyncOK(f), NodeFacts, Layer1
    PROVE  /\ NodeFacts'
           /\ \E b \in BlockRec : /\ l1' = Append(l1, b) /\ b.par = TipOf(l1)
                                  /\ b.id \in sent \/ b.id = nextId
           /\ UNCHANGED <<chain, lastSub, lastConf, mode, serverVars, clientVars>>
<1> /\ Len(chain) \in Nat /\ Len(l1) \in Nat /\ ChainOf(f, chain) /\ ChainOf(f, l1)
    /\ ChainOf(f, cchain) /\ Len(cchain) \in Nat /\ l1 \in Seq(BlockRec) /\ Made(f, nextId)
  BY LenProperties DEF SyncOK, NodeOK, ClientOK, ChainOf
<1>1. UNCHANGED <<chain, lastSub, lastConf, mode, serverVars, clientVars>>
  BY DEF Layer1, CommitOwn, CommitReverted, CommitForeign, L1Accepts, l1Rest
<1>2. nextId \in Nat /\ nextId' \in Nat /\ nextId <= nextId'
  BY DEF Layer1, CommitOwn, CommitReverted, CommitForeign, Made
<1>3. PICK b \in BlockRec : /\ l1' = Append(l1, b) /\ b.par = TipOf(l1)
                            /\ b.id \in sent \/ b.id = nextId
                            /\ pend # <<>> => b.id # pend[1].id
  <2>1. CASE CommitOwn
    <3>1. PICK n : n = Len(l1) + 1  OBVIOUS
    <3>2. L1Accepts(chain[n]) /\ IsStrictPrefix(l1, chain) /\ chain[n].id \in sent
      BY <2>1, <3>1 DEF CommitOwn
    <3>3. Len(l1) < Len(chain)
      <4>1. Len(l1) <= Len(chain) /\ SubSeq(l1, 1, Len(l1)) = SubSeq(chain, 1, Len(l1)) /\ l1 # chain
        BY <3>2 DEF IsStrictPrefix, IsPrefix
      <4>2. \A i \in 1..Len(l1) : l1[i] = chain[i]  BY <4>1, ChainPrefix
      <4>3. Len(l1) # Len(chain)  BY <4>1, <4>2, SeqEqual DEF ChainOf
      <4> QED BY <4>1, <4>3
    <3>4. n \in 1..Len(chain)  BY <3>1, <3>3
    <3>5. chain[n] \in BlockRec  BY <3>4, ChainBlock
    <3>6. pend # <<>> => chain[n].id # pend[1].id  BY <3>4, PendApart
    <3> QED BY <3>2, <3>5, <3>6 DEF L1Accepts
  <2>2. CASE CommitReverted
    <3>1. PICK n : n = Len(l1) + 1  OBVIOUS
    <3>2. L1Accepts(cchain[n]) /\ n \in 1..Len(cchain) /\ cchain[n].id \in sent
      BY <2>2, <3>1 DEF CommitReverted
    <3>3. cchain[n] \in BlockRec  BY <3>2, ChainBlock
    <3>4. pend # <<>> => cchain[n].id # pend[1].id  BY <3>2 DEF NodeFacts, OnTheWay
    <3> QED BY <3>2, <3>3, <3>4 DEF L1Accepts
  <2>3. CASE CommitForeign
    <3>1. PICK b : b = [id |-> nextId, par |-> TipOf(l1)]  OBVIOUS
    <3>2. L1Accepts(b)  BY <2>3, <3>1 DEF CommitForeign
    <3>3. TipOf(l1) \in Nat  BY IdIsNat DEF TipOf
    <3>4. b \in BlockRec /\ b.id = nextId  BY <1>2, <3>1, <3>3 DEF BlockRec
    <3>5. ASSUME pend # <<>> PROVE b.id # pend[1].id
      <4>1. Of(f, pend[1])  BY <3>5, FullFacts
      <4> QED BY <3>4, <4>1, <1>2 DEF Of, Made
    <3> QED BY <3>2, <3>4, <3>5 DEF L1Accepts
  <2> QED BY <2>1, <2>2, <2>3 DEF Layer1
<1>4. Len(l1') = Len(l1) + 1  BY <1>3, AppendProperties
<1>5. pend # <<>> => pend[1].id \notin Ids(l1')
  <2>1. \A x \in Ids(l1') : x \in Ids(l1) \/ x = b.id  BY <1>3, IdsAppend
  <2> QED BY <1>3, <2>1 DEF NodeFacts, OnTheWay
<1>6. \A x \in sent : x \in Nat /\ x < nextId'  BY <1>2 DEF NodeFacts
<1>7. mode = "loop" => lastConf <= lastSub /\ lastConf <= Len(l1')
  <2>1. lastConf \in Nat  BY DEF SyncOK, NodeOK
  <2> QED BY <1>4, <2>1 DEF NodeFacts
<1>8. pend # <<>> => pend[1].id \notin sent  BY DEF NodeFacts, OnTheWay
<1>9. NodeFacts'  BY <1>1, <1>5, <1>6, <1>7, <1>8 DEF NodeFacts, OnTheWay, serverVars, clientVars
<1> QED BY <1>1, <1>3, <1>9

LEMMA ClientFacts ==
    ASSUME NodeFacts, Client
    PROVE  NodeFacts' /\ UNCHANGED <<ledgerVars, serverVars, nextId>>
<1>1. UNCHANGED <<ledgerVars, serverVars, nextId>>
  BY DEF Client, Connect, Apply, ClientSync, Subscribe, AskAgain, RevertForLocal, HandleLocalBlock,
         HandleSubmitted, HandleConfirmed, HandleRevert, HandleMemPool, SkipMemPool, StreamEnds,
         ConnectionLost, clientRest
<1>2. session' \in BOOLEAN /\ (session' = session \/ session' = FALSE \/ (Subscribe /\ session' = TRUE))
  BY DEF NodeFacts, Client, Connect, Apply, ClientSync, Subscribe, AskAgain, RevertForLocal, HandleLocalBlock,
         HandleSubmitted, HandleConfirmed, HandleRevert, HandleMemPool, SkipMemPool, StreamEnds,
         ConnectionLost, Consume, Disconnect
<1>3. cstate' # "stream" => chan' = <<>> /\ session' = FALSE
  BY DEF NodeFacts, Client, Connect, Apply, ClientSync, Subscribe, AskAgain, RevertForLocal, HandleLocalBlock,
         HandleSubmitted, HandleConfirmed, HandleRevert, HandleMemPool, SkipMemPool, StreamEnds,
         ConnectionLost, Consume, Disconnect, Streaming
<1>4. booting => session' = FALSE
  <2>1. SUFFICES ASSUME booting PROVE session' = FALSE  OBVIOUS
  <2>2. session = FALSE /\ buffer = <<>>  BY <2>1 DEF NodeFacts
  <2>3. ~Subscribe  BY <2>2 DEF Subscribe, HasBlock
  <2> QED BY <1>2, <2>2, <2>3
<1>5. OnTheWay' = OnTheWay  BY <1>1 DEF OnTheWay, Ids, ledgerVars, serverVars
<1>6. NodeFacts'  BY <1>1, <1>2, <1>3, <1>4, <1>5 DEF NodeFacts, ledgerVars, serverVars
<1> QED BY <1>1, <1>6

\* What was announced as confirmed stays so.
LEMMA LimitGrows ==
    ASSUME NEW f, SyncOK(f), NodeFacts, Server \/ Layer1 \/ Client \/ UNCHANGED vars
    PROVE  Limit \in Nat /\ Limit' \in Nat /\ Limit <= Limit'
<1> /\ Len(chain) \in Nat /\ Len(l1) \in Nat /\ l1 \in Seq(BlockRec)
    /\ lastSub \in Nat /\ lastConf \in Nat
  BY LenProperties DEF SyncOK, NodeOK, ChainOf
<1> mode \in {"loop", "sync"} /\ (mode = "loop" => lastConf <= Len(l1))  BY DEF NodeFacts
<1>1. CASE UNCHANGED <<l1, lastConf, mode>>  BY <1>1 DEF Limit
<1>2. CASE l1' = l1 /\ mode' = "sync"  BY <1>2 DEF Limit
<1>3. CASE Layer1
  <2>1. PICK b \in BlockRec : l1' = Append(l1, b)  BY <1>3, Layer1Facts
  <2>2. Len(l1') = Len(l1) + 1 /\ UNCHANGED <<lastConf, mode>>
    BY <1>3, <2>1, Layer1Facts, AppendProperties
  <2> QED BY <2>2 DEF Limit
<1>4. CASE PublishConfirmed
  <2>1. UNCHANGED <<l1, mode>> /\ mode = "loop" /\ lastConf' = lastConf + 1
    BY <1>4 DEF PublishConfirmed, Confirm
  <2> QED BY <2>1 DEF Limit
<1>5. CASE FinishResync \/ FinishBoot
  <2>1. UNCHANGED <<l1, lastConf>> /\ mode = "sync" /\ mode' = "loop" /\ lastConf = Len(l1)
    BY <1>5 DEF FinishResync, FinishBoot, Resume, Synced
  <2> QED BY <2>1 DEF Limit
<1>6. CASE Client
  <2>1. UNCHANGED ledgerVars  BY <1>6, ClientFacts
  <2> QED BY <1>1, <2>1 DEF ledgerVars
<1>7. CASE PublishLocalBlock \/ CommitLocalBlock \/ FailLocalBlock \/ SendSubmission
           \/ PublishSubmitted \/ PublishTransaction \/ UNCHANGED vars
  <2>1. UNCHANGED <<l1, lastConf, mode>>
    BY <1>7 DEF PublishLocalBlock, CommitLocalBlock, Produce, FailLocalBlock, SendSubmission,
                PublishSubmitted, Submit, PublishTransaction, ledgerVars, vars
  <2> QED BY <1>1, <2>1
<1>8. CASE ForkNoticed \/ Disturb \/ RevertBlocks \/ SyncServer
  <2>1. l1' = l1 /\ mode' = "sync"
    BY <1>8 DEF ForkNoticed, Disturb, StartSync, RevertBlocks, SyncServer, Rewind, Adopt, Known
  <2> QED BY <1>2, <2>1
<1>9. CASE Restart
  <2>1. l1' = l1 /\ mode' = "sync"
    BY <1>9 DEF Restart, StartSync, ledgerVars
  <2> QED BY <1>2, <2>1
<1> QED BY <1>3, <1>4, <1>5, <1>6, <1>7, <1>8, <1>9 DEF Server, MainLoop

(***************************************************************************)
(* The shape of the buffer.                                                *)
(***************************************************************************)
LEMMA MsgTyped ==
    ASSUME NEW f, NEW l, NEW ms, MsgsOK(f, l, ms), NEW i \in 1..Len(ms)
    PROVE  ms[i] \in Message /\ ms[i].num \in Nat /\ ms[i].blk \in BlockRec /\ ms[i].blk.id \in Nat
BY DEF MsgsOK, MsgOK, Message, BlockRec

LEMMA EntryTyped ==
    ASSUME NEW f, NEW l, NEW b, BufferOK(f, l, b), NEW n \in DOMAIN b
    PROVE  /\ n \in Nat /\ b[n] \in BufferEntry /\ b[n].hash \in Int
           /\ MsgsOK(f, l, b[n].msgs) /\ b[n].msgs \in Seq(Message) /\ Len(b[n].msgs) \in Nat
BY LenProperties DEF BufferOK, EntryOK, BufferEntry, MsgsOK

LEMMA SeenGrows ==
    ASSUME NEW f, NEW l, NEW ms, MsgsOK(f, l, ms), NEW L \in Nat, NEW M \in Nat, L <= M,
           SeenOK(ms, L)
    PROVE  SeenOK(ms, M)
<1>1. \A i \in 1..Len(ms) : ms[i].num \in Nat  BY MsgTyped
<1> QED BY <1>1 DEF SeenOK

\* Fewer blocks are due, more is announced as confirmed.
LEMMA ShapeWeaken ==
    ASSUME NEW f, NEW l, NEW b, BufferOK(f, l, b), NEW D, NEW C, NEW L \in Nat, NEW M \in Nat,
           L <= M, Shape(b, D, L), \A n \in DOMAIN b : b[n].hash \in C => b[n].hash \in D
    PROVE  Shape(b, C, M)
<1>1. SUFFICES ASSUME NEW n \in DOMAIN b PROVE EntryShape(n, b[n], C, M)  BY DEF Shape
<1>2. EntryShape(n, b[n], D, L)  BY DEF Shape
<1>3. SeenOK(b[n].msgs, M)
  <2>1. MsgsOK(f, l, b[n].msgs)  BY EntryTyped
  <2> QED BY <1>2, <2>1, SeenGrows DEF EntryShape
<1> QED BY <1>2, <1>3 DEF EntryShape, Paired

LEMMA ShapePut ==
    ASSUME NEW b, NEW D, NEW L, Shape(b, D, L), NEW n, NEW e, EntryShape(n, e, D, L)
    PROVE  Shape(Put(b, n, e), D, L)
<1>1. DOMAIN Put(b, n, e) = DOMAIN b \cup {n}  BY DEF Put
<1>2. IsFiniteSet(DOMAIN b \cup {n})  BY FS_AddElement DEF Shape
<1>3. \A m \in DOMAIN b \cup {n} : Put(b, n, e)[m] = IF m = n THEN e ELSE b[m]  BY DEF Put
<1> QED BY <1>1, <1>2, <1>3 DEF Shape

LEMMA ShapeCut ==
    ASSUME NEW b, NEW D, NEW L, Shape(b, D, L), NEW n
    PROVE  Shape(From(b, n), D, L) /\ Shape(UpTo(b, n), D, L)
<1>1. \A S : S \subseteq DOMAIN b => IsFiniteSet(S)  BY FS_Subset DEF Shape
<1>2. /\ DOMAIN From(b, n) \subseteq DOMAIN b /\ \A m \in DOMAIN From(b, n) : From(b, n)[m] = b[m]
  BY DEF From
<1>3. /\ DOMAIN UpTo(b, n) \subseteq DOMAIN b /\ \A m \in DOMAIN UpTo(b, n) : UpTo(b, n)[m] = b[m]
  BY DEF UpTo
<1> QED BY <1>1, <1>2, <1>3 DEF Shape

LEMMA ShapeEmpty ==
    ASSUME NEW D, NEW L
    PROVE  Shape(<<>>, D, L)
<1>1. DOMAIN <<>> = {}  OBVIOUS
<1> QED BY <1>1, FS_EmptySet DEF Shape

\* An entry of one message.
LEMMA OneEntry ==
    ASSUME NEW n, n # 0, NEW h, NEW x, NEW D, NEW L, x.num = n, h \notin D,
           \/ h = NoHash /\ x.kind = "mem"
           \/ h # NoHash /\ x.kind = "local" /\ x.blk.id = h
    PROVE  EntryShape(n, Entry(h, <<x>>), D, L)
<1>1. PICK e : e = Entry(h, <<x>>)  OBVIOUS
<1>2. e.hash = h /\ e.msgs = <<x>>  BY <1>1 DEF Entry
<1>3. PICK ms : ms = <<x>>  OBVIOUS
<1>4. Len(ms) = 1 /\ ms[1] = x /\ 2..1 = {}  BY <1>3
<1>5. Opens(n, e)  BY <1>2, <1>3, <1>4 DEF Opens
<1>6. Continues(n, ms)  BY <1>4 DEF Continues
<1>7. SeenOK(ms, L)  BY <1>4 DEF SeenOK
<1>8. Paired(e, D)  BY <1>2, <1>3, <1>4 DEF Paired
<1> QED BY <1>1, <1>2, <1>3, <1>5, <1>6, <1>7, <1>8 DEF EntryShape

Longer(e, x) == [e EXCEPT !.msgs = Append(@, x)]

\* A message joins an entry.
LEMMA EntryExtend ==
    ASSUME NEW n, NEW e \in BufferEntry, NEW x \in Message, NEW D, NEW C, NEW L,
           EntryShape(n, e, D, L), x.kind \in {"submitted", "confirmed", "push"},
           x.kind # "push" => x.num = n, x.kind = "confirmed" => x.num <= L,
           x.kind = "confirmed" => Told(e.msgs, Len(e.msgs), x.blk.id),
           e.hash \in C => e.hash \in D \/ (x.kind = "submitted" /\ x.blk.id = e.hash)
    PROVE  EntryShape(n, Longer(e, x), C, L)
<1>1. PICK ms \in Seq(Message) : ms = e.msgs  BY DEF BufferEntry
<1>2. PICK z : z = Append(ms, x)  OBVIOUS
<1>3. PICK N \in Nat : N = Len(ms)  BY LenProperties
<1>4. Len(z) = N + 1 /\ z[N + 1] = x /\ \A i \in 1..N : z[i] = ms[i]
  BY <1>2, <1>3, AppendProperties
<1>5. PICK y : y = Longer(e, x)  OBVIOUS
<1>6. y.hash = e.hash /\ y.msgs = z  BY <1>1, <1>2, <1>5 DEF BufferEntry, Longer
<1>7. /\ Opens(n, e) /\ Continues(n, ms) /\ SeenOK(ms, L) /\ Paired(e, D)
  BY <1>1 DEF EntryShape
<1>8. N # 0 /\ 1 \in 1..N  BY <1>1, <1>3, <1>7 DEF Opens
<1>9. z[1] = ms[1] /\ Len(z) # 0  BY <1>4, <1>8
<1>10. Opens(n, y)  BY <1>1, <1>6, <1>7, <1>9 DEF Opens
<1>11. \A i \in 1..Len(z) : i = N + 1 \/ i \in 1..N  BY <1>4
<1>12. \A i \in 2..Len(z) : i = N + 1 \/ (i \in 2..N /\ i \in 1..N)  BY <1>4
<1>13. Continues(n, z)  BY <1>3, <1>4, <1>7, <1>12 DEF Continues
<1>14. SeenOK(z, L)  BY <1>3, <1>4, <1>7, <1>11 DEF SeenOK
<1>15. \A i, id : i <= N /\ i \in Nat /\ Told(ms, i, id) => Told(z, i, id)
  <2>1. SUFFICES ASSUME NEW i \in Nat, NEW id, i <= N, Told(ms, i, id) PROVE Told(z, i, id)
    OBVIOUS
  <2>2. PICK q \in 2..i : ms[q].kind = "submitted" /\ ms[q].blk.id = id  BY <2>1 DEF Told
  <2>3. z[q] = ms[q]  BY <1>4, <2>1, <2>2
  <2> QED BY <2>2, <2>3 DEF Told
<1>16. \A id : Told(ms, N, id) => Told(z, N + 1, id)
  <2>1. SUFFICES ASSUME NEW id, Told(ms, N, id) PROVE Told(z, N + 1, id)  OBVIOUS
  <2>2. PICK q \in 2..N : ms[q].kind = "submitted" /\ ms[q].blk.id = id  BY <2>1 DEF Told
  <2>3. z[q] = ms[q] /\ q \in 2..N + 1  BY <1>4, <2>1, <2>2
  <2> QED BY <2>2, <2>3 DEF Told
<1>17. ASSUME NEW i \in 2..Len(z), z[i].kind = "confirmed"
       PROVE  Told(z, i - 1, z[i].blk.id)
  <2>1. CASE i = N + 1
    <3>1. z[i] = x /\ i - 1 = N  BY <1>4, <2>1
    <3>2. Told(ms, N, x.blk.id)  BY <1>1, <1>3, <1>17, <3>1
    <3> QED BY <1>15, <3>1, <3>2
  <2>2. CASE i \in 2..N /\ i \in 1..N
    <3>1. z[i] = ms[i] /\ i - 1 \in Nat /\ i - 1 <= N  BY <1>4, <2>2
    <3>2. Told(ms, i - 1, ms[i].blk.id)  BY <1>1, <1>3, <1>7, <1>17, <2>2, <3>1 DEF Paired
    <3> QED BY <1>15, <3>1, <3>2
  <2> QED BY <1>12, <2>1, <2>2
<1>18. ASSUME e.hash \in C PROVE Told(z, Len(z), e.hash)
  <2>1. CASE e.hash \in D
    <3>1. Told(ms, N, e.hash)  BY <1>1, <1>3, <1>7, <2>1 DEF Paired
    <3> QED BY <1>4, <1>16, <3>1
  <2>2. CASE x.kind = "submitted" /\ x.blk.id = e.hash
    <3>1. N + 1 \in 2..Len(z)  BY <1>4, <1>8
    <3> QED BY <1>4, <2>2, <3>1 DEF Told
  <2> QED BY <1>18, <2>1, <2>2
<1>19. Paired(y, C)  BY <1>6, <1>17, <1>18 DEF Paired
<1> QED BY <1>5, <1>6, <1>10, <1>13, <1>14, <1>19 DEF EntryShape

LEMMA ExtendFacts ==
    ASSUME NEW b, NEW n, NEW x
    PROVE  /\ DOMAIN Extend(b, n, x) = DOMAIN b
           /\ \A m \in DOMAIN b : m # n => Extend(b, n, x)[m] = b[m]
           /\ n \in DOMAIN b => Extend(b, n, x)[n] = Longer(b[n], x)
           /\ \A m \in DOMAIN b : b[m] \in BufferEntry => Extend(b, n, x)[m].hash = b[m].hash
<1>1. CASE n \notin DOMAIN b  BY <1>1 DEF Extend
<1>2. CASE n \in DOMAIN b
  <2>1. PICK e : e = Longer(b[n], x)  OBVIOUS
  <2>2. Extend(b, n, x) = [b EXCEPT ![n] = e]  BY <1>2, <2>1 DEF Extend, Longer
  <2>3. /\ DOMAIN [b EXCEPT ![n] = e] = DOMAIN b
        /\ \A m \in DOMAIN b : [b EXCEPT ![n] = e][m] = IF m = n THEN e ELSE b[m]
    OBVIOUS
  <2>4. b[n] \in BufferEntry => e.hash = b[n].hash  BY <2>1 DEF BufferEntry, Longer
  <2> QED BY <1>2, <2>1, <2>2, <2>3, <2>4
<1> QED BY <1>1, <1>2

\* A message joins the entry of its number.
LEMMA ShapeExtend ==
    ASSUME NEW f, NEW l, NEW b, BufferOK(f, l, b), NEW n, NEW x \in Message,
           NEW D, NEW C, NEW L, Shape(b, D, L),
           x.kind \in {"submitted", "confirmed", "push"},
           x.kind # "push" => x.num = n, x.kind = "confirmed" => x.num <= L,
           n \in DOMAIN b /\ x.kind = "confirmed" =>
               Told(b[n].msgs, Len(b[n].msgs), x.blk.id),
           \A m \in DOMAIN b : b[m].hash \in C =>
               b[m].hash \in D \/ (m = n /\ x.kind = "submitted" /\ x.blk.id = b[m].hash)
    PROVE  Shape(Extend(b, n, x), C, L)
<1>1. PICK z : z = Extend(b, n, x)  OBVIOUS
<1>2. /\ DOMAIN z = DOMAIN b /\ (\A m \in DOMAIN b : m # n => z[m] = b[m])
      /\ (n \in DOMAIN b => z[n] = Longer(b[n], x))
  BY <1>1, ExtendFacts
<1>3. ASSUME NEW m \in DOMAIN b PROVE EntryShape(m, z[m], C, L)
  <2>1. EntryShape(m, b[m], D, L) /\ b[m] \in BufferEntry  BY EntryTyped DEF Shape
  <2>2. CASE m = n
    <3>1. PICK e \in BufferEntry : e = b[n]  BY <2>1, <2>2
    <3>2. EntryShape(n, Longer(e, x), C, L)
      BY <1>3, <2>1, <2>2, <3>1, EntryExtend
    <3> QED BY <1>2, <1>3, <2>2, <3>1, <3>2
  <2>3. CASE m # n
    <3>1. z[m] = b[m]  BY <1>2, <2>3
    <3>2. b[m].hash \in C => b[m].hash \in D  BY <1>3, <2>3
    <3> QED BY <2>1, <3>1, <3>2 DEF EntryShape, Paired
  <2> QED BY <2>2, <2>3
<1> QED BY <1>1, <1>2, <1>3 DEF Shape

\* What a buffered block is.
LEMMA EntryBlock ==
    ASSUME NEW f, SyncOK(f), NEW D, NEW L, Shape(buffer, D, L), NEW n \in DOMAIN buffer,
           buffer[n].hash # NoHash
    PROVE  /\ MsgOK(f, l1, buffer[n].msgs[1]) /\ buffer[n].msgs[1].kind = "local"
           /\ buffer[n].msgs[1].num = n /\ Of(f, buffer[n].msgs[1].blk)
           /\ buffer[n].msgs[1].blk.id = buffer[n].hash
           /\ Placed(f, n, buffer[n].msgs[1].blk)
           /\ buffer[n].hash \in Nat /\ buffer[n].hash # 0 /\ buffer[n].hash < nextId
<1>1. Opens(n, buffer[n])  BY DEF Shape, EntryShape
<1>2. PICK x : x = buffer[n].msgs[1]  OBVIOUS
<1>3. x.kind = "local" /\ x.num = n /\ x.blk.id = buffer[n].hash /\ Len(buffer[n].msgs) # 0
  BY <1>1, <1>2 DEF Opens
<1>4. MsgsOK(f, l1, buffer[n].msgs) /\ Len(buffer[n].msgs) \in Nat  BY EntryTyped DEF SyncOK
<1>5. 1 \in 1..Len(buffer[n].msgs)  BY <1>3, <1>4
<1>6. MsgOK(f, l1, x)  BY <1>2, <1>4, <1>5 DEF MsgsOK
<1>7. Of(f, x.blk) /\ Placed(f, n, x.blk)  BY <1>3, <1>6 DEF MsgOK
<1>8. Made(f, nextId)  BY DEF SyncOK
<1>9. x.blk.id \in Nat /\ x.blk.id # 0 /\ x.blk.id < nextId  BY <1>7, <1>8 DEF Of, Made
<1> QED BY <1>2, <1>3, <1>6, <1>7, <1>9

\* A buffered block with the identity of a block of a chain is that block.
LEMMA EntryAt ==
    ASSUME NEW f, SyncOK(f), NEW D, NEW L, Shape(buffer, D, L), NEW n \in DOMAIN buffer,
           NEW s, ChainOf(f, s), NEW q \in 1..Len(s), s[q].id = buffer[n].hash
    PROVE  n = q /\ buffer[n].msgs[1].blk = s[q] /\ buffer[n].hash # NoHash
<1> Made(f, nextId)  BY DEF SyncOK
<1>1. Of(f, s[q]) /\ s[q].id \in Nat  BY ChainBlock, ChainIds
<1>2. buffer[n].hash # NoHash  BY <1>1 DEF NoHash
<1>3. PICK x : x = buffer[n].msgs[1].blk  OBVIOUS
<1>4. Of(f, x) /\ x.id = buffer[n].hash /\ Placed(f, n, x)  BY <1>2, <1>3, EntryBlock
<1>5. x = s[q]  BY <1>1, <1>4 DEF Of
<1>6. PICK t : ChainOf(f, t) /\ n \in 1..Len(t) /\ t[n] = x  BY <1>4 DEF Placed
<1>7. t[n].id = s[q].id  BY <1>5, <1>6
<1>8. n = q  BY <1>6, <1>7, OneHeight
<1> QED BY <1>2, <1>3, <1>5, <1>8

LEMMA RepublishFacts ==
    ASSUME NEW f, ChainOf(f, chain), lastConf \in 0..Len(chain), NEW b,
           \A n \in DOMAIN b : n \in Nat
    PROVE  /\ DOMAIN Republish(b) = DOMAIN b \cup (lastConf + 1..Len(chain))
           /\ \A n \in lastConf + 1..Len(chain) :
                 Republish(b)[n] = Entry(chain[n].id, <<LocalBlock(n, chain[n])>>)
           /\ \A n \in DOMAIN b : n \notin lastConf + 1..Len(chain) => Republish(b)[n] = b[n]
<1> Len(chain) \in Nat  BY LenProperties DEF ChainOf
<1>1. PICK K \in Nat : K = Len(chain) - lastConf
  <2>1. Len(chain) - lastConf \in Nat  OBVIOUS
  <2> QED BY <2>1
<1>2. PICK B : B = LocalBlocks  OBVIOUS
<1>3. B = [i \in 1..K |-> LocalBlock(lastConf + i, chain[lastConf + i])]
  BY <1>1, <1>2 DEF LocalBlocks
<1>4. DOMAIN B = 1..K /\ \A i \in 1..K : B[i].num = lastConf + i
  BY <1>3 DEF LocalBlock, Msg
<1>5. PICK N : N = {msg.num : msg \in ToSet(B)}  OBVIOUS
<1>6. ToSet(B) = {B[i] : i \in 1..K}  BY <1>4 DEF ToSet
<1>7. N = lastConf + 1..Len(chain)
  <2>1. ASSUME NEW n \in N PROVE n \in lastConf + 1..Len(chain)
    <3>1. PICK i \in 1..K : n = B[i].num  BY <1>5, <1>6, <2>1
    <3>2. n = lastConf + i  BY <1>4, <3>1
    <3> QED BY <1>1, <3>1, <3>2
  <2>2. ASSUME NEW n \in lastConf + 1..Len(chain) PROVE n \in N
    <3>1. PICK i \in 1..K : n = lastConf + i
      <4>1. n - lastConf \in 1..K /\ n = lastConf + (n - lastConf)  BY <1>1
      <4> QED BY <4>1
    <3>2. B[i] \in ToSet(B) /\ B[i].num = n  BY <1>4, <1>6, <3>1
    <3> QED BY <1>5, <3>2
  <2> QED BY <2>1, <2>2
<1>8. \A n \in lastConf + 1..Len(chain) : B # <<>>
  <2>1. SUFFICES ASSUME NEW n \in lastConf + 1..Len(chain) PROVE B # <<>>  OBVIOUS
  <2>2. 1 \in 1..K  BY <1>1
  <2>3. DOMAIN <<>> = {}  OBVIOUS
  <2> QED BY <1>4, <2>2, <2>3
<1>9. PICK r : r = Republish(b)  OBVIOUS
<1>10. DOMAIN r = DOMAIN b \cup N
      /\ \A n \in DOMAIN r :
            r[n] = IF n > lastConf /\ n <= Len(chain) /\ B # <<>>
                   THEN Entry(chain[n].id, <<LocalBlock(n, chain[n])>>) ELSE b[n]
  BY <1>2, <1>5, <1>9 DEF Republish
<1>11. ASSUME NEW n \in lastConf + 1..Len(chain)
       PROVE  r[n] = Entry(chain[n].id, <<LocalBlock(n, chain[n])>>)
  <2>1. n > lastConf /\ n <= Len(chain)  OBVIOUS
  <2> QED BY <1>7, <1>8, <1>10, <2>1
<1>12. ASSUME NEW n \in DOMAIN b, n \notin lastConf + 1..Len(chain) PROVE r[n] = b[n]
  <2>1. ~(n > lastConf /\ n <= Len(chain))  BY <1>12
  <2> QED BY <1>10, <2>1
<1> QED BY <1>7, <1>9, <1>10, <1>11, <1>12

\* The local blocks are republished; they are not announced as submitted any more.
LEMMA ShapeRepublish ==
    ASSUME NEW f, NEW N, Made(f, N), ChainOf(f, chain), lastConf \in 0..Len(chain), NEW b, NEW D, NEW L,
           Shape(b, D, L), \A n \in DOMAIN b : n \in Nat,
           \A n \in lastConf + 1..Len(chain) : chain[n].id \notin D
    PROVE  Shape(Republish(b), D, L)
<1> Len(chain) \in Nat  BY LenProperties DEF ChainOf
<1>1. PICK r : r = Republish(b)  OBVIOUS
<1>2. /\ DOMAIN r = DOMAIN b \cup (lastConf + 1..Len(chain))
      /\ \A n \in lastConf + 1..Len(chain) :
            r[n] = Entry(chain[n].id, <<LocalBlock(n, chain[n])>>)
      /\ \A n \in DOMAIN b : n \notin lastConf + 1..Len(chain) => r[n] = b[n]
  BY <1>1, RepublishFacts
<1>3. IsFiniteSet(DOMAIN r)
  <2>1. IsFiniteSet(lastConf + 1..Len(chain))  BY FS_Interval
  <2>2. IsFiniteSet(DOMAIN b)  BY DEF Shape
  <2>3. IsFiniteSet(DOMAIN b \cup (lastConf + 1..Len(chain)))  BY <2>1, <2>2, FS_Union
  <2> QED BY <1>2, <2>3
<1>4. ASSUME NEW n \in DOMAIN r PROVE EntryShape(n, r[n], D, L)
  <2>1. CASE n \in lastConf + 1..Len(chain)
    <3>1. n \in 1..Len(chain) /\ n # 0  BY <2>1
    <3>2. chain[n].id # NoHash  BY <3>1, ChainIds DEF NoHash
    <3>3. PICK x : x = LocalBlock(n, chain[n])  OBVIOUS
    <3>4. x.num = n /\ x.kind = "local" /\ x.blk.id = chain[n].id  BY <3>3 DEF LocalBlock, Msg
    <3>5. EntryShape(n, Entry(chain[n].id, <<x>>), D, L)  BY <2>1, <3>1, <3>2, <3>4, OneEntry
    <3> QED BY <1>2, <2>1, <3>3, <3>5
  <2>2. CASE n \notin lastConf + 1..Len(chain)
    <3>1. n \in DOMAIN b /\ r[n] = b[n]  BY <1>2, <2>2
    <3> QED BY <3>1 DEF Shape
  <2> QED BY <2>1, <2>2
<1> QED BY <1>1, <1>3, <1>4 DEF Shape

LEMMA ShapePutMem ==
    ASSUME NEW s, Len(s) \in Nat, NEW b, NEW D, NEW L, Shape(b, D, L), NoHash \notin D
    PROVE  Shape(PutMem(b, s), D, L)
<1>1. PICK x, n : x = NextMemBlock(s) /\ n = Len(s) + 1  OBVIOUS
<1>2. x.num = n /\ x.kind = "mem" /\ n # 0  BY <1>1 DEF NextMemBlock, Msg
<1>3. EntryShape(n, Entry(NoHash, <<x>>), D, L)  BY <1>2, OneEntry
<1>4. PutMem(b, s) = Put(b, n, Entry(NoHash, <<x>>))  BY <1>1 DEF PutMem
<1> QED BY <1>3, <1>4, ShapePut

\* What is due is an identity that was made.
LEMMA DueMade ==
    ASSUME NEW f, SyncOK(f), NodeFacts
    PROVE  \A x \in Due : x \in Nat /\ x < nextId
<1> Len(chain) \in Nat /\ ChainOf(f, chain) /\ lastSub \in 0..Len(chain) /\ lastConf \in 0..Len(chain)
    /\ Made(f, nextId)
  BY LenProperties DEF SyncOK, NodeOK, ChainOf
<1>1. \A n \in lastConf + 1..lastSub : n \in 1..Len(chain)  OBVIOUS
<1>2. \A n \in 1..Len(chain) : chain[n].id \in Nat /\ chain[n].id < nextId  BY ChainIds
<1> QED BY <1>1, <1>2 DEF Due

\* What was sent or is on layer 1 is an identity that was made.
LEMMA OnTheWayMade ==
    ASSUME NEW f, SyncOK(f), NodeFacts
    PROVE  \A x \in OnTheWay : x \in Nat /\ x < nextId
<1>1. \A x \in sent : x \in Nat /\ x < nextId  BY DEF NodeFacts
<1>2. \A x \in Ids(l1) : x \in Nat /\ x < nextId  BY IdsMade DEF SyncOK
<1> QED BY <1>1, <1>2 DEF OnTheWay

(***************************************************************************)
(* The buffer through the steps of the full node.                          *)
(***************************************************************************)
BufferInv ==
    /\ Shape(buffer, Due, Limit)
    /\ mode = "loop" => Covered(buffer, chain, pend, lastConf, OnTheWay)

LEMMA PublishLocalBlockBuffer ==
    ASSUME NEW f, SyncOK(f), NodeFacts, BufferInv, PublishLocalBlock
    PROVE  BufferInv'
<1> Len(chain) \in Nat /\ ChainOf(f, chain) /\ chain \in Seq(BlockRec) /\ nextId \in Nat
  BY LenProperties DEF SyncOK, NodeOK, ChainOf, Made
<1>1. PICK b, n : b = [id |-> nextId, par |-> TipOf(chain)] /\ n = Len(chain) + 1  OBVIOUS
<1>2. /\ mode = "loop" /\ pend = <<>> /\ pend' = <<b>> /\ buffer' = PutLocal(buffer, n, b)
      /\ UNCHANGED <<l1, chain, lastSub, lastConf, mode, sent>>
  BY <1>1 DEF PublishLocalBlock, Serving, ledgerVars
<1>3. Due' = Due /\ Limit' = Limit  BY <1>2 DEF Due, Limit
<1>4. PICK x : x = LocalBlock(n, b)  OBVIOUS
<1>5. x.num = n /\ x.kind = "local" /\ x.blk = b /\ b.id = nextId  BY <1>1, <1>4 DEF LocalBlock, Msg
<1>6. buffer' = Put(buffer, n, Entry(nextId, <<x>>))  BY <1>1, <1>2, <1>4 DEF PutLocal
<1>7. Shape(buffer', Due, Limit)
  <2>1. nextId \notin Due  BY DueMade
  <2>2. n # 0 /\ nextId # NoHash  BY <1>1 DEF NoHash
  <2>3. EntryShape(n, Entry(nextId, <<x>>), Due, Limit)  BY <1>5, <2>1, <2>2, OneEntry
  <2> QED BY <1>6, <2>3, ShapePut DEF BufferInv
<1>8. Covered(buffer', chain, pend', lastConf, OnTheWay')
  <2>1. PICK s : s = FullOf(chain, pend')  OBVIOUS
  <2>2. pend' # <<>> /\ pend'[1] = b /\ s = Append(chain, b)  BY <1>2, <2>1 DEF FullOf
  <2>3. b \in BlockRec
    <3>1. TipOf(chain) \in Nat  BY IdIsNat DEF TipOf
    <3> QED BY <1>1, <3>1 DEF BlockRec
  <2>4. Len(s) = n /\ s[n] = b /\ \A i \in 1..Len(chain) : s[i] = chain[i]
    BY <1>1, <2>2, <2>3, AppendProperties
  <2>5. /\ DOMAIN buffer' = DOMAIN buffer \cup {n} /\ buffer'[n].hash = nextId
        /\ \A m \in DOMAIN buffer : m # n => buffer'[m] = buffer[m]
    <3>1. PICK e, z : e = Entry(nextId, <<x>>) /\ z = Put(buffer, n, e)  OBVIOUS
    <3>2. /\ DOMAIN z = DOMAIN buffer \cup {n} /\ z[n] = e
          /\ \A m \in DOMAIN buffer : m # n => z[m] = buffer[m]
      BY <3>1 DEF Put
    <3>3. e.hash = nextId /\ buffer' = z  BY <1>6, <3>1 DEF Entry
    <3> QED BY <3>2, <3>3
  <2>6. Covered(buffer, chain, <<>>, lastConf, OnTheWay) /\ FullOf(chain, <<>>) = chain
    BY <1>2 DEF BufferInv, FullOf
  <2>7. \A m \in DOMAIN buffer' : m <= Len(chain) + 1  BY <1>1, <2>5, <2>6 DEF Covered
  <2>8. ASSUME NEW m \in lastConf + 1..n PROVE m \in DOMAIN buffer' /\ buffer'[m].hash = s[m].id
    <3>1. CASE m = n  BY <1>5, <2>4, <2>5, <3>1
    <3>2. CASE m # n
      <4>1. m \in lastConf + 1..Len(chain) /\ m \in 1..Len(chain)  BY <1>1, <3>2 DEF SyncOK, NodeOK
      <4>2. m \in DOMAIN buffer /\ buffer[m].hash = chain[m].id  BY <2>6, <4>1 DEF Covered
      <4> QED BY <2>4, <2>5, <3>2, <4>1, <4>2
    <3> QED BY <3>1, <3>2
  <2> QED BY <2>1, <2>2, <2>4, <2>7, <2>8 DEF Covered
<1> QED BY <1>2, <1>3, <1>7, <1>8 DEF BufferInv

LEMMA CommitLocalBlockBuffer ==
    ASSUME NEW f, SyncOK(f), NodeFacts, BufferInv, CommitLocalBlock
    PROVE  BufferInv'
<1>1. PICK s : s = FullOf(chain, pend)  OBVIOUS
<1>2. /\ ChainOf(f, s) /\ Len(s) \in Nat /\ Len(chain) \in Nat /\ pend # <<>>
      /\ Len(s) = Len(chain) + 1 /\ pend[1] = Head(pend)
  BY <1>1, FullFacts DEF CommitLocalBlock
<1>3. /\ mode = "loop" /\ chain' = s /\ pend' = <<>> /\ buffer' = PutMem(buffer, s)
      /\ UNCHANGED <<l1, lastSub, lastConf, mode, sent>>
  BY <1>1, <1>2 DEF CommitLocalBlock, Produce, FullOf
<1>4. Due' = Due /\ Limit' = Limit /\ OnTheWay' = OnTheWay
  <2>1. \A i \in 1..Len(chain) : s[i] = chain[i]  BY <1>1, FullFacts DEF Grown
  <2>2. \A n \in lastConf + 1..lastSub : n \in 1..Len(chain)  BY <1>2 DEF SyncOK, NodeOK
  <2> QED BY <1>3, <2>1, <2>2 DEF Due, Limit, OnTheWay, Ids
<1>5. Shape(buffer', Due, Limit)
  <2>1. NoHash \notin Due  BY DueMade DEF NoHash
  <2> QED BY <1>2, <1>3, <2>1, ShapePutMem DEF BufferInv
<1>6. Covered(buffer', s, <<>>, lastConf, OnTheWay)
  <2>1. PICK e : e = Entry(NoHash, <<NextMemBlock(s)>>)  OBVIOUS
  <2>2. buffer' = Put(buffer, Len(s) + 1, e) /\ e.hash = NoHash  BY <1>3, <2>1 DEF PutMem, Entry
  <2>3. /\ DOMAIN buffer' = DOMAIN buffer \cup {Len(s) + 1} /\ buffer'[Len(s) + 1] = e
        /\ \A m \in DOMAIN buffer : m # Len(s) + 1 => buffer'[m] = buffer[m]
    <3>1. PICK z, n : n = Len(s) + 1 /\ z = Put(buffer, n, e)  OBVIOUS
    <3>2. /\ DOMAIN z = DOMAIN buffer \cup {n} /\ z[n] = e
          /\ \A m \in DOMAIN buffer : m # n => z[m] = buffer[m]
      BY <3>1 DEF Put
    <3>3. buffer' = z  BY <2>2, <3>1
    <3> QED BY <3>1, <3>2, <3>3
  <2>4. Covered(buffer, chain, pend, lastConf, OnTheWay) /\ FullOf(s, <<>>) = s
    BY <1>3 DEF BufferInv, FullOf
  <2>5. \A m \in DOMAIN buffer : m \in Nat  BY EntryTyped DEF SyncOK
  <2>6. \A m \in DOMAIN buffer' : m <= Len(s) + 1  BY <1>2, <2>3, <2>4, <2>5 DEF Covered
  <2>7. ASSUME NEW m \in lastConf + 1..Len(s) PROVE m \in DOMAIN buffer' /\ buffer'[m].hash = s[m].id
    <3>1. m # Len(s) + 1  BY <1>2
    <3> QED BY <1>1, <2>3, <2>4, <3>1 DEF Covered
  <2>8. NoHash \notin OnTheWay  BY OnTheWayMade DEF NoHash
  <2> QED BY <2>2, <2>3, <2>4, <2>6, <2>7, <2>8 DEF Covered
<1> QED BY <1>3, <1>4, <1>5, <1>6 DEF BufferInv

\* The block is not stored, and stays in the buffer.
LEMMA FailLocalBlockBuffer ==
    ASSUME NEW f, SyncOK(f), NodeFacts, BufferInv, FailLocalBlock
    PROVE  BufferInv'
<1>1. PICK s : s = FullOf(chain, pend)  OBVIOUS
<1>2. /\ Len(chain) \in Nat /\ pend # <<>> /\ Len(s) = Len(chain) + 1 /\ s[Len(chain) + 1] = pend[1]
      /\ \A i \in 1..Len(chain) : s[i] = chain[i]
  BY <1>1, FullFacts DEF FailLocalBlock, Grown
<1>3. /\ pend' = <<>>
      /\ UNCHANGED <<l1, chain, lastSub, lastConf, mode, buffer, sent>>
  BY DEF FailLocalBlock, ledgerVars
<1>4. Due' = Due /\ Limit' = Limit /\ OnTheWay' = OnTheWay  BY <1>3 DEF Due, Limit, OnTheWay, Ids
<1>5. mode = "loop" /\ Covered(buffer, chain, pend, lastConf, OnTheWay) /\ pend[1].id \notin OnTheWay
  BY <1>2 DEF BufferInv, NodeFacts
<1>6. lastConf \in 0..Len(chain)  BY DEF SyncOK, NodeOK
<1>7. FullOf(chain, <<>>) = chain  BY DEF FullOf
<1>8. ASSUME NEW n \in lastConf + 1..Len(chain)
      PROVE  n \in DOMAIN buffer /\ buffer[n].hash = chain[n].id
  <2>1. n \in 1..Len(chain) /\ n \in lastConf + 1..Len(s)  BY <1>2, <1>6
  <2> QED BY <1>1, <1>2, <1>5, <2>1 DEF Covered
<1>9. buffer[Len(chain) + 1].hash = pend[1].id
  <2>1. PICK n : n = Len(chain) + 1  OBVIOUS
  <2>2. n \in lastConf + 1..Len(s)  BY <1>2, <1>6, <2>1
  <2> QED BY <1>1, <1>2, <1>5, <2>1, <2>2 DEF Covered
<1>10. Covered(buffer, chain, <<>>, lastConf, OnTheWay)
  BY <1>5, <1>7, <1>8, <1>9 DEF Covered
<1> QED BY <1>3, <1>4, <1>10 DEF BufferInv

\* The submission of a stored block is sent.
LEMMA SendSubmissionBuffer ==
    ASSUME NEW f, SyncOK(f), NodeFacts, BufferInv, SendSubmission
    PROVE  BufferInv'
<1> Len(chain) \in Nat /\ ChainOf(f, chain)  BY LenProperties DEF SyncOK, NodeOK, ChainOf
<1>1. PICK n \in 1..Len(chain) : sent' = sent \cup {chain[n].id}  BY SendFacts
<1>2. UNCHANGED <<l1, chain, lastSub, lastConf, mode, pend, buffer>>  BY SendFacts DEF ledgerVars
<1>3. Due' = Due /\ Limit' = Limit /\ \A x \in OnTheWay' : x \in OnTheWay \/ x = chain[n].id
  BY <1>1, <1>2 DEF Due, Limit, OnTheWay, Ids
<1>4. ASSUME mode = "loop", pend = <<>>, Len(chain) + 1 \in DOMAIN buffer
      PROVE  buffer[Len(chain) + 1].hash \notin OnTheWay'
  <2>1. PICK m \in DOMAIN buffer : m = Len(chain) + 1  BY <1>4
  <2>2. buffer[m].hash = chain[n].id => m = n  BY EntryAt DEF BufferInv
  <2>3. buffer[m].hash \notin OnTheWay  BY <1>4, <2>1 DEF BufferInv, Covered
  <2> QED BY <1>3, <2>1, <2>2, <2>3
<1>5. mode = "loop" => Covered(buffer, chain, pend, lastConf, OnTheWay')
  BY <1>4 DEF BufferInv, Covered
<1> QED BY <1>2, <1>3, <1>5 DEF BufferInv

LEMMA PublishSubmittedBuffer ==
    ASSUME NEW f, SyncOK(f), NodeFacts, BufferInv, PublishSubmitted
    PROVE  BufferInv'
<1> /\ Len(chain) \in Nat /\ ChainOf(f, chain) /\ lastSub \in 0..Len(chain) /\ lastConf \in 0..Len(chain)
    /\ Made(f, nextId)
  BY LenProperties DEF SyncOK, NodeOK, ChainOf
<1>1. PICK n : n = lastSub + 1  OBVIOUS
<1>2. PICK x : x = About("submitted", n)  OBVIOUS
<1>3. /\ mode = "loop" /\ pend = <<>> /\ n \in 1..Len(chain) /\ buffer' = Extend(buffer, n, x)
      /\ UNCHANGED <<l1, chain, lastConf, mode, pend, sent>> /\ lastSub' = n
  <2>1. lastSub' = n /\ UNCHANGED chain /\ lastSub < Len(chain)
    BY <1>1 DEF PublishSubmitted, Submit
  <2>2. About("submitted", lastSub') = x  BY <1>2, <2>1 
  <2>3. n \in 1..Len(chain)  BY <1>1, <2>1
  <2> QED BY <2>1, <2>2, <2>3 DEF PublishSubmitted, Submit, Serving
<1>4. Limit' = Limit /\ OnTheWay' = OnTheWay  BY <1>3 DEF Limit, OnTheWay, Ids
<1>5. \A y \in Due' : y \in Due \/ y = chain[n].id
  <2>1. \A i \in lastConf + 1..n : i = n \/ i \in lastConf + 1..lastSub  BY <1>1
  <2> QED BY <1>3, <2>1 DEF Due
<1>6. n # 0 /\ x.kind = "submitted" /\ x.num = n /\ x.blk.id = chain[n].id
  BY <1>2, <1>3 DEF About, Msg, IdAt
<1>7. x \in Message
  <2>1. n \in 0..Len(chain) /\ n # 0  BY <1>3
  <2>2. MsgOK(f, l1, About("submitted", n))  BY <2>1, AboutOK
  <2>3. MsgOK(f, l1, x)  BY <1>2, <2>2
  <2> QED BY <2>3 DEF MsgOK
<1>8. ASSUME NEW m \in DOMAIN buffer, buffer[m].hash \in Due'
      PROVE  buffer[m].hash \in Due
             \/ (m = n /\ x.kind = "submitted" /\ x.blk.id = buffer[m].hash)
  <2>1. CASE buffer[m].hash = chain[n].id
    <3>1. m = n  BY <1>3, <2>1, EntryAt DEF BufferInv
    <3> QED BY <1>6, <2>1, <3>1
  <2> QED BY <1>5, <1>8, <2>1
<1>9. Shape(buffer', Due', Limit)
  <2>1. PICK C : C = Due'  OBVIOUS
  <2>2. \A m \in DOMAIN buffer : buffer[m].hash \in C =>
           buffer[m].hash \in Due \/ (m = n /\ x.kind = "submitted" /\ x.blk.id = buffer[m].hash)
    BY <1>8, <2>1
  <2>3. BufferOK(f, l1, buffer) /\ Shape(buffer, Due, Limit)  BY DEF SyncOK, BufferInv
  <2>4. x.kind # "confirmed"  BY <1>6
  <2>5. Shape(Extend(buffer, n, x), C, Limit)
    BY <1>6, <1>7, <2>2, <2>3, <2>4, ShapeExtend
  <2> QED BY <1>3, <2>1, <2>5
<1>10. Covered(buffer', chain, pend, lastConf, OnTheWay)
  <2>1. /\ DOMAIN buffer' = DOMAIN buffer
        /\ \A m \in DOMAIN buffer : buffer'[m].hash = buffer[m].hash
    <3>1. \A m \in DOMAIN buffer : buffer[m] \in BufferEntry  BY EntryTyped DEF SyncOK
    <3> QED BY <1>3, <3>1, ExtendFacts
  <2>2. Covered(buffer, chain, pend, lastConf, OnTheWay)  BY <1>3 DEF BufferInv
  <2> QED BY <2>1, <2>2 DEF Covered
<1> QED BY <1>3, <1>4, <1>9, <1>10 DEF BufferInv


LEMMA PublishConfirmedBuffer ==
    ASSUME NEW f, SyncOK(f), NodeFacts, BufferInv, PublishConfirmed
    PROVE  BufferInv'
<1> /\ Len(chain) \in Nat /\ ChainOf(f, chain) /\ lastSub \in 0..Len(chain) /\ lastConf \in 0..Len(chain)
    /\ Made(f, nextId) /\ BufferCapacity \in Nat /\ Len(l1) \in Nat
  BY LenProperties, BlockSyncAssumption DEF SyncOK, NodeOK, ChainOf
<1>1. PICK n, k : n = lastConf + 1 /\ k = (IF n > BufferCapacity THEN n - BufferCapacity ELSE 0) + 1
  OBVIOUS
<1>2. PICK x, z : x = About("confirmed", n) /\ z = Extend(buffer, n, x)  OBVIOUS
<1>3. /\ mode = "loop" /\ pend = <<>> /\ n \in 1..Len(chain) /\ n \in 1..Len(l1) /\ l1[n] = chain[n]
      /\ buffer' = From(z, k) /\ lastConf' = n /\ n \in lastConf + 1..lastSub
      /\ UNCHANGED <<l1, chain, lastSub, mode, pend, sent>>
  <2>1. lastConf' = n /\ UNCHANGED chain /\ lastConf < lastSub /\ lastConf < Len(l1) /\ l1[n] = chain[n]
    BY <1>1 DEF PublishConfirmed, Confirm
  <2>2. About("confirmed", lastConf') = x  BY <1>2, <2>1
  <2>3. n \in 1..Len(chain) /\ n \in 1..Len(l1) /\ n \in lastConf + 1..lastSub  BY <1>1, <2>1
  <2>4. buffer' = From(z, k)  BY <1>1, <1>2, <2>1, <2>2 DEF PublishConfirmed
  <2> QED BY <2>1, <2>3, <2>4 DEF PublishConfirmed, Confirm, Serving
<1>4. Limit = lastConf /\ Limit' = n /\ OnTheWay' = OnTheWay /\ \A y \in Due' : y \in Due
  <2>1. \A i \in n + 1..lastSub : i \in lastConf + 1..lastSub  BY <1>1
  <2> QED BY <1>3, <2>1 DEF Limit, Due, OnTheWay, Ids
<1>5. n # 0 /\ x.kind = "confirmed" /\ x.num = n /\ x.blk.id = chain[n].id
  BY <1>2, <1>3 DEF About, Msg, IdAt
<1>6. x \in Message
  <2>1. n \in 0..Len(chain) /\ n # 0 /\ n <= Len(l1)  BY <1>3
  <2>2. MsgOK(f, l1, About("confirmed", n))  BY <1>3, <2>1, AboutOK
  <2>3. MsgOK(f, l1, x)  BY <1>2, <2>2
  <2> QED BY <2>3 DEF MsgOK
<1>7. Covered(buffer, chain, pend, lastConf, OnTheWay) /\ FullOf(chain, pend) = chain
  BY <1>3 DEF BufferInv, FullOf
<1>8. Told(buffer[n].msgs, Len(buffer[n].msgs), x.blk.id)
  <2>1. n \in lastConf + 1..Len(chain)  BY <1>1, <1>3
  <2>2. n \in DOMAIN buffer /\ buffer[n].hash = chain[n].id  BY <1>7, <2>1 DEF Covered
  <2>3. chain[n].id \in Due  BY <1>3 DEF Due
  <2> QED BY <1>5, <2>2, <2>3 DEF BufferInv, Shape, EntryShape, Paired
<1>9. Shape(z, Due, n)
  <2>1. BufferOK(f, l1, buffer) /\ Shape(buffer, Due, lastConf)  BY <1>4 DEF SyncOK, BufferInv
  <2>2. n \in Nat /\ lastConf \in Nat /\ lastConf <= n  BY <1>1
  <2>3. Shape(buffer, Due, n)  BY <2>1, <2>2, ShapeWeaken
  <2>4. n <= n  BY <2>2
  <2> QED BY <1>2, <1>5, <1>6, <1>8, <2>1, <2>3, <2>4, ShapeExtend
<1>10. Shape(buffer', Due', n)
  <2>1. BufferOK(f, l1, buffer')
    <3>1. SyncOK(f)'  BY PublishConfirmedOK
    <3> QED BY <1>3, <3>1 DEF SyncOK
  <2>2. Shape(buffer', Due, n)  BY <1>3, <1>9, ShapeCut
  <2>3. PICK b, C : b = buffer' /\ C = Due'  OBVIOUS
  <2>4. n \in Nat /\ n <= n  BY <1>3
  <2>5. Shape(b, C, n)  BY <1>4, <2>1, <2>2, <2>3, <2>4, ShapeWeaken
  <2> QED BY <2>3, <2>5
<1>11. Covered(buffer', chain, pend, n, OnTheWay)
  <2>1. /\ DOMAIN z = DOMAIN buffer
        /\ \A m \in DOMAIN buffer : z[m].hash = buffer[m].hash
    <3>1. \A m \in DOMAIN buffer : buffer[m] \in BufferEntry  BY EntryTyped DEF SyncOK
    <3> QED BY <1>2, <3>1, ExtendFacts
  <2>2. /\ DOMAIN buffer' = {m \in DOMAIN buffer : m >= k}
        /\ \A m \in DOMAIN buffer' : buffer'[m].hash = buffer[m].hash
    <3>1. PICK u : u = From(z, k)  OBVIOUS
    <3>2. DOMAIN u = {m \in DOMAIN z : m >= k} /\ \A m \in DOMAIN u : u[m] = z[m]
      BY <3>1 DEF From
    <3> QED BY <1>3, <2>1, <3>1, <3>2
  <2>3. k \in Nat /\ k <= n + 1  BY <1>1
  <2>4. ASSUME NEW m \in n + 1..Len(chain) PROVE m \in DOMAIN buffer' /\ buffer'[m].hash = chain[m].id
    <3>1. m \in lastConf + 1..Len(chain) /\ m >= k  BY <1>1, <1>3, <2>3
    <3>2. m \in DOMAIN buffer /\ buffer[m].hash = chain[m].id  BY <1>7, <3>1 DEF Covered
    <3> QED BY <2>2, <3>1, <3>2
  <2> QED BY <1>7, <2>2, <2>4 DEF Covered
<1> QED BY <1>3, <1>4, <1>10, <1>11 DEF BufferInv

LEMMA PublishTransactionBuffer ==
    ASSUME NEW f, SyncOK(f), NodeFacts, BufferInv, PublishTransaction
    PROVE  BufferInv'
<1>1. PICK x, n : x = Msg("push", 0, [id |-> 0, par |-> 0]) /\ n = Max(DOMAIN buffer)  OBVIOUS
<1>2. /\ buffer' = Extend(buffer, n, x) \/ buffer' = buffer
      /\ UNCHANGED <<l1, chain, lastSub, lastConf, mode, pend, sent>>
  BY <1>1 DEF PublishTransaction, ledgerVars
<1>3. Limit' = Limit /\ Due' = Due /\ OnTheWay' = OnTheWay  BY <1>2 DEF Limit, Due, OnTheWay, Ids
<1>4. CASE buffer' = buffer  BY <1>2, <1>3, <1>4 DEF BufferInv
<1>5. CASE buffer' = Extend(buffer, n, x)
  <2>1. x \in Message /\ x.kind = "push"  BY <1>1 DEF Msg, Message, BlockRec
  <2>2. BufferOK(f, l1, buffer) /\ Shape(buffer, Due, Limit)  BY DEF SyncOK, BufferInv
  <2>3. x.kind # "confirmed"  BY <2>1
  <2>4. Shape(Extend(buffer, n, x), Due, Limit)  BY <2>1, <2>2, <2>3, ShapeExtend
  <2>5. /\ DOMAIN buffer' = DOMAIN buffer
        /\ \A m \in DOMAIN buffer : buffer'[m].hash = buffer[m].hash
    <3>1. \A m \in DOMAIN buffer : buffer[m] \in BufferEntry  BY EntryTyped DEF SyncOK
    <3> QED BY <1>5, <3>1, ExtendFacts
  <2>6. mode = "loop" => Covered(buffer', chain, pend, lastConf, OnTheWay)
    BY <2>5 DEF BufferInv, Covered
  <2> QED BY <1>2, <1>3, <1>5, <2>4, <2>6 DEF BufferInv
<1> QED BY <1>2, <1>4, <1>5

\* The mem block after the chain is put.
LEMMA CoveredPutMem ==
    ASSUME NEW s, Len(s) \in Nat, NEW b, NEW conf, NEW S, NoHash \notin S,
           Covered(b, s, <<>>, conf, S)
    PROVE  Covered(PutMem(b, s), s, <<>>, conf, S)
<1>1. PICK e, z, n : e = Entry(NoHash, <<NextMemBlock(s)>>) /\ n = Len(s) + 1 /\ z = Put(b, n, e)
  OBVIOUS
<1>2. e.hash = NoHash /\ z = PutMem(b, s) /\ FullOf(s, <<>>) = s  BY <1>1 DEF Entry, PutMem, FullOf
<1>3. /\ DOMAIN z = DOMAIN b \cup {n} /\ z[n] = e
      /\ \A m \in DOMAIN b : m # n => z[m] = b[m]
  BY <1>1 DEF Put
<1>4. \A m \in DOMAIN z : m <= n  BY <1>1, <1>3 DEF Covered
<1>5. \A m \in conf + 1..Len(s) : m # n  BY <1>1
<1>6. \A m \in conf + 1..Len(s) : m \in DOMAIN z /\ z[m].hash = s[m].id
  BY <1>2, <1>3, <1>5 DEF Covered
<1> QED BY <1>1, <1>2, <1>3, <1>4, <1>6 DEF Covered

\* The local blocks are republished into a buffer of older blocks and, perhaps, the mem block.
LEMMA CoveredRepublish ==
    ASSUME NEW f, ChainOf(f, chain), lastConf \in 0..Len(chain), NEW b,
           \A n \in DOMAIN b : n \in Nat,
           \A n \in DOMAIN b : n <= lastConf \/ (n = Len(chain) + 1 /\ b[n].hash = NoHash),
           NEW S, NoHash \notin S
    PROVE  Covered(Republish(b), chain, <<>>, lastConf, S)
<1> Len(chain) \in Nat  BY LenProperties DEF ChainOf
<1>1. PICK r : r = Republish(b)  OBVIOUS
<1>2. /\ DOMAIN r = DOMAIN b \cup (lastConf + 1..Len(chain))
      /\ \A n \in lastConf + 1..Len(chain) :
            r[n] = Entry(chain[n].id, <<LocalBlock(n, chain[n])>>)
      /\ \A n \in DOMAIN b : n \notin lastConf + 1..Len(chain) => r[n] = b[n]
  BY <1>1, RepublishFacts
<1>3. ASSUME NEW n \in lastConf + 1..Len(chain) PROVE r[n].hash = chain[n].id
  <2>1. r[n] = Entry(chain[n].id, <<LocalBlock(n, chain[n])>>)  BY <1>2
  <2> QED BY <2>1 DEF Entry
<1>4. \A n \in DOMAIN r : n <= Len(chain) + 1  BY <1>2
<1>5. Len(chain) + 1 \notin lastConf + 1..Len(chain) /\ ~(Len(chain) + 1 <= lastConf)  OBVIOUS
<1>6. FullOf(chain, <<>>) = chain  BY DEF FullOf
<1> QED BY <1>1, <1>2, <1>3, <1>4, <1>5, <1>6 DEF Covered

\* A republished block is not announced as submitted.
LEMMA RepublishedDue ==
    ASSUME NEW f, SyncOK(f), FinishResync \/ FinishBoot
    PROVE  /\ Due' = {} /\ Limit' = Limit /\ Limit = lastConf /\ mode' = "loop" /\ mode = "sync"
           /\ lastConf = Len(l1) /\ lastSub = Len(l1)
           /\ UNCHANGED <<l1, chain, lastSub, lastConf, pend, sent>>
<1> Len(l1) \in Nat  BY LenProperties DEF SyncOK, ChainOf
<1>1. /\ mode = "sync" /\ mode' = "loop" /\ lastConf = Len(l1) /\ lastSub = Len(l1)
      /\ UNCHANGED <<l1, chain, lastSub, lastConf, pend, sent>>
  BY DEF FinishResync, FinishBoot, Resume, Synced
<1>2. Limit' = Limit /\ Limit = lastConf  BY <1>1 DEF Limit
<1>3. lastConf + 1..lastSub = {}  BY <1>1
<1>4. Due' = {}  BY <1>1, <1>3 DEF Due
<1> QED BY <1>1, <1>2, <1>4

LEMMA FinishBuffer ==
    ASSUME NEW f, SyncOK(f), NodeFacts, BufferInv, FinishResync \/ FinishBoot
    PROVE  BufferInv'
<1> /\ Len(chain) \in Nat /\ ChainOf(f, chain) /\ lastConf \in 0..Len(chain)
    /\ Made(f, nextId) /\ Len(l1) \in Nat
  BY LenProperties DEF SyncOK, NodeOK, ChainOf
<1>1. PICK C : C = Due'  OBVIOUS
<1>2. /\ C = {} /\ Limit' = lastConf /\ Limit = lastConf /\ mode' = "loop" /\ mode = "sync"
      /\ UNCHANGED <<l1, chain, lastConf, pend, sent>> /\ lastSub = lastConf
  BY <1>1, RepublishedDue
<1>3. pend = <<>> /\ OnTheWay' = OnTheWay  BY <1>2 DEF NodeFacts, OnTheWay, Ids
<1>4. NoHash \notin C /\ NoHash \notin OnTheWay  BY <1>2, OnTheWayMade DEF NoHash
<1>5. Shape(buffer, C, lastConf) /\ \A n \in DOMAIN buffer : n \in Nat
  <2>1. BufferOK(f, l1, buffer) /\ Shape(buffer, Due, lastConf)  BY <1>2 DEF SyncOK, BufferInv
  <2>2. lastConf \in Nat /\ lastConf <= lastConf  OBVIOUS
  <2> QED BY <1>2, <2>1, <2>2, ShapeWeaken, EntryTyped
<1>6. Shape(buffer', C, lastConf) /\ Covered(buffer', chain, <<>>, lastConf, OnTheWay)
  <2>1. CASE FinishResync
    <3>1. PICK u : u = UpTo(buffer, lastSub)  OBVIOUS
    <3>2. PICK r : r = Republish(u)  OBVIOUS
    <3>3. buffer' = r \/ buffer' = PutMem(r, chain)  BY <2>1, <3>1, <3>2 DEF FinishResync
    <3>4. Shape(u, C, lastConf)  BY <1>5, <3>1, ShapeCut
    <3>5. \A n \in DOMAIN u : n \in Nat /\ n <= lastConf  BY <1>2, <1>5, <3>1 DEF UpTo
    <3>6. Shape(r, C, lastConf)  BY <1>2, <3>2, <3>4, <3>5, ShapeRepublish
    <3>7. Covered(r, chain, <<>>, lastConf, OnTheWay)  BY <1>4, <3>2, <3>5, CoveredRepublish
    <3>8. Shape(PutMem(r, chain), C, lastConf)  BY <1>4, <3>6, ShapePutMem
    <3>9. Covered(PutMem(r, chain), chain, <<>>, lastConf, OnTheWay)  BY <1>4, <3>7, CoveredPutMem
    <3> QED BY <3>3, <3>6, <3>7, <3>8, <3>9
  <2>2. CASE FinishBoot
    <3>1. buffer = <<>>  BY <2>2 DEF FinishBoot, NodeFacts
    <3>2. PICK u : (u = <<>> \/ u = PutMem(<<>>, chain)) /\ buffer' = Republish(u)
      BY <2>2, <3>1 DEF FinishBoot
    <3>3. Shape(u, C, lastConf)
      <4>1. Shape(<<>>, C, lastConf)  BY ShapeEmpty
      <4>2. Shape(PutMem(<<>>, chain), C, lastConf)  BY <1>4, <4>1, ShapePutMem
      <4> QED BY <3>2, <4>1, <4>2
    <3>4. \A n \in DOMAIN u : n = Len(chain) + 1 /\ u[n].hash = NoHash
      <4>1. DOMAIN <<>> = {}  OBVIOUS
      <4>2. PICK e, z, n : e = Entry(NoHash, <<NextMemBlock(chain)>>) /\ n = Len(chain) + 1
                           /\ z = Put(<<>>, n, e)
        OBVIOUS
      <4>3. DOMAIN z = {n} /\ z[n] = e /\ e.hash = NoHash  BY <4>1, <4>2 DEF Put, Entry
      <4>4. z = PutMem(<<>>, chain)  BY <4>2 DEF PutMem
      <4> QED BY <3>2, <4>1, <4>2, <4>3, <4>4
    <3>5. \A n \in DOMAIN u : n \in Nat  BY <3>4
    <3>6. Shape(Republish(u), C, lastConf)  BY <1>2, <3>3, <3>5, ShapeRepublish
    <3>7. Covered(Republish(u), chain, <<>>, lastConf, OnTheWay)  BY <1>4, <3>4, <3>5, CoveredRepublish
    <3> QED BY <3>2, <3>6, <3>7
  <2> QED BY <2>1, <2>2
<1> QED BY <1>1, <1>2, <1>3, <1>6 DEF BufferInv


LEMMA Layer1Buffer ==
    ASSUME NEW f, SyncOK(f), NodeFacts, BufferInv, Layer1
    PROVE  BufferInv'
<1> l1 \in Seq(BlockRec)  BY DEF SyncOK, ChainOf
<1>1. /\ UNCHANGED <<chain, lastSub, lastConf, mode, pend, buffer, sent>>
      /\ \E b \in BlockRec : l1' = Append(l1, b) /\ (b.id \in sent \/ b.id = nextId)
  BY Layer1Facts DEF serverVars
<1>2. PICK b \in BlockRec : l1' = Append(l1, b) /\ (b.id \in sent \/ b.id = nextId)  BY <1>1
<1>3. Due' = Due  BY <1>1 DEF Due
<1>4. \A x \in OnTheWay' : x \in OnTheWay \/ x = nextId
  <2>1. \A x \in Ids(l1') : x \in Ids(l1) \/ x = b.id  BY <1>2, IdsAppend
  <2> QED BY <1>1, <1>2, <2>1 DEF OnTheWay
<1>5. ASSUME NEW n \in DOMAIN buffer PROVE buffer[n].hash # nextId
  <2>1. nextId \in Nat  BY DEF SyncOK, Made
  <2>2. CASE buffer[n].hash = NoHash  BY <2>1, <2>2 DEF NoHash
  <2>3. CASE buffer[n].hash # NoHash
    <3>1. buffer[n].hash \in Nat /\ buffer[n].hash < nextId  BY <2>3, EntryBlock DEF BufferInv
    <3> QED BY <2>1, <3>1
  <2> QED BY <2>2, <2>3
<1>6. mode = "loop" => Covered(buffer, chain, pend, lastConf, OnTheWay')
  BY <1>4, <1>5 DEF BufferInv, Covered
<1>7. PICK M : M = Limit'  OBVIOUS
<1>8. Limit \in Nat /\ M \in Nat /\ Limit <= M  BY <1>7, LimitGrows
<1>9. Shape(buffer, Due, M)  BY <1>8, ShapeWeaken DEF SyncOK, BufferInv
<1> QED BY <1>1, <1>3, <1>6, <1>7, <1>9 DEF BufferInv

LEMMA QuietBuffer ==
    ASSUME NEW f, SyncOK(f), NodeFacts, BufferInv,
           ForkNoticed \/ Disturb \/ RevertBlocks \/ SyncServer \/ Restart \/ Client
    PROVE  BufferInv'
<1>1. CASE ForkNoticed \/ Disturb \/ RevertBlocks \/ SyncServer
  <2>1. l1' = l1 /\ mode' = "sync" /\ UNCHANGED serverVars
    BY <1>1 DEF ForkNoticed, Disturb, StartSync, RevertBlocks, SyncServer, Rewind, Adopt, Known,
                syncRest
  <2>2. PICK M : M = Limit'  OBVIOUS
  <2>3. Limit \in Nat /\ M \in Nat /\ Limit <= M  BY <1>1, <2>2, LimitGrows DEF Server, MainLoop
  <2>4. Due' = {} /\ buffer' = buffer  BY <2>1 DEF Due, serverVars
  <2>5. Shape(buffer, {}, M)  BY <2>3, ShapeWeaken DEF SyncOK, BufferInv
  <2> QED BY <2>1, <2>2, <2>4, <2>5 DEF BufferInv
<1>2. CASE Restart
  <2>1. mode' = "sync" /\ buffer' = <<>>  BY <1>2 DEF Restart, StartSync, ledgerVars, NodeFacts
  <2>2. PICK C, M : C = Due' /\ M = Limit'  OBVIOUS
  <2>3. Shape(<<>>, C, M)  BY ShapeEmpty
  <2> QED BY <2>1, <2>2, <2>3 DEF BufferInv
<1>3. CASE Client
  <2>1. UNCHANGED <<ledgerVars, serverVars>>  BY <1>3, ClientFacts
  <2> QED BY <2>1 DEF BufferInv, Due, Limit, OnTheWay, Ids, ledgerVars, serverVars
<1> QED BY <1>1, <1>2, <1>3

\* The buffer keeps its shape in every step.
LEMMA NextBuffer ==
    ASSUME NEW f, SyncOK(f), NodeFacts, BufferInv, Next
    PROVE  BufferInv' /\ NodeFacts'
<1>1. BufferInv'
  BY PublishLocalBlockBuffer, CommitLocalBlockBuffer, FailLocalBlockBuffer, SendSubmissionBuffer,
     PublishSubmittedBuffer, PublishConfirmedBuffer, PublishTransactionBuffer, FinishBuffer, Layer1Buffer, QuietBuffer
  DEF Next, Server, MainLoop
<1>2. NodeFacts'
  BY PublishFacts, SendFacts, SyncFacts, Layer1Facts, ClientFacts DEF Next, Server, MainLoop
<1> QED BY <1>1, <1>2


(***************************************************************************)
(* What was announced as confirmed.                                        *)
(***************************************************************************)
SeenMsg(m, L) == m.kind \in {"confirmed", "revert"} => m.num <= L

LEMMA SeenOne ==
    ASSUME NEW m, NEW L, SeenMsg(m, L)
    PROVE  SeenOK(<<m>>, L)
<1>1. PICK ms : ms = <<m>>  OBVIOUS
<1>2. Len(ms) = 1 /\ ms[1] = m /\ \A i \in 1..1 : i = 1  BY <1>1
<1> QED BY <1>1, <1>2 DEF SeenOK, SeenMsg

LEMMA SeenJoin ==
    ASSUME NEW x \in Seq(Message), NEW y \in Seq(Message), NEW L, SeenOK(x, L), SeenOK(y, L)
    PROVE  SeenOK(x \o y, L)
<1> Len(x) \in Nat /\ Len(y) \in Nat  BY LenProperties
<1>1. PICK z : z = x \o y  OBVIOUS
<1>2. Len(z) = Len(x) + Len(y)
      /\ \A i \in 1..Len(z) : z[i] = IF i <= Len(x) THEN x[i] ELSE y[i - Len(x)]
  BY <1>1, ConcatProperties
<1>3. ASSUME NEW i \in 1..Len(z), z[i].kind \in {"confirmed", "revert"} PROVE z[i].num <= L
  <2>1. CASE i <= Len(x)
    <3>1. i \in 1..Len(x) /\ z[i] = x[i]  BY <1>2, <2>1
    <3> QED BY <1>3, <3>1 DEF SeenOK
  <2>2. CASE ~(i <= Len(x))
    <3>1. PICK j : j = i - Len(x)  OBVIOUS
    <3>2. j \in 1..Len(y) /\ z[i] = y[j]  BY <1>2, <2>2, <3>1
    <3> QED BY <1>3, <3>2 DEF SeenOK
  <2> QED BY <2>1, <2>2
<1>4. SeenOK(z, L)  BY <1>3 DEF SeenOK
<1> QED BY <1>1, <1>4

LEMMA SeenBroadcast ==
    ASSUME chan \in Seq(Message), NEW ms \in Seq(Message), Broadcast(ms),
           NEW L, SeenOK(chan, L), SeenOK(ms, L)
    PROVE  SeenOK(chan', L)
<1>1. chan' = chan \/ chan' = chan \o ms  BY DEF Broadcast
<1>2. SeenOK(chan \o ms, L)  BY SeenJoin
<1> QED BY <1>1, <1>2

\* What the full node sends when it resumes.
LEMMA ResumeMsgs ==
    ASSUME NEW f, SyncOK(f), FinishResync \/ FinishBoot, NEW ms \in {<<>>, <<NextMemBlock(chain)>>}
    PROVE  /\ MsgsOK(f, l1, ms) /\ MsgsOK(f, l1, LocalBlocks)
           /\ MsgOK(f, l1, About("revert", lastSub)) /\ About("revert", lastSub).num = Limit'
           /\ SeenOK(ms, Limit') /\ SeenOK(LocalBlocks, Limit')
<1> /\ ChainOf(f, chain) /\ ChainOf(f, l1) /\ Len(l1) \in Nat /\ Len(chain) \in Nat
    /\ lastConf \in 0..Len(chain)
  BY LenProperties DEF SyncOK, NodeOK, ChainOf
<1>1. MsgOK(f, l1, NextMemBlock(chain)) /\ NextMemBlock(chain).kind = "mem"
  BY MemOK DEF NextMemBlock, Msg
<1>2. MsgsOK(f, l1, ms)  BY <1>1, NoMsgs, OneMsg
<1>3. MsgsOK(f, l1, LocalBlocks)  BY LocalBlocksOK
<1>4. Limit' = lastConf /\ lastSub = lastConf /\ lastConf = Len(l1)  BY RepublishedDue
<1>5. IsPrefix(l1, chain)  BY DEF FinishResync, FinishBoot, Synced
<1>6. Len(l1) <= Len(chain) /\ \A i \in 1..Len(l1) : l1[i] = chain[i]
  <2>1. Len(l1) <= Len(chain) /\ SubSeq(l1, 1, Len(l1)) = SubSeq(chain, 1, Len(l1))
    BY <1>5 DEF IsPrefix
  <2> QED BY <2>1, ChainPrefix
<1>7. MsgOK(f, l1, About("revert", lastConf))
  <2>1. lastConf <= Len(l1) /\ (lastConf # 0 => l1[lastConf] = chain[lastConf])  BY <1>4, <1>6
  <2> QED BY <2>1, AboutOK
<1>8. About("revert", lastSub).num = lastSub  BY DEF About, Msg
<1>9. SeenOK(ms, Limit')
  <2>1. SeenMsg(NextMemBlock(chain), Limit')  BY <1>1 DEF SeenMsg
  <2>2. SeenOK(<<NextMemBlock(chain)>>, Limit')  BY <2>1, SeenOne
  <2>3. SeenOK(<<>>, Limit')  BY DEF SeenOK
  <2> QED BY <2>2, <2>3
<1>10. SeenOK(LocalBlocks, Limit')
  <2>1. PICK B : B = LocalBlocks  OBVIOUS
  <2>2. PICK K \in Nat : K = Len(chain) - lastConf
    <3>1. Len(chain) - lastConf \in Nat  OBVIOUS
    <3> QED BY <3>1
  <2>3. B = [i \in 1..K |-> LocalBlock(lastConf + i, chain[lastConf + i])]
    BY <2>1, <2>2 DEF LocalBlocks
  <2>4. B \in Seq(Message)  BY <1>3, <2>1 DEF MsgsOK
  <2>5. Len(B) \in Nat /\ DOMAIN B = 1..Len(B) /\ DOMAIN B = 1..K  BY <2>3, <2>4, LenProperties
  <2>6. \A i \in 1..K : B[i].kind = "local"  BY <2>3 DEF LocalBlock, Msg
  <2>7. SeenOK(B, Limit')  BY <2>5, <2>6 DEF SeenOK
  <2> QED BY <2>1, <2>7
<1> QED BY <1>2, <1>3, <1>4, <1>7, <1>8, <1>9, <1>10


\* The message of each step that publishes one.
LEMMA Published ==
    ASSUME NEW f, SyncOK(f)
    PROVE  /\ PublishLocalBlock =>
                 \E m \in Message : /\ Broadcast(<<m>>) /\ m.kind = "local" /\ m.num = Len(chain) + 1
                                    /\ m.blk = [id |-> nextId, par |-> TipOf(chain)]
           /\ CommitLocalBlock =>
                 \E m \in Message : /\ Broadcast(<<m>>) /\ m.kind = "mem" /\ m.num = Len(chain') + 1
                                    /\ m.blk.par = TipOf(chain')
           /\ PublishTransaction => \E m \in Message : Broadcast(<<m>>) /\ m.kind = "push"
           /\ PublishSubmitted =>
                 \E m \in Message : /\ Broadcast(<<m>>) /\ m.kind = "submitted" /\ m.num = lastSub'
                                    /\ m.blk.id = chain[lastSub'].id
           /\ PublishConfirmed =>
                 \E m \in Message : /\ Broadcast(<<m>>) /\ m.kind = "confirmed" /\ m.num = lastConf'
                                    /\ m.blk.id = chain[lastConf'].id
<1> /\ ChainOf(f, chain) /\ Len(chain) \in Nat /\ nextId \in Nat
    /\ lastSub \in 0..Len(chain) /\ lastConf \in 0..Len(chain)
  BY LenProperties DEF SyncOK, NodeOK, ChainOf, Made
<1> TipOf(chain) \in Nat  BY IdIsNat DEF TipOf
<1>1. ASSUME PublishLocalBlock
      PROVE  \E m \in Message : /\ Broadcast(<<m>>) /\ m.kind = "local" /\ m.num = Len(chain) + 1
                                /\ m.blk = [id |-> nextId, par |-> TipOf(chain)]
  <2>1. PICK b, m : b = [id |-> nextId, par |-> TipOf(chain)] /\ m = LocalBlock(Len(chain) + 1, b)
    OBVIOUS
  <2>2. Broadcast(<<m>>)  BY <1>1, <2>1 DEF PublishLocalBlock
  <2>3. b \in BlockRec  BY <2>1 DEF BlockRec
  <2>4. m \in Message /\ m.kind = "local" /\ m.num = Len(chain) + 1 /\ m.blk = b
    BY <2>1, <2>3 DEF LocalBlock, Msg, Message
  <2> QED BY <2>1, <2>2, <2>4
<1>2. ASSUME CommitLocalBlock
      PROVE  \E m \in Message : /\ Broadcast(<<m>>) /\ m.kind = "mem" /\ m.num = Len(chain') + 1
                                /\ m.blk.par = TipOf(chain')
  <2>1. PICK s, m : s = chain' /\ m = NextMemBlock(s)  OBVIOUS
  <2>2. Broadcast(<<m>>)  BY <1>2, <2>1 DEF CommitLocalBlock
  <2>3. MsgOK(f, l1, m)
    <3>1. ChainOf(f, chain')  BY <1>2, CommitLocalBlockOK DEF SyncOK, NodeOK
    <3> QED BY <2>1, <3>1, MemOK
  <2>4. m \in Message /\ m.kind = "mem" /\ m.num = Len(s) + 1 /\ m.blk.par = TipOf(s)
    BY <2>1, <2>3 DEF NextMemBlock, Msg, MsgOK
  <2> QED BY <2>1, <2>2, <2>4
<1>3. ASSUME PublishTransaction
      PROVE  \E m \in Message : Broadcast(<<m>>) /\ m.kind = "push"
  <2>1. PICK m : m = Msg("push", 0, [id |-> 0, par |-> 0])  OBVIOUS
  <2>2. Broadcast(<<m>>)  BY <1>3, <2>1 DEF PublishTransaction
  <2>3. m \in Message /\ m.kind = "push"  BY <2>1 DEF Msg, Message, BlockRec
  <2> QED BY <2>2, <2>3
<1>4. ASSUME NEW n \in 1..Len(chain), NEW kind \in {"submitted", "confirmed"}
      PROVE  LET m == About(kind, n)
             IN  m \in Message /\ m.kind = kind /\ m.num = n /\ m.blk.id = chain[n].id
  <2>1. n # 0 /\ chain[n].id \in Nat
    <3>1. chain[n] \in BlockRec  BY ChainBlock
    <3> QED BY <3>1 DEF BlockRec
  <2> QED BY <2>1 DEF About, Msg, IdAt, Message, BlockRec
<1>5. ASSUME PublishSubmitted
      PROVE  \E m \in Message : /\ Broadcast(<<m>>) /\ m.kind = "submitted" /\ m.num = lastSub'
                                /\ m.blk.id = chain[lastSub'].id
  <2>1. PICK n \in 1..Len(chain) : n = lastSub' /\ UNCHANGED chain
    <3>1. lastSub' = lastSub + 1 /\ lastSub < Len(chain) /\ UNCHANGED chain
      BY <1>5 DEF PublishSubmitted, Submit
    <3> QED BY <3>1
  <2>2. PICK m : m = About("submitted", n)  OBVIOUS
  <2>3. About("submitted", lastSub') = m  BY <2>1, <2>2
  <2>4. Broadcast(<<m>>)  BY <1>5, <2>3 DEF PublishSubmitted
  <2>5. m \in Message /\ m.kind = "submitted" /\ m.num = n /\ m.blk.id = chain[n].id
    BY <1>4, <2>2
  <2> QED BY <2>1, <2>4, <2>5
<1>6. ASSUME PublishConfirmed
      PROVE  \E m \in Message : /\ Broadcast(<<m>>) /\ m.kind = "confirmed" /\ m.num = lastConf'
                                /\ m.blk.id = chain[lastConf'].id
  <2>1. PICK n \in 1..Len(chain) : n = lastConf' /\ UNCHANGED chain
    <3>1. lastConf' = lastConf + 1 /\ lastConf < lastSub /\ UNCHANGED chain
      BY <1>6 DEF PublishConfirmed, Confirm
    <3> QED BY <3>1
  <2>2. PICK m : m = About("confirmed", n)  OBVIOUS
  <2>3. About("confirmed", lastConf') = m  BY <2>1, <2>2
  <2>4. Broadcast(<<m>>)  BY <1>6, <2>1, <2>3 DEF PublishConfirmed
  <2>5. m \in Message /\ m.kind = "confirmed" /\ m.num = n /\ m.blk.id = chain[n].id
    BY <1>4, <2>2
  <2> QED BY <2>1, <2>4, <2>5
<1> QED BY <1>1, <1>2, <1>3, <1>5, <1>6

LEMMA SeenServer ==
    ASSUME NEW f, SyncOK(f), NodeFacts, Server, SeenOK(chan, Limit)
    PROVE  SeenOK(chan', Limit')
<1> /\ Len(l1) \in Nat /\ MsgsOK(f, l1, chan) /\ chan \in Seq(Message) /\ Len(chan) \in Nat
  BY LenProperties DEF SyncOK, ChainOf, MsgsOK
<1>1. PICK L : L = Limit'  OBVIOUS
<1>2. Limit \in Nat /\ L \in Nat /\ Limit <= L  BY <1>1, LimitGrows
<1>3. SeenOK(chan, L)  BY <1>2, SeenGrows
<1>4. SUFFICES SeenOK(chan', L)  BY <1>1
<1>5. ASSUME NEW m \in Message, SeenMsg(m, L), Broadcast(<<m>>) PROVE SeenOK(chan', L)
  <2>1. <<m>> \in Seq(Message) /\ SeenOK(<<m>>, L)  BY <1>5, SeenOne
  <2> QED BY <1>3, <1>5, <2>1, SeenBroadcast
<1>6. CASE PublishLocalBlock \/ PublishTransaction \/ CommitLocalBlock \/ PublishSubmitted
  <2>1. PICK m \in Message : Broadcast(<<m>>) /\ m.kind \in {"local", "push", "mem", "submitted"}
    BY <1>6, Published
  <2>2. SeenMsg(m, L)  BY <2>1 DEF SeenMsg
  <2> QED BY <1>5, <2>1, <2>2
<1>7. CASE PublishConfirmed
  <2>1. PICK m \in Message : Broadcast(<<m>>) /\ m.num = lastConf'  BY <1>7, Published
  <2>2. L = lastConf'  BY <1>1, <1>7 DEF PublishConfirmed, Confirm, Limit
  <2>3. SeenMsg(m, L)  BY <1>2, <2>1, <2>2 DEF SeenMsg
  <2> QED BY <1>5, <2>1, <2>3
<1>8. CASE FinishResync
  <2>1. PICK m : m = About("revert", lastSub)  OBVIOUS
  <2>2. PICK ms \in {<<>>, <<NextMemBlock(chain)>>} : Broadcast(<<m>> \o LocalBlocks \o ms)
    BY <1>8, <2>1 DEF FinishResync
  <2>3. /\ MsgsOK(f, l1, ms) /\ MsgsOK(f, l1, LocalBlocks) /\ MsgOK(f, l1, m) /\ m.num = L
        /\ SeenOK(ms, L) /\ SeenOK(LocalBlocks, L)
    BY <1>1, <1>8, <2>1, ResumeMsgs
  <2>4. SeenOK(<<m>>, L)
    <3>1. SeenMsg(m, L)  BY <1>2, <2>3 DEF SeenMsg
    <3> QED BY <3>1, SeenOne
  <2>5. PICK x, y, z : x = <<m>> /\ y = LocalBlocks /\ z = x \o y  OBVIOUS
  <2>6. x \in Seq(Message) /\ y \in Seq(Message) /\ ms \in Seq(Message)
    BY <2>3, <2>5 DEF MsgOK, MsgsOK
  <2>7. z \in Seq(Message) /\ SeenOK(z, L)  BY <2>3, <2>4, <2>5, <2>6, SeenJoin, ConcatProperties
  <2>8. z \o ms \in Seq(Message) /\ SeenOK(z \o ms, L)
    BY <2>3, <2>6, <2>7, SeenJoin, ConcatProperties
  <2>9. Broadcast(z \o ms)  BY <2>2, <2>5
  <2> QED BY <1>3, <2>8, <2>9, SeenBroadcast
<1>9. CASE FinishBoot
  <2>1. PICK ms \in {<<>>, <<NextMemBlock(chain)>>} : Broadcast(ms \o LocalBlocks)
    BY <1>9 DEF FinishBoot
  <2>2. /\ MsgsOK(f, l1, ms) /\ MsgsOK(f, l1, LocalBlocks)
        /\ SeenOK(ms, L) /\ SeenOK(LocalBlocks, L)
    BY <1>1, <1>9, ResumeMsgs
  <2>3. PICK y : y = LocalBlocks  OBVIOUS
  <2>4. ms \in Seq(Message) /\ y \in Seq(Message)  BY <2>2, <2>3 DEF MsgsOK
  <2>5. ms \o y \in Seq(Message) /\ SeenOK(ms \o y, L)
    BY <2>2, <2>3, <2>4, SeenJoin, ConcatProperties
  <2> QED BY <1>3, <2>1, <2>3, <2>5, SeenBroadcast
<1>10. CASE FailLocalBlock \/ SendSubmission \/ ForkNoticed \/ Disturb \/ RevertBlocks \/ SyncServer
  <2>1. chan' = chan
    BY <1>10 DEF FailLocalBlock, SendSubmission, ForkNoticed, Disturb, RevertBlocks, SyncServer,
                 syncRest, clientVars
  <2> QED BY <1>3, <2>1
<1>11. CASE Restart
  <2>1. PICK k \in 0..Len(chan) : chan' = SubSeq(chan, 1, k)  BY <1>11 DEF Restart
  <2>2. PICK t : t = SubSeq(chan, 1, k)  OBVIOUS
  <2>3. Len(t) = k /\ \A i \in 1..k : t[i] = chan[i]
    <3>1. \A i \in 1..k : chan[i] \in Message  BY ElementOfSeq
    <3> QED BY <2>2, <3>1, SubSeqProperties
  <2>4. SeenOK(t, L)  BY <1>3, <2>3 DEF SeenOK
  <2> QED BY <2>1, <2>2, <2>4
<1> QED BY <1>6, <1>7, <1>8, <1>9, <1>10, <1>11 DEF Server, MainLoop


\* The first message of a session.
LEMMA FollowHead ==
    ASSUME NEW v, NEW ms \in Seq(Message), ms # <<>>, NEW live, NEW E, Follow(v, ms, live, E)
    PROVE  /\ Clear(v, Head(ms)) /\ (Fits(v, Head(ms)) => Step(v, Head(ms)))
<1>1. Len(ms) \in Nat /\ Len(ms) # 0 /\ Head(ms) = ms[1]
  BY LenProperties, EmptySeq, HeadTailProperties
<1>2. PICK d, h : Steady(v, ms, Len(ms), d, h)  BY DEF Follow
<1>3. d \in Nat /\ h[0] = v  BY <1>2 DEF Steady, Replay
<1>4. CASE d = 0
  <2>1. 0 < Len(ms) /\ 0 + 1 = 1  BY <1>1
  <2> QED BY <1>1, <1>2, <1>3, <1>4, <2>1 DEF Steady, Replay
<1>5. CASE d # 0
  <2>1. 1 \in 1..d /\ 1 - 1 = 0  BY <1>3, <1>5
  <2> QED BY <1>1, <1>2, <1>3, <2>1 DEF Steady, Replay, Step
<1> QED BY <1>4, <1>5

LEMMA SeenClient ==
    ASSUME NEW f, SyncOK(f), NodeFacts, BufferInv, Client, SeenOK(chan, Limit)
    PROVE  SeenOK(chan', Limit')
<1> /\ MsgsOK(f, l1, chan) /\ chan \in Seq(Message) /\ Len(chan) \in Nat
  BY LenProperties DEF SyncOK, MsgsOK
<1>1. Limit' = Limit  BY ClientFacts DEF Limit, ledgerVars
<1>2. PICK L : L = Limit  OBVIOUS
<1>3. SUFFICES SeenOK(chan', L)  BY <1>1, <1>2
<1>4. SeenOK(chan, L)  BY <1>2
<1>5. CASE chan' = chan  BY <1>4, <1>5
<1>6. CASE chan' = <<>>
  <2>1. SeenOK(<<>>, L)  BY DEF SeenOK
  <2> QED BY <1>6, <2>1
<1>7. CASE chan' = Tail(chan) /\ chan # <<>>
  <2>1. PICK t : t = Tail(chan)  OBVIOUS
  <2>2. Len(t) = Len(chan) - 1 /\ \A i \in 1..Len(t) : t[i] = chan[i + 1]
    BY <1>7, <2>1, HeadTailProperties
  <2>3. \A i \in 1..Len(t) : i + 1 \in 1..Len(chan)  BY <2>2
  <2>4. SeenOK(t, L)  BY <1>4, <2>2, <2>3 DEF SeenOK
  <2> QED BY <1>7, <2>1, <2>4
<1>8. CASE \E k \in 0..Len(chan) : chan' = SubSeq(chan, 1, k)
  <2>1. PICK k \in 0..Len(chan) : chan' = SubSeq(chan, 1, k)  BY <1>8
  <2>2. PICK t : t = SubSeq(chan, 1, k)  OBVIOUS
  <2>3. Len(t) = k /\ \A i \in 1..k : t[i] = chan[i]
    <3>1. \A i \in 1..k : chan[i] \in Message  BY ElementOfSeq
    <3> QED BY <2>2, <3>1, SubSeqProperties
  <2>4. SeenOK(t, L)  BY <1>4, <2>3 DEF SeenOK
  <2> QED BY <2>1, <2>2, <2>4
<1>9. CASE SkipMemPool
  <2>1. PICK keep, n, at : Skips(keep, n, at, chan')  BY <1>9, SkipFacts
  <2>2. /\ keep \subseteq 1..Len(chan) /\ n \in 1..Len(chan) /\ at \in [1..n -> keep]
        /\ chan' = [j \in 1..n |-> chan[at[j]]]
    BY <2>1 DEF Skips
  <2>3. PICK t : t = [j \in 1..n |-> chan[at[j]]]  OBVIOUS
  <2>4. \A j \in 1..n : at[j] \in 1..Len(chan) /\ t[j] = chan[at[j]]  BY <2>2, <2>3
  <2>5. \A j \in 1..n : t[j] \in Message  BY <2>4, ElementOfSeq
  <2>6. t \in Seq(Message) /\ Len(t) = n  BY <2>2, <2>3, <2>5
  <2>7. SeenOK(t, L)  BY <1>4, <2>4, <2>6 DEF SeenOK
  <2> QED BY <2>2, <2>3, <2>7
<1>10. CASE Subscribe
  <2>1. PICK k, at : Resent(k, at, chan')  BY <1>10, SubscribeFacts
  <2>2. PICK S : S = MessagesAfter(cConf)  OBVIOUS
  <2>3. chan' = [j \in 1..k |-> buffer[at[j][1]].msgs[at[j][2]]]  BY <2>1 DEF Resent
  <2>4. at \in [1..k -> S] /\ k \in Nat  BY <2>1, <2>2 DEF Resent, Lists
  <2>5. PICK t : t = [j \in 1..k |-> buffer[at[j][1]].msgs[at[j][2]]]  OBVIOUS
  <2>6. ASSUME NEW j \in 1..k
        PROVE  \E n \in DOMAIN buffer : \E i \in DOMAIN buffer[n].msgs : t[j] = buffer[n].msgs[i]
    <3>1. PICK n \in DOMAIN buffer : \E i \in DOMAIN buffer[n].msgs : at[j] = <<n, i>>
      <4>1. at[j] \in MessagesAfter(cConf)  BY <2>2, <2>4
      <4> QED BY <4>1 DEF MessagesAfter
    <3>2. PICK i \in DOMAIN buffer[n].msgs : at[j] = <<n, i>>  BY <3>1
    <3>3. at[j][1] = n /\ at[j][2] = i  BY <3>2
    <3> QED BY <2>5, <3>2, <3>3
  <2>7. ASSUME NEW j \in 1..k PROVE t[j] \in Message /\ SeenMsg(t[j], L)
    <3>0. PICK n \in DOMAIN buffer : \E i \in DOMAIN buffer[n].msgs : t[j] = buffer[n].msgs[i]
      BY <2>6
    <3>1. PICK i \in DOMAIN buffer[n].msgs : t[j] = buffer[n].msgs[i]  BY <3>0
    <3>2. MsgsOK(f, l1, buffer[n].msgs) /\ buffer[n].msgs \in Seq(Message)  BY EntryTyped DEF SyncOK
    <3>3. i \in 1..Len(buffer[n].msgs)  BY <3>2, LenProperties
    <3>4. buffer[n].msgs[i] \in Message  BY <3>2, <3>3, MsgTyped
    <3>5. SeenOK(buffer[n].msgs, L)  BY <1>2 DEF BufferInv, Shape, EntryShape
    <3> QED BY <3>1, <3>3, <3>4, <3>5 DEF SeenOK, SeenMsg
  <2>9. t \in Seq(Message) /\ Len(t) = k  BY <2>4, <2>5, <2>7
  <2>10. SeenOK(t, L)  BY <2>7, <2>9 DEF SeenOK, SeenMsg
  <2> QED BY <2>3, <2>5, <2>10
<1> QED BY <1>5, <1>6, <1>7, <1>8, <1>9, <1>10
    DEF Client, Connect, Apply, ClientSync, AskAgain, RevertForLocal, HandleLocalBlock, HandleSubmitted,
        HandleConfirmed, HandleRevert, HandleMemPool, StreamEnds, ConnectionLost, Consume,
        Disconnect, Streaming


\* The blocks a read-only node calls confirmed after sync_l1 have a submit tx hash, except
\* those that had none before.
LEMMA ClientSyncHoles ==
    ASSUME NEW f, SyncOK(f), NodeFacts, ClientSync, Holes
    PROVE  Holes'
<1> /\ Len(l1) \in Nat /\ cConf \in Nat /\ cConf <= Len(l1) /\ Len(cchain) \in Nat
    /\ cTx \subseteq 1..Len(cchain)
  BY LenProperties DEF SyncOK, ClientOK, ChainOf
<1>1. PICK k, u : k = LastOnL1 /\ u = KnownUpTo  OBVIOUS
<1>2. /\ k \in 0..cConf /\ KnownOnL1(k) /\ u \in k..Len(l1) /\ \A n \in k + 1..u : KnownOnL1(n)
  BY <1>1, KnownFacts
<1>3. \A n \in k + 1..u : n \in cTx
  <2>1. \A n \in k + 1..u : n # 0  BY <1>2
  <2> QED BY <1>2, <2>1 DEF KnownOnL1
<1>4. Limit' = Limit  BY ClientFacts DEF Limit, ledgerVars, Client, Connect, Apply
<1>5. cConf' = Len(l1)  BY DEF ClientSync
<1>6. ASSUME NEW i \in 1..u PROVE i \in cTx \/ i <= Limit
  <2>1. CASE i <= k
    <3>1. i \in 1..cConf  BY <1>2, <2>1
    <3> QED BY <3>1 DEF Holes
  <2>2. CASE ~(i <= k)
    <3>1. i \in k + 1..u  BY <1>2, <2>2
    <3> QED BY <1>3, <3>1
  <2> QED BY <2>1, <2>2
<1>7. CASE u = Len(l1)
  <2>1. cTx' = cTx  BY <1>1, <1>7 DEF ClientSync
  <2> QED BY <1>4, <1>5, <1>6, <1>7, <2>1 DEF Holes
<1>8. CASE u # Len(l1)
  <2>1. cTx' = {n \in cTx : n <= u} \cup (u + 1..Len(l1))  BY <1>1, <1>8 DEF ClientSync
  <2>2. ASSUME NEW i \in 1..Len(l1) PROVE i \in cTx' \/ i <= Limit
    <3>1. CASE i <= u
      <4>1. i \in 1..u  BY <1>2, <3>1
      <4> QED BY <1>6, <2>1, <3>1, <4>1
    <3>2. CASE ~(i <= u)
      <4>1. i \in u + 1..Len(l1)  BY <1>2, <3>2
      <4> QED BY <2>1, <4>1
    <3> QED BY <3>1, <3>2
  <2> QED BY <1>4, <1>5, <2>1, <2>2 DEF Holes
<1> QED BY <1>7, <1>8

LEMMA HolesNext ==
    ASSUME NEW f, SyncOK(f), NodeFacts, SeenOK(chan, Limit), Holes, Next
    PROVE  Holes'
<1> /\ cConf \in Nat /\ Len(cchain) \in Nat /\ cTx \subseteq 1..Len(cchain)
    /\ chan \in Seq(Message) /\ MsgsOK(f, l1, chan)
  BY LenProperties DEF SyncOK, ClientOK, ChainOf, MsgsOK
<1>1. PICK L : L = Limit'  OBVIOUS
<1>2. Limit \in Nat /\ L \in Nat /\ Limit <= L  BY <1>1, LimitGrows DEF Next
<1>3. \A i \in 1..cConf : i \in cTx \/ i <= L  BY <1>2 DEF Holes
<1>4. CASE cConf' = cConf /\ \A i \in cTx : i \in cTx'
  BY <1>1, <1>3, <1>4 DEF Holes
<1>5. CASE ClientSync  BY <1>5, ClientSyncHoles
<1>6. CASE RevertForLocal
  <2>1. PICK k : k = Head(chan).num - 1  OBVIOUS
  <2>2. k \in Int
    <3>1. Head(chan).num \in Nat  BY <1>6, Received DEF RevertForLocal
    <3> QED BY <2>1, <3>1
  <2>3. cConf' = Below(cConf, k) /\ cTx' = {n \in cTx : n <= k}  BY <1>6, <2>1 DEF RevertForLocal
  <2>4. cConf' \in Int /\ cConf' <= cConf /\ cConf' <= k  BY <2>2, <2>3 DEF Below
  <2>5. \A i \in 1..cConf' : i \in 1..cConf /\ i <= k  BY <2>2, <2>4
  <2> QED BY <1>1, <1>3, <2>3, <2>5 DEF Holes
<1>7. CASE HandleConfirmed \/ HandleRevert
  <2>1. cTx' = cTx /\ (cConf' = cConf \/ cConf' = Head(chan).num)
    BY <1>7 DEF HandleConfirmed, HandleRevert
  <2>2. PICK m : m = Head(chan)  OBVIOUS
  <2>3. m.num \in Nat /\ m.kind \in {"confirmed", "revert"} /\ chan # <<>>
    BY <1>7, <2>2, Received DEF HandleConfirmed, HandleRevert, Streaming
  <2>4. m = chan[1] /\ 1 \in 1..Len(chan)
    BY <2>2, <2>3, LenProperties, EmptySeq, HeadTailProperties
  <2>5. m.num <= L  BY <1>2, <2>3, <2>4 DEF SeenOK
  <2>6. CASE cConf' = m.num
    <3>1. \A i \in 1..m.num : i <= L  BY <1>2, <2>3, <2>5
    <3> QED BY <1>1, <2>6, <3>1 DEF Holes
  <2>7. CASE cConf' = cConf  BY <1>1, <1>3, <2>1, <2>7 DEF Holes
  <2> QED BY <2>1, <2>2, <2>6, <2>7
<1>8. CASE HandleSubmitted  BY <1>4, <1>8 DEF HandleSubmitted
<1>9. CASE Server \/ Layer1
  <2>1. UNCHANGED <<cConf, cTx>>
    BY <1>9, Layer1Facts
    DEF Server, MainLoop, PublishLocalBlock, CommitLocalBlock, FailLocalBlock, SendSubmission,
        PublishSubmitted, PublishConfirmed, PublishTransaction, ForkNoticed, Disturb, Restart, RevertBlocks, SyncServer, FinishResync,
        FinishBoot, clientStore, clientVars, syncRest
  <2> QED BY <1>4, <2>1
<1>10. CASE \/ Subscribe \/ AskAgain \/ HandleLocalBlock \/ HandleMemPool \/ SkipMemPool
            \/ StreamEnds \/ ConnectionLost
  <2>1. UNCHANGED <<cConf, cTx>>
    BY <1>10 DEF Subscribe, AskAgain, HandleLocalBlock, HandleMemPool, SkipMemPool, StreamEnds,
                 ConnectionLost
  <2> QED BY <1>4, <2>1
<1> QED BY <1>5, <1>6, <1>7, <1>8, <1>9, <1>10 DEF Next, Client, Connect, Apply

(***************************************************************************)
(* The session through the steps of the full node.                         *)
(***************************************************************************)
LEMMA NowOK ==
    ASSUME NEW f, SyncOK(f)
    PROVE  /\ ViewOK(f, l1, Now) /\ Now.c = cchain /\ Now.t = cTx /\ Now.k = cConf
           /\ ChainOf(f, l1) /\ MsgsOK(f, l1, chan) /\ Len(l1) \in Nat
<1>1. /\ ClientOK(f, l1, cchain, cConf, cTx) /\ cchain \in Seq(BlockRec) /\ cTx \subseteq Nat
      /\ cConf \in Nat /\ ChainOf(f, l1) /\ MsgsOK(f, l1, chan) /\ Len(l1) \in Nat
  <2>1. /\ ClientOK(f, l1, cchain, cConf, cTx) /\ ChainOf(f, l1) /\ MsgsOK(f, l1, chan)
    BY DEF SyncOK
  <2>2. cchain \in Seq(BlockRec) /\ Len(cchain) \in Nat /\ Len(l1) \in Nat
    BY <2>1, LenProperties DEF ClientOK, ChainOf
  <2>3. cConf \in 0..Len(cchain) /\ cTx \subseteq 1..Len(cchain)  BY <2>1 DEF ClientOK
  <2> QED BY <2>1, <2>2, <2>3
<1>2. Now.c = cchain /\ Now.t = cTx /\ Now.k = cConf  BY DEF Now
<1>3. Now \in Views  BY <1>1 DEF Now, Views
<1> QED BY <1>1, <1>2, <1>3 DEF ViewOK

\* One message is sent.
Takes(w, m, D) == Clear(w, m) /\ (Fits(w, m) => Step(w, m) /\ After(w, m) \in D)

LEMMA FollowPublish ==
    ASSUME NEW f, ChainOf(f, l1), MsgsOK(f, l1, chan), ViewOK(f, l1, Now), session \in BOOLEAN,
           Followed, NEW m, MsgOK(f, l1, m), Broadcast(<<m>>), UNCHANGED clientStore,
           NEW D, D = Ending', \A w \in Ending : ViewOK(f, l1, w) => Takes(w, m, D)
    PROVE  Followed'
<1>1. UNCHANGED <<cstate, stale>> /\ Now' = Now  BY DEF clientStore, Now
<1>2. SUFFICES ASSUME cstate = "stream", ~stale PROVE Follow(Now, chan', session', D)
  BY <1>1 DEF Followed
<1>3. PICK v, E : v = Now /\ E = Ending  OBVIOUS
<1>4. Follow(v, chan, session, E)  BY <1>2, <1>3 DEF Followed
<1>5. PICK ys : ys = <<m>>  OBVIOUS
<1>6. ys \in Seq(Message)  BY <1>5 DEF MsgOK
<1>7. ASSUME NEW w \in E, ViewOK(f, l1, w) PROVE Follow(w, ys, TRUE, D)
  <2>1. Takes(w, m, D)  BY <1>3, <1>7
  <2>2. Clear(w, m) /\ (Fits(w, m) => Step(w, m) /\ After(w, m) \in D)  BY <2>1 DEF Takes
  <2> QED BY <1>5, <1>7, <2>2, FollowOne
<1>8. ViewOK(f, l1, v) /\ Broadcast(ys)  BY <1>3, <1>5
<1>9. Follow(v, chan', session', D)  BY <1>4, <1>6, <1>7, <1>8, BroadcastFollow
<1> QED BY <1>3, <1>9

\* A message that the mem pool alone needs changes nothing.
LEMMA AfterSame ==
    ASSUME NEW w \in Views, NEW m, m.kind \in {"mem", "push"} \/ (m.kind = "local" /\ Attached(w, m))
    PROVE  After(w, m) = w /\ Fits(w, m)
<1>1. ~New(w, m) /\ m.kind \notin {"submitted", "confirmed", "revert"}  BY DEF New
<1>2. After(w, m) = [c |-> w.c, t |-> w.t, k |-> w.k]  BY <1>1 DEF After
<1>3. Fits(w, m)  BY <1>1 DEF Fits
<1> QED BY <1>2, <1>3 DEF Views

\* The hashes of a buffer say what was published.
SameHashes(b, c) == \A n \in DOMAIN c : n \in DOMAIN b /\ c[n].hash = b[n].hash

LEMMA TracksKept ==
    ASSUME NEW v, NEW ch, NEW p, NEW b, NEW c, Tracks(v, ch, p, b), SameHashes(b, c)
    PROVE  Tracks(v, ch, p, c)
BY DEF Tracks, SameHashes

LEMMA ExtendHashes ==
    ASSUME NEW f, SyncOK(f), NEW n, NEW x
    PROVE  SameHashes(buffer, Extend(buffer, n, x))
<1>1. \A m \in DOMAIN buffer : buffer[m] \in BufferEntry  BY EntryTyped DEF SyncOK
<1> QED BY <1>1, ExtendFacts DEF SameHashes

\* What is the same when nothing is.
LEMMA EndingKept ==
    ASSUME NEW w \in Ending, UNCHANGED <<chain, lastSub, lastConf, mode, pend>>,
           SameHashes(buffer, buffer')
    PROVE  w \in Ending'
<1>1. Due' = Due  BY DEF Due
<1>2. w \in Views /\ Backed(w, Due) /\ (mode = "loop" => Tracks(w, chain, pend, buffer))
  BY DEF Ending
<1>3. mode = "loop" => Tracks(w, chain, pend, buffer')
  <2>1. PICK c : c = buffer'  OBVIOUS
  <2>2. SameHashes(buffer, c)  BY <2>1
  <2>3. mode = "loop" => Tracks(w, chain, pend, c)  BY <1>2, <2>2, TracksKept
  <2> QED BY <2>1, <2>3
<1> QED BY <1>1, <1>2, <1>3 DEF Ending

LEMMA PublishTransactionFollowed ==
    ASSUME NEW f, SyncOK(f), NodeFacts, Followed, PublishTransaction
    PROVE  Followed'
<1>1. PICK m \in Message : Broadcast(<<m>>) /\ m.kind = "push"  BY Published
<1>2. MsgOK(f, l1, m)  BY <1>1 DEF MsgOK
<1>3. UNCHANGED <<chain, lastSub, lastConf, mode, pend>> /\ UNCHANGED clientStore
  BY DEF PublishTransaction, ledgerVars
<1>4. SameHashes(buffer, buffer')
  <2>1. \E n, x : buffer' = Extend(buffer, n, x) \/ buffer' = buffer  BY DEF PublishTransaction
  <2>2. SameHashes(buffer, buffer)  BY DEF SameHashes
  <2> QED BY <2>1, <2>2, ExtendHashes
<1>5. PICK D : D = Ending'  OBVIOUS
<1>6. ASSUME NEW w \in Ending, ViewOK(f, l1, w) PROVE Takes(w, m, D)
  <2>1. w \in D  BY <1>3, <1>4, <1>5, EndingKept
  <2>2. w \in Views  BY <1>6 DEF ViewOK
  <2>3. After(w, m) = w  BY <1>1, <2>2, AfterSame
  <2> QED BY <1>1, <2>1, <2>3 DEF Takes, Clear, Step
<1> QED BY <1>1, <1>2, <1>3, <1>5, <1>6, NowOK, FollowPublish DEF NodeFacts

LEMMA CommitLocalBlockFollowed ==
    ASSUME NEW f, SyncOK(f), NodeFacts, Followed, CommitLocalBlock
    PROVE  Followed'
<1> Len(chain) \in Nat  BY LenProperties DEF SyncOK, NodeOK, ChainOf
<1>1. PICK s : s = chain'  OBVIOUS
<1>2. PICK m \in Message : Broadcast(<<m>>) /\ m.kind = "mem" /\ m.num = Len(s) + 1 /\ m.blk.par = TipOf(s)
  BY <1>1, Published
<1>3. MsgOK(f, l1, m)  BY <1>2 DEF MsgOK
<1>4. /\ UNCHANGED <<lastSub, lastConf, mode>> /\ UNCHANGED clientStore
      /\ pend # <<>> /\ pend' = <<>> /\ mode = "loop" /\ chain' = Append(chain, Head(pend))
  BY DEF CommitLocalBlock, Produce
<1>5. FullOf(chain, pend) = s /\ Len(s) = Len(chain) + 1 /\ FullOf(chain', pend') = s
  <2>1. pend[1] = Head(pend) /\ Len(FullOf(chain, pend)) = Len(chain) + 1  BY <1>4, FullFacts
  <2> QED BY <1>1, <1>4, <2>1 DEF FullOf
<1>6. Due' = Due
  <2>1. \A i \in 1..Len(chain) : chain'[i] = chain[i]  BY <1>1, <1>5, FullFacts DEF Grown
  <2>2. \A n \in lastConf + 1..lastSub : n \in 1..Len(chain)  BY DEF SyncOK, NodeOK
  <2> QED BY <1>4, <2>1, <2>2 DEF Due
<1>7. PICK D : D = Ending'  OBVIOUS
<1>8. ASSUME NEW w \in Ending, ViewOK(f, l1, w) PROVE Takes(w, m, D)
  <2>1. w \in Views /\ Backed(w, Due) /\ Tracks(w, chain, pend, buffer)
    BY <1>4 DEF Ending
  <2>2. w.k <= Len(chain) /\ Grown(s, w.c)  BY <1>4, <1>5, <2>1 DEF Tracks
  <2>3. Len(w.c) \in Nat /\ w.k \in Nat  BY <1>8, ViewFacts
  <2>4. w.k <= Len(s) /\ Len(s) \in Nat  BY <1>5, <2>2, <2>3
  <2>5. Tracks(w, chain', pend', buffer')  BY <1>1, <1>5, <2>2, <2>4 DEF Tracks
  <2>6. w \in D  BY <1>4, <1>6, <1>7, <2>1, <2>5 DEF Ending
  <2>7. After(w, m) = w  BY <1>2, <2>1, AfterSame
  <2>8. m.num = Len(w.c) + 1 => m.blk.par = TipOf(w.c)
    <3>1. SUFFICES ASSUME Len(w.c) = Len(s) PROVE TipOf(s) = TipOf(w.c)  BY <1>2, <2>3, <2>4
    <3>2. Len(s) \in 1..Len(s)  BY <1>5
    <3>3. w.c[Len(s)] = s[Len(s)]  BY <2>2, <3>2 DEF Grown
    <3> QED BY <3>1, <3>3 DEF TipOf, IdAt
  <2> QED BY <1>2, <2>6, <2>7, <2>8 DEF Takes, Clear, Step
<1> QED BY <1>2, <1>3, <1>4, <1>7, <1>8, NowOK, FollowPublish DEF NodeFacts

LEMMA PublishSubmittedFollowed ==
    ASSUME NEW f, SyncOK(f), NodeFacts, Followed, PublishSubmitted
    PROVE  Followed'
<1> /\ Len(chain) \in Nat /\ ChainOf(f, chain) /\ lastSub \in 0..Len(chain) /\ lastConf \in 0..Len(chain)
  BY LenProperties DEF SyncOK, NodeOK, ChainOf
<1>1. PICK n : n = lastSub + 1  OBVIOUS
<1>2. /\ lastSub' = n /\ n \in 1..Len(chain) /\ n # 0 /\ n \in Nat /\ UNCHANGED <<l1, chain, lastConf, mode, pend>>
      /\ UNCHANGED clientStore
      /\ buffer' = Extend(buffer, n, About("submitted", n))
  <2>1. lastSub' = n /\ lastSub < Len(chain) /\ UNCHANGED <<l1, chain, lastConf, mode, pend>>
    BY <1>1 DEF PublishSubmitted, Submit
  <2>2. About("submitted", lastSub') = About("submitted", n)  BY <2>1
  <2>3. n \in 1..Len(chain) /\ n # 0 /\ n \in Nat  BY <1>1, <2>1
  <2> QED BY <2>1, <2>2, <2>3 DEF PublishSubmitted
<1>3. PICK m \in Message : Broadcast(<<m>>) /\ m.kind = "submitted" /\ m.num = n /\ m.blk.id = chain[n].id
  BY <1>2, Published
<1>4. MsgOK(f, l1, m)  BY <1>2, <1>3 DEF MsgOK
<1>5. \A x \in Due' : x \in Due \/ x = chain[n].id
  <2>1. \A i \in lastConf + 1..n : i = n \/ i \in lastConf + 1..lastSub  BY <1>1
  <2> QED BY <1>2, <2>1 DEF Due
<1>6. SameHashes(buffer, buffer')
  <2>1. PICK y : y = About("submitted", n)  OBVIOUS
  <2> QED BY <1>2, <2>1, ExtendHashes
<1>7. PICK D : D = Ending'  OBVIOUS
<1>8. ASSUME NEW w \in Ending, ViewOK(f, l1, w) PROVE Takes(w, m, D)
  <2>1. w \in Views /\ Backed(w, Due) /\ (mode = "loop" => Tracks(w, chain, pend, buffer))
    BY DEF Ending
  <2>2. Clear(w, m) /\ Step(w, m)  BY <1>3 DEF Clear, Step
  <2>3. SUFFICES ASSUME Fits(w, m) PROVE After(w, m) \in D  BY <2>2 DEF Takes
  <2>4. ChainOf(f, w.c) /\ Len(w.c) \in Nat  BY <1>8, ViewFacts
  <2>5. n \in 1..Len(w.c) /\ w.c[n].id = chain[n].id  BY <1>2, <1>3, <2>3, <2>4 DEF Fits, IdAt
  <2>6. PICK u : u = After(w, m)  OBVIOUS
  <2>7. u \in Views  BY <1>4, <1>8, <2>3, <2>6, AfterOK, NowOK DEF ViewOK
  <2>8. u.c = w.c /\ u.k = w.k /\ u.t = w.t \cup {n}  BY <1>3, <2>6, AfterFacts DEF New
  <2>9. ASSUME NEW i \in 1..Len(w.c), w.c[i].id \in Due'
        PROVE  i \in u.t
    <3>1. CASE w.c[i].id \in Due  BY <2>1, <2>8, <3>1 DEF Backed
    <3>2. CASE w.c[i].id = chain[n].id
      <4>1. w.c[i].id = w.c[n].id  BY <2>5, <3>2
      <4>2. Made(f, nextId)  BY DEF SyncOK
      <4>3. PICK c : c = w.c  OBVIOUS
      <4>4. ChainOf(f, c) /\ i \in 1..Len(c) /\ n \in 1..Len(c) /\ c[i].id = c[n].id
        BY <2>4, <2>5, <4>1, <4>3
      <4>5. i = n  BY <4>2, <4>4, OneHeight, Zenon
      <4> QED BY <2>8, <4>5
    <3> QED BY <1>5, <2>9, <3>1, <3>2
  <2>10. Backed(u, Due')  BY <1>2, <1>5, <2>8, <2>9 DEF Backed
  <2>11. mode' = "loop" => Tracks(u, chain', pend', buffer')
    <3>1. PICK c : c = buffer'  OBVIOUS
    <3>2. mode = "loop" => Tracks(u, chain, pend, buffer)  BY <2>1, <2>8 DEF Tracks
    <3>3. SameHashes(buffer, c)  BY <1>6, <3>1
    <3>4. mode = "loop" => Tracks(u, chain, pend, c)  BY <3>2, <3>3, TracksKept
    <3> QED BY <1>2, <3>1, <3>4
  <2> QED BY <1>7, <2>6, <2>7, <2>10, <2>11 DEF Ending
<1> QED BY <1>2, <1>3, <1>4, <1>7, <1>8, NowOK, FollowPublish DEF NodeFacts

LEMMA PublishConfirmedFollowed ==
    ASSUME NEW f, SyncOK(f), NodeFacts, Followed, PublishConfirmed
    PROVE  Followed'
<1> /\ Len(chain) \in Nat /\ ChainOf(f, chain) /\ lastSub \in 0..Len(chain)
    /\ lastConf \in 0..Len(chain) /\ Made(f, nextId) /\ Len(l1) \in Nat
  BY LenProperties DEF SyncOK, NodeOK, ChainOf
<1>1. PICK n, k : n = lastConf + 1 /\ k = (IF n > BufferCapacity THEN n - BufferCapacity ELSE 0) + 1
  OBVIOUS
<1>2. PICK z : z = Extend(buffer, n, About("confirmed", n))  OBVIOUS
<1>3. /\ mode = "loop" /\ n \in 1..Len(chain) /\ n \in lastConf + 1..lastSub /\ n \in 1..Len(l1) /\ l1[n] = chain[n]
      /\ buffer' = From(z, k) /\ lastConf' = n /\ n \in Nat /\ n # 0
      /\ UNCHANGED <<chain, lastSub, mode, pend>> /\ UNCHANGED clientStore
  <2>1. lastConf' = n /\ UNCHANGED chain /\ lastConf < lastSub /\ lastConf < Len(l1) /\ l1[n] = chain[n]
    BY <1>1 DEF PublishConfirmed, Confirm
  <2>2. About("confirmed", lastConf') = About("confirmed", n)  BY <2>1
  <2>3. n \in 1..Len(chain) /\ n \in 1..Len(l1) /\ n # 0 /\ n \in lastConf + 1..lastSub  BY <1>1, <2>1
  <2>4. buffer' = From(z, k)  BY <1>1, <1>2, <2>1, <2>2 DEF PublishConfirmed
  <2> QED BY <2>1, <2>3, <2>4 DEF PublishConfirmed, Confirm, Serving
<1>4. PICK m \in Message : Broadcast(<<m>>) /\ m.kind = "confirmed" /\ m.num = n /\ m.blk.id = chain[n].id
  BY <1>3, Published
<1>5. MsgOK(f, l1, m)
  <2>1. n <= Len(l1) /\ l1[n].id = chain[n].id  BY <1>3
  <2> QED BY <1>4, <2>1 DEF MsgOK, OnL1
<1>6. \A x \in Due' : x \in Due
  <2>1. \A i \in n + 1..lastSub : i \in lastConf + 1..lastSub  BY <1>1
  <2> QED BY <1>3, <2>1 DEF Due
<1>7. SameHashes(buffer, buffer')
  <2>1. SameHashes(buffer, z)
    <3>1. PICK y : y = About("confirmed", n)  OBVIOUS
    <3> QED BY <1>2, <3>1, ExtendHashes
  <2>2. PICK u : u = From(z, k)  OBVIOUS
  <2>3. DOMAIN u = {i \in DOMAIN z : i >= k} /\ \A i \in DOMAIN u : u[i] = z[i]
    BY <2>2 DEF From
  <2> QED BY <1>3, <2>1, <2>2, <2>3 DEF SameHashes
<1>8. PICK D : D = Ending'  OBVIOUS
<1>9. ASSUME NEW w \in Ending, ViewOK(f, l1, w) PROVE Takes(w, m, D)
  <2>1. w \in Views /\ Backed(w, Due) /\ Tracks(w, chain, pend, buffer)
    BY <1>3 DEF Ending
  <2>2. Clear(w, m)  BY <1>4 DEF Clear
  <2>3. SUFFICES ASSUME Fits(w, m) PROVE Step(w, m) /\ After(w, m) \in D  BY <2>2 DEF Takes
  <2>4. ChainOf(f, w.c) /\ Len(w.c) \in Nat  BY <1>9, ViewFacts
  <2>5. n \in 1..Len(w.c) /\ w.c[n].id = chain[n].id  BY <1>3, <1>4, <2>3, <2>4 DEF Fits, IdAt
  <2>6. Step(w, m)
    <3>1. w.c[n].id \in Due  BY <1>3, <2>5 DEF Due
    <3>2. n \in w.t  BY <2>1, <2>5, <3>1 DEF Backed
    <3> QED BY <1>4, <2>2, <3>2 DEF Step
  <2>7. PICK u : u = After(w, m)  OBVIOUS
  <2>8. u \in Views  BY <1>5, <1>9, <2>3, <2>7, AfterOK, NowOK DEF ViewOK
  <2>9. u.c = w.c /\ u.k = n /\ u.t = w.t  BY <1>4, <2>7, AfterFacts DEF New
  <2>10. Backed(u, Due')  BY <1>6, <2>1, <2>9 DEF Backed
  <2>11. Tracks(u, chain, pend, buffer)
    <3>1. u.k <= Len(chain)  BY <1>3, <2>9
    <3> QED BY <2>1, <2>9, <3>1 DEF Tracks
  <2>12. Tracks(u, chain', pend', buffer')
    <3>1. PICK c : c = buffer'  OBVIOUS
    <3>3. SameHashes(buffer, c)  BY <1>7, <3>1
    <3>4. Tracks(u, chain, pend, c)  BY <2>11, <3>3, TracksKept
    <3> QED BY <1>3, <3>1, <3>4
  <2> QED BY <1>8, <2>6, <2>7, <2>8, <2>10, <2>12 DEF Ending
<1> QED BY <1>3, <1>4, <1>5, <1>8, <1>9, NowOK, FollowPublish DEF NodeFacts

LEMMA PublishLocalBlockFollowed ==
    ASSUME NEW f, SyncOK(f), NodeFacts, Followed, PublishLocalBlock
    PROVE  Followed'
<1> Len(chain) \in Nat /\ nextId \in Nat  BY LenProperties DEF SyncOK, NodeOK, ChainOf, Made
<1>1. PICK b, n : b = [id |-> nextId, par |-> TipOf(chain)] /\ n = Len(chain) + 1  OBVIOUS
<1>2. PICK m : m = LocalBlock(n, b)  OBVIOUS
<1>3. m.kind = "local" /\ m.num = n /\ m.blk = b /\ b.id = nextId /\ b.par = TipOf(chain)
  BY <1>1, <1>2 DEF LocalBlock, Msg
<1>4. /\ Broadcast(<<m>>) /\ UNCHANGED clientStore /\ mode = "loop" /\ pend = <<>> /\ pend' = <<b>>
      /\ UNCHANGED <<chain, lastSub, lastConf, mode>>
  BY <1>1, <1>2 DEF PublishLocalBlock, Serving, ledgerVars
<1>5. PICK g : /\ Of(g, b) /\ ChainOf(g, l1) /\ MsgsOK(g, l1, chan)
               /\ ClientOK(g, l1, cchain, cConf, cTx) /\ MsgOK(g, l1, m)
               /\ NodeOK(g, chain, lastSub, lastConf, pend)
  BY <1>1, <1>2, NextBlock
<1>6. Due' = Due  BY <1>4 DEF Due
<1>7. nextId \notin Due
  <2>1. \A x \in Due : x \in Nat /\ x < nextId  BY DueMade
  <2> QED BY <2>1
<1>8. PICK D : D = Ending'  OBVIOUS
<1>9. PICK s : s = FullOf(chain, pend')  OBVIOUS
<1>10. Len(s) = n /\ s[n] = b /\ \A i \in 1..Len(chain) : s[i] = chain[i]
  <2>1. s = Append(chain, b) /\ b \in BlockRec /\ chain \in Seq(BlockRec)
    BY <1>4, <1>5, <1>9 DEF FullOf, Of, NodeOK, ChainOf
  <2> QED BY <1>1, <2>1, AppendProperties
<1>11. ASSUME NEW w \in Ending, ViewOK(g, l1, w) PROVE Takes(w, m, D)
  <2>1. w \in Views /\ Backed(w, Due) /\ Tracks(w, chain, pend, buffer)
    BY <1>4 DEF Ending
  <2>2. Len(w.c) \in Nat /\ w.k \in Nat /\ w.k <= Len(w.c)  BY <1>11, ViewFacts
  <2>3. CASE w.k <= Len(chain) /\ Grown(chain, w.c)
    <3>1. w.k < n  BY <1>1, <2>2, <2>3
    <3>2. Clear(w, m) /\ Step(w, m)  BY <1>3, <3>1 DEF Clear, Step
    <3>3. SUFFICES ASSUME Fits(w, m) PROVE After(w, m) \in D  BY <3>2 DEF Takes
    <3>4. PICK u : u = After(w, m)  OBVIOUS
    <3>5. u \in Views  BY <1>5, <1>11, <3>3, <3>4, AfterOK DEF ViewOK
    <3>6. CASE New(w, m)
      <4>1. /\ Len(u.c) = n /\ u.c[n] = b /\ \A i \in 1..n - 1 : u.c[i] = w.c[i]
        BY <1>3, <1>5, <1>11, <3>3, <3>4, <3>6, NewFacts
      <4>2. u.t = {i \in w.t : i <= n - 1} /\ u.k = Below(w.k, n - 1)
        BY <1>3, <3>4, <3>6, AfterFacts
      <4>3. u.k = w.k  BY <1>1, <2>2, <3>1, <4>2 DEF Below
      <4>4. \A i \in 1..n : i = n \/ (i \in 1..n - 1 /\ i \in 1..Len(chain))  BY <1>1
      <4>5. Len(chain) <= Len(w.c) /\ \A i \in 1..Len(chain) : w.c[i] = chain[i]
        BY <2>3 DEF Grown
      <4>6. Grown(s, u.c)
        <5>1. \A i \in 1..Len(s) : u.c[i] = s[i]  BY <1>10, <4>1, <4>4, <4>5
        <5>2. Len(s) <= Len(u.c)  BY <1>1, <1>10, <4>1
        <5> QED BY <5>1, <5>2 DEF Grown
      <4>7. ASSUME NEW i \in 1..n, u.c[i].id \in Due
            PROVE  i \in u.t
        <5>1. i # n  BY <1>3, <1>7, <4>1, <4>7
        <5>2. i \in 1..n - 1 /\ i \in 1..Len(w.c)  BY <1>1, <2>2, <4>4, <4>5, <5>1
        <5>3. w.c[i].id \in Due  BY <4>1, <4>7, <5>2
        <5> QED BY <2>1, <4>2, <5>2, <5>3 DEF Backed
      <4>8. Backed(u, Due')  BY <1>4, <1>6, <4>1, <4>7 DEF Backed
      <4>9. Tracks(u, chain', pend', buffer')  BY <1>4, <1>9, <2>3, <4>3, <4>6 DEF Tracks
      <4> QED BY <1>8, <3>4, <3>5, <4>8, <4>9 DEF Ending
    <3>7. CASE ~New(w, m)
      <4>1. Attached(w, m)  BY <1>3, <3>7 DEF New
      <4>2. u = w  BY <1>3, <2>1, <3>4, <4>1, AfterSame
      <4>3. n <= Len(w.c) /\ w.c[n] = b  BY <1>3, <4>1 DEF Attached
      <4>4. \A i \in 1..n : i = n \/ i \in 1..Len(chain)  BY <1>1
      <4>5. Grown(s, w.c)  BY <1>10, <2>3, <4>3, <4>4 DEF Grown
      <4>6. Tracks(w, chain', pend', buffer')  BY <1>4, <1>9, <2>3, <4>5 DEF Tracks
      <4> QED BY <1>4, <1>6, <1>8, <2>1, <3>4, <4>2, <4>6 DEF Ending
    <3> QED BY <3>4, <3>6, <3>7
  <2>4. CASE Len(w.c) < Len(chain)
    <3>1. w.k < n /\ ~(n <= Len(w.c)) /\ ~(n <= Len(w.c) + 1)  BY <1>1, <2>2, <2>4
    <3>2. Clear(w, m) /\ ~Fits(w, m)  BY <1>3, <3>1 DEF Clear, Fits, Attached
    <3> QED BY <3>2 DEF Takes
  <2>5. FullOf(chain, pend) = chain  BY <1>4 DEF FullOf
  <2> QED BY <2>1, <2>3, <2>4, <2>5 DEF Tracks
<1>12. ViewOK(g, l1, Now)
  <2>1. Now \in Views /\ Now.c = cchain /\ Now.t = cTx /\ Now.k = cConf  BY NowOK DEF ViewOK
  <2> QED BY <1>5, <2>1 DEF ViewOK
<1> QED BY <1>4, <1>5, <1>8, <1>11, <1>12, FollowPublish DEF NodeFacts

\* The ending views change.
LEMMA FollowMap ==
    ASSUME NEW f, NEW l, ChainOf(f, l), NEW ms, MsgsOK(f, l, ms), NEW v, ViewOK(f, l, v),
           NEW live, NEW E, Follow(v, ms, live, E), NEW D,
           live => \A w \in E : ViewOK(f, l, w) => w \in D
    PROVE  Follow(v, ms, live, D)
<1> Len(ms) \in Nat  BY LenProperties DEF MsgsOK
<1>1. PICK d, h : Steady(v, ms, Len(ms), d, h) /\ (live /\ d = Len(ms) => h[d] \in E)
  BY DEF Follow
<1>2. d \in 0..d
  <2>1. d \in Nat  BY <1>1 DEF Steady, Replay
  <2> QED BY <2>1
<1>3. ViewOK(f, l, h[d])
  <2>1. PICK n : n = Len(ms)  OBVIOUS
  <2>2. Replay(v, ms, n, d, h) /\ n <= Len(ms)  BY <1>1, <2>1 DEF Steady
  <2>3. \A i \in 0..d : ViewOK(f, l, h[i])  BY <2>2, ReplayOK
  <2> QED BY <1>2, <2>3
<1> QED BY <1>1, <1>3 DEF Follow

\* A session ends with the messages that were delivered.
LEMMA CutFollowed ==
    ASSUME NEW f, SyncOK(f), Followed, session' = FALSE, UNCHANGED <<cchain, cTx, cConf>>,
           cstate' = "stream" /\ ~stale' => cstate = "stream" /\ ~stale,
           NEW k \in 0..Len(chan), chan' = SubSeq(chan, 1, k)
    PROVE  Followed'
<1> Len(chan) \in Nat /\ chan \in Seq(Message)  BY NowOK, LenProperties DEF MsgsOK
<1>1. Now' = Now  BY DEF Now
<1>2. SUFFICES ASSUME cstate = "stream", ~stale PROVE Follow(Now, chan', FALSE, Ending')
  BY <1>1 DEF Followed
<1>3. PICK d, h : Steady(Now, chan, Len(chan), d, h)  BY <1>2 DEF Followed, Follow
<1>4. PICK t : t = SubSeq(chan, 1, k)  OBVIOUS
<1>5. Len(t) = k /\ \A i \in 1..k : t[i] = chan[i]
  <2>1. \A i \in 1..k : chan[i] \in Message  BY ElementOfSeq
  <2> QED BY <1>4, <2>1, SubSeqProperties
<1>6. \E e, g : Steady(Now, t, k, e, g)  BY <1>3, <1>5, SteadyCut
<1> QED BY <1>4, <1>5, <1>6 DEF Follow

LEMMA RestartFollowed ==
    ASSUME NEW f, SyncOK(f), Followed, Restart
    PROVE  Followed'
<1>1. session' = FALSE /\ UNCHANGED <<cchain, cTx, cConf, cstate, stale>>
  BY DEF Restart, clientStore
<1>2. PICK k \in 0..Len(chan) : chan' = SubSeq(chan, 1, k)  BY DEF Restart
<1> QED BY <1>1, <1>2, CutFollowed

LEMMA FinishBootFollowed ==
    ASSUME NEW f, SyncOK(f), NodeFacts, Followed, FinishBoot
    PROVE  Followed'
<1>1. PICK ms : Broadcast(ms)  BY DEF FinishBoot
<1>2. session = FALSE /\ session' = FALSE /\ chan' = chan
  BY <1>1, BroadcastBool DEF FinishBoot, NodeFacts
<1>3. UNCHANGED <<cstate, stale>> /\ Now' = Now  BY DEF FinishBoot, clientStore, Now
<1>4. SUFFICES ASSUME cstate = "stream", ~stale PROVE Follow(Now, chan, FALSE, Ending')
  BY <1>2, <1>3 DEF Followed
<1>5. Follow(Now, chan, session, Ending)  BY <1>4 DEF Followed
<1> QED BY <1>5 DEF Follow

\* Nothing is sent, and what a session ends in may stay the same.
LEMMA SilentFollowed ==
    ASSUME Followed, UNCHANGED clientVars, \A w \in Ending : w \in Ending'
    PROVE  Followed'
<1>1. Now' = Now /\ UNCHANGED <<chan, session, cstate, stale>>  BY DEF Now, clientVars
<1>2. SUFFICES ASSUME cstate = "stream", ~stale PROVE Follow(Now, chan, session, Ending')
  BY <1>1 DEF Followed
<1>3. PICK v, E, D : v = Now /\ E = Ending /\ D = Ending'  OBVIOUS
<1>4. Follow(v, chan, session, E)  BY <1>2, <1>3 DEF Followed
<1>5. Follow(v, chan, session, D)  BY <1>3, <1>4, FollowWeaken
<1> QED BY <1>3, <1>5

\* The full node synchronises with layer 1.
LEMMA QuietFollowed ==
    ASSUME Followed, ForkNoticed \/ Disturb \/ RevertBlocks \/ SyncServer
    PROVE  Followed'
<1>1. mode' = "sync" /\ UNCHANGED clientVars
  BY DEF ForkNoticed, Disturb, StartSync, RevertBlocks, SyncServer, Rewind, Adopt, Known, syncRest
<1>2. Due' = {}  BY <1>1 DEF Due
<1>3. \A w \in Ending : w \in Ending'  BY <1>1, <1>2 DEF Ending, Backed
<1> QED BY <1>1, <1>3, SilentFollowed

\* Layer 1 and the submissions that are on their way are not seen by a session.
LEMMA UnseenFollowed ==
    ASSUME NEW f, SyncOK(f), NodeFacts, Followed, Layer1 \/ SendSubmission
    PROVE  Followed'
<1>1. UNCHANGED <<chain, lastSub, lastConf, mode, pend, buffer, clientVars>>
  BY Layer1Facts, SendFacts DEF serverVars, ledgerVars
<1>2. SameHashes(buffer, buffer')  BY <1>1 DEF SameHashes
<1>3. \A w \in Ending : w \in Ending'  BY <1>1, <1>2, EndingKept
<1> QED BY <1>1, <1>3, SilentFollowed

\* The block that is not stored stays on top of what the session ends in.
LEMMA FailLocalBlockFollowed ==
    ASSUME NEW f, SyncOK(f), NodeFacts, Followed, FailLocalBlock
    PROVE  Followed'
<1>1. /\ pend # <<>> /\ pend' = <<>>
      /\ UNCHANGED <<chain, lastSub, lastConf, mode, buffer, clientVars>>
  BY DEF FailLocalBlock, ledgerVars
<1>2. PICK s : s = FullOf(chain, pend)  OBVIOUS
<1>3. /\ Len(chain) \in Nat /\ Len(s) = Len(chain) + 1 /\ \A i \in 1..Len(chain) : s[i] = chain[i]
  BY <1>1, <1>2, FullFacts DEF Grown
<1>4. Due' = Due /\ FullOf(chain', pend') = chain  BY <1>1 DEF Due, FullOf
<1>5. ASSUME NEW w \in Ending PROVE w \in Ending'
  <2>1. w \in Views /\ Backed(w, Due) /\ (mode = "loop" => w.k <= Len(chain) /\ Grown(s, w.c))
    BY <1>1, <1>2, <1>5 DEF Ending, Tracks
  <2>2. Len(w.c) \in Nat  BY <2>1, LenProperties DEF Views
  <2>3. \A i \in 1..Len(chain) : i \in 1..Len(s)  BY <1>3
  <2>4. Grown(s, w.c) => Grown(chain, w.c)  BY <1>3, <2>2, <2>3 DEF Grown
  <2>5. mode' = "loop" => Tracks(w, chain', pend', buffer')  BY <1>1, <1>4, <2>1, <2>4 DEF Tracks
  <2> QED BY <1>4, <2>1, <2>5 DEF Ending
<1> QED BY <1>1, <1>5, SilentFollowed

(***************************************************************************)
(* The session when the full node resumes.                                 *)
(***************************************************************************)
\* Views on the confirmed block that have the first j local blocks.
Agreeing(j) ==
    {u \in Views : /\ u.k = lastConf /\ lastConf + j <= Len(u.c)
                   /\ \A i \in 1..lastConf + j : u.c[i] = chain[i]}

LEMMA LocalTaken ==
    ASSUME NEW f, ChainOf(f, l1), ChainOf(f, chain), lastConf \in 0..Len(chain),
           NEW x, ViewOK(f, l1, x), NEW j \in Nat, lastConf + j < Len(chain), x \in Agreeing(j),
           NEW m, NEW n, n = (lastConf + j) + 1, m = LocalBlock(n, chain[n]), MsgOK(f, l1, m)
    PROVE  Takes(x, m, Agreeing(j + 1))
<1> Len(chain) \in Nat /\ lastConf \in Nat  BY LenProperties DEF ChainOf
<1>1. n \in 1..Len(chain) /\ n \in lastConf + 1..Len(chain) /\ n # 0 /\ n \in Nat
      /\ n = lastConf + (j + 1) /\ n - 1 = lastConf + j /\ lastConf < n
  OBVIOUS
<1>2. m.kind = "local" /\ m.num = n /\ m.blk = chain[n]  BY DEF LocalBlock, Msg
<1>3. /\ x \in Views /\ x.k = lastConf /\ n - 1 <= Len(x.c) /\ Len(x.c) \in Nat /\ x.k \in Nat
      /\ \A i \in 1..n - 1 : x.c[i] = chain[i]
  BY <1>1, ViewFacts DEF Agreeing
<1>4. Clear(x, m) /\ Step(x, m)  BY <1>1, <1>2, <1>3 DEF Clear, Step
<1>5. SUFFICES ASSUME Fits(x, m) PROVE After(x, m) \in Agreeing(j + 1)  BY <1>4 DEF Takes
<1>6. PICK u : u = After(x, m)  OBVIOUS
<1>7. u \in Views  BY <1>5, <1>6, AfterOK DEF ViewOK
<1>8. \A i \in 1..n : i = n \/ i \in 1..n - 1  BY <1>1
<1>9. CASE New(x, m)
  <2>1. /\ Len(u.c) = n /\ u.c[n] = chain[n] /\ \A i \in 1..n - 1 : u.c[i] = x.c[i]
    BY <1>2, <1>5, <1>6, <1>9, NewFacts
  <2>2. u.k = Below(x.k, n - 1)
    BY <1>2, <1>6, <1>9, AfterFacts
  <2>3. u.k = lastConf  BY <1>1, <1>3, <2>2 DEF Below
  <2>4. \A i \in 1..n : u.c[i] = chain[i]  BY <1>3, <1>8, <2>1
  <2>5. lastConf + (j + 1) <= Len(u.c)  BY <1>1, <2>1
  <2> QED BY <1>1, <1>6, <1>7, <2>3, <2>4, <2>5 DEF Agreeing
<1>10. CASE ~New(x, m)
  <2>1. Attached(x, m)  BY <1>2, <1>10 DEF New
  <2>2. u = x  BY <1>2, <1>3, <1>6, <2>1, AfterSame
  <2>3. n <= Len(x.c) /\ x.c[n] = chain[n]  BY <1>2, <2>1 DEF Attached
  <2>4. \A i \in 1..n : x.c[i] = chain[i]  BY <1>3, <1>8, <2>3
  <2>5. lastConf + (j + 1) <= Len(x.c)  BY <1>1, <2>3
  <2> QED BY <1>1, <1>3, <1>6, <2>2, <2>4, <2>5 DEF Agreeing
<1> QED BY <1>9, <1>10

\* Messages that are taken one after another; the views after j of them are in A[j].
LEMMA FollowRun ==
    ASSUME NEW f, NEW l, ChainOf(f, l), NEW ms, MsgsOK(f, l, ms), NEW v, ViewOK(f, l, v),
           NEW n, n = Len(ms), NEW A, v \in A[0],
           \A j \in 0..n : j < n => \A w \in A[j] : ViewOK(f, l, w) => Takes(w, ms[j + 1], A[j + 1]),
           NEW E, \A w \in A[n] : ViewOK(f, l, w) => w \in E
    PROVE  Follow(v, ms, TRUE, E)
<1> n \in Nat  BY LenProperties DEF MsgsOK
<1>1. PICK d, h : Replay(v, ms, n, d, h)  BY ReplayExists
<1>2. d \in 0..n /\ d \in Nat /\ h[0] = v  BY <1>1 DEF Replay
<1>3. \A i \in 0..d : ViewOK(f, l, h[i])
  <2>1. n <= Len(ms)  OBVIOUS
  <2> QED BY <1>1, <2>1, ReplayOK
<1> DEFINE T == {j \in 0..d : h[j] \in A[j]}
<1>4. 0 \in T  BY <1>2
<1>5. ASSUME NEW j \in 0..d, j < d, j \in T PROVE j + 1 \in T
  <2>1. j \in 0..n /\ j < n /\ j + 1 \in 1..d /\ (j + 1) - 1 = j /\ j + 1 \in 0..d  BY <1>2, <1>5
  <2>2. Fits(h[j], ms[j + 1]) /\ h[j + 1] = After(h[j], ms[j + 1])  BY <1>1, <2>1 DEF Replay
  <2>3. Takes(h[j], ms[j + 1], A[j + 1])  BY <1>3, <1>5, <2>1
  <2>4. h[j + 1] \in A[j + 1]  BY <2>2, <2>3 DEF Takes
  <2> QED BY <2>1, <2>4
<1>6. \A j \in 0..d : j \in T
  <2> HIDE DEF T
  <2> QED BY <1>2, <1>4, <1>5, NatInd
<1>7. \A j \in 0..d : h[j] \in A[j]  BY <1>6
<1> HIDE DEF T
<1>8. ASSUME NEW i \in 1..d PROVE Step(h[i - 1], ms[i])
  <2>1. PICK j : j = i - 1  OBVIOUS
  <2>2. j \in 0..d /\ j \in 0..n /\ j < n /\ j + 1 = i  BY <1>2, <2>1
  <2>3. Takes(h[j], ms[j + 1], A[j + 1])  BY <1>3, <1>7, <2>2
  <2>4. Fits(h[j], ms[i])  BY <1>1, <2>1 DEF Replay
  <2> QED BY <2>1, <2>2, <2>3, <2>4 DEF Takes
<1>9. d < n => Clear(h[d], ms[d + 1])
  <2>1. SUFFICES ASSUME d < n PROVE Clear(h[d], ms[d + 1])  OBVIOUS
  <2>2. d \in 0..d  BY <1>2
  <2>3. Takes(h[d], ms[d + 1], A[d + 1])  BY <1>2, <1>3, <1>7, <2>1, <2>2
  <2> QED BY <2>3 DEF Takes
<1>10. Steady(v, ms, n, d, h)  BY <1>1, <1>8, <1>9 DEF Steady
<1>11. d = n => h[d] \in E
  <2>1. d \in 0..d  BY <1>2
  <2> QED BY <1>3, <1>7, <2>1
<1> QED BY <1>10, <1>11 DEF Follow

LEMMA FollowLocals ==
    ASSUME NEW f, ChainOf(f, l1), ChainOf(f, chain), lastConf \in 0..Len(chain),
           NEW u, ViewOK(f, l1, u), u \in Agreeing(0)
    PROVE  Follow(u, LocalBlocks, TRUE, Agreeing(Len(chain) - lastConf))
<1> Len(chain) \in Nat /\ lastConf \in Nat  BY LenProperties DEF ChainOf
<1>1. PICK p : p = Len(chain) - lastConf  OBVIOUS
<1>2. p \in Nat  BY <1>1
<1>3. PICK ys : ys = LocalBlocks  OBVIOUS
<1>4. /\ Len(ys) = p /\ MsgsOK(f, l1, ys)
      /\ \A i \in 1..p : ys[i] = LocalBlock(lastConf + i, chain[lastConf + i])
  <2>1. ys = [i \in 1..p |-> LocalBlock(lastConf + i, chain[lastConf + i])]
    BY <1>1, <1>3 DEF LocalBlocks
  <2>2. MsgsOK(f, l1, ys)  BY <1>3, LocalBlocksOK
  <2>3. Len(ys) \in Nat /\ DOMAIN ys = 1..Len(ys)  BY <2>2, LenProperties DEF MsgsOK
  <2>4. DOMAIN ys = 1..p  BY <2>1
  <2>5. Len(ys) = p
    <3>1. PICK q \in Nat : q = Len(ys) /\ 1..q = 1..p  BY <2>3, <2>4
    <3>2. q # 0 => q \in 1..p
      <4>1. q # 0 => q \in 1..q  OBVIOUS
      <4> QED BY <3>1, <4>1, Zenon
    <3>3. p # 0 => p \in 1..q
      <4>1. p # 0 => p \in 1..p  BY <1>2
      <4> QED BY <3>1, <4>1, Zenon
    <3>4. q <= p /\ p <= q  BY <1>2, <3>1, <3>2, <3>3
    <3> QED BY <1>2, <3>1, <3>4
  <2> QED BY <2>1, <2>2, <2>4, <2>5
<1>5. PICK A : A = [j \in 0..p |-> Agreeing(j)]  OBVIOUS
<1>6. A[0] = Agreeing(0) /\ A[p] = Agreeing(p) /\ \A j \in 0..p : A[j] = Agreeing(j)
  BY <1>2, <1>5
<1>7. ASSUME NEW j \in 0..p, j < p, NEW w \in A[j], ViewOK(f, l1, w)
      PROVE  Takes(w, ys[j + 1], A[j + 1])
  <2>1. PICK m, n : n = (lastConf + j) + 1 /\ m = LocalBlock(n, chain[n])  OBVIOUS
  <2>2. j + 1 \in 1..p /\ j + 1 \in 0..p /\ lastConf + (j + 1) = n /\ lastConf + j < Len(chain) /\ j \in Nat
    BY <1>1, <1>2, <1>7, <2>1
  <2>3. ys[j + 1] = m  BY <1>4, <2>1, <2>2
  <2>4. MsgOK(f, l1, m)  BY <1>4, <2>2, <2>3 DEF MsgsOK
  <2>5. w \in Agreeing(j)  BY <1>6, <1>7
  <2>6. Takes(w, m, Agreeing(j + 1))  BY <1>7, <2>1, <2>2, <2>4, <2>5, LocalTaken
  <2> QED BY <1>6, <2>2, <2>3, <2>6
<1>8. PICK E : E = Agreeing(p)  OBVIOUS
<1>9. u \in A[0] /\ \A w \in A[p] : ViewOK(f, l1, w) => w \in E  BY <1>6, <1>8
<1>10. \A j \in 0..p : j < p => \A w \in A[j] : ViewOK(f, l1, w) => Takes(w, ys[j + 1], A[j + 1])
  BY <1>7
<1>11. Follow(u, ys, TRUE, E)  BY <1>4, <1>9, <1>10, FollowRun
<1> QED BY <1>1, <1>3, <1>8, <1>11

\* The revert message comes first.
LEMMA RevertTaken ==
    ASSUME NEW f, SyncOK(f), FinishResync, NEW w \in Ending, ViewOK(f, l1, w),
           NEW m, m = About("revert", lastSub)
    PROVE  Takes(w, m, Agreeing(0))
<1> /\ ChainOf(f, chain) /\ ChainOf(f, l1) /\ Len(chain) \in Nat /\ Len(l1) \in Nat
    /\ lastConf \in 0..Len(chain) /\ lastConf \in Nat
  BY LenProperties DEF SyncOK, NodeOK, ChainOf
<1>1. /\ Limit = lastConf /\ lastConf = Len(l1) /\ lastSub = Len(l1)  BY RepublishedDue
<1>2. \A i \in 1..lastConf : l1[i] = chain[i]
  <2>1. IsPrefix(l1, chain) /\ l1 \in Seq(BlockRec) /\ chain \in Seq(BlockRec)
    BY DEF FinishResync, Synced, ChainOf
  <2>2. l1 = SubSeq(chain, 1, Len(l1))  BY <2>1 DEF IsPrefix
  <2>3. Len(l1) \in 0..Len(chain)  BY <1>1
  <2>4. PICK s : s = SubSeq(chain, 1, Len(l1))  OBVIOUS
  <2>5. \A i \in 1..Len(l1) : s[i] = chain[i]  BY <2>3, <2>4, ChainPrefix
  <2> QED BY <1>1, <2>2, <2>4, <2>5
<1>3. m.kind = "revert" /\ m.num = lastConf /\ m.blk.id = IdAt(chain, lastConf)
  BY <1>1 DEF About, Msg
<1>4. w \in Views  BY DEF Ending
<1>5. ChainOf(f, w.c) /\ Len(w.c) \in Nat  BY ViewFacts
<1>6. Clear(w, m)  BY <1>3 DEF Clear
<1>7. SUFFICES ASSUME Fits(w, m) PROVE Step(w, m) /\ After(w, m) \in Agreeing(0)
  BY <1>6 DEF Takes
<1>8. lastConf <= Len(w.c) /\ IdAt(w.c, lastConf) = IdAt(chain, lastConf)
  BY <1>3, <1>7 DEF Fits
<1>9. \A i \in 1..lastConf : w.c[i] = chain[i]
  <2>1. CASE lastConf = 0  BY <2>1
  <2>2. CASE lastConf # 0
    <3>1. w.c[lastConf].id = chain[lastConf].id  BY <1>8, <2>2 DEF IdAt
    <3>2. lastConf \in 1..Len(w.c) /\ lastConf <= Len(chain)  BY <1>8, <2>2
    <3> QED BY <1>5, <3>1, <3>2, SameIdentity
  <2> QED BY <2>1, <2>2
<1>10. Step(w, m)  BY <1>3, <1>6 DEF Step
<1>11. PICK u : u = After(w, m)  OBVIOUS
<1>12. u.c = w.c /\ u.t = w.t /\ u.k = lastConf  BY <1>3, <1>11, AfterFacts DEF New
<1>13. u \in Views
  <2>1. u = [c |-> w.c, t |-> w.t, k |-> lastConf]  BY <1>3, <1>11 DEF After, New
  <2> QED BY <1>4, <2>1 DEF Views
<1>14. lastConf + 0 = lastConf  OBVIOUS
<1> QED BY <1>8, <1>9, <1>10, <1>11, <1>12, <1>13, <1>14 DEF Agreeing

\* A view with all the local blocks is an ending view, and takes the mem block.
LEMMA AgreeingEnds ==
    ASSUME NEW f, SyncOK(f), NodeFacts, FinishResync, NEW w, ViewOK(f, l1, w),
           w \in Agreeing(Len(chain) - lastConf), NEW m, m = NextMemBlock(chain)
    PROVE  w \in Ending' /\ Takes(w, m, Ending')
<1> /\ ChainOf(f, chain) /\ Len(chain) \in Nat /\ Len(l1) \in Nat
    /\ lastConf \in 0..Len(chain) /\ lastConf \in Nat
  BY LenProperties DEF SyncOK, NodeOK, ChainOf
<1>1. /\ Due' = {} /\ mode' = "loop" /\ mode = "sync"
      /\ UNCHANGED <<l1, chain, lastSub, lastConf, pend>>
  BY RepublishedDue
<1>2. pend' = <<>>  BY <1>1 DEF NodeFacts
<1>3. lastConf + (Len(chain) - lastConf) = Len(chain)  OBVIOUS
<1>4. PICK p : p = Len(chain) - lastConf  OBVIOUS
<1>5. lastConf + p = Len(chain)  BY <1>3, <1>4
<1>6. /\ w \in Views /\ w.k = lastConf /\ Len(chain) <= Len(w.c)
      /\ \A i \in 1..Len(chain) : w.c[i] = chain[i]
  BY <1>4, <1>5 DEF Agreeing
<1>7. Grown(chain, w.c) /\ w.k <= Len(chain)  BY <1>6 DEF Grown
<1>8. FullOf(chain', pend') = chain  BY <1>1, <1>2 DEF FullOf
<1>9. Tracks(w, chain', pend', buffer')  BY <1>1, <1>7, <1>8 DEF Tracks
<1>10. w \in Ending'  BY <1>1, <1>6, <1>9 DEF Ending, Backed
<1>11. m.kind = "mem" /\ m.num = Len(chain) + 1 /\ m.blk.par = TipOf(chain)
  BY DEF NextMemBlock, Msg
<1>12. After(w, m) = w  BY <1>6, <1>11, AfterSame
<1>13. Len(w.c) \in Nat  BY ViewFacts
<1>14. m.num = Len(w.c) + 1 => m.blk.par = TipOf(w.c)
  <2>1. SUFFICES ASSUME Len(w.c) = Len(chain) PROVE TipOf(chain) = TipOf(w.c)
    BY <1>11, <1>13
  <2>2. CASE Len(chain) = 0  BY <2>1, <2>2 DEF TipOf, IdAt
  <2>3. CASE Len(chain) # 0
    <3>1. Len(chain) \in 1..Len(chain)  BY <2>3
    <3>2. w.c[Len(chain)] = chain[Len(chain)]  BY <1>6, <3>1
    <3> QED BY <2>1, <3>2 DEF TipOf, IdAt
  <2> QED BY <2>2, <2>3
<1>15. PICK D : D = Ending'  OBVIOUS
<1>16. Takes(w, m, D)  BY <1>10, <1>11, <1>12, <1>14, <1>15 DEF Takes, Clear, Step
<1> QED BY <1>10, <1>15, <1>16

LEMMA FinishResyncFollowed ==
    ASSUME NEW f, SyncOK(f), NodeFacts, Followed, FinishResync
    PROVE  Followed'
<1> /\ ChainOf(f, chain) /\ ChainOf(f, l1) /\ lastConf \in 0..Len(chain)
  BY DEF SyncOK, NodeOK
<1>1. PICK m, nm, lb : m = About("revert", lastSub) /\ nm = NextMemBlock(chain) /\ lb = LocalBlocks
  OBVIOUS
<1>2. PICK ms \in {<<>>, <<nm>>} : Broadcast(<<m>> \o lb \o ms)  BY <1>1 DEF FinishResync
<1>3. MsgsOK(f, l1, ms) /\ MsgsOK(f, l1, lb) /\ MsgOK(f, l1, m)  BY <1>1, ResumeMsgs
<1>4. PICK D, A, B : D = Ending' /\ A = Agreeing(0) /\ B = Agreeing(Len(chain) - lastConf)
  OBVIOUS
<1>5. PICK x, y : x = <<m>> /\ y = x \o lb  OBVIOUS
<1>6. MsgsOK(f, l1, x) /\ MsgsOK(f, l1, y)  BY <1>3, <1>5, OneMsg, MsgsJoin
<1>7. x \in Seq(Message) /\ lb \in Seq(Message) /\ ms \in Seq(Message) /\ y \in Seq(Message)
  BY <1>3, <1>6 DEF MsgsOK
<1>8. MsgOK(f, l1, nm)  BY <1>1, MemOK
<1>9. ASSUME NEW w \in Ending, ViewOK(f, l1, w) PROVE Follow(w, y \o ms, TRUE, D)
  <2>1. Takes(w, m, A)  BY <1>1, <1>4, <1>9, RevertTaken
  <2>2. Follow(w, x, TRUE, A)
    <3>1. Clear(w, m) /\ (Fits(w, m) => Step(w, m) /\ After(w, m) \in A)  BY <2>1 DEF Takes
    <3> QED BY <1>3, <1>5, <1>9, <3>1, FollowOne
  <2>3. \A u \in A : ViewOK(f, l1, u) => Follow(u, lb, TRUE, B)
    BY <1>1, <1>4, FollowLocals
  <2>4. Follow(w, y, TRUE, B)  BY <1>5, <1>6, <1>7, <1>9, <2>2, <2>3, FollowJoin
  <2>5. ASSUME NEW u \in B, ViewOK(f, l1, u) PROVE Follow(u, ms, TRUE, D)
    <3>1. u \in D /\ Takes(u, nm, D)  BY <1>1, <1>4, <2>5, AgreeingEnds
    <3>2. CASE ms = <<>>
      <4>1. u \in Views  BY <2>5 DEF ViewOK
      <4> QED BY <3>1, <3>2, <4>1, FollowNone
    <3>3. CASE ms = <<nm>>
      <4>1. Clear(u, nm) /\ (Fits(u, nm) => Step(u, nm) /\ After(u, nm) \in D)
        BY <3>1 DEF Takes
      <4> QED BY <1>8, <2>5, <3>3, <4>1, FollowOne
    <3> QED BY <1>2, <3>2, <3>3
  <2> QED BY <1>6, <1>7, <1>9, <2>4, <2>5, FollowJoin
<1>10. UNCHANGED <<cstate, stale>> /\ Now' = Now  BY DEF FinishResync, clientStore, Now
<1>11. SUFFICES ASSUME cstate = "stream", ~stale PROVE Follow(Now, chan', session', D)
  BY <1>4, <1>10 DEF Followed
<1>12. PICK v, E, ys : v = Now /\ E = Ending /\ ys = y \o ms  OBVIOUS
<1>13. Follow(v, chan, session, E)  BY <1>11, <1>12 DEF Followed
<1>14. ys \in Seq(Message) /\ Broadcast(ys)  BY <1>2, <1>5, <1>7, <1>12, ConcatProperties
<1>15. \A w \in E : ViewOK(f, l1, w) => Follow(w, ys, TRUE, D)  BY <1>9, <1>12
<1>16. ViewOK(f, l1, v) /\ MsgsOK(f, l1, chan) /\ session \in BOOLEAN
  BY <1>12, NowOK DEF NodeFacts
<1>17. Follow(v, chan', session', D)  BY <1>13, <1>14, <1>15, <1>16, BroadcastFollow
<1> QED BY <1>12, <1>17

(***************************************************************************)
(* The session through the steps of the read-only node.                    *)
(***************************************************************************)
LEMMA FollowTail ==
    ASSUME NEW v, NEW ms \in Seq(Message), ms # <<>>, NEW live, NEW E, Follow(v, ms, live, E),
           NEW m, m = Head(ms), Fits(v, m)
    PROVE  Follow(After(v, m), Tail(ms), live, E)
<1>1. PICK n : n = Len(ms)  OBVIOUS
<1>2. n \in Nat /\ n # 0 /\ m = ms[1]  BY <1>1, LenProperties, EmptySeq, HeadTailProperties
<1>3. PICK xs : xs = Tail(ms)  OBVIOUS
<1>4. Len(xs) = n - 1 /\ \A i \in 1..n - 1 : xs[i] = ms[i + 1]
  BY <1>1, <1>3, HeadTailProperties
<1>5. PICK d, h : Steady(v, ms, n, d, h) /\ (live /\ d = n => h[d] \in E)
  BY <1>1 DEF Follow
<1>6. d # 0
  <2>1. SUFFICES ASSUME d = 0 PROVE FALSE  OBVIOUS
  <2>2. 0 < n /\ 0 + 1 = 1  BY <1>2
  <2> QED BY <1>2, <1>5, <2>1, <2>2 DEF Steady, Replay
<1>7. PICK e, g : /\ Steady(After(v, ms[1]), xs, n - 1, e, g)
                  /\ (e = n - 1 => d = n) /\ g[e] = h[d]
  BY <1>4, <1>5, <1>6, SteadyNext
<1>8. Steady(After(v, m), xs, Len(xs), e, g) /\ (live /\ e = Len(xs) => g[e] \in E)
  BY <1>2, <1>4, <1>5, <1>7
<1> QED BY <1>3, <1>8 DEF Follow

\* Another view to which the first message does the same.
LEMMA FollowOther ==
    ASSUME NEW v, NEW ms \in Seq(Message), ms # <<>>, NEW live, NEW E, Follow(v, ms, live, E),
           NEW m, m = Head(ms), NEW w \in Views, Fits(v, m) <=> Fits(w, m),
           After(w, m) = After(v, m), Clear(w, m), Step(v, m) => Step(w, m)
    PROVE  Follow(w, ms, live, E)
<1>1. PICK n : n = Len(ms)  OBVIOUS
<1>2. n \in Nat /\ n # 0 /\ m = ms[1]  BY <1>1, LenProperties, EmptySeq, HeadTailProperties
<1>3. PICK d, h : Steady(v, ms, n, d, h) /\ (live /\ d = n => h[d] \in E)
  BY <1>1 DEF Follow
<1>4. d \in Nat /\ d <= n /\ h \in [0..d -> Views] /\ h[0] = v  BY <1>3 DEF Steady, Replay
<1> DEFINE g == [i \in 0..d |-> IF i = 0 THEN w ELSE h[i]]
<1>5. g \in [0..d -> Views] /\ g[0] = w /\ \A i \in 1..d : g[i] = h[i]  BY <1>4
<1> HIDE DEF g
<1>6. ASSUME NEW i \in 1..d
      PROVE  Fits(g[i - 1], ms[i]) /\ g[i] = After(g[i - 1], ms[i]) /\ Step(g[i - 1], ms[i])
  <2>1. Fits(h[i - 1], ms[i]) /\ h[i] = After(h[i - 1], ms[i]) /\ Step(h[i - 1], ms[i])
    BY <1>3 DEF Steady, Replay
  <2>2. CASE i = 1
    <3>1. i - 1 = 0 /\ ms[i] = m  BY <1>2, <2>2
    <3> QED BY <1>4, <1>5, <2>1, <3>1
  <2>3. CASE i # 1
    <3>1. i - 1 \in 1..d  BY <1>4, <2>3
    <3> QED BY <1>5, <2>1, <3>1
  <2> QED BY <2>2, <2>3
<1>7. ASSUME d < n PROVE ~Fits(g[d], ms[d + 1]) /\ Clear(g[d], ms[d + 1])
  <2>1. ~Fits(h[d], ms[d + 1]) /\ Clear(h[d], ms[d + 1])  BY <1>3, <1>7 DEF Steady, Replay
  <2>2. CASE d = 0
    <3>1. d + 1 = 1  BY <2>2
    <3> QED BY <1>2, <1>4, <1>5, <2>1, <2>2, <3>1
  <2>3. CASE d # 0
    <3>1. d \in 1..d  BY <1>4, <2>3
    <3> QED BY <1>5, <2>1, <3>1
  <2> QED BY <2>2, <2>3
<1>8. d \in 0..n  BY <1>4
<1>9. Replay(w, ms, n, d, g)  BY <1>2, <1>5, <1>6, <1>7, <1>8 DEF Replay
<1>10. Steady(w, ms, n, d, g)  BY <1>6, <1>7, <1>9 DEF Steady
<1>11. live /\ d = n => g[d] \in E
  <2>1. d = n => d \in 1..d  BY <1>2
  <2> QED BY <1>3, <1>5, <2>1
<1> QED BY <1>1, <1>10, <1>11 DEF Follow

LEMMA ClientEnding ==
    ASSUME UNCHANGED <<ledgerVars, serverVars>>
    PROVE  Ending' = Ending
<1>1. UNCHANGED <<chain, lastSub, lastConf, mode, pend, buffer>>  BY DEF ledgerVars, serverVars
<1>2. Due' = Due  BY <1>1 DEF Due
<1> QED BY <1>1, <1>2 DEF Ending

LEMMA ConsumeFollowed ==
    ASSUME NEW f, SyncOK(f), Followed, UNCHANGED <<ledgerVars, serverVars, stale>>, Consume,
           chan # <<>>, NEW m, m = Head(chan), Fits(Now, m), Now' = After(Now, m)
    PROVE  Followed'
<1>1. Ending' = Ending /\ chan' = Tail(chan) /\ UNCHANGED <<session, cstate>>
  BY ClientEnding DEF Consume
<1>2. chan \in Seq(Message)  BY DEF SyncOK, MsgsOK
<1>3. SUFFICES ASSUME cstate = "stream", ~stale
               PROVE Follow(After(Now, m), Tail(chan), session, Ending)
  BY <1>1 DEF Followed
<1>4. Follow(Now, chan, session, Ending)  BY <1>3 DEF Followed
<1>5. PICK v, E : v = Now /\ E = Ending  OBVIOUS
<1>6. Follow(After(v, m), Tail(chan), session, E)  BY <1>2, <1>4, <1>5, FollowTail
<1> QED BY <1>5, <1>6

LEMMA PointerFollowed ==
    ASSUME NEW f, SyncOK(f), Followed,
           HandleSubmitted \/ HandleConfirmed \/ HandleRevert \/ HandleMemPool
    PROVE  Followed'
<1>1. PICK m : m = Head(chan)  OBVIOUS
<1>2. UNCHANGED <<ledgerVars, serverVars, stale>> /\ chan # <<>>
  BY DEF HandleSubmitted, HandleConfirmed, HandleRevert, HandleMemPool, clientRest, Streaming
<1>3. CASE cstate' = "sync"  BY <1>3 DEF Followed
<1>4. Now' = [c |-> cchain', t |-> cTx', k |-> cConf']  BY DEF Now
<1>5. Now.c = cchain /\ Now.t = cTx /\ Now.k = cConf  BY DEF Now
<1>6. CASE HandleMemPool
  <2>1. m.kind \in {"mem", "push"} /\ Consume /\ UNCHANGED <<cchain, cTx, cConf>>
    BY <1>1, <1>6 DEF HandleMemPool, Streaming
  <2>2. Now \in Views  BY NowOK DEF ViewOK
  <2>3. After(Now, m) = Now /\ Fits(Now, m)  BY <2>1, <2>2, AfterSame
  <2>4. Now' = Now  BY <2>1 DEF Now
  <2> QED BY <1>1, <1>2, <2>1, <2>3, <2>4, ConsumeFollowed
<1>7. CASE HandleSubmitted /\ CheckNumberHash(m)
  <2>1. m.kind = "submitted" /\ Consume /\ UNCHANGED <<cchain, cConf>> /\ cTx' = cTx \cup {m.num}
    BY <1>1, <1>7 DEF HandleSubmitted, Streaming
  <2>2. Fits(Now, m)  BY <1>5, <1>7, <2>1 DEF Fits, CheckNumberHash
  <2>3. After(Now, m) = [c |-> cchain, t |-> cTx \cup {m.num}, k |-> cConf]
    BY <1>5, <2>1 DEF After, New
  <2> QED BY <1>1, <1>2, <1>4, <2>1, <2>2, <2>3, ConsumeFollowed
<1>8. CASE (HandleConfirmed \/ HandleRevert) /\ CheckNumberHash(m)
  <2>1. m.kind \in {"confirmed", "revert"} /\ Consume /\ UNCHANGED <<cchain, cTx>> /\ cConf' = m.num
    BY <1>1, <1>8 DEF HandleConfirmed, HandleRevert, Streaming
  <2>2. Fits(Now, m)  BY <1>5, <1>8, <2>1 DEF Fits, CheckNumberHash
  <2>3. After(Now, m) = [c |-> cchain, t |-> cTx, k |-> m.num]
    BY <1>5, <2>1 DEF After, New
  <2> QED BY <1>1, <1>2, <1>4, <2>1, <2>2, <2>3, ConsumeFollowed
<1>9. CASE ~CheckNumberHash(m) /\ (HandleSubmitted \/ HandleConfirmed \/ HandleRevert)
  BY <1>1, <1>3, <1>9 DEF HandleSubmitted, HandleConfirmed, HandleRevert, Disconnect
<1> QED BY <1>6, <1>7, <1>8, <1>9

LEMMA HandleLocalBlockFollowed ==
    ASSUME NEW f, SyncOK(f), Followed, HandleLocalBlock
    PROVE  Followed'
<1>1. PICK m : m = Head(chan)  OBVIOUS
<1>2. UNCHANGED <<ledgerVars, serverVars, stale>> /\ chan # <<>> /\ m.kind = "local"
      /\ UNCHANGED <<cConf, cTx>> /\ m.num \in Nat
  BY <1>1, Received DEF HandleLocalBlock, clientRest, Streaming
<1>3. Now' = [c |-> cchain', t |-> cTx, k |-> cConf]  BY <1>2 DEF Now
<1>4. Now.c = cchain /\ Now.t = cTx /\ Now.k = cConf /\ Now \in Views  BY NowOK DEF ViewOK
<1>5. CASE m.num <= Len(cchain) /\ cchain[m.num] = m.blk /\ Consume /\ UNCHANGED cchain
  <2>1. Attached(Now, m)  BY <1>4, <1>5 DEF Attached
  <2>2. After(Now, m) = Now /\ Fits(Now, m)  BY <1>2, <1>4, <2>1, AfterSame
  <2>3. Now' = Now  BY <1>3, <1>5 DEF Now
  <2> QED BY <1>1, <1>2, <1>5, <2>2, <2>3, ConsumeFollowed
<1>6. CASE /\ m.num > Len(cchain) /\ m.blk.par = TipOf(cchain) /\ m.num = Len(cchain) + 1
           /\ Consume /\ cchain' = Append(cchain, m.blk)
  <2>1. PICK s : s = cchain  OBVIOUS
  <2>2. ChainOf(f, s) /\ Len(s) \in Nat /\ cTx \subseteq 1..Len(s) /\ cConf \in 0..Len(s)
    BY <2>1, LenProperties DEF SyncOK, ClientOK, ChainOf
  <2>3. m.num - 1 = Len(s) /\ ~(m.num <= Len(s))  BY <1>6, <2>1, <2>2
  <2>4. SubSeq(s, 1, Len(s)) = s
    <3>1. PICK t : t = SubSeq(s, 1, Len(s))  OBVIOUS
    <3>2. Len(s) \in 0..Len(s)  BY <2>2
    <3>3. ChainOf(f, t) /\ Len(t) = Len(s) /\ \A i \in 1..Len(s) : t[i] = s[i]
      BY <2>2, <3>1, <3>2, ChainPrefix
    <3> QED BY <2>2, <3>1, <3>3, SeqEqual DEF ChainOf
  <2>5. New(Now, m) /\ Fits(Now, m)
    BY <1>2, <1>4, <1>6, <2>1, <2>3 DEF New, Fits, Attached, TipOf
  <2>6. {n \in cTx : n <= Len(s)} = cTx /\ Below(cConf, Len(s)) = cConf
    <3>1. \A n \in cTx : n <= Len(s)  BY <2>2
    <3>2. {n \in cTx : n <= Len(s)} = cTx  BY <3>1, Zenon
    <3> QED BY <2>2, <3>2 DEF Below
  <2>7. After(Now, m) = [c |-> Append(s, m.blk), t |-> cTx, k |-> cConf]
    BY <1>4, <2>1, <2>3, <2>4, <2>5, <2>6 DEF After
  <2> QED BY <1>1, <1>2, <1>3, <1>6, <2>1, <2>5, <2>7, ConsumeFollowed
<1>7. CASE cstate' = "sync"  BY <1>7 DEF Followed
<1> QED BY <1>1, <1>5, <1>6, <1>7 DEF HandleLocalBlock, Disconnect

LEMMA RevertForLocalFollowed ==
    ASSUME NEW f, SyncOK(f), Followed, RevertForLocal
    PROVE  Followed'
<1>1. PICK m, k : m = Head(chan) /\ k = m.num - 1  OBVIOUS
<1>2. /\ UNCHANGED <<ledgerVars, serverVars, stale, cstate, session, chan>> /\ chan # <<>>
      /\ m.kind = "local" /\ m.num \in Nat /\ MsgOK(f, l1, m)
  BY <1>1, Received DEF RevertForLocal, clientRest, Streaming
<1>3. /\ m.num <= Len(cchain) /\ cchain[m.num] # m.blk
      /\ cchain' = SubSeq(cchain, 1, k) /\ cConf' = Below(cConf, k)
      /\ cTx' = {n \in cTx : n <= k}
  BY <1>1 DEF RevertForLocal
<1>4. PICK v, w : v = Now /\ w = Now'  OBVIOUS
<1>5. v.c = cchain /\ v.t = cTx /\ v.k = cConf /\ v \in Views /\ ViewOK(f, l1, v)
  BY <1>4, NowOK DEF ViewOK
<1>6. PICK s : s = SubSeq(cchain, 1, k)  OBVIOUS
<1>7. w = [c |-> s, t |-> {n \in cTx : n <= k}, k |-> Below(cConf, k)]
  BY <1>3, <1>4, <1>6 DEF Now
<1>8. /\ ChainOf(f, cchain) /\ Len(cchain) \in Nat /\ cConf \in 0..Len(cchain) /\ cTx \subseteq 1..Len(cchain)
  BY LenProperties DEF SyncOK, ClientOK, ChainOf
<1>9. m.num # 0  BY <1>2 DEF MsgOK
<1>10. k \in 0..Len(cchain) /\ k + 1 = m.num /\ ~(m.num <= k)  BY <1>1, <1>2, <1>3, <1>8, <1>9
<1>11. ChainOf(f, s) /\ Len(s) = k /\ \A i \in 1..k : s[i] = cchain[i]
  BY <1>6, <1>8, <1>10, ChainPrefix
<1>12. w.c = s /\ w.t = {n \in cTx : n <= k} /\ w.k = Below(cConf, k)  BY <1>7
<1>13. ~Attached(v, m) /\ ~Attached(w, m)
  BY <1>3, <1>5, <1>10, <1>11, <1>12 DEF Attached
<1>14. IdAt(v.c, k) = IdAt(w.c, k)
  <2>1. k # 0 => k \in 1..k  BY <1>10
  <2> QED BY <1>5, <1>11, <1>12, <2>1 DEF IdAt
<1>15. Fits(v, m) <=> Fits(w, m)
  <2>1. m.num <= Len(v.c) + 1 /\ m.num <= Len(w.c) + 1
    BY <1>3, <1>5, <1>8, <1>10, <1>11, <1>12
  <2> QED BY <1>1, <1>2, <1>13, <1>14, <2>1 DEF Fits
<1>16. w \in Views
  <2>1. Below(cConf, k) \in Nat  BY <1>8, <1>10 DEF Below
  <2>2. {n \in cTx : n <= k} \subseteq Nat
    <3>1. \A n \in cTx : n \in Nat  BY <1>8
    <3> QED BY <3>1
  <2>3. s \in Seq(BlockRec)  BY <1>11 DEF ChainOf
  <2> QED BY <1>7, <2>1, <2>2, <2>3 DEF Views
<1>17. After(w, m) = After(v, m)
  <2>1. SubSeq(s, 1, k) = s
    <3>1. PICK t : t = SubSeq(s, 1, k)  OBVIOUS
    <3>2. k \in 0..Len(s)  BY <1>10, <1>11
    <3>3. ChainOf(f, t) /\ Len(t) = k /\ \A i \in 1..k : t[i] = s[i]
      BY <1>11, <3>1, <3>2, ChainPrefix
    <3> QED BY <1>11, <3>1, <3>3, SeqEqual DEF ChainOf
  <2>2. Below(Below(cConf, k), k) = Below(cConf, k)  BY <1>8, <1>10 DEF Below
  <2>3. {n \in {i \in cTx : i <= k} : n <= k} = {i \in cTx : i <= k}  OBVIOUS
  <2>4. New(v, m) /\ New(w, m)  BY <1>2, <1>13 DEF New
  <2>5. After(w, m) = [c |-> Append(s, m.blk), t |-> {i \in cTx : i <= k}, k |-> Below(cConf, k)]
    BY <1>1, <1>12, <2>1, <2>2, <2>3, <2>4 DEF After
  <2>6. After(v, m) = [c |-> Append(s, m.blk), t |-> {i \in cTx : i <= k}, k |-> Below(cConf, k)]
    BY <1>1, <1>5, <1>6, <2>4 DEF After
  <2> QED BY <2>5, <2>6
<1>18. Ending' = Ending  BY <1>2, ClientEnding
<1>19. SUFFICES ASSUME cstate = "stream", ~stale PROVE Follow(w, chan, session, Ending)
  BY <1>2, <1>4, <1>18 DEF Followed
<1>20. chan \in Seq(Message)  BY DEF SyncOK, MsgsOK
<1>21. PICK E : E = Ending  OBVIOUS
<1>22. Follow(v, chan, session, E)  BY <1>4, <1>19, <1>21 DEF Followed
<1>23. Clear(w, m)
  <2>1. w.k \in Nat /\ w.k <= k  BY <1>8, <1>10, <1>12 DEF Below
  <2>2. w.k < m.num  BY <1>10, <2>1
  <2> QED BY <2>2 DEF Clear
<1>24. Step(v, m) => Step(w, m)  BY <1>2, <1>23 DEF Step
<1>25. Follow(w, chan, session, E)
  BY <1>1, <1>2, <1>15, <1>16, <1>17, <1>20, <1>22, <1>23, <1>24, FollowOther
<1> QED BY <1>21, <1>25

LEMMA OtherFollowed ==
    ASSUME NEW f, SyncOK(f), Followed, ClientSync \/ AskAgain \/ StreamEnds \/ ConnectionLost
    PROVE  Followed'
<1>1. CASE cstate' # "stream"  BY <1>1 DEF Followed
<1>2. CASE ConnectionLost /\ cstate' = cstate /\ session' = FALSE
           /\ \E k \in 0..Len(chan) : chan' = SubSeq(chan, 1, k)
  <2>1. UNCHANGED <<cchain, cTx, cConf, stale>>  BY <1>2 DEF ConnectionLost, clientRest
  <2>2. PICK k \in 0..Len(chan) : chan' = SubSeq(chan, 1, k)  BY <1>2
  <2> QED BY <1>2, <2>1, <2>2, CutFollowed
<1> QED BY <1>1, <1>2 DEF ClientSync, AskAgain, StreamEnds, ConnectionLost, Disconnect

(***************************************************************************)
(* Listings.                                                               *)
(***************************************************************************)
\* A list of all elements without repetition names each of them.
LEMMA ListsAll ==
    ASSUME NEW S, IsFiniteSet(S), NEW k \in Nat, Cardinality(S) = k, NEW at \in [1..k -> S],
           \A i, j \in 1..k : i < j => at[i] # at[j]
    PROVE  \A p \in S : \E j \in 1..k : at[j] = p
<1>1. \A i, j \in 1..k : at[i] = at[j] => i = j
  <2>1. SUFFICES ASSUME NEW i \in 1..k, NEW j \in 1..k, at[i] = at[j], i # j PROVE FALSE  OBVIOUS
  <2>2. i < j \/ j < i  BY <2>1
  <2> QED BY <2>1, <2>2
<1>2. at \in Injection(1..k, S)  BY <1>1 DEF Injection, IsInjective
<1>3. Cardinality(1..k) = Cardinality(S)
  <2>1. PICK a \in Int, b \in Int : a = 1 /\ b = k  OBVIOUS
  <2>2. Cardinality(a..b) = IF a > b THEN 0 ELSE b - a + 1  BY FS_Interval
  <2> QED BY <2>1, <2>2
<1>4. at \in Surjection(1..k, S)  BY <1>2, <1>3, FS_Injection
<1> QED BY <1>4 DEF Surjection

LEMMA FiniteRange ==
    ASSUME NEW S, IsFiniteSet(S), NEW g, DOMAIN g = S, g = [x \in S |-> g[x]],
           NEW T, \A y : y \in T <=> \E x \in S : y = g[x]
    PROVE  IsFiniteSet(T)
<1>1. g \in [S -> T]  OBVIOUS
<1>2. g \in Surjection(S, T)  BY <1>1 DEF Surjection
<1> QED BY <1>2, FS_Surjection

\* There are finitely many messages to resend.
LEMMA MessagesFinite ==
    ASSUME NEW f, SyncOK(f), IsFiniteSet(DOMAIN buffer), NEW n
    PROVE  IsFiniteSet(MessagesAfter(n))
<1>1. PICK K : K = {m \in DOMAIN buffer : m > n}  OBVIOUS
<1>2. IsFiniteSet(K)
  <2>1. K \subseteq DOMAIN buffer  BY <1>1
  <2> QED BY <2>1, FS_Subset
<1> DEFINE G(k) == {<<k, i>> : i \in DOMAIN buffer[k].msgs}
<1>3. PICK g : g = [k \in K |-> G(k)]  OBVIOUS
<1>4. PICK U : U = {G(k) : k \in K}  OBVIOUS
<1>5. IsFiniteSet(U)
  <2>1. DOMAIN g = K /\ \A k \in K : g[k] = G(k)  BY <1>3
  <2>2. g = [k \in K |-> g[k]]  BY <1>3
  <2> HIDE DEF G
  <2>3. \A y : y \in U <=> \E x \in K : y = g[x]  BY <1>4, <2>1
  <2> QED BY <1>2, <2>1, <2>2, <2>3, FiniteRange
<1>6. ASSUME NEW k \in K PROVE IsFiniteSet(G(k))
  <2>1. k \in DOMAIN buffer  BY <1>1
  <2>2. PICK q : q = Len(buffer[k].msgs)  OBVIOUS
  <2>3. q \in Nat /\ DOMAIN buffer[k].msgs = 1..q
    <3>1. buffer[k].msgs \in Seq(Message)  BY <2>1, EntryTyped DEF SyncOK
    <3> QED BY <2>2, <3>1, LenProperties
  <2>4. IsFiniteSet(1..q)
    <3>1. PICK a \in Int, b \in Int : a = 1 /\ b = q  BY <2>3
    <3>2. IsFiniteSet(a..b)  BY FS_Interval
    <3> QED BY <3>1, <3>2
  <2>5. PICK z : z = [i \in 1..q |-> <<k, i>>]  OBVIOUS
  <2>6. DOMAIN z = 1..q /\ z = [i \in 1..q |-> z[i]] /\ \A i \in 1..q : z[i] = <<k, i>>  BY <2>5
  <2>7. PICK T : T = G(k)  OBVIOUS
  <2>8. \A y : y \in T <=> \E i \in 1..q : y = z[i]  BY <2>3, <2>6, <2>7
  <2>9. IsFiniteSet(T)
    <3>1. PICK I : I = 1..q  OBVIOUS
    <3>2. IsFiniteSet(I) /\ DOMAIN z = I /\ z = [i \in I |-> z[i]]  BY <2>4, <2>6, <3>1
    <3>3. \A y : y \in T <=> \E i \in I : y = z[i]  BY <2>8, <3>1
    <3> QED BY <3>2, <3>3, FiniteRange
  <2> QED BY <2>7, <2>9
<1>7. \A T \in U : IsFiniteSet(T)
  <2> HIDE DEF G
  <2> QED BY <1>4, <1>6
<1>8. IsFiniteSet(UNION U)  BY <1>5, <1>7, FS_UNION
<1>9. MessagesAfter(n) = UNION U  BY <1>1, <1>4 DEF MessagesAfter
<1> QED BY <1>8, <1>9

\* Messages for the mem pool leave a view as it is.
LEMMA GapConstant ==
    ASSUME NEW v, NEW ms, NEW n, NEW d, NEW h, Steady(v, ms, n, d, h),
           NEW a \in 0..d, NEW b \in 0..d, a <= b,
           \A p \in a + 1..b : ms[p].kind \in {"mem", "push"}
    PROVE  h[b] = h[a]
<1> d \in Nat /\ n \in Nat /\ h \in [0..d -> Views]  BY DEF Steady, Replay
<1>1. PICK q : q = b - a  OBVIOUS
<1>2. q \in Nat /\ a + q = b  BY <1>1
<1> DEFINE T == {i \in 0..q : h[a + i] = h[a]}
<1>3. 0 \in T  BY <1>2
<1>4. ASSUME NEW i \in 0..q, i < q, i \in T PROVE i + 1 \in T
  <2>1. PICK p : p = (a + i) + 1  OBVIOUS
  <2>2. p \in a + 1..b /\ p \in 1..d /\ p - 1 = a + i /\ p - 1 \in 0..d /\ a + (i + 1) = p /\ i + 1 \in 0..q
    BY <1>2, <1>4, <2>1
  <2>3. h[p] = After(h[p - 1], ms[p]) /\ ms[p].kind \in {"mem", "push"}
    BY <2>2 DEF Steady, Replay
  <2>4. PICK w, m : w = h[p - 1] /\ m = ms[p]  OBVIOUS
  <2>5. w \in Views  BY <2>2, <2>4
  <2>6. After(w, m) = w  BY <2>3, <2>4, <2>5, AfterSame
  <2>7. h[p] = h[a]  BY <1>4, <2>2, <2>3, <2>4, <2>6
  <2> QED BY <2>2, <2>7
<1>5. \A i \in 0..q : i \in T
  <2> HIDE DEF T
  <2> QED BY <1>2, <1>3, <1>4, NatInd
<1>6. q \in T
  <2>1. q \in 0..q  BY <1>2
  <2> HIDE DEF T
  <2> QED BY <1>5, <2>1
<1> QED BY <1>2, <1>6

LEMMA SkipMemPoolFollowed ==
    ASSUME NEW f, SyncOK(f), Followed, SkipMemPool
    PROVE  Followed'
<1>1. PICK N : N = Len(chan)  OBVIOUS
<1>2. N \in Nat /\ chan \in Seq(Message)  BY <1>1, LenProperties DEF SyncOK, MsgsOK
<1>3. UNCHANGED <<cstate, stale, session>> /\ Ending' = Ending /\ Now' = Now
  <2>1. UNCHANGED <<cstate, stale, session, cchain, cTx, cConf, ledgerVars, serverVars>>
    BY DEF SkipMemPool, clientRest
  <2> QED BY <2>1, ClientEnding DEF Now
<1>4. PICK keep, n, at : Skips(keep, n, at, chan')  BY SkipFacts
<1>5. PICK t : t = [j \in 1..n |-> chan[at[j]]]  OBVIOUS
<1>6. /\ keep \subseteq 1..N /\ n \in 1..N /\ Cardinality(keep) = n
      /\ at \in [1..n -> keep] /\ (\A i, j \in 1..n : i < j => at[i] < at[j])
      /\ (\A i \in 1..N : chan[i].kind \notin {"mem", "push"} => i \in keep)
      /\ chan' = t
  BY <1>1, <1>4, <1>5 DEF Skips
<1>7. n \in Nat /\ \A j \in 1..n : at[j] \in keep /\ at[j] \in 1..N /\ at[j] \in Nat /\ t[j] = chan[at[j]]
  <2>1. n \in Nat /\ keep \subseteq 1..N /\ at \in [1..n -> keep]  BY <1>2, <1>6
  <2>2. \A p \in 1..N : p \in Nat  BY <1>2
  <2>3. SUFFICES ASSUME NEW j \in 1..n
                 PROVE  at[j] \in keep /\ at[j] \in 1..N /\ at[j] \in Nat /\ t[j] = chan[at[j]]
    BY <2>1
  <2>4. at[j] \in keep  BY <2>1
  <2>5. at[j] \in 1..N  BY <2>1, <2>4
  <2>6. at[j] \in Nat  BY <2>2, <2>5
  <2>7. t[j] = chan[at[j]]  BY <1>5
  <2> QED BY <2>4, <2>5, <2>6, <2>7
<1>8. Len(t) = n
  <2>1. \A j \in 1..n : t[j] \in Message  BY <1>1, <1>2, <1>7, ElementOfSeq
  <2>2. t = [j \in 1..n |-> t[j]]  BY <1>5
  <2> QED BY <1>7, <2>1, <2>2
<1>9. \A p \in keep : \E j \in 1..n : at[j] = p
  <2>1. IsFiniteSet(keep)
    <3>1. PICK a \in Int, b \in Int : a = 1 /\ b = N  BY <1>2
    <3>2. IsFiniteSet(a..b)  BY FS_Interval
    <3> QED BY <1>6, <3>1, <3>2, FS_Subset
  <2>2. \A i, j \in 1..n : i < j => at[i] # at[j]  BY <1>6, <1>7
  <2>3. n \in Nat /\ Cardinality(keep) = n /\ at \in [1..n -> keep]  BY <1>6, <1>7
  <2> QED BY <2>1, <2>2, <2>3, ListsAll
<1>10. SUFFICES ASSUME cstate = "stream", ~stale PROVE Follow(Now, t, session, Ending)
  BY <1>3, <1>6 DEF Followed
<1>11. PICK v, E : v = Now /\ E = Ending  OBVIOUS
<1>12. PICK d, h : Steady(v, chan, N, d, h) /\ (session /\ d = N => h[d] \in E)
  BY <1>1, <1>10, <1>11 DEF Followed, Follow
<1>13. d \in Nat /\ d <= N /\ h \in [0..d -> Views] /\ h[0] = v  BY <1>12 DEF Steady, Replay
<1>14. PICK e \in 0..n : (e # 0 => at[e] <= d) /\ \A j \in 1..n : at[j] <= d => j <= e
  <2> DEFINE U == {j \in 0..n : j = 0 \/ at[j] <= d}
  <2>1. U \subseteq Nat /\ U # {} /\ \A x \in U : x <= n
    <3>1. 0 \in U  BY <1>7
    <3> QED BY <1>7, <3>1
  <2>2. PICK e \in U : \A y \in U : y <= e
    <3> HIDE DEF U
    <3> QED BY <1>7, <2>1, GreatestNat
  <2> QED BY <1>7, <2>2
<1>15. e \in Nat /\ e <= n  BY <1>7
<1>16. PICK P : P = [j \in 0..e |-> IF j = 0 THEN 0 ELSE at[j]]  OBVIOUS
<1>17. P[0] = 0 /\ \A j \in 1..e : P[j] = at[j] /\ j \in 1..n /\ at[j] <= d
  <2>1. \A j \in 1..e : j \in 0..e /\ j # 0 /\ j \in 1..n  BY <1>7, <1>15
  <2>2. \A j \in 1..e : at[j] <= d
    <3>1. SUFFICES ASSUME NEW j \in 1..e PROVE at[j] <= d  OBVIOUS
    <3>2. CASE j = e  BY <1>14, <2>1, <3>2
    <3>3. CASE j # e
      <4>1. j < e /\ e \in 1..e  BY <1>15, <3>3
      <4>2. at[j] < at[e] /\ at[e] <= d /\ at[j] \in Nat /\ at[e] \in Nat
        BY <1>6, <1>7, <1>14, <2>1, <4>1
      <4> QED BY <1>13, <4>2
    <3> QED BY <3>2, <3>3
  <2>3. 0 \in 0..e  BY <1>15
  <2> QED BY <1>16, <2>1, <2>2, <2>3
<1>18. \A j \in 0..e : P[j] \in 0..d
  <2>1. SUFFICES ASSUME NEW j \in 0..e PROVE P[j] \in 0..d  OBVIOUS
  <2>2. CASE j = 0  BY <1>13, <1>17, <2>2
  <2>3. CASE j # 0
    <3>1. j \in 1..e  BY <1>15, <2>3
    <3>2. P[j] = at[j] /\ at[j] \in Nat /\ at[j] <= d  BY <1>7, <1>17, <3>1
    <3> QED BY <1>13, <3>2
  <2> QED BY <2>2, <2>3
<1>19. \A j \in 0..e : \A i \in 1..n : P[j] < at[i] => j < i
  <2>1. SUFFICES ASSUME NEW j \in 0..e, NEW i \in 1..n, P[j] < at[i], ~(j < i) PROVE FALSE
    OBVIOUS
  <2>2. j \in 1..e /\ i <= j  BY <1>7, <1>15, <2>1
  <2>3. P[j] = at[j] /\ j \in 1..n  BY <1>17, <2>2
  <2>4. CASE i = j  BY <1>7, <2>1, <2>3, <2>4
  <2>5. CASE i < j
    <3>1. at[i] < at[j] /\ at[i] \in Nat /\ at[j] \in Nat  BY <1>6, <1>7, <2>3, <2>5
    <3> QED BY <2>1, <2>3, <3>1
  <2> QED BY <1>7, <2>2, <2>4, <2>5
<1>20. PICK g : g = [j \in 0..e |-> h[P[j]]]  OBVIOUS
<1>21. g \in [0..e -> Views] /\ (\A j \in 0..e : g[j] = h[P[j]]) /\ g[0] = v
  <2>1. 0 \in 0..e  BY <1>15
  <2> QED BY <1>13, <1>17, <1>18, <1>20, <2>1
<1>22. ASSUME NEW j \in 1..e
       PROVE  Fits(g[j - 1], t[j]) /\ g[j] = After(g[j - 1], t[j]) /\ Step(g[j - 1], t[j])
  <2>1. j - 1 \in 0..e /\ j \in 0..e /\ ~(j < j) /\ j - 1 < j  BY <1>15
  <2>2. PICK a, b, c : a = P[j - 1] /\ b = P[j] - 1 /\ c = P[j]  OBVIOUS
  <2>3. c = at[j] /\ j \in 1..n /\ c \in 1..N /\ c <= d  BY <1>7, <1>17, <2>2
  <2>4. a \in 0..d /\ c \in 0..d  BY <1>18, <2>1, <2>2
  <2>5. a < c
    <3>1. CASE j = 1
      <4>1. j - 1 = 0  BY <3>1
      <4>2. a = 0  BY <1>17, <2>2, <4>1
      <4> QED BY <2>3, <4>2
    <3>2. CASE j # 1
      <4>1. j - 1 \in 1..e  BY <1>15, <3>2
      <4>2. a = at[j - 1] /\ j - 1 \in 1..n  BY <1>17, <2>2, <4>1
      <4> QED BY <1>6, <2>1, <2>3, <4>2
    <3> QED BY <3>1, <3>2
  <2>6. b \in 0..d /\ a <= b /\ c \in 1..d /\ c - 1 = b  BY <1>13, <2>2, <2>4, <2>5
  <2>7. ASSUME NEW p \in a + 1..b PROVE chan[p].kind \in {"mem", "push"}
    <3>1. p \in 1..N /\ a < p /\ p < c  BY <1>2, <1>13, <2>3, <2>4, <2>6
    <3>2. SUFFICES ASSUME p \in keep PROVE FALSE  BY <1>6, <3>1
    <3>3. PICK i \in 1..n : at[i] = p  BY <1>9, <3>2
    <3>4. j - 1 < i  BY <1>19, <2>1, <2>2, <3>1, <3>3
    <3>5. i < j
      <4>1. SUFFICES ASSUME ~(i < j) PROVE FALSE  OBVIOUS
      <4>2. i = j \/ j < i  BY <1>7, <2>3, <4>1
      <4>3. at[j] <= at[i]  BY <1>6, <1>7, <2>3, <4>2
      <4> QED BY <2>3, <3>1, <3>3, <4>3
    <3> QED BY <1>7, <1>15, <3>4, <3>5
  <2>8. h[b] = h[a]  BY <1>12, <2>4, <2>6, <2>7, GapConstant
  <2>9. g[j - 1] = h[c - 1] /\ g[j] = h[c] /\ t[j] = chan[c]
    BY <1>7, <1>21, <2>1, <2>2, <2>3, <2>6, <2>8
  <2>10. Fits(h[c - 1], chan[c]) /\ h[c] = After(h[c - 1], chan[c]) /\ Step(h[c - 1], chan[c])
    BY <1>12, <2>6 DEF Steady, Replay
  <2> QED BY <2>9, <2>10
<1>23. h[d] = g[e]
  <2>1. e \in 0..e /\ d \in 0..d  BY <1>13, <1>15
  <2>2. PICK a : a = P[e]  OBVIOUS
  <2>3. a \in 0..d /\ a <= d  BY <1>13, <1>18, <2>1, <2>2
  <2>4. ASSUME NEW p \in a + 1..d PROVE chan[p].kind \in {"mem", "push"}
    <3>1. p \in 1..N /\ a < p /\ p <= d  BY <1>2, <1>13, <2>3
    <3>2. SUFFICES ASSUME p \in keep PROVE FALSE  BY <1>6, <3>1
    <3>3. PICK i \in 1..n : at[i] = p  BY <1>9, <3>2
    <3>4. e < i  BY <1>19, <2>1, <2>2, <3>1, <3>3
    <3>5. i <= e  BY <1>14, <3>1, <3>3
    <3> QED BY <1>7, <1>15, <3>4, <3>5
  <2>5. h[d] = h[a]  BY <1>12, <2>1, <2>3, <2>4, GapConstant
  <2> QED BY <1>21, <2>1, <2>2, <2>5
<1>24. ASSUME d < N
       PROVE  e < n /\ ~Fits(g[e], t[e + 1]) /\ Clear(g[e], t[e + 1])
  <2>1. ~Fits(h[d], chan[d + 1]) /\ Clear(h[d], chan[d + 1]) /\ d + 1 \in 1..N /\ d \in 0..d
    BY <1>2, <1>12, <1>13, <1>24 DEF Steady, Replay
  <2>2. d + 1 \in keep
    <3>1. SUFFICES ASSUME chan[d + 1].kind \in {"mem", "push"} PROVE FALSE  BY <1>6, <2>1
    <3>2. PICK m, w : m = chan[d + 1] /\ w = h[d]  OBVIOUS
    <3>3. w \in Views  BY <1>13, <2>1, <3>2
    <3>4. Fits(w, m)  BY <3>1, <3>2, <3>3, AfterSame
    <3> QED BY <2>1, <3>2, <3>4
  <2>3. PICK i \in 1..n : at[i] = d + 1  BY <1>9, <2>2
  <2>4. e < i
    <3>1. SUFFICES ASSUME ~(e < i) PROVE FALSE  OBVIOUS
    <3>2. i \in 1..e  BY <1>7, <1>15, <3>1
    <3>3. at[i] <= d  BY <1>17, <3>2
    <3> QED BY <1>13, <2>3, <3>3
  <2>5. e + 1 \in 1..n /\ e < n /\ ~(e + 1 <= e) /\ (e + 1 = i \/ e + 1 < i)  BY <1>7, <1>15, <2>4
  <2>6. at[e + 1] <= d + 1 /\ at[e + 1] \in Nat  BY <1>6, <1>7, <1>13, <2>3, <2>5
  <2>7. ~(at[e + 1] <= d)  BY <1>14, <2>5
  <2>8. at[e + 1] = d + 1  BY <1>13, <2>6, <2>7
  <2>9. t[e + 1] = chan[d + 1]  BY <1>7, <2>5, <2>8
  <2> QED BY <1>23, <2>1, <2>5, <2>9
<1>25. e < n => d < N
  <2>1. SUFFICES ASSUME e < n PROVE d < N  OBVIOUS
  <2>2. e + 1 \in 1..n /\ ~(e + 1 <= e)  BY <1>7, <1>15, <2>1
  <2>3. ~(at[e + 1] <= d) /\ at[e + 1] \in 1..N  BY <1>7, <1>14, <2>2
  <2> QED BY <1>2, <1>13, <2>3
<1>26. Replay(v, t, n, e, g)  BY <1>7, <1>15, <1>21, <1>22, <1>24, <1>25 DEF Replay
<1>27. Steady(v, t, n, e, g)  BY <1>22, <1>24, <1>25, <1>26 DEF Steady
<1>28. session /\ e = n => g[e] \in E
  <2>1. e = n => d = N  BY <1>2, <1>13, <1>15, <1>24
  <2> QED BY <1>12, <1>23, <2>1
<1> QED BY <1>8, <1>11, <1>27, <1>28 DEF Follow

(***************************************************************************)
(* A new session: the messages of the buffer above the confirmed block.    *)
(***************************************************************************)
Ann(n) == n \in DOMAIN buffer /\ buffer[n].hash # NoHash

\* Message j comes from place I[j] of entry N[j]; every place above the confirmed block
\* is there, in order.
Resending(k, N, I, t) ==
    /\ k \in Nat /\ Len(t) = k
    /\ \A j \in 1..k : /\ N[j] \in DOMAIN buffer /\ N[j] > cConf /\ N[j] \in Nat /\ I[j] \in Nat
                       /\ I[j] \in 1..Len(buffer[N[j]].msgs) /\ t[j] = buffer[N[j]].msgs[I[j]]
    /\ \A n \in DOMAIN buffer : n > cConf =>
          \A i \in 1..Len(buffer[n].msgs) : \E j \in 1..k : N[j] = n /\ I[j] = i
    /\ \A i, j \in 1..k : i < j => N[i] < N[j] \/ (N[i] = N[j] /\ I[i] < I[j])

LEMMA SubscribeResends ==
    ASSUME NEW f, SyncOK(f), BufferInv, Subscribe
    PROVE  (\E k, N, I : Resending(k, N, I, chan')) /\ MsgsOK(f, l1, chan')
<1>1. MsgsOK(f, l1, chan')
  <2>1. SyncOK(f)' /\ UNCHANGED l1  BY SubscribeOK DEF Subscribe, ledgerVars
  <2> QED BY <2>1 DEF SyncOK
<1>2. PICK k, at : Resent(k, at, chan')  BY SubscribeFacts
<1>3. PICK S : S = MessagesAfter(cConf)  OBVIOUS
<1>4. /\ k \in Nat /\ Cardinality(S) = k /\ at \in [1..k -> S]
      /\ \A i, j \in 1..k : i < j => Before(at[i], at[j])
  BY <1>2, <1>3 DEF Resent, Lists
<1>5. PICK t : t = [j \in 1..k |-> buffer[at[j][1]].msgs[at[j][2]]]  OBVIOUS
<1>6. chan' = t  BY <1>2, <1>5 DEF Resent
<1>7. \A n \in DOMAIN buffer : n \in Nat /\ DOMAIN buffer[n].msgs = 1..Len(buffer[n].msgs)
                               /\ Len(buffer[n].msgs) \in Nat
  <2>1. SUFFICES ASSUME NEW n \in DOMAIN buffer
                 PROVE  n \in Nat /\ DOMAIN buffer[n].msgs = 1..Len(buffer[n].msgs)
                        /\ Len(buffer[n].msgs) \in Nat
    OBVIOUS
  <2>2. n \in Nat /\ buffer[n].msgs \in Seq(Message)  BY EntryTyped DEF SyncOK
  <2> QED BY <2>2, LenProperties
<1>8. \A p \in S : \E n \in DOMAIN buffer : \E i \in 1..Len(buffer[n].msgs) : n > cConf /\ p = <<n, i>>
  BY <1>3, <1>7 DEF MessagesAfter
<1>9. \A n \in DOMAIN buffer : n > cConf => \A i \in 1..Len(buffer[n].msgs) : <<n, i>> \in S
  BY <1>3, <1>7 DEF MessagesAfter
<1>10. PICK N, I : N = [j \in 1..k |-> at[j][1]] /\ I = [j \in 1..k |-> at[j][2]]  OBVIOUS
<1>11. ASSUME NEW j \in 1..k
       PROVE  /\ N[j] \in DOMAIN buffer /\ N[j] > cConf /\ N[j] \in Nat /\ I[j] \in Nat
              /\ I[j] \in 1..Len(buffer[N[j]].msgs) /\ t[j] = buffer[N[j]].msgs[I[j]]
              /\ at[j] = <<N[j], I[j]>>
  <2>1. at[j] \in S  BY <1>4
  <2>2. PICK n \in DOMAIN buffer : \E i \in 1..Len(buffer[n].msgs) : n > cConf /\ at[j] = <<n, i>>
    BY <1>8, <2>1
  <2>3. PICK i \in 1..Len(buffer[n].msgs) : n > cConf /\ at[j] = <<n, i>>  BY <2>2
  <2>4. N[j] = n /\ I[j] = i  BY <1>10, <2>3
  <2>5. t[j] = buffer[n].msgs[i]  BY <1>5, <2>3
  <2>6. i \in Nat  BY <1>7, <2>3
  <2> QED BY <1>7, <2>3, <2>4, <2>5, <2>6
<1>12. \A i, j \in 1..k : i < j => N[i] < N[j] \/ (N[i] = N[j] /\ I[i] < I[j])
  BY <1>4, <1>10 DEF Before
<1>13. \A p \in S : \E j \in 1..k : at[j] = p
  <2>1. IsFiniteSet(S)  BY <1>3, MessagesFinite DEF BufferInv, Shape
  <2>2. \A i, j \in 1..k : i < j => at[i] # at[j]
    <3>1. SUFFICES ASSUME NEW i \in 1..k, NEW j \in 1..k, i < j, at[i] = at[j] PROVE FALSE
      OBVIOUS
    <3>2. N[i] = N[j] /\ I[i] = I[j]  BY <1>10, <3>1
    <3>3. N[i] < N[j] \/ I[i] < I[j]  BY <1>12, <3>1
    <3>4. N[i] \in Nat /\ I[i] \in Nat  BY <1>11
    <3> QED BY <3>2, <3>3, <3>4
  <2> QED BY <1>4, <2>1, <2>2, ListsAll
<1>14. ASSUME NEW n \in DOMAIN buffer, n > cConf, NEW i \in 1..Len(buffer[n].msgs)
       PROVE  \E j \in 1..k : N[j] = n /\ I[j] = i
  <2>1. <<n, i>> \in S  BY <1>9, <1>14
  <2>2. PICK j \in 1..k : at[j] = <<n, i>>  BY <1>13, <2>1
  <2>3. N[j] = n /\ I[j] = i  BY <1>10, <2>2
  <2> QED BY <2>3
<1>15. Len(t) = k
  <2>1. \A j \in 1..k : t[j] \in Message
    <3>1. SUFFICES ASSUME NEW j \in 1..k PROVE t[j] \in Message  OBVIOUS
    <3>2. MsgsOK(f, l1, buffer[N[j]].msgs)  BY <1>11, EntryTyped DEF SyncOK
    <3> QED BY <1>11, <3>2, MsgTyped
  <2>2. t = [j \in 1..k |-> t[j]]  BY <1>5
  <2> QED BY <1>4, <2>1, <2>2
<1>16. Resending(k, N, I, t)  BY <1>4, <1>11, <1>12, <1>14, <1>15 DEF Resending
<1> QED BY <1>1, <1>6, <1>16

\* What a message of an entry is.
LEMMA PlaceFacts ==
    ASSUME NEW f, SyncOK(f), BufferInv, NEW n \in DOMAIN buffer,
           NEW i \in 1..Len(buffer[n].msgs), NEW m, m = buffer[n].msgs[i]
    PROVE  /\ m.kind \in {"local", "mem", "submitted", "confirmed", "push"} /\ n \in Nat /\ n # 0
           /\ m.kind = "local" => i = 1 /\ m.num = n /\ Ann(n) /\ m.blk.id = buffer[n].hash
           /\ m.kind = "mem" => i = 1 /\ m.num = n
           /\ m.kind = "submitted" => i # 1 /\ m.num = n
           /\ m.kind = "confirmed" => /\ i # 1 /\ m.num = n /\ n <= Limit
                                      /\ \E q \in 2..i - 1 : buffer[n].msgs[q].kind = "submitted"
<1>1. PICK e : e = buffer[n]  OBVIOUS
<1>2. n \in Nat /\ Len(e.msgs) \in Nat  BY <1>1, EntryTyped DEF SyncOK
<1>3. Opens(n, e) /\ Continues(n, e.msgs) /\ SeenOK(e.msgs, Limit) /\ Paired(e, Due)
  BY <1>1 DEF BufferInv, Shape, EntryShape
<1>4. CASE i = 1  BY <1>1, <1>2, <1>3, <1>4 DEF Opens, Ann
<1>5. CASE i # 1
  <2>1. i \in 2..Len(e.msgs)  BY <1>1, <1>2, <1>5
  <2>2. /\ m.kind \in {"submitted", "confirmed", "push"} /\ (m.kind # "push" => m.num = n)
    BY <1>1, <1>3, <2>1 DEF Continues
  <2>3. m.kind = "confirmed" => m.num <= Limit  BY <1>1, <1>3 DEF SeenOK
  <2>4. m.kind = "confirmed" => Told(e.msgs, i - 1, m.blk.id)
    BY <1>1, <1>3, <2>1 DEF Paired
  <2>5. m.kind = "confirmed" => \E q \in 2..i - 1 : e.msgs[q].kind = "submitted"
    BY <2>4 DEF Told
  <2> QED BY <1>1, <1>2, <1>3, <1>5, <2>2, <2>3, <2>5 DEF Opens
<1> QED BY <1>4, <1>5

\* An announced block.
LEMMA AnnFacts ==
    ASSUME NEW f, SyncOK(f), BufferInv, NEW n, Ann(n)
    PROVE  /\ n \in DOMAIN buffer /\ n \in Nat /\ n # 0 /\ 1 \in 1..Len(buffer[n].msgs)
           /\ buffer[n].msgs[1].kind = "local" /\ buffer[n].msgs[1].blk.id = buffer[n].hash
           /\ buffer[n].hash \in Due =>
                 \E q \in 2..Len(buffer[n].msgs) : buffer[n].msgs[q].kind = "submitted"
<1>1. n \in DOMAIN buffer /\ buffer[n].hash # NoHash  BY DEF Ann
<1>2. PICK e : e = buffer[n]  OBVIOUS
<1>3. n \in Nat /\ Len(e.msgs) \in Nat  BY <1>1, <1>2, EntryTyped DEF SyncOK
<1>4. Opens(n, e) /\ Paired(e, Due)  BY <1>1, <1>2 DEF BufferInv, Shape, EntryShape
<1> QED BY <1>1, <1>2, <1>3, <1>4 DEF Opens, Paired, Told

\* What is known of the view after j messages.
Resumed(w, j, N, t) ==
    /\ cConf <= Len(w.c) /\ (\A i \in 1..cConf : w.c[i] = cchain[i] /\ (i \in cTx => i \in w.t))
    /\ \A i \in cConf + 1..Len(w.c) : Ann(i)
    /\ \A q \in 1..j : t[q].kind = "local" => N[q] <= Len(w.c) /\ w.c[N[q]] = t[q].blk
    /\ \A q \in 1..j : t[q].kind = "submitted" => N[q] \in w.t
    /\ w.k <= cConf \/ (j # 0 /\ w.k <= N[j] /\ w.k <= Limit)

LEMMA ResumedStart ==
    ASSUME NEW f, SyncOK(f), Announced, NEW N, NEW t
    PROVE  Resumed(Now, 0, N, t)
<1>1. Now.c = cchain /\ Now.t = cTx /\ Now.k = cConf  BY DEF Now
<1>2. cConf \in 0..Len(cchain) /\ Len(cchain) \in Nat  BY LenProperties DEF SyncOK, ClientOK, ChainOf
<1> QED BY <1>1, <1>2 DEF Resumed, Announced, Ann

\* A message that comes from an earlier entry, or from an earlier place of the entry, has
\* been applied.
LEMMA Earlier ==
    ASSUME NEW k, NEW N, NEW I, NEW t, Resending(k, N, I, t), NEW j \in 1..k,
           NEW n \in DOMAIN buffer, n > cConf, n \in Nat, NEW i \in 1..Len(buffer[n].msgs), i \in Nat,
           n < N[j] \/ (n = N[j] /\ i < I[j])
    PROVE  \E q \in 1..j - 1 : N[q] = n /\ I[q] = i /\ t[q] = buffer[n].msgs[i]
<1>1. PICK q \in 1..k : N[q] = n /\ I[q] = i  BY DEF Resending
<1>2. t[q] = buffer[n].msgs[i]  BY <1>1 DEF Resending
<1>3. k \in Nat /\ N[j] \in Nat /\ I[j] \in Nat  BY DEF Resending
<1>4. q < j
  <2>1. SUFFICES ASSUME ~(q < j) PROVE FALSE  OBVIOUS
  <2>2. CASE q = j  BY <1>1, <1>3, <2>2
  <2>3. CASE j < q
    <3>1. N[j] < N[q] \/ (N[j] = N[q] /\ I[j] < I[q])  BY <2>3 DEF Resending
    <3> QED BY <1>1, <1>3, <3>1
  <2> QED BY <1>3, <2>1, <2>2, <2>3
<1>5. q \in 1..j - 1  BY <1>3, <1>4
<1> QED BY <1>1, <1>2, <1>5

\* What comes before a local block is about lower numbers.
LEMMA BeforeLocal ==
    ASSUME NEW k, NEW N, NEW I, NEW t, Resending(k, N, I, t), NEW j \in 1..k, I[j] = 1,
           NEW q \in 1..j - 1
    PROVE  N[q] < N[j]
<1>1. k \in Nat /\ q \in 1..k /\ q < j  BY DEF Resending
<1>2. N[q] < N[j] \/ (N[q] = N[j] /\ I[q] < I[j])  BY <1>1 DEF Resending
<1>3. I[q] \in 1..Len(buffer[N[q]].msgs) /\ I[q] \in Nat  BY <1>1 DEF Resending
<1>4. ~(I[q] < 1)  BY <1>3
<1> QED BY <1>2, <1>4

\* A local block is applied.
LEMMA ResumedLocal ==
    ASSUME NEW f, SyncOK(f), BufferInv, NEW k, NEW N, NEW I, NEW t, Resending(k, N, I, t),
           NEW j \in Nat, NEW i \in 1..k, i = j + 1, NEW w, ViewOK(f, l1, w), Resumed(w, j, N, t),
           NEW m, m = t[i], MsgOK(f, l1, m), m.kind = "local"
    PROVE  Takes(w, m, {u \in Views : Resumed(u, i, N, t)})
<1> PICK n : n = N[i]  OBVIOUS
<1>1. /\ n \in DOMAIN buffer /\ n > cConf /\ n \in Nat /\ I[i] \in 1..Len(buffer[n].msgs)
      /\ m = buffer[n].msgs[I[i]] /\ k \in Nat
  BY DEF Resending
<1>2. PICK a : a = I[i]  OBVIOUS
<1>3. a \in 1..Len(buffer[n].msgs) /\ m = buffer[n].msgs[a]  BY <1>1, <1>2
<1>4. a = 1 /\ m.num = n /\ Ann(n) /\ n # 0  BY <1>1, <1>3, PlaceFacts
<1>5. \A q \in 1..j : N[q] < n /\ N[q] > cConf /\ N[q] \in Nat
  <2>1. SUFFICES ASSUME NEW q \in 1..j PROVE N[q] < n /\ N[q] > cConf /\ N[q] \in Nat  OBVIOUS
  <2>2. q \in 1..i - 1 /\ q \in 1..k  BY <1>1
  <2>3. N[q] < n  BY <1>2, <1>4, <2>2, BeforeLocal
  <2> QED BY <2>2, <2>3 DEF Resending
<1>6. /\ w \in Views /\ Len(w.c) \in Nat /\ w.k \in Nat /\ w.t \subseteq 1..Len(w.c)
      /\ cConf \in Nat /\ Limit \in Nat
  <2>1. cConf \in Nat /\ lastConf \in Nat /\ Len(l1) \in Nat
    BY LenProperties DEF SyncOK, ClientOK, ChainOf, NodeOK
  <2> QED BY <2>1, ViewFacts DEF ViewOK, Limit
<1>7. /\ cConf <= Len(w.c) /\ (\A x \in 1..cConf : w.c[x] = cchain[x] /\ (x \in cTx => x \in w.t))
      /\ \A x \in cConf + 1..Len(w.c) : Ann(x)
  BY DEF Resumed
<1>8. /\ \A q \in 1..j : t[q].kind = "local" => N[q] <= Len(w.c) /\ w.c[N[q]] = t[q].blk
      /\ \A q \in 1..j : t[q].kind = "submitted" => N[q] \in w.t
  BY DEF Resumed
<1>9. w.k < n /\ (w.k <= cConf \/ (i # 0 /\ w.k <= N[i] /\ w.k <= Limit))
  <2>1. w.k <= cConf \/ (j # 0 /\ w.k <= N[j] /\ w.k <= Limit)  BY DEF Resumed
  <2>2. CASE w.k <= cConf  BY <1>1, <1>6, <2>2
  <2>3. CASE j # 0 /\ w.k <= N[j] /\ w.k <= Limit
    <3>1. j \in 1..j  BY <2>3
    <3>2. N[j] < n /\ N[j] \in Nat  BY <1>5, <3>1
    <3> QED BY <1>1, <1>6, <2>3, <3>2
  <2> QED BY <2>1, <2>2, <2>3
<1>10. Clear(w, m) /\ Step(w, m)  BY <1>4, <1>9 DEF Clear, Step
<1>11. SUFFICES ASSUME Fits(w, m) PROVE After(w, m) \in {u \in Views : Resumed(u, i, N, t)}
  BY <1>10 DEF Takes
<1>12. PICK u : u = After(w, m)  OBVIOUS
<1>13. u \in Views
  <2>1. ChainOf(f, l1)  BY DEF SyncOK
  <2> QED BY <1>11, <1>12, <2>1, AfterOK DEF ViewOK
<1>14. \A q \in 1..i : q = i \/ q \in 1..j  BY <1>1
<1>15. CASE New(w, m)
  <2>1. /\ n \in 1..Len(w.c) + 1 /\ Len(u.c) = n /\ u.c[n] = m.blk
        /\ \A x \in 1..n - 1 : u.c[x] = w.c[x]
    BY <1>4, <1>11, <1>12, <1>15, NewFacts
  <2>2. u.t = {x \in w.t : x <= n - 1} /\ u.k = Below(w.k, n - 1)
    BY <1>4, <1>12, <1>15, AfterFacts
  <2>3. u.k = w.k  BY <1>1, <1>6, <1>9, <2>2 DEF Below
  <2>4. ASSUME NEW x \in 1..cConf PROVE u.c[x] = cchain[x] /\ (x \in cTx => x \in u.t)
    <3>1. x \in 1..n - 1 /\ x <= n - 1  BY <1>1, <1>6
    <3> QED BY <1>7, <2>1, <2>2, <3>1
  <2>5. ASSUME NEW x \in cConf + 1..Len(u.c) PROVE Ann(x)
    <3>1. x = n \/ x \in cConf + 1..Len(w.c)  BY <1>1, <1>6, <2>1
    <3> QED BY <1>4, <1>7, <3>1
  <2>6. ASSUME NEW q \in 1..i, t[q].kind = "local"
        PROVE  N[q] <= Len(u.c) /\ u.c[N[q]] = t[q].blk
    <3>1. CASE q = i
      <4>1. N[q] = n /\ t[q] = m  BY <3>1
      <4> QED BY <1>1, <2>1, <4>1
    <3>2. CASE q \in 1..j
      <4>1. N[q] <= Len(w.c) /\ w.c[N[q]] = t[q].blk  BY <1>8, <2>6, <3>2
      <4>2. N[q] < n /\ N[q] > cConf /\ N[q] \in Nat  BY <1>5, <3>2
      <4>3. N[q] \in 1..n - 1  BY <1>1, <1>6, <4>2
      <4>4. PICK x : x = N[q]  OBVIOUS
      <4>5. x \in 1..n - 1 /\ w.c[x] = t[q].blk /\ x <= n  BY <1>1, <4>1, <4>3, <4>4
      <4>6. u.c[x] = t[q].blk  BY <2>1, <4>5
      <4> QED BY <2>1, <4>4, <4>5, <4>6
    <3> QED BY <1>14, <3>1, <3>2
  <2>7. ASSUME NEW q \in 1..i, t[q].kind = "submitted" PROVE N[q] \in u.t
    <3>1. q \in 1..j  BY <1>14, <2>7
    <3>2. N[q] \in w.t /\ N[q] < n /\ N[q] \in Nat  BY <1>5, <1>8, <2>7, <3>1
    <3> QED BY <1>1, <2>2, <3>2
  <2>8. cConf <= Len(u.c)  BY <1>1, <1>6, <2>1
  <2>9. Resumed(u, i, N, t)  BY <1>9, <2>3, <2>4, <2>5, <2>6, <2>7, <2>8 DEF Resumed
  <2> QED BY <1>12, <1>13, <2>9
<1>16. CASE ~New(w, m)
  <2>1. Attached(w, m)  BY <1>16 DEF New
  <2>2. u = w  BY <1>6, <1>12, <2>1, AfterSame
  <2>3. n <= Len(w.c) /\ w.c[n] = m.blk  BY <1>4, <2>1 DEF Attached
  <2>4. \A q \in 1..i : t[q].kind = "local" => N[q] <= Len(w.c) /\ w.c[N[q]] = t[q].blk
    BY <1>8, <1>14, <2>3
  <2>5. \A q \in 1..i : t[q].kind = "submitted" => N[q] \in w.t  BY <1>8, <1>14
  <2>6. Resumed(w, i, N, t)  BY <1>7, <1>9, <2>4, <2>5 DEF Resumed
  <2> QED BY <1>12, <1>13, <2>2, <2>6
<1> QED BY <1>15, <1>16

\* A message that leaves the chain alone.
LEMMA ResumedSame ==
    ASSUME NEW f, SyncOK(f), NEW k, NEW N, NEW I, NEW t, Resending(k, N, I, t),
           NEW j \in Nat, NEW i \in 1..k, i = j + 1, NEW w, ViewOK(f, l1, w), Resumed(w, j, N, t),
           NEW u \in Views, u.c = w.c, w.t \subseteq u.t, t[i].kind # "local",
           t[i].kind = "submitted" => N[i] \in u.t, u.k = w.k \/ (u.k <= N[i] /\ u.k <= Limit)
    PROVE  Resumed(u, i, N, t)
<1>1. k \in Nat /\ N[i] \in Nat  BY DEF Resending
<1>2. \A q \in 1..i : q = i \/ q \in 1..j  BY <1>1
<1>3. /\ cConf <= Len(w.c) /\ (\A x \in 1..cConf : w.c[x] = cchain[x] /\ (x \in cTx => x \in w.t))
      /\ \A x \in cConf + 1..Len(w.c) : Ann(x)
  BY DEF Resumed
<1>4. /\ \A q \in 1..j : t[q].kind = "local" => N[q] <= Len(w.c) /\ w.c[N[q]] = t[q].blk
      /\ \A q \in 1..j : t[q].kind = "submitted" => N[q] \in w.t
  BY DEF Resumed
<1>5. u.k <= cConf \/ (i # 0 /\ u.k <= N[i] /\ u.k <= Limit)
  <2>1. SUFFICES ASSUME u.k = w.k PROVE u.k <= cConf \/ (i # 0 /\ u.k <= N[i] /\ u.k <= Limit)
    BY <1>1
  <2>2. w.k <= cConf \/ (j # 0 /\ w.k <= N[j] /\ w.k <= Limit)  BY DEF Resumed
  <2>3. CASE w.k <= cConf  BY <2>1, <2>3
  <2>4. CASE j # 0 /\ w.k <= N[j] /\ w.k <= Limit
    <3>1. j \in 1..k /\ j < i  BY <1>1, <2>4
    <3>2. N[j] \in Nat /\ N[j] <= N[i]
      <4>1. N[j] \in Nat /\ (N[j] < N[i] \/ N[j] = N[i])  BY <3>1 DEF Resending
      <4> QED BY <1>1, <4>1
    <3>3. w.k \in Nat  BY ViewFacts
    <3> QED BY <1>1, <2>1, <2>4, <3>2, <3>3
  <2> QED BY <2>2, <2>3, <2>4
<1>6. \A q \in 1..i : t[q].kind = "local" => N[q] <= Len(u.c) /\ u.c[N[q]] = t[q].blk
  BY <1>2, <1>4
<1>7. \A q \in 1..i : t[q].kind = "submitted" => N[q] \in u.t  BY <1>2, <1>4
<1>8. \A x \in 1..cConf : u.c[x] = cchain[x] /\ (x \in cTx => x \in u.t)  BY <1>3
<1> QED BY <1>3, <1>5, <1>6, <1>7, <1>8 DEF Resumed

\* A mem block of the buffer was built on the block below it.
LEMMA ResumedMem ==
    ASSUME NEW f, SyncOK(f), BufferInv, HasBlock, Linked,
           NEW k, NEW N, NEW I, NEW t, Resending(k, N, I, t),
           NEW j \in Nat, NEW i \in 1..k, i = j + 1, NEW w, ViewOK(f, l1, w), Resumed(w, j, N, t),
           NEW m, m = t[i], m.kind = "mem", m.num = Len(w.c) + 1
    PROVE  m.blk.par = TipOf(w.c)
<1> PICK n : n = N[i]  OBVIOUS
<1>1. /\ n \in DOMAIN buffer /\ n > cConf /\ n \in Nat /\ I[i] \in 1..Len(buffer[n].msgs)
      /\ m = buffer[n].msgs[I[i]] /\ k \in Nat /\ I[i] \in Nat
  BY DEF Resending
<1>2. PICK a : a = I[i]  OBVIOUS
<1>3. a \in 1..Len(buffer[n].msgs) /\ m = buffer[n].msgs[a]  BY <1>1, <1>2
<1>4. a = 1 /\ m.num = n /\ n # 0  BY <1>1, <1>3, PlaceFacts
<1>5. PICK p : p = Len(w.c)  OBVIOUS
<1>6. /\ p \in Nat /\ n = p + 1 /\ cConf \in Nat /\ cConf <= p /\ ChainOf(f, cchain)
      /\ cConf \in 0..Len(cchain)
  <2>1. p \in Nat  BY <1>5, ViewFacts
  <2>2. cConf \in 0..Len(cchain) /\ ChainOf(f, cchain)  BY DEF SyncOK, ClientOK
  <2>3. Len(cchain) \in Nat  BY <2>2, LenProperties DEF ChainOf
  <2> QED BY <1>4, <1>5, <2>1, <2>2, <2>3 DEF Resumed
<1>7. p \in DOMAIN buffer => buffer[p].hash \in {NoHash, m.blk.par}
  BY <1>1, <1>3, <1>4, <1>6 DEF Linked
<1>8. CASE p = cConf
  <2>1. p \in DOMAIN buffer /\ buffer[p].hash = IdAt(cchain, p)  BY <1>8 DEF HasBlock
  <2>2. IdAt(cchain, p) \in Nat  BY <1>6, <1>8, IdIsNat
  <2>3. IdAt(cchain, p) # NoHash  BY <2>2 DEF NoHash
  <2>4. m.blk.par = IdAt(cchain, p)  BY <1>7, <2>1, <2>3
  <2>5. IdAt(w.c, p) = IdAt(cchain, p)
    <3>1. p # 0 => p \in 1..cConf  BY <1>6, <1>8
    <3> QED BY <3>1 DEF Resumed, IdAt
  <2> QED BY <1>5, <2>4, <2>5 DEF TipOf
<1>9. CASE p # cConf
  <2>1. p \in cConf + 1..Len(w.c) /\ p > cConf /\ p < n /\ p # 0  BY <1>5, <1>6, <1>9
  <2>2. Ann(p)  BY <2>1 DEF Resumed
  <2>3. /\ p \in DOMAIN buffer /\ 1 \in 1..Len(buffer[p].msgs)
        /\ buffer[p].msgs[1].kind = "local" /\ buffer[p].msgs[1].blk.id = buffer[p].hash
    BY <2>2, AnnFacts
  <2>4. PICK q \in 1..i - 1 : N[q] = p /\ I[q] = 1 /\ t[q] = buffer[p].msgs[1]
    <3>1. PICK b : b = 1  OBVIOUS
    <3>2. b \in 1..Len(buffer[p].msgs) /\ b \in Nat /\ (p < N[i] \/ (p = N[i] /\ b < I[i]))
      BY <2>1, <2>3, <3>1
    <3>3. p \in DOMAIN buffer /\ p > cConf /\ p \in Nat  BY <1>6, <2>1, <2>3
    <3>4. \E q \in 1..i - 1 : N[q] = p /\ I[q] = b /\ t[q] = buffer[p].msgs[b]
      BY <3>2, <3>3, Earlier
    <3> QED BY <3>1, <3>4
  <2>5. q \in 1..j  BY <1>1, <2>4
  <2>6. w.c[p] = buffer[p].msgs[1].blk  BY <2>3, <2>4, <2>5 DEF Resumed
  <2>7. w.c[p].id = buffer[p].hash  BY <2>3, <2>6
  <2>8. buffer[p].hash # NoHash  BY <2>2 DEF Ann
  <2>9. m.blk.par = w.c[p].id  BY <1>7, <2>3, <2>7, <2>8
  <2> QED BY <1>5, <2>1, <2>9 DEF TipOf, IdAt
<1> QED BY <1>8, <1>9

LEMMA ResumedStep ==
    ASSUME NEW f, SyncOK(f), BufferInv, HasBlock, Linked,
           NEW k, NEW N, NEW I, NEW t, Resending(k, N, I, t),
           NEW j \in Nat, NEW i \in 1..k, i = j + 1, NEW w, ViewOK(f, l1, w), Resumed(w, j, N, t),
           NEW m, m = t[i], MsgOK(f, l1, m)
    PROVE  Takes(w, m, {u \in Views : Resumed(u, i, N, t)})
<1> PICK n : n = N[i]  OBVIOUS
<1>1. /\ n \in DOMAIN buffer /\ n > cConf /\ n \in Nat /\ I[i] \in 1..Len(buffer[n].msgs)
      /\ m = buffer[n].msgs[I[i]] /\ k \in Nat /\ I[i] \in Nat
  BY DEF Resending
<1>2. PICK a : a = I[i]  OBVIOUS
<1>3. a \in 1..Len(buffer[n].msgs) /\ m = buffer[n].msgs[a] /\ a \in Nat  BY <1>1, <1>2
<1>4. /\ m.kind \in {"local", "mem", "submitted", "confirmed", "push"} /\ n # 0
      /\ m.kind = "submitted" => m.num = n
      /\ m.kind = "confirmed" => /\ m.num = n /\ n <= Limit
                                 /\ \E q \in 2..a - 1 : buffer[n].msgs[q].kind = "submitted"
  <2>1. m.kind \in {"local", "mem", "submitted", "confirmed", "push"} /\ n # 0  BY <1>1, <1>3, PlaceFacts, SMTT(60)
  <2>2. m.kind = "submitted" => m.num = n  BY <1>1, <1>3, PlaceFacts
  <2>3. m.kind = "confirmed" => m.num = n /\ n <= Limit  BY <1>1, <1>3, PlaceFacts, SMTT(60)
  <2>4. m.kind = "confirmed" => \E q \in 2..a - 1 : buffer[n].msgs[q].kind = "submitted"
    BY <1>1, <1>3, PlaceFacts, SMTT(60)
  <2> QED BY <2>1, <2>2, <2>3, <2>4
<1>5. CASE m.kind = "local"  BY <1>5, ResumedLocal
<1>6. w \in Views  BY DEF ViewOK
<1>7. CASE m.kind \in {"mem", "push"}
  <2>1. After(w, m) = w /\ Fits(w, m)  BY <1>6, <1>7, AfterSame
  <2>2. Resumed(w, i, N, t)
    <3>1. t[i].kind # "local" /\ t[i].kind # "submitted"  BY <1>7
    <3>2. w.c = w.c /\ w.t \subseteq w.t /\ w.k = w.k  OBVIOUS
    <3> QED BY <1>6, <3>1, <3>2, ResumedSame
  <2>3. m.kind = "mem" /\ m.num = Len(w.c) + 1 => m.blk.par = TipOf(w.c)  BY ResumedMem
  <2>4. Step(w, m) /\ Clear(w, m)  BY <1>7, <2>3 DEF Step, Clear
  <2> QED BY <1>6, <2>1, <2>2, <2>4 DEF Takes
<1>8. CASE m.kind \in {"submitted", "confirmed"}
  <2>1. Clear(w, m)  BY <1>8 DEF Clear
  <2>2. SUFFICES ASSUME Fits(w, m)
                 PROVE  Step(w, m) /\ After(w, m) \in {u \in Views : Resumed(u, i, N, t)}
    BY <2>1 DEF Takes
  <2>3. PICK u : u = After(w, m)  OBVIOUS
  <2>4. u \in Views
    <3>1. ChainOf(f, l1)  BY DEF SyncOK
    <3> QED BY <2>2, <2>3, <3>1, AfterOK DEF ViewOK
  <2>5. ~New(w, m)  BY <1>8 DEF New
  <2>6. /\ u.c = w.c
        /\ m.kind = "submitted" => u.t = w.t \cup {n} /\ u.k = w.k
        /\ m.kind = "confirmed" => u.t = w.t /\ u.k = n
    BY <1>4, <1>8, <2>3, <2>5, AfterFacts
  <2>7. Step(w, m)
    <3>1. SUFFICES ASSUME m.kind = "confirmed" PROVE n \in w.t
      BY <1>4, <1>8, <2>1 DEF Step
    <3>2. PICK p \in 2..a - 1 : buffer[n].msgs[p].kind = "submitted"  BY <1>4, <3>1
    <3>3. p \in 1..Len(buffer[n].msgs) /\ p \in Nat /\ p < a
      <4>1. Len(buffer[n].msgs) \in Nat  BY <1>1, EntryTyped, LenProperties DEF SyncOK
      <4> QED BY <1>3, <3>2, <4>1
    <3>4. n < N[i] \/ (n = N[i] /\ p < I[i])  BY <1>2, <3>3
    <3>5. PICK q \in 1..i - 1 : N[q] = n /\ I[q] = p /\ t[q] = buffer[n].msgs[p]
      BY <1>1, <3>3, <3>4, Earlier
    <3>6. q \in 1..j  BY <1>1, <3>5
    <3> QED BY <3>2, <3>5, <3>6 DEF Resumed
  <2>8. Resumed(u, i, N, t)
    <3>1. t[i].kind # "local" /\ (t[i].kind = "submitted" => N[i] \in u.t)  BY <1>8, <2>6
    <3>2. w.t \subseteq u.t  BY <1>8, <2>6
    <3>3. u.k = w.k \/ (u.k <= N[i] /\ u.k <= Limit)  BY <1>1, <1>4, <1>8, <2>6
    <3> QED BY <2>4, <2>6, <3>1, <3>2, <3>3, ResumedSame
  <2> QED BY <2>3, <2>4, <2>7, <2>8
<1> QED BY <1>4, <1>5, <1>7, <1>8

\* When everything is applied the announced blocks are there.
LEMMA AnnDone ==
    ASSUME NEW f, SyncOK(f), BufferInv, NEW k, NEW N, NEW I, NEW t, Resending(k, N, I, t),
           NEW w, Resumed(w, k, N, t), NEW n, Ann(n), n > cConf
    PROVE  /\ n <= Len(w.c) /\ w.c[n].id = buffer[n].hash
           /\ buffer[n].hash \in Due => n \in w.t
<1>1. /\ n \in DOMAIN buffer /\ 1 \in 1..Len(buffer[n].msgs)
      /\ buffer[n].msgs[1].kind = "local" /\ buffer[n].msgs[1].blk.id = buffer[n].hash
  BY AnnFacts
<1>2. PICK q \in 1..k : N[q] = n /\ I[q] = 1  BY <1>1 DEF Resending
<1>3. t[q] = buffer[n].msgs[1]  BY <1>2 DEF Resending
<1>4. n <= Len(w.c) /\ w.c[n] = t[q].blk  BY <1>1, <1>2, <1>3 DEF Resumed
<1>5. ASSUME buffer[n].hash \in Due PROVE n \in w.t
  <2>1. PICK p \in 2..Len(buffer[n].msgs) : buffer[n].msgs[p].kind = "submitted"
    BY <1>5, AnnFacts
  <2>2. p \in 1..Len(buffer[n].msgs)
    <3>1. Len(buffer[n].msgs) \in Nat  BY <1>1, EntryTyped, LenProperties DEF SyncOK
    <3> QED BY <2>1, <3>1
  <2>3. PICK x \in 1..k : N[x] = n /\ I[x] = p  BY <1>1, <2>2 DEF Resending
  <2>4. t[x] = buffer[n].msgs[p]  BY <2>3 DEF Resending
  <2> QED BY <2>1, <2>3, <2>4 DEF Resumed
<1> QED BY <1>1, <1>3, <1>4, <1>5

LEMMA ResumedBacked ==
    ASSUME NEW f, SyncOK(f), BufferInv, NEW k, NEW N, NEW I, NEW t, Resending(k, N, I, t),
           NEW w, ViewOK(f, l1, w), Resumed(w, k, N, t), Holes
    PROVE  Backed(w, Due)
<1>1. SUFFICES ASSUME NEW i \in 1..Len(w.c), w.c[i].id \in Due PROVE i \in w.t
  BY DEF Backed
<1>2. /\ cConf \in Nat /\ Len(w.c) \in Nat /\ ChainOf(f, w.c) /\ ChainOf(f, chain) /\ Made(f, nextId)
      /\ lastConf \in Nat /\ lastSub \in Nat /\ lastSub <= Len(chain) /\ Len(chain) \in Nat
  <2>1. /\ cConf \in 0..Len(cchain) /\ ChainOf(f, cchain) /\ ChainOf(f, chain) /\ Made(f, nextId)
        /\ lastConf \in 0..Len(chain) /\ lastSub \in 0..Len(chain)
    BY DEF SyncOK, ClientOK, NodeOK
  <2> QED BY <2>1, ViewFacts, LenProperties DEF ChainOf
<1>3. CASE i > cConf
  <2>1. i \in cConf + 1..Len(w.c)  BY <1>2, <1>3
  <2>2. Ann(i)  BY <2>1 DEF Resumed
  <2>3. w.c[i].id = buffer[i].hash /\ (buffer[i].hash \in Due => i \in w.t)
    BY <1>3, <2>2, AnnDone
  <2> QED BY <1>1, <2>3
<1>4. CASE ~(i > cConf)
  <2>1. mode = "loop" /\ \E n \in lastConf + 1..lastSub : w.c[i].id = chain[n].id  BY <1>1 DEF Due
  <2>2. PICK n \in lastConf + 1..lastSub : w.c[i].id = chain[n].id  BY <2>1
  <2>3. n \in 1..Len(chain) /\ lastConf < n  BY <1>2
  <2>4. i = n  BY <1>2, <2>2, <2>3, OneHeight
  <2>5. i \in 1..cConf /\ ~(i <= Limit)  BY <1>2, <1>4, <2>1, <2>3, <2>4 DEF Limit
  <2>6. i \in cTx  BY <2>5 DEF Holes
  <2> QED BY <2>5, <2>6 DEF Resumed
<1> QED BY <1>3, <1>4

\* A block of the buffer is the one of the full node.
LEMMA EntryOnChain ==
    ASSUME NEW f, SyncOK(f), NodeFacts, BufferInv, ConfirmedFresh, mode = "loop",
           NEW F, F = FullOf(chain, pend), NEW n \in 1..Len(F), Ann(n)
    PROVE  buffer[n].hash = F[n].id
<1>1. /\ Len(chain) \in Nat /\ Len(F) \in Nat /\ lastConf \in 0..Len(chain)
      /\ \A i \in 1..Len(chain) : F[i] = chain[i]
  <2>1. Len(chain) \in Nat /\ Len(F) \in Nat /\ Grown(chain, F)  BY FullFacts
  <2>2. lastConf \in 0..Len(chain)  BY DEF SyncOK, NodeOK
  <2> QED BY <2>1, <2>2 DEF Grown
<1>2. CASE n > lastConf
  <2>1. n \in lastConf + 1..Len(F)  BY <1>1, <1>2
  <2> QED BY <2>1 DEF BufferInv, Covered
<1>3. CASE ~(n > lastConf)
  <2>1. n <= lastConf /\ n \in 1..Len(chain)  BY <1>1, <1>3
  <2>2. buffer[n].hash = chain[n].id  BY <2>1 DEF ConfirmedFresh, Ann
  <2> QED BY <1>1, <2>1, <2>2
<1> QED BY <1>2, <1>3

LEMMA ResumedTracks ==
    ASSUME NEW f, SyncOK(f), NodeFacts, BufferInv, HasBlock, ConfirmedFresh, mode = "loop",
           NEW k, NEW N, NEW I, NEW t, Resending(k, N, I, t),
           NEW w, ViewOK(f, l1, w), Resumed(w, k, N, t)
    PROVE  Tracks(w, chain, pend, buffer)
<1> PICK F : F = FullOf(chain, pend)  OBVIOUS
<1>1. /\ ChainOf(f, F) /\ Len(F) \in Nat /\ Len(chain) \in Nat /\ ChainOf(f, chain)
      /\ Len(chain) <= Len(F) /\ (\A i \in 1..Len(chain) : F[i] = chain[i])
      /\ lastConf \in 0..Len(chain) /\ lastConf \in Nat
  <2>1. /\ ChainOf(f, F) /\ Len(F) \in Nat /\ Len(chain) \in Nat /\ Grown(chain, F)  BY FullFacts
  <2>2. lastConf \in 0..Len(chain) /\ ChainOf(f, chain)  BY DEF SyncOK, NodeOK
  <2> QED BY <2>1, <2>2 DEF Grown
<1>2. /\ pend = <<>> => F = chain
      /\ pend # <<>> => Len(F) = Len(chain) + 1 /\ F[Len(chain) + 1] = pend[1]
  BY FullFacts
<1>3. /\ ChainOf(f, w.c) /\ Len(w.c) \in Nat /\ w.k \in Nat /\ w \in Views
  BY ViewFacts DEF ViewOK
<1>4. /\ ChainOf(f, cchain) /\ Len(cchain) \in Nat /\ cConf \in 0..Len(cchain)
      /\ cConf <= Len(l1) /\ \A i \in 1..cConf : cchain[i] = l1[i]
  <2>1. ClientOK(f, l1, cchain, cConf, cTx)  BY DEF SyncOK
  <2> QED BY <2>1, LenProperties DEF ClientOK, ChainOf
<1>5. Len(l1) \in Nat  BY LenProperties DEF SyncOK, ChainOf
<1>6. cConf \in DOMAIN buffer /\ buffer[cConf].hash = IdAt(cchain, cConf)  BY DEF HasBlock
<1>7. cConf \in Nat /\ cConf # 0
  <2>1. EntryShape(cConf, buffer[cConf], Due, Limit)  BY <1>6 DEF BufferInv, Shape
  <2> QED BY <1>4, <2>1 DEF EntryShape, Opens
<1>8. buffer[cConf].hash = cchain[cConf].id /\ buffer[cConf].hash \in Nat
  <2>1. buffer[cConf].hash \in Nat  BY <1>4, <1>6, IdIsNat
  <2> QED BY <1>6, <1>7, <2>1 DEF IdAt
<1>9. Ann(cConf)  BY <1>6, <1>8 DEF Ann, NoHash
<1>10. Covered(buffer, chain, pend, lastConf, OnTheWay)  BY DEF BufferInv
<1>11. cConf <= Len(chain)
  <2>1. cConf <= Len(chain) + 1  BY <1>6, <1>10 DEF Covered
  <2>2. SUFFICES ASSUME cConf = Len(chain) + 1 PROVE FALSE  BY <1>1, <1>7, <2>1
  <2>3. cchain[cConf].id \in OnTheWay
    <3>1. cConf \in 1..cConf /\ cConf \in 1..Len(l1)  BY <1>4, <1>5, <1>7
    <3> QED BY <1>4, <3>1 DEF Ids, OnTheWay
  <2>4. CASE pend = <<>>
    <3>1. buffer[cConf].hash \notin OnTheWay  BY <1>6, <1>10, <2>2, <2>4 DEF Covered
    <3> QED BY <1>8, <2>3, <3>1
  <2>5. CASE pend # <<>>
    <3>1. cConf \in lastConf + 1..Len(F)  BY <1>1, <1>2, <2>2, <2>5
    <3>2. buffer[cConf].hash = F[cConf].id  BY <1>10, <3>1 DEF Covered
    <3>3. pend[1].id = cchain[cConf].id  BY <1>2, <1>8, <2>2, <2>5, <3>2
    <3> QED BY <2>3, <2>5, <3>3 DEF NodeFacts
  <2> QED BY <2>4, <2>5
<1>12. w.k <= Len(chain)
  <2>1. w.k <= cConf \/ w.k <= lastConf  BY DEF Resumed, Limit
  <2> QED BY <1>1, <1>3, <1>7, <1>11, <2>1
<1>13. cConf <= Len(w.c) /\ w.c[cConf] = cchain[cConf]
  <2>1. cConf \in 1..cConf  BY <1>7
  <2> QED BY <2>1 DEF Resumed
<1>14. ASSUME NEW n \in cConf..Len(F), n = cConf \/ Ann(n)
       PROVE  n <= Len(w.c) /\ \A i \in 1..n : F[i] = w.c[i]
  <2>1. Ann(n) /\ n \in 1..Len(F) /\ n \in Nat  BY <1>1, <1>7, <1>9, <1>14
  <2>2. buffer[n].hash = F[n].id  BY <2>1, EntryOnChain
  <2>3. n <= Len(w.c) /\ w.c[n].id = buffer[n].hash
    <3>1. CASE n = cConf  BY <1>8, <1>13, <3>1
    <3>2. CASE n # cConf
      <4>1. n > cConf  BY <1>7, <2>1, <3>2
      <4> QED BY <2>1, <4>1, AnnDone
    <3> QED BY <3>1, <3>2
  <2>4. F[n].id = w.c[n].id  BY <2>2, <2>3
  <2>5. \A i \in 1..n : F[i] = w.c[i]  BY <1>1, <1>3, <2>1, <2>3, <2>4, SameIdentity
  <2> QED BY <2>3, <2>5
<1>15. PICK L : L = Len(F)  OBVIOUS
<1>16. L \in cConf..Len(F) /\ L \in Nat  BY <1>1, <1>7, <1>11, <1>15
<1>17. CASE L = cConf \/ Ann(L)
  <2>1. L <= Len(w.c) /\ \A i \in 1..L : F[i] = w.c[i]  BY <1>14, <1>16, <1>17
  <2>2. Grown(F, w.c)  BY <1>15, <2>1 DEF Grown
  <2> QED BY <1>12, <2>2 DEF Tracks
<1>18. CASE L # cConf /\ ~Ann(L)
  <2>1. L > cConf /\ L # 0  BY <1>7, <1>16, <1>18
  <2>2. L <= lastConf
    <3>1. SUFFICES ASSUME L > lastConf PROVE FALSE  BY <1>1, <1>16
    <3>2. L \in lastConf + 1..Len(F) /\ L \in 1..Len(F)  BY <1>1, <1>15, <1>16, <2>1, <3>1
    <3>3. L \in DOMAIN buffer /\ buffer[L].hash = F[L].id  BY <1>10, <3>2 DEF Covered
    <3>4. F[L].id \in Nat
      <4>1. F[L] \in BlockRec  BY <1>1, <3>2, ChainBlock
      <4> QED BY <4>1 DEF BlockRec
    <3> QED BY <1>18, <3>3, <3>4 DEF Ann, NoHash
  <2>3. pend = <<>> /\ F = chain /\ L = Len(chain)  BY <1>1, <1>2, <1>15, <1>16, <2>2
  <2>4. TipOf(chain) \in Nat
    <3>1. L \in 0..Len(chain)  BY <1>16, <2>3
    <3> QED BY <1>1, <2>3, <3>1, IdIsNat DEF TipOf
  <2>5. ~(Len(chain) \in DOMAIN buffer /\ buffer[Len(chain)].hash = TipOf(chain))
    BY <1>18, <2>3, <2>4 DEF Ann, NoHash
  <2>6. PICK p : p = Len(w.c)  OBVIOUS
  <2>7. p \in Nat /\ cConf <= p  BY <1>3, <1>13, <2>6
  <2>8. p < L
    <3>1. SUFFICES ASSUME L <= p PROVE FALSE  BY <1>16, <2>7
    <3>2. L \in cConf + 1..Len(w.c)  BY <1>7, <1>16, <2>1, <2>6, <3>1
    <3> QED BY <1>18, <3>2 DEF Resumed
  <2>9. p = cConf \/ Ann(p)
    <3>1. p # cConf => p \in cConf + 1..Len(w.c)  BY <1>7, <2>6, <2>7
    <3> QED BY <3>1 DEF Resumed
  <2>10. p \in cConf..Len(F)  BY <1>7, <1>15, <1>16, <2>7, <2>8
  <2>11. \A i \in 1..p : F[i] = w.c[i]  BY <1>14, <2>9, <2>10
  <2>12. Grown(w.c, chain) /\ Len(w.c) < Len(chain)  BY <2>3, <2>6, <2>7, <2>8, <2>11, <1>16 DEF Grown
  <2> QED BY <2>3, <2>5, <2>12 DEF Tracks
<1> QED BY <1>17, <1>18

LEMMA SubscribeFollowed ==
    ASSUME NEW f, SyncOK(f), NodeFacts, BufferInv, Holes, Subscribe
    PROVE  Followed'
<1>1. PICK k, N, I : Resending(k, N, I, chan')  BY SubscribeResends
<1>2. PICK t : t = chan'  OBVIOUS
<1>3. Resending(k, N, I, t) /\ MsgsOK(f, l1, t)  BY <1>1, <1>2, SubscribeResends
<1>4. /\ cstate = "ask" /\ HasBlock /\ stale' = ~(ConfirmedFresh /\ Linked /\ Announced)
      /\ UNCHANGED <<ledgerVars, serverVars, cchain, cConf, cTx>> /\ session' = TRUE
  BY DEF Subscribe
<1>5. SUFFICES ASSUME ~stale' PROVE Follow(Now, t, TRUE, Ending)
  <2>1. Now' = Now  BY <1>4 DEF Now
  <2>2. Ending' = Ending
    BY <1>4 DEF Ending, Due, Limit, Backed, Tracks, ledgerVars, serverVars
  <2> QED BY <1>2, <1>4, <2>1, <2>2 DEF Followed
<1>6. ConfirmedFresh /\ Linked /\ Announced  BY <1>4, <1>5
<1>7. PICK v, E, A : v = Now /\ E = Ending /\ A = [j \in 0..k |-> {u \in Views : Resumed(u, j, N, t)}]
  OBVIOUS
<1>8. k \in Nat /\ k = Len(t)  BY <1>3 DEF Resending
<1>9. ViewOK(f, l1, v) /\ ChainOf(f, l1)  BY <1>7, NowOK
<1>10. v \in A[0]
  <2>1. Resumed(v, 0, N, t)  BY <1>6, <1>7, ResumedStart
  <2> QED BY <1>7, <1>8, <1>9, <2>1 DEF ViewOK
<1>11. ASSUME NEW j \in 0..k, j < k, NEW w \in A[j], ViewOK(f, l1, w)
       PROVE  Takes(w, t[j + 1], A[j + 1])
  <2>1. PICK i : i = j + 1  OBVIOUS
  <2>2. i \in 1..k /\ j \in Nat /\ i \in 0..k  BY <1>8, <1>11, <2>1
  <2>3. Resumed(w, j, N, t)  BY <1>7, <1>11
  <2>4. PICK m : m = t[i]  OBVIOUS
  <2>5. MsgOK(f, l1, m)  BY <1>3, <1>8, <2>2, <2>4 DEF MsgsOK
  <2>6. Takes(w, m, {u \in Views : Resumed(u, i, N, t)})
    BY <1>3, <1>4, <1>6, <1>11, <2>1, <2>2, <2>3, <2>4, <2>5, ResumedStep
  <2>7. A[i] = {u \in Views : Resumed(u, i, N, t)}  BY <1>7, <2>2
  <2> QED BY <2>1, <2>4, <2>6, <2>7
<1>12. ASSUME NEW w \in A[k], ViewOK(f, l1, w) PROVE w \in E
  <2>1. w \in Views /\ Resumed(w, k, N, t)  BY <1>7, <1>8, <1>12
  <2>2. Backed(w, Due)  BY <1>3, <1>4, <1>12, <2>1, ResumedBacked
  <2>3. mode = "loop" => Tracks(w, chain, pend, buffer)
    BY <1>3, <1>4, <1>6, <1>12, <2>1, ResumedTracks
  <2> QED BY <1>7, <2>1, <2>2, <2>3 DEF Ending
<1>13. Follow(v, t, TRUE, E)  BY <1>3, <1>8, <1>9, <1>10, <1>11, <1>12, FollowRun
<1> QED BY <1>7, <1>13

(***************************************************************************)
(* The invariant of the session.                                           *)
(***************************************************************************)
LEMMA FollowedNext ==
    ASSUME NEW f, SyncOK(f), NodeFacts, BufferInv, Holes, Followed, Next
    PROVE  Followed'
<1>1. CASE Layer1  BY <1>1, UnseenFollowed
<1>2. CASE Server
  BY <1>2, PublishLocalBlockFollowed, CommitLocalBlockFollowed, FailLocalBlockFollowed,
     UnseenFollowed, PublishSubmittedFollowed,
     PublishConfirmedFollowed, PublishTransactionFollowed, QuietFollowed, RestartFollowed,
     FinishResyncFollowed, FinishBootFollowed DEF Server, MainLoop
<1>3. CASE Client
  BY <1>3, OtherFollowed, SubscribeFollowed, RevertForLocalFollowed, HandleLocalBlockFollowed,
     PointerFollowed, SkipMemPoolFollowed DEF Client, Connect, Apply
<1> QED BY <1>1, <1>2, <1>3 DEF Next

LEMMA SeenNext ==
    ASSUME NEW f, SyncOK(f), NodeFacts, BufferInv, SeenOK(chan, Limit), Next
    PROVE  SeenOK(chan', Limit')
<1>1. CASE Layer1
  <2>1. UNCHANGED chan  BY <1>1, Layer1Facts DEF clientVars
  <2>2. Limit \in Nat /\ Limit' \in Nat /\ Limit <= Limit'  BY <1>1, LimitGrows
  <2>3. MsgsOK(f, l1, chan)  BY DEF SyncOK
  <2>4. PICK L, M : L = Limit /\ M = Limit'  OBVIOUS
  <2>5. SeenOK(chan, M)  BY <2>2, <2>3, <2>4, SeenGrows
  <2> QED BY <2>1, <2>4, <2>5
<1>2. CASE Server  BY <1>2, SeenServer
<1>3. CASE Client  BY <1>3, SeenClient
<1> QED BY <1>1, <1>2, <1>3 DEF Next

LEMMA FollowInit ==
    ASSUME Init
    PROVE  FollowInv
<1>1. /\ mode = "sync" /\ l1 = <<>> /\ session = FALSE /\ booting = TRUE /\ buffer = <<>> /\ pend = <<>>
      /\ sent = {} /\ chan = <<>> /\ cstate = "sync" /\ cConf = 0 /\ lastConf = 0 /\ nextId = 1
  BY DEF Init, LedgerInit
<1>2. NodeFacts  BY <1>1 DEF NodeFacts
<1>3. Shape(buffer, Due, Limit)  BY <1>1, ShapeEmpty
<1>4. SeenOK(chan, Limit)
  <2>1. Len(chan) = 0  BY <1>1
  <2> QED BY <2>1 DEF SeenOK
<1>5. Holes /\ Followed  BY <1>1 DEF Holes, Followed
<1> QED BY <1>1, <1>2, <1>3, <1>4, <1>5 DEF FollowInv

LEMMA FollowNext ==
    ASSUME NEW f, SyncOK(f), FollowInv, Next
    PROVE  FollowInv'
<1>1. NodeFacts /\ BufferInv /\ SeenOK(chan, Limit) /\ Holes /\ Followed
  BY DEF FollowInv, BufferInv
<1>2. NodeFacts' /\ BufferInv'  BY <1>1, NextBuffer
<1>3. SeenOK(chan', Limit')  BY <1>1, SeenNext
<1>4. Holes'  BY <1>1, HolesNext
<1>5. Followed'  BY <1>1, FollowedNext
<1> QED BY <1>2, <1>3, <1>4, <1>5 DEF FollowInv, BufferInv

LEMMA FollowStutter ==
    ASSUME FollowInv, UNCHANGED vars
    PROVE  FollowInv'
<1>1. UNCHANGED <<l1, chain, lastSub, lastConf, mode, booting, pend, buffer, sent, cstate, session,
                  chan, cchain, cConf, cTx, stale, nextId>>
  BY DEF vars, ledgerVars, serverVars, clientVars
<1>2. Due' = Due /\ Limit' = Limit /\ OnTheWay' = OnTheWay  BY <1>1 DEF Due, Limit, OnTheWay, Ids
<1>3. NodeFacts' /\ Holes'  BY <1>1, <1>2 DEF FollowInv, NodeFacts, Holes
<1>4. Shape(buffer, Due, Limit)' /\ SeenOK(chan, Limit)'
      /\ (mode = "loop" => Covered(buffer, chain, pend, lastConf, OnTheWay))'
  BY <1>1, <1>2 DEF FollowInv
<1>5. Followed'
  <2>1. Ending' = Ending /\ Now' = Now  BY <1>1, <1>2 DEF Ending, Now
  <2> QED BY <1>1, <2>1 DEF FollowInv, Followed
<1> QED BY <1>3, <1>4, <1>5 DEF FollowInv

\* The messages of a session are applied steadily, and a live session that applies all of
\* them has what the full node published: in every reachable state.
THEOREM FollowInductive == Spec => []FollowInv
<1>1. Init => FollowInv  BY FollowInit
<1>2. BlockSyncInv /\ FollowInv /\ [Next]_vars => FollowInv'
  <2>1. SUFFICES ASSUME BlockSyncInv, FollowInv, [Next]_vars PROVE FollowInv'  OBVIOUS
  <2>2. PICK f : SyncOK(f)  BY <2>1 DEF BlockSyncInv
  <2>3. CASE Next  BY <2>1, <2>2, <2>3, FollowNext
  <2>4. CASE UNCHANGED vars  BY <2>1, <2>4, FollowStutter
  <2> QED BY <2>1, <2>3, <2>4
<1> QED BY <1>1, <1>2, BlockSyncInductive, PTL DEF Spec

LEMMA GrownPrefix ==
    ASSUME NEW f, NEW s, NEW t, ChainOf(f, s), ChainOf(f, t), Grown(s, t)
    PROVE  IsPrefix(s, t)
<1>1. Len(s) \in Nat /\ Len(t) \in Nat  BY LenProperties DEF ChainOf
<1>2. PICK n : n = Len(s)  OBVIOUS
<1>3. n \in 0..Len(s) /\ n \in 0..Len(t) /\ n \in Nat  BY <1>1, <1>2 DEF Grown
<1>4. PICK x, y : x = SubSeq(s, 1, n) /\ y = SubSeq(t, 1, n)  OBVIOUS
<1>5. /\ ChainOf(f, x) /\ Len(x) = n /\ \A i \in 1..n : x[i] = s[i]
      /\ ChainOf(f, y) /\ Len(y) = n /\ \A i \in 1..n : y[i] = t[i]
  BY <1>3, <1>4, ChainPrefix
<1>6. \A i \in 1..n : x[i] = y[i]  BY <1>2, <1>5 DEF Grown
<1>7. x = y  BY <1>5, <1>6, SeqEqual DEF ChainOf
<1> QED BY <1>2, <1>4, <1>7 DEF IsPrefix, Grown

\* A read-only node that has applied every message of its live session has every block of
\* the full node up to a published tip and is on no fork of it, for every number of blocks,
\* events from outside and every capacity of the buffer and of the channel.
THEOREM CaughtUpNodesHaveChain == Spec => []CaughtUpHasChain
<1>1. BlockSyncInv /\ FollowInv => CaughtUpHasChain
  <2>1. SUFFICES ASSUME BlockSyncInv, FollowInv, cstate = "stream", session, chan = <<>>,
                        Serving, ~stale
                 PROVE  IsPrefix(chain, cchain) \/ (~TipPublished /\ IsPrefix(cchain, chain))
    BY DEF CaughtUpHasChain
  <2>2. PICK f : SyncOK(f)  BY <2>1 DEF BlockSyncInv
  <2>3. Follow(Now, chan, session, Ending)  BY <2>1 DEF FollowInv, Followed
  <2>4. PICK d, h : Steady(Now, chan, Len(chan), d, h) /\ (session /\ d = Len(chan) => h[d] \in Ending)
    BY <2>3 DEF Follow
  <2>5. Len(chan) = 0  BY <2>1
  <2>6. d = 0 /\ h[0] = Now  BY <2>4, <2>5 DEF Steady, Replay
  <2>7. Now \in Ending  BY <2>1, <2>4, <2>5, <2>6
  <2>8. mode = "loop" /\ pend = <<>>  BY <2>1 DEF Serving
  <2>9. PICK v : v = Now  OBVIOUS
  <2>10. Tracks(v, chain, pend, buffer) /\ v.c = cchain  BY <2>7, <2>8, <2>9 DEF Ending, Now
  <2>11. ChainOf(f, chain) /\ ChainOf(f, cchain)  BY <2>2 DEF SyncOK, NodeOK, ClientOK
  <2>12. \/ Grown(chain, cchain)
         \/ Grown(cchain, chain) /\ ~TipPublished
    BY <2>8, <2>10 DEF Tracks, FullOf, TipPublished
  <2> QED BY <2>11, <2>12, GrownPrefix
<1> QED BY <1>1, BlockSyncInductive, FollowInductive, PTL

\* A mem block that is applied was built by the full node on the block that is the
\* read-only node's tip, though refresh_mem_block compares numbers only.
THEOREM MemBlocksOnParent == Spec => []MemBlockOnParent
<1>1. BlockSyncInv /\ FollowInv => MemBlockOnParent
  <2>1. SUFFICES ASSUME BlockSyncInv, FollowInv, Streaming("mem"), ~stale,
                        Head(chan).num = Len(cchain) + 1
                 PROVE  Head(chan).blk.par = TipOf(cchain)
    BY DEF MemBlockOnParent
  <2>2. PICK f : SyncOK(f)  BY <2>1 DEF BlockSyncInv
  <2>3. PICK v, m : v = Now /\ m = Head(chan)  OBVIOUS
  <2>4. v \in Views /\ v.c = cchain  BY <2>2, <2>3, NowOK DEF ViewOK
  <2>5. cstate = "stream" /\ chan # <<>> /\ m.kind = "mem"  BY <2>1, <2>3 DEF Streaming
  <2>6. Follow(v, chan, session, Ending)  BY <2>1, <2>3, <2>5 DEF FollowInv, Followed
  <2>7. chan \in Seq(Message)  BY <2>2 DEF SyncOK, MsgsOK
  <2>8. Fits(v, m)  BY <2>4, <2>5, AfterSame
  <2>9. Step(v, m)  BY <2>3, <2>5, <2>6, <2>7, <2>8, FollowHead
  <2> QED BY <2>1, <2>3, <2>4, <2>5, <2>9 DEF Step
<1> QED BY <1>1, BlockSyncInductive, FollowInductive, PTL

\* A confirmation that a read-only node applies is of a block whose submit tx hash it has
\* stored, whenever layer 1 commits the submission and whatever was missed before.
THEOREM ConfirmedBlocksHaveHash == Spec => []ConfirmedHasHash
<1>1. BlockSyncInv /\ FollowInv => ConfirmedHasHash
  <2>1. SUFFICES ASSUME BlockSyncInv, FollowInv, Streaming("confirmed"), ~stale,
                        CheckNumberHash(Head(chan))
                 PROVE  Head(chan).num \in cTx
    BY DEF ConfirmedHasHash
  <2>2. PICK f : SyncOK(f)  BY <2>1 DEF BlockSyncInv
  <2>3. PICK v, m : v = Now /\ m = Head(chan)  OBVIOUS
  <2>4. v.c = cchain /\ v.t = cTx  BY <2>2, <2>3, NowOK
  <2>5. cstate = "stream" /\ chan # <<>> /\ m.kind = "confirmed"  BY <2>1, <2>3 DEF Streaming
  <2>6. Follow(v, chan, session, Ending)  BY <2>1, <2>3, <2>5 DEF FollowInv, Followed
  <2>7. chan \in Seq(Message)  BY <2>2 DEF SyncOK, MsgsOK
  <2>8. Fits(v, m)  BY <2>1, <2>3, <2>4, <2>5 DEF Fits, CheckNumberHash
  <2>9. Step(v, m)  BY <2>3, <2>5, <2>6, <2>7, <2>8, FollowHead
  <2> QED BY <2>3, <2>4, <2>5, <2>9 DEF Step
<1> QED BY <1>1, BlockSyncInductive, FollowInductive, PTL

=============================================================================
