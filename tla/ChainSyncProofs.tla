--------------------------- MODULE ChainSyncProofs ---------------------------
(***************************************************************************)
(* Proofs about a node that follows the rollup cell, for any number of     *)
(* blocks, reverts and disturbances.                                       *)
(*                                                                         *)
(* The argument: the list of rollup transactions only grows, and each of   *)
(* them is a step of RollupChain (LogInv).  The store of the node is at    *)
(* all times the one after some transaction q of the list, which may be    *)
(* ahead of the pass that is under way (NodeInv).  A pass that is behind   *)
(* the store cannot get past a submission or a revert: the checks against  *)
(* the parent, the block tree and the reverted tree refuse them.  So a     *)
(* pass that reaches the end of the list leaves the store at the end.      *)
(***************************************************************************)
EXTENDS ChainSync, NatLemmas, SequenceTheorems

Kinds == {"submit", "challenge", "cancel", "revert"}
Increasing(s) == \A i, j \in 1..Len(s) : i < j => s[i] < s[j]
GoodChain(s) == s \in Seq(Nat) /\ Len(s) >= 1 /\ s[1] = Genesis /\ Increasing(s)

\* What the rollup cell holds after transaction i of list l.
StateIn(l, i) == IF i = 0 THEN GenesisState ELSE l[i]

\* Transaction k submits block b; the genesis block is there from the start.
SubmitsIn(l, k, b) == IF k = 0 THEN b = Genesis ELSE l[k].kind = "submit" /\ l[k].block = b

States == [kind : Kinds, block : Nat, blocks : Seq(Nat), chain : Seq(Nat), halted : Nat, undone : SUBSET Nat]

\* Transaction t on the rollup cell with state s.
SubmitStep(s, t) ==
    /\ t.kind = "submit" /\ s.halted = 0 /\ t.halted = 0
    /\ t.chain = Append(s.chain, t.block) /\ t.undone = s.undone
ChallengeStep(s, t) ==
    /\ t.kind = "challenge" /\ s.halted = 0 /\ t.halted = t.block
    /\ t.block \in Elements(s.chain) \ {Genesis}
    /\ t.chain = s.chain /\ t.undone = s.undone
CancelStep(s, t) ==
    /\ t.kind = "cancel" /\ s.halted # 0 /\ t.halted = 0
    /\ t.chain = s.chain /\ t.undone = s.undone
RevertStep(s, t) ==
    /\ t.kind = "revert" /\ s.halted # 0 /\ t.halted = 0 /\ t.block = s.halted
    /\ \E p \in 2..Len(s.chain) :
           /\ s.chain[p] = t.block /\ t.chain = SubSeq(s.chain, 1, p - 1)
           /\ t.undone = s.undone \cup {s.chain[j] : j \in p..Len(s.chain)}

CellStep(s, t) == SubmitStep(s, t) \/ ChallengeStep(s, t) \/ CancelStep(s, t) \/ RevertStep(s, t)

\* The blocks in the chain and the reverted ones.
Known(s) == Elements(s.chain) \cup s.undone

\* Every transaction of l is a step on the state before it, and submits one of
\* the blocks up to m if any, newer than the ones before.
StepsOK(l, m) ==
    /\ l \in Seq(States)
    /\ \A i \in 1..Len(l) : CellStep(StateIn(l, i - 1), l[i])
    /\ \A i \in 0..Len(l) : /\ GoodChain(StateIn(l, i).chain)
                            /\ Known(StateIn(l, i)) \subseteq 1..m
    /\ \A i, j \in 1..Len(l) :
           i < j /\ l[i].kind = "submit" /\ l[j].kind = "submit" => l[i].block < l[j].block
    /\ \A i \in 1..Len(l) : l[i].kind = "submit" => l[i].block \in 2..m

\* A chain up to one of its blocks is the chain that the submission of that block left.
PathsOK(l) ==
    \A i \in 0..Len(l) : \A p \in 1..Len(StateIn(l, i).chain) :
        \E k \in 0..i : SubmitsIn(l, k, StateIn(l, i).chain[p])
                        /\ StateIn(l, k).chain = SubSeq(StateIn(l, i).chain, 1, p)

\* Reverted blocks stay reverted, and submitted blocks are in the chain or reverted.
UndoneOK(l) ==
    /\ \A i \in 0..Len(l) : Elements(StateIn(l, i).chain) \cap StateIn(l, i).undone = {}
    /\ \A i, j \in 0..Len(l) : i <= j => StateIn(l, i).undone \subseteq StateIn(l, j).undone
    /\ \A i \in 1..Len(l), j \in 0..Len(l) :
           i <= j /\ l[i].kind = "submit" => l[i].block \in Known(StateIn(l, j))

LogOK(l, m) == StepsOK(l, m) /\ PathsOK(l) /\ UndoneOK(l)

\* Layer 1: the rollup cell is what the last transaction left.
CellInv ==
    /\ right \in Seq(BOOLEAN) /\ Len(right) >= 1
    /\ chain = StateIn(log, Len(log)).chain /\ halted = StateIn(log, Len(log)).halted
    /\ undone = StateIn(log, Len(log)).undone
    /\ halted # 0 => halted \in Elements(chain) \ {Genesis}

LogInv == CellInv /\ LogOK(log, Len(right))

-----------------------------------------------------------------------------
(* The node.                                                               *)

\* The store and the memory are records with these fields.
IsStore(d) == d = [valid |-> d.valid, tip |-> d.tip, bad |-> d.bad, smt |-> d.smt,
                   rsmt |-> d.rsmt, targets |-> d.targets]
IsMemory(m) == m = [tip |-> m.tip, state |-> m.state, target |-> m.target, event |-> m.event]

\* Store d is the one at cell state s; the first Len(d.valid) blocks of its chain are valid.
StoreOf(s, d) ==
    /\ d.tip = Last(s.chain)
    /\ d.smt = Elements(s.chain) /\ d.rsmt = s.undone
    /\ Len(d.valid) \in 1..Len(s.chain)
    /\ d.valid = SubSeq(s.chain, 1, Len(d.valid))

\* Target t in memory is the first block that is not valid.
TargetOf(s, d, t) ==
    IF t = 0 THEN Len(d.valid) = Len(s.chain)
    ELSE Len(d.valid) < Len(s.chain) /\ s.chain[Len(d.valid) + 1] = t

\* After a restart the target is forgotten; no pass gets as far as the bad block then.
TargetLost(l, q, d, t, p) ==
    /\ t = 0 /\ Len(d.valid) < Len(StateIn(l, q).chain)
    /\ p # Idle => \E k \in 1..q : p < k /\ SubmitsIn(l, k, StateIn(l, q).chain[Len(d.valid) + 1])

\* A pass is never ahead of the store, and has the status right when it is not behind.
PassAt(l, q, d, h, p) ==
    /\ p # Idle => /\ p \in 0..q
                   /\ \E k \in 0..p : SubmitsIn(l, k, Last(d.valid))
                   /\ p = q => h = StateIn(l, q).halted
    /\ SubmitsIn(l, q, Last(d.valid)) => h = 0

\* The node is at transaction q of list l.
NodeAt(l, q, d, m, p) ==
    /\ StoreOf(StateIn(l, q), d) /\ m.tip = d.tip
    /\ TargetOf(StateIn(l, q), d, m.target) \/ TargetLost(l, q, d, m.target, p)
    /\ PassAt(l, q, d, m.state.halted, p)

NodeInv == IsStore(db) /\ IsMemory(mem) /\ \E q \in 0..Len(log) : NodeAt(log, q, db, mem, pos)

-----------------------------------------------------------------------------
(* What the node acts on.                                                  *)

\* Block b is wrong, r being what is right.
Wrong(r, b) == b \in 1..Len(r) /\ ~r[b]

\* There is a wrong block no later than block b in the chain s.
WrongUpTo(r, b, s) == \E i, j \in 1..Len(s) : i <= j /\ s[j] = b /\ Wrong(r, s[i])

BadOK(r, l, bs) ==
    \A b \in bs : \E k \in 1..Len(l) : SubmitsIn(l, k, b) /\ WrongUpTo(r, b, l[k].chain)

EventOK(r, l, ev) ==
    /\ ev.kind = "BadBlock" => Wrong(r, ev.block)
    /\ ev.kind = "WaitChallenge" =>
           /\ ev.cell \in 1..Len(l) /\ l[ev.cell].kind = "challenge"
           /\ WrongUpTo(r, l[ev.cell].block, l[ev.cell].chain)

\* The targets are wrong, the bad blocks have a wrong block in their chain, and
\* the challenger waits to revert only such blocks.
ActAt(r, l, d, m) ==
    /\ \A b \in d.targets : Wrong(r, b)
    /\ m.target # 0 => Wrong(r, m.target)
    /\ BadOK(r, l, d.bad)
    /\ EventOK(r, l, m.event)

ActInv == ActAt(right, log, db, mem)

-----------------------------------------------------------------------------
(* Chains.                                                                 *)

\* The parts of GoodChain in the form the provers use.
LEMMA ChainFacts ==
    ASSUME NEW s, GoodChain(s)
    PROVE  /\ s \in Seq(Nat) /\ Len(s) \in Nat /\ Len(s) >= 1 /\ s[1] = Genesis
           /\ DOMAIN s = 1..Len(s) /\ \A i \in 1..Len(s) : s[i] \in Nat
           /\ \A i, j \in 1..Len(s) : i < j => s[i] < s[j]
           /\ \A i, j \in 1..Len(s) : s[i] = s[j] => i = j
           /\ \A i \in 1..Len(s) : PositionOf(s[i], s) = i
           /\ SubSeq(s, 1, Len(s)) = s
<1>1. s \in Seq(Nat) /\ Len(s) >= 1 /\ s[1] = Genesis  BY DEF GoodChain
<1>2. Len(s) \in Nat /\ DOMAIN s = 1..Len(s) /\ SubSeq(s, 1, Len(s)) = s
  BY <1>1, LenProperties, SubSeqFull
<1>3. \A i \in 1..Len(s) : s[i] \in Nat  BY <1>1, ElementOfSeq
<1>4. \A i, j \in 1..Len(s) : i < j => s[i] < s[j]  BY DEF GoodChain, Increasing
<1>5. \A i, j \in 1..Len(s) : s[i] = s[j] => i = j
  <2> SUFFICES ASSUME NEW i \in 1..Len(s), NEW j \in 1..Len(s), s[i] = s[j] PROVE i = j
    OBVIOUS
  <2>1. i \in Nat /\ j \in Nat /\ s[i] \in Nat /\ s[j] \in Nat  BY <1>2, <1>3
  <2>2. ~ (i < j) /\ ~ (j < i)  BY <1>4, <2>1
  <2> QED BY <2>1, <2>2
<1>6. \A i \in 1..Len(s) : PositionOf(s[i], s) = i
  <2> TAKE i \in 1..Len(s)
  <2>1. \E j \in 1..Len(s) : s[j] = s[i]  OBVIOUS
  <2>2. PositionOf(s[i], s) \in 1..Len(s) /\ s[PositionOf(s[i], s)] = s[i]
    BY <2>1 DEF PositionOf
  <2> QED BY <1>5, <2>2
<1> QED BY <1>1, <1>2, <1>3, <1>4, <1>5, <1>6

\* Chain t is the first n blocks of s.
PrefixOf(t, s, n) ==
    /\ GoodChain(t) /\ Len(t) = n /\ \A i \in 1..n : t[i] = s[i]
    /\ Elements(t) = {s[i] : i \in 1..n} /\ Elements(t) \subseteq Elements(s)
    /\ \A p \in 1..n : SubSeq(t, 1, p) = SubSeq(s, 1, p)

\* A prefix of a chain is a chain.
LEMMA PrefixChain ==
    ASSUME NEW s, GoodChain(s), NEW n \in 1..Len(s), NEW t, t = SubSeq(s, 1, n)
    PROVE  PrefixOf(t, s, n)
<1>1. s \in Seq(Nat) /\ Len(s) \in Nat /\ s[1] = Genesis /\ n \in Nat
      /\ \A i \in 1..Len(s) : s[i] \in Nat
  BY ChainFacts
<1>2. \A i \in 1..n : i \in 1..Len(s) /\ s[i] \in Nat  BY <1>1
<1>3. t \in Seq(Nat) /\ Len(t) = n /\ \A i \in 1..n : t[i] = s[i]
  <2>1. \A i \in 1..n : s[i] \in Nat  BY <1>2
  <2>2. /\ SubSeq(s, 1, n) \in Seq(Nat)
        /\ Len(SubSeq(s, 1, n)) = (IF 1 <= n THEN n - 1 + 1 ELSE 0)
        /\ \A i \in 1..(n - 1 + 1) : SubSeq(s, 1, n)[i] = s[1 + i - 1]
    BY <1>1, <2>1, SubSeqProperties
  <2> QED BY <1>1, <2>2
<1>4. GoodChain(t)
  BY <1>1, <1>2, <1>3 DEF GoodChain, Increasing
<1>5. Elements(t) = {s[i] : i \in 1..n} /\ Elements(t) \subseteq Elements(s)
  BY <1>2, <1>3 DEF Elements
<1>6. ASSUME NEW p \in 1..n PROVE SubSeq(t, 1, p) = SubSeq(s, 1, p)
  <2>1. p \in Nat /\ \A i \in 1..p : i \in 1..n  BY <1>1
  <2>2. /\ SubSeq(s, 1, p) \in Seq(Nat) /\ Len(SubSeq(s, 1, p)) = p
        /\ \A i \in 1..p : SubSeq(s, 1, p)[i] = s[i]
    <3>1. \A i \in 1..p : s[i] \in Nat  BY <1>2, <2>1
    <3>2. /\ SubSeq(s, 1, p) \in Seq(Nat)
          /\ Len(SubSeq(s, 1, p)) = (IF 1 <= p THEN p - 1 + 1 ELSE 0)
          /\ \A i \in 1..(p - 1 + 1) : SubSeq(s, 1, p)[i] = s[1 + i - 1]
      BY <2>1, <3>1, SubSeqProperties
    <3> QED BY <2>1, <3>2
  <2>3. /\ SubSeq(t, 1, p) \in Seq(Nat) /\ Len(SubSeq(t, 1, p)) = p
        /\ \A i \in 1..p : SubSeq(t, 1, p)[i] = s[i]
    <3>1. \A i \in 1..p : t[i] = s[i] /\ t[i] \in Nat  BY <1>2, <1>3, <2>1
    <3>2. /\ SubSeq(t, 1, p) \in Seq(Nat)
          /\ Len(SubSeq(t, 1, p)) = (IF 1 <= p THEN p - 1 + 1 ELSE 0)
          /\ \A i \in 1..(p - 1 + 1) : SubSeq(t, 1, p)[i] = t[1 + i - 1]
      BY <2>1, <3>1, SubSeqProperties
    <3> QED BY <2>1, <3>1, <3>2
  <2> QED BY <2>2, <2>3, SeqEqual
<1> QED BY <1>3, <1>4, <1>5, <1>6 DEF PrefixOf

\* Chain t is s with block b at its end.
ExtensionOf(t, s, b) ==
    /\ GoodChain(t) /\ Len(t) = Len(s) + 1 /\ t[Len(s) + 1] = b
    /\ \A i \in 1..Len(s) : t[i] = s[i]
    /\ Elements(t) = Elements(s) \cup {b}
    /\ \A p \in 1..Len(s) : SubSeq(t, 1, p) = SubSeq(s, 1, p)
    /\ SubSeq(t, 1, Len(s)) = s /\ Last(t) = b

\* A chain with one more block is a chain.
LEMMA AppendChain ==
    ASSUME NEW s, GoodChain(s), NEW b \in Nat, \A i \in 1..Len(s) : s[i] < b,
           NEW t, t = Append(s, b)
    PROVE  ExtensionOf(t, s, b)
<1> PICK n \in Nat : n = Len(s) /\ n >= 1  BY ChainFacts
<1>1. s \in Seq(Nat) /\ s[1] = Genesis /\ (\A i \in 1..n : s[i] \in Nat)
      /\ (\A i, j \in 1..n : i < j => s[i] < s[j]) /\ SubSeq(s, 1, n) = s
  BY ChainFacts
<1>2. t \in Seq(Nat) /\ Len(t) = n + 1 /\ t[n + 1] = b /\ \A i \in 1..n : t[i] = s[i]
  BY <1>1, AppendProperties
<1>3. \A i \in 1..(n + 1) : i \in 1..n \/ i = n + 1  OBVIOUS
<1>4. Increasing(t)
  <2> SUFFICES ASSUME NEW i \in 1..(n + 1), NEW j \in 1..(n + 1), i < j PROVE t[i] < t[j]
    BY <1>2 DEF Increasing
  <2>1. i \in 1..n  OBVIOUS
  <2>2. CASE j \in 1..n  BY <1>1, <1>2, <2>1, <2>2
  <2>3. CASE j = n + 1  BY <1>2, <2>1, <2>3
  <2> QED BY <1>3, <2>2, <2>3
<1>5. GoodChain(t)
  BY <1>1, <1>2, <1>4 DEF GoodChain
<1>6. Elements(t) = Elements(s) \cup {b}
  BY <1>2, <1>3 DEF Elements
<1>7. SubSeq(t, 1, n) = s
  <2> PICK u : u = SubSeq(t, 1, n)  OBVIOUS
  <2>1. n \in 1..Len(t)  BY <1>2
  <2>5. PrefixOf(u, t, n)  BY <1>5, <2>1, PrefixChain
  <2>2. GoodChain(u) /\ Len(u) = n /\ \A i \in 1..n : u[i] = t[i]
    BY <2>5 DEF PrefixOf
  <2>3. u \in Seq(Nat)  BY <2>2 DEF GoodChain
  <2>4. \A i \in 1..Len(u) : u[i] = s[i]  BY <1>2, <2>2
  <2> QED BY <1>1, <2>2, <2>3, <2>4, SeqEqual
<1>8. \A p \in 1..n : SubSeq(t, 1, p) = SubSeq(s, 1, p)
  <2>1. n \in 1..Len(t)  BY <1>2
  <2> PICK u : u = SubSeq(t, 1, n)  OBVIOUS
  <2>2. \A p \in 1..n : SubSeq(u, 1, p) = SubSeq(t, 1, p)
    <3>1. PrefixOf(u, t, n)  BY <1>5, <2>1, PrefixChain
    <3> QED BY <3>1 DEF PrefixOf
  <2>3. u = s  BY <1>7
  <2> QED BY <2>2, <2>3
<1> QED BY <1>2, <1>5, <1>6, <1>7, <1>8 DEF Last, ExtensionOf


-----------------------------------------------------------------------------
(* The list of rollup transactions.                                        *)

\* What a transaction does to the chain and to the reverted blocks.
LEMMA CellStepFacts ==
    ASSUME NEW s, NEW e, NEW m \in Nat, GoodChain(s.chain), Known(s) \subseteq 1..m,
           Elements(s.chain) \cap s.undone = {},
           CellStep(s, e), e.kind = "submit" => e.block = m + 1
    PROVE  /\ GoodChain(e.chain)
           /\ Known(e) \subseteq 1..(m + 1) /\ (e.kind # "submit" => Known(e) \subseteq 1..m)
           /\ Elements(e.chain) \cap e.undone = {}
           /\ s.undone \subseteq e.undone /\ Known(s) \subseteq Known(e)
           /\ e.kind = "submit" => e.block \in Known(e)
           /\ \A p \in 1..Len(e.chain) :
                  \/ /\ p \in 1..Len(s.chain) /\ e.chain[p] = s.chain[p]
                     /\ SubSeq(e.chain, 1, p) = SubSeq(s.chain, 1, p)
                  \/ e.kind = "submit" /\ e.chain[p] = e.block /\ SubSeq(e.chain, 1, p) = e.chain
<1> PICK c, d, n : c = s.chain /\ d = e.chain /\ n = Len(c)  OBVIOUS
<1>1. /\ c \in Seq(Nat) /\ n \in Nat /\ n >= 1
      /\ \A i \in 1..n : c[i] \in Nat
      /\ \A i, j \in 1..n : c[i] = c[j] => i = j
  BY ChainFacts
<1>2. \A i \in 1..n : c[i] \in 1..m /\ c[i] < m + 1
  <2> TAKE i \in 1..n
  <2>1. c[i] \in Elements(c)  BY DEF Elements
  <2>2. c[i] \in 1..m  BY <2>1 DEF Known
  <2> QED BY <2>2
<1>3. CASE SubmitStep(s, e)
  <2>1. e.kind = "submit" /\ e.block = m + 1 /\ d = Append(c, m + 1) /\ e.undone = s.undone
    BY <1>3 DEF SubmitStep
  <2>2. /\ GoodChain(d) /\ Len(d) = n + 1 /\ d[n + 1] = m + 1
        /\ \A i \in 1..n : d[i] = c[i]
        /\ Elements(d) = Elements(c) \cup {m + 1}
        /\ \A p \in 1..n : SubSeq(d, 1, p) = SubSeq(c, 1, p)
    <3> PICK x : x = m + 1  OBVIOUS
    <3>1. GoodChain(c) /\ x \in Nat /\ d = Append(c, x)  BY <2>1
    <3>2. \A i \in 1..Len(c) : c[i] < x  BY <1>2
    <3>3. ExtensionOf(d, c, x)  BY <3>1, <3>2, AppendChain
    <3> QED BY <3>3 DEF ExtensionOf
  <2>3. SubSeq(d, 1, n + 1) = d  BY <2>2, ChainFacts
  <2>4. \A p \in 1..(n + 1) : p \in 1..n \/ p = n + 1  BY <1>1
  <2>5. Known(e) \subseteq 1..(m + 1) /\ Known(s) \subseteq Known(e) /\ m + 1 \in Known(e)
    BY <2>1, <2>2 DEF Known
  <2>6. m + 1 \notin s.undone  BY DEF Known
  <2>7. Elements(d) \cap e.undone = {}  BY <2>1, <2>2, <2>6
  <2>8. \A p \in 1..Len(d) : \/ p \in 1..n /\ d[p] = c[p] /\ SubSeq(d, 1, p) = SubSeq(c, 1, p)
                             \/ d[p] = e.block /\ SubSeq(d, 1, p) = d
    BY <2>1, <2>2, <2>3, <2>4
  <2> QED BY <2>1, <2>2, <2>5, <2>7, <2>8
<1>4. CASE ChallengeStep(s, e) \/ CancelStep(s, e)
  <2>1. d = c /\ e.undone = s.undone /\ e.kind # "submit"
    BY <1>4 DEF ChallengeStep, CancelStep
  <2>2. Known(e) = Known(s)  BY <2>1 DEF Known
  <2>3. 1..m \subseteq 1..(m + 1)  OBVIOUS
  <2> QED BY <2>1, <2>2, <2>3
<1>5. CASE RevertStep(s, e)
  <2>1. e.kind = "revert"  BY <1>5 DEF RevertStep
  <2>2. PICK p \in 2..n : d = SubSeq(c, 1, p - 1) /\ e.undone = s.undone \cup {c[j] : j \in p..n}
    BY <1>5 DEF RevertStep
  <2> PICK h : h = p - 1  OBVIOUS
  <2>3. h \in 1..n /\ h + 1 = p  BY <1>1
  <2>4. /\ GoodChain(d) /\ Len(d) = h /\ \A i \in 1..h : d[i] = c[i]
        /\ Elements(d) = {c[i] : i \in 1..h} /\ Elements(d) \subseteq Elements(c)
        /\ \A i \in 1..h : SubSeq(d, 1, i) = SubSeq(c, 1, i)
    <3>1. GoodChain(c) /\ h \in 1..Len(c) /\ d = SubSeq(c, 1, h)  BY <2>2, <2>3
    <3>2. PrefixOf(d, c, h)  BY <3>1, PrefixChain
    <3> QED BY <3>2 DEF PrefixOf
  <2>5. \A i \in 1..n : i \in 1..h \/ i \in p..n  BY <1>1, <2>3
  <2>6. \A i \in p..n : i \in 1..n /\ i \notin 1..h  BY <1>1, <2>3
  <2>7. \A i \in 1..h : i \in 1..n  BY <2>3
  <2>8. Elements(d) \cap e.undone = {}
    <3>1. \A x \in Elements(d) : x \notin s.undone  BY <2>4
    <3>2. \A i \in 1..h : \A j \in p..n : c[i] # c[j]  BY <1>1, <2>6, <2>7
    <3> QED BY <2>2, <2>4, <3>1, <3>2
  <2>9. Known(e) \subseteq Known(s) /\ s.undone \subseteq e.undone
    BY <2>2, <2>4, <2>6 DEF Known, Elements
  <2>10. Known(s) \subseteq Known(e)
    <3>1. \A i \in 1..n : c[i] \in Known(e)  BY <2>2, <2>4, <2>5 DEF Known
    <3> QED BY <2>9, <3>1 DEF Known, Elements
  <2>11. 1..m \subseteq 1..(m + 1)  OBVIOUS
  <2>12. \A i \in 1..Len(d) : i \in 1..n /\ d[i] = c[i] /\ SubSeq(d, 1, i) = SubSeq(c, 1, i)
    BY <2>4, <2>7
  <2> QED BY <2>1, <2>4, <2>8, <2>9, <2>10, <2>11, <2>12
<1> QED BY <1>3, <1>4, <1>5 DEF CellStep

\* List t is the list l of n transactions and transaction e.
OneMore(t, l, n, e) ==
    /\ n \in Nat /\ Len(t) = n + 1 /\ t \in Seq(States) /\ t[n + 1] = e
    /\ \A i \in 0..n : StateIn(t, i) = StateIn(l, i)
    /\ \A i \in 1..n : t[i] = l[i]
    /\ StateIn(t, n + 1) = e
    /\ \A k \in 0..n : \A b : SubmitsIn(t, k, b) <=> SubmitsIn(l, k, b)

\* A list with one more transaction: the ones before stay as they are.
LEMMA StatesKept ==
    ASSUME NEW l \in Seq(States), NEW e \in States, NEW t, t = Append(l, e),
           NEW n, n = Len(l)
    PROVE  OneMore(t, l, n, e)
<1>1. n \in Nat  BY LenProperties
<1>2. t \in Seq(States) /\ Len(t) = n + 1 /\ t[n + 1] = e /\ \A i \in 1..n : t[i] = l[i]
  BY <1>1, AppendProperties
<1>3. \A i \in 0..n : i = 0 \/ i \in 1..n  BY <1>1
<1>4. n + 1 # 0  BY <1>1
<1>5. \A i \in 0..n : StateIn(t, i) = StateIn(l, i)  BY <1>2, <1>3 DEF StateIn
<1>6. \A k \in 0..n : \A b : SubmitsIn(t, k, b) <=> SubmitsIn(l, k, b)
  BY <1>2, <1>3 DEF SubmitsIn
<1>7. StateIn(t, n + 1) = e  BY <1>2, <1>4 DEF StateIn
<1> QED BY <1>1, <1>2, <1>5, <1>6, <1>7 DEF OneMore

\* A transaction that is a step on the last state keeps the list in order.
LEMMA ListGrows ==
    ASSUME NEW l, NEW m \in Nat, LogOK(l, m), NEW e \in States,
           NEW n, n = Len(l), CellStep(StateIn(l, n), e), e.kind = "submit" => e.block = m + 1,
           NEW r, r = (IF e.kind = "submit" THEN m + 1 ELSE m), NEW t, t = Append(l, e)
    PROVE  LogOK(t, r)
<1>1. /\ l \in Seq(States)
      /\ \A i \in 1..n : CellStep(StateIn(l, i - 1), l[i])
      /\ \A i \in 0..n : GoodChain(StateIn(l, i).chain) /\ Known(StateIn(l, i)) \subseteq 1..m
      /\ \A i, j \in 1..n :
             i < j /\ l[i].kind = "submit" /\ l[j].kind = "submit" => l[i].block < l[j].block
      /\ \A i \in 1..n : l[i].kind = "submit" => l[i].block \in 2..m
  BY DEF LogOK, StepsOK
<1>2. /\ n \in Nat /\ Len(t) = n + 1 /\ t \in Seq(States) /\ t[n + 1] = e
      /\ \A i \in 0..n : StateIn(t, i) = StateIn(l, i)
      /\ \A i \in 1..n : t[i] = l[i]
      /\ StateIn(t, n + 1) = e
      /\ \A k \in 0..n : \A b : SubmitsIn(t, k, b) <=> SubmitsIn(l, k, b)
  <2>1. OneMore(t, l, n, e)  BY <1>1, StatesKept
  <2> QED BY <2>1 DEF OneMore
<1>3. /\ \A i \in 1..(n + 1) : i \in 1..n \/ i = n + 1
      /\ \A i \in 0..(n + 1) : i \in 0..n \/ i = n + 1
      /\ \A i \in 1..n : i - 1 \in 0..n
      /\ n \in 0..n /\ n + 1 - 1 = n
  BY <1>2
<1>4. /\ \A i \in 0..n : Elements(StateIn(l, i).chain) \cap StateIn(l, i).undone = {}
      /\ \A i, j \in 0..n : i <= j => StateIn(l, i).undone \subseteq StateIn(l, j).undone
      /\ \A i \in 1..n, j \in 0..n :
             i <= j /\ l[i].kind = "submit" => l[i].block \in Known(StateIn(l, j))
  BY DEF LogOK, UndoneOK
<1> PICK s : s = StateIn(l, n)  OBVIOUS
<1>5. GoodChain(s.chain) /\ Known(s) \subseteq 1..m /\ Elements(s.chain) \cap s.undone = {}
  BY <1>1, <1>3, <1>4
<1>6. /\ GoodChain(e.chain)
      /\ Known(e) \subseteq 1..(m + 1) /\ (e.kind # "submit" => Known(e) \subseteq 1..m)
      /\ Elements(e.chain) \cap e.undone = {}
      /\ s.undone \subseteq e.undone /\ Known(s) \subseteq Known(e)
      /\ e.kind = "submit" => e.block \in Known(e)
      /\ \A p \in 1..Len(e.chain) :
             \/ /\ p \in 1..Len(s.chain) /\ e.chain[p] = s.chain[p]
                /\ SubSeq(e.chain, 1, p) = SubSeq(s.chain, 1, p)
             \/ e.kind = "submit" /\ e.chain[p] = e.block /\ SubSeq(e.chain, 1, p) = e.chain
  BY <1>5, CellStepFacts
<1>7. r \in Nat /\ m <= r /\ 1..m \subseteq 1..r /\ 2..m \subseteq 2..r  OBVIOUS
<1>8. StepsOK(t, r)
  <2>1. \A i \in 1..(n + 1) : CellStep(StateIn(t, i - 1), t[i])
    <3> TAKE i \in 1..(n + 1)
    <3>1. CASE i \in 1..n
      <4>1. StateIn(t, i - 1) = StateIn(l, i - 1) /\ t[i] = l[i]  BY <1>2, <1>3, <3>1
      <4> QED BY <1>1, <3>1, <4>1
    <3>2. CASE i = n + 1
      <4>1. i - 1 = n  BY <1>2, <3>2
      <4>2. StateIn(t, i - 1) = s /\ t[i] = e  BY <1>2, <1>3, <3>2, <4>1
      <4> QED BY <4>2
    <3> QED BY <1>3, <3>1, <3>2
  <2>2. \A i \in 0..(n + 1) : GoodChain(StateIn(t, i).chain) /\ Known(StateIn(t, i)) \subseteq 1..r
    <3>1. Known(e) \subseteq 1..r  BY <1>6
    <3> QED BY <1>1, <1>2, <1>3, <1>6, <1>7, <3>1
  <2>3. ASSUME NEW i \in 1..(n + 1), NEW j \in 1..(n + 1), i < j,
               t[i].kind = "submit", t[j].kind = "submit"
        PROVE  t[i].block < t[j].block
    <3>1. i \in 1..n  BY <1>2, <2>3
    <3>2. t[i].block \in 2..m  BY <1>1, <1>2, <2>3, <3>1
    <3>3. CASE j \in 1..n  BY <1>1, <1>2, <2>3, <3>1, <3>3
    <3>4. CASE j = n + 1  BY <1>2, <2>3, <3>2, <3>4
    <3> QED BY <1>3, <3>3, <3>4
  <2>4. ASSUME NEW i \in 1..(n + 1), t[i].kind = "submit" PROVE t[i].block \in 2..r
    <3>1. CASE i \in 1..n  BY <1>1, <1>2, <1>7, <2>4, <3>1
    <3>2. CASE i = n + 1
      <4>1. m >= 1
        <5>1. 1 \in 1..Len(s.chain) /\ s.chain[1] = Genesis  BY <1>5, ChainFacts
        <5>2. Genesis \in Known(s)  BY <5>1 DEF Known, Elements
        <5> QED BY <1>5, <5>2 DEF Genesis
      <4> QED BY <1>2, <2>4, <3>2, <4>1
    <3> QED BY <1>3, <3>1, <3>2
  <2> QED BY <1>2, <2>1, <2>2, <2>3, <2>4 DEF StepsOK
<1>9. PathsOK(t)
  <2> SUFFICES ASSUME NEW i \in 0..(n + 1), NEW p \in 1..Len(StateIn(t, i).chain)
               PROVE  \E k \in 0..i : SubmitsIn(t, k, StateIn(t, i).chain[p])
                          /\ StateIn(t, k).chain = SubSeq(StateIn(t, i).chain, 1, p)
    BY <1>2 DEF PathsOK
  <2>1. \A x \in 0..n : \A y \in 1..Len(StateIn(l, x).chain) :
            \E k \in 0..x : /\ SubmitsIn(t, k, StateIn(l, x).chain[y])
                            /\ StateIn(t, k).chain = SubSeq(StateIn(l, x).chain, 1, y)
    <3> TAKE x \in 0..n
    <3> TAKE y \in 1..Len(StateIn(l, x).chain)
    <3>1. PICK k \in 0..x : SubmitsIn(l, k, StateIn(l, x).chain[y])
                         /\ StateIn(l, k).chain = SubSeq(StateIn(l, x).chain, 1, y)
      BY DEF LogOK, PathsOK
    <3>2. k \in 0..n  BY <1>2
    <3> QED BY <1>2, <3>1, <3>2
  <2>2. CASE i \in 0..n  BY <1>2, <2>1, <2>2
  <2>3. CASE i = n + 1
    <3>1. StateIn(t, i) = e /\ i \in Nat /\ i # 0  BY <1>2, <2>3
    <3>2. CASE p \in 1..Len(s.chain) /\ e.chain[p] = s.chain[p]
               /\ SubSeq(e.chain, 1, p) = SubSeq(s.chain, 1, p)
      <4>1. PICK k \in 0..n : SubmitsIn(t, k, s.chain[p])
                         /\ StateIn(t, k).chain = SubSeq(s.chain, 1, p)
        BY <1>3, <2>1, <3>2
      <4>2. k \in 0..i  BY <1>2, <2>3
      <4> QED BY <3>1, <3>2, <4>1, <4>2
    <3>3. CASE e.kind = "submit" /\ e.chain[p] = e.block /\ SubSeq(e.chain, 1, p) = e.chain
      <4>1. SubmitsIn(t, i, e.block)  BY <1>2, <2>3, <3>1, <3>3 DEF SubmitsIn
      <4>2. i \in 0..i  BY <3>1
      <4> QED BY <3>1, <3>3, <4>1, <4>2
    <3> QED BY <1>6, <3>1, <3>2, <3>3
  <2> QED BY <1>3, <2>2, <2>3
<1>10. UndoneOK(t)
  <2>1. \A i \in 0..(n + 1) : Elements(StateIn(t, i).chain) \cap StateIn(t, i).undone = {}
    BY <1>2, <1>3, <1>4, <1>6
  <2>2. ASSUME NEW i \in 0..(n + 1), NEW j \in 0..(n + 1), i <= j
        PROVE  StateIn(t, i).undone \subseteq StateIn(t, j).undone
    <3>1. CASE j \in 0..n
      <4>1. i \in 0..n  BY <1>2, <2>2, <3>1
      <4> QED BY <1>2, <1>4, <2>2, <3>1, <4>1
    <3>2. CASE j = n + 1 /\ i \in 0..n
      <4>1. StateIn(l, i).undone \subseteq s.undone  BY <1>2, <1>3, <1>4, <3>2
      <4> QED BY <1>2, <1>6, <3>2, <4>1
    <3>3. CASE i = n + 1 /\ j = n + 1  BY <3>3
    <3> QED BY <1>2, <1>3, <2>2, <3>1, <3>2, <3>3
  <2>3. ASSUME NEW i \in 1..(n + 1), NEW j \in 0..(n + 1), i <= j, t[i].kind = "submit"
        PROVE  t[i].block \in Known(StateIn(t, j))
    <3>1. CASE j \in 0..n
      <4>1. i \in 1..n  BY <1>2, <2>3, <3>1
      <4> QED BY <1>2, <1>4, <2>3, <3>1, <4>1
    <3>2. CASE j = n + 1 /\ i \in 1..n
      <4>1. l[i].block \in Known(s)  BY <1>2, <1>3, <1>4, <2>3, <3>2
      <4> QED BY <1>2, <1>6, <3>2, <4>1
    <3>3. CASE i = n + 1 /\ j = n + 1  BY <1>2, <1>6, <2>3, <3>3
    <3> QED BY <1>2, <1>3, <2>3, <3>1, <3>2, <3>3
  <2> QED BY <1>2, <2>1, <2>2, <2>3 DEF UndoneOK
<1> QED BY <1>8, <1>9, <1>10 DEF LogOK

\* A step of layer 1: one more transaction in the list.
Grows(e) ==
    /\ e \in States /\ log' = Append(log, e) /\ CellStep(StateIn(log, Len(log)), e)
    /\ chain' = e.chain /\ halted' = e.halted /\ undone' = e.undone
    /\ IF e.kind = "submit"
       THEN e.block = Len(right) + 1 /\ \E ok \in BOOLEAN : right' = Append(right, ok)
       ELSE right' = right

\* The transactions of the model.
RollupTx(k, b, bs) ==
    /\ Record(k, b, bs)
    /\ \/ k = "submit" /\ b = Len(right) + 1 /\ bs = <<>> /\ \E ok \in BOOLEAN : AddBlock(ok)
       \/ k = "challenge" /\ bs = <<>> /\ Challenge(b)
       \/ k = "cancel" /\ b = halted /\ bs = <<>> /\ Cancel
       \/ k = "revert" /\ b = halted /\ bs = From(halted) /\ Undo

\* Facts about the cell that hold between two steps.
LEMMA CellFacts ==
    ASSUME LogInv
    PROVE  /\ GoodChain(chain) /\ chain \in Seq(Nat) /\ Len(chain) \in Nat /\ Len(chain) >= 1
           /\ undone \in SUBSET Nat /\ halted \in Nat
           /\ Len(log) \in Nat /\ Len(right) \in Nat /\ right \in Seq(BOOLEAN)
           /\ Elements(chain) \subseteq 1..Len(right)
<1> PICK n \in Nat : n = Len(log)  BY LenProperties DEF LogInv, LogOK, StepsOK
<1> PICK s : s = StateIn(log, n)  OBVIOUS
<1>1. chain = s.chain /\ halted = s.halted /\ undone = s.undone /\ right \in Seq(BOOLEAN)
  BY DEF LogInv, CellInv
<1>2. n \in 0..n  OBVIOUS
<1>3. GoodChain(s.chain) /\ Known(s) \subseteq 1..Len(right)
  BY <1>2 DEF LogInv, LogOK, StepsOK
<1>4. chain \in Seq(Nat) /\ Len(chain) \in Nat /\ Len(chain) >= 1  BY <1>1, <1>3, ChainFacts
<1>5. Len(right) \in Nat  BY <1>1, LenProperties
<1>6. undone \in SUBSET Nat /\ Elements(chain) \subseteq 1..Len(right)
  BY <1>1, <1>3, <1>5 DEF Known
<1>7. halted \in Nat
  <2>1. halted # 0 => halted \in Elements(chain)  BY DEF LogInv, CellInv
  <2> QED BY <1>5, <1>6, <2>1
<1> QED BY <1>1, <1>3, <1>4, <1>5, <1>6, <1>7

\* The transactions of the model grow the list.
LEMMA TxGrows ==
    ASSUME LogInv, NEW k, NEW b, NEW bs, RollupTx(k, b, bs)
    PROVE  \E e : Grows(e) /\ e.kind = k /\ e.block = b
<1> PICK s : s = StateIn(log, Len(log))  OBVIOUS
<1>1. chain = s.chain /\ halted = s.halted /\ undone = s.undone
  BY DEF LogInv, CellInv
<1>2. /\ GoodChain(chain) /\ chain \in Seq(Nat) /\ Len(chain) \in Nat /\ Len(chain) >= 1
      /\ undone \in SUBSET Nat /\ halted \in Nat
      /\ Len(right) \in Nat /\ right \in Seq(BOOLEAN) /\ Elements(chain) \subseteq Nat
  BY CellFacts
<1> PICK c, h, u : c = chain' /\ h = halted' /\ u = undone'  OBVIOUS
<1> PICK e : e = [kind |-> k, block |-> b, blocks |-> bs, chain |-> c, halted |-> h, undone |-> u]
  OBVIOUS
<1>3. log' = Append(log, e)  BY DEF RollupTx, Record
<1>4. e.kind = k /\ e.block = b /\ e.chain = c /\ e.halted = h /\ e.undone = u  OBVIOUS
<1>5. <<>> \in Seq(Nat)  BY EmptySeq
<1>6. CASE k = "submit" /\ b = Len(right) + 1 /\ bs = <<>> /\ \E ok \in BOOLEAN : AddBlock(ok)
  <2>1. /\ c = Append(chain, b) /\ h = 0 /\ halted = 0 /\ u = undone
        /\ \E ok \in BOOLEAN : right' = Append(right, ok)
    BY <1>6 DEF AddBlock
  <2>2. b \in Nat  BY <1>2, <1>6
  <2>3. c \in Seq(Nat)  BY <1>2, <2>1, <2>2, AppendProperties
  <2>4. e \in States  BY <1>2, <1>5, <1>6, <2>1, <2>2, <2>3 DEF States, Kinds
  <2>5. CellStep(s, e)  BY <1>1, <1>4, <1>6, <2>1 DEF CellStep, SubmitStep
  <2> QED BY <1>3, <1>4, <1>6, <2>1, <2>4, <2>5 DEF Grows
<1>7. CASE k = "challenge" /\ bs = <<>> /\ Challenge(b)
  <2>1. /\ c = chain /\ h = b /\ halted = 0 /\ u = undone /\ right' = right
        /\ b \in Elements(chain) \ {Genesis}
    BY <1>7 DEF Challenge
  <2>2. b \in Nat  BY <1>2, <2>1
  <2>4. e \in States  BY <1>2, <1>5, <1>7, <2>1, <2>2 DEF States, Kinds
  <2>5. CellStep(s, e)  BY <1>1, <1>4, <1>7, <2>1 DEF CellStep, ChallengeStep
  <2> QED BY <1>3, <1>4, <1>7, <2>1, <2>4, <2>5 DEF Grows
<1>8. CASE k = "cancel" /\ b = halted /\ bs = <<>> /\ Cancel
  <2>1. c = chain /\ h = 0 /\ halted # 0 /\ u = undone /\ right' = right
    BY <1>8 DEF Cancel
  <2>4. e \in States  BY <1>2, <1>5, <1>8, <2>1 DEF States, Kinds
  <2>5. CellStep(s, e)  BY <1>1, <1>4, <1>8, <2>1 DEF CellStep, CancelStep
  <2> QED BY <1>3, <1>4, <1>8, <2>1, <2>4, <2>5 DEF Grows
<1>9. CASE k = "revert" /\ b = halted /\ bs = From(halted) /\ Undo
  <2> PICK n \in Nat : n = Len(chain)  BY <1>2
  <2> PICK p : p = PositionOf(halted, chain)  OBVIOUS
  <2>1. /\ c = SubSeq(chain, 1, p - 1) /\ h = 0 /\ halted # 0 /\ right' = right
        /\ u = undone \cup Elements(From(halted)) /\ From(halted) = SubSeq(chain, p, n)
    BY <1>9 DEF Undo, From
  <2>2. halted \in Elements(chain) \ {Genesis}  BY <2>1 DEF LogInv, CellInv
  <2>3. p \in 1..n /\ chain[p] = halted
    <3>1. \E i \in 1..n : chain[i] = halted  BY <2>2 DEF Elements
    <3> QED BY <3>1 DEF PositionOf
  <2>4. p # 1  BY <1>2, <2>2, <2>3, ChainFacts
  <2>5. p \in 2..n /\ p - 1 \in 1..n /\ p \in Nat  BY <2>3, <2>4
  <2>6. c \in Seq(Nat)
    <3>1. PrefixOf(c, chain, p - 1)  BY <1>2, <2>1, <2>5, PrefixChain
    <3> QED BY <3>1 DEF PrefixOf, GoodChain
  <2>7. /\ SubSeq(chain, p, n) \in Seq(Nat)
        /\ Elements(SubSeq(chain, p, n)) = {chain[j] : j \in p..n}
    <3>1. \A i \in p..n : chain[i] \in Nat
      <4>1. \A i \in p..n : i \in 1..n  BY <2>5
      <4> QED BY <1>2, <4>1, ElementOfSeq
    <3> PICK v : v = SubSeq(chain, p, n)  OBVIOUS
    <3>2. /\ SubSeq(chain, p, n) \in Seq(Nat)
          /\ Len(SubSeq(chain, p, n)) = (IF p <= n THEN n - p + 1 ELSE 0)
          /\ \A i \in 1..(n - p + 1) : SubSeq(chain, p, n)[i] = chain[p + i - 1]
      BY <2>5, <3>1, SubSeqProperties
    <3>3. v \in Seq(Nat) /\ Len(v) = n - p + 1 /\ \A i \in 1..(n - p + 1) : v[i] = chain[p + i - 1]
      BY <2>5, <3>2
    <3>4. \A x \in Elements(v) : x \in {chain[j] : j \in p..n}
      <4> SUFFICES ASSUME NEW i \in 1..Len(v) PROVE v[i] \in {chain[j] : j \in p..n}
        BY DEF Elements
      <4>1. p + i - 1 \in p..n  BY <2>5, <3>3, SMTT(60)
      <4> QED BY <3>3, <4>1
    <3>5. ASSUME NEW j \in p..n PROVE chain[j] \in Elements(v)
      <4> PICK i : i = j - p + 1  OBVIOUS
      <4>1. i \in 1..Len(v) /\ p + i - 1 = j  BY <2>5, <3>3, SMTT(60)
      <4>2. v[i] = chain[j]  BY <3>3, <4>1
      <4> QED BY <4>1, <4>2 DEF Elements
    <3>6. Elements(v) = {chain[j] : j \in p..n}  BY <3>4, <3>5
    <3> QED BY <3>3, <3>6
  <2>8. u \in SUBSET Nat
    <3>1. \A j \in p..n : chain[j] \in Nat
      <4>1. \A i \in p..n : i \in 1..n  BY <2>5
      <4> QED BY <1>2, <4>1, ElementOfSeq
    <3>2. Elements(From(halted)) = {chain[j] : j \in p..n}  BY <2>1, <2>7
    <3>3. \A x \in Elements(From(halted)) : x \in Nat  BY <3>1, <3>2
    <3>4. u = undone \cup Elements(From(halted)) /\ undone \in SUBSET Nat  BY <1>2, <2>1
    <3> QED BY <3>3, <3>4
  <2>9. e \in States  BY <1>2, <1>9, <2>1, <2>6, <2>7, <2>8, SMTT(60) DEF States, Kinds
  <2>10. RevertStep(s, e)
    <3>1. e.undone = s.undone \cup {s.chain[j] : j \in p..Len(s.chain)}
      BY <1>1, <1>4, <2>1, <2>7
    <3>2. s.chain[p] = e.block /\ e.chain = SubSeq(s.chain, 1, p - 1)
      BY <1>1, <1>4, <1>9, <2>1, <2>3
    <3>3. p \in 2..Len(s.chain)  BY <1>1, <2>5
    <3>4. e.kind = "revert" /\ s.halted # 0 /\ e.halted = 0 /\ e.block = s.halted
      BY <1>1, <1>4, <1>9, <2>1
    <3> QED BY <3>1, <3>2, <3>3, <3>4 DEF RevertStep
  <2>11. CellStep(s, e)  BY <2>10 DEF CellStep
  <2> QED BY <1>3, <1>4, <1>9, <2>1, <2>9, <2>11 DEF Grows
<1> QED BY <1>6, <1>7, <1>8, <1>9 DEF RollupTx

\* A step either leaves layer 1 alone or is one of its transactions.
LEMMA LayerOneSteps ==
    ASSUME [Next]_vars
    PROVE  UNCHANGED <<rollupVars, log>> \/ \E k, b, bs : RollupTx(k, b, bs)
<1>1. CASE UNCHANGED vars  BY <1>1 DEF vars, rollupVars
<1>2. CASE Pass
  <2>1. CASE StartPass \/ EndPass \/ UpdateFails
    BY <2>1 DEF StartPass, EndPass, UpdateFails, rollupVars
  <2>2. CASE UpdateValidBlock  BY <2>2 DEF UpdateValidBlock, Applied, rollupVars
  <2>3. CASE UpdateBadBlock  BY <2>3 DEF UpdateBadBlock, Applied, rollupVars
  <2>4. CASE UpdateBadChallenge  BY <2>4 DEF UpdateBadChallenge, Applied, rollupVars
  <2>5. CASE UpdateWaitChallenge  BY <2>5 DEF UpdateWaitChallenge, Applied, rollupVars
  <2>6. CASE UpdateCancel  BY <2>6 DEF UpdateCancel, Applied, rollupVars
  <2>7. CASE UpdateRevert  BY <2>7 DEF UpdateRevert, Applied, rollupVars
  <2> QED BY <1>2, <2>1, <2>2, <2>3, <2>4, <2>5, <2>6, <2>7 DEF Pass, Update
<1>3. CASE Restart  BY <1>3 DEF Restart, rollupVars
<1>4. CASE Rewind  BY <1>4 DEF Rewind, rollupVars
<1>5. CASE Challenger
  <2>1. CASE ChallengeBlock
    <3>1. RollupTx("challenge", mem.event.block, <<>>)  BY <2>1 DEF ChallengeBlock, RollupTx
    <3> QED BY <3>1
  <2>2. CASE CancelChallenge
    <3>1. RollupTx("cancel", halted, <<>>)  BY <2>2 DEF CancelChallenge, RollupTx
    <3> QED BY <3>1
  <2>3. CASE RevertBlocks
    <3>1. RollupTx("revert", halted, mem.event.blocks)  BY <2>3 DEF RevertBlocks, RollupTx
    <3> QED BY <3>1
  <2> QED BY <1>5, <2>1, <2>2, <2>3 DEF Challenger
<1>6. ASSUME NEW ok \in BOOLEAN, ForeignBlock(ok) PROVE \E k, b, bs : RollupTx(k, b, bs)
  <2>1. RollupTx("submit", Len(right) + 1, <<>>)  BY <1>6 DEF ForeignBlock, RollupTx
  <2> QED BY <2>1
<1>7. CASE OwnBlock
  <2>1. RollupTx("submit", Len(right) + 1, <<>>)  BY <1>7 DEF OwnBlock, RollupTx
  <2> QED BY <2>1
<1>8. ASSUME NEW b \in Blocks, ForeignChallenge(b) PROVE \E k, x, bs : RollupTx(k, x, bs)
  <2>1. RollupTx("challenge", b, <<>>)  BY <1>8 DEF ForeignChallenge, RollupTx
  <2> QED BY <2>1
<1>9. CASE ForeignCancel
  <2>1. RollupTx("cancel", halted, <<>>)  BY <1>9 DEF ForeignCancel, RollupTx
  <2> QED BY <2>1
<1>10. CASE ForeignRevert
  <2>1. RollupTx("revert", halted, From(halted))  BY <1>10 DEF ForeignRevert, RollupTx
  <2> QED BY <2>1
<1> QED BY <1>1, <1>2, <1>3, <1>4, <1>5, <1>6, <1>7, <1>8, <1>9, <1>10 DEF Next

\* Layer 1 keeps its invariant.
LEMMA GrowKeeps ==
    ASSUME LogInv, NEW e, Grows(e)
    PROVE  /\ LogInv' /\ OneMore(log', log, Len(log), e)
           /\ \A b : Wrong(right, b) => Wrong(right', b)
<1> PICK n : n = Len(log)  OBVIOUS
<1> PICK s : s = StateIn(log, n)  OBVIOUS
<1> PICK m : m = Len(right)  OBVIOUS
<1> PICK t : t = log'  OBVIOUS
<1> PICK w, v : w = right /\ v = right'  OBVIOUS
<1>1. /\ e \in States /\ t = Append(log, e) /\ CellStep(s, e)
      /\ chain' = e.chain /\ halted' = e.halted /\ undone' = e.undone
      /\ IF e.kind = "submit" THEN e.block = m + 1 /\ \E ok \in BOOLEAN : v = Append(w, ok)
         ELSE v = w
  BY DEF Grows
<1>2. LogOK(log, m) /\ log \in Seq(States)  BY DEF LogInv, LogOK, StepsOK
<1>3. w \in Seq(BOOLEAN) /\ m \in Nat /\ m >= 1 /\ n \in Nat
  BY CellFacts DEF LogInv, CellInv
<1>4. OneMore(t, log, n, e)  BY <1>1, <1>2, StatesKept
<1>5. /\ v \in Seq(BOOLEAN) /\ Len(v) = (IF e.kind = "submit" THEN m + 1 ELSE m)
      /\ \A i \in 1..m : v[i] = w[i]
  <2>1. CASE e.kind = "submit"
    <3>1. PICK ok \in BOOLEAN : v = Append(w, ok)  BY <1>1, <2>1
    <3> QED BY <1>3, <2>1, <3>1, AppendProperties
  <2>2. CASE e.kind # "submit"  BY <1>1, <1>3, <2>2
  <2> QED BY <2>1, <2>2
<1>6. LogOK(t, Len(v))
  <2> PICK r : r = Len(v)  OBVIOUS
  <2>1. r = (IF e.kind = "submit" THEN m + 1 ELSE m)  BY <1>5
  <2>2. e.kind = "submit" => e.block = m + 1  BY <1>1
  <2> QED BY <1>1, <1>2, <1>3, <2>1, <2>2, ListGrows
<1>7. StateIn(t, Len(t)) = e  BY <1>4 DEF OneMore
<1>8. halted' # 0 => halted' \in Elements(chain') \ {Genesis}
  BY <1>1 DEF CellStep, SubmitStep, ChallengeStep, CancelStep, RevertStep
<1>9. Len(v) >= 1  BY <1>3, <1>5
<1>10. CellInv'
  <2>1. StateIn(log, Len(log))' = e  BY <1>7 DEF StateIn, GenesisState
  <2> QED BY <1>1, <1>5, <1>8, <1>9, <2>1 DEF CellInv
<1>11. \A b : Wrong(right, b) => Wrong(right', b)
  <2> SUFFICES ASSUME NEW b, Wrong(right, b) PROVE Wrong(right', b)
    OBVIOUS
  <2>1. b \in 1..m /\ ~w[b]  BY DEF Wrong
  <2>2. b \in 1..Len(v) /\ ~v[b]  BY <1>3, <1>5, <2>1
  <2> QED BY <2>2 DEF Wrong
<1> QED BY <1>4, <1>6, <1>10, <1>11 DEF LogInv


-----------------------------------------------------------------------------
(* Blocks and the transactions that submit them.                           *)

\* A block is submitted once, later blocks later, and the cell is running then.
LEMMA SubmittedOnce ==
    ASSUME LogInv, NEW k \in 0..Len(log), NEW b, SubmitsIn(log, k, b)
    PROVE  /\ b \in Nat /\ b >= 1 /\ StateIn(log, k).halted = 0
           /\ SubmitAt(b) = k /\ PostState(b) = StateIn(log, k)
           /\ \A j \in 0..Len(log) : \A c : SubmitsIn(log, j, c) /\ b < c => k < j
           /\ \A j \in 0..Len(log) : SubmitsIn(log, j, b) => j = k
<1> PICK n : n = Len(log)  OBVIOUS
<1>1. /\ n \in Nat /\ k \in Nat /\ Len(right) \in Nat  BY CellFacts
<1>2. /\ \A i \in 1..n : CellStep(StateIn(log, i - 1), log[i])
      /\ \A i, j \in 1..n : i < j /\ log[i].kind = "submit" /\ log[j].kind = "submit" =>
                                log[i].block < log[j].block
      /\ \A i \in 1..n : log[i].kind = "submit" => log[i].block \in 2..Len(right)
  BY DEF LogInv, LogOK, StepsOK
<1>3. \A j \in 0..n : \A c : SubmitsIn(log, j, c) =>
          IF j = 0 THEN c = 1
          ELSE j \in 1..n /\ log[j].kind = "submit" /\ log[j].block = c /\ c \in Nat /\ c >= 2
  <2> SUFFICES ASSUME NEW j \in 0..n, NEW c, SubmitsIn(log, j, c)
               PROVE  IF j = 0 THEN c = 1
                      ELSE j \in 1..n /\ log[j].kind = "submit" /\ log[j].block = c
                           /\ c \in Nat /\ c >= 2
    OBVIOUS
  <2>1. CASE j = 0  BY <2>1 DEF SubmitsIn, Genesis
  <2>2. CASE j # 0
    <3>1. j \in 1..n  BY <1>1, <2>2
    <3>2. log[j].kind = "submit" /\ log[j].block = c  BY <2>2 DEF SubmitsIn
    <3>3. c \in 2..Len(right)  BY <1>2, <3>1, <3>2
    <3> QED BY <1>1, <2>2, <3>1, <3>2, <3>3
  <2> QED BY <2>1, <2>2
<1>4. b \in Nat /\ b >= 1  BY <1>3
<1>5. ASSUME NEW i \in 0..n, NEW j \in 0..n, NEW c, NEW d, SubmitsIn(log, i, c),
             SubmitsIn(log, j, d), i < j
      PROVE  c < d
  <2>1. j \in 1..n /\ log[j].kind = "submit" /\ log[j].block = d /\ d \in Nat /\ d >= 2
    BY <1>1, <1>3, <1>5
  <2>2. CASE i = 0  BY <1>3, <1>5, <2>1, <2>2
  <2>3. CASE i # 0
    <3>1. i \in 1..n /\ log[i].kind = "submit" /\ log[i].block = c  BY <1>3, <1>5, <2>3
    <3> QED BY <1>2, <1>5, <2>1, <3>1
  <2> QED BY <2>2, <2>3
<1>6. \A j \in 0..n : \A c : SubmitsIn(log, j, c) /\ b < c => k < j
  <2> SUFFICES ASSUME NEW j \in 0..n, NEW c, SubmitsIn(log, j, c), b < c PROVE k < j
    OBVIOUS
  <2>1. j \in Nat /\ c \in Nat  BY <1>1, <1>3
  <2>2. ~(j < k)
    <3>1. j < k => c < b  BY <1>5
    <3> QED BY <1>4, <2>1, <3>1
  <2>3. j # k
    <3>1. ASSUME j = k PROVE c = b  BY <1>3, <3>1
    <3> QED BY <1>4, <2>1, <3>1
  <2> QED BY <1>1, <2>1, <2>2, <2>3
<1>7. \A j \in 0..n : SubmitsIn(log, j, b) => j = k
  <2> SUFFICES ASSUME NEW j \in 0..n, SubmitsIn(log, j, b) PROVE j = k
    OBVIOUS
  <2>1. ~(j < k) /\ ~(k < j)
    <3>1. (j < k => b < b) /\ (k < j => b < b)  BY <1>5
    <3> QED BY <1>4, <3>1
  <2> QED BY <1>1, <2>1
<1>8. SubmitAt(b) = k
  <2>1. CASE k = 0  BY <1>3, <2>1 DEF SubmitAt, Genesis
  <2>2. CASE k # 0
    <3>1. k \in 1..n /\ log[k].kind = "submit" /\ log[k].block = b /\ b # Genesis
      BY <1>3, <2>2 DEF Genesis
    <3> PICK x : x = SubmitAt(b)  OBVIOUS
    <3>2. x = CHOOSE i \in 1..Len(log) : log[i].kind = "submit" /\ log[i].block = b
      BY <3>1 DEF SubmitAt
    <3>3. x \in 1..n /\ log[x].kind = "submit" /\ log[x].block = b  BY <3>1, <3>2
    <3>4. x \in 0..n /\ x # 0  BY <1>1, <3>3
    <3>5. SubmitsIn(log, x, b)  BY <3>3, <3>4 DEF SubmitsIn
    <3> QED BY <1>7, <3>4, <3>5
  <2> QED BY <2>1, <2>2
<1>9. PostState(b) = StateIn(log, k)
  BY <1>3, <1>8 DEF PostState, StateIn, Genesis
<1>10. StateIn(log, k).halted = 0
  <2>1. CASE k = 0  BY <2>1 DEF StateIn, GenesisState
  <2>2. CASE k # 0
    <3>1. k \in 1..n /\ log[k].kind = "submit" /\ StateIn(log, k) = log[k]
      BY <1>3, <2>2 DEF StateIn
    <3>2. CellStep(StateIn(log, k - 1), log[k])  BY <1>2, <3>1
    <3> QED BY <3>1, <3>2 DEF CellStep, SubmitStep, ChallengeStep, CancelStep, RevertStep
  <2> QED BY <2>1, <2>2
<1> QED BY <1>4, <1>6, <1>7, <1>8, <1>9, <1>10

\* Block b was submitted by transaction i or earlier, which left chain t.
SubmissionOf(b, t, i) ==
    \E k \in 0..i : /\ SubmitsIn(log, k, b) /\ StateIn(log, k).chain = t
                   /\ SubmitAt(b) = k /\ PostState(b) = StateIn(log, k)

\* The path, number and parent of a block are its place in every chain that has it.
LEMMA PathInChain ==
    ASSUME LogInv, NEW i \in 0..Len(log), NEW c, c = StateIn(log, i).chain,
           NEW p \in 1..Len(c), NEW b, b = c[p]
    PROVE  /\ SubmissionOf(b, SubSeq(c, 1, p), i)
           /\ PathOf(b) = SubSeq(c, 1, p) /\ Number(b) = p - 1
           /\ p > 1 => Parent(b) = c[p - 1]
<1>1. Len(log) \in Nat /\ i \in Nat /\ GoodChain(c)
  BY CellFacts DEF LogInv, LogOK, StepsOK
<1>2. Len(c) \in Nat /\ p \in Nat /\ p >= 1  BY <1>1, ChainFacts
<1>3. PICK k \in 0..i : SubmitsIn(log, k, b) /\ StateIn(log, k).chain = SubSeq(c, 1, p)
  BY DEF LogInv, LogOK, PathsOK
<1>4. k \in 0..Len(log)  BY <1>1
<1>5. SubmitAt(b) = k /\ PostState(b) = StateIn(log, k)  BY <1>3, <1>4, SubmittedOnce
<1>6. PathOf(b) = SubSeq(c, 1, p)  BY <1>3, <1>5 DEF PathOf
<1> PICK t : t = SubSeq(c, 1, p)  OBVIOUS
<1>7. PrefixOf(t, c, p)  BY <1>1, PrefixChain
<1>8. Len(t) = p /\ \A j \in 1..p : t[j] = c[j]  BY <1>7 DEF PrefixOf
<1>9. Number(b) = p - 1  BY <1>6, <1>8 DEF Number
<1>10. ASSUME p > 1 PROVE Parent(b) = c[p - 1]
  <2>1. p - 1 \in 1..p  BY <1>2, <1>10
  <2> QED BY <1>6, <1>8, <1>9, <2>1 DEF Parent
<1> QED BY <1>3, <1>5, <1>6, <1>9, <1>10 DEF SubmissionOf

-----------------------------------------------------------------------------
(* The node keeps up.                                                      *)

\* What NodeAt says of the store, with the chain of the cell at hand.
LEMMA NodeFacts ==
    ASSUME LogInv, NEW q \in 0..Len(log), NodeAt(log, q, db, mem, pos),
           NEW s, s = StateIn(log, q), NEW c, c = s.chain, NEW v, v = Len(db.valid)
    PROVE  /\ GoodChain(c) /\ Len(c) \in Nat /\ Len(c) >= 1 /\ s.undone \cap Elements(c) = {}
           /\ db.tip = c[Len(c)] /\ mem.tip = db.tip /\ PathOf(db.tip) = c
           /\ db.smt = Elements(c) /\ db.rsmt = s.undone
           /\ v \in 1..Len(c) /\ v \in Nat /\ db.valid = SubSeq(c, 1, v) /\ Last(db.valid) = c[v]
           /\ PrefixOf(db.valid, c, v)
           /\ SubmissionOf(Last(db.valid), db.valid, q)
           /\ PostState(db.tip).halted = 0
<1>1. GoodChain(c) /\ s.undone \cap Elements(c) = {}
  BY DEF LogInv, LogOK, StepsOK, UndoneOK
<1>2. Len(c) \in Nat /\ Len(c) >= 1 /\ SubSeq(c, 1, Len(c)) = c  BY <1>1, ChainFacts
<1>3. /\ db.tip = c[Len(c)] /\ mem.tip = db.tip /\ db.smt = Elements(c) /\ db.rsmt = s.undone
      /\ v \in 1..Len(c) /\ db.valid = SubSeq(c, 1, v)
  BY DEF NodeAt, StoreOf, Last
<1>4. v \in Nat  BY <1>2, <1>3
<1> PICK w : w = db.valid  OBVIOUS
<1>5. PrefixOf(w, c, v)  BY <1>1, <1>3, PrefixChain
<1>6. Len(w) = v /\ v \in 1..v /\ w[v] = c[v]  BY <1>3, <1>4, <1>5 DEF PrefixOf
<1>7. Last(w) = c[v]  BY <1>6 DEF Last
<1>8. Len(c) \in 1..Len(c)  BY <1>2
<1>9. SubmissionOf(db.tip, SubSeq(c, 1, Len(c)), q)  BY <1>3, <1>8, PathInChain
<1>10. PathOf(db.tip) = c
  <2>1. PathOf(db.tip) = SubSeq(c, 1, Len(c))  BY <1>3, <1>8, PathInChain, SMTT(60)
  <2> QED BY <1>2, <2>1
<1>11. PostState(db.tip).halted = 0
  <2>1. PICK k \in 0..q : SubmitsIn(log, k, db.tip) /\ PostState(db.tip) = StateIn(log, k)
    BY <1>9 DEF SubmissionOf
  <2>2. k \in 0..Len(log)  BY CellFacts
  <2> QED BY <2>1, <2>2, SubmittedOnce
<1>12. SubmissionOf(c[v], SubSeq(c, 1, v), q)  BY <1>3, PathInChain
<1> QED BY <1>1, <1>2, <1>3, <1>4, <1>5, <1>7, <1>10, <1>11, <1>12

\* More transactions do not move the node.
LEMMA NodeKept ==
    ASSUME NEW l, NEW t, NEW n, NEW e, OneMore(t, l, n, e), NEW q \in 0..n,
           NEW d, NEW m, NEW p, NodeAt(l, q, d, m, p)
    PROVE  NodeAt(t, q, d, m, p)
<1>1. n \in Nat /\ q \in Nat /\ StateIn(t, q) = StateIn(l, q)  BY DEF OneMore
<1>2. \A k \in 0..n : \A b : SubmitsIn(t, k, b) <=> SubmitsIn(l, k, b)  BY DEF OneMore
<1>3. \A k \in 1..q : k \in 0..n  BY <1>1
<1>4. TargetLost(l, q, d, m.target, p) => TargetLost(t, q, d, m.target, p)
  BY <1>1, <1>2, <1>3 DEF TargetLost
<1>5. PassAt(t, q, d, m.state.halted, p)
  <2>1. ASSUME p # Idle
        PROVE  /\ p \in 0..q
               /\ \E k \in 0..p : SubmitsIn(t, k, Last(d.valid))
               /\ p = q => m.state.halted = StateIn(t, q).halted
    <3>1. /\ p \in 0..q
          /\ \E k \in 0..p : SubmitsIn(l, k, Last(d.valid))
          /\ p = q => m.state.halted = StateIn(l, q).halted
      BY <2>1 DEF NodeAt, PassAt
    <3>2. \A k \in 0..p : k \in 0..n  BY <1>1, <3>1
    <3> QED BY <1>1, <1>2, <3>1, <3>2
  <2>2. SubmitsIn(t, q, Last(d.valid)) => m.state.halted = 0  BY <1>2 DEF NodeAt, PassAt
  <2> QED BY <2>1, <2>2 DEF PassAt
<1> QED BY <1>1, <1>4, <1>5 DEF NodeAt

\* Where a pass stands when it applies a transaction.
LEMMA PassFacts ==
    ASSUME LogInv, NEW q \in 0..Len(log), NodeAt(log, q, db, mem, pos), InPass
    PROVE  /\ Len(log) \in Nat /\ q \in Nat /\ pos \in Nat /\ pos <= q /\ pos < Len(log)
           /\ pos \in 0..Len(log) /\ pos + 1 \in 1..Len(log) /\ pos + 1 \in 0..Len(log)
           /\ pos + 1 # Idle
           /\ Action = StateIn(log, pos + 1) /\ CellStep(StateIn(log, pos), Action)
           /\ \E k \in 0..pos : SubmitsIn(log, k, Last(db.valid))
           /\ pos = q => mem.state.halted = StateIn(log, q).halted
<1>1. Len(log) \in Nat /\ q \in Nat  BY CellFacts
<1>2. /\ pos \in 0..q /\ pos < Len(log)
      /\ \E k \in 0..pos : SubmitsIn(log, k, Last(db.valid))
      /\ pos = q => mem.state.halted = StateIn(log, q).halted
  BY DEF InPass, NodeAt, PassAt
<1>3. pos \in Nat /\ pos <= q /\ pos + 1 \in 1..Len(log) /\ pos + 1 # 0 /\ pos + 1 - 1 = pos
  BY <1>1, <1>2
<1>4. Action = StateIn(log, pos + 1)  BY <1>3 DEF Action, StateIn
<1>5. CellStep(StateIn(log, pos), Action)
  <2>1. \A i \in 1..Len(log) : CellStep(StateIn(log, i - 1), log[i])
    BY DEF LogInv, LogOK, StepsOK
  <2>2. CellStep(StateIn(log, pos + 1 - 1), log[pos + 1])  BY <1>3, <2>1
  <2> QED BY <1>3, <2>2 DEF Action
<1> QED BY <1>1, <1>2, <1>3, <1>4, <1>5 DEF Idle

\* A pass that is behind the store gets no submission and no revert through.
LEMMA StalePassStops ==
    ASSUME LogInv, NEW q \in 0..Len(log), NodeAt(log, q, db, mem, pos), InPass,
           Extends \/ Reverted
    PROVE  pos = q
<1> SUFFICES ASSUME pos # q PROVE FALSE
  OBVIOUS
<1> PICK i : i = pos + 1  OBVIOUS
<1> PICK a : a = Action  OBVIOUS
<1>1. /\ Len(log) \in Nat /\ q \in Nat /\ pos \in Nat /\ i \in Nat /\ i <= q
      /\ i \in 1..Len(log) /\ i \in 0..Len(log)
      /\ a = StateIn(log, i) /\ a = log[i] /\ CellStep(StateIn(log, pos), a)
  BY PassFacts DEF Action
<1> PICK s, c : s = StateIn(log, q) /\ c = s.chain  OBVIOUS
<1>2. /\ GoodChain(c) /\ Len(c) \in Nat /\ Len(c) >= 1 /\ s.undone \cap Elements(c) = {}
      /\ db.tip = c[Len(c)] /\ mem.tip = db.tip /\ PathOf(db.tip) = c
      /\ db.rsmt = s.undone
  <2> PICK v : v = Len(db.valid)  OBVIOUS
  <2> QED BY NodeFacts
<1>3. /\ Elements(a.chain) \cap a.undone = {} /\ a.undone \subseteq s.undone
      /\ a.kind = "submit" => a.block \in Elements(c) \cup s.undone
  BY <1>1 DEF LogInv, LogOK, UndoneOK, Known
<1>4. CASE Extends
  <2>1. a.kind = "submit" /\ Parent(a.block) = mem.tip /\ db.rsmt = a.undone
    BY <1>4 DEF Extends
  <2>2. a.block \in Elements(a.chain)
    <3>1. SubmitStep(StateIn(log, pos), a)
      BY <1>1, <2>1 DEF CellStep, ChallengeStep, CancelStep, RevertStep
    <3>2. a.chain = Append(StateIn(log, pos).chain, a.block)  BY <3>1 DEF SubmitStep
    <3> PICK y : y = StateIn(log, pos).chain  OBVIOUS
    <3>3. y \in Seq(Nat)
      <4>1. pos \in 0..Len(log)  BY <1>1
      <4> QED BY <4>1 DEF LogInv, LogOK, StepsOK, GoodChain
    <3>4. a.block \in Nat
      <4>1. SubmitsIn(log, i, a.block)  BY <1>1, <2>1 DEF SubmitsIn
      <4> QED BY <1>1, <4>1, SubmittedOnce
    <3>5. Len(y) \in Nat  BY <3>3, LenProperties
    <3>6. Len(a.chain) = Len(y) + 1 /\ a.chain[Len(y) + 1] = a.block
      BY <3>2, <3>3, <3>4, AppendProperties
    <3>7. Len(y) + 1 \in 1..Len(a.chain)  BY <3>5, <3>6
    <3> QED BY <3>6, <3>7 DEF Elements
  <2>3. a.block \in Elements(c)  BY <1>2, <1>3, <2>1, <2>2
  <2>4. PICK p \in 1..Len(c) : c[p] = a.block  BY <2>3 DEF Elements
  <2>5. a.block # Genesis
    <3>1. a.block \in 2..Len(right)  BY <1>1, <2>1 DEF LogInv, LogOK, StepsOK
    <3> QED BY <3>1, CellFacts DEF Genesis
  <2>6. p \in Nat /\ p > 1  BY <1>2, <2>4, <2>5, ChainFacts
  <2>7. Parent(a.block) = c[p - 1]  BY <2>4, <2>6, PathInChain
  <2>8. p - 1 \in 1..Len(c) /\ Len(c) \in 1..Len(c) /\ p - 1 # Len(c)  BY <1>2, <2>6
  <2> QED BY <1>2, <2>1, <2>7, <2>8, ChainFacts
<1>5. CASE Reverted
  <2>1. a.kind = "revert" /\ a.block \in Elements(PathOf(db.tip))
    BY <1>5 DEF Reverted, Packageable
  <2>2. RevertStep(StateIn(log, pos), a)
    BY <1>1, <2>1 DEF CellStep, ChallengeStep, CancelStep, SubmitStep
  <2> PICK y : y = StateIn(log, pos).chain  OBVIOUS
  <2>3. PICK p \in 2..Len(y) :
            /\ y[p] = a.block
            /\ a.undone = StateIn(log, pos).undone \cup {y[j] : j \in p..Len(y)}
    BY <2>2 DEF RevertStep
  <2>4. p \in p..Len(y)
    <3>1. GoodChain(y)
      <4>1. pos \in 0..Len(log)  BY <1>1
      <4> QED BY <4>1 DEF LogInv, LogOK, StepsOK
    <3>2. Len(y) \in Nat  BY <3>1, ChainFacts
    <3> QED BY <3>2
  <2>5. a.block \in a.undone  BY <2>3, <2>4
  <2> QED BY <1>2, <1>3, <2>1, <2>5
<1> QED BY <1>4, <1>5

\* A submission that a pass applies extends the chain of the store.
LEMMA SubmitFacts ==
    ASSUME LogInv, NEW q \in 0..Len(log), NodeAt(log, q, db, mem, pos), InPass, Extends,
           NEW a, a = Action, NEW s, s = StateIn(log, q), NEW c, c = s.chain,
           NEW b, b = a.block
    PROVE  /\ pos = q /\ ExtensionOf(a.chain, c, b) /\ a.undone = s.undone /\ a.halted = 0
           /\ SubmitsIn(log, pos + 1, b) /\ b \in 1..Len(right) /\ b # 0
<1>1. pos = q  BY StalePassStops
<1> PICK i : i = pos + 1  OBVIOUS
<1>2. /\ Len(log) \in Nat /\ i \in 1..Len(log) /\ i \in 0..Len(log) /\ i # 0 /\ i > pos
      /\ pos \in Nat
      /\ a = StateIn(log, i) /\ a = log[i] /\ CellStep(s, a)
  BY <1>1, PassFacts DEF Action
<1>3. a.kind = "submit"  BY DEF Extends
<1>4. SubmitStep(s, a)
  BY <1>2, <1>3 DEF CellStep, ChallengeStep, CancelStep, RevertStep
<1>5. a.chain = Append(c, b) /\ a.undone = s.undone /\ a.halted = 0  BY <1>4 DEF SubmitStep
<1>6. SubmitsIn(log, i, b)  BY <1>2, <1>3 DEF SubmitsIn
<1>7. b \in 2..Len(right) /\ Len(right) \in Nat
  BY <1>2, <1>3, CellFacts DEF LogInv, LogOK, StepsOK
<1>8. GoodChain(c) /\ \A p \in 1..Len(c) : c[p] < b
  <2>1. GoodChain(c)  BY DEF LogInv, LogOK, StepsOK
  <2> SUFFICES ASSUME NEW p \in 1..Len(c) PROVE c[p] < b
    BY <2>1
  <2>2. c[p] \in Nat  BY <2>1, ChainFacts
  <2>3. SubmissionOf(c[p], SubSeq(c, 1, p), q)  BY PathInChain
  <2>4. PICK k \in 0..q : SubmitsIn(log, k, c[p])  BY <2>3 DEF SubmissionOf
  <2>5. k \in 0..Len(log) /\ k < i  BY <1>1, <1>2
  <2>6. c[p] # b
    <3>1. c[p] = b => k = i  BY <1>2, <1>6, <2>4, <2>5, SubmittedOnce
    <3> QED BY <1>2, <2>5, <3>1
  <2>7. ~(b < c[p])
    <3>1. \A j \in 0..Len(log) : \A x : SubmitsIn(log, j, x) /\ b < x => i < j
      BY <1>2, <1>6, SubmittedOnce
    <3>2. b < c[p] => i < k  BY <2>4, <2>5, <3>1
    <3> QED BY <1>2, <2>5, <3>2
  <2> QED BY <1>7, <2>2, <2>6, <2>7
<1>9. ExtensionOf(a.chain, c, b)
  <2> PICK w : w = a.chain  OBVIOUS
  <2>1. b \in Nat  BY <1>7
  <2>2. ExtensionOf(w, c, b)  BY <1>5, <1>8, <2>1, AppendChain
  <2> QED BY <2>2
<1> QED BY <1>1, <1>5, <1>6, <1>7, <1>9

\* The form in which the steps of the node are shown to keep NodeInv.
LEMMA NodeMoves ==
    ASSUME NEW l, log' = l, NEW d, db' = d, NEW m, mem' = m, NEW p, pos' = p,
           IsStore(d), IsMemory(m), NEW q \in 0..Len(l), NodeAt(l, q, d, m, p)
    PROVE  NodeInv'
BY DEF NodeInv

BadInserted(d, b, g) == [InsertBadBlock(d, b) EXCEPT !.targets = g]
StatusSet(m, s, v) == [m EXCEPT !.state = s, !.event = v]

\* The fields of the store and the memory after the operations on them.
LEMMA AttachFields ==
    ASSUME NEW d, IsStore(d), NEW b, NEW e, e = AttachBlock(d, b)
    PROVE  /\ IsStore(e) /\ e.valid = Append(d.valid, b) /\ e.tip = b /\ e.bad = d.bad
           /\ e.smt = d.smt \cup {b} /\ e.rsmt = d.rsmt /\ e.targets = d.targets
<1> PICK x, y : x = Append(d.valid, b) /\ y = d.smt \cup {b}  OBVIOUS
<1>1. e = [d EXCEPT !.valid = x, !.smt = y, !.tip = b]  BY DEF AttachBlock
<1>2. e = [valid |-> x, tip |-> b, bad |-> d.bad, smt |-> y, rsmt |-> d.rsmt, targets |-> d.targets]
  BY <1>1 DEF IsStore
<1> QED BY <1>2 DEF IsStore

LEMMA InsertBadFields ==
    ASSUME NEW d, IsStore(d), NEW b, NEW g, NEW e, e = BadInserted(d, b, g)
    PROVE  /\ IsStore(e) /\ e.valid = d.valid /\ e.tip = b /\ e.bad = d.bad \cup {b}
           /\ e.smt = d.smt \cup {b} /\ e.rsmt = d.rsmt /\ e.targets = g
           /\ InsertBadBlock(d, b).targets = d.targets
<1> PICK x, y : x = d.bad \cup {b} /\ y = d.smt \cup {b}  OBVIOUS
<1>1. InsertBadBlock(d, b) = [d EXCEPT !.bad = x, !.smt = y, !.tip = b]  BY DEF InsertBadBlock
<1>2. InsertBadBlock(d, b) =
          [valid |-> d.valid, tip |-> b, bad |-> x, smt |-> y, rsmt |-> d.rsmt, targets |-> d.targets]
  BY <1>1 DEF IsStore
<1>3. e = [valid |-> d.valid, tip |-> b, bad |-> x, smt |-> y, rsmt |-> d.rsmt, targets |-> g]
  BY <1>2 DEF BadInserted
<1> QED BY <1>2, <1>3 DEF IsStore

LEMMA RevertFields ==
    ASSUME NEW d, IsStore(d), NEW bs, NEW e, e = RevertBadBlocks(d, bs)
    PROVE  /\ IsStore(e) /\ e.valid = d.valid /\ e.bad = d.bad /\ e.targets = d.targets
<1> PICK x, y, z : x = d.smt \ Elements(bs) /\ y = d.rsmt \cup Elements(bs) /\ z = Parent(bs[1])
  OBVIOUS
<1>1. e = [d EXCEPT !.smt = x, !.rsmt = y, !.tip = z]  BY DEF RevertBadBlocks
<1>2. e = [valid |-> d.valid, tip |-> z, bad |-> d.bad, smt |-> x, rsmt |-> y, targets |-> d.targets]
  BY <1>1 DEF IsStore
<1> QED BY <1>2 DEF IsStore

LEMMA RewoundFields ==
    ASSUME NEW d, IsStore(d), NEW gone, gone = Elements(PathOf(d.tip)) \ Elements(d.valid),
           NEW e, e = Rewound(d)
    PROVE  /\ IsStore(e) /\ e.valid = d.valid /\ e.tip = Last(d.valid) /\ e.bad = d.bad \ gone
           /\ e.smt = d.smt \ gone /\ e.targets = d.targets \ gone
           /\ e.rsmt = PostState(Last(d.valid)).undone
<1> PICK x, y, z, r, t : /\ x = d.bad \ gone /\ y = d.smt \ gone /\ z = d.targets \ gone
                         /\ r = PostState(Last(d.valid)).undone /\ t = Last(d.valid)
  OBVIOUS
<1>1. e = [d EXCEPT !.bad = x, !.smt = y, !.targets = z, !.rsmt = r, !.tip = t]  BY DEF Rewound
<1>2. e = [valid |-> d.valid, tip |-> t, bad |-> x, smt |-> y, rsmt |-> r, targets |-> z]
  BY <1>1 DEF IsStore
<1> QED BY <1>2 DEF IsStore

LEMMA MemoryFields ==
    ASSUME NEW m, IsMemory(m), NEW s, NEW v, NEW n, n = StatusSet(m, s, v)
    PROVE  /\ IsMemory(n) /\ n.tip = m.tip /\ n.state = s /\ n.target = m.target /\ n.event = v
<1>1. n = [tip |-> m.tip, state |-> s, target |-> m.target, event |-> v]
  BY DEF IsMemory, StatusSet
<1> QED BY <1>1 DEF IsMemory

\* A submitted block that executes as it should.
LEMMA ValidMoves ==
    ASSUME LogInv, NodeInv, UpdateValidBlock
    PROVE  NodeInv'
<1> PICK q \in 0..Len(log) : NodeAt(log, q, db, mem, pos)  BY DEF NodeInv
<1> PICK a, s, c, b, i : a = Action /\ s = StateIn(log, q) /\ c = s.chain /\ b = a.block /\ i = pos + 1
  OBVIOUS
<1> PICK d, m : d = db' /\ m = mem'  OBVIOUS
<1>1. InPass /\ Extends /\ KnownTarget(b) = 0 /\ right[b]
  BY DEF UpdateValidBlock, SubmitsValid
<1>2. /\ pos = q /\ ExtensionOf(a.chain, c, b) /\ a.undone = s.undone /\ a.halted = 0
      /\ SubmitsIn(log, pos + 1, b) /\ b # 0
  BY <1>1, SubmitFacts
<1>3. i \in 0..Len(log) /\ a = StateIn(log, i) /\ i \in Nat /\ i # Idle
  BY <1>1, PassFacts
<1> PICK v : v = Len(db.valid)  OBVIOUS
<1>4. /\ GoodChain(c) /\ Len(c) \in Nat /\ Len(c) >= 1
      /\ db.tip = c[Len(c)] /\ mem.tip = db.tip
      /\ db.smt = Elements(c) /\ db.rsmt = s.undone
      /\ v \in 1..Len(c) /\ v \in Nat /\ db.valid = SubSeq(c, 1, v)
  BY NodeFacts
<1>5. mem.target = 0
  BY <1>1 DEF KnownTarget
<1>6. v = Len(c)
  <2>1. ~ TargetLost(log, q, db, mem.target, pos)
    <3>1. pos \in Nat /\ pos # Idle  BY <1>1, PassFacts DEF Idle
    <3> SUFFICES ASSUME NEW k \in 1..q, pos < k PROVE FALSE
      BY <3>1 DEF TargetLost
    <3> QED BY <1>2, <3>1
  <2>2. TargetOf(s, db, mem.target)  BY <2>1 DEF NodeAt
  <2> QED BY <1>5, <2>2 DEF TargetOf
<1>7. db.valid = c
  BY <1>4, <1>6, ChainFacts
<1>8. /\ d = AttachBlock(db, b) /\ m = [tip |-> b, state |-> a, target |-> 0, event |-> Success]
      /\ pos' = i /\ log' = log
  BY DEF UpdateValidBlock, Applied
<1>9. /\ IsStore(d) /\ d.valid = Append(c, b) /\ d.tip = b
      /\ d.smt = Elements(c) \cup {b} /\ d.rsmt = s.undone
  <2>1. IsStore(db)  BY DEF NodeInv
  <2>2. /\ IsStore(d) /\ d.valid = Append(db.valid, b) /\ d.tip = b
        /\ d.smt = db.smt \cup {b} /\ d.rsmt = db.rsmt
    BY <1>8, <2>1, AttachFields
  <2> QED BY <1>4, <1>7, <2>2
<1> PICK w : w = a.chain  OBVIOUS
<1>10. /\ GoodChain(w) /\ Len(w) = Len(c) + 1 /\ w[Len(c) + 1] = b
       /\ Elements(w) = Elements(c) \cup {b} /\ Last(w) = b
  BY <1>2 DEF ExtensionOf
<1>11. w = Append(c, b)
  <2>1. a.kind = "submit" /\ CellStep(s, a)  BY <1>1, <1>2, PassFacts DEF Extends
  <2> QED BY <2>1 DEF CellStep, SubmitStep, ChallengeStep, CancelStep, RevertStep
<1>12. Len(w) \in Nat /\ Len(w) >= 1 /\ SubSeq(w, 1, Len(w)) = w /\ Len(w) \in 1..Len(w)
  <2>1. Len(w) \in Nat /\ Len(w) >= 1 /\ SubSeq(w, 1, Len(w)) = w  BY <1>10, ChainFacts
  <2> QED BY <2>1
<1>13. /\ d.valid = w /\ d.tip = b /\ d.smt = Elements(w) /\ d.rsmt = a.undone
       /\ m.tip = b /\ m.target = 0 /\ m.state = a
  BY <1>2, <1>8, <1>9, <1>10, <1>11
<1>14. StoreOf(a, d) /\ TargetOf(a, d, m.target)
  BY <1>10, <1>12, <1>13 DEF StoreOf, TargetOf
<1>15. PassAt(log, i, d, m.state.halted, i)
  <2>1. i \in 0..i  BY <1>3
  <2>2. SubmitsIn(log, i, Last(d.valid))  BY <1>2, <1>10, <1>13
  <2> QED BY <1>2, <1>3, <1>13, <2>1, <2>2 DEF PassAt
<1>16. NodeAt(log, i, d, m, i)  BY <1>3, <1>13, <1>14, <1>15 DEF NodeAt
<1> PICK l : l = log  OBVIOUS
<1>17. IsMemory(m)  BY <1>8 DEF IsMemory
<1> QED BY <1>3, <1>8, <1>9, <1>16, <1>17, NodeMoves

\* A pass that is in step with the store knows the target.
LEMMA TargetKnown ==
    ASSUME LogInv, NEW q \in 0..Len(log), NodeAt(log, q, db, mem, pos), InPass, pos = q
    PROVE  TargetOf(StateIn(log, q), db, mem.target)
<1>1. pos \in Nat /\ pos # Idle  BY PassFacts DEF Idle
<1>2. ~ TargetLost(log, q, db, mem.target, pos)
  <2> SUFFICES ASSUME NEW k \in 1..q, pos < k PROVE FALSE
    BY <1>1 DEF TargetLost
  <2> QED BY <1>1
<1> QED BY <1>2 DEF NodeAt

\* A submitted block that is bad, or follows a bad one.
LEMMA BadMoves ==
    ASSUME LogInv, NodeInv, UpdateBadBlock
    PROVE  NodeInv'
<1> PICK q \in 0..Len(log) : NodeAt(log, q, db, mem, pos)  BY DEF NodeInv
<1> PICK a, s, c, b, i : a = Action /\ s = StateIn(log, q) /\ c = s.chain /\ b = a.block /\ i = pos + 1
  OBVIOUS
<1> PICK d, m : d = db' /\ m = mem'  OBVIOUS
<1>1. InPass /\ Extends
  BY DEF UpdateBadBlock, SubmitsBad
<1>2. /\ pos = q /\ ExtensionOf(a.chain, c, b) /\ a.undone = s.undone /\ a.halted = 0 /\ b # 0
      /\ SubmitsIn(log, pos + 1, b)
  BY <1>1, SubmitFacts
<1>3. i \in 0..Len(log) /\ a = StateIn(log, i) /\ i \in Nat /\ i # Idle /\ pos \in Nat
      /\ \E k \in 0..pos : SubmitsIn(log, k, Last(db.valid))
  BY <1>1, PassFacts
<1> PICK v : v = Len(db.valid)  OBVIOUS
<1>4. /\ GoodChain(c) /\ Len(c) \in Nat /\ Len(c) >= 1
      /\ db.smt = Elements(c) /\ db.rsmt = s.undone
      /\ v \in 1..Len(c) /\ v \in Nat /\ db.valid = SubSeq(c, 1, v)
  BY NodeFacts
<1> PICK t : t = (IF KnownTarget(b) = 0 THEN b ELSE KnownTarget(b))  OBVIOUS
<1>5. \E g, ev : /\ d = [InsertBadBlock(db, b) EXCEPT !.targets = g]
                 /\ m = [tip |-> b, state |-> a, target |-> t, event |-> ev]
                 /\ pos' = i /\ log' = log
  <2> PICK g : g = (IF KnownTarget(b) = 0 THEN InsertBadBlock(db, b).targets \cup {b}
                    ELSE InsertBadBlock(db, b).targets)
    OBVIOUS
  <2>1. /\ d = [InsertBadBlock(db, b) EXCEPT !.targets = g]
        /\ m = [tip |-> b, state |-> a, target |-> t, event |-> BadBlockEvent(InsertBadBlock(db, b), t)]
        /\ pos' = i /\ log' = log
    BY DEF UpdateBadBlock, Applied
  <2> QED BY <2>1
<1>6. PICK g, ev : /\ d = [InsertBadBlock(db, b) EXCEPT !.targets = g]
                   /\ m = [tip |-> b, state |-> a, target |-> t, event |-> ev]
                   /\ pos' = i /\ log' = log
  BY <1>5
<1>7. /\ IsStore(d) /\ d.valid = SubSeq(c, 1, v) /\ Len(d.valid) = v /\ d.tip = b
      /\ d.smt = Elements(c) \cup {b} /\ d.rsmt = s.undone /\ d.valid = db.valid
  <2>1. IsStore(db)  BY DEF NodeInv
  <2>2. /\ IsStore(d) /\ d.valid = db.valid /\ d.tip = b
        /\ d.smt = db.smt \cup {b} /\ d.rsmt = db.rsmt
    <3>1. d = BadInserted(db, b, g)  BY <1>6 DEF BadInserted
    <3>2. PICK x : x = db  OBVIOUS
    <3> QED BY <2>1, <3>1, <3>2, InsertBadFields
  <2> QED BY <1>4, <2>2
<1>8. m.tip = b /\ m.state = a /\ m.target = t /\ IsMemory(m)
  BY <1>6 DEF IsMemory
<1> PICK w : w = a.chain  OBVIOUS
<1>9. /\ GoodChain(w) /\ Len(w) = Len(c) + 1 /\ w[Len(c) + 1] = b
      /\ \A p \in 1..Len(c) : w[p] = c[p] /\ SubSeq(w, 1, p) = SubSeq(c, 1, p)
      /\ Elements(w) = Elements(c) \cup {b} /\ Last(w) = b
  BY <1>2 DEF ExtensionOf
<1>10. StoreOf(a, d)
  <2>1. v \in 1..Len(w) /\ SubSeq(w, 1, v) = SubSeq(c, 1, v)  BY <1>4, <1>9
  <2> QED BY <1>2, <1>7, <1>9, <2>1 DEF StoreOf
<1>11. TargetOf(a, d, t)
  <2>1. TargetOf(s, db, mem.target)  BY <1>1, <1>2, TargetKnown
  <2>2. CASE mem.target = 0
    <3>1. v = Len(c)  BY <2>1, <2>2 DEF TargetOf
    <3>2. t = b  BY <2>2 DEF KnownTarget
    <3>3. v < Len(w) /\ w[v + 1] = b  BY <1>4, <1>9, <3>1
    <3> QED BY <1>2, <1>7, <3>2, <3>3 DEF TargetOf
  <2>3. CASE mem.target # 0
    <3>1. v < Len(c) /\ c[v + 1] = mem.target  BY <2>1, <2>3 DEF TargetOf
    <3>2. t = mem.target  BY <2>3 DEF KnownTarget
    <3>3. v + 1 \in 1..Len(c)  BY <1>4, <3>1
    <3>4. v < Len(w) /\ w[v + 1] = t  BY <1>4, <1>9, <3>1, <3>2, <3>3, SMTT(60)
    <3> QED BY <1>7, <2>3, <3>2, <3>4 DEF TargetOf
  <2> QED BY <2>2, <2>3
<1>12. PassAt(log, i, d, m.state.halted, i)
  <2>1. i \in 0..i /\ \A k \in 0..pos : k \in 0..i  BY <1>3
  <2> QED BY <1>2, <1>3, <1>7, <1>8, <2>1 DEF PassAt
<1>13. NodeAt(log, i, d, m, i)  BY <1>3, <1>7, <1>8, <1>10, <1>11, <1>12 DEF NodeAt
<1> PICK l : l = log  OBVIOUS
<1> QED BY <1>3, <1>6, <1>7, <1>8, <1>13, NodeMoves

\* A challenge or a cancellation, whether the pass is in step or behind.
LEMMA StatusMoves ==
    ASSUME LogInv, NodeInv, InPass, Action.kind \in {"challenge", "cancel"},
           NEW ev, db' = db, mem' = [mem EXCEPT !.state = Action, !.event = ev],
           pos' = pos + 1, log' = log
    PROVE  NodeInv'
<1> PICK q \in 0..Len(log) : NodeAt(log, q, db, mem, pos)  BY DEF NodeInv
<1> PICK a, s, c, i : a = Action /\ s = StateIn(log, q) /\ c = s.chain /\ i = pos + 1  OBVIOUS
<1> PICK d, m : d = db /\ m = mem'  OBVIOUS
<1>1. /\ Len(log) \in Nat /\ q \in Nat /\ pos \in Nat /\ pos <= q /\ i \in Nat /\ i # Idle
      /\ i \in 0..Len(log) /\ i # 0
      /\ a = StateIn(log, i) /\ a = log[i] /\ CellStep(StateIn(log, pos), a)
      /\ \E k \in 0..pos : SubmitsIn(log, k, Last(db.valid))
  BY PassFacts DEF Action
<1>2. a.kind # "submit"  OBVIOUS
<1>3. ChallengeStep(StateIn(log, pos), a) \/ CancelStep(StateIn(log, pos), a)
  BY <1>1 DEF CellStep, SubmitStep, RevertStep
<1>4. /\ IsMemory(m) /\ m.tip = mem.tip /\ m.state = a /\ m.target = mem.target
  <2>1. IsMemory(mem)  BY DEF NodeInv
  <2>2. m = StatusSet(mem, a, ev)  BY DEF StatusSet
  <2> PICK x : x = mem  OBVIOUS
  <2> QED BY <2>1, <2>2, MemoryFields
<1>5. \A b : ~SubmitsIn(log, i, b)  BY <1>1, <1>2 DEF SubmitsIn
<1>6. /\ StoreOf(s, d) /\ mem.tip = d.tip
      /\ TargetOf(s, d, mem.target) \/ TargetLost(log, q, d, mem.target, pos)
  BY DEF NodeAt
<1> PICK l : l = log  OBVIOUS
<1>7. IsStore(d)  BY DEF NodeInv
<1>8. CASE pos = q
  <2>1. a.chain = c /\ a.undone = s.undone
    BY <1>3, <1>8 DEF ChallengeStep, CancelStep
  <2>2. TargetOf(s, d, mem.target)  BY <1>8, TargetKnown
  <2>3. StoreOf(a, d) /\ TargetOf(a, d, m.target)
    BY <1>4, <1>6, <2>1, <2>2 DEF StoreOf, TargetOf
  <2>4. PassAt(log, i, d, m.state.halted, i)
    <3>1. i \in 0..i /\ \A k \in 0..pos : k \in 0..i  BY <1>1
    <3>2. \E k \in 0..i : SubmitsIn(log, k, Last(d.valid))  BY <1>1, <3>1
    <3> QED BY <1>1, <1>4, <1>5, <3>1, <3>2 DEF PassAt
  <2>5. NodeAt(log, i, d, m, i)  BY <1>1, <1>4, <1>6, <2>3, <2>4 DEF NodeAt
  <2> QED BY <1>1, <1>4, <1>7, <2>5, NodeMoves
<1>9. CASE pos # q
  <2>1. i \in 0..q  BY <1>1, <1>9
  <2>2. TargetOf(s, d, m.target) \/ TargetLost(log, q, d, m.target, i)
    <3>1. ASSUME TargetLost(log, q, d, mem.target, pos) PROVE TargetLost(log, q, d, m.target, i)
      <4>1. pos # Idle  BY <1>1 DEF Idle
      <4>2. PICK k \in 1..q : pos < k /\ SubmitsIn(log, k, c[Len(d.valid) + 1])
        BY <3>1, <4>1 DEF TargetLost
      <4>3. k # i  BY <1>5, <4>2
      <4>4. i < k  BY <1>1, <4>2, <4>3
      <4> QED BY <1>4, <3>1, <4>2, <4>4 DEF TargetLost
    <3> QED BY <1>4, <1>6, <3>1
  <2>3. PassAt(log, q, d, m.state.halted, i)
    <3>1. \A k \in 0..pos : k \in 0..i  BY <1>1
    <3>2. \E k \in 0..i : SubmitsIn(log, k, Last(d.valid))  BY <1>1, <3>1
    <3>3. i = q => m.state.halted = StateIn(log, q).halted  BY <1>1, <1>4
    <3>4. ~SubmitsIn(log, q, Last(d.valid))
      <4>1. PICK k \in 0..pos : SubmitsIn(log, k, Last(d.valid))  BY <1>1
      <4>2. k \in 0..Len(log)  BY <1>1
      <4>3. SubmitsIn(log, q, Last(d.valid)) => q = k  BY <4>1, <4>2, SubmittedOnce
      <4> QED BY <1>1, <1>9, <4>3
    <3> QED BY <2>1, <3>2, <3>3, <3>4 DEF PassAt
  <2>4. NodeAt(log, q, d, m, i)  BY <1>4, <1>6, <2>2, <2>3 DEF NodeAt
  <2> QED BY <1>4, <1>7, <2>4, NodeMoves
<1> QED BY <1>8, <1>9

\* A revert.
LEMMA RevertMoves ==
    ASSUME LogInv, NodeInv, UpdateRevert
    PROVE  NodeInv'
<1> PICK q \in 0..Len(log) : NodeAt(log, q, db, mem, pos)  BY DEF NodeInv
<1> PICK a, s, c, b, i : a = Action /\ s = StateIn(log, q) /\ c = s.chain /\ b = a.block /\ i = pos + 1
  OBVIOUS
<1> PICK d, m : d = db' /\ m = mem'  OBVIOUS
<1> PICK t : t = (IF b = mem.target THEN 0 ELSE mem.target)  OBVIOUS
<1>1. InPass /\ Reverted /\ d = RevertBadBlocks(db, a.blocks) /\ pos' = i /\ log' = log
  BY DEF UpdateRevert, Applied
<1>2. /\ a.kind = "revert" /\ mem.target # 0 /\ Number(b) >= Number(mem.target)
      /\ d.rsmt = a.undone /\ d.smt = Elements(a.chain) /\ d.tip = Last(a.chain)
  BY <1>1 DEF Reverted
<1>3. pos = q  BY <1>1, StalePassStops
<1>4. /\ i \in 0..Len(log) /\ a = StateIn(log, i) /\ a = log[i] /\ i \in Nat /\ i # Idle
      /\ i # 0 /\ pos \in Nat /\ CellStep(s, a)
      /\ \E k \in 0..pos : SubmitsIn(log, k, Last(db.valid))
  BY <1>1, <1>3, PassFacts DEF Action
<1> PICK v : v = Len(db.valid)  OBVIOUS
<1>5. /\ GoodChain(c) /\ Len(c) \in Nat /\ Len(c) >= 1
      /\ v \in 1..Len(c) /\ v \in Nat /\ db.valid = SubSeq(c, 1, v)
  BY NodeFacts
<1>6. v < Len(c) /\ c[v + 1] = mem.target
  <2>1. TargetOf(s, db, mem.target)  BY <1>1, <1>3, TargetKnown
  <2> QED BY <1>2, <2>1 DEF TargetOf
<1>7. PICK p \in 2..Len(c) : c[p] = b /\ a.chain = SubSeq(c, 1, p - 1)
  BY <1>2, <1>4 DEF CellStep, SubmitStep, ChallengeStep, CancelStep, RevertStep
<1> PICK h : h = p - 1  OBVIOUS
<1>8. p \in Nat /\ p \in 1..Len(c) /\ h \in 1..Len(c) /\ h \in Nat /\ v + 1 \in 1..Len(c)
  BY <1>5, <1>6
<1>9. Number(b) = p - 1 /\ Number(mem.target) = v + 1 - 1
  <2>1. Number(b) = p - 1  BY <1>7, <1>8, PathInChain
  <2> PICK x, y : x = v + 1 /\ y = mem.target  OBVIOUS
  <2>2. x \in 1..Len(c) /\ y = c[x]  BY <1>6, <1>8
  <2>3. Number(y) = x - 1  BY <2>2, PathInChain, SMTT(60)
  <2> QED BY <2>1, <2>3
<1>10. v <= h /\ v \in 1..h  BY <1>2, <1>5, <1>8, <1>9
<1> PICK w : w = a.chain  OBVIOUS
<1>11. PrefixOf(w, c, h)  BY <1>5, <1>7, <1>8, PrefixChain
<1>12. /\ Len(w) = h /\ (\A j \in 1..h : w[j] = c[j]) /\ SubSeq(w, 1, v) = SubSeq(c, 1, v)
  BY <1>10, <1>11 DEF PrefixOf
<1>13. IsStore(d) /\ d.valid = db.valid
  <2>1. IsStore(db)  BY DEF NodeInv
  <2> PICK x, bs : x = db /\ bs = a.blocks  OBVIOUS
  <2> QED BY <1>1, <2>1, RevertFields
<1>14. IsMemory(m) /\ m.tip = d.tip /\ m.state = a /\ m.target = t
  <2>1. m = [tip |-> d.tip, state |-> a, target |-> t, event |-> EventAfter(d, t)]
    BY <1>1 DEF UpdateRevert, Applied
  <2> QED BY <2>1 DEF IsMemory
<1>15. StoreOf(a, d)
  BY <1>2, <1>5, <1>10, <1>12, <1>13 DEF StoreOf
<1>16. TargetOf(a, d, t)
  <2>1. CASE b = mem.target
    <3>1. p = v + 1
      <4>1. \A j, k \in 1..Len(c) : c[j] = c[k] => j = k  BY <1>5, ChainFacts, SMTT(60)
      <4>2. c[p] = c[v + 1]  BY <1>6, <1>7, <2>1
      <4> QED BY <1>8, <4>1, <4>2
    <3>2. Len(d.valid) = Len(a.chain)  BY <1>5, <1>8, <1>12, <1>13, <3>1
    <3> QED BY <2>1, <3>2 DEF TargetOf
  <2>2. CASE b # mem.target
    <3>1. p # v + 1  BY <1>6, <1>7, <2>2
    <3>2. v < h /\ v + 1 \in 1..h  BY <1>5, <1>8, <1>10, <3>1
    <3>3. v < Len(w) /\ w[v + 1] = mem.target  BY <1>6, <1>12, <3>2
    <3> QED BY <1>2, <1>13, <2>2, <3>3 DEF TargetOf
  <2> QED BY <2>1, <2>2
<1>17. PassAt(log, i, d, m.state.halted, i)
  <2>1. i \in 0..i /\ \A k \in 0..pos : k \in 0..i  BY <1>4
  <2>2. \E k \in 0..i : SubmitsIn(log, k, Last(d.valid))  BY <1>4, <1>13, <2>1
  <2>3. ~SubmitsIn(log, i, Last(d.valid))  BY <1>2, <1>4 DEF SubmitsIn
  <2> QED BY <1>4, <1>14, <2>1, <2>2, <2>3 DEF PassAt
<1>18. NodeAt(log, i, d, m, i)  BY <1>4, <1>14, <1>15, <1>16, <1>17 DEF NodeAt
<1> PICK l : l = log  OBVIOUS
<1> QED BY <1>1, <1>4, <1>13, <1>14, <1>18, NodeMoves

\* The beginning of a pass.
LEMMA StartMoves ==
    ASSUME LogInv, NodeInv, StartPass
    PROVE  NodeInv'
<1> PICK q \in 0..Len(log) : NodeAt(log, q, db, mem, pos)  BY DEF NodeInv
<1> PICK s, c, d, m, p : s = StateIn(log, q) /\ c = s.chain /\ d = db /\ m = mem /\ p = pos'
  OBVIOUS
<1> PICK v : v = Len(db.valid)  OBVIOUS
<1>1. log' = log /\ db' = d /\ mem' = m /\ p = SubmitAt(Last(d.valid))
  BY DEF StartPass
<1>2. /\ GoodChain(c) /\ Len(c) \in Nat
      /\ v \in 1..Len(c) /\ v \in Nat /\ Last(d.valid) = c[v]
      /\ SubmissionOf(Last(d.valid), d.valid, q)
  BY NodeFacts
<1>3. p \in 0..q /\ SubmitsIn(log, p, Last(d.valid))
  BY <1>1, <1>2 DEF SubmissionOf
<1>4. Len(log) \in Nat /\ q \in Nat /\ p \in Nat /\ p \in 0..Len(log) /\ p \in 0..p
  BY <1>3, CellFacts
<1>5. /\ StoreOf(s, d) /\ m.tip = d.tip
      /\ TargetOf(s, d, m.target) \/ TargetLost(log, q, d, m.target, pos)
      /\ SubmitsIn(log, q, Last(d.valid)) => m.state.halted = 0
  BY DEF NodeAt, PassAt
<1>6. ASSUME TargetLost(log, q, d, m.target, pos) PROVE TargetLost(log, q, d, m.target, p)
  <2>1. m.target = 0 /\ v < Len(c)  BY <1>6 DEF TargetLost
  <2>2. v + 1 \in 1..Len(c)  BY <1>2, <2>1
  <2>3. SubmissionOf(c[v + 1], SubSeq(c, 1, v + 1), q)  BY <2>2, PathInChain
  <2>4. PICK k \in 0..q : SubmitsIn(log, k, c[v + 1])  BY <2>3 DEF SubmissionOf
  <2>5. k \in 0..Len(log)  BY <1>4
  <2>6. c[v] < c[v + 1]  BY <1>2, <2>2, ChainFacts
  <2>7. p < k
    <3>1. \A j \in 0..Len(log) : \A x : SubmitsIn(log, j, x) /\ c[v] < x => p < j
      BY <1>2, <1>3, <1>4, SubmittedOnce
    <3> QED BY <2>4, <2>5, <2>6, <3>1
  <2>8. k \in 1..q  BY <1>4, <2>7
  <2> QED BY <2>1, <2>4, <2>7, <2>8 DEF TargetLost
<1>7. PassAt(log, q, d, m.state.halted, p)
  <2>1. p = q => m.state.halted = StateIn(log, q).halted
    <3>1. StateIn(log, p).halted = 0  BY <1>3, <1>4, SubmittedOnce
    <3> QED BY <1>3, <1>5, <3>1
  <2> QED BY <1>3, <1>4, <1>5, <2>1 DEF PassAt
<1>8. NodeAt(log, q, d, m, p)  BY <1>5, <1>6, <1>7 DEF NodeAt
<1>9. IsStore(d) /\ IsMemory(m)  BY DEF NodeInv
<1> PICK l : l = log  OBVIOUS
<1> QED BY <1>1, <1>8, <1>9, NodeMoves

\* The end of a pass, in time or by an error.
LEMMA StopMoves ==
    ASSUME NodeInv, log' = log, db' = db, mem' = mem, pos' = Idle
    PROVE  NodeInv'
<1> PICK q \in 0..Len(log) : NodeAt(log, q, db, mem, pos)  BY DEF NodeInv
<1> PICK l, d, m, p : l = log /\ d = db /\ m = mem /\ p = Idle  OBVIOUS
<1>1. TargetLost(l, q, d, m.target, pos) => TargetLost(l, q, d, m.target, p)  BY DEF TargetLost
<1>2. PassAt(l, q, d, m.state.halted, p)  BY DEF NodeAt, PassAt
<1>3. NodeAt(l, q, d, m, p)  BY <1>1, <1>2 DEF NodeAt
<1>4. IsStore(d) /\ IsMemory(m)  BY DEF NodeInv
<1> QED BY <1>3, <1>4, NodeMoves

\* A restart.
LEMMA RestartMoves ==
    ASSUME LogInv, NodeInv, Restart
    PROVE  NodeInv'
<1> PICK q \in 0..Len(log) : NodeAt(log, q, db, mem, pos)  BY DEF NodeInv
<1> PICK s, c, d, m, p : s = StateIn(log, q) /\ c = s.chain /\ d = db /\ m = mem' /\ p = Idle
  OBVIOUS
<1> PICK v : v = Len(db.valid)  OBVIOUS
<1>1. log' = log /\ db' = d /\ m = Created(d) /\ pos' = p  BY DEF Restart
<1>2. /\ Len(c) \in Nat /\ v \in 1..Len(c) /\ v \in Nat /\ PostState(d.tip).halted = 0
  BY NodeFacts
<1>3. IsMemory(m) /\ m.tip = d.tip /\ m.state = PostState(d.tip) /\ m.target = 0
  <2> PICK ps : ps = PostState(d.tip)  OBVIOUS
  <2>1. m = [tip |-> d.tip, state |-> ps, target |-> 0, event |-> Success]  BY <1>1 DEF Created
  <2> QED BY <2>1 DEF IsMemory
<1>4. StoreOf(s, d)  BY DEF NodeAt
<1>5. TargetOf(s, d, 0) \/ TargetLost(log, q, d, 0, p)
  <2>1. CASE v = Len(c)  BY <2>1 DEF TargetOf
  <2>2. CASE v # Len(c)
    <3>1. v < Len(c)  BY <1>2, <2>2
    <3> QED BY <3>1 DEF TargetLost
  <2> QED BY <2>1, <2>2
<1>6. PassAt(log, q, d, m.state.halted, p)  BY <1>2, <1>3 DEF PassAt
<1>7. NodeAt(log, q, d, m, p)  BY <1>3, <1>4, <1>5, <1>6 DEF NodeAt
<1>8. IsStore(d)  BY DEF NodeInv
<1> PICK l : l = log  OBVIOUS
<1> QED BY <1>1, <1>3, <1>7, <1>8, NodeMoves

\* The rewind to the last valid block.
LEMMA RewindMoves ==
    ASSUME LogInv, NodeInv, Rewind
    PROVE  NodeInv'
<1> PICK q \in 0..Len(log) : NodeAt(log, q, db, mem, pos)  BY DEF NodeInv
<1> PICK s, c, x, d, m, p :
        s = StateIn(log, q) /\ c = s.chain /\ x = db /\ d = db' /\ m = mem' /\ p = Idle
  OBVIOUS
<1> PICK v, b : v = Len(db.valid) /\ b = Last(db.valid)  OBVIOUS
<1>1. log' = log /\ d = Rewound(x) /\ m = Created(d) /\ pos' = p  BY DEF Rewind
<1>2. /\ GoodChain(c) /\ PathOf(x.tip) = c /\ x.smt = Elements(c) /\ v \in Nat
      /\ PrefixOf(x.valid, c, v)
      /\ SubmissionOf(b, x.valid, q)
  BY NodeFacts
<1>3. PICK k \in 0..q : /\ SubmitsIn(log, k, b) /\ StateIn(log, k).chain = x.valid
                        /\ SubmitAt(b) = k /\ PostState(b) = StateIn(log, k)
  BY <1>2 DEF SubmissionOf
<1>4. k \in 0..Len(log)  BY CellFacts
<1>5. StateIn(log, k).halted = 0  BY <1>3, <1>4, SubmittedOnce
<1> PICK gone : gone = Elements(PathOf(x.tip)) \ Elements(x.valid)  OBVIOUS
<1>6. /\ IsStore(d) /\ d.valid = x.valid /\ d.tip = b /\ d.smt = x.smt \ gone
      /\ d.rsmt = PostState(b).undone
  <2>1. IsStore(x)  BY DEF NodeInv
  <2> QED BY <1>1, <2>1, RewoundFields
<1>7. Elements(x.valid) \subseteq Elements(c)  BY <1>2 DEF PrefixOf
<1>8. d.smt = Elements(x.valid)  BY <1>2, <1>6, <1>7
<1>9. IsMemory(m) /\ m.tip = d.tip /\ m.state = PostState(d.tip) /\ m.target = 0
  <2> PICK ps : ps = PostState(d.tip)  OBVIOUS
  <2>1. m = [tip |-> d.tip, state |-> ps, target |-> 0, event |-> Success]  BY <1>1 DEF Created
  <2> QED BY <2>1 DEF IsMemory
<1> PICK w : w = x.valid  OBVIOUS
<1>10. Len(w) \in 1..Len(w) /\ SubSeq(w, 1, Len(w)) = w
  <2>1. GoodChain(w)  BY <1>2 DEF PrefixOf
  <2>2. Len(w) \in Nat /\ Len(w) >= 1 /\ SubSeq(w, 1, Len(w)) = w  BY <2>1, ChainFacts
  <2> QED BY <2>2
<1>11. StoreOf(StateIn(log, k), d) /\ TargetOf(StateIn(log, k), d, m.target)
  <2>1. d.tip = Last(w)  BY <1>6
  <2> QED BY <1>3, <1>6, <1>8, <1>9, <1>10, <2>1 DEF StoreOf, TargetOf
<1>12. PassAt(log, k, d, m.state.halted, p)  BY <1>3, <1>5, <1>6, <1>9 DEF PassAt
<1>13. NodeAt(log, k, d, m, p)  BY <1>9, <1>11, <1>12 DEF NodeAt
<1> PICK l : l = log  OBVIOUS
<1> QED BY <1>1, <1>4, <1>6, <1>9, <1>13, NodeMoves

\* A block of the node itself.
LEMMA OwnMoves ==
    ASSUME LogInv, NodeInv, OwnBlock, NEW e, Grows(e), e.kind = "submit", e.block = Len(right) + 1
    PROVE  NodeInv'
<1> PICK q \in 0..Len(log) : NodeAt(log, q, db, mem, pos)  BY DEF NodeInv
<1> PICK n, z : n = Len(log) /\ z = StateIn(log, n)  OBVIOUS
<1> PICK s, c, x, b, d, m, l :
        /\ s = StateIn(log, q) /\ c = s.chain /\ x = db /\ b = Len(right) + 1
        /\ d = db' /\ m = mem' /\ l = log'
  OBVIOUS
<1> PICK v, i : v = Len(db.valid) /\ i = n + 1  OBVIOUS
<1>1. OneMore(l, log, n, e)  BY GrowKeeps
<1>2. n \in Nat /\ i \in 0..Len(l) /\ Len(l) = i /\ l[i] = e /\ StateIn(l, i) = e /\ i # 0
  BY <1>1 DEF OneMore
<1>3. /\ pos = Idle /\ mem.tip = Last(x.valid) /\ mem.tip = Last(chain) /\ x.rsmt = undone
      /\ d = AttachBlock(x, b) /\ m = [mem EXCEPT !.tip = b, !.state = Last(l)] /\ pos' = pos
  BY DEF OwnBlock
<1>4. chain = z.chain /\ undone = z.undone /\ n \in 0..Len(log)
  BY <1>2 DEF LogInv, CellInv
<1>5. /\ GoodChain(c) /\ Len(c) \in Nat /\ Len(c) >= 1
      /\ x.tip = c[Len(c)] /\ mem.tip = x.tip /\ PathOf(x.tip) = c
      /\ x.smt = Elements(c) /\ x.rsmt = s.undone
      /\ v \in 1..Len(c) /\ v \in Nat /\ x.valid = SubSeq(c, 1, v) /\ Last(x.valid) = c[v]
  BY NodeFacts
<1>6. chain = c
  <2>1. GoodChain(chain) /\ Len(chain) \in Nat /\ Len(chain) >= 1  BY CellFacts
  <2> PICK y, w : y = chain /\ w = Len(chain)  OBVIOUS
  <2>2. w \in 1..Len(y) /\ mem.tip = y[w]  BY <1>3, <2>1 DEF Last
  <2>3. PathOf(mem.tip) = SubSeq(y, 1, w)  BY <1>4, <2>2, PathInChain
  <2>4. SubSeq(y, 1, w) = y  BY <2>1, ChainFacts
  <2> QED BY <1>5, <2>3, <2>4
<1>7. v = Len(c)
  <2>3. c[v] = c[Len(c)]  BY <1>3, <1>5
  <2> PICK y : y = Len(c)  OBVIOUS
  <2>4. y \in Nat /\ y >= 1  BY <1>5
  <2>5. y \in 1..y  BY <2>4
  <2>1. c[v] = c[Len(c)] /\ Len(c) \in 1..Len(c)  BY <2>3, <2>5
  <2>2. \A j, k \in 1..Len(c) : c[j] = c[k] => j = k  BY <1>5, ChainFacts
  <2> QED BY <1>5, <2>1, <2>2
<1>8. x.valid = c  BY <1>5, <1>7, ChainFacts
<1>9. mem.target = 0
  <2>1. TargetOf(s, x, mem.target) \/ TargetLost(log, q, x, mem.target, pos)  BY DEF NodeAt
  <2>2. mem.target # 0 => v < Len(c)  BY <2>1 DEF TargetOf, TargetLost
  <2> QED BY <1>5, <1>7, <2>2
<1>10. /\ IsStore(d) /\ d.valid = Append(c, b) /\ d.tip = b /\ d.smt = Elements(c) \cup {b}
       /\ d.rsmt = undone
  <2>1. IsStore(x)  BY DEF NodeInv
  <2>2. /\ IsStore(d) /\ d.valid = Append(x.valid, b) /\ d.tip = b
        /\ d.smt = x.smt \cup {b} /\ d.rsmt = x.rsmt
    BY <1>3, <2>1, AttachFields
  <2> QED BY <1>3, <1>5, <1>8, <2>2
<1>11. IsMemory(m) /\ m.tip = b /\ m.state = e /\ m.target = 0
  <2>1. Last(l) = e  BY <1>2 DEF Last
  <2>2. m = [tip |-> b, state |-> e, target |-> mem.target, event |-> mem.event]
    BY <1>3, <2>1 DEF NodeInv, IsMemory
  <2> QED BY <1>9, <2>2 DEF IsMemory
<1>12. e.chain = Append(c, b) /\ e.undone = undone /\ e.halted = 0
  <2>1. CellStep(z, e)  BY DEF Grows
  <2> QED BY <1>4, <1>6, <2>1 DEF CellStep, SubmitStep, ChallengeStep, CancelStep, RevertStep
<1> PICK w : w = e.chain  OBVIOUS
<1>13. ExtensionOf(w, c, b)
  <2>1. Len(right) \in Nat /\ Elements(chain) \subseteq 1..Len(right)  BY CellFacts
  <2>2. \A j \in 1..Len(c) : c[j] < b
    <3> TAKE j \in 1..Len(c)
    <3>1. c[j] \in Elements(c)  BY DEF Elements
    <3>2. c[j] \in 1..Len(right)  BY <1>6, <2>1, <3>1
    <3> QED BY <2>1, <3>2
  <2>3. b \in Nat  BY <2>1
  <2> QED BY <1>5, <1>12, <2>2, <2>3, AppendChain
<1>14. GoodChain(w) /\ Elements(w) = Elements(c) \cup {b} /\ Last(w) = b
  BY <1>13 DEF ExtensionOf
<1>15. Len(w) \in 1..Len(w) /\ SubSeq(w, 1, Len(w)) = w
  <2>1. Len(w) \in Nat /\ Len(w) >= 1 /\ SubSeq(w, 1, Len(w)) = w  BY <1>14, ChainFacts
  <2> QED BY <2>1
<1>16. d.valid = w  BY <1>10, <1>12
<1>17. StoreOf(e, d) /\ TargetOf(e, d, 0)
  BY <1>10, <1>12, <1>14, <1>15, <1>16 DEF StoreOf, TargetOf
<1>18. PassAt(l, i, d, m.state.halted, pos)  BY <1>3, <1>11, <1>12 DEF PassAt
<1>19. NodeAt(l, i, d, m, pos)  BY <1>2, <1>10, <1>11, <1>17, <1>18 DEF NodeAt
<1> PICK p : p = pos  OBVIOUS
<1>20. pos' = p /\ NodeAt(l, i, d, m, p)  BY <1>3, <1>19
<1> QED BY <1>2, <1>10, <1>11, <1>20, NodeMoves

\* The transactions of others and of the challenger.
LEMMA ForeignMoves ==
    ASSUME LogInv, NodeInv, NEW e, Grows(e), UNCHANGED nodeVars
    PROVE  NodeInv'
<1> PICK q \in 0..Len(log) : NodeAt(log, q, db, mem, pos)  BY DEF NodeInv
<1> PICK l, d, m, p, n : l = log' /\ d = db /\ m = mem /\ p = pos /\ n = Len(log)  OBVIOUS
<1>1. db' = d /\ mem' = m /\ pos' = p /\ IsStore(d) /\ IsMemory(m)  BY DEF nodeVars, NodeInv
<1>2. OneMore(l, log, n, e)  BY GrowKeeps
<1>3. NodeAt(l, q, d, m, p)  BY <1>2, NodeKept
<1>4. q \in 0..Len(l)  BY <1>2 DEF OneMore
<1> QED BY <1>1, <1>3, <1>4, NodeMoves

\* Every step keeps the node at some transaction of the list.
LEMMA NodeStep ==
    ASSUME LogInv, NodeInv, [Next]_vars
    PROVE  NodeInv'
<1>1. CASE UNCHANGED vars
  BY <1>1 DEF vars, NodeInv, NodeAt, StoreOf, TargetOf, TargetLost, PassAt
<1>2. CASE StartPass  BY <1>2, StartMoves
<1>3. CASE EndPass \/ UpdateFails  BY <1>3, StopMoves DEF EndPass, UpdateFails
<1>4. CASE UpdateValidBlock  BY <1>4, ValidMoves
<1>5. CASE UpdateBadBlock  BY <1>5, BadMoves
<1>6. CASE UpdateBadChallenge
  <2> PICK ev : ev = [Success EXCEPT !.kind = "BadChallenge", !.block = Action.block, !.cell = pos + 1]
    OBVIOUS
  <2>1. InPass /\ Action.kind = "challenge"
    BY <1>6 DEF UpdateBadChallenge, BadChallenged, Challenged
  <2>2. db' = db /\ mem' = [mem EXCEPT !.state = Action, !.event = ev] /\ pos' = pos + 1 /\ log' = log
    BY <1>6 DEF UpdateBadChallenge, Applied
  <2> QED BY <2>1, <2>2, StatusMoves
<1>7. CASE UpdateWaitChallenge
  <2> PICK ev : ev = [Success EXCEPT !.kind = "WaitChallenge", !.block = Action.block, !.cell = pos + 1,
                                     !.blocks = PackageBadBlocks(Action.block)]
    OBVIOUS
  <2>1. InPass /\ Action.kind = "challenge"
    BY <1>7 DEF UpdateWaitChallenge, WaitsForRevert, Challenged
  <2>2. db' = db /\ mem' = [mem EXCEPT !.state = Action, !.event = ev] /\ pos' = pos + 1 /\ log' = log
    BY <1>7 DEF UpdateWaitChallenge, Applied
  <2> QED BY <2>1, <2>2, StatusMoves
<1>8. CASE UpdateCancel
  <2> PICK ev : ev = EventAfter(db, mem.target)  OBVIOUS
  <2>1. InPass /\ Action.kind = "cancel"  BY <1>8 DEF UpdateCancel, Cancelled
  <2>2. db' = db /\ mem' = [mem EXCEPT !.state = Action, !.event = ev] /\ pos' = pos + 1 /\ log' = log
    BY <1>8 DEF UpdateCancel, Applied
  <2> QED BY <2>1, <2>2, StatusMoves
<1>9. CASE UpdateRevert  BY <1>9, RevertMoves
<1>10. CASE Restart  BY <1>10, RestartMoves
<1>11. CASE Rewind  BY <1>11, RewindMoves
<1>12. CASE OwnBlock
  <2>1. RollupTx("submit", Len(right) + 1, <<>>)  BY <1>12 DEF OwnBlock, RollupTx
  <2>2. PICK e : Grows(e) /\ e.kind = "submit" /\ e.block = Len(right) + 1  BY <2>1, TxGrows
  <2> QED BY <1>12, <2>2, OwnMoves
<1>13. CASE UNCHANGED nodeVars /\ ~UNCHANGED vars
  <2>1. CASE UNCHANGED <<rollupVars, log>>
    BY <1>13, <2>1 DEF nodeVars, NodeInv, NodeAt, StoreOf, TargetOf, TargetLost, PassAt
  <2>2. CASE \E k, b, bs : RollupTx(k, b, bs)
    <3>1. PICK e : Grows(e)  BY <2>2, TxGrows
    <3> QED BY <1>13, <3>1, ForeignMoves
  <2> QED BY <2>1, <2>2, LayerOneSteps
<1>14. CASE Challenger \/ (\E ok \in BOOLEAN : ForeignBlock(ok)) \/ (\E b \in Blocks : ForeignChallenge(b))
            \/ ForeignCancel \/ ForeignRevert
  <2>1. UNCHANGED nodeVars
    BY <1>14 DEF Challenger, ChallengeBlock, CancelChallenge, RevertBlocks, ForeignBlock,
       ForeignChallenge, ForeignCancel, ForeignRevert, nodeVars
  <2> QED BY <1>1, <1>13, <2>1
<1> QED BY <1>1, <1>2, <1>3, <1>4, <1>5, <1>6, <1>7, <1>8, <1>9, <1>10, <1>11, <1>12, <1>14
    DEF Next, Pass, Update

-----------------------------------------------------------------------------
(* The node acts on wrong blocks only.                                     *)

\* New transactions and new blocks keep what is known of the old ones.
LEMMA ActGrows ==
    ASSUME NEW r, NEW u, \A b : Wrong(r, b) => Wrong(u, b),
           NEW l, NEW t, NEW n, n = Len(l), NEW e, OneMore(t, l, n, e),
           NEW d, NEW m, ActAt(r, l, d, m)
    PROVE  ActAt(u, t, d, m)
<1>1. n \in Nat /\ Len(t) = n + 1 /\ \A k \in 1..n : t[k] = l[k] /\ k \in 0..n /\ k \in 1..(n + 1)
  BY DEF OneMore
<1>2. \A b, s : WrongUpTo(r, b, s) => WrongUpTo(u, b, s)  BY DEF WrongUpTo
<1>3. \A k \in 0..n : \A b : SubmitsIn(l, k, b) => SubmitsIn(t, k, b)  BY DEF OneMore
<1>4. BadOK(u, t, d.bad)
  <2> SUFFICES ASSUME NEW b \in d.bad
               PROVE  \E k \in 1..Len(t) : SubmitsIn(t, k, b) /\ WrongUpTo(u, b, t[k].chain)
    BY DEF BadOK
  <2>1. PICK k \in 1..n : SubmitsIn(l, k, b) /\ WrongUpTo(r, b, l[k].chain)
    BY DEF ActAt, BadOK
  <2> QED BY <1>1, <1>2, <1>3, <2>1
<1>5. EventOK(u, t, m.event)
  <2>1. m.event.kind = "BadBlock" => Wrong(u, m.event.block)  BY DEF ActAt, EventOK
  <2>2. ASSUME m.event.kind = "WaitChallenge"
        PROVE  /\ m.event.cell \in 1..Len(t) /\ t[m.event.cell].kind = "challenge"
               /\ WrongUpTo(u, t[m.event.cell].block, t[m.event.cell].chain)
    <3> PICK k : k = m.event.cell  OBVIOUS
    <3>1. k \in 1..n /\ l[k].kind = "challenge" /\ WrongUpTo(r, l[k].block, l[k].chain)
      BY <2>2 DEF ActAt, EventOK
    <3> QED BY <1>1, <1>2, <3>1
  <2> QED BY <2>1, <2>2 DEF EventOK
<1>6. (\A b \in d.targets : Wrong(u, b)) /\ (m.target # 0 => Wrong(u, m.target))  BY DEF ActAt
<1> QED BY <1>4, <1>5, <1>6 DEF ActAt

\* A bad block, with the chain that makes it bad.
LEMMA BadActs ==
    ASSUME LogInv, NodeInv, ActInv, UpdateBadBlock
    PROVE  ActInv'
<1> PICK q \in 0..Len(log) : NodeAt(log, q, db, mem, pos)  BY DEF NodeInv
<1> PICK a, s, c, b, i, r, l :
        /\ a = Action /\ s = StateIn(log, q) /\ c = s.chain /\ b = a.block /\ i = pos + 1
        /\ r = right /\ l = log
  OBVIOUS
<1> PICK x, d, m : x = db /\ d = db' /\ m = mem'  OBVIOUS
<1>1. InPass /\ Extends /\ (KnownTarget(b) # 0 \/ ~right[b])
  BY DEF UpdateBadBlock, SubmitsBad
<1>2. /\ pos = q /\ ExtensionOf(a.chain, c, b)
      /\ SubmitsIn(l, i, b) /\ b \in 1..Len(r) /\ b # 0
  BY <1>1, SubmitFacts
<1>3. i \in 1..Len(l) /\ a = l[i]  BY <1>1, PassFacts DEF Action
<1> PICK v : v = Len(x.valid)  OBVIOUS
<1>4. GoodChain(c) /\ Len(c) \in Nat /\ v \in Nat
  BY NodeFacts
<1> PICK t : t = (IF KnownTarget(b) = 0 THEN b ELSE KnownTarget(b))  OBVIOUS
<1>5. ActAt(r, l, x, mem)  BY DEF ActInv
<1>6. Wrong(r, t)
  <2>1. CASE KnownTarget(b) = 0  BY <1>1, <1>2, <2>1 DEF Wrong
  <2>2. CASE KnownTarget(b) # 0
    <3>1. (t = mem.target /\ mem.target # 0) \/ t \in x.targets  BY <2>2 DEF KnownTarget
    <3> QED BY <1>5, <3>1 DEF ActAt
  <2> QED BY <2>1, <2>2
<1> PICK g : g = (IF KnownTarget(b) = 0 THEN InsertBadBlock(x, b).targets \cup {b}
                  ELSE InsertBadBlock(x, b).targets)
  OBVIOUS
<1> PICK ev : ev = BadBlockEvent(InsertBadBlock(x, b), t)  OBVIOUS
<1>7. /\ d = BadInserted(x, b, g)
      /\ m = [tip |-> b, state |-> a, target |-> t, event |-> ev]
      /\ right' = r /\ log' = l
  BY DEF UpdateBadBlock, Applied, BadInserted, rollupVars
<1>8. d.bad = x.bad \cup {b} /\ d.targets = g /\ InsertBadBlock(x, b).targets = x.targets
  <2>1. IsStore(x)  BY DEF NodeInv
  <2> QED BY <1>7, <2>1, InsertBadFields
<1>9. \A y \in d.targets : Wrong(r, y)
  <2>1. CASE KnownTarget(b) = 0
    <3>1. g = x.targets \cup {b} /\ t = b  BY <1>8, <2>1
    <3> QED BY <1>5, <1>6, <1>8, <3>1 DEF ActAt
  <2>2. CASE KnownTarget(b) # 0  BY <1>5, <1>8, <2>2 DEF ActAt
  <2> QED BY <2>1, <2>2
<1> PICK w, n : w = a.chain /\ n = Len(c)  OBVIOUS
<1>10. WrongUpTo(r, b, w)
  <2>1. /\ Len(w) = n + 1 /\ w[n + 1] = b /\ \A p \in 1..n : w[p] = c[p]
    BY <1>2 DEF ExtensionOf
  <2>2. n \in Nat /\ n + 1 \in 1..(n + 1)  BY <1>4
  <2>3. \E p \in 1..(n + 1) : w[p] = t
    <3>1. CASE mem.target = 0
      <4>1. t = b  BY <3>1 DEF KnownTarget
      <4> QED BY <2>1, <2>2, <4>1
    <3>2. CASE mem.target # 0
      <4>1. t = mem.target  BY <3>2 DEF KnownTarget
      <4>2. TargetOf(s, x, mem.target)  BY <1>1, <1>2, TargetKnown
      <4>3. v < n /\ c[v + 1] = t  BY <3>2, <4>1, <4>2 DEF TargetOf
      <4>4. v + 1 \in 1..n /\ v + 1 \in 1..(n + 1)  BY <1>4, <2>2, <4>3
      <4> QED BY <2>1, <4>3, <4>4
    <3> QED BY <3>1, <3>2
  <2>4. PICK p \in 1..(n + 1) : w[p] = t  BY <2>3
  <2>5. p <= n + 1  BY <2>2
  <2>6. p \in 1..Len(w) /\ n + 1 \in 1..Len(w) /\ Wrong(r, w[p])  BY <1>6, <2>1, <2>2, <2>4
  <2> QED BY <2>1, <2>5, <2>6 DEF WrongUpTo
<1>11. BadOK(r, l, d.bad)
  <2>1. BadOK(r, l, x.bad)  BY <1>5 DEF ActAt
  <2>2. SubmitsIn(l, i, b) /\ WrongUpTo(r, b, l[i].chain)  BY <1>2, <1>3, <1>10
  <2> QED BY <1>3, <1>8, <2>1, <2>2 DEF BadOK
<1>12. m.target = t /\ m.event = ev  BY <1>7
<1>13. EventOK(r, l, ev)
  <2> PICK z : z = InsertBadBlock(x, b).smt  OBVIOUS
  <2>1. ev = [Success EXCEPT !.kind = "BadBlock", !.block = t, !.root = z]  BY DEF BadBlockEvent
  <2>2. ev.kind = "BadBlock" /\ ev.block = t  BY <2>1 DEF Success
  <2> QED BY <1>6, <2>2 DEF EventOK
<1>14. ActAt(r, l, d, m)  BY <1>6, <1>9, <1>11, <1>12, <1>13 DEF ActAt
<1> QED BY <1>7, <1>14 DEF ActInv

\* A challenge whose block the node wants reverted.
LEMMA WaitActs ==
    ASSUME LogInv, NodeInv, ActInv, UpdateWaitChallenge
    PROVE  ActInv'
<1> PICK q \in 0..Len(log) : NodeAt(log, q, db, mem, pos)  BY DEF NodeInv
<1> PICK a, b, i, r, l : a = Action /\ b = a.block /\ i = pos + 1 /\ r = right /\ l = log
  OBVIOUS
<1> PICK d, m : d = db /\ m = mem'  OBVIOUS
<1> PICK ev : ev = [Success EXCEPT !.kind = "WaitChallenge", !.block = Action.block, !.cell = pos + 1,
                                   !.blocks = PackageBadBlocks(Action.block)]
  OBVIOUS
<1>1. InPass /\ a.kind = "challenge" /\ b \in d.bad
  BY DEF UpdateWaitChallenge, WaitsForRevert, Challenged, Packageable
<1>2. m = StatusSet(mem, a, ev) /\ db' = d /\ right' = r /\ log' = l
  BY DEF UpdateWaitChallenge, Applied, StatusSet, rollupVars
<1>3. m.target = mem.target /\ m.event = ev
  <2>1. IsMemory(mem)  BY DEF NodeInv
  <2> PICK x : x = mem  OBVIOUS
  <2> QED BY <1>2, <2>1, MemoryFields
<1>4. /\ Len(l) \in Nat /\ i \in 1..Len(l) /\ i \in 0..Len(l) /\ a = l[i] /\ a = StateIn(l, i)
      /\ CellStep(StateIn(l, pos), a) /\ pos \in Nat
  BY <1>1, PassFacts DEF Action
<1>5. ActAt(r, l, d, mem)  BY DEF ActInv
<1> PICK c : c = a.chain  OBVIOUS
<1>6. b \in Elements(c)
  BY <1>1, <1>4 DEF CellStep, SubmitStep, ChallengeStep, CancelStep, RevertStep
<1>7. PICK p \in 1..Len(c) : c[p] = b  BY <1>6 DEF Elements
<1>8. PICK k \in 1..Len(l) : SubmitsIn(l, k, b) /\ WrongUpTo(r, b, l[k].chain)
  BY <1>1, <1>5 DEF ActAt, BadOK
<1>9. l[k].chain = SubSeq(c, 1, p)
  <2>1. SubmissionOf(b, SubSeq(c, 1, p), i)  BY <1>4, <1>7, PathInChain
  <2>2. PICK j \in 0..i : SubmitsIn(l, j, b) /\ StateIn(l, j).chain = SubSeq(c, 1, p)
    BY <2>1 DEF SubmissionOf
  <2>3. j \in 0..Len(log) /\ k \in 0..Len(log) /\ k # 0  BY <1>4
  <2>4. j = k  BY <1>8, <2>2, <2>3, SubmittedOnce
  <2> QED BY <2>2, <2>3, <2>4 DEF StateIn
<1>10. WrongUpTo(r, b, c)
  <2>1. GoodChain(c)  BY <1>4 DEF LogInv, LogOK, StepsOK
  <2> PICK w : w = l[k].chain  OBVIOUS
  <2>2. PrefixOf(w, c, p)  BY <1>9, <2>1, PrefixChain
  <2>3. Len(w) = p /\ (\A j \in 1..p : w[j] = c[j])  BY <2>2 DEF PrefixOf
  <2>4. PICK x, y \in 1..Len(w) : x <= y /\ w[y] = b /\ Wrong(r, w[x])  BY <1>8 DEF WrongUpTo
  <2>5. Len(c) \in Nat  BY <2>1, ChainFacts
  <2>6. x \in 1..Len(c) /\ y \in 1..Len(c)  BY <2>3, <2>4, <2>5
  <2>7. c[y] = b /\ Wrong(r, c[x])  BY <2>3, <2>4
  <2> QED BY <2>4, <2>6, <2>7 DEF WrongUpTo
<1>11. EventOK(r, l, ev)
  <2> PICK z : z = PackageBadBlocks(Action.block)  OBVIOUS
  <2>1. ev = [Success EXCEPT !.kind = "WaitChallenge", !.block = b, !.cell = i, !.blocks = z]
    OBVIOUS
  <2>2. ev.kind = "WaitChallenge" /\ ev.cell = i  BY <2>1 DEF Success
  <2> QED BY <1>1, <1>4, <1>10, <2>2 DEF EventOK
<1>12. ActAt(r, l, d, m)  BY <1>3, <1>5, <1>11 DEF ActAt
<1> QED BY <1>2, <1>12 DEF ActInv

\* The event after a cancellation or a revert.
LEMMA EventAfterOK ==
    ASSUME NEW r, NEW l, NEW d, NEW t, t # 0 => Wrong(r, t)
    PROVE  EventOK(r, l, EventAfter(d, t)) /\ EventOK(r, l, Success)
<1> PICK z, ev : z = d.smt /\ ev = EventAfter(d, t)  OBVIOUS
<1>1. Success.kind = "Success"  BY DEF Success
<1>2. CASE t = 0
  <2>1. ev = Success  BY <1>2 DEF EventAfter
  <2> QED BY <1>1, <2>1 DEF EventOK
<1>3. CASE t # 0
  <2>1. ev = [Success EXCEPT !.kind = "BadBlock", !.block = t, !.root = z]
    BY <1>3 DEF EventAfter, BadBlockEvent
  <2>2. ev.kind = "BadBlock" /\ ev.block = t  BY <2>1 DEF Success
  <2> QED BY <1>1, <1>3, <2>2 DEF EventOK
<1> QED BY <1>2, <1>3

\* Every step keeps what the node acts on right.
LEMMA ActStep ==
    ASSUME LogInv, NodeInv, ActInv, [Next]_vars
    PROVE  ActInv'
<1> PICK r, l, x : r = right /\ l = log /\ x = db  OBVIOUS
<1>a. /\ ActAt(r, l, x, mem) /\ IsStore(x) /\ IsMemory(mem)  BY DEF ActInv, NodeInv
<1>b. /\ \A b \in x.targets : Wrong(r, b)
      /\ mem.target # 0 => Wrong(r, mem.target)
      /\ BadOK(r, l, x.bad) /\ EventOK(r, l, mem.event)
  BY <1>a DEF ActAt
<1>1. CASE UNCHANGED vars  BY <1>1 DEF vars, rollupVars, ActInv
<1>2. CASE StartPass \/ EndPass \/ UpdateFails
  BY <1>2 DEF StartPass, EndPass, UpdateFails, rollupVars, ActInv
<1>3. CASE UpdateValidBlock
  <2> PICK d, m, b, a : d = db' /\ m = mem' /\ b = Action.block /\ a = Action  OBVIOUS
  <2>1. /\ d = AttachBlock(x, b) /\ m = [tip |-> b, state |-> a, target |-> 0, event |-> Success]
        /\ right' = r /\ log' = l
    BY <1>3 DEF UpdateValidBlock, Applied, rollupVars
  <2>2. d.bad = x.bad /\ d.targets = x.targets  BY <1>a, <2>1, AttachFields
  <2>3. m.target = 0 /\ m.event = Success  BY <2>1
  <2>4. EventOK(r, l, Success)  BY EventAfterOK
  <2>5. ActAt(r, l, d, m)  BY <1>b, <2>2, <2>3, <2>4 DEF ActAt
  <2> QED BY <2>1, <2>5 DEF ActInv
<1>4. CASE UpdateBadBlock  BY <1>4, BadActs
<1>5. CASE UpdateBadChallenge
  <2> PICK m, y : m = mem' /\ y = mem  OBVIOUS
  <2> PICK a, i, b : a = Action /\ i = pos + 1 /\ b = Action.block  OBVIOUS
  <2> PICK ev : ev = [Success EXCEPT !.kind = "BadChallenge", !.block = b, !.cell = i]
    OBVIOUS
  <2>1. db' = x /\ m = StatusSet(y, a, ev) /\ right' = r /\ log' = l
    BY <1>5 DEF UpdateBadChallenge, Applied, rollupVars, StatusSet
  <2>2. m.target = y.target /\ m.event = ev  BY <1>a, <2>1, MemoryFields
  <2>3. ev.kind = "BadChallenge"  BY DEF Success
  <2>4. EventOK(r, l, ev)  BY <2>3 DEF EventOK
  <2>5. ActAt(r, l, x, m)  BY <1>b, <2>2, <2>4 DEF ActAt
  <2> QED BY <2>1, <2>5 DEF ActInv
<1>6. CASE UpdateWaitChallenge  BY <1>6, WaitActs
<1>7. CASE UpdateCancel
  <2> PICK m, y : m = mem' /\ y = mem  OBVIOUS
  <2> PICK a, ev, t : a = Action /\ t = mem.target /\ ev = EventAfter(x, t)  OBVIOUS
  <2>1. db' = x /\ m = StatusSet(y, a, ev) /\ right' = r /\ log' = l
    BY <1>7 DEF UpdateCancel, Applied, rollupVars, StatusSet
  <2>2. m.target = y.target /\ m.event = ev  BY <1>a, <2>1, MemoryFields
  <2>4. EventOK(r, l, ev)  BY <1>b, EventAfterOK
  <2>5. ActAt(r, l, x, m)  BY <1>b, <2>2, <2>4 DEF ActAt
  <2> QED BY <2>1, <2>5 DEF ActInv
<1>8. CASE UpdateRevert
  <2> PICK d, m, a, bs, y : d = db' /\ m = mem' /\ a = Action /\ bs = Action.blocks /\ y = mem.target
    OBVIOUS
  <2> PICK t : t = (IF a.block = y THEN 0 ELSE y)  OBVIOUS
  <2> PICK ev : ev = EventAfter(d, t)  OBVIOUS
  <2>1. /\ d = RevertBadBlocks(x, bs) /\ right' = r /\ log' = l
        /\ m = [tip |-> d.tip, state |-> a, target |-> t, event |-> ev]
    BY <1>8 DEF UpdateRevert, Applied, rollupVars
  <2>2. d.bad = x.bad /\ d.targets = x.targets  BY <1>a, <2>1, RevertFields
  <2>3. m.target = t /\ m.event = ev  BY <2>1
  <2>4. t # 0 => Wrong(r, t)  BY <1>b
  <2>5. EventOK(r, l, ev)  BY <2>4, EventAfterOK
  <2>6. ActAt(r, l, d, m)  BY <1>b, <2>2, <2>3, <2>4, <2>5 DEF ActAt
  <2> QED BY <2>1, <2>6 DEF ActInv
<1>9. CASE Restart
  <2> PICK m, s : m = mem' /\ s = PostState(x.tip)  OBVIOUS
  <2>1. db' = x /\ m = [tip |-> x.tip, state |-> s, target |-> 0, event |-> Success]
        /\ right' = r /\ log' = l
    BY <1>9 DEF Restart, Created, rollupVars
  <2>2. m.target = 0 /\ m.event = Success  BY <2>1
  <2>3. EventOK(r, l, Success)  BY EventAfterOK
  <2>4. ActAt(r, l, x, m)  BY <1>b, <2>2, <2>3 DEF ActAt
  <2> QED BY <2>1, <2>4 DEF ActInv
<1>10. CASE Rewind
  <2> PICK d, m : d = db' /\ m = mem'  OBVIOUS
  <2> PICK s : s = PostState(d.tip)  OBVIOUS
  <2>1. d = Rewound(x) /\ m = [tip |-> d.tip, state |-> s, target |-> 0, event |-> Success]
        /\ right' = r /\ log' = l
    BY <1>10 DEF Rewind, Created, rollupVars
  <2>2. m.target = 0 /\ m.event = Success  BY <2>1
  <2>3. EventOK(r, l, Success)  BY EventAfterOK
  <2> PICK gone : gone = Elements(PathOf(x.tip)) \ Elements(x.valid)  OBVIOUS
  <2>4. d.bad = x.bad \ gone /\ d.targets = x.targets \ gone  BY <1>a, <2>1, RewoundFields
  <2>5. BadOK(r, l, d.bad)  BY <1>b, <2>4 DEF BadOK
  <2>6. ActAt(r, l, d, m)  BY <1>b, <2>2, <2>3, <2>4, <2>5 DEF ActAt
  <2> QED BY <2>1, <2>6 DEF ActInv
<1>11. ASSUME NEW e, Grows(e), db'.bad = x.bad, db'.targets = x.targets,
              mem'.target = mem.target, mem'.event = mem.event
       PROVE  ActInv'
  <2> PICK d, m, u, t, n : d = db' /\ m = mem' /\ u = right' /\ t = log' /\ n = Len(log)  OBVIOUS
  <2>1. OneMore(t, l, n, e) /\ \A b : Wrong(r, b) => Wrong(u, b)  BY <1>11, GrowKeeps
  <2>2. ActAt(r, l, d, m)  BY <1>b, <1>11 DEF ActAt
  <2>3. ActAt(u, t, d, m)  BY <2>1, <2>2, ActGrows
  <2> QED BY <2>3 DEF ActInv
<1>12. CASE OwnBlock
  <2>1. RollupTx("submit", Len(right) + 1, <<>>)  BY <1>12 DEF OwnBlock, RollupTx
  <2>2. PICK e : Grows(e)  BY <2>1, TxGrows
  <2> PICK d, m, b, s, y : d = db' /\ m = mem' /\ b = Len(right) + 1 /\ s = Last(log') /\ y = mem
    OBVIOUS
  <2>3. d = AttachBlock(x, b) /\ m = [y EXCEPT !.tip = b, !.state = s]  BY <1>12 DEF OwnBlock
  <2>4. d.bad = x.bad /\ d.targets = x.targets  BY <1>a, <2>3, AttachFields
  <2>5. m = [tip |-> b, state |-> s, target |-> y.target, event |-> y.event]
    BY <1>a, <2>3 DEF IsMemory
  <2>6. m.target = y.target /\ m.event = y.event  BY <2>5
  <2> QED BY <1>11, <2>2, <2>4, <2>6
<1>13. CASE UNCHANGED nodeVars
  <2>1. db' = db /\ mem' = mem  BY <1>13 DEF nodeVars
  <2>2. CASE UNCHANGED <<rollupVars, log>>  BY <2>1, <2>2 DEF rollupVars, ActInv
  <2>3. CASE \E k, b, bs : RollupTx(k, b, bs)
    <3>1. PICK e : Grows(e)  BY <2>3, TxGrows
    <3> QED BY <1>11, <2>1, <3>1
  <2> QED BY <2>2, <2>3, LayerOneSteps
<1>14. CASE Challenger \/ (\E ok \in BOOLEAN : ForeignBlock(ok)) \/ (\E b \in Blocks : ForeignChallenge(b))
            \/ ForeignCancel \/ ForeignRevert
  <2>1. UNCHANGED nodeVars
    BY <1>14 DEF Challenger, ChallengeBlock, CancelChallenge, RevertBlocks, ForeignBlock,
       ForeignChallenge, ForeignCancel, ForeignRevert, nodeVars
  <2> QED BY <1>13, <2>1
<1> QED BY <1>1, <1>2, <1>3, <1>4, <1>5, <1>6, <1>7, <1>8, <1>9, <1>10, <1>12, <1>14
    DEF Next, Pass, Update

-----------------------------------------------------------------------------
(* The results.                                                            *)

SyncInv == LogInv /\ NodeInv /\ ActInv

LEMMA SyncStart ==
    ASSUME Init
    PROVE  SyncInv
<1>1. /\ right = <<TRUE>> /\ chain = <<1>> /\ halted = 0 /\ undone = {} /\ log = <<>>
      /\ db = [valid |-> <<1>>, tip |-> 1, bad |-> {}, smt |-> {1}, rsmt |-> {}, targets |-> {}]
      /\ mem = [tip |-> 1, state |-> GenesisState, target |-> 0, event |-> Success]
      /\ pos = Idle
  BY DEF Init, ChainInit, InitDb, Genesis
<1> PICK s, c : s = GenesisState /\ c = <<1>>  OBVIOUS
<1>2. s.chain = c /\ s.halted = 0 /\ s.undone = {}  BY DEF GenesisState, Genesis
<1>3. c \in Seq(Nat) /\ Len(c) = 1 /\ c[1] = 1  OBVIOUS
<1>4. Elements(c) = {1} /\ Last(c) = 1  BY <1>3 DEF Elements, Last
<1>5. GoodChain(c)  BY <1>3 DEF GoodChain, Increasing, Genesis
<1>6. SubSeq(c, 1, 1) = c  BY <1>3, <1>5, ChainFacts
<1>7. log \in Seq(States) /\ Len(log) = 0  BY <1>1, EmptySeq
<1>8. right \in Seq(BOOLEAN) /\ Len(right) = 1  BY <1>1
<1>9. StateIn(log, 0) = s /\ SubmitsIn(log, 0, 1)  BY DEF StateIn, SubmitsIn, Genesis
<1>10. Known(s) \subseteq 1..1  BY <1>2, <1>4 DEF Known
<1>11. \A i : (i \in 1..0 <=> FALSE) /\ (i \in 0..0 <=> i = 0) /\ (i \in 1..1 <=> i = 1)  OBVIOUS
<1>12. CellInv  BY <1>1, <1>2, <1>7, <1>8, <1>9 DEF CellInv
<1>13. StepsOK(log, Len(right))
  BY <1>2, <1>5, <1>7, <1>8, <1>9, <1>10, <1>11 DEF StepsOK
<1>14. PathsOK(log)
  <2> SUFFICES ASSUME NEW i \in 0..0, NEW p \in 1..Len(StateIn(log, i).chain)
               PROVE  \E k \in 0..i : SubmitsIn(log, k, StateIn(log, i).chain[p])
                          /\ StateIn(log, k).chain = SubSeq(StateIn(log, i).chain, 1, p)
    BY <1>7 DEF PathsOK
  <2>0. i = 0  BY <1>11
  <2>2. StateIn(log, i).chain = c  BY <1>2, <1>9, <2>0
  <2>3. p \in 1..1  BY <1>3, <2>2
  <2>4. p = 1  BY <2>3
  <2>1. i = 0 /\ StateIn(log, i).chain = c /\ p = 1  BY <2>0, <2>2, <2>4
  <2> QED BY <1>2, <1>3, <1>6, <1>9, <1>11, <2>1
<1>15. UndoneOK(log)
  <2>1. Elements(s.chain) \cap s.undone = {}  BY <1>2
  <2> QED BY <1>7, <1>9, <1>11, <2>1 DEF UndoneOK
<1>16. LogInv  BY <1>12, <1>13, <1>14, <1>15 DEF LogInv, LogOK
<1> PICK d, m : d = db /\ m = mem  OBVIOUS
<1>17. /\ d.valid = c /\ d.tip = 1 /\ d.smt = {1} /\ d.rsmt = {} /\ d.bad = {} /\ d.targets = {}
       /\ m.tip = 1 /\ m.state = s /\ m.target = 0 /\ m.event = Success
       /\ IsStore(d) /\ IsMemory(m)
  BY <1>1 DEF IsStore, IsMemory
<1>18. StoreOf(s, d) /\ TargetOf(s, d, 0)
  <2>1. Len(d.valid) = 1 /\ Len(s.chain) = 1 /\ 1 \in 1..1  BY <1>2, <1>3, <1>17
  <2> QED BY <1>2, <1>4, <1>6, <1>17, <2>1 DEF StoreOf, TargetOf
<1>19. PassAt(log, 0, d, s.halted, Idle)  BY <1>2 DEF PassAt
<1>20. NodeAt(log, 0, d, m, pos)  BY <1>1, <1>9, <1>17, <1>18, <1>19 DEF NodeAt
<1>21. NodeInv  BY <1>7, <1>11, <1>17, <1>20 DEF NodeInv
<1>22. EventOK(right, log, Success)
  <2> PICK r, l : r = right /\ l = log  OBVIOUS
  <2>1. Success.kind = "Success"  BY DEF Success
  <2> QED BY <2>1 DEF EventOK
<1>23. ActInv  BY <1>17, <1>22 DEF ActInv, ActAt, BadOK
<1> QED BY <1>16, <1>21, <1>23 DEF SyncInv

LEMMA SyncStep ==
    ASSUME SyncInv, [Next]_vars
    PROVE  SyncInv'
<1>1. LogInv /\ NodeInv /\ ActInv  BY DEF SyncInv
<1>2. LogInv'
  <2>1. CASE UNCHANGED <<rollupVars, log>>
    BY <1>1, <2>1 DEF rollupVars, LogInv, CellInv
  <2>2. CASE \E k, b, bs : RollupTx(k, b, bs)
    <3>1. PICK e : Grows(e)  BY <1>1, <2>2, TxGrows
    <3> QED BY <1>1, <3>1, GrowKeeps
  <2> QED BY <2>1, <2>2, LayerOneSteps
<1>3. NodeInv'  BY <1>1, NodeStep
<1>4. ActInv'  BY <1>1, ActStep
<1> QED BY <1>2, <1>3, <1>4 DEF SyncInv

\* SyncInv holds in every state: the list of rollup transactions is in order,
\* the store of the node is the one after one of them, and the blocks it holds
\* against others are wrong.
THEOREM SyncInductive == Spec => []SyncInv
<1>1. Init => SyncInv  BY SyncStart
<1>2. SyncInv /\ [Next]_vars => SyncInv'  BY SyncStep
<1> QED BY <1>1, <1>2, PTL DEF Spec

LEMMA CaughtUp ==
    SyncInv => FollowsL1
<1> SUFFICES ASSUME SyncInv, pos = Len(log)
             PROVE  /\ mem.tip = Last(chain) /\ db.tip = Last(chain)
                    /\ db.smt = Elements(chain) /\ db.rsmt = undone
                    /\ mem.state.halted = halted
                    /\ IF mem.target = 0 THEN db.valid = chain
                       ELSE db.valid = SubSeq(chain, 1, PositionOf(mem.target, chain) - 1)
  BY DEF FollowsL1
<1>1. LogInv /\ NodeInv  BY DEF SyncInv
<1> PICK q \in 0..Len(log) : NodeAt(log, q, db, mem, pos)  BY <1>1 DEF NodeInv
<1>2. Len(log) \in Nat /\ pos # Idle /\ q \in Nat  BY <1>1, CellFacts DEF Idle
<1>3. pos \in 0..q /\ (pos = q => mem.state.halted = StateIn(log, q).halted)
  BY <1>2 DEF NodeAt, PassAt
<1>4. q = pos /\ q = Len(log)  BY <1>2, <1>3
<1> PICK s, c, v : s = StateIn(log, q) /\ c = s.chain /\ v = Len(db.valid)  OBVIOUS
<1>5. chain = c /\ halted = s.halted /\ undone = s.undone  BY <1>1, <1>4 DEF LogInv, CellInv
<1>6. /\ GoodChain(c) /\ Len(c) \in Nat
      /\ db.tip = c[Len(c)] /\ mem.tip = db.tip /\ db.smt = Elements(c) /\ db.rsmt = s.undone
      /\ v \in Nat /\ db.valid = SubSeq(c, 1, v)
  BY <1>1, NodeFacts
<1>7. TargetOf(s, db, mem.target)
  <2>1. ~ TargetLost(log, q, db, mem.target, pos)
    <3> SUFFICES ASSUME NEW k \in 1..q, pos < k PROVE FALSE
      BY <1>2 DEF TargetLost
    <3> QED BY <1>2, <1>4
  <2> QED BY <2>1 DEF NodeAt
<1>8. CASE mem.target = 0
  <2>1. v = Len(c)  BY <1>7, <1>8 DEF TargetOf
  <2>2. db.valid = c  BY <1>6, <2>1, ChainFacts
  <2> QED BY <1>3, <1>4, <1>5, <1>6, <1>8, <2>2 DEF Last
<1>9. CASE mem.target # 0
  <2>1. v < Len(c) /\ c[v + 1] = mem.target  BY <1>7, <1>9 DEF TargetOf
  <2>2. v + 1 \in 1..Len(c)  BY <1>6, <2>1
  <2>3. PositionOf(mem.target, c) = v + 1
    <3>1. \A k \in 1..Len(c) : PositionOf(c[k], c) = k  BY <1>6, ChainFacts
    <3> QED BY <2>1, <2>2, <3>1
  <2>4. PositionOf(mem.target, c) - 1 = v  BY <1>6, <2>3
  <2> QED BY <1>3, <1>4, <1>5, <1>6, <1>9, <2>4 DEF Last
<1> QED BY <1>8, <1>9

\* A node that has applied every rollup transaction agrees with the rollup
\* cell, and its state is the one after the longest right prefix of the chain:
\* Chain::update_l1action and sync_l1, through any number of blocks, challenges,
\* cancellations, reverts, failed passes, restarts and rewinds.
THEOREM SyncedNodeAgrees == Spec => []FollowsL1
<1>1. SyncInv => FollowsL1  BY CaughtUp
<1> QED BY <1>1, SyncInductive, PTL

LEMMA ActsRight ==
    ASSUME SyncInv
    PROVE  /\ ChallengeBlock => ~right[mem.event.block]
           /\ RevertBlocks => \E i \in WrongIn(chain) : i <= PositionOf(halted, chain)
<1>1. LogInv /\ ActInv  BY DEF SyncInv
<1>2. EventOK(right, log, mem.event)  BY <1>1 DEF ActInv, ActAt
<1>3. ASSUME ChallengeBlock PROVE ~right[mem.event.block]
  <2>1. mem.event.kind = "BadBlock"  BY <1>3 DEF ChallengeBlock
  <2>2. Wrong(right, mem.event.block)  BY <1>2, <2>1 DEF EventOK
  <2> QED BY <2>2 DEF Wrong
<1>4. ASSUME RevertBlocks PROVE \E i \in WrongIn(chain) : i <= PositionOf(halted, chain)
  <2>1. mem.event.kind = "WaitChallenge" /\ mem.event.cell = Len(log)  BY <1>4 DEF RevertBlocks
  <2> PICK n, t : n = Len(log) /\ t = log[n]  OBVIOUS
  <2>2. n \in 1..Len(log) /\ t.kind = "challenge" /\ WrongUpTo(right, t.block, t.chain)
    BY <1>2, <2>1 DEF EventOK
  <2>3. n \in Nat /\ n # 0  BY <1>1, <2>2, CellFacts
  <2>4. t = StateIn(log, n)  BY <2>3 DEF StateIn
  <2>5. chain = t.chain /\ halted = t.halted  BY <1>1, <2>4 DEF LogInv, CellInv
  <2>6. t.halted = t.block
    <3>1. CellStep(StateIn(log, n - 1), t)  BY <1>1, <2>2 DEF LogInv, LogOK, StepsOK
    <3> QED BY <2>2, <3>1 DEF CellStep, SubmitStep, ChallengeStep, CancelStep, RevertStep
  <2>7. PICK i, j \in 1..Len(chain) : i <= j /\ chain[j] = halted /\ Wrong(right, chain[i])
    BY <2>2, <2>5, <2>6 DEF WrongUpTo
  <2>8. PositionOf(halted, chain) = j
    <3>1. GoodChain(chain)  BY <1>1, CellFacts
    <3>2. \A k \in 1..Len(chain) : PositionOf(chain[k], chain) = k  BY <3>1, ChainFacts
    <3> QED BY <2>7, <3>2
  <2>9. i \in WrongIn(chain)  BY <2>7 DEF WrongIn, Wrong
  <2> QED BY <2>7, <2>8, <2>9
<1> QED BY <1>3, <1>4

\* The challenger challenges only wrong blocks, and reverts a block only when it
\* or one before it is wrong, even when the event it acts on is old.
THEOREM OnlyWrongBlocksChallenged == Spec => ActsOnWrongBlocks
<1>1. SyncInv /\ [Next]_vars =>
          [/\ ChallengeBlock => ~right[mem.event.block]
           /\ RevertBlocks => \E i \in WrongIn(chain) : i <= PositionOf(halted, chain)]_vars
  BY ActsRight
<1> QED BY <1>1, SyncInductive, PTL DEF Spec, ActsOnWrongBlocks

=============================================================================
