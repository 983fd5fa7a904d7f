----------------------------- MODULE MCMemPool -----------------------------
(* Instances of MemPool for TLC. *)
EXTENDS MemPool, TLC

\* Accounts are interchangeable.
AccountSymmetry == Permutations(Accounts)

\* The first requests of an account may fail whenever they are executed.
FirstRequests == {r \in Requests : r.nonce = 0}
=============================================================================
