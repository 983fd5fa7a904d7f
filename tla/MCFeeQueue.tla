---------------------------- MODULE MCFeeQueue ----------------------------
(***************************************************************************)
(* Requests of two accounts and of a sender without an account: a later    *)
(* nonce with the better fee, a withdrawal and a transaction that compete  *)
(* for a nonce, equal fee rates.                                           *)
(***************************************************************************)
EXTENDS FeeQueue

R(a, k, n, f, c, b) ==
    [acct |-> a, kind |-> k, nonce |-> n, fee |-> f, cycles |-> c, cost |-> c, bytes |-> b]

MCRequest ==
    [a0 |-> R("a", "tx", 0, 1, 1, 1),
     a1 |-> R("a", "tx", 1, 4, 2, 2),
     w1 |-> R("a", "withdrawal", 1, 2, 1, 3),
     c0 |-> R("c", "create", 0, 3, 1, 4)]

\* Two withdrawals of different accounts with the same fee, cycles and nonce.
MCRequestEqual ==
    [a0 |-> R("a", "tx", 0, 1, 1, 1),
     w1 |-> R("a", "withdrawal", 1, 2, 1, 2),
     v1 |-> R("b", "withdrawal", 1, 2, 1, 3)]
=============================================================================
