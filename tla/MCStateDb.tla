----------------------------- MODULE MCStateDb -----------------------------
(***************************************************************************)
(* Small instances of the account state.                                   *)
(***************************************************************************)
EXTENDS StateDb, TLC

CONSTANTS k1, k2, h1

Symmetry == Permutations({k1, k2})

=============================================================================
