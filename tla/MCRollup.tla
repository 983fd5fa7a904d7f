------------------------------ MODULE MCRollup ------------------------------
(***************************************************************************)
(* Small instances of the rollup's layer-1 scripts.                        *)
(***************************************************************************)
EXTENDS Rollup, TLC

CONSTANTS p1, p2

Symmetry == Permutations({p1, p2})

=============================================================================
