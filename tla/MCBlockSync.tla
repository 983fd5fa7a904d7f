---------------------------- MODULE MCBlockSync ----------------------------
(***************************************************************************)
(* Instances of BlockSync for TLC.                                         *)
(***************************************************************************)
EXTENDS BlockSync

MCBlock == [id : 1..MaxBlocks, par : 0..MaxBlocks]
=============================================================================
