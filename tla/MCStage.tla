------------------------------ MODULE MCStage ------------------------------
(***************************************************************************)
(* Small instances of Stage.                                               *)
(***************************************************************************)
EXTENDS Stage, TLC

CONSTANTS k1, k2

Symmetry == Permutations(Keys)
=============================================================================
