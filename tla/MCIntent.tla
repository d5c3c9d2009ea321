------------------------------ MODULE MCIntent ------------------------------
(* Two commands on one host, a slot and one that refers to its result, one *)
(* sample, two sync errors and one power loss.                              *)
EXTENDS Intent, TLC

CONSTANTS c1, c2, sent, replied, v1, v2, x1

MCNeeds == (sent :> None) @@ (replied :> sent)
MCAllocations == <<x1>>
Symmetry == Permutations(Commands) \cup Permutations(Values)
=============================================================================
