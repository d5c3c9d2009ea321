----------------------------- MODULE MCRecovery -----------------------------
(***************************************************************************)
(* Small instances of Recovery.                                            *)
(***************************************************************************)
EXTENDS Recovery, TLC

CONSTANTS o1, o2, p1, p2

\* The operator, the owner, the deployment, the deadline and the recording of
\* failures act in the policy run; here the passes and the leases do.
LeftAlone ==
  /\ installed /\ connected
  /\ \A o \in Ops : age[o] = "fresh" /\ opState[o] # "delivery_unknown"
  /\ \A p \in Passes : pc[p] = "failing" => todo[p] = {}
  /\ \A m \in Modes : control[<<0, m>>] # NoControl

PassSymmetry == Permutations(Passes) \cup Permutations(Ops)
=============================================================================
