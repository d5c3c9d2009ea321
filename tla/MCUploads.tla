------------------------------ MODULE MCUploads ------------------------------
(***************************************************************************)
(* Small instances of Uploads: e1 ensures, e2 retries generation 1.        *)
(***************************************************************************)
EXTENDS Uploads, TLC

CONSTANTS e1, e2

FirstAndRetry == [e \in Requests |-> IF e = e2 THEN 1 ELSE 0]
EnsureOnly    == [e \in Requests |-> 0]

\* The account is revoked and reconnected in the policy run, not in the race.
StaysConnected == connected

WriterSymmetry == Permutations(Writers)
=============================================================================
