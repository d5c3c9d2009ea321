------------------------------- MODULE MCGate -------------------------------
(***************************************************************************)
(* Small instances of Gate.                                                *)
(*                                                                         *)
(* Retry: c1 and c2 are one request sent twice under one key, as a client  *)
(* that retries does; c3 changes a label.                                  *)
(* Share: a stored draft is sent and another draft is written, both with   *)
(* the same staged file.                                                   *)
(***************************************************************************)
EXTENDS Gate, TLC

CONSTANTS c1, c2, c3

RetryTool   == [c \in Calls |-> IF c = c3 THEN "label" ELSE "send"]
RetryKey    == [c \in Calls |-> IF c = c3 THEN None ELSE CHOOSE k \in Keys : TRUE]
RetryIntent == RetryTool
RetryFiles  == [c \in Calls |-> {}]
RetrySymmetry == Permutations(Calls \ {c3}) \cup Permutations(Runners)

ShareTool   == [c \in Calls |-> IF c = c1 THEN "send_draft" ELSE "draft"]
ShareKey    == [c \in Calls |-> IF c = c1 THEN CHOOSE k \in Keys : TRUE ELSE None]
ShareIntent == ShareTool
ShareFiles  == [c \in Calls |-> Handles]
=============================================================================
