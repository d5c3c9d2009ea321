-------------------------------- MODULE Shelf --------------------------------
(***************************************************************************)
(* What Staging promises to those who use a file: it is offered once; it   *)
(* is taken only while it is offered and not used up; it is removed only   *)
(* when nobody holds it or reads it, and never comes back.                 *)
(*                                                                         *)
(* Nothing is said here of rows, leases, the bucket, crashes or the cron.  *)
(***************************************************************************)
CONSTANTS Files, Readers

VARIABLES
  stage,    \* of a file: awaited, offered or gone
  spent,    \* it is used up: consumed or acknowledged
  held,     \* an operation has it
  readers   \* the streams that may read it

vars == <<stage, spent, held, readers>>

Init ==
  /\ stage = [h \in Files |-> "awaited"]
  /\ spent = [h \in Files |-> FALSE]
  /\ held = [h \in Files |-> FALSE]
  /\ readers = [h \in Files |-> {}]

\* Its one writer publishes it, or will not any more.
Offer(h) ==
  /\ stage[h] = "awaited" /\ stage' = [stage EXCEPT ![h] = "offered"]
  /\ UNCHANGED <<spent, held, readers>>

Miss(h) ==
  /\ stage[h] = "awaited" /\ stage' = [stage EXCEPT ![h] = "gone"]
  /\ UNCHANGED <<spent, held, readers>>

Takeable(h) == stage[h] = "offered" /\ ~spent[h]

Read(h, r) ==
  /\ Takeable(h) /\ readers' = [readers EXCEPT ![h] = readers[h] \cup {r}]
  /\ UNCHANGED <<stage, spent, held>>

Hold(h) ==
  /\ Takeable(h) /\ ~held[h] /\ held' = [held EXCEPT ![h] = TRUE]
  /\ UNCHANGED <<stage, spent, readers>>

\* The operation is over: it has used the file, or gives it back.
Settle(h) ==
  /\ held[h] /\ held' = [held EXCEPT ![h] = FALSE]
  /\ \E used \in BOOLEAN : spent' = [spent EXCEPT ![h] = used]
  /\ UNCHANGED <<stage, readers>>

\* It is acknowledged.
Spend(h) ==
  /\ Takeable(h) /\ ~held[h] /\ spent' = [spent EXCEPT ![h] = TRUE]
  /\ UNCHANGED <<stage, held, readers>>

\* Readers finish, or their time is over: any of them at once.
Leave ==
  /\ readers' \in [Files -> SUBSET Readers]
  /\ \A h \in Files : readers'[h] \subseteq readers[h]
  /\ UNCHANGED <<stage, spent, held>>

Remove(h) ==
  /\ stage[h] = "offered" /\ ~held[h] /\ readers[h] = {}
  /\ stage' = [stage EXCEPT ![h] = "gone"] /\ spent' = [spent EXCEPT ![h] = FALSE]
  /\ UNCHANGED <<held, readers>>

Next ==
  \/ Leave
  \/ \E h \in Files :
       \/ Offer(h) \/ Miss(h) \/ Hold(h) \/ Settle(h) \/ Spend(h) \/ Remove(h)
       \/ \E r \in Readers : Read(h, r)

Spec == Init /\ [][Next]_vars
=============================================================================
