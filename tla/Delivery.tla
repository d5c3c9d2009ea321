------------------------------ MODULE Delivery ------------------------------
(***************************************************************************)
(* What the worker promises about a send: a request is attempted again     *)
(* only after every earlier attempt provably sent nothing, so it reaches   *)
(* Gmail at most once; and what the journal says of an attempt is what     *)
(* became of it, or that nobody knows.                                     *)
(*                                                                         *)
(* Nothing is said here of approvals, keys, claims, crashes or the cron:   *)
(* Gate has all of that, and implements this.                              *)
(***************************************************************************)
CONSTANTS
  Attempts,   \* what may send
  Requests,   \* what may be asked for
  Alike,      \* the pairs of requests that stand for one message
  None

VARIABLE attempt   \* what an attempt is for, what is said of it, what Gmail did

Init == attempt = [a \in Attempts |-> [for |-> None, said |-> "none", gmail |-> "unsent"]]

\* An attempt that may still be, or be found to be, the delivery.
Standing(a) == attempt[a].said \in {"open", "unknown", "executed"}

\* From now on a is for c, is said to be s, and is g at Gmail.
Becomes(a, c, s, g) ==
  attempt' = [attempt EXCEPT ![a] = [for |-> c, said |-> s, gmail |-> g]]

\* No attempt for a request alike is standing.
Begin(a) ==
  /\ attempt[a].said = "none"
  /\ \E c \in Requests :
       /\ \A b \in Attempts : Standing(b) => <<attempt[b].for, c>> \notin Alike
       /\ Becomes(a, c, "open", "unsent")

\* The one request of an attempt leaves; its worker may be believed dead.
Send(a) ==
  /\ attempt[a].said \in {"open", "unknown"}
  /\ attempt[a].gmail = "unsent"
  /\ Becomes(a, attempt[a].for, attempt[a].said, "inflight")

Receive(a) ==
  /\ attempt[a].gmail = "inflight"
  /\ \E fate \in {"committed", "refused"} :
       Becomes(a, attempt[a].for, attempt[a].said, fate)

\* Only an attempt that sent nothing is given up.
GiveUp(a) ==
  /\ attempt[a].said = "open"
  /\ attempt[a].gmail = "unsent"
  /\ Becomes(a, attempt[a].for, "failed_safe", "unsent")

Doubt(a) ==
  /\ attempt[a].said = "open"
  /\ Becomes(a, attempt[a].for, "unknown", attempt[a].gmail)

\* A receipt, or evidence found later.
Confirm(a) ==
  /\ attempt[a].said \in {"open", "unknown"}
  /\ attempt[a].gmail = "committed"
  /\ Becomes(a, attempt[a].for, "executed", "committed")

\* Nothing is owed: an attempt may be left as it is.
Wait == UNCHANGED attempt

Next ==
  \/ Wait
  \/ \E a \in Attempts :
       Begin(a) \/ Send(a) \/ Receive(a) \/ GiveUp(a) \/ Doubt(a) \/ Confirm(a)

Spec == Init /\ [][Next]_attempt
=============================================================================
