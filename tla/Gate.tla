-------------------------------- MODULE Gate --------------------------------
(***************************************************************************)
(* The decision gate and the operation journal of the worker: how a tool   *)
(* call becomes at most one request to Gmail, and what the four tables it  *)
(* writes (pending_actions, operations, idempotency_keys,                  *)
(* staging_objects) say about that request afterwards.                     *)
(*                                                                         *)
(* Concurrency: every tool call and every execution of an approved action  *)
(* is one request to a Worker isolate.  A D1 batch is one transaction, so  *)
(* it is one action here; between two batches, or a batch and a Gmail      *)
(* request, anything may happen: another call, the owner's browser, the    *)
(* five-minute cron, or the end of the isolate (Crash).                    *)
(*                                                                         *)
(* An activity is a Call or a Runner (an execute_pending request, or the   *)
(* retried round that resumes an approved call).  An activity writes at    *)
(* most one operations row and a call at most one pending_actions row, so  *)
(* both rows are named by the activity that inserts them.                  *)
(***************************************************************************)
EXTENDS Naturals, FiniteSets

CONSTANTS
  Calls,     \* tool calls that reach the gate
  Runners,   \* requests that execute an approved pending action
  Keys,      \* idempotency keys of the owner's account
  Handles,   \* staged upload handles
  None,      \* SQL NULL
  ToolOf,    \* the tool each call names
  KeyOf,     \* its idempotency_key, or None
  IntentOf,  \* its intent_hash
  FilesOf    \* the handles its payload attaches

(***************************************************************************)
(* The executors, by how they open the operation and how they send.        *)
(*   send      send_message, reply, forward: recoverable (protocol 2)      *)
(*   send_draft send_draft: recoverable, but never reconciled on its own   *)
(*   draft     create_draft, update_draft, create_label: journaled, p. 1   *)
(*   label     label, spam and trash tools: journal: false, but an         *)
(*             operation that exists is opened; a safe request is retried  *)
(*   relabel   update_label, delete_label: journal: false, never opened    *)
(***************************************************************************)
Recoverable == {"send", "send_draft"}
OneShot     == Recoverable \cup {"draft"}    \* retry: "none"
Tools       == OneShot \cup {"label", "relabel"}

Activities == Calls \cup Runners

ASSUME GateAssumption ==
  /\ Calls \cap Runners = {}
  /\ None \notin Activities \cup Keys
  /\ ToolOf \in [Calls -> Tools]
  /\ KeyOf \in [Calls -> Keys \cup {None}]
  /\ FilesOf \in [Calls -> SUBSET Handles]
  /\ DOMAIN IntentOf = Calls
  \* only the send schemas take an idempotency_key
  /\ \A c \in Calls : KeyOf[c] # None => ToolOf[c] \in Recoverable
  \* intent_hash covers the tool and its arguments
  /\ \A c, d \in Calls : IntentOf[c] = IntentOf[d] => ToolOf[c] = ToolOf[d]

VARIABLES
  pending,   \* pending_actions.state of the row a call created ("none": no row)
  claim,     \* pending_actions.operation_id
  lapsed,    \* pending actions whose expires_at has passed
  binding,   \* idempotency_keys: the call whose pending or operation holds the key
  opState,   \* operations.state of the row an activity created
  opProto,   \* operations.settlement_protocol
  reserved,  \* staging_objects.reserved_by_operation_id
  spent,     \* the operation that set staging_objects.consumed_at
  wire,      \* what became of the activity's mutating request at Gmail
  pc,        \* where the activity is in its handler
  work,      \* the call whose payload the activity runs
  answer     \* what the activity told its client

rows == <<pending, claim, binding, opState, opProto, reserved, spent>>
vars == <<rows, lapsed, wire, pc, work, answer>>

\* "failed_unknown" is state = 'failed' with error = 'delivery_unknown'.
PendingStates == {"none", "pending", "approved", "executing", "executed",
                  "failed", "failed_unknown", "denied", "cancelled", "expired"}
OpStates   == {"none", "claimed", "executing", "delivery_unknown",
               "executed", "failed_safe"}
WireStates == {"unsent", "inflight", "committed", "refused"}
Steps == {"start", "planned", "asking", "allowing", "lost", "claiming",
          "claimed", "execute", "opened", "waiting", "succeeded", "failed",
          "failed4xx", "recording", "releasing", "unsure", "done", "crashed"}
Answers == {"none", "executed", "pending_approval", "delivery_unknown",
            "refused", "error"}

Init ==
  /\ pending = [c \in Calls |-> "none"]
  /\ claim = [c \in Calls |-> None]
  /\ lapsed = {}
  /\ binding = [k \in Keys |-> None]
  /\ opState = [a \in Activities |-> "none"]
  /\ opProto = [a \in Activities |-> 1]
  /\ reserved = [h \in Handles |-> None]
  /\ spent = [h \in Handles |-> None]
  /\ wire = [a \in Activities |-> "unsent"]
  /\ pc = [a \in Activities |-> "start"]
  /\ work = [a \in Activities |-> IF a \in Calls THEN a ELSE None]
  /\ answer = [a \in Activities |-> "none"]

Tool(a) == ToolOf[work[a]]

At(a, s)   == pc[a] = s
Goto(a, s) == pc' = [pc EXCEPT ![a] = s] /\ UNCHANGED answer
Reply(a, r) ==
  /\ pc' = [pc EXCEPT ![a] = "done"]
  /\ answer' = [answer EXCEPT ![a] = r]

(***************************************************************************)
(* Idempotency keys.                                                       *)
(***************************************************************************)

\* The operation a key row leads to: its own, or the one its pending claimed.
OperationOf(d) == IF pending[d] = "none" THEN d ELSE claim[d]

\* The call the key of c belongs to, or None.
HolderOf(c) == IF KeyOf[c] = None THEN None ELSE binding[KeyOf[c]]

\* Mutant of ReplayFor: any operation under the key counts as a delivery.
ReplayAnyOperation(c) ==
  LET d == HolderOf(c)
  IN IF d = None THEN "fresh"
     ELSE IF IntentOf[c] # IntentOf[d] THEN "refused"
     ELSE IF OperationOf(d) # None THEN "executed"
     ELSE IF pending[d] \in {"pending", "approved"} THEN "pending_approval"
     ELSE "fresh"

\* The answer a known key already has, or "fresh".
ReplayFor(c) ==
  LET d == HolderOf(c)
      o == OperationOf(d)
  IN IF d = None THEN "fresh"
     ELSE IF IntentOf[c] # IntentOf[d] THEN "refused"
     ELSE IF o # None /\ opState[o] = "failed_safe" THEN "fresh"
     ELSE IF o # None
          THEN IF opState[o] = "executed" THEN "executed" ELSE "delivery_unknown"
     ELSE IF pending[d] \in {"pending", "approved"} THEN "pending_approval"
     ELSE "fresh"

\* The upsert's WHERE: the holder is retired, and the protocol-2 key trigger
\* does not refuse the update.
Retired(d) ==
  IF pending[d] = "none"
  THEN opState[d] = "failed_safe"
  ELSE \/ pending[d] \in {"denied", "cancelled", "expired", "failed", "failed_unknown"}
       \/ /\ pending[d] \in {"executing", "executed"}
          /\ opState[claim[d]] = "failed_safe"

KeyTriggerRefuses(d) ==
  OperationOf(d) # None /\ opProto[OperationOf(d)] = 2

\* Mutant of CanBind: no protocol-2 key trigger.
BindWithoutTrigger(c) ==
  LET d == HolderOf(c)
  IN d # None => IntentOf[c] = IntentOf[d] /\ Retired(d)

CanBind(c) ==
  LET d == HolderOf(c)
  IN d # None => IntentOf[c] = IntentOf[d] /\ Retired(d) /\ ~KeyTriggerRefuses(d)

Bind(c) ==
  binding' = [k \in Keys |-> IF k = KeyOf[c] THEN c ELSE binding[k]]

(***************************************************************************)
(* Staging handles, as the journal sees them: reserved all or nothing,     *)
(* consumed or released with the operation's outcome.                      *)
(***************************************************************************)
\* Mutant of CanReserve: a reserved handle that is not consumed is available.
ReserveUnspent(c) == \A h \in FilesOf[c] : spent[h] = None

CanReserve(c) ==
  \A h \in FilesOf[c] : reserved[h] = None /\ spent[h] = None

Reserve(o, c) ==
  reserved' = [h \in Handles |-> IF h \in FilesOf[c] THEN o ELSE reserved[h]]

Release(o) ==
  reserved' = [h \in Handles |-> IF reserved[h] = o THEN None ELSE reserved[h]]

Consume(o) ==
  /\ spent' = [h \in Handles |-> IF reserved[h] = o THEN o ELSE spent[h]]
  /\ Release(o)

FinishPending(o, from, to) ==
  pending' = [p \in Calls |->
                IF claim[p] = o /\ pending[p] \in from THEN to ELSE pending[p]]

(***************************************************************************)
(* Settlement batches.  Each is one transaction; a failed assertion leaves *)
(* every row alone.                                                        *)
(***************************************************************************)

\* settleExecuted, protocol 1: the operation must still be executing and the
\* linked pending row must end executed.
CanSettleExecuted(o) ==
  /\ opProto[o] = 1
  /\ opState[o] = "executing"
  /\ \A p \in Calls : claim[p] = o => pending[p] = "executing"

SettleExecuted(o) ==
  /\ opState' = [opState EXCEPT ![o] = "executed"]
  /\ Consume(o)
  /\ FinishPending(o, {"executing"}, "executed")
  /\ UNCHANGED <<claim, binding, opProto>>

\* settleFailedSafe: claimed or executing becomes failed_safe, an operation
\* already failed_safe is left so, and anything else fails the assertion.
\* The protocol-2 trigger refuses the update without a permit.
CanSettleFailedSafe(o) ==
  /\ opState[o] \in {"claimed", "executing", "failed_safe"}
  /\ opProto[o] = 1

SettleFailedSafe(o) ==
  /\ opState' = [opState EXCEPT ![o] = "failed_safe"]
  /\ Release(o)
  /\ FinishPending(o, {"executing"}, "failed")
  /\ UNCHANGED <<claim, binding, opProto, spent>>

\* settleUnknown: the operation stays executing for the cron.
SettleUnknown(o) ==
  /\ FinishPending(o, {"executing"}, "failed_unknown")
  /\ UNCHANGED <<claim, binding, opState, opProto, reserved, spent>>

\* settlePositive, protocol 2: direct receipt or recovery proof.
CanSettlePositive(o) ==
  opProto[o] = 2 /\ opState[o] \in {"executing", "delivery_unknown"}

SettlePositive(o) ==
  /\ opState' = [opState EXCEPT ![o] = "executed"]
  /\ Consume(o)
  /\ FinishPending(o, {"executing", "failed_unknown"}, "executed")
  /\ UNCHANGED <<claim, binding, opProto>>

\* Mutant of RecordFailure: a failure after the bytes left counts as safe.
RecordAsSafe(o) ==
  /\ opState' = [opState EXCEPT ![o] = "failed_safe"]
  /\ Release(o)
  /\ FinishPending(o, {"executing"}, "failed")
  /\ UNCHANGED <<claim, binding, opProto, spent>>

\* recordFailure, protocol 2.  byte_admitted is 1 on every such row, so the
\* failed_safe branch of the code is never the one taken.
CanRecordFailure(o) == opProto[o] = 2 /\ opState[o] = "executing"

RecordFailure(o) ==
  /\ opState' = [opState EXCEPT ![o] = "delivery_unknown"]
  /\ FinishPending(o, {"executing"}, "failed_unknown")
  /\ UNCHANGED <<claim, binding, opProto, reserved, spent>>

-----------------------------------------------------------------------------
(***************************************************************************)
(* A tool call up to its batch.                                            *)
(***************************************************************************)

\* replayIfKnown: asked before planning and again inside the gate; a read.
Lookup(c) ==
  /\ At(c, "start")
  /\ IF ReplayFor(c) = "fresh" THEN Goto(c, "planned") ELSE Reply(c, ReplayFor(c))
  /\ UNCHANGED <<rows, lapsed, wire, work>>

\* decide: the owner may edit the policy at any time, so any level is possible.
Decide(c) ==
  /\ At(c, "planned")
  /\ \/ Reply(c, "refused")      \* deny
     \/ Goto(c, "asking")        \* ask
     \/ Goto(c, "allowing")      \* allow
  /\ UNCHANGED <<rows, lapsed, wire, work>>

\* The ask batch: pending row and key together, or neither.
Ask(c) ==
  /\ At(c, "asking")
  /\ \/ /\ CanBind(c)
        /\ pending' = [pending EXCEPT ![c] = "pending"]
        /\ Bind(c)
        /\ Reply(c, "pending_approval")
        /\ UNCHANGED <<claim, opState, opProto, reserved, spent>>
     \/ /\ ~CanBind(c)
        /\ Goto(c, "lost")
        /\ UNCHANGED rows
  /\ UNCHANGED <<lapsed, wire, work>>

\* The allow batch: operation (when the tool journals or attaches files), key
\* and reservation together, or none of them.
Journals(c) == ToolOf[c] \in OneShot \/ FilesOf[c] # {}

Allow(c) ==
  /\ At(c, "allowing")
  /\ \/ /\ CanBind(c) /\ CanReserve(c)
        /\ opState' = IF Journals(c) THEN [opState EXCEPT ![c] = "claimed"] ELSE opState
        /\ Bind(c)
        /\ Reserve(c, c)
        /\ Goto(c, "execute")
        /\ UNCHANGED <<pending, claim, opProto, spent>>
     \/ /\ ~(CanBind(c) /\ CanReserve(c))
        /\ Goto(c, "lost")
        /\ UNCHANGED rows
  /\ UNCHANGED <<lapsed, wire, work>>

\* lostRace: the key is read again; a fresh answer means the batch failed for
\* another reason (handle_reserved, internal).
LostRace(c) ==
  /\ At(c, "lost")
  /\ Reply(c, IF ReplayFor(c) = "fresh" THEN "refused" ELSE ReplayFor(c))
  /\ UNCHANGED <<rows, lapsed, wire, work>>

-----------------------------------------------------------------------------
(***************************************************************************)
(* The owner, and the clock, on a pending action.                          *)
(***************************************************************************)
Live(p) == p \notin lapsed

OwnerSets(p, from, to) ==
  /\ pending[p] \in from
  /\ Live(p)
  /\ pending' = [pending EXCEPT ![p] = to]
  /\ UNCHANGED <<claim, binding, opState, opProto, reserved, spent>>
  /\ UNCHANGED <<lapsed, wire, pc, work, answer>>

Approve(p) == OwnerSets(p, {"pending"}, "approved")
Deny(p)    == OwnerSets(p, {"pending"}, "denied")

Cancel(p)  == OwnerSets(p, {"pending", "approved"}, "cancelled")

\* Only a pending or approved row is ever compared with its expires_at.
Lapse(p) ==
  /\ pending[p] \in {"pending", "approved"}
  /\ Live(p)
  /\ lapsed' = lapsed \cup {p}
  /\ UNCHANGED <<rows, wire, pc, work, answer>>

-----------------------------------------------------------------------------
(***************************************************************************)
(* Executing an approved action.                                           *)
(***************************************************************************)

\* executePending and claimPending read the row: only an approved, unexpired
\* one goes further.
PickApproved(r, p) ==
  /\ At(r, "start")
  /\ pending[p] = "approved" /\ Live(p)
  /\ work' = [work EXCEPT ![r] = p]
  /\ Goto(r, "claiming")
  /\ UNCHANGED <<rows, lapsed, wire>>

\* Mutant of Claim: the state read by executePending is trusted.
ClaimUnchecked(r) ==
  LET p == work[r] IN
  /\ At(r, "claiming")
  /\ CanReserve(p)
  /\ opState' = [opState EXCEPT ![r] = "claimed"]
  /\ pending' = [pending EXCEPT ![p] = "executing"]
  /\ claim' = [claim EXCEPT ![p] = r]
  /\ Reserve(r, p)
  /\ Goto(r, "claimed")
  /\ UNCHANGED <<binding, opProto, spent, lapsed, wire, work>>

\* The claim batch: operation, pending row and reservation together.
Claim(r) ==
  LET p == work[r] IN
  /\ At(r, "claiming")
  /\ \/ /\ pending[p] = "approved" /\ Live(p) /\ CanReserve(p)
        /\ opState' = [opState EXCEPT ![r] = "claimed"]
        /\ pending' = [pending EXCEPT ![p] = "executing"]
        /\ claim' = [claim EXCEPT ![p] = r]
        /\ Reserve(r, p)
        /\ Goto(r, "claimed")
        /\ UNCHANGED <<binding, opProto, spent>>
     \/ /\ ~(pending[p] = "approved" /\ Live(p) /\ CanReserve(p))
        /\ Reply(r, "refused")
        /\ UNCHANGED rows
  /\ UNCHANGED <<lapsed, wire, work>>

\* After the claim the policy and the executor version are read again: refuse
\* settles failed_safe, anything else runs the executor.
Recheck(r) ==
  /\ At(r, "claimed")
  /\ \/ /\ CanSettleFailedSafe(r)
        /\ SettleFailedSafe(r)
        /\ Reply(r, "refused")
     \/ Goto(r, "execute") /\ UNCHANGED rows
  /\ UNCHANGED <<lapsed, wire, work>>

-----------------------------------------------------------------------------
(***************************************************************************)
(* The executor: open the operation, send one mutating request.            *)
(***************************************************************************)

\* Anything thrown before the operation is opened: compose, account, session,
\* recovery capacity.
FailEarly(a) ==
  /\ At(a, "execute")
  /\ Goto(a, "failed")
  /\ UNCHANGED <<rows, lapsed, wire, work>>

\* beginRecoverableOperation: claimed, protocol 1 and the pending row executing
\* become executing, protocol 2, byte_admitted in one batch.
CanBeginRecoverable(a) ==
  /\ opState[a] = "claimed" /\ opProto[a] = 1
  /\ (a \in Runners => pending[work[a]] = "executing" /\ claim[work[a]] = a)

OpenRecoverable(a) ==
  /\ At(a, "execute")
  /\ Tool(a) \in Recoverable
  /\ \/ /\ CanBeginRecoverable(a)
        /\ opState' = [opState EXCEPT ![a] = "executing"]
        /\ opProto' = [opProto EXCEPT ![a] = 2]
        /\ Goto(a, "opened")
     \/ /\ ~CanBeginRecoverable(a)
        /\ Goto(a, "failed")
        /\ UNCHANGED <<opState, opProto>>
  /\ UNCHANGED <<pending, claim, binding, reserved, spent>>
  /\ UNCHANGED <<lapsed, wire, work>>

\* beginOperation: claimed becomes executing, or the executor throws.
OpenJournaled(a) ==
  /\ At(a, "execute")
  /\ \/ Tool(a) = "draft"
     \/ Tool(a) = "label" /\ opState[a] # "none"
  /\ \/ /\ opState[a] = "claimed"
        /\ opState' = [opState EXCEPT ![a] = "executing"]
        /\ Goto(a, "opened")
     \/ /\ opState[a] # "claimed"
        /\ Goto(a, "failed")
        /\ UNCHANGED opState
  /\ UNCHANGED <<pending, claim, binding, opProto, reserved, spent>>
  /\ UNCHANGED <<lapsed, wire, work>>

\* No operation to open, or an executor that never opens one.
OpenNothing(a) ==
  /\ At(a, "execute")
  /\ \/ Tool(a) = "label" /\ opState[a] = "none"
     \/ Tool(a) = "relabel"
  /\ Goto(a, "opened")
  /\ UNCHANGED <<rows, lapsed, wire, work>>

\* The token and the installation are checked before the bytes leave.
Send(a) ==
  /\ At(a, "opened")
  /\ \/ Goto(a, "failed") /\ UNCHANGED wire
     \/ /\ Goto(a, "waiting")
        /\ wire' = [wire EXCEPT ![a] = "inflight"]
  /\ UNCHANGED <<rows, lapsed, work>>

\* Gmail's side of the request; it does not wait for the caller.
GmailCommits(a) ==
  /\ wire[a] = "inflight"
  /\ wire' = [wire EXCEPT ![a] = "committed"]
  /\ UNCHANGED <<rows, lapsed, pc, work, answer>>

GmailRefuses(a) ==
  /\ wire[a] = "inflight"
  /\ wire' = [wire EXCEPT ![a] = "refused"]
  /\ UNCHANGED <<rows, lapsed, pc, work, answer>>

\* A response.  A 4xx answers a one-shot request Gmail refused; a request that
\* is retried after a 5xx may end in a 4xx whatever the first attempt did.
Respond(a) ==
  /\ At(a, "waiting")
  /\ \/ wire[a] = "committed" /\ Goto(a, "succeeded")
     \/ /\ wire[a] = "refused" \/ Tool(a) \notin OneShot
        /\ Goto(a, "failed4xx")
     \/ Goto(a, "failed")        \* 5xx, timeout, unreadable receipt
  /\ UNCHANGED <<rows, lapsed, wire, work>>

-----------------------------------------------------------------------------
(***************************************************************************)
(* runExecutor's catch and settlement.                                     *)
(***************************************************************************)

\* D1 fails a read or refuses a batch, and the error goes to the client as it is.
InternalError(a) == Reply(a, "error") /\ UNCHANGED rows

\* The catch reads the operation row; what it read decides the batch.
Catch(a) ==
  /\ pc[a] \in {"failed", "failed4xx"}
  /\ \/ IF opProto[a] = 2 THEN Goto(a, "recording")
        ELSE IF opState[a] = "executing" /\ At(a, "failed") THEN Goto(a, "unsure")
        ELSE Goto(a, "releasing")
     \/ Reply(a, "error")
  /\ UNCHANGED <<rows, lapsed, wire, work>>

\* recordFailure, then the winner's answer; an unreadable receipt is never
\* answered with it.  The batch may be refused, or be performed and the read
\* after it fail: recordFailure or operationFor then throws.
Record(a) ==
  /\ At(a, "recording")
  /\ \/ /\ IF CanRecordFailure(a) THEN RecordFailure(a) ELSE UNCHANGED rows
        /\ \/ opState[a] = "executed" /\ Reply(a, "executed")
           \/ Reply(a, "delivery_unknown")
           \/ Reply(a, "error")
     \/ InternalError(a)
  /\ UNCHANGED <<lapsed, wire, work>>

\* settleFailedSafe; a refused batch throws, and either way the client sees
\* an error.
ReleaseSafe(a) ==
  /\ At(a, "releasing")
  /\ \/ /\ opState[a] # "none" /\ CanSettleFailedSafe(a)
        /\ SettleFailedSafe(a)
        /\ Reply(a, "error")
     \/ InternalError(a)
  /\ UNCHANGED <<lapsed, wire, work>>

ReportUnknown(a) ==
  /\ At(a, "unsure")
  /\ \/ /\ SettleUnknown(a)
        /\ Reply(a, "delivery_unknown") \/ Reply(a, "error")
     \/ InternalError(a)
  /\ UNCHANGED <<lapsed, wire, work>>

\* After a Gmail success: settle, or answer executed with
\* local_settlement_failed; an operation nobody opened is settled failed_safe.
\* The read of the row before the settlement, and the one after a protocol-1
\* batch that failed, are outside every try: the client of a message that was
\* delivered then sees an internal error.
Settle(a) ==
  /\ At(a, "succeeded")
  /\ \/ /\ CanSettlePositive(a)
        /\ SettlePositive(a)
        /\ Reply(a, "executed")
     \/ /\ CanSettleExecuted(a)
        /\ SettleExecuted(a)
        /\ Reply(a, "executed") \/ Reply(a, "error")
     \/ /\ opState[a] = "claimed"
        /\ Goto(a, "releasing")
        /\ UNCHANGED rows
     \/ /\ opState[a] # "claimed"      \* nothing to settle, or D1 failed
        /\ Reply(a, "executed")
        /\ UNCHANGED rows
     \/ InternalError(a)
  /\ UNCHANGED <<lapsed, wire, work>>

\* The isolate ends; nothing restarts the request.
Crash(a) ==
  /\ pc[a] \notin {"start", "done", "crashed"}
  /\ Goto(a, "crashed")
  /\ UNCHANGED <<rows, lapsed, wire, work>>

-----------------------------------------------------------------------------
(***************************************************************************)
(* The five-minute cron.  Staleness is two minutes without an update; a    *)
(* request that is still running may be slower than that, so any row may   *)
(* be stale.                                                               *)
(***************************************************************************)
ExpirePending(p) ==
  /\ pending[p] \in {"pending", "approved"}
  /\ p \in lapsed
  /\ pending' = [pending EXCEPT ![p] = "expired"]
  /\ UNCHANGED <<claim, binding, opState, opProto, reserved, spent>>
  /\ UNCHANGED <<lapsed, wire, pc, work, answer>>

\* Mutant of Promote: only an operation that no pending action claimed.
PromoteUnclaimed(o) ==
  /\ opProto[o] = 1 /\ opState[o] = "executing" /\ o \in Calls
  /\ opState' = [opState EXCEPT ![o] = "delivery_unknown"]
  /\ UNCHANGED <<pending, claim, binding, opProto, reserved, spent>>
  /\ UNCHANGED <<lapsed, wire, pc, work, answer>>

Promote(o) ==
  /\ opProto[o] = 1 /\ opState[o] = "executing"
  /\ opState' = [opState EXCEPT ![o] = "delivery_unknown"]
  /\ UNCHANGED <<pending, claim, binding, opProto, reserved, spent>>
  /\ UNCHANGED <<lapsed, wire, pc, work, answer>>

RecoverClaimed(o) ==
  /\ opProto[o] = 1 /\ opState[o] = "claimed"
  /\ SettleFailedSafe(o)
  /\ UNCHANGED <<lapsed, wire, pc, work, answer>>

\* recoverDeliveries: a stale protocol-2 operation is recorded unknown.
RecordStale(o) ==
  /\ CanRecordFailure(o)
  /\ RecordFailure(o)
  /\ UNCHANGED <<lapsed, wire, pc, work, answer>>

\* Mutant of Reconcile: no evidence is asked for.
ReconcileUnproven(o) ==
  /\ CanSettlePositive(o)
  /\ Tool(o) = "send"
  /\ SettlePositive(o)
  /\ UNCHANGED <<lapsed, wire, pc, work, answer>>

\* recoverDeliveries: positive evidence found at Gmail settles the operation.
\* A send_draft is manual and never searched.
Reconcile(o) ==
  /\ CanSettlePositive(o)
  /\ Tool(o) = "send"
  /\ wire[o] = "committed"
  /\ SettlePositive(o)
  /\ UNCHANGED <<lapsed, wire, pc, work, answer>>

-----------------------------------------------------------------------------
CallStep(c) == Lookup(c) \/ Decide(c) \/ Ask(c) \/ Allow(c) \/ LostRace(c)

RunnerStep(r) == (\E p \in Calls : PickApproved(r, p)) \/ Claim(r) \/ Recheck(r)

ExecutorStep(a) ==
  \/ FailEarly(a) \/ OpenRecoverable(a) \/ OpenJournaled(a) \/ OpenNothing(a)
  \/ Send(a) \/ Respond(a) \/ Catch(a)
  \/ Record(a) \/ ReleaseSafe(a) \/ ReportUnknown(a) \/ Settle(a)

OwnerStep(p) == Approve(p) \/ Deny(p) \/ Cancel(p) \/ Lapse(p)

CronStep(o) == Promote(o) \/ RecoverClaimed(o) \/ RecordStale(o)

Next ==
  \/ \E c \in Calls : CallStep(c) \/ OwnerStep(c) \/ ExpirePending(c)
  \/ \E r \in Runners : RunnerStep(r)
  \/ \E a \in Activities :
       \/ ExecutorStep(a) \/ Crash(a) \/ CronStep(a) \/ Reconcile(a)
       \/ GmailCommits(a) \/ GmailRefuses(a)

\* The cron runs every five minutes; an isolate runs a request to its end or
\* is stopped.  Neither the owner nor Gmail owes the worker anything.
Fairness ==
  /\ \A a \in Activities :
       WF_vars(CronStep(a)) /\ WF_vars(ExecutorStep(a) \/ Crash(a))
  /\ \A r \in Runners : WF_vars(Recheck(r))
  /\ \A c \in Calls : WF_vars(ExpirePending(c))

Spec == Init /\ [][Next]_vars
FairSpec == Spec /\ Fairness

-----------------------------------------------------------------------------
(***************************************************************************)
(* Properties.                                                             *)
(***************************************************************************)
TypeOK ==
  /\ pending \in [Calls -> PendingStates]
  /\ claim \in [Calls -> Runners \cup {None}]
  /\ lapsed \subseteq Calls
  /\ binding \in [Keys -> Calls \cup {None}]
  /\ opState \in [Activities -> OpStates]
  /\ opProto \in [Activities -> {1, 2}]
  /\ reserved \in [Handles -> Activities \cup {None}]
  /\ spent \in [Handles -> Activities \cup {None}]
  /\ wire \in [Activities -> WireStates]
  /\ pc \in [Activities -> Steps]
  /\ work \in [Activities -> Calls \cup {None}]
  /\ answer \in [Activities -> Answers]

Sent(a)    == wire[a] # "unsent"
MayHave(a) == wire[a] \in {"inflight", "committed"}   \* Gmail may have it

\* One idempotency key stands for at most one request that ever left for
\* Gmail, however calls, approvals, crashes and the cron interleave.
AtMostOnePerKey ==
  \A a, b \in Activities :
    Sent(a) /\ Sent(b) /\ KeyOf[work[a]] # None /\ KeyOf[work[a]] = KeyOf[work[b]]
      => a = b

\* One approval covers one action: two executions of one pending action never
\* both reach Gmail.
OnePerApproval ==
  \A a, b \in Runners : Sent(a) /\ Sent(b) /\ work[a] = work[b] => a = b

\* failed_safe means Gmail provably did nothing, for every executor that sends
\* once, including a worker that wakes after the cron gave its row up.
FailedSafeIsSafe ==
  \A a \in Activities :
    opState[a] = "failed_safe" /\ Tool(a) \in OneShot => ~MayHave(a)

\* The journal and the pending row say executed only of a delivered message.
ExecutedIsDelivered ==
  /\ \A a \in Activities : opState[a] = "executed" => wire[a] = "committed"
  /\ \A p \in Calls : pending[p] = "executed" =>
       claim[p] # None /\ wire[claim[p]] = "committed"

\* A staged file is attached to at most one request Gmail may have: a failure
\* that leaves delivery open never returns the file to the pool.
OneDeliveryPerFile ==
  \A h \in Handles : \A a, b \in Activities :
    /\ opState[a] # "none" /\ h \in FilesOf[work[a]] /\ MayHave(a)
    /\ opState[b] # "none" /\ h \in FilesOf[work[b]] /\ MayHave(b)
    /\ Tool(a) \in OneShot /\ Tool(b) \in OneShot
    => a = b

\* Reservations follow the operation: held while it is live or unknown,
\* consumed exactly when it is executed, free otherwise.
ReservationFollowsOperation ==
  \A a \in Activities :
    opState[a] # "none" =>
      \A h \in FilesOf[work[a]] :
        /\ reserved[h] = a <=> opState[a] \in {"claimed", "executing", "delivery_unknown"}
        /\ spent[h] = a <=> opState[a] = "executed"

\* An action that was denied, withdrawn or left to expire has no operation,
\* so nothing it asked for ever ran.
WithdrawnNeverRuns ==
  \A p \in Calls : pending[p] \in {"denied", "cancelled", "expired"} =>
    \A r \in Runners : work[r] = p => opState[r] = "none" /\ ~Sent(r)

\* Not knowing is safe to repeat: an operation that may have left stays on
\* record as such, and under its key the same request is answered from it.
StaysOnRecord(a) ==
  /\ opState[a] \in {"executing", "delivery_unknown", "executed"}
  /\ KeyOf[work[a]] # None => ReplayFor(work[a]) \in {"executed", "delivery_unknown"}

\* What the client of a recoverable send is told: a refusal means nothing was
\* sent for this activity, "executed" that some activity with the same payload
\* or key was delivered.  An error may hide a delivery, as D1 can fail after
\* Gmail accepted; but then, as after delivery_unknown, whoever repeats the
\* request under its key is answered from this operation and sends nothing.
AnswerIsTruthful ==
  \A a \in Activities : work[a] # None /\ Tool(a) \in Recoverable =>
    /\ answer[a] = "refused" => ~Sent(a)
    /\ answer[a] = "executed" =>
         \E b \in Activities :
           /\ wire[b] = "committed"
           /\ \/ a = b
              \/ KeyOf[work[a]] # None /\ KeyOf[work[b]] = KeyOf[work[a]]
    /\ answer[a] \in {"error", "delivery_unknown"} /\ Sent(a) => StaysOnRecord(a)

\* No mutating request leaves while an operation row is still claimed.
NoMutationWhileClaimed ==
  \A a \in Activities : opState[a] = "claimed" => ~Sent(a)

\* Outcomes are final: executed and failed_safe never change, and unknown
\* delivery changes only to executed, under protocol 2.
OutcomesAreFinal ==
  [][\A a \in Activities :
       /\ opState[a] \in {"executed", "failed_safe"} => opState'[a] = opState[a]
       /\ opState[a] = "delivery_unknown" =>
            \/ opState'[a] = "delivery_unknown"
            \/ opState'[a] = "executed" /\ opProto[a] = 2
       /\ opProto[a] = 2 => opProto'[a] = 2]_vars

\* The requests of Delivery: sends that have an operation. Two calls with one
\* idempotency key, and all executions of one call, stand for one message.
Tracked(a) == opState[a] # "none" /\ Tool(a) \in Recoverable

SameMessage ==
  {pair \in Calls \X Calls :
     pair[1] = pair[2] \/ (KeyOf[pair[1]] # None /\ KeyOf[pair[1]] = KeyOf[pair[2]])}

Said == [s \in OpStates |->
           IF s \in {"claimed", "executing"} THEN "open"
           ELSE IF s = "delivery_unknown" THEN "unknown" ELSE s]

AttemptOf(a) ==
  IF Tracked(a)
  THEN [for |-> work[a], said |-> Said[opState[a]], gmail |-> wire[a]]
  ELSE [for |-> None, said |-> "none", gmail |-> "unsent"]

Promise == INSTANCE Delivery WITH
  Attempts <- Activities, Requests <- Calls, Alike <- SameMessage,
  attempt <- [a \in Activities |-> AttemptOf(a)]

\* The gate, the journal, the cron and the recovery together do what Delivery
\* promises of every recoverable send: a message is attempted again only when
\* every earlier attempt sent nothing, whoever settled it.
DeliversAsPromised == Promise!Spec

\* Every operation leaves claimed and executing, whatever became of the
\* worker that opened it.
OperationsSettle ==
  \A a \in Activities :
    opState[a] \in {"claimed", "executing"}
      ~> opState[a] \in {"executed", "failed_safe", "delivery_unknown"}

\* A pending action of a recoverable tool whose execution started is finished,
\* with its payload purged, even when the delivery stays unknown: the cron
\* records the pending row in the batch that records the operation.
RecoverableActionsFinish ==
  \A p \in Calls :
    pending[p] = "executing" /\ ToolOf[p] \in Recoverable
      ~> pending[p] \in {"executed", "failed", "failed_unknown"}

\* Nothing that was begun is left open, whatever became of its worker.
NothingStaysOpen == OperationsSettle /\ RecoverableActionsFinish
=============================================================================
