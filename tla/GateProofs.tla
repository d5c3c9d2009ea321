----------------------------- MODULE GateProofs -----------------------------
(***************************************************************************)
(* Proofs about Gate, for every set of calls, runners, keys and handles    *)
(* and every assignment of tools, keys, intents and files to the calls.    *)
(***************************************************************************)
EXTENDS Gate, TLAPS

-----------------------------------------------------------------------------
(***************************************************************************)
(* Types.                                                                  *)
(***************************************************************************)

\* Every settlement batch writes states its tables allow (settle.ts,
\* recovery-state.ts).
LEMMA SettlementTypes ==
  ASSUME TypeOK, NEW o \in Activities,
         \/ SettleExecuted(o) \/ SettleFailedSafe(o) \/ SettleUnknown(o)
         \/ SettlePositive(o) \/ RecordFailure(o)
  PROVE  /\ pending' \in [Calls -> PendingStates]
         /\ claim' \in [Calls -> Runners \cup {None}]
         /\ binding' \in [Keys -> Calls \cup {None}]
         /\ opState' \in [Activities -> OpStates]
         /\ opProto' \in [Activities -> {1, 2}]
         /\ reserved' \in [Handles -> Activities \cup {None}]
         /\ spent' \in [Handles -> Activities \cup {None}]
<1> USE DEF TypeOK, PendingStates, OpStates, FinishPending, Consume, Release
<1>1. CASE SettleExecuted(o)
  BY <1>1 DEF SettleExecuted
<1>2. CASE SettleFailedSafe(o)
  BY <1>2 DEF SettleFailedSafe
<1>3. CASE SettleUnknown(o)
  BY <1>3 DEF SettleUnknown
<1>4. CASE SettlePositive(o)
  BY <1>4 DEF SettlePositive
<1>5. CASE RecordFailure(o)
  BY <1>5 DEF RecordFailure
<1> QED
  BY <1>1, <1>2, <1>3, <1>4, <1>5

\* Moving to a step, with or without an answer, keeps pc and answer typed.
LEMMA MoveTypes ==
  ASSUME TypeOK, NEW a \in Activities, NEW s \in Steps, NEW r \in Answers,
         Goto(a, s) \/ Reply(a, r)
  PROVE  pc' \in [Activities -> Steps] /\ answer' \in [Activities -> Answers]
BY DEF TypeOK, Goto, Reply, Steps

\* The types hold initially and are kept by every step of every actor.
LEMMA TypeInit == Init => TypeOK
BY GateAssumption DEF Init, TypeOK, PendingStates, OpStates, WireStates, Steps,
   Answers, Activities

LEMMA TypeStep == TypeOK /\ [Next]_vars => TypeOK'
<1> SUFFICES ASSUME TypeOK, [Next]_vars PROVE TypeOK'
  OBVIOUS
<1> USE DEF TypeOK, rows
<1>1. ASSUME NEW c \in Calls, CallStep(c) PROVE TypeOK'
  <2> c \in Activities
    BY DEF Activities
  <2> USE DEF Goto, Reply, At
  <2>1. ReplayFor(c) \in Answers \cup {"fresh"}
    BY DEF ReplayFor, Answers
  <2>2. CASE Lookup(c)
    BY <2>1, <2>2 DEF Lookup, Steps
  <2>3. CASE Decide(c)
    BY <2>3 DEF Decide, Steps, Answers
  <2>4. CASE Ask(c)
    BY <2>4 DEF Ask, Bind, Steps, Answers, PendingStates
  <2>5. CASE Allow(c)
    BY <2>5 DEF Allow, Bind, Reserve, Steps, OpStates
  <2>6. CASE LostRace(c)
    BY <2>1, <2>6 DEF LostRace, Steps, Answers
  <2> QED
    BY <1>1, <2>2, <2>3, <2>4, <2>5, <2>6 DEF CallStep
<1>2. ASSUME NEW p \in Calls, OwnerStep(p) \/ ExpirePending(p) PROVE TypeOK'
  BY <1>2 DEF OwnerStep, Approve, Deny, Cancel, Lapse, OwnerSets, ExpirePending,
     PendingStates
<1>3. ASSUME NEW r \in Runners, RunnerStep(r) PROVE TypeOK'
  <2> r \in Activities
    BY DEF Activities
  <2> USE DEF At
  <2>1. CASE \E p \in Calls : PickApproved(r, p)
    BY <2>1 DEF PickApproved, Goto, Steps
  <2>2. CASE Claim(r)
    BY <2>2 DEF Claim, Reserve, Goto, Reply, Steps, Answers, PendingStates, OpStates
  <2>3. CASE Recheck(r)
    <3>1. Goto(r, "execute") \/ Reply(r, "refused")
      BY <2>3 DEF Recheck
    <3>2. pc' \in [Activities -> Steps] /\ answer' \in [Activities -> Answers]
      BY <3>1, MoveTypes DEF Steps, Answers
    <3>3. CASE SettleFailedSafe(r)
      BY <2>3, <3>2, <3>3, SettlementTypes DEF Recheck
    <3>4. CASE UNCHANGED rows
      BY <2>3, <3>2, <3>4 DEF Recheck
    <3> QED
      BY <2>3, <3>3, <3>4 DEF Recheck
  <2> QED
    BY <1>3, <2>1, <2>2, <2>3 DEF RunnerStep
<1>4. ASSUME NEW a \in Activities, ExecutorStep(a) PROVE TypeOK'
  <2> USE DEF At
  <2>1. CASE FailEarly(a) \/ OpenNothing(a) \/ Respond(a) \/ Catch(a)
    BY <2>1, MoveTypes DEF FailEarly, OpenNothing, Respond, Catch, Goto, Reply, Steps, Answers
  <2>2. CASE OpenRecoverable(a) \/ OpenJournaled(a)
    BY <2>2 DEF OpenRecoverable, OpenJournaled, Goto, Steps, OpStates
  <2>3. CASE Send(a)
    BY <2>3 DEF Send, Goto, Steps, WireStates
  <2>4. CASE Record(a) \/ ReleaseSafe(a) \/ ReportUnknown(a) \/ Settle(a)
    <3>1. /\ pc' \in [Activities -> Steps] /\ answer' \in [Activities -> Answers]
          /\ UNCHANGED <<lapsed, wire, work>>
      BY <2>4, MoveTypes DEF Record, InternalError, ReleaseSafe, ReportUnknown, Settle,
         Goto, Reply, Steps, Answers
    <3>2. \/ SettleExecuted(a) \/ SettleFailedSafe(a) \/ SettleUnknown(a)
          \/ SettlePositive(a) \/ RecordFailure(a) \/ UNCHANGED rows
      BY <2>4 DEF Record, InternalError, ReleaseSafe, ReportUnknown, Settle
    <3> QED
      BY <3>1, <3>2, SettlementTypes
  <2> QED
    BY <1>4, <2>1, <2>2, <2>3, <2>4 DEF ExecutorStep
<1>5. ASSUME NEW a \in Activities, Crash(a) \/ GmailCommits(a) \/ GmailRefuses(a)
      PROVE TypeOK'
  BY <1>5 DEF Crash, GmailCommits, GmailRefuses, Goto, Steps, WireStates
<1>6. ASSUME NEW a \in Activities, CronStep(a) \/ Reconcile(a) PROVE TypeOK'
  <2>1. CASE Promote(a)
    BY <2>1 DEF Promote, OpStates
  <2>2. CASE RecoverClaimed(a) \/ RecordStale(a) \/ Reconcile(a)
    BY <2>2, SettlementTypes DEF RecoverClaimed, RecordStale, Reconcile
  <2> QED
    BY <1>6, <2>1, <2>2 DEF CronStep
<1>7. CASE UNCHANGED vars
  BY <1>7 DEF vars
<1> QED
  BY <1>1, <1>2, <1>3, <1>4, <1>5, <1>6, <1>7 DEF Next

\* Every table and every request is always in a state the schema and the
\* handlers name.
THEOREM TypeCorrect == Spec => []TypeOK
BY TypeInit, TypeStep, PTL DEF Spec

-----------------------------------------------------------------------------
(***************************************************************************)
(* The inductive invariant.  Early steps have no operation; Before a       *)
(* request is sent the wire is untouched.                                  *)
(***************************************************************************)
Early  == {"start", "planned", "asking", "allowing", "lost", "claiming"}
Ready  == {"claimed", "execute"}
Facing == {"opened", "waiting", "succeeded"}

\* One activity: how far its operation has come at each of its steps.
Opened(a) ==
  IF Tool(a) \in Recoverable
  THEN opProto[a] = 2
  ELSE \/ opState[a] \in {"executing", "delivery_unknown", "executed"}
       \/ opState[a] = "failed_safe" /\ wire[a] = "refused"

Progress(a) ==
  /\ pc[a] \in Early => opState[a] = "none" /\ opProto[a] = 1
  /\ pc[a] \in Early \cup Ready \cup {"opened"} => ~Sent(a)
  /\ pc[a] \in Ready =>
       /\ opProto[a] = 1
       /\ opState[a] \in {"none", "claimed", "failed_safe"}
       /\ Tool(a) \in OneShot => opState[a] # "none"
  /\ (pc[a] \in Facing \/ Sent(a)) /\ Tool(a) \in OneShot => Opened(a)
  /\ (pc[a] \in Facing \/ Sent(a)) /\ Tool(a) = "label" => opState[a] # "claimed"
  /\ pc[a] = "succeeded" => wire[a] = "committed"
  /\ pc[a] = "failed4xx" /\ Tool(a) \in OneShot => wire[a] = "refused"
  /\ pc[a] = "releasing" /\ Tool(a) \in OneShot /\ opProto[a] = 1
       /\ opState[a] = "executing" => wire[a] = "refused"
  /\ pc[a] = "unsure" => opState[a] \in {"executing", "delivery_unknown"} /\ opProto[a] = 1
  /\ opProto[a] = 2 =>
       Tool(a) \in Recoverable /\ opState[a] \in {"executing", "delivery_unknown", "executed"}
  /\ opState[a] \notin {"none", "claimed", "failed_safe"} /\ Tool(a) \in Recoverable =>
       opProto[a] = 2
  /\ opState[a] = "executed" => wire[a] = "committed"

AllProgress == \A a \in Activities : Progress(a)

\* Calls, runners and pending rows refer to each other consistently: a pending
\* action and its one operation point at each other.
Claimed == {"executing", "executed", "failed", "failed_unknown"}

Linked ==
  /\ \A c \in Calls : work[c] = c
  /\ \A r \in Runners :
       /\ work[r] = None <=> pc[r] = "start"
       /\ pc[r] \in Ready \cup Facing \/ Sent(r) => opState[r] # "none"
       /\ opState[r] # "none" => work[r] \in Calls /\ claim[work[r]] = r
  /\ \A p \in Calls :
       /\ claim[p] # None <=> pending[p] \in Claimed
       /\ claim[p] # None => work[claim[p]] = p /\ opState[claim[p]] # "none"
       /\ pending[p] # "none" =>
            pc[p] = "done" /\ opState[p] = "none" /\ opProto[p] = 1 /\ ~Sent(p)
       /\ pending[p] \in {"failed", "failed_unknown"} => opState[claim[p]] # "claimed"
       /\ pending[p] = "executed" => opState[claim[p]] = "executed"

\* A key stays with the request whose operation or approval is open.
Holding(a) == opState[a] \notin {"none", "failed_safe"}

Keyed ==
  /\ \A a \in Activities :
       Holding(a) /\ KeyOf[work[a]] # None => binding[KeyOf[work[a]]] = work[a]
  /\ \A p \in Calls :
       pending[p] \in {"pending", "approved"} /\ KeyOf[p] # None => binding[KeyOf[p]] = p

\* A file is reserved by the live operation that attaches it, spent by the
\* executed one, and never both.
InUse(a) == opState[a] \in {"claimed", "executing", "delivery_unknown"}

Filed ==
  \A h \in Handles :
    /\ reserved[h] # None => spent[h] = None
    /\ \A a \in Activities :
         /\ reserved[h] = a <=> InUse(a) /\ h \in FilesOf[work[a]]
         /\ spent[h] = a <=> opState[a] = "executed" /\ h \in FilesOf[work[a]]

IInv == TypeOK /\ AllProgress /\ Linked /\ Keyed /\ Filed

-----------------------------------------------------------------------------
(***************************************************************************)
(* Frames: a request moves itself and its own operation, the owner and the *)
(* expiry cron only a pending row.                                         *)
(***************************************************************************)
ActivityStep(a) ==
  \/ a \in Calls /\ CallStep(a)
  \/ a \in Runners /\ RunnerStep(a)
  \/ ExecutorStep(a) \/ Crash(a) \/ CronStep(a) \/ Reconcile(a)
  \/ GmailCommits(a) \/ GmailRefuses(a)

PendingStep(p) == OwnerStep(p) \/ ExpirePending(p)

\* Every step belongs to one activity or to one pending row.
LEMMA StepCases ==
  ASSUME [Next]_vars
  PROVE  \/ \E a \in Activities : ActivityStep(a)
         \/ \E p \in Calls : PendingStep(p)
         \/ UNCHANGED vars
BY DEF Next, ActivityStep, PendingStep, Activities

Own(b) == <<pc[b], wire[b], opState[b], opProto[b], work[b]>>

\* No request touches another one's operation, position or message.
LEMMA OthersUnmoved ==
  ASSUME TypeOK, NEW a \in Activities, NEW b \in Activities, a # b, ActivityStep(a)
  PROVE  UNCHANGED Own(b)
<1> USE DEF TypeOK, Own, rows, Goto, Reply
<1>1. CASE a \in Calls /\ CallStep(a)
  BY <1>1 DEF CallStep, Lookup, Decide, Ask, Allow, LostRace
<1>2. CASE a \in Runners /\ RunnerStep(a)
  BY <1>2 DEF RunnerStep, PickApproved, Claim, Recheck, SettleFailedSafe
<1>3. CASE ExecutorStep(a)
  <2>1. CASE FailEarly(a) \/ OpenRecoverable(a) \/ OpenJournaled(a) \/ OpenNothing(a)
             \/ Send(a) \/ Respond(a) \/ Catch(a)
    BY <2>1 DEF FailEarly, OpenRecoverable, OpenJournaled, OpenNothing, Send, Respond, Catch
  <2>2. CASE Record(a) \/ ReleaseSafe(a) \/ ReportUnknown(a) \/ Settle(a)
    BY <2>2 DEF Record, InternalError, ReleaseSafe, ReportUnknown, Settle, SettleExecuted,
       SettleFailedSafe, SettleUnknown, SettlePositive, RecordFailure
  <2> QED
    BY <1>3, <2>1, <2>2 DEF ExecutorStep
<1>4. CASE Crash(a) \/ GmailCommits(a) \/ GmailRefuses(a)
  BY <1>4 DEF Crash, GmailCommits, GmailRefuses
<1>5. CASE CronStep(a) \/ Reconcile(a)
  BY <1>5 DEF CronStep, Reconcile, Promote, RecoverClaimed, RecordStale,
     SettleFailedSafe, SettlePositive, RecordFailure
<1> QED
  BY <1>1, <1>2, <1>3, <1>4, <1>5 DEF ActivityStep

\* The owner and the expiry cron change no operation and no request.
LEMMA PendingStepFrame ==
  ASSUME NEW p \in Calls, PendingStep(p)
  PROVE  UNCHANGED <<claim, binding, opState, opProto, reserved, spent, wire, pc, work, answer>>
BY DEF PendingStep, OwnerStep, Approve, Deny, Cancel, Lapse, OwnerSets, ExpirePending, rows

-----------------------------------------------------------------------------
(***************************************************************************)
(* Progress is inductive.                                                  *)
(***************************************************************************)
LEMMA ProgressFrame ==
  ASSUME NEW b \in Activities, Progress(b), UNCHANGED Own(b)
  PROVE  Progress(b)'
BY DEF Progress, Own, Sent, Opened, Tool

LEMMA ProgressInit == Init => AllProgress
BY GateAssumption DEF Init, AllProgress, Progress, Early, Ready, Facing, Sent, Opened, Tool,
   Activities

\* A request keeps its own progress, whatever the cron did to its row.
LEMMA ProgressOwn ==
  ASSUME TypeOK, Linked, NEW a \in Activities, Progress(a), ActivityStep(a)
  PROVE  Progress(a)'
<1> USE DEF TypeOK, Progress, Early, Ready, Facing, Sent, Opened, Tool, rows, At, Goto, Reply
<1>1. CASE a \in Calls /\ CallStep(a)
  <2>1. CASE Lookup(a) \/ Decide(a) \/ Ask(a) \/ LostRace(a)
    BY <2>1 DEF Lookup, Decide, Ask, LostRace
  <2>2. CASE Allow(a)
    BY <2>2, <1>1 DEF Allow, Journals, Linked
  <2> QED
    BY <1>1, <2>1, <2>2 DEF CallStep
<1>2. CASE a \in Runners /\ RunnerStep(a)
  <2>1. CASE \E p \in Calls : PickApproved(a, p)
    BY <2>1 DEF PickApproved
  <2>2. CASE Claim(a)
    BY <2>2 DEF Claim
  <2>3. CASE Recheck(a)
    BY <2>3 DEF Recheck, SettleFailedSafe, CanSettleFailedSafe
  <2> QED
    BY <1>2, <2>1, <2>2, <2>3 DEF RunnerStep
<1>3. CASE ExecutorStep(a)
  <2>1. CASE FailEarly(a)
    BY <2>1 DEF FailEarly
  <2>2. CASE OpenRecoverable(a)
    BY <2>2 DEF OpenRecoverable, CanBeginRecoverable, Recoverable
  <2>3. CASE OpenJournaled(a)
    BY <2>3 DEF OpenJournaled, Recoverable, OneShot
  <2>4. CASE OpenNothing(a)
    BY <2>4 DEF OpenNothing, Recoverable, OneShot
  <2>5. CASE Send(a)
    BY <2>5 DEF Send
  <2>6. CASE Respond(a)
    BY <2>6 DEF Respond
  <2>7. CASE Catch(a)
    BY <2>7 DEF Catch
  <2>8. CASE Record(a)
    BY <2>8 DEF Record, InternalError, RecordFailure, CanRecordFailure
  <2>9. CASE ReleaseSafe(a)
    BY <2>9 DEF ReleaseSafe, InternalError, SettleFailedSafe, CanSettleFailedSafe, Recoverable, OneShot
  <2>10. CASE ReportUnknown(a)
    BY <2>10 DEF ReportUnknown, InternalError, SettleUnknown
  <2>11. CASE Settle(a)
    BY <2>11 DEF Settle, InternalError, SettleExecuted, CanSettleExecuted,
       SettlePositive, CanSettlePositive, Recoverable, OneShot
  <2> QED
    BY <1>3, <2>1, <2>2, <2>3, <2>4, <2>5, <2>6, <2>7, <2>8, <2>9, <2>10, <2>11
       DEF ExecutorStep
<1>4. CASE Crash(a) \/ GmailCommits(a) \/ GmailRefuses(a)
  BY <1>4 DEF Crash, GmailCommits, GmailRefuses
<1>5. CASE CronStep(a)
  BY <1>5 DEF CronStep, Promote, RecoverClaimed, RecordStale, SettleFailedSafe,
     RecordFailure, CanRecordFailure, Recoverable, OneShot
<1>6. CASE Reconcile(a)
  BY <1>6 DEF Reconcile, SettlePositive, CanSettlePositive
<1> QED
  BY <1>1, <1>2, <1>3, <1>4, <1>5, <1>6 DEF ActivityStep

LEMMA ProgressStep ==
  ASSUME TypeOK, Linked, AllProgress, [Next]_vars
  PROVE  AllProgress'
<1> SUFFICES ASSUME NEW b \in Activities PROVE Progress(b)'
  BY DEF AllProgress
<1>1. Progress(b)
  BY DEF AllProgress
<1>2. ASSUME NEW a \in Activities, ActivityStep(a) PROVE Progress(b)'
  <2>1. CASE a = b
    BY <1>1, <1>2, <2>1, ProgressOwn
  <2>2. CASE a # b
    BY <1>1, <1>2, <2>2, OthersUnmoved, ProgressFrame
  <2> QED
    BY <2>1, <2>2
<1>3. ASSUME NEW p \in Calls, PendingStep(p) PROVE Progress(b)'
  BY <1>1, <1>3, PendingStepFrame, ProgressFrame DEF Own
<1>4. CASE UNCHANGED vars
  BY <1>1, <1>4, ProgressFrame DEF vars, rows, Own
<1> QED
  BY <1>2, <1>3, <1>4, StepCases

-----------------------------------------------------------------------------
(***************************************************************************)
(* Linked is inductive.                                                    *)
(***************************************************************************)
LEMMA LinkedInit == Init => Linked
BY GateAssumption DEF Init, Linked, Claimed, Ready, Facing, Sent, Activities

\* A batch that settles an operation, with the guard it is run under.
Settlement(o) ==
  \/ CanSettleExecuted(o) /\ SettleExecuted(o)
  \/ CanSettleFailedSafe(o) /\ SettleFailedSafe(o)
  \/ opState[o] \in {"executing", "delivery_unknown"} /\ SettleUnknown(o)
  \/ CanSettlePositive(o) /\ SettlePositive(o)
  \/ CanRecordFailure(o) /\ RecordFailure(o)

\* Where a settlement happens: in a request that then answers, or in the cron.
LEMMA SettlementSites ==
  ASSUME TypeOK, NEW a \in Activities, Progress(a), ActivityStep(a),
         ~(\/ a \in Calls /\ CallStep(a)
           \/ a \in Runners /\ ((\E p \in Calls : PickApproved(a, p)) \/ Claim(a))
           \/ FailEarly(a) \/ OpenRecoverable(a) \/ OpenJournaled(a) \/ OpenNothing(a)
           \/ Send(a) \/ Respond(a) \/ Catch(a) \/ Promote(a)),
         ~UNCHANGED rows
  PROVE  /\ Settlement(a)
         /\ UNCHANGED <<lapsed, wire, work>>
         /\ \/ UNCHANGED pc
            \/ pc[a] \notin {"start", "done"} /\ pc' = [pc EXCEPT ![a] = "done"]
BY DEF ActivityStep, RunnerStep, ExecutorStep, CronStep, Recheck, Record, ReleaseSafe,
   ReportUnknown, InternalError, Settle, RecoverClaimed, RecordStale, Reconcile, Settlement, Crash,
   GmailCommits, GmailRefuses, CanSettleFailedSafe, Goto, Reply, At, Progress, TypeOK

LEMMA LinkedSettlement ==
  ASSUME TypeOK, Linked, NEW o \in Activities, Settlement(o),
         UNCHANGED <<lapsed, wire, work>>,
         \/ UNCHANGED pc
         \/ pc[o] \notin {"start", "done"} /\ pc' = [pc EXCEPT ![o] = "done"]
  PROVE  Linked'
<1> USE GateAssumption DEF TypeOK, Linked, Claimed, Ready, Facing, Sent, Activities,
    FinishPending
<1>1. CASE CanSettleExecuted(o) /\ SettleExecuted(o)
  BY <1>1 DEF CanSettleExecuted, SettleExecuted
<1>2. CASE CanSettleFailedSafe(o) /\ SettleFailedSafe(o)
  BY <1>2 DEF CanSettleFailedSafe, SettleFailedSafe
<1>3. CASE opState[o] \in {"executing", "delivery_unknown"} /\ SettleUnknown(o)
  BY <1>3 DEF SettleUnknown
<1>4. CASE CanSettlePositive(o) /\ SettlePositive(o)
  BY <1>4 DEF CanSettlePositive, SettlePositive
<1>5. CASE CanRecordFailure(o) /\ RecordFailure(o)
  BY <1>5 DEF CanRecordFailure, RecordFailure
<1> QED
  BY <1>1, <1>2, <1>3, <1>4, <1>5 DEF Settlement

LEMMA LinkedStep ==
  ASSUME TypeOK, Linked, AllProgress, [Next]_vars
  PROVE  Linked'
<1> USE GateAssumption DEF TypeOK
<1>1. ASSUME NEW a \in Activities, ActivityStep(a) PROVE Linked'
  <2>0. Progress(a)
    BY DEF AllProgress
  <2> USE DEF Claimed, Ready, Facing, Sent, Activities, rows, Goto, Reply, At
  <2>1. CASE a \in Calls /\ CallStep(a)
    <3>1. pc[a] \in Early
      BY <2>1 DEF CallStep, Lookup, Decide, Ask, Allow, LostRace, Early
    <3>2. opState[a] = "none" /\ opProto[a] = 1 /\ ~Sent(a) /\ pending[a] = "none"
      BY <2>0, <3>1, <2>1 DEF Progress, Linked, Early
    <3>3. CASE Lookup(a) \/ Decide(a) \/ Ask(a) \/ LostRace(a)
      BY <3>2, <3>3, <2>1 DEF Lookup, Decide, Ask, LostRace, Linked
    <3>4. CASE Allow(a)
      BY <3>2, <3>4, <2>1 DEF Allow, Linked
    <3> QED
      BY <2>1, <3>3, <3>4 DEF CallStep
  <2>2. CASE a \in Runners /\ \E p \in Calls : PickApproved(a, p)
    <3>1. opState[a] = "none" /\ ~Sent(a)
      BY <2>0, <2>2 DEF PickApproved, Progress, Early
    <3> QED
      BY <2>2, <3>1 DEF PickApproved, Linked
  <2>3. CASE a \in Runners /\ Claim(a)
    <3>1. opState[a] = "none" /\ ~Sent(a)
      BY <2>0, <2>3 DEF Claim, Progress, Early
    <3>2. work[a] \in Calls
      BY <2>3 DEF Claim, Linked
    <3> QED
      BY <2>3, <3>1, <3>2 DEF Claim, Linked
  <2>4. CASE FailEarly(a) \/ OpenRecoverable(a) \/ OpenJournaled(a) \/ OpenNothing(a)
             \/ Send(a) \/ Respond(a) \/ Catch(a)
    <3>1. CASE FailEarly(a) \/ Catch(a)
      BY <3>1 DEF FailEarly, Catch, Linked
    <3>2. CASE OpenRecoverable(a)
      BY <3>2 DEF OpenRecoverable, CanBeginRecoverable, Linked
    <3>3. CASE OpenJournaled(a)
      BY <3>3 DEF OpenJournaled, Linked
    <3>4. CASE OpenNothing(a)
      BY <3>4 DEF OpenNothing, Linked
    <3>5. CASE Send(a)
      BY <3>5 DEF Send, Linked
    <3>6. CASE Respond(a)
      BY <3>6 DEF Respond, Linked
    <3> QED
      BY <2>4, <3>1, <3>2, <3>3, <3>4, <3>5, <3>6
  <2>5. CASE Promote(a)
    BY <2>5 DEF Promote, Linked
  <2>6. CASE UNCHANGED rows /\ (Record(a) \/ ReleaseSafe(a) \/ ReportUnknown(a) \/ Settle(a))
    <3>1. /\ UNCHANGED <<lapsed, wire, work>>
          /\ \/ pc' = [pc EXCEPT ![a] = "done"]
             \/ pc' = [pc EXCEPT ![a] = "releasing"]
          /\ pc[a] \in {"recording", "releasing", "unsure", "succeeded"}
      BY <2>6 DEF Record, InternalError, ReleaseSafe, ReportUnknown, Settle
    <3> QED
      BY <2>6, <3>1 DEF Linked
  <2>7. CASE UNCHANGED rows /\ a \in Runners /\ Recheck(a)
    BY <2>7 DEF Recheck, Linked
  <2>8. CASE Crash(a)
    BY <2>8 DEF Crash, Linked
  <2>9. CASE GmailCommits(a) \/ GmailRefuses(a)
    BY <2>9 DEF GmailCommits, GmailRefuses, Linked
  <2>10. CASE UNCHANGED rows /\ (RecoverClaimed(a) \/ RecordStale(a) \/ Reconcile(a))
    BY <2>10 DEF RecoverClaimed, RecordStale, Reconcile, Linked
  <2>11. CASE UNCHANGED rows
    BY <1>1, <2>1, <2>2, <2>3, <2>4, <2>5, <2>6, <2>7, <2>8, <2>9, <2>10, <2>11
       DEF ActivityStep, RunnerStep, ExecutorStep, CronStep
  <2>12. CASE Settlement(a) /\ UNCHANGED <<lapsed, wire, work>>
              /\ \/ UNCHANGED pc
                 \/ pc[a] \notin {"start", "done"} /\ pc' = [pc EXCEPT ![a] = "done"]
    BY <2>12, LinkedSettlement
  <2> QED
    BY <1>1, <2>0, <2>1, <2>2, <2>3, <2>4, <2>5, <2>11, <2>12, SettlementSites
<1>2. ASSUME NEW p \in Calls, PendingStep(p) PROVE Linked'
  BY <1>2, PendingStepFrame DEF PendingStep, OwnerStep, Approve, Deny, Cancel, Lapse,
     OwnerSets, ExpirePending, rows, Linked, Claimed, Ready, Facing, Sent, Activities
<1>3. CASE UNCHANGED vars
  BY <1>3 DEF vars, rows, Linked, Claimed, Ready, Facing, Sent
<1> QED
  BY <1>1, <1>2, <1>3, StepCases

-----------------------------------------------------------------------------
(***************************************************************************)
(* Keyed is inductive.  The heart of it: the upsert of idempotency_keys    *)
(* succeeds only when nothing open is left under the key.                  *)
(***************************************************************************)
LEMMA HoldingWork ==
  ASSUME TypeOK, Linked, NEW a \in Activities, opState[a] # "none"
  PROVE  work[a] \in Calls
BY DEF TypeOK, Linked, Activities

LEMMA RebindFindsNothingOpen ==
  ASSUME TypeOK, Linked, AllProgress, Keyed, NEW c \in Calls, KeyOf[c] # None, CanBind(c)
  PROVE  /\ \A a \in Activities : Holding(a) => KeyOf[work[a]] # KeyOf[c]
         /\ \A p \in Calls : pending[p] \in {"pending", "approved"} => KeyOf[p] # KeyOf[c]
<1> DEFINE d == HolderOf(c)
<1>0. KeyOf[c] \in Keys /\ None \notin Calls /\ d = binding[KeyOf[c]]
  BY GateAssumption DEF HolderOf, Activities
<1>1. CASE d = None
  <2>1. ASSUME NEW a \in Activities, Holding(a) PROVE KeyOf[work[a]] # KeyOf[c]
    <3>1. work[a] \in Calls
      BY <2>1, HoldingWork DEF Holding
    <3> QED
      BY <1>0, <1>1, <2>1, <3>1 DEF Keyed
  <2>2. ASSUME NEW p \in Calls, pending[p] \in {"pending", "approved"}
        PROVE  KeyOf[p] # KeyOf[c]
    BY <1>0, <1>1, <2>2 DEF Keyed
  <2> QED
    BY <2>1, <2>2
<1>2. CASE d # None
  <2>1. d \in Calls /\ Retired(d) /\ ~KeyTriggerRefuses(d)
    BY <1>0, <1>2 DEF CanBind, TypeOK
  <2>2. ASSUME NEW a \in Activities, Holding(a), KeyOf[work[a]] = KeyOf[c] PROVE FALSE
    <3>1. work[a] = d
      BY <1>0, <2>2 DEF Keyed
    <3>2. CASE a \in Calls
      <4>1. a = d /\ pending[d] = "none"
        BY <3>1, <3>2, <2>2 DEF Linked, Holding
      <4> QED
        BY <4>1, <2>1, <2>2 DEF Retired, Holding
    <3>3. CASE a \in Runners
      <4>1. claim[d] = a /\ pending[d] \in Claimed /\ a # None
        BY <3>1, <3>3, <2>1, <2>2, GateAssumption DEF Linked, Holding, Activities
      <4>2. opProto[a] # 2
        BY <4>1, <2>1 DEF KeyTriggerRefuses, OperationOf, Claimed
      <4>3. Tool(a) \in Recoverable
        BY <3>1, <2>1, <2>2, <1>0, GateAssumption DEF Tool
      <4>4. opState[a] = "claimed"
        BY <4>2, <4>3, <2>2 DEF AllProgress, Progress, Holding
      <4> QED
        BY <4>1, <4>4, <2>1 DEF Retired, Claimed, Linked
    <3> QED
      BY <3>2, <3>3 DEF Activities
  <2>3. ASSUME NEW p \in Calls, pending[p] \in {"pending", "approved"}, KeyOf[p] = KeyOf[c]
        PROVE  FALSE
    BY <2>1, <2>3, <1>0 DEF Keyed, Retired
  <2> QED
    BY <2>2, <2>3
<1> QED
  BY <1>1, <1>2

LEMMA KeyedInit == Init => Keyed
BY DEF Init, Keyed, Holding

\* A step that binds no key, adds no open row and opens no operation.
LEMMA KeyedFrame ==
  ASSUME Keyed, UNCHANGED binding,
         \A b \in Activities : Holding(b)' => Holding(b) /\ work'[b] = work[b],
         \A p \in Calls : pending'[p] \in {"pending", "approved"} =>
                          pending[p] \in {"pending", "approved"}
  PROVE  Keyed'
BY DEF Keyed

LEMMA KeyedSettlement ==
  ASSUME TypeOK, Keyed, NEW o \in Activities, Settlement(o), UNCHANGED work
  PROVE  Keyed'
<1>1. UNCHANGED binding /\ (opState'[o] # "failed_safe" => Holding(o))
  BY DEF TypeOK, Settlement, SettleExecuted, SettleFailedSafe, SettleUnknown, SettlePositive,
     RecordFailure, CanSettleExecuted, CanSettlePositive, CanRecordFailure, Holding
<1>2. \A b \in Activities : b # o => opState'[b] = opState[b]
  BY DEF TypeOK, Settlement, SettleExecuted, SettleFailedSafe, SettleUnknown,
     SettlePositive, RecordFailure
<1>3. \A p \in Calls : pending'[p] \in {"pending", "approved"} => pending'[p] = pending[p]
  BY DEF TypeOK, Settlement, SettleExecuted, SettleFailedSafe, SettleUnknown,
     SettlePositive, RecordFailure, FinishPending
<1> QED
  BY <1>1, <1>2, <1>3, KeyedFrame DEF Holding

LEMMA KeyedStep ==
  ASSUME TypeOK, Linked, AllProgress, Keyed, [Next]_vars
  PROVE  Keyed'
<1> USE GateAssumption DEF TypeOK
<1>1. ASSUME NEW a \in Activities, ActivityStep(a) PROVE Keyed'
  <2>0. Progress(a)
    BY DEF AllProgress
  <2> USE DEF Activities, rows, Goto, Reply, At
  <2>1. CASE a \in Calls /\ CallStep(a)
    <3>1. pc[a] \in Early /\ work[a] = a
      BY <2>1 DEF CallStep, Lookup, Decide, Ask, Allow, LostRace, Early, Linked
    <3>2. opState[a] = "none" /\ pending[a] = "none"
      BY <2>0, <3>1, <2>1 DEF Progress, Linked, Early
    <3>3. CASE Lookup(a) \/ Decide(a) \/ LostRace(a) \/ UNCHANGED rows
      <4>1. UNCHANGED <<binding, opState, pending, work>>
        BY <2>1, <3>3 DEF Lookup, Decide, LostRace, CallStep, Ask, Allow
      <4> QED
        BY <4>1, KeyedFrame DEF Holding
    <3>4. CASE ~UNCHANGED rows /\ Ask(a)
      <4>1. /\ CanBind(a)
            /\ pending' = [pending EXCEPT ![a] = "pending"] /\ Bind(a)
            /\ UNCHANGED <<opState, work>>
        BY <3>4 DEF Ask
      <4>2. ASSUME NEW b \in Activities, Holding(b) PROVE work[b] \in Calls
        BY <4>2, HoldingWork DEF Holding
      <4>3. \A k \in Keys : binding'[k] = IF k = KeyOf[a] THEN a ELSE binding[k]
        BY <4>1 DEF Bind
      <4>4. KeyOf[a] # None =>
              /\ \A b \in Activities : Holding(b) => KeyOf[work[b]] # KeyOf[a]
              /\ \A p \in Calls : pending[p] \in {"pending", "approved"} => KeyOf[p] # KeyOf[a]
        BY <4>1, <2>1, RebindFindsNothingOpen
      <4>5. ASSUME NEW b \in Activities, Holding(b)', KeyOf[work[b]] # None
            PROVE  binding'[KeyOf[work[b]]] = work[b]
        BY <4>1, <4>2, <4>3, <4>4, <4>5, <3>1, <2>1 DEF Keyed, Holding
      <4>6. ASSUME NEW p \in Calls, pending'[p] \in {"pending", "approved"}, KeyOf[p] # None
            PROVE  binding'[KeyOf[p]] = p
        BY <4>1, <4>3, <4>4, <4>6, <2>1 DEF Keyed
      <4> QED
        BY <4>1, <4>5, <4>6 DEF Keyed
    <3>5. CASE ~UNCHANGED rows /\ Allow(a)
      <4>1. /\ CanBind(a) /\ Bind(a) /\ UNCHANGED <<pending, work>>
            /\ \A b \in Activities : b # a => opState'[b] = opState[b]
        BY <3>5, <2>1 DEF Allow
      <4>2. ASSUME NEW b \in Activities, Holding(b) PROVE work[b] \in Calls
        BY <4>2, HoldingWork DEF Holding
      <4>3. \A k \in Keys : binding'[k] = IF k = KeyOf[a] THEN a ELSE binding[k]
        BY <4>1 DEF Bind
      <4>4. KeyOf[a] # None =>
              /\ \A b \in Activities : Holding(b) => KeyOf[work[b]] # KeyOf[a]
              /\ \A p \in Calls : pending[p] \in {"pending", "approved"} => KeyOf[p] # KeyOf[a]
        BY <4>1, <2>1, RebindFindsNothingOpen
      <4>5. ASSUME NEW b \in Activities, Holding(b)', KeyOf[work[b]] # None
            PROVE  binding'[KeyOf[work[b]]] = work[b]
        BY <4>1, <4>2, <4>3, <4>4, <4>5, <3>1, <2>1 DEF Keyed, Holding
      <4>6. ASSUME NEW p \in Calls, pending'[p] \in {"pending", "approved"}, KeyOf[p] # None
            PROVE  binding'[KeyOf[p]] = p
        BY <4>1, <4>3, <4>4, <4>6, <2>1 DEF Keyed
      <4> QED
        BY <4>1, <4>5, <4>6 DEF Keyed
    <3> QED
      BY <2>1, <3>3, <3>4, <3>5 DEF CallStep
  <2>2. CASE a \in Runners /\ \E p \in Calls : PickApproved(a, p)
    <3>1. ~Holding(a) /\ UNCHANGED <<binding, opState, pending>>
      BY <2>0, <2>2 DEF PickApproved, Progress, Early, Holding
    <3>2. \A b \in Activities : b # a => work'[b] = work[b]
      BY <2>2 DEF PickApproved
    <3> QED
      BY <3>1, <3>2, KeyedFrame DEF Holding
  <2>3. CASE a \in Runners /\ Claim(a)
    <3>1. CASE UNCHANGED rows
      BY <2>3, <3>1, KeyedFrame DEF Claim, Holding
    <3>2. CASE ~UNCHANGED rows
      <4>1. /\ pending[work[a]] = "approved"
            /\ opState' = [opState EXCEPT ![a] = "claimed"]
            /\ pending' = [pending EXCEPT ![work[a]] = "executing"]
            /\ UNCHANGED <<binding, work>>
        BY <2>3, <3>2 DEF Claim
      <4>2. work[a] \in Calls
        BY <2>3 DEF Claim, Linked
      <4> QED
        BY <4>1, <4>2 DEF Keyed, Holding
    <3> QED
      BY <3>1, <3>2
  <2>4. CASE FailEarly(a) \/ OpenRecoverable(a) \/ OpenJournaled(a) \/ OpenNothing(a)
             \/ Send(a) \/ Respond(a) \/ Catch(a) \/ Promote(a)
    <3>1. /\ UNCHANGED <<binding, pending, work>>
          /\ \/ UNCHANGED opState
             \/ Holding(a) /\ \E s \in OpStates : opState' = [opState EXCEPT ![a] = s]
      BY <2>4 DEF FailEarly, OpenRecoverable, CanBeginRecoverable, OpenJournaled,
         OpenNothing, Send, Respond, Catch, Promote, Holding, OpStates
    <3> QED
      BY <3>1, KeyedFrame DEF Holding
  <2>5. CASE UNCHANGED rows /\ UNCHANGED work
    BY <2>5, KeyedFrame DEF Holding
  <2>6. CASE UNCHANGED rows
    BY <1>1, <2>1, <2>2, <2>3, <2>4, <2>5, <2>6 DEF ActivityStep, RunnerStep, ExecutorStep,
       CronStep, Recheck, Record, InternalError, ReleaseSafe, ReportUnknown, Settle, Crash,
       GmailCommits, GmailRefuses, RecoverClaimed, RecordStale, Reconcile
  <2> QED
    BY <1>1, <2>0, <2>1, <2>2, <2>3, <2>4, <2>6, SettlementSites, KeyedSettlement
<1>2. ASSUME NEW p \in Calls, PendingStep(p) PROVE Keyed'
  <2>1. \A q \in Calls : pending'[q] \in {"pending", "approved"} =>
                         pending[q] \in {"pending", "approved"}
    BY <1>2 DEF PendingStep, OwnerStep, Approve, Deny, Cancel, Lapse, OwnerSets,
       ExpirePending, rows
  <2> QED
    BY <1>2, <2>1, PendingStepFrame, KeyedFrame DEF Holding
<1>3. CASE UNCHANGED vars
  BY <1>3, KeyedFrame DEF vars, rows, Holding
<1> QED
  BY <1>1, <1>2, <1>3, StepCases

-----------------------------------------------------------------------------
(***************************************************************************)
(* Filed is inductive.                                                     *)
(***************************************************************************)
LEMMA FiledInit == Init => Filed
BY GateAssumption DEF Init, Filed, InUse

\* A step that leaves the staging table alone and moves no operation into or
\* out of use.
LEMMA FiledFrame ==
  ASSUME Filed, UNCHANGED <<reserved, spent>>,
         \A b \in Activities :
           /\ InUse(b)' <=> InUse(b)
           /\ opState'[b] = "executed" <=> opState[b] = "executed"
           /\ opState[b] # "none" => work'[b] = work[b]
  PROVE  Filed'
BY DEF Filed, InUse

\* Consuming goes with executed, releasing with failed_safe.
LEMMA FiledSettlement ==
  ASSUME TypeOK, Filed, NEW o \in Activities, Settlement(o), UNCHANGED work
  PROVE  Filed'
<1>0. o # None /\ \A b \in Activities : b # o => opState'[b] = opState[b]
  BY GateAssumption DEF TypeOK, Settlement, SettleExecuted, SettleFailedSafe,
     SettleUnknown, SettlePositive, RecordFailure
<1>1. CASE \/ CanSettleExecuted(o) /\ SettleExecuted(o)
           \/ CanSettlePositive(o) /\ SettlePositive(o)
  <2>1. /\ opState[o] \in {"executing", "delivery_unknown"} /\ opState'[o] = "executed"
        /\ \A h \in Handles :
             /\ reserved'[h] = IF reserved[h] = o THEN None ELSE reserved[h]
             /\ spent'[h] = IF reserved[h] = o THEN o ELSE spent[h]
    BY <1>1 DEF CanSettleExecuted, SettleExecuted, CanSettlePositive, SettlePositive,
       Consume, Release, TypeOK
  <2>2. ASSUME NEW h \in Handles PROVE reserved'[h] # None => spent'[h] = None
    BY <2>1, <2>2, <1>0 DEF Filed
  <2>3. ASSUME NEW h \in Handles, NEW b \in Activities
        PROVE  /\ reserved'[h] = b <=> InUse(b)' /\ h \in FilesOf[work'[b]]
               /\ spent'[h] = b <=> opState'[b] = "executed" /\ h \in FilesOf[work'[b]]
    <3>1. CASE b = o
      BY <1>0, <2>1, <3>1 DEF Filed, InUse
    <3>2. CASE b # o
      <4>1. b # None
        BY GateAssumption
      <4>2. reserved[h] = o => spent[h] = None
        BY <1>0 DEF Filed
      <4> QED
        BY <1>0, <2>1, <3>2, <4>1, <4>2 DEF Filed, InUse
    <3> QED
      BY <3>1, <3>2
  <2> QED
    BY <2>2, <2>3 DEF Filed
<1>2. CASE CanSettleFailedSafe(o) /\ SettleFailedSafe(o)
  <2>1. /\ opState[o] # "executed" /\ opState'[o] = "failed_safe" /\ UNCHANGED spent
        /\ \A h \in Handles : reserved'[h] = IF reserved[h] = o THEN None ELSE reserved[h]
    BY <1>2 DEF CanSettleFailedSafe, SettleFailedSafe, Release, TypeOK
  <2>2. ASSUME NEW h \in Handles, NEW b \in Activities
        PROVE  /\ reserved'[h] = b <=> InUse(b)' /\ h \in FilesOf[work'[b]]
               /\ spent'[h] = b <=> opState'[b] = "executed" /\ h \in FilesOf[work'[b]]
    <3>1. b # None
      BY GateAssumption
    <3>2. CASE b = o
      BY <1>0, <2>1, <3>2 DEF Filed, InUse
    <3>3. CASE b # o
      BY <1>0, <2>1, <3>1, <3>3 DEF Filed, InUse
    <3> QED
      BY <3>2, <3>3
  <2>3. \A h \in Handles : reserved'[h] # None => spent'[h] = None
    BY <2>1 DEF Filed
  <2> QED
    BY <2>2, <2>3 DEF Filed
<1>3. CASE opState[o] \in {"executing", "delivery_unknown"} /\ SettleUnknown(o)
  BY <1>0, <1>3, FiledFrame DEF SettleUnknown, InUse
<1>4. CASE CanRecordFailure(o) /\ RecordFailure(o)
  <2>1. /\ opState[o] = "executing" /\ opState'[o] = "delivery_unknown"
        /\ UNCHANGED <<reserved, spent, work>>
    BY <1>4 DEF CanRecordFailure, RecordFailure, TypeOK
  <2> QED
    BY <1>0, <2>1, FiledFrame DEF InUse
<1> QED
  BY <1>1, <1>2, <1>3, <1>4 DEF Settlement

LEMMA FiledStep ==
  ASSUME TypeOK, Linked, AllProgress, Filed, [Next]_vars
  PROVE  Filed'
<1> USE GateAssumption DEF TypeOK
<1>1. ASSUME NEW a \in Activities, ActivityStep(a) PROVE Filed'
  <2>0. Progress(a) /\ a # None
    BY DEF AllProgress
  <2> USE DEF rows, Goto, Reply, At
  <2>1. CASE a \in Calls /\ CallStep(a)
    <3>1. CASE UNCHANGED rows /\ UNCHANGED work
      BY <3>1, FiledFrame DEF InUse
    <3>2. CASE Ask(a)
      <4>1. UNCHANGED <<opState, reserved, spent, work>>
        BY <3>2 DEF Ask
      <4> QED
        BY <4>1, FiledFrame DEF InUse
    <3>3. CASE ~UNCHANGED rows /\ Allow(a)
      <4>1. opState[a] = "none" /\ work[a] = a
        BY <2>0, <2>1, <3>3 DEF Allow, Progress, Early, Linked
      <4>2. /\ CanReserve(a) /\ Reserve(a, a) /\ UNCHANGED <<spent, work>>
            /\ \/ opState' = [opState EXCEPT ![a] = "claimed"]
               \/ UNCHANGED opState /\ FilesOf[a] = {}
        BY <3>3 DEF Allow, Journals
      <4>3. \A h \in Handles : reserved'[h] = IF h \in FilesOf[a] THEN a ELSE reserved[h]
        BY <4>2 DEF Reserve
      <4>4. \A b \in Activities : b # a => opState'[b] = opState[b]
        BY <4>2
      <4>5. \A h \in Handles : reserved'[h] # None => spent'[h] = None
        BY <4>2, <4>3 DEF CanReserve, Filed
      <4>6. ASSUME NEW h \in Handles, NEW b \in Activities
            PROVE /\ reserved'[h] = b <=> InUse(b)' /\ h \in FilesOf[work'[b]]
                  /\ spent'[h] = b <=> opState'[b] = "executed" /\ h \in FilesOf[work'[b]]
        <5>1. CASE b = a
          BY <5>1, <2>0, <4>1, <4>2, <4>3 DEF CanReserve, Filed, InUse
        <5>2. CASE b # a
          BY <5>2, <4>1, <4>2, <4>3, <4>4 DEF CanReserve, Filed, InUse
        <5> QED
          BY <5>1, <5>2
      <4> QED
        BY <4>5, <4>6 DEF Filed
    <3> QED
      BY <2>1, <3>1, <3>2, <3>3 DEF CallStep, Lookup, Decide, Allow, LostRace
  <2>2. CASE a \in Runners /\ \E p \in Calls : PickApproved(a, p)
    <3>1. opState[a] = "none" /\ UNCHANGED <<opState, reserved, spent>>
      BY <2>0, <2>2 DEF PickApproved, Progress, Early
    <3>2. \A b \in Activities : b # a => work'[b] = work[b]
      BY <2>2 DEF PickApproved
    <3> QED
      BY <3>1, <3>2, FiledFrame DEF InUse
  <2>3. CASE a \in Runners /\ Claim(a)
    <3>1. CASE UNCHANGED rows
      BY <2>3, <3>1, FiledFrame DEF Claim, InUse
    <3>2. CASE ~UNCHANGED rows
      <4>1. opState[a] = "none"
        BY <2>0, <2>3 DEF Claim, Progress, Early
      <4>2. /\ CanReserve(work[a]) /\ Reserve(a, work[a]) /\ UNCHANGED <<spent, work>>
            /\ opState' = [opState EXCEPT ![a] = "claimed"]
        BY <2>3, <3>2 DEF Claim
      <4>3. \A h \in Handles :
              reserved'[h] = IF h \in FilesOf[work[a]] THEN a ELSE reserved[h]
        BY <4>2 DEF Reserve
      <4>5. \A h \in Handles : reserved'[h] # None => spent'[h] = None
        BY <4>2, <4>3 DEF CanReserve, Filed
      <4>6. ASSUME NEW h \in Handles, NEW b \in Activities
            PROVE /\ reserved'[h] = b <=> InUse(b)' /\ h \in FilesOf[work'[b]]
                  /\ spent'[h] = b <=> opState'[b] = "executed" /\ h \in FilesOf[work'[b]]
        <5>1. CASE b = a
          BY <5>1, <2>0, <4>1, <4>2, <4>3 DEF CanReserve, Filed, InUse
        <5>2. CASE b # a
          BY <5>2, <4>1, <4>2, <4>3 DEF CanReserve, Filed, InUse
        <5> QED
          BY <5>1, <5>2
      <4> QED
        BY <4>5, <4>6 DEF Filed
    <3> QED
      BY <3>1, <3>2
  <2>4. CASE FailEarly(a) \/ OpenRecoverable(a) \/ OpenJournaled(a) \/ OpenNothing(a)
             \/ Send(a) \/ Respond(a) \/ Catch(a) \/ Promote(a)
    <3>1. /\ UNCHANGED <<reserved, spent, work>>
          /\ \/ UNCHANGED opState
             \/ /\ InUse(a)
                /\ \E s \in {"executing", "delivery_unknown"} :
                     opState' = [opState EXCEPT ![a] = s]
      BY <2>4 DEF FailEarly, OpenRecoverable, CanBeginRecoverable, OpenJournaled,
         OpenNothing, Send, Respond, Catch, Promote, InUse
    <3> QED
      BY <3>1, FiledFrame DEF InUse
  <2>5. CASE UNCHANGED rows /\ UNCHANGED work
    BY <2>5, FiledFrame DEF InUse
  <2>6. CASE UNCHANGED rows
    BY <1>1, <2>1, <2>2, <2>3, <2>4, <2>5, <2>6 DEF ActivityStep, RunnerStep, ExecutorStep,
       CronStep, Recheck, Record, InternalError, ReleaseSafe, ReportUnknown, Settle, Crash,
       GmailCommits, GmailRefuses, RecoverClaimed, RecordStale, Reconcile
  <2> QED
    BY <1>1, <2>0, <2>1, <2>2, <2>3, <2>4, <2>6, SettlementSites, FiledSettlement
<1>2. ASSUME NEW p \in Calls, PendingStep(p) PROVE Filed'
  BY <1>2, PendingStepFrame, FiledFrame DEF InUse
<1>3. CASE UNCHANGED vars
  BY <1>3, FiledFrame DEF vars, rows, InUse
<1> QED
  BY <1>1, <1>2, <1>3, StepCases

-----------------------------------------------------------------------------
(***************************************************************************)
(* The theorems.                                                           *)
(***************************************************************************)
THEOREM InvariantHolds == Spec => []IInv
<1>1. Init => IInv
  BY TypeInit, ProgressInit, LinkedInit, KeyedInit, FiledInit DEF IInv
<1>2. IInv /\ [Next]_vars => IInv'
  BY TypeStep, ProgressStep, LinkedStep, KeyedStep, FiledStep DEF IInv
<1> QED
  BY <1>1, <1>2, PTL DEF Spec

\* A message that left is journaled as opened: nothing is claimed or absent.
LEMMA SentOneShot ==
  ASSUME TypeOK, AllProgress, NEW a \in Activities, Tool(a) \in OneShot, Sent(a)
  PROVE  \/ opState[a] \in {"executing", "delivery_unknown", "executed"}
         \/ opState[a] = "failed_safe" /\ wire[a] = "refused"
BY DEF AllProgress, Progress, Opened, TypeOK

\* Two executions that reached Gmail for one pending action are the same one
\* (claimPending's state recheck inside the claim batch).
LEMMA OneExecution ==
  ASSUME TypeOK, Linked, NEW a \in Activities, NEW b \in Activities,
         Sent(a), Sent(b), work[a] = work[b]
  PROVE  a = b
<1>1. ASSUME NEW r \in Runners, Sent(r) PROVE work[r] \in Calls /\ claim[work[r]] = r
  BY <1>1 DEF Linked
<1>2. ASSUME NEW c \in Calls, Sent(c) PROVE work[c] = c /\ claim[c] = None
  BY <1>2 DEF Linked, Claimed
<1> QED
  BY <1>1, <1>2, GateAssumption DEF Activities

\* One idempotency key stands for at most one request that left for Gmail.
THEOREM KeyIsUsedOnce == Spec => []AtMostOnePerKey
<1>1. IInv => AtMostOnePerKey
  <2> SUFFICES ASSUME IInv, NEW a \in Activities, NEW b \in Activities, Sent(a), Sent(b),
                      KeyOf[work[a]] # None, KeyOf[work[a]] = KeyOf[work[b]]
               PROVE  a = b
    BY DEF AtMostOnePerKey
  <2>1. ASSUME NEW x \in Activities, Sent(x), KeyOf[work[x]] # None
        PROVE  work[x] \in Calls /\ binding[KeyOf[work[x]]] = work[x]
    <3>1. opState[x] # "none" \/ x \in Calls
      BY <2>1 DEF IInv, Linked, Activities
    <3>2. work[x] \in Calls
      BY <3>1, HoldingWork DEF IInv, Linked
    <3>3. Tool(x) \in Recoverable /\ Tool(x) \in OneShot
      BY <2>1, <3>2, GateAssumption DEF Tool, OneShot
    <3>4. Holding(x)
      BY <2>1, <3>3 DEF IInv, AllProgress, Progress, Opened, Holding
    <3> QED
      BY <2>1, <3>2, <3>4 DEF IInv, Keyed
  <2>2. work[a] = work[b]
    BY <2>1
  <2> QED
    BY <2>2, OneExecution DEF IInv
<1> QED
  BY <1>1, InvariantHolds, PTL

\* One approval executes at most one action.
THEOREM ApprovalIsUsedOnce == Spec => []OnePerApproval
<1>1. IInv => OnePerApproval
  BY OneExecution DEF IInv, OnePerApproval, Activities
<1> QED
  BY <1>1, InvariantHolds, PTL

\* failed_safe is written only when Gmail provably did nothing, for every
\* executor that sends once (settleFailedSafe, recoverClaimed).
THEOREM FailedSafeMeansUndelivered == Spec => []FailedSafeIsSafe
<1>1. IInv => FailedSafeIsSafe
  BY SentOneShot DEF IInv, FailedSafeIsSafe, MayHave, Sent
<1> QED
  BY <1>1, InvariantHolds, PTL

\* executed is written only of a delivered message (settleExecuted,
\* settlePositive, reconciliation).
THEOREM ExecutedMeansDelivered == Spec => []ExecutedIsDelivered
<1>1. IInv => ExecutedIsDelivered
  <2> SUFFICES ASSUME IInv PROVE ExecutedIsDelivered
    OBVIOUS
  <2>1. \A a \in Activities : opState[a] = "executed" => wire[a] = "committed"
    BY DEF IInv, AllProgress, Progress
  <2>2. ASSUME NEW p \in Calls, pending[p] = "executed"
        PROVE  claim[p] # None /\ wire[claim[p]] = "committed"
    <3>1. claim[p] # None /\ opState[claim[p]] = "executed" /\ claim[p] \in Activities
      BY <2>2 DEF IInv, Linked, Claimed, TypeOK, Activities
    <3> QED
      BY <2>1, <3>1
  <2> QED
    BY <2>1, <2>2 DEF ExecutedIsDelivered
<1> QED
  BY <1>1, InvariantHolds, PTL

\* A staged file is attached to at most one request Gmail may have.
THEOREM FileIsDeliveredOnce == Spec => []OneDeliveryPerFile
<1>1. IInv => OneDeliveryPerFile
  <2> SUFFICES ASSUME IInv, NEW h \in Handles, NEW a \in Activities, NEW b \in Activities,
                      opState[a] # "none", h \in FilesOf[work[a]], MayHave(a), Tool(a) \in OneShot,
                      opState[b] # "none", h \in FilesOf[work[b]], MayHave(b), Tool(b) \in OneShot
               PROVE  a = b
    BY DEF OneDeliveryPerFile
  <2>1. ASSUME NEW x \in Activities, MayHave(x), Tool(x) \in OneShot, h \in FilesOf[work[x]]
        PROVE  x # None /\ (reserved[h] = x \/ spent[h] = x)
    <3>1. InUse(x) \/ opState[x] = "executed"
      BY <2>1, SentOneShot DEF IInv, MayHave, Sent, InUse
    <3> QED
      BY <2>1, <3>1, GateAssumption DEF IInv, Filed
  <2>2. reserved[h] # None => spent[h] = None
    BY DEF IInv, Filed
  <2> QED
    BY <2>1, <2>2
<1> QED
  BY <1>1, InvariantHolds, PTL

\* Every row of staging_objects agrees with the operation that attached it.
THEOREM ReservationsFollow == Spec => []ReservationFollowsOperation
<1>1. IInv => ReservationFollowsOperation
  <2> SUFFICES ASSUME IInv, NEW a \in Activities, opState[a] # "none", NEW h \in FilesOf[work[a]]
               PROVE  /\ reserved[h] = a <=> InUse(a)
                      /\ spent[h] = a <=> opState[a] = "executed"
    BY DEF ReservationFollowsOperation, InUse
  <2>1. h \in Handles
    BY HoldingWork, GateAssumption DEF IInv
  <2> QED
    BY <2>1 DEF IInv, Filed
<1> QED
  BY <1>1, InvariantHolds, PTL

\* A denied, withdrawn or expired action has no operation.
THEOREM WithdrawalIsFinal == Spec => []WithdrawnNeverRuns
<1>1. IInv => WithdrawnNeverRuns
  <2> SUFFICES ASSUME IInv, NEW p \in Calls, pending[p] \in {"denied", "cancelled", "expired"},
                      NEW r \in Runners, work[r] = p
               PROVE  opState[r] = "none" /\ ~Sent(r)
    BY DEF WithdrawnNeverRuns
  <2>1. claim[p] = None /\ r # None
    BY GateAssumption DEF IInv, Linked, Claimed, Activities
  <2> QED
    BY <2>1 DEF IInv, Linked
<1> QED
  BY <1>1, InvariantHolds, PTL

\* No request leaves while its operation is still claimed, provided no call
\* names update_label or delete_label, whose executors open nothing.
THEOREM MutationIsOpened ==
  ASSUME \A c \in Calls : ToolOf[c] # "relabel"
  PROVE  Spec => []NoMutationWhileClaimed
<1>1. IInv => NoMutationWhileClaimed
  <2> SUFFICES ASSUME IInv, NEW a \in Activities, opState[a] = "claimed", Sent(a) PROVE FALSE
    BY DEF NoMutationWhileClaimed
  <2>1. work[a] \in Calls
    BY HoldingWork DEF IInv
  <2>2. Tool(a) \in OneShot \cup {"label"}
    BY <2>1, GateAssumption DEF Tool, Tools
  <2>3. Tool(a) # "label"
    BY DEF IInv, AllProgress, Progress
  <2> QED
    BY <2>2, <2>3, SentOneShot DEF IInv
<1> QED
  BY <1>1, InvariantHolds, PTL

\* Outcomes are final: executed and failed_safe never change, and unknown
\* delivery changes only to executed, under protocol 2.
THEOREM OutcomesStay == Spec => OutcomesAreFinal
<1> DEFINE Final(a) ==
      /\ opState[a] \in {"executed", "failed_safe"} => opState'[a] = opState[a]
      /\ opState[a] = "delivery_unknown" =>
           \/ opState'[a] = "delivery_unknown"
           \/ opState'[a] = "executed" /\ opProto[a] = 2
      /\ opProto[a] = 2 => opProto'[a] = 2
<1>1. IInv /\ [Next]_vars => [\A a \in Activities : Final(a)]_vars
  <2> SUFFICES ASSUME IInv, [Next]_vars, NEW b \in Activities PROVE Final(b)
    OBVIOUS
  <2> USE DEF IInv, TypeOK, rows, Goto, Reply, At
  <2>1. ASSUME NEW a \in Activities, ActivityStep(a) PROVE Final(b)
    <3>1. CASE a # b
      BY <2>1, <3>1, OthersUnmoved DEF Own
    <3>2. CASE a = b
      <4>1. Progress(a)
        BY DEF AllProgress
      <4>2. CASE UNCHANGED <<opState, opProto>>
        BY <4>2
      <4>3. CASE Settlement(a)
        BY <3>2, <4>3 DEF Settlement, SettleExecuted, SettleFailedSafe, SettleUnknown,
           SettlePositive, RecordFailure, CanSettleExecuted, CanSettleFailedSafe,
           CanSettlePositive, CanRecordFailure
      <4>4. CASE a \in Calls /\ CallStep(a)
        BY <3>2, <4>1, <4>4 DEF CallStep, Lookup, Decide, Ask, Allow, LostRace, Progress, Early
      <4>5. CASE a \in Runners /\ ((\E p \in Calls : PickApproved(a, p)) \/ Claim(a))
        BY <3>2, <4>1, <4>5 DEF PickApproved, Claim, Progress, Early
      <4>6. CASE FailEarly(a) \/ OpenRecoverable(a) \/ OpenJournaled(a) \/ OpenNothing(a)
                 \/ Send(a) \/ Respond(a) \/ Catch(a) \/ Promote(a)
        BY <3>2, <4>6 DEF FailEarly, OpenRecoverable, CanBeginRecoverable, OpenJournaled,
           OpenNothing, Send, Respond, Catch, Promote
      <4> QED
        BY <2>1, <4>1, <4>2, <4>3, <4>4, <4>5, <4>6, SettlementSites
    <3> QED
      BY <3>1, <3>2
  <2>2. ASSUME NEW p \in Calls, PendingStep(p) PROVE Final(b)
    BY <2>2, PendingStepFrame
  <2>3. CASE UNCHANGED vars
    BY <2>3 DEF vars
  <2> QED
    BY <2>1, <2>2, <2>3, StepCases
<1> QED
  BY <1>1, InvariantHolds, PTL DEF Spec, OutcomesAreFinal

-----------------------------------------------------------------------------
(***************************************************************************)
(* What a client is told.  An answer is the last thing a request does, and *)
(* a key leads to a call that names it.  That an error may be repeated     *)
(* follows from the inductive invariant alone: what has left is on record, *)
(* and its key leads back to it.                                           *)
(***************************************************************************)
Delivered(b, a) ==
  /\ wire[b] = "committed"
  /\ a = b \/ (KeyOf[work[a]] # None /\ KeyOf[work[b]] = KeyOf[work[a]])

Told(a) ==
  /\ answer[a] # "none" => pc[a] = "done" /\ work[a] # None
  /\ work[a] # None /\ Tool(a) \in Recoverable =>
       /\ answer[a] = "refused" => ~Sent(a)
       /\ answer[a] = "executed" => \E b \in Activities : Delivered(b, a)

Named == \A k \in Keys : binding[k] # None => KeyOf[binding[k]] = k

AnswerInv == Named /\ \A a \in Activities : Told(a)

LEMMA AnswerInit == Init => AnswerInv
BY DEF Init, AnswerInv, Named, Told

\* A key is bound only by a call that names it (insertKey).
LEMMA NamedStep ==
  ASSUME TypeOK, Named, [Next]_vars
  PROVE  Named'
<1>1. CASE UNCHANGED binding
  BY <1>1 DEF Named
<1>2. CASE \E c \in Calls : Bind(c)
  BY <1>2 DEF Named, Bind
<1>3. ASSUME NEW a \in Activities, ActivityStep(a)
      PROVE  UNCHANGED binding \/ (a \in Calls /\ Bind(a))
  <2> USE DEF rows
  <2>1. CASE a \in Calls /\ CallStep(a)
    BY <2>1 DEF CallStep, Lookup, Decide, Ask, Allow, LostRace
  <2>2. CASE a \in Runners /\ RunnerStep(a)
    BY <2>2 DEF RunnerStep, PickApproved, Claim, Recheck, SettleFailedSafe
  <2>3. CASE ExecutorStep(a)
    BY <2>3 DEF ExecutorStep, FailEarly, OpenRecoverable, OpenJournaled, OpenNothing, Send,
       Respond, Catch, Record, InternalError, ReleaseSafe, ReportUnknown, Settle, SettleExecuted,
       SettleFailedSafe, SettleUnknown, SettlePositive, RecordFailure
  <2>4. CASE Crash(a) \/ GmailCommits(a) \/ GmailRefuses(a) \/ CronStep(a) \/ Reconcile(a)
    BY <2>4 DEF Crash, GmailCommits, GmailRefuses, CronStep, Reconcile, Promote,
       RecoverClaimed, RecordStale, SettleFailedSafe, SettlePositive, RecordFailure
  <2> QED
    BY <1>3, <2>1, <2>2, <2>3, <2>4 DEF ActivityStep
<1> QED
  BY <1>1, <1>2, <1>3, StepCases, PendingStepFrame DEF vars, rows

\* A delivered request stays delivered, for the same message.
LEMMA DeliveredStays ==
  ASSUME TypeOK, AllProgress, Linked, [Next]_vars,
         NEW a \in Activities, NEW b \in Activities, Delivered(b, a), work'[a] = work[a]
  PROVE  Delivered(b, a)'
<1>1. wire[b] = "committed" /\ Sent(b)
  BY DEF Delivered, Sent
<1>2. pc[b] \notin Early \cup Ready \cup {"opened"}
  BY <1>1 DEF AllProgress, Progress
<1>3. ASSUME NEW x \in Activities, ActivityStep(x)
      PROVE  wire'[b] = wire[b] /\ work'[b] = work[b]
  <2>1. CASE x # b
    BY <1>3, <2>1, OthersUnmoved DEF Own
  <2>2. CASE x = b
    <3> USE DEF rows
    <3>1. CASE b \in Calls /\ CallStep(b)
      BY <3>1, <1>2 DEF CallStep, Lookup, Decide, Ask, Allow, LostRace
    <3>2. CASE b \in Runners /\ RunnerStep(b)
      BY <3>2, <1>2 DEF RunnerStep, PickApproved, Claim, Recheck, At, Early
    <3>3. CASE ExecutorStep(b)
      BY <3>3, <1>2 DEF ExecutorStep, FailEarly, OpenRecoverable, OpenJournaled, OpenNothing,
         Send, Respond, Catch, Record, InternalError, ReleaseSafe, ReportUnknown, Settle, At
    <3>4. CASE Crash(b) \/ GmailCommits(b) \/ GmailRefuses(b) \/ CronStep(b) \/ Reconcile(b)
      BY <3>4, <1>1 DEF Crash, GmailCommits, GmailRefuses, CronStep, Reconcile, Promote,
         RecoverClaimed, RecordStale
    <3> QED
      BY <1>3, <2>2, <3>1, <3>2, <3>3, <3>4 DEF ActivityStep
  <2> QED
    BY <2>1, <2>2
<1>4. wire'[b] = wire[b] /\ work'[b] = work[b]
  BY <1>3, StepCases, PendingStepFrame DEF vars
<1> QED
  BY <1>4 DEF Delivered

\* A replay answers "executed" only of an operation whose message was delivered,
\* of the call that holds the key or of its approval (replayFor).
LEMMA ReplayIsTrue ==
  ASSUME TypeOK, AllProgress, Linked, Named, NEW c \in Calls, ReplayFor(c) = "executed"
  PROVE  \E b \in Activities : Delivered(b, c)
<1> DEFINE d == HolderOf(c)
           o == OperationOf(d)
<1>1. d # None /\ o # None /\ opState[o] = "executed"
  BY DEF ReplayFor
<1>2. KeyOf[c] # None /\ KeyOf[c] \in Keys /\ d = binding[KeyOf[c]] /\ d \in Calls
  BY <1>1, GateAssumption DEF HolderOf, TypeOK
<1>3. KeyOf[d] = KeyOf[c] /\ work[c] = c
  BY <1>1, <1>2 DEF Named, Linked
<1>4. o \in Activities /\ work[o] = d
  BY <1>1, <1>2 DEF OperationOf, Linked, TypeOK, Activities
<1>5. wire[o] = "committed"
  BY <1>1, <1>4 DEF AllProgress, Progress
<1>6. Delivered(o, c)
  BY <1>2, <1>3, <1>4, <1>5 DEF Delivered
<1> QED
  BY <1>4, <1>6

\* Nobody but the request itself answers, moves or sends for it.
LEMMA ToldFrame ==
  ASSUME IInv, [Next]_vars, NEW a \in Activities, Told(a),
         UNCHANGED <<pc[a], work[a], answer[a]>>, Sent(a)' = Sent(a)
  PROVE  Told(a)'
<1>1. \A b \in Activities : Delivered(b, a) => Delivered(b, a)'
  BY DeliveredStays DEF IInv
<1> QED
  BY <1>1 DEF Told, Tool

\* A request tells the truth about itself: it is refused only before it sends.
LEMMA ToldOwn ==
  ASSUME IInv, IInv', [Next]_vars, Named, NEW a \in Activities, Told(a), ActivityStep(a)
  PROVE  Told(a)'
<1> USE DEF At, Goto, Reply
<1>1. TypeOK /\ Progress(a) /\ Linked /\ AllProgress
  BY DEF IInv, AllProgress
<1>2. pc \in [Activities -> Steps] /\ answer \in [Activities -> Answers] /\ work \in [Activities -> Calls \cup {None}]
  BY <1>1 DEF TypeOK
<1>3. pc[a] # "start" => work[a] # None
  BY <1>1, GateAssumption DEF Linked, Activities
<1>4. pc[a] # "done" => answer[a] = "none"
  BY DEF Told
<1>5. ASSUME UNCHANGED <<work, answer>>, answer[a] = "none"
      PROVE  Told(a)'
  BY <1>5 DEF Told, Tool
<1>6. ASSUME NEW r \in Answers, Reply(a, r), UNCHANGED work, pc[a] # "done", work[a] # None,
             Tool(a) \in Recoverable =>
               /\ r = "refused" => ~Sent(a)'
               /\ r = "executed" => \E b \in Activities : Delivered(b, a)'
      PROVE  Told(a)'
  BY <1>2, <1>6 DEF Told, Tool
<1>7. ASSUME \E b \in Activities : Delivered(b, a), UNCHANGED work
      PROVE  \E b \in Activities : Delivered(b, a)'
  BY <1>1, <1>7, DeliveredStays
<1>8. ASSUME a \in Calls, CallStep(a) PROVE Told(a)'
  <2>1. work[a] = a /\ work[a] # None /\ ~Sent(a) /\ UNCHANGED <<work, wire>> /\ pc[a] # "done"
    BY <1>1, <1>8, GateAssumption DEF CallStep, Lookup, Decide, Ask, Allow, LostRace, Linked, Progress, Early, Activities
  <2>2. ~Sent(a)'
    BY <2>1 DEF Sent
  <2>3. ReplayFor(a) \in Answers \cup {"fresh"}
    BY DEF ReplayFor, Answers
  <2>4. ReplayFor(a) = "executed" => \E b \in Activities : Delivered(b, a)'
    BY <1>1, <1>7, <1>8, <2>1, ReplayIsTrue
  <2>5. CASE Lookup(a)
    BY <1>2, <1>4, <1>5, <1>6, <2>1, <2>2, <2>3, <2>4, <2>5 DEF Lookup
  <2>6. CASE LostRace(a)
    <3>1. /\ ReplayFor(a) = "fresh" => Reply(a, "refused")
          /\ ReplayFor(a) # "fresh" => Reply(a, ReplayFor(a))
      BY <2>6 DEF LostRace
    <3> QED
      BY <1>6, <2>1, <2>2, <2>3, <2>4, <3>1 DEF Answers
  <2>7. CASE Decide(a)
    BY <1>2, <1>4, <1>5, <1>6, <2>1, <2>2, <2>7 DEF Decide, Answers
  <2>8. CASE Ask(a)
    BY <1>2, <1>4, <1>5, <1>6, <2>1, <2>2, <2>8 DEF Ask, Answers
  <2>9. CASE Allow(a)
    BY <1>2, <1>4, <1>5, <1>6, <2>1, <2>2, <2>9 DEF Allow, Answers
  <2> QED
    BY <1>8, <2>5, <2>6, <2>7, <2>8, <2>9 DEF CallStep
<1>9. ASSUME a \in Runners, RunnerStep(a) PROVE Told(a)'
  <2>1. ~Sent(a) /\ UNCHANGED wire /\ pc[a] # "done"
    BY <1>1, <1>9 DEF RunnerStep, PickApproved, Claim, Recheck, Progress, Early, Ready
  <2>2. ~Sent(a)'
    BY <2>1 DEF Sent
  <2>3. CASE \E p \in Calls : PickApproved(a, p)
    BY <1>2, <1>4, <2>3 DEF PickApproved, Told
  <2>4. CASE Claim(a)
    BY <1>2, <1>3, <1>4, <1>5, <1>6, <2>2, <2>4 DEF Claim, Answers
  <2>5. CASE Recheck(a)
    BY <1>2, <1>3, <1>4, <1>5, <1>6, <2>2, <2>5 DEF Recheck, Answers
  <2> QED
    BY <1>9, <2>3, <2>4, <2>5 DEF RunnerStep
<1>10. ASSUME ExecutorStep(a) PROVE Told(a)'
  <2>1. work[a] # None /\ UNCHANGED work /\ pc[a] # "done" /\ answer[a] = "none"
    BY <1>3, <1>4, <1>10 DEF ExecutorStep, FailEarly, OpenRecoverable, OpenJournaled, OpenNothing,
       Send, Respond, Catch, Record, InternalError, ReleaseSafe, ReportUnknown, Settle
  <2>2. CASE FailEarly(a) \/ OpenRecoverable(a) \/ OpenJournaled(a) \/ OpenNothing(a)
             \/ Send(a) \/ Respond(a)
    <3>1. UNCHANGED answer
      BY <2>2 DEF FailEarly, OpenRecoverable, OpenJournaled, OpenNothing, Send, Respond
    <3> QED
      BY <1>5, <2>1, <3>1
  <2>3. CASE Catch(a)
    <3>1. Reply(a, "error") \/ UNCHANGED answer
      BY <2>3 DEF Catch
    <3> QED
      BY <1>5, <1>6, <2>1, <3>1 DEF Answers
  <2>4. CASE Record(a)
    <3>1. opState[a] = "executed" => Delivered(a, a)
      BY <1>1 DEF Progress, Delivered
    <3>2. opState[a] = "executed" => \E b \in Activities : Delivered(b, a)'
      BY <1>7, <2>1, <3>1
    <3>3. \/ opState[a] = "executed" /\ Reply(a, "executed")
          \/ Reply(a, "delivery_unknown")
          \/ Reply(a, "error")
      BY <2>4 DEF Record, InternalError
    <3> QED
      BY <1>6, <2>1, <3>2, <3>3 DEF Answers
  <2>5. CASE ReleaseSafe(a) \/ ReportUnknown(a)
    BY <1>6, <2>1, <2>5 DEF InternalError, ReleaseSafe, ReportUnknown, Answers
  <2>6. CASE Settle(a)
    <3>1. wire[a] = "committed" /\ Delivered(a, a)
      BY <1>1, <2>6 DEF Settle, Progress, Delivered
    <3>2. \E b \in Activities : Delivered(b, a)'
      BY <1>7, <2>1, <3>1
    <3>3. Reply(a, "executed") \/ Reply(a, "error") \/ UNCHANGED answer
      BY <2>6 DEF Settle, InternalError
    <3> QED
      BY <1>5, <1>6, <2>1, <3>2, <3>3 DEF Answers
  <2> QED
    BY <1>10, <2>2, <2>3, <2>4, <2>5, <2>6 DEF ExecutorStep
<1>11. ASSUME Crash(a) PROVE Told(a)'
  BY <1>2, <1>4, <1>5, <1>11 DEF Crash
<1>12. ASSUME GmailCommits(a) \/ GmailRefuses(a) \/ CronStep(a) \/ Reconcile(a) PROVE Told(a)'
  <2>1. UNCHANGED <<pc, work, answer>> /\ Sent(a)' = Sent(a)
    BY <1>1, <1>12 DEF GmailCommits, GmailRefuses, CronStep, Reconcile, Promote, RecoverClaimed,
       RecordStale, Sent, TypeOK
  <2> QED
    BY <2>1, ToldFrame
<1> QED
  BY <1>8, <1>9, <1>10, <1>11, <1>12 DEF ActivityStep

\* No request answers for another.
LEMMA AnswersAreOwn ==
  ASSUME TypeOK, NEW a \in Activities, NEW b \in Activities, a # b, ActivityStep(a)
  PROVE  answer'[b] = answer[b]
<1> USE DEF TypeOK, Goto, Reply
<1>1. CASE a \in Calls /\ CallStep(a)
  BY <1>1 DEF CallStep, Lookup, Decide, Ask, Allow, LostRace
<1>2. CASE a \in Runners /\ RunnerStep(a)
  BY <1>2 DEF RunnerStep, PickApproved, Claim, Recheck
<1>3. CASE ExecutorStep(a)
  BY <1>3 DEF ExecutorStep, FailEarly, OpenRecoverable, OpenJournaled, OpenNothing, Send,
     Respond, Catch, Record, InternalError, ReleaseSafe, ReportUnknown, Settle
<1>4. CASE Crash(a) \/ GmailCommits(a) \/ GmailRefuses(a) \/ CronStep(a) \/ Reconcile(a)
  BY <1>4 DEF Crash, GmailCommits, GmailRefuses, CronStep, Reconcile, Promote,
     RecoverClaimed, RecordStale
<1> QED
  BY <1>1, <1>2, <1>3, <1>4 DEF ActivityStep

LEMMA AnswerStep ==
  ASSUME IInv, IInv', AnswerInv, [Next]_vars
  PROVE  AnswerInv'
<1>1. TypeOK /\ Named /\ \A a \in Activities : Told(a)
  BY DEF IInv, AnswerInv
<1>2. ASSUME NEW b \in Activities, NEW a \in Activities, ActivityStep(a) PROVE Told(b)'
  <2>1. CASE a = b
    BY <1>1, <1>2, <2>1, ToldOwn
  <2>2. CASE a # b
    <3>1. UNCHANGED <<pc[b], work[b], answer[b]>> /\ Sent(b)' = Sent(b)
      BY <1>1, <1>2, <2>2, OthersUnmoved, AnswersAreOwn DEF Own, Sent
    <3> QED
      BY <1>1, <3>1, ToldFrame
  <2> QED
    BY <2>1, <2>2
<1>3. ASSUME NEW b \in Activities, UNCHANGED <<pc, work, answer, wire>> PROVE Told(b)'
  <2>1. UNCHANGED <<pc[b], work[b], answer[b]>> /\ Sent(b)' = Sent(b)
    BY <1>3 DEF Sent
  <2> QED
    BY <1>1, <2>1, ToldFrame
<1>4. \A b \in Activities : Told(b)'
  BY <1>2, <1>3, StepCases, PendingStepFrame DEF vars, rows
<1> QED
  BY <1>1, <1>4, NamedStep DEF AnswerInv

\* What may have left is on record, and under its key the same request is
\* answered from it: the key leads to the call, and the call to the operation.
LEMMA SentStaysOnRecord ==
  ASSUME IInv, NEW a \in Activities, work[a] # None, Tool(a) \in Recoverable, Sent(a)
  PROVE  StaysOnRecord(a)
<1> DEFINE c == work[a]
<1>1. opState[a] \in {"executing", "delivery_unknown", "executed"}
  <2>1. Progress(a) /\ Tool(a) \in OneShot
    BY DEF IInv, AllProgress, OneShot
  <2>2. opProto[a] = 2
    BY <2>1 DEF Progress, Opened
  <2> QED
    BY <2>1, <2>2 DEF Progress
<1>2. c \in Calls
  BY DEF IInv, TypeOK
<1>3. OperationOf(c) = a
  <2>1. CASE a \in Runners
    BY <1>1, <2>1, GateAssumption DEF IInv, Linked, OperationOf, Claimed, Activities
  <2>2. CASE a \in Calls
    BY <1>1, <2>2 DEF IInv, Linked, OperationOf
  <2> QED
    BY <2>1, <2>2 DEF Activities
<1>4. ASSUME KeyOf[c] # None PROVE ReplayFor(c) \in {"executed", "delivery_unknown"}
  <2>1. HolderOf(c) = c
    BY <1>1, <1>4 DEF IInv, Keyed, Holding, HolderOf
  <2>2. c # None /\ a # None
    BY <1>2, GateAssumption DEF Activities
  <2> QED
    BY <1>1, <1>3, <2>1, <2>2 DEF ReplayFor
<1> QED
  BY <1>1, <1>4 DEF StaysOnRecord

\* What the client of a recoverable send is told agrees with Gmail: a refusal
\* means nothing was sent, "executed" that the message was delivered, and an
\* error or delivery_unknown that asking again under the key sends nothing
\* more if the message may have left.
THEOREM AnswersAreTruthful == Spec => []AnswerIsTruthful
<1>1. IInv /\ AnswerInv => AnswerIsTruthful
  BY SentStaysOnRecord DEF AnswerInv, Told, Delivered, AnswerIsTruthful
<1> QED
  BY <1>1, AnswerInit, AnswerStep, InvariantHolds, PTL DEF Spec

-----------------------------------------------------------------------------
(***************************************************************************)
(* Gate implements Delivery, for every set of calls, runners, keys and     *)
(* handles: each step is a step of Delivery's or none, under the           *)
(* inductive invariant above.                                              *)
(***************************************************************************)

\* A step of one activity leaves every other attempt as it was.
LEMMA OtherAttempts ==
  ASSUME TypeOK, NEW a \in Activities, NEW b \in Activities, a # b, ActivityStep(a)
  PROVE  AttemptOf(b)' = AttemptOf(b)
BY OthersUnmoved DEF Own, AttemptOf, Tracked, Tool

\* An attempt that begins finds no other standing for the same message, be it
\* in the batch of the call (the upsert of idempotency_keys) or in the claim of
\* an approved action.
LEMMA NoneStanding ==
  ASSUME IInv, NEW a \in Activities, NEW b \in Activities, Tracked(b), Holding(b),
         \/ a \in Calls /\ Allow(a) /\ CanBind(a)
         \/ a \in Runners /\ Claim(a) /\ pending[work[a]] = "approved"
  PROVE  <<work[b], work[a]>> \notin SameMessage
<1>1. work[b] \in Calls /\ opState[b] # "none"
  BY HoldingWork DEF IInv, Tracked
<1>2. CASE a \in Calls /\ Allow(a) /\ CanBind(a)
  <2>1. work[a] = a /\ pc[a] = "allowing"
    BY <1>2 DEF IInv, Linked, Allow, At
  <2>2. opState[a] = "none" /\ pending[a] = "none" /\ claim[a] = None
    BY <1>2, <2>1 DEF IInv, AllProgress, Progress, Early, Linked, Claimed
  <2>3. work[b] # a
    BY <1>1, <1>2, <2>1, <2>2, GateAssumption DEF IInv, Linked, Activities
  <2>4. KeyOf[a] # None => KeyOf[work[b]] # KeyOf[a]
    BY <1>2, RebindFindsNothingOpen DEF IInv
  <2> QED
    BY <2>1, <2>3, <2>4 DEF SameMessage
<1>3. CASE a \in Runners /\ Claim(a) /\ pending[work[a]] = "approved"
  <2> DEFINE p == work[a]
  <2>1. p \in Calls
    BY <1>3 DEF IInv, TypeOK, Linked, Claim, At
  <2>2. claim[p] = None /\ opState[p] = "none"
    BY <1>3, <2>1 DEF IInv, Linked, Claimed
  <2>3. work[b] # p
    BY <1>1, <2>1, <2>2, GateAssumption DEF IInv, Linked, Activities
  <2>4. ASSUME KeyOf[p] # None, KeyOf[work[b]] = KeyOf[p] PROVE FALSE
    <3>1. binding[KeyOf[p]] = p
      BY <1>3, <2>1, <2>4 DEF IInv, Keyed
    <3>2. binding[KeyOf[work[b]]] = work[b]
      BY <2>4 DEF IInv, Keyed
    <3> QED
      BY <2>3, <2>4, <3>1, <3>2
  <2> QED
    BY <2>3, <2>4 DEF SameMessage
<1> QED
  BY <1>2, <1>3

\* What a step may do to its own operation and message, the beginning apart.
LEMMA OwnAttempt ==
  ASSUME IInv, NEW a \in Activities, ActivityStep(a), Tracked(a),
         <<opState[a], wire[a]>>' # <<opState[a], wire[a]>>
  PROVE  /\ work'[a] = work[a]
         /\ \/ /\ opState'[a] = opState[a]
               /\ opState[a] \in {"executing", "delivery_unknown", "executed"}
               /\ \/ wire[a] = "unsent" /\ wire'[a] = "inflight" /\ opState[a] # "executed"
                  \/ wire[a] = "inflight" /\ wire'[a] \in {"committed", "refused"}
            \/ /\ wire'[a] = wire[a]
               /\ \/ opState[a] = "claimed" /\ opState'[a] = "executing"
                  \/ opState[a] = "claimed" /\ opState'[a] = "failed_safe" /\ wire[a] = "unsent"
                  \/ opState[a] = "executing" /\ opState'[a] = "delivery_unknown"
                  \/ /\ opState[a] \in {"executing", "delivery_unknown"}
                     /\ opState'[a] = "executed" /\ wire[a] = "committed"
<1> USE DEF IInv, TypeOK, rows, Goto, Reply, At
<1>1. Progress(a)
  BY DEF AllProgress
<1>2. Tool(a) \in Recoverable /\ Tool(a) \in OneShot /\ opState[a] # "none"
  BY DEF Tracked, OneShot
<1>3. CASE a \in Calls /\ CallStep(a)
  BY <1>1, <1>2, <1>3 DEF CallStep, Lookup, Decide, Ask, Allow, LostRace, Progress, Early
<1>4. CASE a \in Runners /\ ((\E p \in Calls : PickApproved(a, p)) \/ Claim(a))
  BY <1>1, <1>2, <1>4 DEF PickApproved, Claim, Progress, Early
<1>5. CASE FailEarly(a) \/ Respond(a) \/ Catch(a) \/ OpenNothing(a) \/ OpenJournaled(a)
  BY <1>2, <1>5 DEF FailEarly, Respond, Catch, OpenNothing, OpenJournaled, Recoverable
<1>6. CASE OpenRecoverable(a)
  BY <1>6 DEF OpenRecoverable, CanBeginRecoverable
<1>7. CASE Send(a)
  BY <1>1, <1>2, <1>7 DEF Send, Progress, Facing, Opened, Sent, Early, WireStates, OpStates
<1>8. CASE Promote(a)
  BY <1>1, <1>2, <1>8 DEF Promote, Progress
<1>9. CASE Settlement(a) /\ UNCHANGED <<lapsed, wire, work>>
  <2>1. wire[a] # "unsent" => opProto[a] = 2
    BY <1>1, <1>2 DEF Progress, Opened, Sent
  <2> USE DEF Progress
  <2>2. CASE CanSettleExecuted(a) /\ SettleExecuted(a)
    BY <1>1, <1>2, <2>2 DEF CanSettleExecuted
  <2>3. CASE CanSettleFailedSafe(a) /\ SettleFailedSafe(a)
    BY <1>1, <1>2, <1>9, <2>1, <2>3 DEF CanSettleFailedSafe, SettleFailedSafe
  <2>4. CASE SettleUnknown(a)
    BY <1>9, <2>4 DEF SettleUnknown
  <2>6. CASE CanRecordFailure(a) /\ RecordFailure(a)
    BY <1>9, <2>6 DEF CanRecordFailure, RecordFailure
  <2>5. CASE CanSettlePositive(a) /\ SettlePositive(a)
    <3>1. opState[a] \in {"executing", "delivery_unknown"} /\ opState'[a] = "executed"
      BY <2>5 DEF CanSettlePositive, SettlePositive
    <3>2. Progress(a)'
      BY ProgressOwn DEF AllProgress
    <3> QED
      BY <1>9, <3>1, <3>2
  <2> QED
    BY <1>9, <2>2, <2>3, <2>4, <2>5, <2>6 DEF Settlement
<1>10. CASE Crash(a) \/ GmailCommits(a) \/ GmailRefuses(a)
  <2>1. wire[a] # "unsent" => opState[a] \in {"executing", "delivery_unknown", "executed"}
    BY <1>1, <1>2 DEF Progress, Opened, Sent
  <2> QED
    BY <1>10, <2>1 DEF Crash, GmailCommits, GmailRefuses, WireStates
<1>11. CASE UNCHANGED rows /\ UNCHANGED wire
  BY <1>11
<1>12. CASE UNCHANGED rows
  BY <1>3, <1>4, <1>5, <1>6, <1>7, <1>8, <1>10, <1>11, <1>12 DEF ActivityStep, RunnerStep, ExecutorStep,
     CronStep, Recheck, Record, InternalError, ReleaseSafe, ReportUnknown, Settle,
     RecoverClaimed, RecordStale,
     Reconcile
<1> QED
  BY <1>1, <1>3, <1>4, <1>5, <1>6, <1>7, <1>8, <1>9, <1>12, SettlementSites

\* An operation is opened by the allow batch of its call or by the claim of an
\* approved action, and is then claimed, with nothing sent.
LEMMA Beginning ==
  ASSUME IInv, NEW a \in Activities, ActivityStep(a), ~Tracked(a), Tracked(a)'
  PROVE  /\ work'[a] = work[a] /\ work[a] \in Calls
         /\ opState'[a] = "claimed"
         /\ wire'[a] = "unsent"
         /\ \/ a \in Calls /\ Allow(a) /\ CanBind(a)
            \/ a \in Runners /\ Claim(a) /\ pending[work[a]] = "approved"
<1> USE DEF IInv, TypeOK, rows, Goto, Reply, At
<1>1. Progress(a)
  BY DEF AllProgress
<1>2. CASE a \in Calls /\ CallStep(a)
  <2>1. work[a] = a
    BY <1>2 DEF Linked
  <2> QED
    BY <1>1, <1>2, <2>1 DEF CallStep, Lookup, Decide, Ask, Allow, LostRace, Progress, Early, Tracked, Tool, Sent
<1>3. CASE a \in Runners /\ RunnerStep(a)
  <2>1. CASE \E p \in Calls : PickApproved(a, p)
    BY <1>1, <2>1 DEF PickApproved, Progress, Early, Tracked
  <2>2. CASE Claim(a)
    <3>1. work[a] \in Calls
      BY <1>3, <2>2 DEF Linked, Claim
    <3> QED
      BY <1>1, <1>3, <2>2, <3>1 DEF Claim, Progress, Early, Tracked, Tool, Sent
  <2>3. CASE Recheck(a)
    BY <2>3 DEF Recheck, SettleFailedSafe, CanSettleFailedSafe, Tracked, Tool
  <2> QED
    BY <1>3, <2>1, <2>2, <2>3 DEF RunnerStep
<1>4. CASE ExecutorStep(a) \/ Crash(a) \/ CronStep(a) \/ Reconcile(a)
           \/ GmailCommits(a) \/ GmailRefuses(a)
  <2>1. CASE \/ FailEarly(a) \/ OpenRecoverable(a) \/ OpenJournaled(a) \/ OpenNothing(a)
             \/ Send(a) \/ Respond(a) \/ Catch(a) \/ Crash(a) \/ Promote(a)
             \/ GmailCommits(a) \/ GmailRefuses(a)
    BY <2>1 DEF FailEarly, OpenRecoverable, OpenJournaled, OpenNothing, CanBeginRecoverable,
       Send, Respond, Catch, Crash, Promote, GmailCommits, GmailRefuses, Tracked, Tool
  <2>2. CASE Record(a) \/ ReleaseSafe(a) \/ ReportUnknown(a) \/ Settle(a)
             \/ RecoverClaimed(a) \/ RecordStale(a) \/ Reconcile(a)
    BY <2>2 DEF Record, InternalError, ReleaseSafe, ReportUnknown, Settle,
     RecoverClaimed, RecordStale,
       Reconcile, SettleExecuted, SettleFailedSafe, SettleUnknown, SettlePositive, RecordFailure,
       CanSettleExecuted, CanSettleFailedSafe, CanSettlePositive, CanRecordFailure, Tracked, Tool
  <2> QED
    BY <1>4, <2>1, <2>2 DEF ExecutorStep, CronStep
<1> QED
  BY <1>2, <1>3, <1>4 DEF ActivityStep

\* What an activity works on is chosen when it starts.
LEMMA WorkIsKept ==
  ASSUME TypeOK, NEW a \in Activities, ActivityStep(a), pc[a] # "start"
  PROVE  work'[a] = work[a]
<1> USE DEF rows, At
<1>1. CASE a \in Calls /\ CallStep(a)
  BY <1>1 DEF CallStep, Lookup, Decide, Ask, Allow, LostRace
<1>2. CASE a \in Runners /\ RunnerStep(a)
  BY <1>2 DEF RunnerStep, PickApproved, Claim, Recheck
<1>3. CASE ExecutorStep(a)
  BY <1>3 DEF ExecutorStep, FailEarly, OpenRecoverable, OpenJournaled, OpenNothing, Send, Respond,
     Catch, Record, InternalError, ReleaseSafe, ReportUnknown, Settle
<1>4. CASE Crash(a) \/ CronStep(a) \/ Reconcile(a) \/ GmailCommits(a) \/ GmailRefuses(a)
  BY <1>4 DEF Crash, CronStep, Promote, RecoverClaimed, RecordStale, Reconcile, GmailCommits, GmailRefuses
<1> QED
  BY <1>1, <1>2, <1>3, <1>4 DEF ActivityStep

\* An operation of a recoverable send stays one, for the same call.
LEMMA TrackedStays ==
  ASSUME IInv, NEW a \in Activities, ActivityStep(a), Tracked(a)
  PROVE  work'[a] = work[a] /\ opState'[a] \in OpStates \ {"none"}
<1>1. CASE <<opState[a], wire[a]>>' = <<opState[a], wire[a]>>
  <2>1. pc[a] # "start"
    BY DEF IInv, AllProgress, Progress, Early, Tracked
  <2>2. work'[a] = work[a]
    BY <2>1, WorkIsKept DEF IInv
  <2> QED
    BY <1>1, <2>2 DEF IInv, TypeOK, Tracked
<1> QED
  BY <1>1, OwnAttempt DEF OpStates

Mapped == [a \in Activities |-> AttemptOf(a)]

LEMMA PromiseInit == Init => Promise!Init
BY DEF Init, Promise!Init, AttemptOf, Tracked

LEMMA PromiseStep == IInv /\ [Next]_vars => Promise!Next
<1> SUFFICES ASSUME IInv, [Next]_vars PROVE Promise!Next
  OBVIOUS
<1>1. CASE UNCHANGED Mapped
  BY <1>1 DEF Mapped, Promise!Next, Promise!Wait
<1>2. ASSUME NEW a \in Activities, ActivityStep(a), AttemptOf(a)' # AttemptOf(a) PROVE Promise!Next
  <2>1. Mapped' = [Mapped EXCEPT ![a] = AttemptOf(a)']
    BY <1>2, OtherAttempts DEF Mapped, IInv
  <2>2. CASE ~Tracked(a)
    <3>1. Tracked(a)'
      BY <1>2, <2>2 DEF AttemptOf
    <3>2. /\ work'[a] = work[a] /\ work[a] \in Calls /\ opState'[a] = "claimed" /\ wire'[a] = "unsent"
          /\ \/ a \in Calls /\ Allow(a) /\ CanBind(a)
             \/ a \in Runners /\ Claim(a) /\ pending[work[a]] = "approved"
      BY <1>2, <2>2, <3>1, Beginning
    <3>3. Mapped[a] = [for |-> None, said |-> "none", gmail |-> "unsent"]
      BY <2>2 DEF Mapped, AttemptOf
    <3>4. AttemptOf(a)' = [for |-> work[a], said |-> "open", gmail |-> "unsent"]
      BY <3>1, <3>2 DEF AttemptOf, Said, OpStates
    <3>5. Promise!Becomes(a, work[a], "open", "unsent")
      BY <2>1, <3>4 DEF Promise!Becomes, Mapped
    <3>6. ASSUME NEW b \in Activities, Promise!Standing(b)
          PROVE  <<Mapped[b].for, work[a]>> \notin SameMessage
      <4>1. Tracked(b) /\ Holding(b) /\ Mapped[b].for = work[b]
        BY <3>6 DEF Promise!Standing, Mapped, AttemptOf, Said, Holding, IInv, TypeOK, OpStates
      <4> QED
        BY <3>2, <4>1, NoneStanding
    <3>7. Promise!Begin(a)
      BY <3>2, <3>3, <3>5, <3>6 DEF Promise!Begin, Mapped
    <3> QED
      BY <1>2, <3>7 DEF Promise!Next
  <2>3. CASE Tracked(a)
    <3>1. work[a] \in Calls /\ opState[a] \in OpStates
      BY <2>3, HoldingWork DEF Tracked, IInv, TypeOK
    <3>2. work'[a] = work[a] /\ opState'[a] \in OpStates \ {"none"}
      BY <1>2, <2>3, <3>1, TrackedStays
    <3>3. Tracked(a)'
      BY <2>3, <3>2 DEF Tracked, Tool
    <3>4. /\ Mapped[a] = [for |-> work[a], said |-> Said[opState[a]], gmail |-> wire[a]]
          /\ AttemptOf(a)' = [for |-> work[a], said |-> Said[opState'[a]], gmail |-> wire'[a]]
      BY <2>3, <3>2, <3>3 DEF Mapped, AttemptOf
    <3>5. /\ work'[a] = work[a]
          /\ \/ /\ opState'[a] = opState[a]
                /\ opState[a] \in {"executing", "delivery_unknown", "executed"}
                /\ \/ wire[a] = "unsent" /\ wire'[a] = "inflight" /\ opState[a] # "executed"
                   \/ wire[a] = "inflight" /\ wire'[a] \in {"committed", "refused"}
             \/ /\ wire'[a] = wire[a]
                /\ \/ opState[a] = "claimed" /\ opState'[a] = "executing"
                   \/ opState[a] = "claimed" /\ opState'[a] = "failed_safe" /\ wire[a] = "unsent"
                   \/ opState[a] = "executing" /\ opState'[a] = "delivery_unknown"
                   \/ /\ opState[a] \in {"executing", "delivery_unknown"}
                      /\ opState'[a] = "executed" /\ wire[a] = "committed"
      BY <1>2, <2>3, <3>4, OwnAttempt DEF Mapped
    <3>6. /\ Mapped[a].for = work[a] /\ Mapped[a].said = Said[opState[a]] /\ Mapped[a].gmail = wire[a]
          /\ \A c, s, g : AttemptOf(a)' = [for |-> c, said |-> s, gmail |-> g] => Promise!Becomes(a, c, s, g)
      <4>1. /\ Mapped[a].for = work[a] /\ Mapped[a].said = Said[opState[a]]
            /\ Mapped[a].gmail = wire[a]
        BY <3>4
      <4>2. ASSUME NEW c, NEW s, NEW g, AttemptOf(a)' = [for |-> c, said |-> s, gmail |-> g]
            PROVE  Promise!Becomes(a, c, s, g)
        BY <2>1, <4>2 DEF Mapped, Promise!Becomes
      <4> QED
        BY <4>1, <4>2
    <3>7. /\ Said["claimed"] = "open" /\ Said["executing"] = "open"
          /\ Said["delivery_unknown"] = "unknown" /\ Said["executed"] = "executed"
          /\ Said["failed_safe"] = "failed_safe"
      BY DEF Said, OpStates
    <3>8. CASE wire[a] = "unsent" /\ wire'[a] = "inflight"
      <4>1. Promise!Becomes(a, Mapped[a].for, Mapped[a].said, "inflight")
        BY <3>4, <3>5, <3>6, <3>8
      <4>2. Mapped[a].said \in {"open", "unknown"}
        BY <3>5, <3>6, <3>7, <3>8
      <4>3. Promise!Send(a)
        BY <3>6, <3>8, <4>1, <4>2 DEF Promise!Send, Mapped
      <4> QED
        BY <1>2, <4>3 DEF Promise!Next
    <3>9. ASSUME wire[a] = "inflight", wire'[a] \in {"committed", "refused"} PROVE Promise!Next
      <4>1. Promise!Becomes(a, Mapped[a].for, Mapped[a].said, wire'[a])
        BY <3>4, <3>5, <3>6, <3>9
      <4>2. Promise!Receive(a)
        BY <3>6, <3>9, <4>1 DEF Promise!Receive, Mapped
      <4> QED
        BY <1>2, <4>2 DEF Promise!Next
    <3>10. CASE wire'[a] = wire[a]
      <4>1. CASE opState[a] = "claimed" /\ opState'[a] = "executing"
        BY <1>2, <3>4, <3>7, <3>10, <4>1 DEF Mapped
      <4>2. CASE opState[a] = "claimed" /\ opState'[a] = "failed_safe" /\ wire[a] = "unsent"
        <5>1. Promise!Becomes(a, Mapped[a].for, "failed_safe", "unsent")
          BY <3>4, <3>6, <3>7, <3>10, <4>2
        <5>2. Mapped[a].said = "open" /\ Mapped[a].gmail = "unsent"
          BY <3>6, <3>7, <4>2
        <5>3. Promise!GiveUp(a)
          BY <5>1, <5>2 DEF Promise!GiveUp, Mapped
        <5> QED
          BY <1>2, <5>3 DEF Promise!Next
      <4>3. CASE opState[a] = "executing" /\ opState'[a] = "delivery_unknown"
        <5>1. Promise!Becomes(a, Mapped[a].for, "unknown", Mapped[a].gmail)
          BY <3>4, <3>6, <3>7, <3>10, <4>3
        <5>2. Mapped[a].said = "open"
          BY <3>6, <3>7, <4>3
        <5>3. Promise!Doubt(a)
          BY <5>1, <5>2 DEF Promise!Doubt, Mapped
        <5> QED
          BY <1>2, <5>3 DEF Promise!Next
      <4>4. CASE /\ opState[a] \in {"executing", "delivery_unknown"}
                 /\ opState'[a] = "executed" /\ wire[a] = "committed"
        <5>1. Promise!Becomes(a, Mapped[a].for, "executed", "committed")
          BY <3>4, <3>6, <3>7, <3>10, <4>4
        <5>2. Mapped[a].said \in {"open", "unknown"} /\ Mapped[a].gmail = "committed"
          BY <3>6, <3>7, <4>4
        <5>3. Promise!Confirm(a)
          BY <5>1, <5>2 DEF Promise!Confirm, Mapped
        <5> QED
          BY <1>2, <5>3 DEF Promise!Next
      <4> QED
        BY <1>2, <3>4, <3>5, <3>10, <4>1, <4>2, <4>3, <4>4 DEF Mapped
    <3> QED
      BY <3>5, <3>8, <3>9, <3>10
  <2> QED
    BY <2>2, <2>3
<1>3. ASSUME NEW p \in Calls, PendingStep(p) PROVE UNCHANGED Mapped
  BY <1>3, PendingStepFrame DEF Mapped, AttemptOf, Tracked, Tool
<1>4. ASSUME NEW a \in Activities, ActivityStep(a), AttemptOf(a)' = AttemptOf(a) PROVE UNCHANGED Mapped
  BY <1>4, OtherAttempts DEF Mapped, IInv
<1>5. CASE UNCHANGED vars
  BY <1>1, <1>5 DEF vars, rows, Mapped, AttemptOf, Tracked, Tool
<1> QED
  BY <1>1, <1>2, <1>3, <1>4, <1>5, StepCases

\* Whatever calls, approvals, crashes and the cron do to each other, the
\* journal and Gmail together only ever do what Delivery allows: a message is
\* attempted again only after every earlier attempt provably sent nothing.
THEOREM GateDelivers == Spec => DeliversAsPromised
<1>1. Promise!Next => [Promise!Next]_Mapped
  OBVIOUS
<1> QED
  BY PromiseInit, PromiseStep, InvariantHolds, PTL DEF Spec, DeliversAsPromised, Promise!Spec
-----------------------------------------------------------------------------
(***************************************************************************)
(* What the promise is worth: of Delivery alone, whatever the gate does.   *)
(***************************************************************************)
Attempt == [for   : Calls \cup {None},
            said  : {"none", "open", "unknown", "executed", "failed_safe"},
            gmail : {"unsent", "inflight", "committed", "refused"}]

HasLeft(a) == Mapped[a].gmail # "unsent"
Stands(a) == Mapped[a].said \in {"open", "unknown", "executed"}

\* What leaves stands for good, and two attempts that stand are for messages
\* that are not alike.
OnlyOneStands ==
  /\ Mapped \in [Activities -> Attempt]
  /\ \A a \in Activities : HasLeft(a) => Stands(a)
  /\ \A a, b \in Activities :
       a # b /\ Stands(a) /\ Stands(b) => <<Mapped[a].for, Mapped[b].for>> \notin SameMessage

\* A message leaves for Gmail at most once.
LeavesOnce ==
  \A a, b \in Activities :
    HasLeft(a) /\ HasLeft(b) /\ <<Mapped[a].for, Mapped[b].for>> \in SameMessage => a = b

LEMMA AlikeIsMutual == \A c, d : <<c, d>> \in SameMessage => <<d, c>> \in SameMessage
BY DEF SameMessage

LEMMA OneStandsInit == Promise!Init => OnlyOneStands
<1> SUFFICES ASSUME Promise!Init PROVE OnlyOneStands
  OBVIOUS
<1>1. Mapped = [a \in Activities |-> [for |-> None, said |-> "none", gmail |-> "unsent"]]
  BY DEF Promise!Init, Mapped
<1> QED
  BY <1>1 DEF OnlyOneStands, Attempt, HasLeft, Stands

\* What an attempt becomes, its own standing apart, leaves the others as they were.
LEMMA OneStandsBecomes ==
  ASSUME OnlyOneStands, NEW a \in Activities, NEW r \in Attempt, Mapped' = [Mapped EXCEPT ![a] = r],
         r.gmail # "unsent" => r.said \in {"open", "unknown", "executed"},
         \/ r.said \notin {"open", "unknown", "executed"}
         \/ \A b \in Activities \ {a} : Stands(b) => <<Mapped[b].for, r.for>> \notin SameMessage
  PROVE  OnlyOneStands'
<1>1. Mapped' \in [Activities -> Attempt] /\ Mapped'[a] = r /\ \A b \in Activities \ {a} : Mapped'[b] = Mapped[b]
  BY DEF OnlyOneStands
<1> HIDE DEF Mapped
<1>2. ASSUME NEW b \in Activities, HasLeft(b)' PROVE Stands(b)'
  BY <1>1, <1>2 DEF OnlyOneStands, HasLeft, Stands
<1>3. ASSUME NEW b \in Activities, NEW c \in Activities, b # c, Stands(b)', Stands(c)'
      PROVE  <<Mapped'[b].for, Mapped'[c].for>> \notin SameMessage
  <2>1. Mapped'[b].said \in {"open", "unknown", "executed"} /\ Mapped'[c].said \in {"open", "unknown", "executed"}
    BY <1>3 DEF Stands
  <2>2. CASE a = b
    <3>1. Stands(c) /\ <<Mapped[c].for, r.for>> \notin SameMessage
      BY <1>1, <1>3, <2>1, <2>2 DEF Stands
    <3> QED
      BY <1>1, <1>3, <2>2, <3>1, AlikeIsMutual
  <2>3. CASE a = c
    <3>1. Stands(b) /\ <<Mapped[b].for, r.for>> \notin SameMessage
      BY <1>1, <1>3, <2>1, <2>3 DEF Stands
    <3> QED
      BY <1>1, <1>3, <2>3, <3>1
  <2>4. CASE a # b /\ a # c
    <3>1. Mapped'[b] = Mapped[b] /\ Mapped'[c] = Mapped[c] /\ Stands(b) /\ Stands(c)
      BY <1>1, <2>1, <2>4 DEF Stands
    <3> QED
      BY <1>3, <3>1 DEF OnlyOneStands
  <2> QED
    BY <2>2, <2>3, <2>4
<1>4. SameMessage' = SameMessage
  BY DEF SameMessage
<1> QED
  BY <1>1, <1>2, <1>3, <1>4 DEF OnlyOneStands

LEMMA OneStandsStep == OnlyOneStands /\ [Promise!Next]_Mapped => OnlyOneStands'
<1> SUFFICES ASSUME OnlyOneStands, [Promise!Next]_Mapped PROVE OnlyOneStands'
  OBVIOUS
<1>1. CASE UNCHANGED Mapped
  BY <1>1 DEF OnlyOneStands, HasLeft, Stands, SameMessage
<1>2. ASSUME NEW a \in Activities, NEW c, NEW s, NEW g, Promise!Becomes(a, c, s, g)
      PROVE  Mapped' = [Mapped EXCEPT ![a] = [for |-> c, said |-> s, gmail |-> g]]
  BY <1>2 DEF Promise!Becomes, Mapped
<1>3. ASSUME NEW a \in Activities, Promise!Begin(a) PROVE OnlyOneStands'
  <2>1. PICK c \in Calls :
          /\ \A b \in Activities : Stands(b) => <<Mapped[b].for, c>> \notin SameMessage
          /\ Promise!Becomes(a, c, "open", "unsent")
    BY <1>3 DEF Promise!Begin, Promise!Standing, Stands, Mapped
  <2>2. [for |-> c, said |-> "open", gmail |-> "unsent"] \in Attempt
    BY DEF Attempt
  <2> QED
    BY <1>2, <2>1, <2>2, OneStandsBecomes
<1>4. ASSUME NEW a \in Activities, NEW s \in {"open", "unknown", "executed", "failed_safe"},
             NEW g \in {"unsent", "inflight", "committed", "refused"},
             Promise!Becomes(a, Mapped[a].for, s, g), Stands(a) \/ HasLeft(a),
             s = "failed_safe" => g = "unsent"
      PROVE  OnlyOneStands'
  <2> HIDE DEF Mapped
  <2>1. Mapped[a] \in Attempt /\ Stands(a)
    BY <1>4 DEF OnlyOneStands
  <2>2. [for |-> Mapped[a].for, said |-> s, gmail |-> g] \in Attempt
    BY <2>1 DEF Attempt
  <2>3. \A b \in Activities \ {a} : Stands(b) => <<Mapped[b].for, Mapped[a].for>> \notin SameMessage
    BY <2>1 DEF OnlyOneStands
  <2> QED
    BY <1>2, <1>4, <2>2, <2>3, OneStandsBecomes
<1>5. ASSUME NEW a \in Activities,
             Promise!Send(a) \/ Promise!Receive(a) \/ Promise!GiveUp(a) \/ Promise!Doubt(a) \/ Promise!Confirm(a)
      PROVE  OnlyOneStands'
  <2> DEFINE Kept(s, g) == Promise!Becomes(a, Mapped[a].for, s, g) /\ (Stands(a) \/ HasLeft(a))
  <2>0. Mapped[a].said \in {"none", "open", "unknown", "executed", "failed_safe"}
        /\ (HasLeft(a) => Stands(a))
    BY DEF OnlyOneStands, Attempt
  <2>1. CASE Promise!Send(a)
    <3>1. Kept(Mapped[a].said, "inflight") /\ Mapped[a].said \in {"open", "unknown"}
      BY <2>1 DEF Promise!Send, Stands, Mapped
    <3> QED
      BY <1>4, <3>1
  <2>2. CASE Promise!Receive(a)
    <3>1. PICK g \in {"committed", "refused"} : Kept(Mapped[a].said, g)
      BY <2>2 DEF Promise!Receive, HasLeft, Mapped
    <3>2. Mapped[a].said \in {"open", "unknown", "executed"}
      BY <2>0, <3>1 DEF Stands
    <3> QED
      BY <1>4, <3>1, <3>2
  <2>3. CASE Promise!GiveUp(a)
    <3>1. Kept("failed_safe", "unsent")
      BY <2>3 DEF Promise!GiveUp, Stands, Mapped
    <3> QED
      BY <1>4, <3>1
  <2>4. CASE Promise!Doubt(a)
    <3>1. Kept("unknown", Mapped[a].gmail) /\ Mapped[a].gmail \in {"unsent", "inflight", "committed", "refused"}
      BY <2>4 DEF Promise!Doubt, Stands, Mapped, OnlyOneStands, Attempt
    <3> QED
      BY <1>4, <3>1
  <2>5. CASE Promise!Confirm(a)
    <3>1. Kept("executed", "committed")
      BY <2>5 DEF Promise!Confirm, Stands, Mapped
    <3> QED
      BY <1>4, <3>1
  <2> QED
    BY <1>5, <2>1, <2>2, <2>3, <2>4, <2>5
<1> QED
  BY <1>1, <1>3, <1>5 DEF Promise!Next, Promise!Wait, Mapped

\* Two requests for one message never both leave, however often it is attempted: the reason a
\* retry may follow failed_safe and nothing else.  It is the promise that says so, of whatever
\* keeps it; the gate does, by GateDelivers.
THEOREM PromiseIsOnce == DeliversAsPromised => []LeavesOnce
<1>1. OnlyOneStands => LeavesOnce
  BY DEF OnlyOneStands, LeavesOnce
<1> QED
  BY OneStandsInit, OneStandsStep, <1>1, PTL DEF DeliversAsPromised, Promise!Spec, Mapped
=============================================================================
