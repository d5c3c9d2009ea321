------------------------------ MODULE Recovery ------------------------------
(***************************************************************************)
(* Recovery of a recoverable send (settlement protocol 2) whose outcome    *)
(* the request that sent it may never learn: cron passes look for positive *)
(* evidence at Gmail and settle the operation from it, under a lease, a    *)
(* grant epoch, a qualification epoch, quotas and a one-day deadline.      *)
(*                                                                         *)
(* Concurrency: every cron trigger is a pass of its own.  A trigger may be *)
(* late, repeated, or overlap the next one, and a pass may stop anywhere.  *)
(* A D1 batch is one action; every Gmail request is two, the admission and *)
(* the answer, with the owner, the operator, the deployment verifier, the  *)
(* request that sent the message, and the other passes in between.         *)
(*                                                                         *)
(* One account is followed.  Time is what it makes true: a lease, a retry  *)
(* delay, the deadline or the retention of a row is over or is not; only   *)
(* the five-minute windows are counted, since the quotas are per window.   *)
(***************************************************************************)
EXTENDS Naturals, FiniteSets

CONSTANTS
  Ops,           \* recoverable operations of the account
  Drafts,        \* those that send a stored draft
  Sessions,      \* those that upload through a resumable session
  Passes,        \* cron passes that may be running at once
  None,          \* SQL NULL
  AttemptQuota,  \* attempts per window for one account (2 in the code)
  AttemptCap,    \* attempts per operation (288)
  RequestQuota,  \* requests per window (30)
  MaxWindow,     \* bound: windows followed
  MaxEpoch,      \* bound: qualification epochs handed out
  MaxCredential, \* bound: grants of the account
  MaxCrashes     \* bound: passes that stop half way

ASSUME RecoveryAssumption ==
  /\ Drafts \subseteq Ops /\ Sessions \subseteq Ops /\ Drafts \cap Sessions = {}
  /\ None \notin Passes \cup Ops
  /\ AttemptQuota \in Nat \ {0} /\ AttemptCap \in Nat \ {0}
  /\ RequestQuota \in Nat /\ MaxWindow \in Nat \ {0} /\ MaxEpoch \in Nat \ {0}
  /\ MaxCredential \in Nat /\ MaxCrashes \in Nat

VARIABLES
  gmail,      \* what became of the message at Gmail
  opState,    \* operations.state
  bound,      \* operation_recovery.credential_version
  rec,        \* operation_recovery.state ("none": no row)
  session,    \* the row holds a session (session_enc is not NULL)
  lease,      \* lease_token: the pass that minted it
  leaseOver,  \* lease_until has passed
  lastWindow, \* last_window (0: NULL)
  attempts,   \* attempts
  waiting,    \* next_attempt_at is in the future
  age,        \* "over": past the deadline; "old": past retain_until
  log,        \* recovery_attempts: (window, operation) pairs
  requests,   \* recovery_requests per window
  control,    \* recovery_control rows of the account, by grant and mode
  epoch,      \* qualification epochs handed out so far
  connected,  \* accounts.status = 'active'
  credential, \* accounts.credential_version
  installed,  \* recovery_installation is active
  window,     \* the current window
  pc, todo, at, held, found, win,   \* the passes
  crashes

row     == <<rec, session, lease, leaseOver, lastWindow, attempts, waiting>>
budget  == <<log, requests>>
world   == <<gmail, bound, age, window>>
policy  == <<control, epoch, connected, credential, installed>>
pass    == <<pc, todo, at, held, found, win>>
vars    == <<row, opState, budget, world, policy, pass, crashes>>

Modes    == {"send_session_status", "generated_search"}
Windows  == 1 .. MaxWindow
Versions == 0 .. MaxCredential
Epochs   == 0 .. MaxEpoch

Open     == {"executing", "delivery_unknown"}
OpStates == {"claimed", "executed"} \cup Open
RecStates == {"none", "active", "manual", "suspended", "completed"}
\* A pass in the hands of one row: from the claim to the update after it.
Working  == {"ready", "asked", "confirmed", "deferred", "suspended"}
Steps    == {"idle", "failing", "due", "chosen"} \cup Working

NoControl == [epoch |-> 0, allows |-> {}, disabled |-> FALSE]
NoLease   == [mode |-> "generated_search", epoch |-> 0]

\* A deployment both of whose modes were qualified for the first grant.
Init ==
  /\ gmail = [o \in Ops |-> "unsent"]
  /\ opState = [o \in Ops |-> "claimed"]
  /\ bound = [o \in Ops |-> 0]
  /\ rec = [o \in Ops |-> "none"]
  /\ session = [o \in Ops |-> FALSE]
  /\ lease = [o \in Ops |-> None]
  /\ leaseOver = [o \in Ops |-> FALSE]
  /\ lastWindow = [o \in Ops |-> 0]
  /\ attempts = [o \in Ops |-> 0]
  /\ waiting = [o \in Ops |-> FALSE]
  /\ age = [o \in Ops |-> "fresh"]
  /\ log = {}
  /\ requests = [w \in Windows |-> 0]
  /\ control = [k \in Versions \X Modes |->
                  IF k[1] = 0 THEN [NoControl EXCEPT !.epoch = 1, !.allows = Ops]
                  ELSE NoControl]
  /\ epoch = 1
  /\ connected = TRUE
  /\ credential = 0
  /\ installed = TRUE
  /\ window = 1
  /\ pc = [p \in Passes |-> "idle"]
  /\ todo = [p \in Passes |-> {}]
  /\ at = [p \in Passes |-> None]
  /\ held = [p \in Passes |-> NoLease]
  /\ found = [p \in Passes |-> "none"]
  /\ win = [p \in Passes |-> 0]
  /\ crashes = 0

Goto(p, s) == pc' = [pc EXCEPT ![p] = s] /\ UNCHANGED <<todo, at, held, found, win>>

\* The pass lets go of its row and looks at the next one.
NextRow(p) ==
  /\ pc' = [pc EXCEPT ![p] = "due"]
  /\ at' = [at EXCEPT ![p] = None]
  /\ held' = [held EXCEPT ![p] = NoLease]
  /\ found' = [found EXCEPT ![p] = "none"]
  /\ UNCHANGED <<todo, win>>

Rest(p) ==
  /\ pc' = [pc EXCEPT ![p] = "idle"]
  /\ todo' = [todo EXCEPT ![p] = {}]
  /\ at' = [at EXCEPT ![p] = None]
  /\ held' = [held EXCEPT ![p] = NoLease]
  /\ found' = [found EXCEPT ![p] = "none"]
  /\ win' = [win EXCEPT ![p] = 0]

(***************************************************************************)
(* Fences: the assertions at the head of every recovery transaction.       *)
(***************************************************************************)

Control(o, m) == control[<<bound[o], m>>]

\* The account is connected under the grant the operation was begun with.
SameGrant(o) == connected /\ credential = bound[o]

\* qualificationFence: the mode still admits the operation, under this epoch.
Qualifies(o, q) ==
  /\ o \in Control(o, q.mode).allows
  /\ Control(o, q.mode).epoch = q.epoch

\* Mutant of Fences: the account is not compared with the row's grant.
FencesWithoutGrant(p, o) ==
  /\ installed
  /\ Qualifies(o, held[p])
  /\ rec[o] = "active"
  /\ lease[o] = p /\ ~leaseOver[o]
  /\ age[o] = "fresh"
  /\ opState[o] \in Open

\* recoveryFences.
Fences(p, o) ==
  /\ installed
  /\ Qualifies(o, held[p])
  /\ rec[o] = "active"
  /\ lease[o] = p /\ ~leaseOver[o]
  /\ age[o] = "fresh"
  /\ SameGrant(o)
  /\ opState[o] \in Open

Free(o) == lease[o] = None \/ leaseOver[o]

Attempted(w) == {o \in Ops : <<w, o>> \in log}

(***************************************************************************)
(* The request that sends the message.  Settling and failing are allowed   *)
(* at any later time: an upload may outlast a pass, and a request that     *)
(* ended early simply takes neither step.                                  *)
(***************************************************************************)

\* beginRecoverableOperation: the row, the protocol and the state at once.
Begin(o) ==
  /\ opState[o] = "claimed"
  /\ installed /\ connected
  /\ opState' = [opState EXCEPT ![o] = "executing"]
  /\ bound' = [bound EXCEPT ![o] = credential]
  /\ rec' = [rec EXCEPT ![o] = IF o \in Drafts THEN "manual" ELSE "active"]
  /\ session' = [session EXCEPT ![o] = o \in Sessions]
  /\ waiting' = [waiting EXCEPT ![o] = TRUE]
  /\ gmail' = [gmail EXCEPT ![o] = "inflight"]
  /\ UNCHANGED <<lease, leaseOver, lastWindow, attempts, age, window, budget,
                 policy, pass, crashes>>

\* Gmail performs the request, at once or long after it was given up.
Deliver(o) ==
  /\ gmail[o] = "inflight"
  /\ gmail' = [gmail EXCEPT ![o] = "delivered"]
  /\ UNCHANGED <<row, opState, budget, bound, age, window, policy, pass, crashes>>

\* settlePositive: the operation and its row, in one transaction.
SettlePositive(o) ==
  /\ opState' = [opState EXCEPT ![o] = "executed"]
  /\ rec' = [rec EXCEPT ![o] = IF @ = "none" THEN @ ELSE "completed"]
  /\ session' = [session EXCEPT ![o] = FALSE]
  /\ lease' = [lease EXCEPT ![o] = None]
  /\ leaseOver' = [leaseOver EXCEPT ![o] = FALSE]
  /\ UNCHANGED <<lastWindow, attempts, waiting>>

\* settleDirect: the receipt the request itself read.
SettleDirect(o) ==
  /\ opState[o] \in Open
  /\ gmail[o] = "delivered"
  /\ installed
  /\ SettlePositive(o)
  /\ UNCHANGED <<budget, world, policy, pass, crashes>>

\* recordFailure after begin: whatever went wrong, delivery is unknown.
RecordFailure(o) ==
  /\ installed
  /\ opState[o] = "executing"
  /\ opState' = [opState EXCEPT ![o] = "delivery_unknown"]

FailDirect(o) ==
  /\ RecordFailure(o)
  /\ UNCHANGED <<row, budget, world, policy, pass, crashes>>

(***************************************************************************)
(* A pass: cleanupRecovery, the stale operations, the due rows.            *)
(***************************************************************************)

\* Mutant of Finished: the deadline is left to the pass that finds it passed.
FinishedByPolicy(o) ==
  /\ rec[o] = "active" \/ session[o]
  /\ ~SameGrant(o) \/ Control(o, "send_session_status").disabled

\* Rows whose recovery is over although they are active or hold a session.
Finished(o) ==
  /\ rec[o] = "active" \/ session[o]
  /\ \/ age[o] # "fresh"
     \/ ~SameGrant(o)
     \/ Control(o, "send_session_status").disabled

Cleanup ==
  LET released == {o \in Ops : Finished(o) \/ age[o] = "old"}
  IN /\ rec' = [o \in Ops |->
                  IF age[o] = "old" THEN "none"
                  ELSE IF ~Finished(o) \/ rec[o] = "completed" THEN rec[o]
                  ELSE IF age[o] = "over" THEN "manual" ELSE "suspended"]
     /\ session' = [o \in Ops |-> session[o] /\ o \notin released]
     /\ lease' = [o \in Ops |-> IF o \in released THEN None ELSE lease[o]]
     /\ leaseOver' = [o \in Ops |-> leaseOver[o] /\ o \notin released]
     /\ UNCHANGED <<lastWindow, attempts, waiting>>

Executing == {o \in Ops : opState[o] = "executing"}

\* The trigger of some window up to now: rows are cleaned, then the operations
\* untouched for two minutes are read; those past their deadline are among them.
Start(p) ==
  /\ pc[p] = "idle"
  /\ installed
  /\ Cleanup
  /\ \E w \in 1 .. window, stale \in SUBSET Executing :
       /\ {o \in Executing : age[o] # "fresh"} \subseteq stale
       /\ win' = [win EXCEPT ![p] = w]
       /\ todo' = [todo EXCEPT ![p] = stale]
  /\ pc' = [pc EXCEPT ![p] = "failing"]
  /\ UNCHANGED <<opState, budget, world, policy, at, held, found, crashes>>

\* One operation that was stale.  Another actor may have moved it since; an
\* installation frozen since then ends the pass.
RecordStale(p, o) ==
  /\ pc[p] = "failing" /\ o \in todo[p]
  /\ IF opState[o] = "executing" /\ ~installed
     THEN Rest(p) /\ UNCHANGED opState
     ELSE /\ IF opState[o] = "executing"
             THEN RecordFailure(o) ELSE UNCHANGED opState
          /\ todo' = [todo EXCEPT ![p] = @ \ {o}]
          /\ UNCHANGED <<pc, at, held, found, win>>
  /\ UNCHANGED <<row, budget, world, policy, crashes>>

\* A mode this row could be recovered by, as the tables say now.
Usable(o, m) ==
  /\ o \in Control(o, m).allows
  /\ IF m = "generated_search" THEN o \notin Drafts ELSE session[o]

Due(o, w) ==
  /\ rec[o] = "active" /\ ~waiting[o] /\ age[o] = "fresh"
  /\ attempts[o] < AttemptCap
  /\ Free(o) /\ lastWindow[o] # w
  /\ SameGrant(o)
  /\ opState[o] \in Open
  /\ Cardinality(Attempted(w)) < AttemptQuota
  /\ \E m \in Modes : Usable(o, m)

\* dueRecoveries: at most the account's quota of rows.
Collect(p) ==
  /\ pc[p] = "failing" /\ todo[p] = {}
  /\ \E rows \in SUBSET {o \in Ops : Due(o, win[p])} :
       /\ Cardinality(rows) <= AttemptQuota
       /\ \A o \in Ops \ rows : Due(o, win[p]) => Cardinality(rows) = AttemptQuota
       /\ todo' = [todo EXCEPT ![p] = rows]
  /\ pc' = [pc EXCEPT ![p] = "due"]
  /\ UNCHANGED <<row, opState, budget, world, policy, at, held, found, win, crashes>>

\* The first half of claimRecovery: the mode and its epoch are read.
Choose(p, o) ==
  /\ pc[p] = "due" /\ o \in todo[p]
  /\ todo' = [todo EXCEPT ![p] = @ \ {o}]
  /\ LET usable == {m \in Modes : Usable(o, m)}
         mode   == IF "send_session_status" \in usable
                   THEN "send_session_status" ELSE "generated_search"
     IN IF usable = {}
        THEN UNCHANGED <<pc, at, held>>
        ELSE /\ pc' = [pc EXCEPT ![p] = "chosen"]
             /\ at' = [at EXCEPT ![p] = o]
             /\ held' = [held EXCEPT ![p] =
                           [mode |-> mode, epoch |-> Control(o, mode).epoch]]
  /\ UNCHANGED <<row, opState, budget, world, policy, found, win, crashes>>

\* The batch of claimRecovery.  The last conjunct but one is the primary key of
\* recovery_attempts.
CanClaim(p, o) ==
  /\ installed
  /\ Qualifies(o, held[p])
  /\ rec[o] = "active" /\ age[o] = "fresh" /\ ~waiting[o]
  /\ attempts[o] < AttemptCap
  /\ Free(o) /\ lastWindow[o] # win[p]
  /\ SameGrant(o)
  /\ <<win[p], o>> \notin log
  /\ Cardinality(Attempted(win[p])) < AttemptQuota

Claim(p) ==
  LET o == at[p]
  IN /\ pc[p] = "chosen"
     /\ IF CanClaim(p, o)
        THEN /\ log' = log \cup {<<win[p], o>>}
             /\ attempts' = [attempts EXCEPT ![o] = @ + 1]
             /\ lastWindow' = [lastWindow EXCEPT ![o] = win[p]]
             /\ lease' = [lease EXCEPT ![o] = p]
             /\ leaseOver' = [leaseOver EXCEPT ![o] = FALSE]
             /\ Goto(p, "ready")
        ELSE NextRow(p) /\ UNCHANGED <<log, attempts, lastWindow, lease, leaseOver>>
     /\ UNCHANGED <<rec, session, waiting, requests, opState, world, policy, crashes>>

(***************************************************************************)
(* One observation: a session status, or a search and then the metadata of *)
(* the one message it named.  Every request passes admitRequest.           *)
(***************************************************************************)
\* The session the lease is to ask is still there.
HasEvidence(p, o) == held[p].mode = "send_session_status" => session[o]

\* The window a request of this row is counted in.
Counted(o) == requests[lastWindow[o]]

\* Mutant of CanAdmit: the fences alone.
AdmitUncounted(p, o) ==
  Fences(p, o)

CanAdmit(p, o) == Fences(p, o) /\ Counted(o) < RequestQuota

Admit(o) == requests' = [requests EXCEPT ![lastWindow[o]] = @ + 1]

\* admitRequest refused: a failed fence suspends, a spent budget defers.
Refused(p, o) ==
  /\ ~CanAdmit(p, o)
  /\ Goto(p, IF Fences(p, o) THEN "deferred" ELSE "suspended")
  /\ UNCHANGED <<requests, connected>>

\* observeDelivery up to its request.  It is admitted, or the deadline of the
\* attempt or the rolling budget of five minutes is in its way.
Ask(p) ==
  LET o == at[p]
  IN /\ pc[p] = "ready"
     /\ IF ~HasEvidence(p, o)
        THEN Goto(p, "suspended") /\ UNCHANGED <<requests, connected>>
        ELSE \/ Refused(p, o)
             \/ /\ CanAdmit(p, o)
                /\ Admit(o)
                /\ Goto(p, "asked")
                /\ UNCHANGED connected
             \/ /\ Fences(p, o)
                /\ Goto(p, "deferred")
                /\ UNCHANGED <<requests, connected>>
     /\ UNCHANGED <<row, opState, log, world, control, epoch, credential,
                    installed, crashes>>

\* A token refresh before a request, or the refresh and the repeat a 401 brings:
\* each is one more admitted request.  It may give no token, and Google may
\* reject the grant, which disconnects the account.
Refresh(p) ==
  LET o == at[p]
  IN /\ pc[p] \in {"ready", "asked"}
     /\ pc[p] = "ready" => HasEvidence(p, o)
     /\ \/ Refused(p, o)
        \/ /\ CanAdmit(p, o)
           /\ Admit(o)
           /\ \/ UNCHANGED <<pass, connected>>
              \/ Goto(p, "deferred") /\ UNCHANGED connected
              \/ Goto(p, "suspended") /\ connected' \in {FALSE, connected}
     /\ UNCHANGED <<row, opState, log, world, control, epoch, credential,
                    installed, crashes>>

\* Mutant of Verifies: the first match is the message.
VerifiesAny(c) == c \in {"own", "other"}

\* verifiesCandidate: generated Message-ID, SENT, thread and date all agree.
Verifies(c) == c = "own"

\* Throttled, failed, late, empty or ambiguous.
Inconclusive(p) ==
  /\ pc[p] = "asked"
  /\ Goto(p, "deferred")
  /\ UNCHANGED <<row, opState, budget, world, policy, crashes>>

\* The session is complete, so its body is the receipt, or it has expired and
\* is forgotten, if the fences still hold.
SessionStatus(p) ==
  LET o == at[p]
  IN /\ pc[p] = "asked" /\ held[p].mode = "send_session_status"
     /\ \/ /\ gmail[o] = "delivered"
           /\ Goto(p, "confirmed")
           /\ UNCHANGED session
        \/ /\ session' = [session EXCEPT ![o] = @ /\ ~Fences(p, o)]
           /\ Goto(p, "deferred")
     /\ UNCHANGED <<rec, lease, leaseOver, lastWindow, attempts, waiting,
                    opState, budget, world, policy, crashes>>

\* The search named one message; it may be another one than the one sent.
SearchMatch(p) ==
  /\ pc[p] = "asked" /\ held[p].mode = "generated_search" /\ found[p] = "none"
  /\ \E c \in {"own", "other"} :
       /\ c = "own" => gmail[at[p]] = "delivered"
       /\ found' = [found EXCEPT ![p] = c]
  /\ pc' = [pc EXCEPT ![p] = "ready"]
  /\ UNCHANGED <<row, opState, budget, world, policy, todo, at, held, win, crashes>>

Metadata(p) ==
  /\ pc[p] = "asked" /\ found[p] # "none"
  /\ Goto(p, IF Verifies(found[p]) THEN "confirmed" ELSE "deferred")
  /\ UNCHANGED <<row, opState, budget, world, policy, crashes>>

\* settleRecovered: settled, replayed, or fenced and left for later.
Settle(p) ==
  LET o == at[p]
  IN /\ pc[p] = "confirmed"
     /\ IF opState[o] = "executed"
        THEN NextRow(p) /\ UNCHANGED <<row, opState>>
        ELSE IF Fences(p, o)
             THEN NextRow(p) /\ SettlePositive(o)
             ELSE Goto(p, "deferred") /\ UNCHANGED <<row, opState>>
     /\ UNCHANGED <<budget, world, policy, crashes>>

\* Mutant of StillHolds: any active row.
AnyActive(p, o) == rec[o] = "active"

\* The row the update after an attempt finds: its own lease on an active row.
StillHolds(p, o) == lease[o] = p /\ rec[o] = "active"

Park(o, manual) ==
  /\ rec' = [rec EXCEPT ![o] = IF manual THEN "manual" ELSE "active"]
  /\ session' = [session EXCEPT ![o] = @ /\ ~manual]

\* The update after an attempt.  A retry that would come after the deadline is
\* none: the row is parked, as it is after a suspension.
Finish(p) ==
  LET o == at[p]
  IN /\ pc[p] \in {"deferred", "suspended"}
     /\ IF StillHolds(p, o)
        THEN /\ \E manual \in BOOLEAN :
                  /\ pc[p] = "suspended" \/ age[o] # "fresh" => manual
                  /\ Park(o, manual)
             /\ waiting' = [waiting EXCEPT ![o] = TRUE]
             /\ lease' = [lease EXCEPT ![o] = None]
             /\ leaseOver' = [leaseOver EXCEPT ![o] = FALSE]
             /\ UNCHANGED <<lastWindow, attempts>>
        ELSE UNCHANGED row
     /\ NextRow(p)
     /\ UNCHANGED <<opState, budget, world, policy, crashes>>

\* All rows seen, or the four minutes of the run are over, which may be while
\* stale operations are left.
EndPass(p) ==
  /\ pc[p] = "due" \/ (pc[p] = "failing" /\ todo[p] # {})
  /\ Rest(p)
  /\ UNCHANGED <<row, opState, budget, world, policy, crashes>>

\* The isolate ends, or a database call throws out of the loop.
Crash(p) ==
  /\ pc[p] # "idle" /\ crashes < MaxCrashes
  /\ Rest(p)
  /\ crashes' = crashes + 1
  /\ UNCHANGED <<row, opState, budget, world, policy>>

(***************************************************************************)
(* The operator, the owner, the deployment verifier and the clock.         *)
(***************************************************************************)
\* A command of the qualification tool, on the current grant, with a new epoch.
Administer(m, allows, disabled) ==
  /\ installed /\ connected
  /\ epoch < MaxEpoch
  /\ epoch' = epoch + 1
  /\ control' = [control EXCEPT ![<<credential, m>>] =
                   [epoch |-> epoch + 1, allows |-> allows, disabled |-> disabled]]
  /\ UNCHANGED <<connected, credential, installed>>

\* changeQualification, enable and probe: probe admits the operations it names.
Qualify(m) ==
  /\ \E allowed \in {Ops} \cup {{o} : o \in Ops} :
       Administer(m, allowed, FALSE)
  /\ UNCHANGED <<row, opState, budget, world, pass, crashes>>

\* Mutant of SuspendAll: a completed row is suspended too.
SuspendEvery ==
  LET bounded == {o \in Ops : rec[o] # "none" /\ bound[o] = credential}
  IN /\ rec' = [o \in Ops |-> IF o \in bounded THEN "suspended" ELSE rec[o]]
     /\ session' = [o \in Ops |-> session[o] /\ o \notin bounded]
     /\ lease' = [o \in Ops |-> IF o \in bounded THEN None ELSE lease[o]]
     /\ leaseOver' = [o \in Ops |-> leaseOver[o] /\ o \notin bounded]
     /\ UNCHANGED <<lastWindow, attempts, waiting>>

\* Every unfinished row of the grant, whatever mode was disabled.
SuspendAll ==
  LET bounded == {o \in Ops : rec[o] # "none" /\ bound[o] = credential}
  IN /\ rec' = [o \in Ops |-> IF o \in bounded /\ rec[o] # "completed"
                              THEN "suspended" ELSE rec[o]]
     /\ session' = [o \in Ops |-> session[o] /\ o \notin bounded]
     /\ lease' = [o \in Ops |-> IF o \in bounded THEN None ELSE lease[o]]
     /\ leaseOver' = [o \in Ops |-> leaseOver[o] /\ o \notin bounded]
     /\ UNCHANGED <<lastWindow, attempts, waiting>>

Disable(m) ==
  /\ Administer(m, {}, TRUE)
  /\ SuspendAll
  /\ UNCHANGED <<opState, budget, world, pass, crashes>>

\* expires_at of a qualification passes.
QualificationExpires(m) ==
  /\ control[<<credential, m>>] # NoControl
  /\ control' = [control EXCEPT ![<<credential, m>>] = NoControl]
  /\ UNCHANGED <<row, opState, budget, world, epoch, connected, credential,
                 installed, pass, crashes>>

\* revokeAccount and upsertAccount: each makes a new grant epoch.
Revoke ==
  /\ connected /\ credential < MaxCredential
  /\ connected' = FALSE
  /\ credential' = credential + 1
  /\ UNCHANGED <<row, opState, budget, world, control, epoch, installed, pass, crashes>>

Reconnect ==
  /\ credential < MaxCredential
  /\ connected' = TRUE
  /\ credential' = credential + 1
  /\ UNCHANGED <<row, opState, budget, world, control, epoch, installed, pass, crashes>>

\* A deployment freezes the installation, or releases it.
FreezeOrRelease ==
  /\ installed' = ~installed
  /\ UNCHANGED <<row, opState, budget, world, control, epoch, connected,
                 credential, pass, crashes>>

LeaseLapses(o) ==
  /\ lease[o] # None /\ ~leaseOver[o]
  /\ leaseOver' = [leaseOver EXCEPT ![o] = TRUE]
  /\ UNCHANGED <<rec, session, lease, lastWindow, attempts, waiting, opState,
                 budget, world, policy, pass, crashes>>

RetryComes(o) ==
  /\ rec[o] = "active" /\ waiting[o]
  /\ waiting' = [waiting EXCEPT ![o] = FALSE]
  /\ UNCHANGED <<rec, session, lease, leaseOver, lastWindow, attempts, opState,
                 budget, world, policy, pass, crashes>>

\* The day a row is recovered for, and the week it is kept.
DeadlinePasses(o) ==
  /\ rec[o] # "none" /\ age[o] = "fresh"
  /\ age' = [age EXCEPT ![o] = "over"]
  /\ UNCHANGED <<row, opState, budget, gmail, bound, window, policy, pass, crashes>>

RetentionEnds(o) ==
  /\ rec[o] # "none" /\ age[o] = "over"
  /\ age' = [age EXCEPT ![o] = "old"]
  /\ UNCHANGED <<row, opState, budget, gmail, bound, window, policy, pass, crashes>>

NextWindow ==
  /\ window < MaxWindow
  /\ window' = window + 1
  /\ UNCHANGED <<row, opState, budget, gmail, bound, age, policy, pass, crashes>>

(***************************************************************************)
(* Next-state relation and fairness.                                       *)
(***************************************************************************)
Observe(p) == Ask(p) \/ Refresh(p) \/ Inconclusive(p) \/ SessionStatus(p)
                \/ SearchMatch(p) \/ Metadata(p)

PassStep(p) ==
  \/ Start(p) \/ Collect(p) \/ Claim(p) \/ Observe(p)
  \/ Settle(p) \/ Finish(p) \/ EndPass(p)
  \/ \E o \in Ops : RecordStale(p, o) \/ Choose(p, o)

Sender(o) == Begin(o) \/ Deliver(o) \/ SettleDirect(o) \/ FailDirect(o)

Clock ==
  \/ NextWindow
  \/ \E o \in Ops : \/ LeaseLapses(o) \/ RetryComes(o)
                   \/ DeadlinePasses(o) \/ RetentionEnds(o)

Operator ==
  \/ \E m \in Modes : Qualify(m) \/ Disable(m) \/ QualificationExpires(m)
  \/ Revoke \/ Reconnect \/ FreezeOrRelease

Next ==
  \/ \E p \in Passes : PassStep(p) \/ Crash(p)
  \/ \E o \in Ops : Sender(o)
  \/ Clock
  \/ Operator

Spec == Init /\ [][Next]_vars

\* The cron fires every five minutes, a pass is run until it ends, not every pass
\* uses up its four minutes before its first stale operation, and a day passes.
\* Neither Gmail, the operator nor the end of a row's retention helps.
FairSpec ==
  /\ Spec
  /\ \A p \in Passes : /\ WF_vars(PassStep(p))
                        /\ SF_vars(\E o \in Ops : RecordStale(p, o))
  /\ \A o \in Ops : WF_vars(DeadlinePasses(o))

(***************************************************************************)
(* Properties.                                                             *)
(***************************************************************************)
RowsTyped ==
  /\ opState \in [Ops -> OpStates]
  /\ rec \in [Ops -> RecStates]
  /\ session \in [Ops -> BOOLEAN]
  /\ lease \in [Ops -> Passes \cup {None}]
  /\ leaseOver \in [Ops -> BOOLEAN]
  /\ lastWindow \in [Ops -> 0 .. MaxWindow]
  /\ attempts \in [Ops -> 0 .. AttemptCap]
  /\ waiting \in [Ops -> BOOLEAN]

WorldTyped ==
  /\ gmail \in [Ops -> {"unsent", "inflight", "delivered"}]
  /\ bound \in [Ops -> Versions]
  /\ age \in [Ops -> {"fresh", "over", "old"}]
  /\ window \in Windows
  /\ crashes \in 0 .. MaxCrashes

BudgetTyped == log \subseteq Windows \X Ops /\ requests \in [Windows -> Nat]

PolicyTyped ==
  /\ control \in [Versions \X Modes ->
                    [epoch : Epochs, allows : SUBSET Ops, disabled : BOOLEAN]]
  /\ epoch \in Epochs
  /\ connected \in BOOLEAN /\ credential \in Versions /\ installed \in BOOLEAN

PassesTyped ==
  /\ pc \in [Passes -> Steps]
  /\ todo \in [Passes -> SUBSET Ops]
  /\ at \in [Passes -> Ops \cup {None}]
  /\ held \in [Passes -> [mode : Modes, epoch : Epochs]]
  /\ found \in [Passes -> {"none", "own", "other"}]
  /\ win \in [Passes -> 0 .. MaxWindow]

\* Every variable keeps the values its column, or its place in the code, allows.
TypeOK == RowsTyped /\ WorldTyped /\ BudgetTyped /\ PolicyTyped /\ PassesTyped

\* settlePositive: what recovery or the sender settled, Gmail did perform, even
\* if the search answers with a message that is not the one sent.
SettledIsDelivered ==
  \A o \in Ops : opState[o] = "executed" => gmail[o] = "delivered"

\* settlePositive, changeQualification, cleanupRecovery: whichever of them comes
\* last, a row says completed exactly when its operation says executed.
CompletedIsExecuted ==
  \A o \in Ops : rec[o] # "none" => (rec[o] = "completed" <=> opState[o] = "executed")

\* A row that no pass will look at again holds neither a session URL nor a
\* lease, whoever stopped it and whatever pass was in the middle of it.
StoppedHoldsNothing ==
  \A o \in Ops : rec[o] # "active" => ~session[o] /\ lease[o] = None

\* What a row says of itself agrees with its operation and with what it keeps.
RowsAgree == CompletedIsExecuted /\ StoppedHoldsNothing

\* claimRecovery: overlapping, late and repeated passes together stay within the
\* account's attempts of a window, and every attempt counted is one logged, so
\* that no operation is attempted twice in a window.
AttemptsWithinQuota ==
  /\ \A w \in Windows : Cardinality(Attempted(w)) <= AttemptQuota
  /\ \A o \in Ops : attempts[o] = Cardinality({w \in Windows : <<w, o>> \in log})

\* admitRequest: the requests of all passes and rows in one window, token
\* refreshes and repeats included, stay within the window's budget.
RequestsWithinQuota == \A w \in Windows : requests[w] <= RequestQuota

\* What recovery may do in one window is bounded, whoever asks for it.
WithinQuota == AttemptsWithinQuota /\ RequestsWithinQuota

\* recoveryFences: a pass settles a send only while the installation is active,
\* the account is connected under the grant that sent it and the operator has not
\* replaced the epoch the pass was admitted under, whatever evidence it has read.
SettledUnderItsGrant ==
  [][\A p \in Passes, o \in Ops :
       at[p] = o /\ at'[p] = None /\ opState'[o] # opState[o]
         => installed /\ SameGrant(o) /\ Qualifies(o, held[p])]_vars

\* recoverDeliveries: a pass whose lease was taken over or removed while it
\* waited for an answer changes nothing of the row any more.
LateAnswerIsHarmless ==
  [][\A p \in Passes, o \in Ops :
       at[p] = o /\ pc[p] \in Working /\ pc'[p] # pc[p] /\ lease[o] # p
         => UNCHANGED <<rec[o], session[o], lease[o], waiting[o], opState[o]>>]_vars

\* cleanupRecovery: with the installation active, no row is looked after for
\* ever; the deadline stops it even if no pass ever claims it again.
RecoveryEnds ==
  <>[]installed =>
    \A o \in Ops : rec[o] = "active" ~> rec[o] # "active"

\* recordFailure, from the passes: an operation whose sender disappeared does not
\* stay executing, not even when its row was stopped first.
OutcomeIsRecorded ==
  <>[]installed =>
    \A o \in Ops : opState[o] = "executing" ~> opState[o] # "executing"

\* Neither the row nor its operation is left running for ever.
NothingIsLeftRunning == RecoveryEnds /\ OutcomeIsRecorded
=============================================================================
