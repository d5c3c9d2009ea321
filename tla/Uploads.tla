------------------------------ MODULE Uploads ------------------------------
(***************************************************************************)
(* Attachment uploads: how one transfer becomes at most one staged file.   *)
(*                                                                         *)
(* A companion asks for a transfer (POST /staging/intent), the owner may   *)
(* have to approve it, the worker issues a ticket for a generation, and a  *)
(* PUT of the bytes under that ticket stores them in R2 and publishes a    *)
(* handle.  D1 and R2 share no transaction, a PUT may be cut off at any    *)
(* point, and an R2 write that was cut off may still land later.           *)
(*                                                                         *)
(* The module follows one transfer.  A D1 batch is one action; reads that  *)
(* a batch asserts again are taken with the read before them.  Requests    *)
(* come back to "idle" and may be repeated.                                *)
(***************************************************************************)
EXTENDS Naturals, FiniteSets

CONSTANTS
  Requests,      \* ensure and retry requests of the companion
  Writers,       \* PUT requests
  MaxGen,        \* STAGING_LIMITS.generations
  MaxRevision,   \* bound: edits of the policy
  MaxCredential, \* bound: versions of the account's credential
  ExpectedOf     \* expected_generation of a retry; 0 for mode "ensure"

Generations == 1..MaxGen

ASSUME UploadsAssumption ==
  /\ Requests \cap Writers = {}
  /\ MaxGen \in Nat \ {0} /\ MaxRevision \in Nat /\ MaxCredential \in Nat \ {0}
  /\ ExpectedOf \in [Requests -> 0..MaxGen]

VARIABLES
  transfer,   \* upload_transfers.state ("none": no row)
  active,     \* upload_transfers.active_generation
  handle,     \* the generation whose handle the transfer shows, or 0
  op,         \* state of the transfer's operation
  pend,       \* state of the transfer's pending action ("none": pending_id is null)
  gen,        \* upload_generations.state
  cleanup,    \* upload_generations.cleanup_state
  stopped,    \* upload_generations.writer_stopped
  receipt,    \* upload_retry_requests: the result_generation of a retry, or 0
  object,     \* generations whose R2 object is present
  landing,    \* generations with an R2 write that was cut off and may yet land
  level,      \* the owner's policy for attachment.stage_upload
  revision,   \* policy_revision.version
  credential, \* accounts.credential_version
  connected,  \* accounts.status = 'active'
  ended,      \* authority_until has passed
  ticketOver, \* generations whose issued_until has passed
  leaseOver,  \* generations whose lease_until has passed
  pc,         \* where a request is in its handler
  seen,       \* what an ensure or retry request has read
  job         \* what a PUT has read, and why it failed

row     == <<transfer, active, handle, op, pend>>
tickets == <<gen, cleanup, stopped, receipt>>
bucket  == <<object, landing>>
policy  == <<level, revision>>
account == <<credential, connected>>
clock   == <<ended, ticketOver, leaseOver>>
locals  == <<pc, seen, job>>
vars    == <<row, tickets, bucket, policy, account, clock, locals>>

Ended == {"failed", "denied", "expired"}
TransferStates == {"none", "awaiting_approval", "authorized", "in_progress",
                   "completed"} \cup Ended
PendingStates == {"none", "pending", "approved", "executing", "executed",
                  "failed", "denied", "cancelled", "expired"}
OpStates   == {"none", "claimed", "executing", "executed", "failed_safe"}
GenStates  == {"none", "issued", "uploading", "stored", "completed", "expired",
               "abandoned", "failed"}
Cleanups   == {"reserved", "debt", "released", "published"}
Levels     == {"deny", "ask", "allow"}
Causes     == {"none", "integrity", "interrupted", "rejected", "refused"}
RequestSteps == {"idle", "read", "expiring", "denying", "deciding"}
WriterSteps  == {"idle", "presented", "denying", "suspending", "refusing",
                 "admitting", "receiving", "putting", "put", "stored", "caught",
                 "failing", "abandoning", "cleaning"}

Unread == [state |-> "none", active |-> 0, asked |-> FALSE, over |-> FALSE,
           level |-> "deny", revision |-> 0, pend |-> "none"]
NoJob  == [gen |-> 0, asked |-> FALSE, revision |-> 0, credential |-> 0,
           cause |-> "none"]

Init ==
  /\ transfer = "none" /\ active = 0 /\ handle = 0 /\ op = "none" /\ pend = "none"
  /\ gen = [g \in Generations |-> "none"]
  /\ cleanup = [g \in Generations |-> "reserved"]
  /\ stopped = [g \in Generations |-> FALSE]
  /\ receipt = [e \in Requests |-> 0]
  /\ object = {} /\ landing = {}
  /\ level \in {"ask", "allow"} /\ revision = 0
  /\ credential = 1 /\ connected = TRUE
  /\ ended = FALSE /\ ticketOver = {} /\ leaseOver = {}
  /\ pc = [x \in Requests \cup Writers |-> "idle"]
  /\ seen = [e \in Requests |-> Unread]
  /\ job = [w \in Writers |-> NoJob]

At(x, s)   == pc[x] = s
Goto(x, s) == pc' = [pc EXCEPT ![x] = s]

\* A request ends: its answer, an error, or the end of its isolate.
Finish(e) == Goto(e, "idle") /\ seen' = [seen EXCEPT ![e] = Unread]
Leave(w)  == Goto(w, "idle") /\ job' = [job EXCEPT ![w] = NoJob]

\* A generation that was admitted and whose lease still runs.
Admitted(g) == g # 0 /\ gen[g] \in {"uploading", "stored"} /\ g \notin leaseOver

\* An issued ticket that is taken back: nobody ever wrote under it.
Withdraw(g, to) ==
  /\ gen' = [gen EXCEPT ![g] = to]
  /\ cleanup' = [cleanup EXCEPT ![g] = "released"]
  /\ stopped' = [stopped EXCEPT ![g] = TRUE]

WithdrawIfIssued(g, to) ==
  IF gen[g] = "issued" THEN Withdraw(g, to) ELSE UNCHANGED <<gen, cleanup, stopped>>

(***************************************************************************)
(* terminalBeforeAdmission: nothing was admitted yet, so the transfer is   *)
(* closed.  The operation and the pending action are those the request     *)
(* read with the transfer, which may be none.                              *)
(***************************************************************************)
CanTerminate ==
  \A g \in Generations : gen[g] \notin {"uploading", "stored", "completed"}

Terminate(to, knowsOp, knowsPending) ==
  /\ gen' = [g \in Generations |-> IF gen[g] = "issued" THEN "failed" ELSE gen[g]]
  /\ cleanup' = [g \in Generations |-> IF gen[g] = "issued" THEN "released" ELSE cleanup[g]]
  /\ stopped' = [g \in Generations |-> gen[g] = "issued" \/ stopped[g]]
  /\ transfer' = IF transfer = "completed" THEN transfer ELSE to
  /\ op' = IF knowsOp /\ op = "claimed" THEN "failed_safe" ELSE op
  /\ pend' = IF knowsPending /\ pend \in {"pending", "approved", "executing"}
             THEN to ELSE pend
  /\ UNCHANGED <<active, handle, receipt>>

-----------------------------------------------------------------------------
(***************************************************************************)
(* ensureTransfer.                                                         *)
(***************************************************************************)

\* A new intent: the transfer and, under "ask", its pending action.  The batch
\* asserts the policy revision and the account it has just read.
Create(e) ==
  /\ At(e, "idle") /\ ExpectedOf[e] = 0
  /\ transfer = "none"
  /\ level # "deny" /\ connected
  /\ IF level = "ask"
     THEN transfer' = "awaiting_approval" /\ pend' = "pending"
     ELSE transfer' = "authorized" /\ UNCHANGED pend
  /\ UNCHANGED <<active, handle, op>>
  /\ UNCHANGED <<tickets, bucket, policy, account, clock, locals>>

\* The row is read once and used to the end of the request.  A finished
\* transfer, or a retry that has its receipt, is only shown.  A companion
\* retries a generation it was shown.
Read(e) ==
  /\ At(e, "idle")
  /\ transfer \notin {"none"} \cup Ended
  /\ handle = 0 /\ receipt[e] = 0 /\ ExpectedOf[e] <= active
  /\ IF ended THEN Goto(e, "expiring") /\ UNCHANGED seen
     ELSE /\ Goto(e, "read")
          /\ seen' = [seen EXCEPT ![e] =
               [Unread EXCEPT !.state = transfer, !.active = active,
                              !.asked = pend # "none", !.over = active \in ticketOver]]
  /\ UNCHANGED <<row, tickets, bucket, policy, account, clock, job>>

\* Authority expiry closes admission; an admitted lease may still settle.
ExpireOnRead(e) ==
  /\ At(e, "expiring")
  /\ transfer' = IF transfer # "completed" /\ ~Admitted(active) THEN "expired" ELSE transfer
  /\ Finish(e)
  /\ UNCHANGED <<active, handle, op, pend>>
  /\ UNCHANGED <<tickets, bucket, policy, account, clock, job>>

\* The policy and the pending action; every batch that relies on the policy
\* asserts its revision.
Consult(e) ==
  /\ At(e, "read")
  /\ IF level = "deny" THEN Goto(e, "denying") /\ UNCHANGED seen
     ELSE /\ Goto(e, "deciding")
          /\ seen' = [seen EXCEPT ![e] =
               [@ EXCEPT !.level = level, !.revision = revision,
                         !.pend = IF seen[e].asked THEN pend ELSE "none"]]
  /\ UNCHANGED <<row, tickets, bucket, policy, account, clock, job>>

DenyTransfer(e) ==
  /\ At(e, "denying")
  /\ CanTerminate
  /\ Terminate("denied", seen[e].active # 0, seen[e].asked)
  /\ Finish(e)
  /\ UNCHANGED <<bucket, policy, account, clock, job>>

Unapproved(s) == s.level = "ask" /\ s.pend \notin {"approved", "executing"}
HasTicket(s)  == s.active # 0 /\ s.state # "awaiting_approval"

\* The policy tightened to "ask" after a ticket was issued: the ticket is taken
\* back unless its writer was admitted, and the request goes on.
Suspend(e) ==
  LET s == seen[e]
  IN /\ At(e, "deciding")
     /\ HasTicket(s) /\ Unapproved(s)
     /\ revision = s.revision
     /\ transfer = "in_progress" /\ active = s.active
     /\ gen[s.active] \in {"issued", "expired", "abandoned"}
     /\ WithdrawIfIssued(s.active, "expired")
     /\ transfer' = "awaiting_approval"
     /\ seen' = [seen EXCEPT ![e].state = "awaiting_approval"]
     /\ UNCHANGED <<active, handle, op, pend, receipt, pc>>
     /\ UNCHANGED <<bucket, policy, account, clock, job>>

\* Past the ticket a request may already have.
MayProceed(e) ==
  LET s == seen[e]
  IN /\ At(e, "deciding")
     /\ HasTicket(s) => ExpectedOf[e] # 0 /\ ~Unapproved(s)

StateAfter(p) == "failed"

\* The owner refused or the approval lapsed.
FailRefused(e) ==
  /\ MayProceed(e)
  /\ seen[e].pend \in {"denied", "cancelled", "expired", "failed"}
  /\ transfer' = StateAfter(seen[e].pend)
  /\ Finish(e)
  /\ UNCHANGED <<active, handle, op, pend>>
  /\ UNCHANGED <<tickets, bucket, policy, account, clock, job>>

\* The policy asks and no pending action exists yet.
RequestApproval(e) ==
  /\ MayProceed(e)
  /\ seen[e].level = "ask" /\ seen[e].pend = "none"
  /\ revision = seen[e].revision
  /\ pend = "none"
  /\ pend' = "pending"
  /\ transfer' = "awaiting_approval"
  /\ Finish(e)
  /\ UNCHANGED <<active, handle, op>>
  /\ UNCHANGED <<tickets, bucket, policy, account, clock, job>>

\* The old generation is out of the way: its ticket lapsed before the request
\* began (and is expired here), or it is expired or abandoned already.
Superseded(s) ==
  s.active # 0 =>
    gen[s.active] \in {"expired", "abandoned"} \cup (IF s.over THEN {"issued"} ELSE {})

CanIssue(e) ==
  LET s == seen[e]
  IN /\ MayProceed(e)
     /\ ~Unapproved(s) /\ s.pend \in {"none", "approved", "executing"}
     /\ s.active < MaxGen /\ ExpectedOf[e] \in {0, s.active}
     /\ revision = s.revision /\ connected
     /\ active = s.active /\ transfer \notin {"completed"} \cup Ended
     /\ Superseded(s)
     /\ s.pend = "approved" => pend = "approved" /\ ~ended

\* The ticket batch: old generation, operation, approval, new generation,
\* transfer and retry receipt together.
IssueTicket(e) ==
  LET s == seen[e]
      next == s.active + 1
  IN /\ CanIssue(e)
     /\ gen' = [g \in Generations |->
                  IF g = next THEN "issued"
                  ELSE IF g = s.active /\ gen[g] = "issued" THEN "expired" ELSE gen[g]]
     /\ cleanup' = [g \in Generations |->
                  IF g = s.active /\ gen[g] = "issued" THEN "released" ELSE cleanup[g]]
     /\ stopped' = [g \in Generations |-> stopped[g] \/ (g = s.active /\ gen[g] = "issued")]
     /\ op' = IF op = "none" THEN "claimed" ELSE op
     /\ pend' = IF s.pend = "approved" THEN "executing" ELSE pend
     /\ transfer' = "in_progress" /\ active' = next
     /\ receipt' = [receipt EXCEPT ![e] = IF ExpectedOf[e] = 0 THEN 0 ELSE next]
     \* issued_until is at most authority_until
     /\ ticketOver' = IF ended THEN ticketOver \cup {next} ELSE ticketOver
     /\ Finish(e)
     /\ UNCHANGED <<handle, ended, leaseOver>>
     /\ UNCHANGED <<bucket, policy, account, job>>

\* A view of the transfer, a failed assertion, a quota, or the end of the
\* isolate.
EndRequest(e) ==
  /\ ~At(e, "idle")
  /\ Finish(e)
  /\ UNCHANGED <<row, tickets, bucket, policy, account, clock, job>>

-----------------------------------------------------------------------------
(***************************************************************************)
(* acceptUpload: a PUT under a ticket.                                     *)
(***************************************************************************)

\* The generation and the transfer are read; they are used to the end.
Present(w, g) ==
  /\ At(w, "idle")
  /\ gen[g] = "issued" /\ g \notin ticketOver
  /\ active = g /\ ~ended
  /\ Goto(w, "presented")
  /\ job' = [job EXCEPT ![w] = [NoJob EXCEPT !.gen = g, !.asked = pend # "none"]]
  /\ UNCHANGED <<row, tickets, bucket, policy, account, clock, seen>>

\* The policy, the approval it may need, and the account.
WriterConsult(w) ==
  /\ At(w, "presented")
  /\ Goto(w, IF level = "deny" THEN "denying"
             ELSE IF level = "ask" /\ ~(job[w].asked /\ pend = "executing") THEN "suspending"
             ELSE IF ~connected THEN "refusing"
             ELSE "admitting")
  /\ job' = [job EXCEPT ![w] = [@ EXCEPT !.revision = revision, !.credential = credential]]
  /\ UNCHANGED <<row, tickets, bucket, policy, account, clock, seen>>

\* The policy denies, or the account is gone.
RefuseWriter(w) ==
  /\ pc[w] \in {"denying", "refusing"}
  /\ CanTerminate
  /\ Terminate(IF At(w, "denying") THEN "denied" ELSE "failed", TRUE, job[w].asked)
  /\ Leave(w)
  /\ UNCHANGED <<bucket, policy, account, clock, seen>>

\* The policy now asks: this ticket is taken back and the transfer waits.
SuspendTicket(w) ==
  /\ At(w, "suspending")
  /\ WithdrawIfIssued(job[w].gen, "expired")
  /\ transfer' = IF transfer = "completed" THEN transfer ELSE "awaiting_approval"
  /\ Leave(w)
  /\ UNCHANGED <<active, handle, op, pend, receipt>>
  /\ UNCHANGED <<bucket, policy, account, clock, seen>>

\* The account the writer was admitted under is still the same.
Current(w) == connected /\ credential = job[w].credential

\* Mutant of SamePolicy: what was read is believed.
AnyPolicy(w) == TRUE

SamePolicy(w)  == revision = job[w].revision
StillIssued(w) == gen[job[w].gen] = "issued"

CanAdmit(w) ==
  LET g == job[w].gen
  IN /\ At(w, "admitting")
     /\ SamePolicy(w) /\ Current(w)
     /\ transfer = "in_progress" /\ active = g
     /\ StillIssued(w)
     /\ \A h \in Generations : ~Admitted(h)      \* uploadsGlobal

\* The lease starts here.
Admit(w) ==
  /\ CanAdmit(w)
  /\ gen' = [gen EXCEPT ![job[w].gen] = "uploading"]
  /\ op' = "executing"
  /\ Goto(w, "receiving")
  /\ UNCHANGED <<transfer, active, handle, pend, cleanup, stopped, receipt>>
  /\ UNCHANGED <<bucket, policy, account, clock, seen, job>>

Fail(w, cause) ==
  /\ Goto(w, "caught")
  /\ job' = [job EXCEPT ![w].cause = cause]

\* The body: wrong bytes, a connection or a lease that ends, or a PUT to R2.
Receive(w) ==
  /\ At(w, "receiving")
  /\ \/ Fail(w, "integrity")
     \/ Fail(w, "interrupted")
     \/ job[w].gen \notin leaseOver /\ Goto(w, "putting") /\ UNCHANGED job
  /\ UNCHANGED <<row, tickets, bucket, policy, account, clock, seen>>

\* R2 answers, or the answer is lost: the write may have happened, may happen
\* later, or never.
Put(w) ==
  /\ At(w, "putting")
  /\ \/ /\ object' = object \cup {job[w].gen}
        /\ Goto(w, "put")
        /\ UNCHANGED <<landing, job>>
     \/ /\ landing' = landing \cup {job[w].gen}
        /\ Fail(w, "rejected")
        /\ UNCHANGED object
  /\ UNCHANGED <<row, tickets, policy, account, clock, seen>>

\* A cut-off write arrives.
Land(g) ==
  /\ g \in landing
  /\ landing' = landing \ {g}
  /\ object' = object \cup {g}
  /\ UNCHANGED <<row, tickets, policy, account, clock, locals>>

\* uploading becomes stored while the lease runs.
Store(w) ==
  /\ At(w, "put")
  /\ \/ /\ gen[job[w].gen] = "uploading" /\ job[w].gen \notin leaseOver
        /\ gen' = [gen EXCEPT ![job[w].gen] = "stored"]
        /\ Goto(w, "stored")
        /\ UNCHANGED job
     \/ Fail(w, "refused") /\ UNCHANGED gen      \* the assertion, or D1 itself
  /\ UNCHANGED <<row, cleanup, stopped, receipt>>
  /\ UNCHANGED <<bucket, policy, account, clock, seen>>

\* Mutant of Fenced: bytes that were stored once are published.
NotFenced(w) == TRUE

\* The generation is still the transfer's own, stored, under a running lease.
Fenced(w) ==
  /\ transfer = "in_progress" /\ active = job[w].gen
  /\ gen[job[w].gen] = "stored" /\ job[w].gen \notin leaseOver

CanPublish(w) == At(w, "stored") /\ Current(w) /\ Fenced(w)

\* One transaction: staging object, generation, transfer, operation, approval.
\* Its answer may be lost.
Publish(w) ==
  LET g == job[w].gen
  IN /\ CanPublish(w)
     /\ gen' = [gen EXCEPT ![g] = "completed"]
     /\ cleanup' = [cleanup EXCEPT ![g] = "published"]
     /\ stopped' = [stopped EXCEPT ![g] = TRUE]
     /\ transfer' = "completed" /\ handle' = g
     /\ op' = "executed"
     /\ pend' = IF job[w].asked /\ pend = "executing" THEN "executed" ELSE pend
     /\ Leave(w) \/ Fail(w, "refused")
     /\ UNCHANGED <<active, receipt>>
     /\ UNCHANGED <<bucket, policy, account, clock, seen>>

PublishFails(w) ==
  /\ At(w, "stored")
  /\ Fail(w, "refused")
  /\ UNCHANGED <<row, tickets, bucket, policy, account, clock, seen>>

\* Mutant of AlreadyCompleted: the lost answer of a commit is taken for a failure.
NeverCompleted == FALSE

AlreadyCompleted == transfer = "completed"

\* The catch reads the transfer, then the account: an error that may be
\* retried abandons the generation, any other fails the transfer.
Catch(w) ==
  /\ At(w, "caught")
  /\ \/ AlreadyCompleted /\ Leave(w)
     \/ /\ ~AlreadyCompleted
        /\ Goto(w, IF /\ Current(w) /\ job[w].cause # "integrity"
                      /\ job[w].cause \in {"interrupted", "rejected"} \/ job[w].gen \in leaseOver
                   THEN "abandoning" ELSE "failing")
        /\ UNCHANGED job
  /\ UNCHANGED <<row, tickets, bucket, policy, account, clock, seen>>

\* The generation keeps its charge as debt; writer_stopped says whether this
\* invocation can prove that its write ended.
FailGeneration(w, to, ended_) ==
  LET g == job[w].gen
  IN IF gen[g] \in {"uploading", "stored", "abandoned"}
     THEN /\ gen' = [gen EXCEPT ![g] = to]
          /\ cleanup' = [cleanup EXCEPT ![g] = "debt"]
          /\ stopped' = [stopped EXCEPT ![g] = ended_]
     ELSE UNCHANGED <<gen, cleanup, stopped>>

WriterEnded(w) == job[w].cause # "rejected"

FailUpload(w) ==
  /\ pc[w] \in {"failing", "abandoning"}
  /\ FailGeneration(w, IF At(w, "failing") THEN "failed" ELSE "abandoned", WriterEnded(w))
  /\ IF At(w, "failing")
     THEN /\ transfer' = IF transfer = "completed" THEN transfer ELSE "failed"
          /\ op' = "failed_safe"
          /\ pend' = IF job[w].asked /\ pend = "executing" THEN "failed" ELSE pend
     ELSE UNCHANGED <<transfer, op, pend>>
  /\ IF WriterEnded(w) THEN Goto(w, "cleaning") /\ UNCHANGED job ELSE Leave(w)
  /\ UNCHANGED <<active, handle, receipt>>
  /\ UNCHANGED <<bucket, policy, account, clock, seen>>

\* Delete what this writer put, then release the charge.
Clean(w) ==
  LET g == job[w].gen
  IN /\ At(w, "cleaning")
     /\ object' = IF job[w].cause = "refused" THEN object \ {g} ELSE object
     /\ cleanup' = IF gen[g] \in {"failed", "abandoned"} /\ stopped[g]
                   THEN [cleanup EXCEPT ![g] = "released"] ELSE cleanup
     /\ Leave(w)
     /\ UNCHANGED <<row, gen, stopped, receipt, landing>>
     /\ UNCHANGED <<policy, account, clock, seen>>

\* The request ends early: a refused batch, a closed connection or the end of
\* the isolate.  A write to R2 that was under way may still land.
StopWriter(w) ==
  /\ ~At(w, "idle")
  /\ landing' = IF At(w, "putting") THEN landing \cup {job[w].gen} ELSE landing
  /\ Leave(w)
  /\ UNCHANGED <<row, tickets, object, policy, account, clock, seen>>

-----------------------------------------------------------------------------
(***************************************************************************)
(* The five-minute cron.                                                   *)
(***************************************************************************)
Lapsed(g) ==
  \/ gen[g] = "issued" /\ g \in ticketOver
  \/ gen[g] \in {"uploading", "stored"} /\ g \in leaseOver

\* One batch: lapsed tickets are expired, lapsed writers abandoned in debt.
RecoverGenerations ==
  /\ \E g \in Generations : Lapsed(g)
  /\ gen' = [g \in Generations |->
               IF ~Lapsed(g) THEN gen[g]
               ELSE IF gen[g] = "issued" THEN "expired" ELSE "abandoned"]
  /\ cleanup' = [g \in Generations |->
               IF ~Lapsed(g) THEN cleanup[g]
               ELSE IF gen[g] = "issued" THEN "released" ELSE "debt"]
  /\ stopped' = [g \in Generations |-> stopped[g] \/ (Lapsed(g) /\ gen[g] = "issued")]
  /\ UNCHANGED <<row, receipt, bucket, policy, account, clock, locals>>

\* Mutant of Open: a transfer that waits for its approval is left alone.
OpenUnderWay == {"authorized", "in_progress"}

Open == {"authorized", "awaiting_approval", "in_progress"}

RecoverTransfer ==
  /\ ended
  /\ transfer \in Open
  /\ ~Admitted(active)
  /\ transfer' = "expired"
  /\ op' = IF op \in {"claimed", "executing"} THEN "failed_safe" ELSE op
  /\ pend' = IF pend \in {"pending", "approved", "executing"} THEN "expired" ELSE pend
  /\ UNCHANGED <<active, handle>>
  /\ UNCHANGED <<tickets, bucket, policy, account, clock, locals>>

\* Mutant of Releasable: elapsed time certifies the end of a writer.
AnyReleasable(g) == TRUE

Releasable(g) == stopped[g]

\* Debt: the object is deleted on every pass, the charge released only when
\* the writer provably stopped.
Sweep(g) ==
  /\ cleanup[g] = "debt"
  /\ object' = object \ {g}
  /\ cleanup' = IF Releasable(g) THEN [cleanup EXCEPT ![g] = "released"] ELSE cleanup
  /\ UNCHANGED <<row, gen, stopped, receipt, landing, policy, account, clock, locals>>

\* runCron expires an approval that nobody used.
ExpirePending ==
  /\ ended /\ pend \in {"pending", "approved"}
  /\ pend' = "expired"
  /\ UNCHANGED <<transfer, active, handle, op>>
  /\ UNCHANGED <<tickets, bucket, policy, account, clock, locals>>

-----------------------------------------------------------------------------
(***************************************************************************)
(* The owner and the clock.                                                *)
(***************************************************************************)
OwnerDecides(from, to) ==
  /\ pend \in from /\ ~ended
  /\ pend' = to
  /\ UNCHANGED <<transfer, active, handle, op>>
  /\ UNCHANGED <<tickets, bucket, policy, account, clock, locals>>

EditPolicy(l) ==
  /\ revision < MaxRevision /\ l # level
  /\ level' = l /\ revision' = revision + 1
  /\ UNCHANGED <<row, tickets, bucket, account, clock, locals>>

\* Revoking and connecting again both change the credential version.
Revoke ==
  /\ connected /\ credential < MaxCredential
  /\ connected' = FALSE /\ credential' = credential + 1
  /\ UNCHANGED <<row, tickets, bucket, policy, clock, locals>>

\* Google rejects the refresh token: the version stays.
LoseGrant ==
  /\ connected
  /\ connected' = FALSE
  /\ UNCHANGED <<row, tickets, bucket, policy, credential, clock, locals>>

Reconnect ==
  /\ credential < MaxCredential
  /\ connected' = TRUE /\ credential' = credential + 1
  /\ UNCHANGED <<row, tickets, bucket, policy, clock, locals>>

\* No ticket outlives the authority of its transfer; a lease may.
LapseAuthority ==
  /\ transfer # "none" /\ ~ended
  /\ ended' = TRUE
  /\ ticketOver' = ticketOver \cup {g \in Generations : gen[g] # "none"}
  /\ UNCHANGED <<row, tickets, bucket, policy, account, leaseOver, locals>>

LapseTicket(g) ==
  /\ gen[g] = "issued" /\ g \notin ticketOver
  /\ ticketOver' = ticketOver \cup {g}
  /\ UNCHANGED <<row, tickets, bucket, policy, account, ended, leaseOver, locals>>

LapseLease(g) ==
  /\ gen[g] \in {"uploading", "stored"} /\ g \notin leaseOver
  /\ leaseOver' = leaseOver \cup {g}
  /\ UNCHANGED <<row, tickets, bucket, policy, account, ended, ticketOver, locals>>

-----------------------------------------------------------------------------
RequestStep(e) ==
  \/ Create(e) \/ Read(e) \/ ExpireOnRead(e) \/ Consult(e) \/ DenyTransfer(e)
  \/ Suspend(e) \/ FailRefused(e) \/ RequestApproval(e) \/ IssueTicket(e)
  \/ EndRequest(e)

WriterStep(w) ==
  \/ \E g \in Generations : Present(w, g)
  \/ WriterConsult(w) \/ RefuseWriter(w) \/ SuspendTicket(w) \/ Admit(w)
  \/ Receive(w) \/ Put(w) \/ Store(w) \/ Publish(w) \/ PublishFails(w)
  \/ Catch(w) \/ FailUpload(w) \/ Clean(w) \/ StopWriter(w)

OwnerStep ==
  \/ OwnerDecides({"pending"}, "approved")
  \/ OwnerDecides({"pending"}, "denied")
  \/ OwnerDecides({"pending", "approved"}, "cancelled")
  \/ \E l \in Levels : EditPolicy(l)
  \/ Revoke \/ LoseGrant \/ Reconnect

ClockStep(g) == LapseTicket(g) \/ LapseLease(g)

CronStep == RecoverGenerations \/ RecoverTransfer \/ ExpirePending

Next ==
  \/ \E e \in Requests : RequestStep(e)
  \/ \E w \in Writers : WriterStep(w)
  \/ OwnerStep \/ LapseAuthority \/ CronStep
  \/ \E g \in Generations : ClockStep(g) \/ Sweep(g) \/ Land(g)

Spec == Init /\ [][Next]_vars

\* Deadlines pass and the cron runs; no request is owed an end.
Fairness ==
  /\ WF_vars(LapseAuthority)
  /\ WF_vars(RecoverGenerations) /\ WF_vars(RecoverTransfer)
  /\ \A g \in Generations : WF_vars(ClockStep(g)) /\ WF_vars(Sweep(g))

FairSpec == Spec /\ Fairness

-----------------------------------------------------------------------------
(***************************************************************************)
(* Properties.                                                             *)
(***************************************************************************)
TypeOK ==
  /\ transfer \in TransferStates
  /\ active \in 0..MaxGen /\ handle \in 0..MaxGen
  /\ op \in OpStates /\ pend \in PendingStates
  /\ gen \in [Generations -> GenStates]
  /\ cleanup \in [Generations -> Cleanups]
  /\ stopped \in [Generations -> BOOLEAN]
  /\ receipt \in [Requests -> 0..MaxGen]
  /\ object \subseteq Generations /\ landing \subseteq Generations
  /\ level \in Levels /\ revision \in 0..MaxRevision
  /\ credential \in 1..MaxCredential /\ connected \in BOOLEAN
  /\ ended \in BOOLEAN
  /\ ticketOver \subseteq Generations /\ leaseOver \subseteq Generations
  /\ pc \in [Requests \cup Writers -> RequestSteps \cup WriterSteps]
  /\ seen \in [Requests ->
       [state : TransferStates, active : 0..MaxGen, asked : BOOLEAN, over : BOOLEAN,
        level : Levels, revision : 0..MaxRevision, pend : PendingStates]]
  /\ job \in [Writers ->
       [gen : 0..MaxGen, asked : BOOLEAN, revision : 0..MaxRevision,
        credential : 0..MaxCredential, cause : Causes]]

\* Past admission: the writer holds the lease, or held it.
Writing(w) == pc[w] \in {"receiving", "putting", "put", "stored", "caught",
                         "failing", "abandoning", "cleaning"}

\* The bytes of generation g are in R2, on their way, or may still arrive.
InBucket(g) ==
  \/ g \in object \cup landing
  \/ \E w \in Writers : job[w].gen = g /\ At(w, "putting")

\* Whatever fails and whoever cleans up, the object behind a published handle
\* is there, and no write that was cut off can land over it: deletions by the
\* failing writer and by the cron never reach it.
PublishedIsStored ==
  handle # 0 => gen[handle] = "completed" /\ handle \in object /\ handle \notin landing

\* At most one generation of a transfer is ever published, and only the one
\* the transfer shows: an abandoned object never becomes the file.
OnePublication ==
  \A g \in Generations : gen[g] = "completed" <=> g = handle

\* Bytes that are in R2, on their way or may still arrive are charged to the
\* owner's quota, so a delayed write can never exceed it.
BytesAreCharged ==
  \A g \in Generations : InBucket(g) => cleanup[g] # "released"

\* writer_stopped is only set when no write of the generation can still land.
StoppedIsTrue ==
  \A g \in Generations : stopped[g] =>
    /\ g \notin landing
    /\ \A w \in Writers : job[w].gen = g => pc[w] \notin {"receiving", "putting"}

\* Two PUTs that present one ticket are never both admitted.
OneWriterPerTicket ==
  \A v, w \in Writers :
    Writing(v) /\ Writing(w) /\ job[v].gen = job[w].gen => v = w

\* One upload at a time, and one file in the end.
OneWriter == OnePublication /\ OneWriterPerTicket

\* The quota is charged for what is, or may come to be, in R2, and the debt job
\* gives a charge back only for a writer that stopped.
ChargesAreTrue == BytesAreCharged /\ StoppedIsTrue

\* No byte is admitted but under the policy in force at that moment, with an
\* approval under way when it asks, and only for a connected account.
AdmissionIsAuthorised ==
  [][\A g \in Generations : gen[g] = "issued" /\ gen'[g] = "uploading" =>
       connected /\ (level = "allow" \/ (level = "ask" /\ pend = "executing"))]_vars

\* A transfer ends: completed, failed, denied or expired, with nobody but the
\* clock and the cron to rely on.
TransfersEnd ==
  transfer \in {"authorized", "awaiting_approval", "in_progress"}
    ~> transfer \in {"completed"} \cup Ended

\* The charges of writers that provably stopped are all released, again and
\* again.
DebtIsReleased ==
  []<>(\A g \in Generations : cleanup[g] = "debt" => ~stopped[g])

\* With nobody but the clock and the cron to rely on the transfer's own row ends,
\* and the charge of every writer that provably stopped is given back
\* (recovery.ts:20-25, 59-72).  Nothing is said of a writer that vanished, whose
\* charge stays, nor of the operation and the pending row, which an authority that
\* lapses on a read leaves open (ExpireOnRead).
UploadsSettle == TransfersEnd /\ DebtIsReleased
=============================================================================
