# Gmail MCP: formal models

TLA+ models of the Gmail MCP server: a Cloudflare Worker that lets a language
model use its owner's Gmail accounts under the owner's policy and approval, and
a companion on the owner's machine that moves attachment bytes in and out.

| Module | Models | Instance for TLC | Proofs |
|---|---|---|---|
| `Gate` | decision gate, idempotency keys, approvals, journal, executors | `MCGate` | `GateProofs` |
| `Delivery` | what `Gate` promises of a send, with no tables | | `GateProofs` |
| `Uploads` | upload transfers, their policy and their bytes | `MCUploads` | `UploadsProofs` |
| `Recovery` | cron recovery of sends with an unknown outcome | `MCRecovery` | `RecoveryProofs` |
| `Staging` | staged files: ingest, downloads, acknowledgement, purge | `MCStaging` | `StagingProofs` |
| `Shelf` | what `Staging` promises to those who use a file, with no tables | | `StagingProofs` |
| `Access` | accounts and tokens, web sessions, one-use states, companion registration | | `AccessProofs` |
| `Policy` | the policy the owner saves, the tools that change labels and drafts; built on `Access` | `MCAccess` | `AccessProofs` |
| `Saves` | the companion's save of an attachment, on a disk that stops | `MCSaves` | `SavesProofs` |
| `Stage` | the companion's staging of a local file, and its login | `MCStage` | `StageProofs` |
| `Intent` | the journal of the qualification scripts | `MCIntent` | `IntentProofs` |

    tlc -workers 2 -config GateSend.cfg MCGate     # one run
    tlapm GateProofs.tla                           # the proofs of one module

## 1. The system

The Worker has no memory of its own. Each request runs in an isolate that may be
stopped at any instant and is never resumed; all state is in D1 (SQLite: a batch
is one transaction, nothing spans two batches), in R2 (staged bytes; no
transaction with D1) and at Google. Concurrent actors are: tool calls, requests
that execute an approved action, the owner's browser, PUTs and GETs of the
companion, the five-minute cron (whose runs may overlap), and Gmail.

| Component (source) | State it keeps | Operations | Works with |
|---|---|---|---|
| Decision gate (`tools/gate.ts`, `define.ts`) | none | plan, decide, ask or allow batch, execute, catch | policy, keys, approvals, journal, executors |
| Approvals (`approval/*`, `web/pages/approve.ts`) | `pending_actions` | insert, approve, deny, withdraw, expire, claim, finish | gate, journal, uploads, cron |
| Idempotency (`tools/idempotency.ts`) | `idempotency_keys` | look up, bind, rebind a retired key | gate |
| Journal, settlement (`operations/journal.ts`, `recovery-state.ts`, `tools/settle.ts`) | `operations`, `operation_recovery` | claim, begin, settle executed / failed_safe / unknown, two protocols | gate, executors, cron, staging |
| Executors, Gmail client (`operations/send.ts`, `google/gmail.ts`, `resumable.ts`) | none | open the operation, send, read the receipt | journal, tokens, Gmail |
| Delivery recovery (`recovery-admission.ts`, `reconcile.ts`, `recovery-cron.ts`, `recovery-http.ts`, `installation.ts`) | leases, attempts, requests, qualification control, installation marker | claim a lease, admit requests, observe, settle, clean up | journal, tokens, Gmail |
| Uploads (`staging/transfers.ts`, `upload.ts`, `recovery.ts`) | `upload_transfers`, `upload_generations`, retry receipts | ensure, retry, PUT, fail, recover, release debt | policy, approvals, journal, R2 |
| Staged objects, downloads (`store.ts`, `downloads.ts`, `materialization.ts`, `budgets.ts`) | `staging_objects`, ingests, leases, acknowledgements | ingest, reserve, consume, stream, acknowledge, purge | gate, companion, R2 |
| Cron (`cron.ts`) | none | expire, promote, recover, purge | all tables |
| Tokens, accounts (`google/tokens.ts`, `connect.ts`, `oidc.ts`) | `accounts` | refresh, revoke, connect | everything that calls Google |
| Web session, one-use state (`web/*`) | `oauth_states`, signed cookie | put, consume, purge | login, connect |
| Policy (`policy/*`, `web/pages/policy.ts`) | `policies`, `policy_revision` | decide, edit, preset | gate, uploads, sessions, tools |
| MCP server, tools, authorization (`mcp`, `tools`, `auth`) | provider's grants | dispatch, scopes | gate |
| Audit, MIME, crypto, static pages | `audit_log` | append; pure functions | all |
| Companion (`companion/src`) | its journal, through the helper | login, stage, retry, save, acknowledge | Worker, helper |
| Native helper (`companion/native`) | SQLite journal, save receipts, spool, files | prepare, publish, acknowledge, recover | companion |
| Qualification scripts (`scripts/qualification`) | a journal of write-once files; `recovery_control` | bind, dispatch, seal, close; qualify, disable | deployment, delivery recovery |
| Outlook probes (`scripts/outlook-probes`) | evidence files | research tooling | none at run time |

`PROJECT.json` repeats this list with its status and says of each part what is
modelled or why it is not.

**What is hard.** Two retries of one call, or two executions of one approval,
may be anywhere in the handler at the same time. A Gmail request whose answer is
lost may have been performed; the journal must neither claim delivery nor permit a
second request. A worker may wake after the cron gave its row up. In the upload
path a request uses the transfer row it read at its start; a PUT that was cut off
may still land in R2 after everyone else cleaned up; the answer of a commit
may be lost after the commit happened. A token being refreshed is written back after
its grant was revoked and replaced. A file is purged while a stream that was admitted
still reads it. On the owner's machine a helper may be stopped, or the power lost,
between a rename and the sync that makes it durable, and other programs share the
directory.

**What makes it correct.**

* Gate, keys, approvals, journal: at most one request per key and per approval;
  `failed_safe` only when Gmail has nothing; `executed` only when it has; a file
  is attached to at most one request; outcomes do not change; everything ends.
* Uploads: a published handle has its bytes and nothing will overwrite or delete
  them; one publication per transfer; every byte that may be in R2 is charged;
  bytes are admitted only under the policy and approval in force.
* Recovery: a settlement is written only by the holder of the lease, under the
  qualification and the grant it was admitted with, while the installation is
  active, all asserted in the same transaction; attempts and requests stay within
  their quotas however passes overlap; recovery ends.
* Staged objects: a handle somebody may use has its bytes; every byte that may be in
  R2 is charged to a quota; an acknowledgement is recorded once; everything is collected.
* Access: a credential is never written over a newer one, a one-use state serves
  one request, no race loses a grant that is still live, one companion client exists.
* Policy: a call runs only on a level that was in force during its request, over the owner's
  approval if it says "ask"; a draft is sent as it was approved; a save writes what was changed.
* Saves: a crash never turns an established publication into permission to replace a
  file, nor frees a charge that is still held, nor acknowledges what is not durable.
* Stage: one request has one transfer id and one retry id per generation however often
  it is repeated; snapshots are charged and reclaimed; a logout stays a logout.
* Intent: a reviewed mutation is sent once; a sample's first outcome stands.

## 2. Plan

Most important behaviour first: what may be sent twice, then what may be lost or read
by the wrong party, then what is left behind.

1. `Gate` and `GateProofs`: the gate, the keys, the approvals, the journal.
2. `Delivery`: the promise to a client, `Gate` shown to implement it by TLC
   (`gate_send`) and by proof (`GateProofs`).
3. `Uploads`: one transfer, its writers, the policy it is admitted under.
   `UploadsProofs`.
4. `Recovery`: leases, fences, epochs, budgets, overlapping passes; `RecoveryProofs`.
5. `Staging`, `Shelf`, `StagingProofs`, `Access`, `Policy`, `AccessProofs`: what happens to a file, to a
   credential and to a call afterwards.
6. `Saves`, `SavesProofs`, `Stage`, `StageProofs`: the machine of the owner.
7. `Intent` and `IntentProofs`: the operator's tooling.

All of these are written. Left: recipients and limits in `Policy`; what the implementation
calls outside the parts above (section 14).

Modules compose through the tables they share. `Policy` extends `Access`, whose page for the
policy reads and writes the rows `Policy` adds, and whose mailboxes its calls meet. `Gate` takes from `Recovery` only its
two effects on the journal; `Recovery` takes from `Access` the version and status of a
grant; `Uploads` ends where `Staging` begins, at the publication of a handle; `Stage`
and `Saves` see of the Worker what its answers tell apart. No module that is proved
about declares a RECURSIVE operator; parameters are CONSTANTS with a named assumption;
an operation is one action.

## 3. Module `Gate`

An *activity* is one request to an isolate: a *call* of a tool, or a *runner*
that executes an approved action (`execute_pending`, or the retried call that
resumes it). A call inserts at most one `pending_actions` row and an activity at
most one `operations` row, so rows are named by the activity that inserts them.

| Variable | Code |
|---|---|
| `pending`, `claim`, `lapsed` | `pending_actions.state`, `.operation_id`, `expires_at` passed; `failed_unknown` is `failed` with `error = delivery_unknown` |
| `binding` | `idempotency_keys`: whose row the key leads to |
| `opState`, `opProto` | `operations.state`, `.settlement_protocol` |
| `reserved`, `spent` | `staging_objects.reserved_by_operation_id`, and which operation set `consumed_at` |
| `wire` | what Gmail has of the request: unsent, in flight, committed, refused |
| `pc`, `work`, `answer` | where the activity is, whose payload it runs, what it told its client |

| Actions | Code |
|---|---|
| `Lookup`, `Decide`, `Ask`, `Allow`, `LostRace` | `runGated` up to its batch, `replayFor`, `insertClaimed` |
| `Approve`, `Deny`, `Cancel`, `ExpirePending` | `pending.ts`, `cron.ts` |
| `PickApproved`, `Claim`, `Recheck` | `executeApproved`, `claimPending` |
| `FailEarly`, `OpenRecoverable`, `OpenJournaled`, `OpenNothing`, `Send`, `Respond` | the executors, by how they open the operation and send |
| `Catch`, `Record`, `ReleaseSafe`, `ReportUnknown`, `Settle` | `runExecutor`'s catch and settlement, `settle.ts`, `recovery-state.ts` |
| `Promote`, `RecoverClaimed`, `RecordStale`, `Reconcile` | `cron.ts`, `recovery-cron.ts` |
| `Crash`, `GmailCommits`, `GmailRefuses` | the environment |

A D1 batch with its assertions is one action; every place where the handler
awaits something between two batches is a step boundary. The policy may answer
anything at `Decide`, because the owner may edit it at any time. `replayFor`
reads the key and then its operation; that pair is one read here, and so are the
two reads with which the catch decides what to settle. Staleness has no clock: a
request may run longer than two minutes, so the cron may take any row.

Tools are grouped by their effect on the journal: `send` and `send_draft`
(protocol 2, recoverable), `draft` (journaled, protocol 1), `label` (not
journaled, but an operation that exists is opened, and the request is retried),
`relabel` (never opened). Message contents, recipients and audit are left out.

D1 may fail. In the catch and after Gmail's success a read or a batch that fails is an
alternative of its own (`InternalError`): rows as they were, or as the batch left them when
only the read after it failed, and the client answered with an internal error. The read at
`gate.ts:491` is outside every `try`, so this happens to the client of a message that was
delivered. `AnswerIsTruthful` therefore promises nothing about Gmail after an error; it
promises that whatever may have left is on record, and that the same request under its key
is answered from that record (`StaysOnRecord`). A failing batch anywhere else is a crash
with an answer: nothing has been sent by then.

**Delivery.** `Delivery` is what this amounts to for a client, with no keys, approvals,
tables, crashes or cron: an *attempt* is begun for a request only while no attempt for a
request alike is standing; it leaves once; it is given up only if it sent nothing; what is
said of it is what became of it, or that nobody knows. `Gate` implements it under the
mapping

| `Delivery` | `Gate` |
|---|---|
| `Attempts`, `Requests` | `Activities`, `Calls` |
| `Alike` | `SameMessage`: the same call (its approval executed again) or one idempotency key |
| `attempt[a]` | `AttemptOf(a)`: nothing until a recoverable send has an operation (`Tracked`); then whose payload it runs, what `opState` says (`Said`: claimed and executing are "open") and `wire` |

`DeliversAsPromised == Promise!Spec` is the property; approval, keys, claims, protocols and
the cron disappear under the mapping, and steps that only move a handler are stutters.
`Delivery` says nothing of one-shot drafts and labels, which have no key.

## 4. Module `Uploads`

One transfer, any number of requests (`ensure`, or `retry` of one generation)
and PUTs; a request that ends returns to `idle` and may be repeated.

| Variable | Code |
|---|---|
| `transfer`, `active`, `handle`, `op`, `pend` | the `upload_transfers` row, its operation and pending action |
| `gen`, `cleanup`, `stopped`, `receipt` | `upload_generations`, `upload_retry_requests` |
| `object`, `landing` | R2: objects present; writes cut off that may still land |
| `level`, `revision`, `credential`, `connected` | policy and its revision; account's grant |
| `ended`, `ticketOver`, `leaseOver` | `authority_until`, `issued_until`, `lease_until` passed |
| `seen`, `job` | the rows a request or PUT read at its start and goes on using |

`Create` ... `EndRequest` are `ensureTransfer` in its own order of early
returns; `Present` ... `StopWriter` are `acceptUpload`, its catch and
`failUpload`; `RecoverGenerations`, `RecoverTransfer`, `Sweep` are
`recoverUploads`. Reads that the next batch asserts again are one step with the
read before them; reads used unasserted have a step of their own. An isolate may
end at any step, and a write to R2 under way then may or may not
land (`Land`). A quota refusal, a failed assertion and the end of the isolate are
all `EndRequest`: none changes a row. A companion retries only a
generation it was shown, as `Companion.stage` does.

Left out: deletions at the end of retention, the sizes of the quotas (a charge is
`cleanup # "released"`), other transfers, and the staged object after its
publication (`Staging`).

## 5. Module `Recovery`

What becomes of a send whose request never learned the outcome. `Gate` has the two
effects of recovery on the journal (`RecordStale`, `Reconcile`) as single
steps; `Recovery` is the machinery behind them, with the journal reduced to
the state of recoverable operations. Every cron trigger is a *pass*; passes may overlap,
be late (a pass works in any window up to the current one) or stop anywhere.

| Variable | Code |
|---|---|
| `opState`, `bound` | `operations.state`, the grant in `operation_recovery` |
| `rec`, `session`, `lease`, `leaseOver`, `lastWindow`, `attempts`, `waiting`, `age` | the `operation_recovery` row: state, session, lease token and its end, window, attempts, retry delay, deadline and retention |
| `log`, `requests` | `recovery_attempts`, `recovery_requests` |
| `control`, `epoch` | `recovery_control` rows, by grant and mode |
| `connected`, `credential`, `installed` | account's status and grant version; installation marker |
| `pc`, `todo`, `at`, `held`, `found`, `win` | a pass: its place, the rows it has still to see, its row, the mode and epoch it read, what the search named, its window |

| Actions | Code |
|---|---|
| `Begin`, `SettleDirect`, `FailDirect` | `beginRecoverableOperation`, `settleDirect`, `recordFailure`, of the request that sends |
| `Start`, `RecordStale`, `Collect` | `cleanupRecovery`, the stale operations, `dueRecoveries` |
| `Choose`, `Claim` | `claimRecovery`: its read and its batch |
| `Ask`, `Refresh`, `Inconclusive`, `SessionStatus`, `SearchMatch`, `Metadata` | `observeDelivery`; `admitRequest` before each request |
| `Settle`, `Finish`, `EndPass`, `Crash` | `settleRecovered`, the update after an attempt, the end of the run |
| `Qualify`, `Disable`, `QualificationExpires` | `changeQualification`, a mode's `expires_at` |
| `Revoke`, `Reconnect`, `FreezeOrRelease` | `tokens.ts`, `connect.ts`, a deployment |
| `Deliver`; `LeaseLapses`, `RetryComes`, `DeadlinePasses`, `RetentionEnds`, `NextWindow` | Gmail; the clock |

`Fences` is `recoveryFences`, the assertions every transaction begins with. A
request is two steps, the admission and the answer, so everything may change in
between. The sender may settle or fail at any time after `Begin`. The
search may name a message that is not the one sent (`"other"`): whether it counts is
`verifiesCandidate`, and `SettledIsDelivered` depends on it.

Left out: other accounts and the totals of all accounts together; the build and origin
a row was written under; a session's confirmed offset; the deletion of attempts and requests a
day old (their window is past). The rolling five-minute count and the totals
of rows appear as "a request may always be deferred".

## 6. Module `Staging`

Files between their arrival in R2 and their removal from it. A handle is written by one
ingest, under the materialization slot; afterwards downloads lease it, an acknowledgement
or an operation consumes it, the cron collects it. One owner and one account; every file
is one unit of the byte quota. Time is a clock, and a request compares with the time at
which it began wherever the code keeps `now` in a constant.

| Variable | Code |
|---|---|
| `slot`, `ingest` | `staging_materializations`, `staging_ingests` (state, `writer_stopped`, `lease_until`) |
| `object` | `staging_objects`: state, `created_at`, `expires_at`, consumed, reserved, linked to an ingest, `download_lease_until` |
| `bucket`, `flying` | R2: objects present; puts that may still be performed |
| `lease`, `admission`, `budget`, `ack` | `download_streams`, `download_admissions`, `staging_recovery_slots`, `staging_acknowledgements` |
| `writer`, `stream`, `acker`, `cron` | where each request and the cron's pass are, and what they read |
| `account`, `clock`, `fresh` | the grant; `Date.now()`; when an acknowledgement was last answered as new |

| Actions | Code |
|---|---|
| `OpenSlot` ... `Publish`, `PublishFails`, `Catch`, `MarkDebt`, `EraseOwn`, `SettleOwn`, `LeaveSlot`, `WriterDies` | `withMaterialization` around `ingest` (`materialization.ts`, `store.ts`), with its catch |
| `Land`, `PutReturns`, `PutFails` | R2: a put is performed whether or not its answer arrives |
| `ReserveFor`, `Consume`, `ReleaseReserved`, `ExtendExpiry` | what operations do to their files (`settlement.ts`, `settle.ts`) |
| `ReadObject`, `Admit`, `Open`, `Release`, `LeaveStream` | `leasedDownload`; the loss of its isolate |
| `BeginAck`, `ReadKnown`, `Record`, `LeaveAck` | `acknowledgeDownload` |
| `CronBegin` ... `CronEnd`, `CronFails` | the ingest part of `recoverUploads`, then `purgeExpired`; `now` is the pass's |
| `AccountChanges`, `Tick` | the owner revokes; the clock |

`Tick` does not let a request or a pass outlive the retention of what it records (7 days
in the code, 3 ticks here): an isolate does not run that long. Left out: an object's owner
and digest checks, other owners and their share of the global quotas, the upload transfer
that publishes an inline file (`Uploads`).

**Shelf.** `Shelf` is what this amounts to for whoever uses a file: it is awaited, offered,
gone, in that order; a stream may read it, an operation hold it and an acknowledgement use it
up only while it is offered and not used up; it goes only when no operation holds it and no
stream may read it. Under the mapping in `Staging`, `Shown` says how far a file is (a row that
is being deleted is gone already, a file whose writer may still publish is awaited), `Used` and
`InUse` are its row's two flags while it counts, `ReadingBy` the streams whose lease still runs.
The ingest, its catch, lost answers, the slot, the debts and the cron's steps disappear; a
lease that runs out is a reader who leaves. `KeepsFiles == Promise!Spec` is what
`StagingProofs` proves. It is in no run; the workloads of `staging_files` satisfy it too.

## 7. Module `Access`

Who may act, and with which Google credential. Every request is a *task* that reads a row,
works, and writes with the guard its statement has; any other task may run between two of
its steps, and a dead isolate is a task that takes no further step. A *grant* is what one
consent at Google created, named by a number; tokens carry the number of their grant.

| Variable | Code |
|---|---|
| `account` | `accounts`: status, `credential_version`, tokens, expiry passed or not, key version, default, alias |
| `session`, `state` | `web_sessions`, `oauth_states` |
| `setting`, `leased`, `clients` | the companion's row in `settings` and its lease; clients at the OAuth provider |
| `live`, `grants` | Google: the grants it honours, and how many it has given |
| `asked`, `task` | what each request asks, where it is and what it read |
| `minted`, `abandoned` | history: the grant each version stood for; grants given up without Google hearing of it |

| Actions | Code |
|---|---|
| `TokenLoad`, `Rewrap`, `CheckPinned`, `Refresh`, `NeedsReconnect`, `WriteToken`, `ReturnToken` | `accessToken`, `pinnedAccessToken` (`google/tokens.ts`) |
| `RevokeLoad`, `RevokeWipe`, `RevokeTell`, `RevokeOthers` | `revokeAccount` and its page |
| `StartLogin`, `StartAuthorize`, `StartReauth`, `StartConnect`, `Enter`, `Logout`, `ReadPolicy`, `EditPolicy` | pages: who may open them, and what they put in `oauth_states` |
| `Callback`, `Identify`, `Reauth`, `Mark`, `Login`, `CreateSession` | the login callback (`web/login.ts`, `session.ts`) |
| `Decide`, `Complete` | the consent to an MCP client |
| `ConnectConsume`, `Exchange`, `Verify`, `Lookup`, `StoreFails`, `Reconnect`, `Insert`, `Record`, `Undo` | `completeConnect` (`google/connect.ts`), both forms, with the revocation of what could not be stored |
| `ReadDefault`, `SetDefault` | `pages/accounts.ts` |
| `CompanionLook`, `Reserve`, `CreateClient`, `Wait`, `Claim`, `ListClients`, `RecordClient`, `CompareClient` | the registration of the companion's one client |
| `AccessTokenAges`, `SessionAges`, `StateExpires`, `LeaseEnds`, `GoogleRevokes` | time, and the owner at Google |

Two steps may fail after Google or the database did what they asked, and are modelled with
that outcome. `Exchange`: Google made the grant, and its answer was lost, could not be read or
named no refresh token. `RevokeWipe`: the row was wiped, and the store's answer was lost or the
token read before could not be decrypted. The request ends and nobody tells Google; the
grant goes to `abandoned`, which is how `NothingLeftLive` names it (disagreement 11). Sessions
are those of every user; `OthersRevoked` ends the others of one.

Left out: routing, the cookie's signature, form tokens, the provider's own grants; a
browser is the cookie it sends.

## 8. Module `Policy`

`Policy` extends `Access`: a policy page is a request of `Access`, here with the rows it reads
and saves, and a tool call is a task of its own, between the reads and writes of the
others. One message of each mailbox is followed, and one draft; Gmail gives a draft a new
version whenever it is saved.

| Variable | Code |
|---|---|
| `rows` | `policies`: a level for a mailbox or for all of them and an action, "inherit" where there is no row |
| `read` | what a policy page read before its batch; "none" for a mailbox that was not connected |
| `labels`, `draft` | Gmail: the labels of the message, the version of the draft (0 when it was sent) |
| `call` | what a tool call knows: the modifiers of its plan, whether it was approved, the draft as planned; history: whether a policy in force `permitted` it, whether the draft `moved`, what was `sent` |

| Actions | Code |
|---|---|
| `ReadRows`, `SaveRows` | `POST /policy`, `applyPolicyEdit` (`Edited` the form, `AllowAll` the preset) |
| `PlanCall`, `Judge` | `planAndRun`, `runGated` (`resolveLevel`, `decide`, `raise` of `policy/engine.ts`) |
| `OwnerAnswers`, `ClaimApproved`, `Recheck` | the approval page, `executePending` with its second decision |
| `ChangeLabels`, `SaveDraft`, `Reread`, `SendDraft` | the executors of `labels.ts`, `drafts.ts`, `send.ts` |
| `EditDraft`, `Elsewhere` | the owner in Gmail; every step of `Access` that is not the policy page's |

`InForce` states what a level is for by what the call does to the message, and not by what its
tool declares: it is the reading the decisions are held against. `SavedAsPosted` is stated for
each field, also when another page saved in between: `Wanted` is what the owner asked this page
to save, `Meanwhile` the fields that were saved since it read them. A field nobody else
saved ends as asked; one that another page saved does so only if the page still writes it, and
an override the preset did not list survives it. Left out: recipients and
limits (a draft's modifiers are in its request), what the gate journals (`Gate`), other
messages and drafts.

## 9. Module `Saves`

The companion's save of an attachment into a local folder, on a disk. One helper process
runs at a time, under the process lock; it first repairs what earlier ones left, then
serves its call. An action is one change of the disk or of the journal, or one request;
after each the helper may be stopped, or the power lost.

| Variable | Code |
|---|---|
| `file`, `stable` | what each name holds; what the names may hold after a loss of power |
| `receipt`, `charge` | the journal's `save:` records and reservations (SQLite, full sync: they survive) |
| `acked` | handles the Worker counts as acknowledged |
| `run` | the helper: its call, its place, the receipts still to repair |
| `touched`, `torn`, `erred` | history: names other programs changed; receipts whose repair was cut after it removed the temporary; receipts whose last repair met a call that failed |

| Actions | Code |
|---|---|
| `StartHelper`, `RecoverNext`, `PurgeSave`, `Serve` | the helper's start and startup repair |
| `RecoverNothing`, `RecoverPublished`, `RecoverUnknown`, `RecoverFails`, `RecoverDiscard` ... `ReleaseCharge`, `Recovered` | `SaveReceipts.recover` |
| `Reserve` ... `VerifyDestination`, `PersistPublished`, `Reply` | `prepare`, `write`, `publish`: every file operation and every record of its own |
| `Acknowledge`, `PersistAcknowledged` | the acknowledgement and its record |
| `ReleaseDebt` | the operator's command |
| `Stop`, `LosePower`, `Touch` | the environment |

A call of a repair may fail with nothing wrong on the disk. Where the code catches the error of
`files.verify`, and of the journal after it, it records `publication_unknown`: that is
`RecoverUnknown`, whose guard is therefore not only that the destination differs but that it
was not verified, or was and could not be recorded (`Settling`). Anywhere else the
startup repair leaves the receipt and goes on to the next (`RecoverFails`), and a command ends
(`Stop`). `AcknowledgedIsDurable` says nothing of a name another program has changed: the file
is the owner's from its publication on.

Choices: other programs' changes are on disk in order; the sync of the temporary file makes
its name durable too (as journalling file systems do); the windows
between `fstat` and `unlink`, and between the check of the temporary and the rename, stay
open, so `Touch` may fall into them. A temporary name is new for each receipt, hence
`Temp(h)`. Left out: hashes (a file is whole or not), permissions, folder selection.

## 10. Module `Stage`

The companion's staging of a local file and its login. As in `Saves` one helper runs
at a time, except that a login waits for its browser with no helper running.

| Variable | Code |
|---|---|
| `snapshot`, `copies`, `charged` | `snapshot:` records, the private copies, their reservations |
| `record` | `transfer:` records: transfer id, retry id, whether a result is kept |
| `stored`, `epoch`, `logins` | the Keychain item and the epoch it is bound to, `auth_epoch`, open logins |
| `transfer` | the Worker's transfers, as far as its answers tell them apart |
| `run`, `sent`, `retried` | the helper; history: what was named to the Worker |

| Actions | Code |
|---|---|
| `SweepFile`, `SweepRow`, `SweepOrphan`, `SweepCharge`, `Serve` | the helper's startup sweep |
| `BeginLogin`, `CommitLogin`, `Fence`, `DeleteCredential`, `Authenticate` | login, logout, and the check before every request |
| `Lookup` ... `CheckSnapshot` | `Companion.stage`: the record, the snapshot, the reservation, the copy |
| `Ensure`, `ArmRetry`, `Retry`, `PersistResult`, `Upload`, `ReleaseFile`, `PutReleased` | the requests and what is kept of their answers |
| `Stop`, `Age`, `Expire` | the helper is stopped; 900 seconds; the Worker's deadline |

Left out: purges after a week, a loss of power (no order of durable steps matters here
that a stop does not show), refresh-token rotation.

## 11. Module `Intent`

The journal of `scripts/qualification`: a host-wide directory of write-once files. Several
commands may run at once and be killed at any step; a directory sync may fail after its
file was published; a power loss may take any name that was never synced.

| Variable | Code |
|---|---|
| `disk`, `synced` | the directory's names; those a sync made durable |
| `cmd` | each command: its place, what it writes, what it read |
| `valid` | the target still verifies and the window is open |
| `calls`, `closures` | what was sent to the deployment, by slot; what was published as evidence |
| `lost`, `errors`, `cuts` | names a power loss took; counters for the bounds |

| Actions | Code |
|---|---|
| `Check`, `Link`, `Sync`, `SyncFails`, `Published` | `writePrivateJson`: look, link, sync the directory |
| `Open`, `Bound` | `createIntentStore`: the first preparation is bound to the authorization |
| `Dispatch`, `SpentBefore`, `Spent`, `Execute` | `mutation-dispatch.ts`: the slot is spent, then the call leaves, then its result is written |
| `Seal`, `ReadOutcome`, `ReadCheckpoint`, `SealSample`, `PinnedByAny`, `Pinned`, `Appended`, `Close` | `preparation-finalizer.ts` |
| `Leave`, `Invalidate`, `Cut` | a command ends or is killed; the target changes; the power |

Left out: `lock.ts`, which only the legacy command uses; the checks on evidence. A
command that finds a file another one linked does not sync it, so a power loss may take
a truth that was already closed upon: `TruthsStand` excepts names in `lost`.

## 12. Runs

| Run | Question | Properties | Distinct states |
|---|---|---|---|
| `gate_send` | one send retried under one key, with approval or without, next to a label change; two executions of the approval | `AtMostOnePerKey`, `OnePerApproval`, `FailedSafeIsSafe`, `AnswerIsTruthful`, `DeliversAsPromised` | 1,150,462 |
| `gate_fair` | a stored draft and a new draft that attach the same file | `OneDeliveryPerFile`, `NothingStaysOpen` | 48,065 |
| `uploads_race` | an ensure, a retry and two PUTs | `PublishedIsStored`, `OneWriter`, `ChargesAreTrue` | 1,165,104 |
| `uploads_policy` | the owner edits the policy, revokes or reconnects while an upload runs | `AdmissionIsAuthorised`, `UploadsSettle` | 447,976 |
| `uploads_lost` | (violation) a completed upload loses its object | `PublishedIsStored` | about 509,000 |
| `recovery_passes` | two overlapping passes, two sends, two windows | `SettledIsDelivered`, `WithinQuota`, `LateAnswerIsHarmless` | 803,664 |
| `recovery_policy` | the operator, the owner and a deployment act while a pass works on a send with a session, up to its deadline | `RowsAgree`, `SettledUnderItsGrant`, `NothingIsLeftRunning` | 357,772 |
| `staging_files` | six workloads of files, streams and acknowledgements under one slot and one quota | `FilesAreThere`, `StorageIsCharged`, `AcknowledgedOnce`, `StagingEmpties` | 472,787 |
| `access_races` | twenty-seven worlds of three requests each: credentials, sessions, policy pages and tool calls | `CredentialsAgree`, `NothingLeftLive`, `StateServesOnce`, `OneCompanion`, `RunsAsDecided`, `FreshLoginIsItsOwn`, `SavedAsPosted` | 534,576 |
| `saves_disk` | two saves to one path and one to another, stops, a loss of power, failing calls of a repair, another program | `AcknowledgedIsDurable`, `BudgetIsTrue`, `StopsStrandNoSave`, `PublicationIsFinal` | 2,558,893 |
| `stage_calls` | two requests repeated by five helpers, a login, a logout | `SpoolIsTrue`, `OneIdEach`, `LogoutHolds`, `ReleasedIsStored` | 1,841,203 |
| `intent_journal` | two commands, a slot that refers to another, a sample | `OneCallPerSlot`, `NothingIsInvented`, `TruthsStand` | 1,274,168 |

Several properties are conjunctions of two named parts that one run answers together:
`OneWriter` (one publication, one writer per ticket), `ChargesAreTrue` (bytes are charged,
a generation marked stopped has nothing in flight), `WithinQuota` (attempts, requests),
`RowsAgree` (a completed row has an executed operation, a stopped row holds nothing),
`NothingIsLeftRunning` (recovery ends, its outcome is recorded), `NothingStaysOpen`
(operations settle, recoverable actions finish), `UploadsSettle` (`TransfersEnd`,
`DebtIsReleased`), `RunsAsDecided` (`DecisionInForce`, `SentAsApproved`), and so on; each part
has its own definition and comment. The `TypeOK` of a module is in no run: the proofs of the
module establish it.

**Bounds.** `gate_send`: two calls with one key are the smallest instance in which
retries race, two runners the smallest in which executions do, and the third
call, without a key, is the neighbour that must not interfere. No step of the code
relates three activities of one key. `gate_fair`: two operations compete for one
file. `uploads_race`: two generations are the smallest number in which an
abandoned writer meets its successor (the code allows three, `MaxGen`), two PUTs
compete for one ticket or work on the two generations. Its policy is fixed
(`MaxRevision` = 0, either initial level) and its account stays connected (the
constraint `StaysConnected`); those dimensions are `uploads_policy`'s, with one
request and one PUT, one policy edit and two grants. Two concurrent `ensure`s are explored only in
`uploads_lost`, with one PUT, where they already lose the object.
`recovery_passes`: two passes and two windows are the smallest numbers in which a lease
lapses and is taken over while its first holder waits for an answer; two
operations compete for a quota of one attempt, and an observation by search needs
two requests, which is the whole budget, so another row or a token refresh exhausts it.
The code's quotas (2 attempts and 30 requests per window, 288 attempts
per operation) are the same comparisons. The constraint `LeftAlone` leaves out the operator,
the owner, the deployment, the deadline and failures: those are `recovery_policy`'s, with one
pass and one operation, one change of qualification and one of grant (`MaxEpoch`,
`MaxCredential`). `MaxCrashes`, `MaxWindow` and `AttemptCap` bound the rest.

`staging_files`: `Lease` 1 < `Ttl` 2 < `Retain` 3 keeps the order of the code's
5-minute lease, 30-minute lifetime of a file and 7-day retention, and `Horizon` 4 leaves time for everything to be
collected. A quota of one file (`Bytes`) and of two units (`Records`) is full as soon as
anything is stored. The workloads (`Histories`) are two files under one slot, a file begun late
whose grant is revoked, and one download with a stream and a revocation, two streams, a stream
and an acknowledgement, or two acknowledgements. `access_races`: each of the worlds of
`MCAccess` lists three requests and the rows they find; three is one more than any race
needs (a refresh, the revocation and the consent that replaces the grant). Nine of them are
policy pages and tool calls: two pages and a call, one page and two calls, or three pages; two
saves of the draft (`MaxSaves`) put one on each side of a reading, one user label stands for all.
A fourth session belongs to the other user, and no save or revocation may end it.
`saves_disk`: three helpers let a save be stopped, its repair be stopped, and a third run
see both; one change by another program and one loss of power at any step. `stage_calls`: five
helpers let a call be repeated after a stop, with a login and a logout between; two
keys compete for one snapshot's room (`MaxSnapshots`); two generations make one
retry. `intent_journal`: two commands race for a slot, for the authorization and for a
sample; two failed syncs, one power loss.

Symmetry is used only in runs without liveness properties. Deadlock checking is off
in `Gate`, `Uploads`, `Staging`, `Access`, `Saves` and `Stage`, which stop when
every request has ended and the bounds are used up; it is on elsewhere.

**Fairness.** In `Gate` the cron runs every five minutes (`CronStep`,
`ExpirePending`), and the platform runs an isolate to the end of the request or
stops it (`ExecutorStep` or `Crash`; `Recheck`). In `Uploads` deadlines pass and
the cron runs; no request is owed an end. In `Recovery` the cron fires and a pass is run to its end
(`PassStep`), a row's day passes (`DeadlinePasses`), and not every pass uses up its four
minutes before its first stale operation (`RecordStale`, strong fairness); both parts of
`NothingIsLeftRunning` are claimed only if the installation is active from some point on, since a
frozen one runs no pass. In `Staging` time passes and the cron goes on, an operation
that reserved a file settles it (`Gate`'s `NothingStaysOpen`), and a stream or an
acknowledgement that began ends or dies; an R2 deletion that fails succeeds by the `Horizon`. A writer is
owed nothing: `StagingEmpties` excepts the charge of a writer that vanished, as the code
does. The owner, the operator, the client, Gmail and R2's late writes have no fairness
anywhere. `Access`, `Saves`, `Stage` and `Intent` state no liveness.

**The violation.** `uploads_lost`: `transfers.ts:336`, the batch that adds an approval to a
transfer, does not look at the transfer's state. It can reopen a completed transfer, and if
the PUT's commit answer was lost its catch then deletes the published object, which
`upload.ts:233` says must not happen.

**Other disagreements met while modelling.** The models behave as the code does in each of these; no
run is devoted to them, and the properties above are stated so that they hold beside them.

1. `labels.ts:433`: the executors of `update_label` and `delete_label` do not open
   the operation an approval created; success is then settled `failed_safe` and
   answered as an internal error, against `docs/INVARIANTS.md:167`.
2. `gate.ts:475`: after a 5xx and a retry of a label request, a 4xx settles `failed_safe`
   although the first attempt may have been performed. `settle.ts:59`: "Gmail provably did
   nothing".
3. `cron.ts:62`: promotion to `delivery_unknown` leaves the pending row of a journaled
   action `executing` with its payload for ever.
4. `upload.ts:273`: `failUpload` updates the operation without the guard it puts
   on the transfer; `recovery.ts:50` says a completion is never overwritten.
5. `recovery-cron.ts:119`: if the epoch is replaced after the answer arrived, the row stays
   active and is claimed again under the new epoch; `docs/INVARIANTS.md:134` says replacing
   the epoch parks it at `manual`.
6. `pages/accounts.ts:173`: a mailbox revoked after the page read it can still become the default.
7. Saves: a helper stopped after the charge and before the receipt leaves a charge that the
   operator's debt command does not list; one stopped during a repair, between the removal of
   the temporary and its record, leaves `publication_unknown` for good
   (`StopsStrandNoSave` names it, `torn`). So does, until a later repair succeeds, a call of the
   repair that fails although the destination has the file (`SaveReceipts.swift:51`; `erred`).
   If that file's rename was never synced and the operator releases the debt, a loss of power can bring back a
   temporary that nothing charges (`TemporaryIsCharged` names it).
8. Stage: a request that failed stays failed under its key for a week.
9. `upload.ts:104`: a second PUT that sees the policy tightened to "ask" closes a transfer
   whose first writer was admitted. `transfers.ts:246`: an authority that lapses on a read leaves the
   operation and the pending row behind, so `UploadsSettle` promises the end of the transfer's
   own row, and the charge of a writer that stopped; no more.
10. `gate.ts:491`: the read of the operation after Gmail's success is outside every `try`. If D1
   fails there, a delivered message is answered as an internal error; the comment at
   `gate.ts:407` says a settlement failure after a Gmail success is "never turned into a failure
   the model might retry". `AnswerIsTruthful` says what protects the client then.
11. `connect.ts:208`: the exchange is outside the `try` whose catch revokes. If Google's answer is lost or
   cannot be read, or names no refresh token, the consent stands at Google and nothing here
   knows of it; the comment at `connect.ts:218`, "a failed connect leaves no live grant behind", is true
   from its own line on.
   `tokens.ts:153`: if the answer of the wipe is lost, or the stored token cannot be decrypted after
   it, the row is empty and Google was not told. `NothingLeftLive` names both: it is about
   races, and those lose none.

Every property of a passing run has a mutant in `PROJECT.json`: a change of a
modelled definition, as a plausible bug would make it, under which the same run
reports the property violated.

## 13. Proofs

**`GateProofs`** proves, for every number of calls, runners, keys and files and every
assignment of tools, keys and files to calls that satisfies `GateAssumption`
(key-carrying calls are recoverable sends; equal intents name equal tools):
`TypeOK`, `AtMostOnePerKey`, `OnePerApproval`, `FailedSafeIsSafe`,
`ExecutedIsDelivered`, `OneDeliveryPerFile`, `ReservationFollowsOperation`,
`WithdrawnNeverRuns`, `OutcomesAreFinal`, and `NoMutationWhileClaimed` when no call is
`update_label` or `delete_label` (disagreement 1 is why that premise is needed).
`TypeOK`, `ExecutedIsDelivered` and the last four are in no run: the proof covers
what a run would show.

None of these is inductive. The inductive invariant is

    IInv == TypeOK /\ AllProgress /\ Linked /\ Keyed /\ Filed

* `AllProgress`: for each activity, how far its operation and its wire can be at
  each step of the handler. `FailedSafeIsSafe` needs that a request that is about to be sent
  has an operation no protocol-1 batch can still release.
* `Linked`: a pending row and the operation that claimed it name each other, and
  the state of one bounds the other. Without it `Claim` could be taken twice.
* `Keyed`: an operation that is open, or settled other than as `failed_safe`, is
  what its key leads to, and so is a pending or approved action. It is why a rebind
  cannot overtake an operation: `CanBind` finds the holder retired only when nothing
  is open and nothing was, or may have been, sent.
* `Filed`: each file is reserved or spent by at most the operation that lists it,
  exactly in the states that hold it.

Each part has an `Init` lemma and a step lemma with one case per action; the
settlement batches are treated once per part (`LinkedSettlement`,
`KeyedSettlement`, `FiledSettlement`) because eight actions share them. Steps
of other activities are dispatched by frame lemmas.

`AnswerIsTruthful` is proved beside it, from `AnswerInv == Named /\ \A a : Told(a)`: a key leads
to a call that names it, so an answer taken from another call's operation is about the same
message; an answer is given in the last step of a request; a refusal only where nothing was sent, and
after an error or an unknown outcome what may have left is still on record (`Told`). Outcomes
are final, so the answer stays true.

The refinement is `GateDelivers`, `Spec => DeliversAsPromised`: the initial states
map to `Promise!Init`, and under `IInv` every step maps to a step of `Delivery` or a
stutter. The step that matters is `Begin` (`Beginning`): `NoneStanding` derives from `Keyed`
that no attempt for the same message stands when an operation is inserted.
`PromiseIsOnce`, `DeliversAsPromised => []LeavesOnce`, says what that is worth, from the steps of
`Delivery` alone: two attempts for one message never both leave. `OnlyOneStands` is its
invariant: what has left stands for good, and two that stand are for messages that are not alike.

**`UploadsProofs`** proves, for any number of requests, writers, generations, policy edits and
versions of the credential, `OneWriter`, `ChargesAreTrue` and `AdmissionIsAuthorised` from

    UploadsInv == TypeOK /\ Written /\ AllLetThrough

* `Written`: generations are issued in order; nothing is in the bucket or on its way under a
  ticket that was not admitted; what was released is not there and cannot come; for each writer, what it
  has put, or may have put, by where it is and why it failed (`WriterBy`).
* `AllLetThrough`: a writer about to be admitted was let through by the policy of the revision it
  carries, so the assertion of that revision in the batch is enough.

`PublishedIsStored` is **not** a theorem of `Spec`: `uploads_lost` is its counterexample. What
is proved is `Spec /\ [](revision = 0) => []PublishedIsStored`: while the owner does not edit the
policy, under either of its levels, a published handle has its bytes, with any number of requests
and PUTs. `Unedited` carries it: a writer knows of the approval it works under (`CarriesOn`), and an approval
once given is only used up by the completion (`Approved`). An edit that makes a transfer ask again is what
breaks `Asked`.

**`RecoveryProofs`** proves, for any number of operations, passes, windows and quotas,
`TypeOK`, `SettledIsDelivered`, `RowsAgree`, `WithinQuota`, `SettledUnderItsGrant` and
`LateAnswerIsHarmless`. The first needs that a pass in a given place works on a row that
exists (`Typed == TypeOK /\ Placed`). `Evidence` carries what a search or a session named from the
request to the settlement; `Agreement` adds to `RowsAgree` that a row belongs to an operation that
began; `Quota` adds what counting needs, that the attempts of a window are finite and that a row's
counter is the number of its attempts. The two action properties follow from
`Typed` and from the fact that a pass writes only the row it holds (`OnlyItself`).

**`StagingProofs`** proves `FilesAreThere`, `StorageIsCharged` and `AcknowledgedOnce` for any
handles, streams, acknowledgements and workloads, any quota, leases and retention, from

    StagingInv == TypeOK /\ Files /\ Leased /\ CronBy /\ Recorded /\ Quota

* `Files`: for each handle, what the writer has done by where it is (`WriterBy`): until its put is
  answered its ingest owes, before the put nothing is in R2, and it settles only what is not
  there; and what the rows then say (`FileBy`): an object on offer is in the bucket, one being
  deleted has no running lease, a writer known to have stopped has no put on its way.
* `Leased`: the one lease column of an object is at least the lease of each stream on it. A release
  computes it again as a maximum, whose existence is a lemma (`LargestIs`), and may only lower it
  to the largest row that is left.
* `CronBy`: the cron acts on what it selected some steps ago. Why that is safe: a debt stays a
  debt or is released, a stopped writer stays stopped, an object claimed for deletion stays
  claimed, and nothing lands in the bucket for any of them (`Settles`).
* `Recorded`: an acknowledgement answered as new is on record or its retention is over. The purge of
  records needs both the end of retention and no object (`AckOver`); the first is what the
  theorem uses, for clocks of any pace, since a pass compares with a `now` that is past.
* `Quota`: files that exist and files owed are finite and together at most `Bytes`. A reservation is the only
  step that adds one, under the guard of `byteQuota`; a publication moves one from owed to existing.

The refinement is `StagingKeepsFiles`, `Spec => KeepsFiles`, one lemma per actor (`IngestKeeps`,
`OperationKeeps`, `StreamsKeep`, `AcksKeep`, `CronKeeps`). The steps that matter: a publication
finds its file still new (`Files`); `Claim` takes a file away from nobody, since the lease column
it compared with the pass's old `now` covers every stream on it (`Leased`); an acknowledgement
that finds a claimed row uses nothing up. `ShelfIsSafe`, `KeepsFiles => []TakenIsOffered`, says
what the promise is worth, from the steps of `Shelf` alone.

**`AccessProofs`** proves every property of `access_races` for any mailboxes, sessions, one-use
states and requests (`AccessAssumption`, `WorkloadsAssumption` and `PolicyAssumption` say what
a request names). Its specification is `PolicySpec`, whose steps are, for the variables of `Access`, steps
of `Access` or of a tool call.

    AccessInv == TypeOK /\ AskedOK /\ Web /\ Companion /\ Credentials /\ Live

* `Web`: who has consumed a one-use state, and for what; no two requests hold one.
* `Companion`: one request was first to the lease, and it alone creates a client.
* `Credentials`: a version of a row names the grant it was stored with and is never used again, so
  the version a refresh, a revocation or a connect asserts in its `WHERE` is the credential it
  read. `CredentialsAgree` is what this says of the rows.
* `Live`: a grant Google honours is in a row, carried by a request that has not ended, or was
  given up in one of the ways section 7 and `NothingLeftLive` name: an exchange without a usable
  answer, a reconnect over it, a wipe that told nobody, a revocation Google did not hear. So no interleaving
  of the statements of two requests is one of them.

    PolicyInv == PolicyTypeOK /\ Decisions /\ Drafts /\ Posted

* `Decisions`: at each point of a call, that a level in force since its request began is noted for the
  decision to come; `InForce` and `decide` are shown to agree, tool by tool.
* `Drafts`, `Posted`: the version a call is about to send is the one it read; a form about to be
  saved has levels only. `FreshLoginIsItsOwn` and `SavedAsPosted` are action properties of
  the same invariants; the second follows field by field from what a page read and what it
  was asked.

**`SavesProofs`** proves the four properties of `saves_disk` for any handles, destinations, calls
and bounds (`SavesAssumption`: a temporary's name is no destination). The argument is about all
directories a loss of power may leave, `stable`, at once:

    SavesInv == Disk /\ Journal /\ (\A s : SaveOK(s)) /\ Shape /\ Now /\ Collecting /\ Numbered

* `SaveOK`: of one save, in each of those directories: its temporary is charged (`Charged`; what
  `TemporaryIsCharged` excepts is `torn` and `Gone`) and is the verified file once one is recorded (`Same`); verified and not yet published it is in its
  temporary or at its destination (`Kept`); published it is at its destination (`Safe`); given up,
  it was interfered with, its repair was torn, or a call of its last repair failed (`Stranded`); acknowledged it is whole somewhere (`Vouched`).
* `Now`: what each point of the helper has established, so that a stop anywhere leaves a receipt
  the next repair can account for. `Shape`: which command is at which point.
* `Collecting`: the startup repair passes over no receipt that still holds a charge.
* `Numbered`: a helper creates one temporary at most, which bounds the inodes. Only the type of
  the directory needs it.

**`IntentProofs`** proves `OneCallPerSlot`, `NothingIsInvented` and `TruthsStand` for any number of
commands, slots, samples, failed syncs and power losses. `Once`: a call that was sent, or that a command
is about to send, has its slot's file in the directory and synced, so no power loss can free the
slot, and no second command holds it. `Sourced`: a value in a result, in a command's hands or in
an argument was an answer. `Paired`: an outcome, on the disk or being written, is that of the source that
was pinned. `Standing`: an outcome that was told is still that of its pinned source unless a power
loss took the file (`Stands`), and a command that opened its preparation works under the binding on the disk
(`Pledged`), so mutating and component preparations never both run.

**`StageProofs`** proves `SpoolIsTrue`, `OneIdEach`, `LogoutHolds` and `ReleasedIsStored` for any
request keys, helpers, generations and room for snapshots. The inductive invariant has a part for
each thing the helper relies on:

    Inv == Typed /\ Numbers /\ Spool /\ Swept /\ Told /\ Retried /\ Done /\ LoggedIn

* `Numbers`: an id above the last one made is nowhere, so a new snapshot, transfer or retry meets
  nothing of an older one. A helper makes at most two ids, which is why `Ids` is large enough.
* `Spool`, `Swept`: a copy is charged under the id of at most one row, and what a sweeping helper
  has passed is young or no longer charged. An orphaned charge has no row, so the sweep goes on
  until none is left.
* `Told`: the journal names the request's transfer before the authority hears of it, and no two
  requests share one. `OneTransferPerRequest` follows.
* `Retried`: a retry that was sent is either the one in the journal or belongs to a generation that
  is over (`Past`). It is why `ArmRetry` may make a new id: the expired generation it
  found was never retried (`NoneIsPast`).
* `Done`, `LoggedIn`: the helper's `done` is the authority's, and a login carries the epoch in which
  it began.

**Only model-checked.** All liveness (`NothingStaysOpen`, `UploadsSettle`,
`NothingIsLeftRunning`, `StagingEmpties`), which is out of this prover's reach. Every safety
property of a run is also a theorem, `PublishedIsStored` under the premise named above.

## 14. Not modelled

`components` in `PROJECT.json` says it part by part.

* The audit log is appended and never read by a decision. MIME, canonical JSON, HTML and
  cryptography are pure; the models use what they guarantee (a digest identifies its input, a
  random identifier is new).
* Of the policy, the recipients and the limits of a rule are data. `Policy` has its levels and
  modifiers; the policy answers anything in `Gate`, and one of three levels under a revision in
  `Uploads`.
* Routing, cookies, form tokens and the OAuth provider's own storage; the Worker's
  entry point and its deployment identity; validation of a request's fields.
* Of the scripts: the Outlook probes, and the contracts and evidence checks of
  the qualification, which read files and change none.
* `intent-store.ts:24` makes the store's root, and nothing syncs the directory above it. `Intent` starts
  with the root durable: a power loss that takes the whole journal, soon after its first
  command ever made the root, is not modelled, and its theorems say nothing of it.
* The triggers of migration 0005 guard protected rows against statements the program does
  not issue; they are the guards of the actions that write those rows.
