------------------------------ MODULE Staging ------------------------------
(***************************************************************************)
(* Staged files: how bytes enter the bucket through ingest, who may hold   *)
(* them there, and how the cron takes them out again.                      *)
(*                                                                         *)
(* A handle is written once, by one ingest, under the materialization      *)
(* slot.  Afterwards downloads lease it, acknowledgements and operations   *)
(* consume it, and purgeExpired collects it.  D1 and R2 share no           *)
(* transaction; a call may fail, lose its answer, or die with its isolate, *)
(* and a put that was cut off may still land.  A D1 batch is one action.   *)
(*                                                                         *)
(* One owner and one account are followed.  Every file is one unit of the  *)
(* byte quota.  Time is a clock; a request compares with the time at which *)
(* it began wherever the code keeps `now' in a constant.                   *)
(***************************************************************************)
EXTENDS Naturals, FiniteSets, FiniteSetsExt

CONSTANTS
  Downloads,   \* handles of files fetched from Gmail
  Inlines,     \* handles of files staged for an operation (direction 'upload')
  Streams,     \* ids of download streams
  Ackers,      \* acknowledgement requests
  Bytes,       \* STAGING_LIMITS.bytesOwner, in files
  Records,     \* STAGING_LIMITS.recordsOwner, in units
  OwnStreams,  \* STAGING_LIMITS.downloadsOwner
  Lease,       \* STAGING_LIMITS.leaseMs
  Ttl,         \* DOWNLOAD_TTL_MS
  Retain,      \* STAGING_LIMITS.retentionMs
  Workloads,   \* bound: the files and calls of one history, the last instant at
               \* which a file of it is begun, and whether the owner revokes
  Horizon      \* bound: the last instant of the clock

Handles == Downloads \cup Inlines

ASSUME StagingAssumption ==
  /\ Downloads # {} /\ Downloads \cap Inlines = {}
  /\ {Bytes, Records, OwnStreams, Lease, Ttl, Retain, Horizon} \subseteq Nat \ {0}
  /\ Lease < Retain /\ Ttl < Retain
  /\ Workloads \subseteq [files : SUBSET Handles, calls : SUBSET (Streams \cup Ackers),
                           last : Nat, revokes : BOOLEAN]

VARIABLES
  clock,    \* Date.now()
  asked,    \* the files and requests of this history
  account,  \* the grant is active with the version it has at the start
  writer,   \* the ingest of a handle: where it is, and what it has read
  slot,     \* staging_materializations: lease_until and reserved_bytes, by the handle in preparation
  ingest,   \* staging_ingests: state, writer_stopped, lease_until
  bucket,   \* handles whose R2 object exists
  flying,   \* handles with a put that R2 may still perform
  object,   \* staging_objects
  stream,   \* a download request: where it is, and what it has read
  lease,    \* download_streams: lease_until by id, 0 for no row
  admission,\* download_admissions.retain_until by handle, 0 for no row
  budget,   \* staging_recovery_slots by handle: units and retain_until
  ack,      \* staging_acknowledgements.retain_until by handle, 0 for no row
  acker,    \* an acknowledgement request: where it is, and what it has read
  fresh,    \* history: retain_until of the last acknowledgement answered as new
  cron      \* the cron's pass over the staging tables

table == <<slot, ingest, object, lease, admission, budget, ack>>
r2    == <<bucket, flying>>
calls == <<writer, stream, acker, cron>>
vars  == <<clock, asked, account, table, r2, calls, fresh>>

WriterSteps == {"idle", "slot", "account", "reserved", "putting", "commit", "caught",
                "marking", "erasing", "settling", "leaving", "done"}
IngestStates == {"none", "active", "debt", "published", "released"}
ObjectStates == {"none", "available", "deleting"}
StreamSteps == {"idle", "read", "admitted", "serving", "releasing"}
AckSteps    == {"idle", "read", "recording"}
CronSteps   == {"idle", "debts", "owing", "settling", "downloads", "candidates", "purging", "erasing", "dropping"}

NoSlot   == [until |-> 0, bytes |-> 0]
NoIngest == [state |-> "none", stopped |-> FALSE, until |-> 0]
NoObject == [state |-> "none", created |-> 0, expires |-> 0, consumed |-> FALSE,
             reserved |-> FALSE, linked |-> FALSE, lease |-> 0]
NewWriter == [at |-> "idle", started |-> FALSE, returned |-> FALSE]
Idle      == [at |-> "idle", h |-> CHOOSE h \in Downloads : TRUE, now |-> 0]
IdleCron  == [at |-> "idle", now |-> 0, todo |-> {}, sure |-> {}, on |-> {}]

Init ==
  /\ clock = 0 /\ asked \in Workloads /\ account = TRUE
  /\ writer = [h \in Handles |-> NewWriter]
  /\ slot = [h \in Handles |-> NoSlot]
  /\ ingest = [h \in Handles |-> NoIngest]
  /\ bucket = {} /\ flying = {}
  /\ object = [h \in Handles |-> NoObject]
  /\ stream = [s \in Streams |-> Idle]
  /\ lease = [s \in Streams |-> 0]
  /\ admission = [h \in Handles |-> 0]
  /\ budget = [h \in Handles |-> [units |-> 0, until |-> 0]]
  /\ ack = [h \in Handles |-> 0]
  /\ acker = [a \in Ackers |-> Idle]
  /\ fresh = [h \in Handles |-> 0]
  /\ cron = IdleCron

\* byteQuota: what the owner is charged for.
Charged(ingests, slots) ==
  Cardinality({h \in Handles : object[h].state # "none"})
    + Cardinality({h \in Handles : ingests[h].state \in {"active", "debt"}})
    + Cardinality({h \in Handles : slots[h].bytes = 1})

\* accountAssert.  A grant that is reconnected has another version; to an
\* ingest that read the first one this is the same as a revoked grant.
Connected == account
Later(x, y) == IF x > y THEN x ELSE y

(***************************************************************************)
(* withMaterialization and ingest.                                         *)
(***************************************************************************)
Step(h, at) == writer' = [writer EXCEPT ![h].at = at]

\* The slot is taken when no other lease on it runs.  An attachment fetched
\* from Gmail also reserves the bytes of the largest file beforehand.
OpenSlot(h) ==
  LET bytes == IF h \in Downloads THEN 1 ELSE 0 IN
  /\ writer[h].at = "idle" /\ h \in asked.files /\ clock <= asked.last
  /\ \A g \in Handles : slot[g].until <= clock
  /\ bytes = 1 => Charged(ingest, slot) + 1 <= Bytes /\ Connected
  /\ slot' = [slot EXCEPT ![h] = [until |-> clock + Lease, bytes |-> bytes]]
  /\ Step(h, "slot")
  /\ UNCHANGED <<clock, asked, account, ingest, object, lease, admission, budget, ack, r2,
                 stream, acker, cron, fresh>>

\* The attachment is fetched, and ingest reads the grant that must be active.
ReadAccount(h) ==
  /\ writer[h].at = "slot"
  /\ \E at \in {"account", "leaving"} : (at = "account" => Connected) /\ Step(h, at)
  /\ UNCHANGED <<clock, asked, account, table, r2, stream, acker, cron, fresh>>

\* materialization.until, which the ingest's row carries too.
Until(h) == ingest[h].until

\* The file's own reservation replaces the slot's, in one batch.
Reserve(h) ==
  LET zeroed == [slot EXCEPT ![h].bytes = 0] IN
  /\ writer[h].at = "account"
  /\ Charged(ingest, zeroed) + 1 <= Bytes
  /\ slot[h].until > clock
  /\ slot' = zeroed
  /\ ingest' = [ingest EXCEPT ![h] = [state |-> "active", stopped |-> FALSE,
                                      until |-> slot[h].until]]
  /\ \E at \in {"reserved", "leaving"} : Step(h, at)   \* the answer may be lost
  /\ UNCHANGED <<clock, asked, account, object, lease, admission, budget, ack, r2, stream,
                 acker, cron, fresh>>

ReserveFails(h) ==
  /\ writer[h].at = "account"
  /\ Step(h, "leaving")
  /\ UNCHANGED <<clock, asked, account, table, r2, stream, acker, cron, fresh>>

\* The body is read and its digest compared; the put starts under the lease only.
StartPut(h) ==
  /\ writer[h].at = "reserved" /\ clock < Until(h)
  /\ flying' = flying \cup {h}
  /\ writer' = [writer EXCEPT ![h].at = "putting", ![h].started = TRUE]
  /\ UNCHANGED <<clock, asked, account, table, bucket, stream, acker, cron, fresh>>

BodyFails(h) ==
  /\ writer[h].at = "reserved"
  /\ Step(h, "caught")
  /\ UNCHANGED <<clock, asked, account, table, r2, stream, acker, cron, fresh>>

\* R2 performs a put, which its caller may have given up.
Land(h) ==
  /\ h \in flying
  /\ flying' = flying \ {h} /\ bucket' = bucket \cup {h}
  /\ UNCHANGED <<clock, asked, account, table, calls, fresh>>

PutReturns(h) ==
  /\ writer[h].at = "putting" /\ h \notin flying
  /\ writer' = [writer EXCEPT ![h].at = "commit", ![h].returned = TRUE]
  /\ UNCHANGED <<clock, asked, account, table, r2, stream, acker, cron, fresh>>

\* The put throws: it was not done, it was done, or it is still to be done.
PutFails(h) ==
  /\ writer[h].at = "putting"
  /\ Step(h, "caught")
  /\ flying' \in {flying, flying \ {h}}
  /\ UNCHANGED <<clock, asked, account, table, bucket, stream, acker, cron, fresh>>

\* The batch that publishes: the grant, the ingest and its lease are asserted.
MayPublish(h) ==
  Connected /\ ingest[h].state = "active" /\ ingest[h].until > clock

Publish(h) ==
  /\ writer[h].at = "commit" /\ MayPublish(h)
  /\ object' = [object EXCEPT ![h] = [NoObject EXCEPT !.state = "available",
                                        !.created = clock, !.expires = clock + Ttl]]
  /\ ingest' = [ingest EXCEPT ![h].state = "published", ![h].stopped = TRUE]
  /\ \E at \in {"leaving", "caught"} : Step(h, at)     \* the answer may be lost
  /\ UNCHANGED <<clock, asked, account, slot, lease, admission, budget, ack, r2, stream,
                 acker, cron, fresh>>

PublishFails(h) ==
  /\ writer[h].at = "commit"
  /\ Step(h, "caught")
  /\ UNCHANGED <<clock, asked, account, table, r2, stream, acker, cron, fresh>>

\* The catch of ingest: what was published stays.
Catch(h) ==
  /\ writer[h].at = "caught"
  /\ Step(h, IF object[h].state # "none" THEN "leaving" ELSE "marking")
  /\ UNCHANGED <<clock, asked, account, table, r2, stream, acker, cron, fresh>>

\* Mutant of WriterStopped: an unanswered put counts as ended.
WriterStoppedMut(h) == TRUE
WriterStopped(h) == ~writer[h].started \/ writer[h].returned

MarkDebt(h) ==
  /\ writer[h].at = "marking"
  /\ ingest' = IF ingest[h].state \in {"none", "published"} THEN ingest
               ELSE [ingest EXCEPT ![h].state = "debt", ![h].stopped = WriterStopped(h)]
  /\ Step(h, IF ~WriterStopped(h) THEN "leaving"
             ELSE IF writer[h].returned THEN "erasing" ELSE "settling")
  /\ UNCHANGED <<clock, asked, account, slot, object, lease, admission, budget, ack, r2,
                 stream, acker, cron, fresh>>

EraseOwn(h) ==
  /\ writer[h].at = "erasing"
  /\ bucket' = bucket \ {h}
  /\ Step(h, "settling")
  /\ UNCHANGED <<clock, asked, account, table, flying, stream, acker, cron, fresh>>

SettleOwn(h) ==
  /\ writer[h].at = "settling"
  /\ ingest' = IF ingest[h].state = "debt" /\ ingest[h].stopped
               THEN [ingest EXCEPT ![h].state = "released"] ELSE ingest
  /\ Step(h, "leaving")
  /\ UNCHANGED <<clock, asked, account, slot, object, lease, admission, budget, ack, r2,
                 stream, acker, cron, fresh>>

\* The `finally' of withMaterialization.
LeaveSlot(h) ==
  /\ writer[h].at = "leaving"
  /\ slot' = [slot EXCEPT ![h] = NoSlot]
  /\ writer' = [writer EXCEPT ![h] = [NewWriter EXCEPT !.at = "done"]]
  /\ UNCHANGED <<clock, asked, account, ingest, object, lease, admission, budget, ack, r2,
                 stream, acker, cron, fresh>>

\* An isolate dies, or the call in the catch throws: nothing more is done for h.
WriterDies(h) ==
  /\ writer[h].at \notin {"idle", "done"}
  /\ writer' = [writer EXCEPT ![h] = [NewWriter EXCEPT !.at = "done"]]
  /\ UNCHANGED <<clock, asked, account, table, r2, stream, acker, cron, fresh>>

(***************************************************************************)
(* Downloads: leasedDownload, its stream, and acknowledgeDownload.         *)
(***************************************************************************)
\* recoveryBudget: a key never gives units back before its retention ends.
Held(h)  == budget[h].units
Needs(h, units) == IF units > Held(h) THEN units - Held(h) ELSE 0
CanPay(h, units) == MapThenSumSet(Held, Handles) + Needs(h, units) <= Records
Pay(h, units, until) ==
  budget' = [budget EXCEPT ![h] = [units |-> Later(Held(h), units),
                                   until |-> Later(budget[h].until, until)]]

Running(now) == {s \in Streams : lease[s] > now}

\* The handle stays: it is the one of the stream's row in the table.
StreamGoto(s, at) == stream' = [stream EXCEPT ![s].at = at, ![s].now = IF at = "read" THEN @ ELSE 0]

\* The read of leasedDownload; the checks it makes are on what it has read.
ReadObject(s, h) ==
  /\ stream[s].at = "idle" /\ lease[s] = 0 /\ s \in asked.calls /\ h \in Downloads
  /\ object[h].state = "available" /\ ~object[h].consumed /\ Connected
  /\ object[h].expires > clock /\ object[h].created + 2 * Ttl > clock
  /\ stream' = [stream EXCEPT ![s] = [at |-> "read", h |-> h, now |-> clock]]
  /\ UNCHANGED <<clock, asked, account, table, r2, writer, acker, cron, fresh>>

\* until = min(now + leaseMs, created_at + 1 h).
StreamUntil(h, now) ==
  IF now + Lease < object[h].created + 2 * Ttl THEN now + Lease ELSE object[h].created + 2 * Ttl

AdmissionUnits == 2

Admit(s) ==
  LET h == stream[s].h  now == stream[s].now  until == StreamUntil(h, now) IN
  /\ stream[s].at = "read"
  /\ Connected /\ CanPay(h, AdmissionUnits) /\ Cardinality(Running(now)) < OwnStreams
  /\ object[h].state = "available" /\ ~object[h].consumed /\ object[h].expires > now
  /\ Pay(h, AdmissionUnits, now + Retain)
  /\ admission' = [admission EXCEPT ![h] = Later(@, now + Retain)]
  /\ lease' = [lease EXCEPT ![s] = until]
  /\ object' = [object EXCEPT ![h].lease = Later(@, until)]
  /\ \E at \in {"admitted", "idle"} : StreamGoto(s, at)
  /\ UNCHANGED <<clock, asked, account, slot, ingest, ack, r2, writer, acker, cron, fresh>>

\* The object is opened; a get that fails or finds nothing gives the lease back.
Open(s) ==
  /\ stream[s].at = "admitted"
  /\ \E at \in {"serving", "releasing"} :
       /\ at = "serving" => stream[s].h \in bucket
       /\ StreamGoto(s, at)
  /\ UNCHANGED <<clock, asked, account, table, r2, writer, acker, cron, fresh>>

LeaseLeft(h, rows) ==
  Max({0} \cup {rows[s] : s \in {x \in Streams : rows[x] > 0 /\ stream[x].h = h}})

\* release: the body was read, cancelled or failed; the object's lease is
\* computed again from the rows that are left.
Release(s) ==
  LET rows == [lease EXCEPT ![s] = 0] IN
  /\ stream[s].at \in {"serving", "releasing"}
  /\ lease' = rows
  /\ object' = IF object[stream[s].h].state = "none" THEN object
               ELSE [object EXCEPT ![stream[s].h].lease = LeaseLeft(stream[s].h, rows)]
  /\ StreamGoto(s, "idle")
  /\ UNCHANGED <<clock, asked, account, slot, ingest, admission, budget, ack, r2, writer,
                 acker, cron, fresh>>

\* Refused, or its isolate ends: the row stays until its lease is over.
LeaveStream(s) ==
  /\ stream[s].at # "idle"
  /\ StreamGoto(s, "idle")
  /\ UNCHANGED <<clock, asked, account, table, r2, writer, acker, cron, fresh>>

AckGoto(a, at) ==
  acker' = [acker EXCEPT ![a] = IF at = "idle" THEN Idle ELSE [@ EXCEPT !.at = at]]

\* An acknowledgement that is on record is answered as a replay.
BeginAck(a, h) ==
  /\ acker[a].at = "idle" /\ a \in asked.calls /\ h \in Downloads /\ ack[h] <= clock
  /\ acker' = [acker EXCEPT ![a] = [at |-> "read", h |-> h, now |-> clock]]
  /\ UNCHANGED <<clock, asked, account, table, r2, writer, stream, cron, fresh>>

\* The handle is known by its object, or by an admission that is retained.
Known(h, now) ==
  \/ /\ object[h].state # "none" /\ ~object[h].consumed
     /\ ~object[h].reserved /\ object[h].expires > now
  \/ admission[h] > now

ReadKnown(a) ==
  /\ acker[a].at = "read"
  /\ AckGoto(a, IF Known(acker[a].h, acker[a].now) THEN "recording" ELSE "idle")
  /\ UNCHANGED <<clock, asked, account, table, r2, writer, stream, cron, fresh>>

\* INSERT OR IGNORE; the answer says whether a row was inserted.
Record(a) ==
  LET h == acker[a].h  now == acker[a].now IN
  /\ acker[a].at = "recording" /\ CanPay(h, 1)
  /\ Pay(h, 1, now + Retain)
  /\ ack' = [ack EXCEPT ![h] = IF @ = 0 THEN now + Retain ELSE @]
  /\ object' = IF object[h].state # "none" /\ ~object[h].reserved
               THEN [object EXCEPT ![h].consumed = TRUE] ELSE object
  /\ fresh' = IF ack[h] = 0 THEN [fresh EXCEPT ![h] = now + Retain] ELSE fresh
  /\ AckGoto(a, "idle")
  /\ UNCHANGED <<clock, asked, account, slot, ingest, lease, admission, r2, writer, stream, cron>>

LeaveAck(a) ==
  /\ acker[a].at # "idle"
  /\ AckGoto(a, "idle")
  /\ UNCHANGED <<clock, asked, account, table, r2, writer, stream, cron, fresh>>

(***************************************************************************)
(* The operations of a staged upload, called by the decision gate and by   *)
(* settlement; a reserved handle always has one of the last two ahead.     *)
(***************************************************************************)
SetObject(h, o) ==
  /\ object' = [object EXCEPT ![h] = o]
  /\ UNCHANGED <<clock, asked, account, slot, ingest, lease, admission, budget, ack, r2, calls, fresh>>

\* extendExpiryStatement: held open while an approval is pending (within the Horizon).
ExtendExpiry(h) ==
  /\ h \in Inlines /\ object[h].state = "available" /\ clock + Ttl <= Horizon
  /\ SetObject(h, [object[h] EXCEPT !.expires = Later(@, clock + Ttl)])

\* reserveStatements, under either settlement protocol.
ReserveFor(h) ==
  /\ h \in Inlines /\ object[h].state = "available"
  /\ ~object[h].consumed /\ ~object[h].reserved /\ object[h].expires > clock
  /\ \E l \in BOOLEAN : SetObject(h, [object[h] EXCEPT !.reserved = TRUE,
                                                       !.linked = object[h].linked \/ l])

Consume(h) ==
  /\ object[h].reserved /\ ~object[h].consumed
  /\ SetObject(h, [object[h] EXCEPT !.reserved = FALSE, !.consumed = TRUE])

ReleaseReserved(h) ==
  /\ object[h].reserved /\ ~object[h].consumed
  /\ SetObject(h, [object[h] EXCEPT !.reserved = FALSE])

(***************************************************************************)
(* The cron: recoverUploads from the ingests on, then purgeExpired, with   *)
(* the `now' of its beginning throughout.                                  *)
(***************************************************************************)
CronGoto(from, to) == cron.at = from /\ cron' = [cron EXCEPT !.at = to]
CronOnly == UNCHANGED <<clock, asked, account, writer, stream, acker, fresh>>

\* wrangler calls it once in a lease; it goes on when the clock has stopped.
CronBegin ==
  /\ cron.at = "idle" /\ (cron.now < clock \/ clock = Horizon)
  /\ cron' = [IdleCron EXCEPT !.at = "debts", !.now = clock]
  /\ CronOnly /\ UNCHANGED <<table, r2>>

ExpireIngests ==
  /\ CronGoto("debts", "owing")
  /\ ingest' = [h \in Handles |->
       IF ingest[h].state = "active" /\ ingest[h].until <= cron.now
       THEN [ingest[h] EXCEPT !.state = "debt"] ELSE ingest[h]]
  /\ CronOnly /\ UNCHANGED <<slot, object, lease, admission, budget, ack, r2>>

\* The debts as the SELECT finds them, each with its writer_stopped.
SelectDebts ==
  LET debts == {h \in Handles : ingest[h].state = "debt"} IN
  /\ cron.at = "owing"
  /\ cron' = [cron EXCEPT !.at = "settling", !.todo = debts,
                          !.sure = {h \in debts : ingest[h].stopped}]
  /\ CronOnly /\ UNCHANGED <<table, r2>>

EraseDebt(h) ==
  /\ cron.at = "settling" /\ cron.on = {} /\ h \in cron.todo
  /\ bucket' = bucket \ {h}
  /\ cron' = IF h \in cron.sure THEN [cron EXCEPT !.on = {h}]
             ELSE [cron EXCEPT !.todo = @ \ {h}]
  /\ CronOnly /\ UNCHANGED <<table, flying>>

SettleDebt(h) ==
  /\ cron.at = "settling" /\ h \in cron.on
  /\ ingest' = IF ingest[h].state = "debt" /\ ingest[h].stopped
               THEN [ingest EXCEPT ![h].state = "released"] ELSE ingest
  /\ cron' = [cron EXCEPT !.on = {}, !.todo = @ \ {h}]
  /\ CronOnly /\ UNCHANGED <<slot, object, lease, admission, budget, ack, r2>>

\* Three statements, taken together: they delete rows that are over, no guard
\* reads two of these tables at once, and none counts the ingests dropped.
DropRows ==
  /\ cron.todo = {} /\ CronGoto("settling", "downloads")
  /\ ingest' = [h \in Handles |->
       IF ingest[h].state \in {"released", "published"} /\ object[h].state = "none"
       THEN NoIngest ELSE ingest[h]]
  /\ budget' = [h \in Handles |->
       IF budget[h].until <= cron.now THEN [units |-> 0, until |-> 0] ELSE budget[h]]
  /\ slot' = [h \in Handles |-> IF slot[h].until <= cron.now THEN NoSlot ELSE slot[h]]
  /\ CronOnly /\ UNCHANGED <<object, lease, admission, ack, r2>>

\* Mutant of AckOver: the record goes with the object.
AckOverMut(h) == ack[h] <= cron.now \/ object[h].state = "none"
AckOver(h)    == ack[h] <= cron.now /\ object[h].state = "none"

\* The last batch: streams first, then what no object or stream needs any more.
DropDownloads ==
  LET rows == [s \in Streams |-> IF lease[s] <= cron.now THEN 0 ELSE lease[s]] IN
  /\ CronGoto("downloads", "candidates")
  /\ lease' = rows
  /\ ack' = [h \in Handles |->
       IF AckOver(h) THEN 0 ELSE ack[h]]
  /\ admission' = [h \in Handles |->
       IF /\ admission[h] <= cron.now
          /\ \A s \in Streams : rows[s] > 0 => stream[s].h # h
       THEN 0 ELSE admission[h]]
  /\ CronOnly /\ UNCHANGED <<slot, ingest, object, budget, r2>>

\* purgeExpired: an object nobody reads or reserves, expired or consumed.
Over(h)      == object[h].expires <= cron.now \/ object[h].consumed
\* Mutant of Unheld: the purge ignores the download lease.
UnheldMut(h) == ~object[h].reserved
Unheld(h)    == ~object[h].reserved /\ object[h].lease <= cron.now
\* Mutant of Candidate: a deletion that failed half way is not taken up again.
CandidateMut(h) == object[h].state = "available" /\ Over(h) /\ Unheld(h)
Candidate(h) ==
  \/ object[h].state = "deleting"
  \/ object[h].state = "available" /\ Over(h) /\ Unheld(h)
Claimable(h) == object[h].state # "none" /\ Unheld(h)
                  /\ (Over(h) \/ object[h].state = "deleting")

SelectCandidates ==
  /\ cron.at = "candidates"
  /\ cron' = [cron EXCEPT !.at = "purging", !.todo = {h \in Handles : Candidate(h)}]
  /\ CronOnly /\ UNCHANGED <<table, r2>>

\* The producer of a published object has stopped, and stays so.
ProducerStopped(h) == ingest[h].state = "published" /\ ingest[h].stopped

Claim(h) ==
  /\ cron.at = "purging" /\ h \in cron.todo
  /\ LET claimed == Claimable(h) /\ (object[h].linked => ProducerStopped(h)) IN
       /\ object' = IF claimed THEN [object EXCEPT ![h].state = "deleting"] ELSE object
       /\ cron' = IF claimed THEN [cron EXCEPT !.at = "erasing", !.on = {h}]
                  ELSE [cron EXCEPT !.todo = @ \ {h}]
  /\ CronOnly /\ UNCHANGED <<slot, ingest, lease, admission, budget, ack, r2>>

Erase(h) ==
  /\ h \in cron.on /\ CronGoto("erasing", "dropping")
  /\ bucket' = bucket \ {h}
  /\ CronOnly /\ UNCHANGED <<table, flying>>

DropObject(h) ==
  /\ cron.at = "dropping" /\ h \in cron.on
  /\ object' = IF object[h].state = "deleting" THEN [object EXCEPT ![h] = NoObject] ELSE object
  /\ cron' = [cron EXCEPT !.at = "purging", !.on = {}, !.todo = @ \ {h}]
  /\ CronOnly /\ UNCHANGED <<slot, ingest, lease, admission, budget, ack, r2>>

CronEnd ==
  /\ cron.at = "purging" /\ cron.todo = {}
  /\ cron' = [IdleCron EXCEPT !.now = cron.now]
  /\ CronOnly /\ UNCHANGED <<table, r2>>

\* A delete in R2 throws and ends the pass, or its isolate dies there.  R2
\* answers again in the end: by the Horizon it does.
CronFails ==
  /\ clock < Horizon
  /\ cron.at \in {"settling", "erasing"} /\ cron.todo # {}
  /\ cron' = [IdleCron EXCEPT !.now = cron.now]
  /\ CronOnly /\ UNCHANGED <<table, r2>>

(***************************************************************************)
(* The surroundings: the owner revokes and reconnects, and time passes.    *)
(***************************************************************************)
AccountChanges ==
  /\ asked.revokes /\ account /\ account' = FALSE
  /\ UNCHANGED <<clock, asked, table, r2, calls, fresh>>

\* No request or pass outlives the retention of what it records.
Recent(t) == clock < t + Retain - 1

Tick ==
  /\ clock < Horizon
  /\ \A a \in Ackers : acker[a].at # "idle" => Recent(acker[a].now)
  /\ \A s \in Streams : stream[s].at = "read" => Recent(stream[s].now)
  /\ cron.at # "idle" => Recent(cron.now)
  /\ clock' = clock + 1
  /\ UNCHANGED <<asked, account, table, r2, calls, fresh>>

IngestNext(h) ==
  \/ OpenSlot(h) \/ ReadAccount(h) \/ Reserve(h) \/ ReserveFails(h)
  \/ StartPut(h) \/ BodyFails(h) \/ PutReturns(h) \/ PutFails(h)
  \/ Publish(h) \/ PublishFails(h) \/ Catch(h) \/ MarkDebt(h) \/ EraseOwn(h)
  \/ SettleOwn(h) \/ LeaveSlot(h) \/ WriterDies(h)

OperationNext(h) == ExtendExpiry(h) \/ ReserveFor(h) \/ Consume(h) \/ ReleaseReserved(h)

StreamNext(s) == (\E h \in Handles : ReadObject(s, h)) \/ Admit(s) \/ Open(s)
                   \/ Release(s) \/ LeaveStream(s)

AckNext(a) == (\E h \in Handles : BeginAck(a, h)) \/ ReadKnown(a) \/ Record(a) \/ LeaveAck(a)

CronNext ==
  \/ CronBegin \/ ExpireIngests \/ SelectDebts \/ DropRows
  \/ DropDownloads \/ SelectCandidates \/ CronEnd
  \/ \E h \in Handles : EraseDebt(h) \/ SettleDebt(h) \/ Claim(h) \/ Erase(h) \/ DropObject(h)

Next ==
  \/ \E h \in Handles : IngestNext(h) \/ Land(h) \/ OperationNext(h)
  \/ \E s \in Streams : StreamNext(s)
  \/ \E a \in Ackers : AckNext(a)
  \/ CronNext \/ CronFails \/ AccountChanges \/ Tick

Spec == Init /\ [][Next]_vars

\* Time passes, the cron goes on, and an operation that holds a file settles it.
Fairness ==
  /\ WF_vars(Tick) /\ WF_vars(CronNext)
  /\ \A h \in Handles : WF_vars(Consume(h) \/ ReleaseReserved(h))
  /\ \A a \in Ackers : WF_vars(ReadKnown(a) \/ Record(a) \/ LeaveAck(a))
  /\ \A s \in Streams : WF_vars(Admit(s) \/ LeaveStream(s))

FairSpec == Spec /\ Fairness

TypeOK ==
  /\ clock \in 0..Horizon /\ asked \in Workloads /\ account \in BOOLEAN
  /\ writer \in [Handles -> [at : WriterSteps, started : BOOLEAN,
                             returned : BOOLEAN]]
  /\ slot \in [Handles -> [until : Nat, bytes : 0..1]]
  /\ ingest \in [Handles -> [state : IngestStates, stopped : BOOLEAN, until : Nat]]
  /\ bucket \subseteq Handles /\ flying \subseteq Handles
  /\ object \in [Handles -> [state : ObjectStates, created : Nat, expires : Nat,
                             consumed : BOOLEAN, reserved : BOOLEAN, linked : BOOLEAN,
                             lease : Nat]]
  /\ stream \in [Streams -> [at : StreamSteps, h : Handles, now : Nat]]
  /\ lease \in [Streams -> Nat] /\ admission \in [Handles -> Nat]
  /\ budget \in [Handles -> [units : 0..2, until : Nat]]
  /\ ack \in [Handles -> Nat] /\ fresh \in [Handles -> Nat]
  /\ acker \in [Ackers -> [at : AckSteps, h : Handles, now : Nat]]
  /\ cron \in [at : CronSteps, now : Nat, todo : SUBSET Handles, sure : SUBSET Handles,
               on : SUBSET Handles]

\* A handle the database offers has its bytes: the catch of ingest, the debt
\* job and the purge never delete the object of a row they have not claimed.
OfferedIsStored == \A h \in Handles : object[h].state = "available" => h \in bucket

\* A download whose lease runs, and an operation that holds a file, can read it.
HolderCanRead ==
  /\ \A s \in Streams : lease[s] > clock => stream[s].h \in bucket
  /\ \A h \in Handles : object[h].reserved => h \in bucket

\* Bytes that are in the bucket, or that an unanswered put may still put there,
\* are charged to somebody: nothing is stored that no row accounts for.
NothingUncharged ==
  \A h \in bucket \cup flying : object[h].state # "none" \/ ingest[h].state \in {"active", "debt"}

\* So what is really stored stays within the owner's quota.
StoredWithinQuota == Cardinality(bucket \cup flying) <= Bytes

\* The quota holds, and holds because nothing escapes it.
StorageIsCharged == NothingUncharged /\ StoredWithinQuota

\* An acknowledgement is answered as new once: whatever retries, races, purges
\* and expiries happen, a second one is a replay until the retention is over.
AcknowledgedOnce ==
  [][\A h \in Handles : fresh'[h] # fresh[h] => fresh[h] <= clock]_vars

\* The object's one lease column covers every stream that still runs.
LeaseCoversStreams ==
  \A s \in Streams : lease[s] > clock => object[stream[s].h].lease >= lease[s]

\* Whoever is offered a file, or was given a hold on it, finds it.
FilesAreThere == OfferedIsStored /\ LeaseCoversStreams /\ HolderCanRead

\* A file as Shelf has it.
Shown ==
  [h \in Handles |->
     IF object[h].state = "available" THEN "offered"
     ELSE IF writer[h].at \in {"idle", "slot", "account", "reserved", "putting", "commit"}
     THEN "awaited" ELSE "gone"]
Used      == [h \in Handles |-> IF object[h].state = "available" THEN object[h].consumed ELSE FALSE]
InUse     == [h \in Handles |-> object[h].reserved]
ReadingBy == [h \in Handles |-> {s \in Streams : stream[s].h = h /\ lease[s] > clock}]

Promise == INSTANCE Shelf WITH
  Files <- Handles, Readers <- Streams,
  stage <- Shown, spent <- Used, held <- InUse, readers <- ReadingBy

\* Ingest, downloads, acknowledgements, operations, the purge and the clock together do
\* what Shelf promises: a file is offered once, taken only while it is offered and not
\* used up, and removed only when no operation holds it and no stream's lease runs.
KeepsFiles == Promise!Spec

\* In the end every file has left its table and the bucket, and every debt whose
\* writer is known to have stopped is given back; only a writer that vanished
\* without an answer keeps its charge.
Cleared(h) == /\ object[h].state = "none" /\ ingest[h].state # "active"
              /\ ingest[h].state = "debt" => ~ingest[h].stopped
              /\ h \in bucket => ingest[h].state = "debt"

StagingEmpties == <>[](\A h \in Handles : Cleared(h))
=============================================================================
