-------------------------------- MODULE Stage --------------------------------
(***************************************************************************)
(* The companion's staging of a local file: its login, the private         *)
(* snapshots of the source, the journal that makes a request repeatable,   *)
(* and what it asks of the authority.                                      *)
(*                                                                         *)
(* One helper at a time, under the process lock; a tool call holds it to   *)
(* its end, across its requests.  A login does not: it reads the epoch     *)
(* with one helper, waits for the browser with none, and commits with      *)
(* another.  An action is one durable change or one request, and the       *)
(* helper may be stopped after each.  The authority's side of a transfer   *)
(* is the subject of Uploads; here it is what its answers tell apart.      *)
(***************************************************************************)
EXTENDS Naturals, FiniteSets

CONSTANTS
  Keys,           \* request keys, automatic or explicit, each of one source
  Kinds,          \* what a helper can be started for
  MaxSnapshots,   \* snapshots charged at one time
  MaxHelpers,     \* bound: helpers started in one history
  MaxGenerations, \* bound: generations of one transfer
  None

Ids == 1..(2 * MaxHelpers)  \* transfer and retry ids: a helper makes at most one of each

NoSnapshot == [state |-> "none", tr |-> 0, old |-> FALSE]
NoRecord == [tr |-> 0, retry |-> None, final |-> FALSE]
NoTransfer == [state |-> "none", gen |-> 0, retries |-> {}]
NoLogin == [epoch |-> 0, born |-> 0]
Idle == [pc |-> "idle", kind |-> "none", key |-> None, todo |-> {}, tr |-> 0, known |-> FALSE,
         retry |-> None, answer |-> "none", gen |-> 0, login |-> NoLogin]

ASSUME StageAssumption ==
  /\ MaxSnapshots \in Nat \ {0} /\ MaxHelpers \in Nat /\ MaxGenerations \in Nat \ {0}
  /\ Kinds \subseteq {"stage", "login", "commit", "logout", "other"}
  /\ None \notin Keys /\ None \notin [gen : Nat, id : Nat]

VARIABLES
  snapshot, \* records "snapshot:"; old: 900 s have passed
  copies,   \* snapshot files in the private directory, by transfer id
  charged,  \* reservations, by transfer id
  record,   \* records "transfer:"
  transfer, \* the authority's transfers
  stored,   \* the Keychain item: the epoch it is bound to, and when its login began
  epoch,    \* record "auth_epoch"
  logins,   \* logins waiting for their browser
  run,      \* the helper, and the call it serves
  helpers, ids,
  sent,     \* history: which transfers each request has named to the authority
  retried   \* history: retry ids the authority was sent, for a transfer and a generation

vars == <<snapshot, copies, charged, record, transfer, stored, epoch, logins, run, helpers, ids, sent, retried>>
spool == <<snapshot, copies, charged>>
auth == <<stored, epoch, logins>>
authority == <<transfer, sent, retried>>

Init ==
  /\ snapshot = [k \in Keys |-> NoSnapshot]
  /\ copies = {} /\ charged = {}
  /\ record = [k \in Keys |-> NoRecord]
  /\ transfer = [i \in Ids |-> NoTransfer]
  /\ stored \in {NoLogin, [epoch |-> 1, born |-> 1]}
  /\ epoch = 1
  /\ logins = {}
  /\ run = Idle
  /\ helpers = 0 /\ ids = 0
  /\ sent = {} /\ retried = {}

-----------------------------------------------------------------------------
key == run.key
mine == snapshot[key]
Goto(pc) == run' = [run EXCEPT !.pc = pc]
End == run' = Idle
PutSnapshot(row) == snapshot' = [snapshot EXCEPT ![key] = row]

\* A tool or CLI command starts a helper; a login that came back commits with a helper of its own.
StartHelper(kind, k, login) ==
  /\ run.pc = "idle" /\ helpers < MaxHelpers
  /\ (kind = "stage") = (k # None)
  /\ IF kind = "commit" THEN login \in logins ELSE login = NoLogin
  /\ helpers' = helpers + 1
  /\ run' = [Idle EXCEPT !.pc = "startup", !.kind = kind, !.key = k, !.login = login,
                         !.todo = {s \in Keys : snapshot[s].state # "none"}]
  /\ UNCHANGED <<spool, record, auth, authority, ids>>

Abandoned(s) == \/ s.state = "preparing"
                \/ s.old
                \/ s.state = "ready" /\ s.tr \notin copies

\* Mutant of SweepFile: a copy past its time stays on the disk.
SweepKeeps(k) ==
  /\ run.pc = "startup" /\ k \in run.todo
  /\ IF Abandoned(snapshot[k])
       THEN /\ copies' = IF snapshot[k].old THEN copies ELSE copies \ {snapshot[k].tr}
            /\ run' = [run EXCEPT !.pc = "sweep", !.todo = @ \ {k}, !.tr = snapshot[k].tr]
       ELSE /\ run' = [run EXCEPT !.todo = @ \ {k}]
            /\ UNCHANGED copies
  /\ UNCHANGED <<snapshot, charged, record, auth, authority, helpers, ids>>

-----------------------------------------------------------------------------
(***************************************************************************)
(* Startup: the copies earlier helpers left.                               *)
(***************************************************************************)
SweepFile(k) ==
  /\ run.pc = "startup" /\ k \in run.todo
  /\ IF Abandoned(snapshot[k])
       THEN /\ copies' = copies \ {snapshot[k].tr}
            /\ run' = [run EXCEPT !.pc = "sweep", !.todo = @ \ {k}, !.tr = snapshot[k].tr]
       ELSE /\ run' = [run EXCEPT !.todo = @ \ {k}]
            /\ UNCHANGED copies
  /\ UNCHANGED <<snapshot, charged, record, auth, authority, helpers, ids>>

SweepRow(k) ==
  /\ run.pc = "sweep" /\ snapshot[k].tr = run.tr
  /\ snapshot' = [snapshot EXCEPT ![k].state = IF @ = "preparing" THEN "failed" ELSE "expired"]
  /\ Goto("sweep_charge")
  /\ UNCHANGED <<copies, charged, record, auth, authority, helpers, ids>>

\* A charge whose row was never written.
Orphans == charged \ {snapshot[k].tr : k \in Keys}

SweepOrphan(i) ==
  /\ run.pc = "startup" /\ run.todo = {} /\ i \in Orphans
  /\ copies' = copies \ {i}
  /\ run' = [run EXCEPT !.pc = "sweep_charge", !.tr = i]
  /\ UNCHANGED <<snapshot, charged, record, auth, authority, helpers, ids>>

SweepCharge ==
  /\ run.pc = "sweep_charge"
  /\ charged' = charged \ {run.tr}
  /\ run' = [run EXCEPT !.pc = "startup", !.tr = 0]
  /\ UNCHANGED <<snapshot, copies, record, auth, authority, helpers, ids>>

Serve ==
  /\ run.pc = "startup" /\ run.todo = {} /\ Orphans = {}
  /\ Goto(run.kind)
  /\ UNCHANGED <<spool, record, auth, authority, helpers, ids>>

\* A tool call that needs nothing of what is here.
ListRoots == run.pc = "other" /\ End /\ UNCHANGED <<spool, record, auth, authority, helpers, ids>>

\* Mutant of Readable: the epoch a credential is bound to is not compared.
Present == stored # NoLogin

-----------------------------------------------------------------------------
(***************************************************************************)
(* Login, logout, and the credential a call uses.                          *)
(***************************************************************************)
\* AuthState.read: what was bound to an earlier epoch is as good as absent.
Readable == stored # NoLogin /\ stored.epoch = epoch

BeginLogin ==
  /\ run.pc = "login"
  /\ logins' = logins \cup {[epoch |-> epoch, born |-> epoch]}
  /\ End
  /\ UNCHANGED <<spool, record, stored, epoch, authority, helpers, ids>>

\* auth.commit: refused when the epoch moved while the browser was open.
CommitLogin ==
  /\ run.pc = "commit"
  /\ logins' = logins \ {run.login}
  /\ stored' = IF epoch = run.login.epoch THEN run.login ELSE stored
  /\ End
  /\ UNCHANGED <<spool, record, epoch, authority, helpers, ids>>

\* auth.logout: the fence first, the deletion after it.
Fence ==
  /\ run.pc = "logout"
  /\ epoch' = epoch + 1
  /\ Goto("delete")
  /\ UNCHANGED <<spool, record, stored, logins, authority, helpers, ids>>

DeleteCredential ==
  /\ run.pc = "delete"
  /\ stored' = NoLogin
  /\ End
  /\ UNCHANGED <<spool, record, epoch, logins, authority, helpers, ids>>

\* authenticated: a credential about to expire is exchanged and committed under the epoch just
\* read, with the lock held throughout, so nothing of this state changes.
Authenticate ==
  /\ run.pc = "stage"
  /\ IF Readable THEN run' = [run EXCEPT !.pc = "lookup", !.login = stored] ELSE End
  /\ UNCHANGED <<spool, record, auth, authority, helpers, ids>>

-----------------------------------------------------------------------------
(***************************************************************************)
(* Companion.stage, and the snapshot commands it gives.                    *)
(***************************************************************************)
\* A request the journal knows goes on with its transfer; a settled one only answers.
Lookup ==
  /\ run.pc = "lookup"
  /\ IF record[key].tr = 0
       THEN /\ ids' = ids + 1
            /\ run' = [run EXCEPT !.pc = "prepare", !.tr = ids']
       ELSE /\ IF record[key].final THEN End
               ELSE run' = [run EXCEPT !.pc = "persist", !.tr = record[key].tr, !.known = TRUE,
                                       !.retry = record[key].retry]
            /\ UNCHANGED ids
  /\ UNCHANGED <<spool, record, auth, authority, helpers>>

\* snapshot.prepare: an earlier call's snapshot is taken as it is, under whatever id it has.
KnownSnapshot ==
  /\ run.pc = "prepare" /\ mine.state # "none"
  /\ IF mine.state = "ready" THEN Goto("persist") ELSE End
  /\ UNCHANGED <<spool, record, auth, authority, helpers, ids>>

ReserveSnapshot ==
  /\ run.pc = "prepare" /\ mine.state = "none"
  /\ IF Cardinality(charged) < MaxSnapshots
       THEN charged' = charged \cup {run.tr} /\ Goto("row")
       ELSE End /\ UNCHANGED charged  \* spool_budget
  /\ UNCHANGED <<snapshot, copies, record, auth, authority, helpers, ids>>

PutPreparing ==
  /\ run.pc = "row"
  /\ PutSnapshot([state |-> "preparing", tr |-> run.tr, old |-> FALSE])
  /\ Goto("copy")
  /\ UNCHANGED <<copies, charged, record, auth, authority, helpers, ids>>

\* SafeFiles.snapshot: the source may be missing, too large or changing; then nothing is kept.
CopySource ==
  /\ run.pc = "copy"
  /\ \/ copies' = copies \cup {run.tr} /\ Goto("ready")
     \/ UNCHANGED copies /\ Goto("failed")
  /\ UNCHANGED <<snapshot, charged, record, auth, authority, helpers, ids>>

PutCopied ==
  /\ run.pc \in {"ready", "failed"}
  /\ PutSnapshot([mine EXCEPT !.state = run.pc])
  /\ Goto(IF run.pc = "ready" THEN "persist" ELSE "uncharge")
  /\ UNCHANGED <<copies, charged, record, auth, authority, helpers, ids>>

Uncharge ==
  /\ run.pc = "uncharge"
  /\ charged' = charged \ {mine.tr}
  /\ End
  /\ UNCHANGED <<snapshot, copies, record, auth, authority, helpers, ids>>

\* Mutant of PersistRequest: a new request is journaled only with its result.
PersistKnown ==
  /\ run.pc = "persist"
  /\ record' = IF run.known THEN [record EXCEPT ![key] = [NoRecord EXCEPT !.tr = run.tr, !.retry = run.retry]]
               ELSE record
  /\ Goto("check")
  /\ UNCHANGED <<spool, auth, authority, helpers, ids>>

\* The request's transfer is in the journal before the authority hears of it.
PersistRequest ==
  /\ run.pc = "persist"
  /\ record' = [record EXCEPT ![key] = [NoRecord EXCEPT !.tr = run.tr, !.retry = run.retry]]
  /\ Goto("check")
  /\ UNCHANGED <<spool, auth, authority, helpers, ids>>

\* snapshot.check and snapshot.read.
Usable == mine.state = "ready" /\ ~mine.old /\ mine.tr \in copies

CheckSnapshot ==
  /\ run.pc = "check"
  /\ IF Usable THEN Goto(IF run.retry = None THEN "ensure" ELSE "retry") ELSE End
  /\ UNCHANGED <<spool, record, auth, authority, helpers, ids>>

\* An answer of the authority, or none.
Answered(state, gen, pc) == run' \in {Idle, [run EXCEPT !.pc = pc, !.answer = state, !.gen = gen]}

\* The intent, in mode ensure: it creates the transfer, or says how it stands; what waited for
\* the owner may have been decided.
Ensure ==
  /\ run.pc = "ensure"
  /\ sent' = sent \cup {<<key, run.tr>>}
  /\ \E t \in IF transfer[run.tr].state \in {"none", "waiting"}
                THEN {[transfer[run.tr] EXCEPT !.state = "waiting"], [transfer[run.tr] EXCEPT !.state = "refused"],
                      [transfer[run.tr] EXCEPT !.state = "open", !.gen = 1]}
                ELSE {transfer[run.tr]} :
       /\ transfer' = [transfer EXCEPT ![run.tr] = t]
       /\ Answered(t.state, t.gen, IF run.known /\ t.state = "expired" THEN "arm" ELSE "result")
  /\ UNCHANGED <<spool, record, auth, helpers, ids, retried>>

\* A repeated request that finds its generation expired asks for another, under an id of its own
\* that is in the journal first.
ArmRetry ==
  /\ run.pc = "arm"
  /\ ids' = ids + 1
  /\ record' = [record EXCEPT ![key].retry = [gen |-> run.gen, id |-> ids']]
  /\ run' = [run EXCEPT !.pc = "retry", !.retry = [gen |-> run.gen, id |-> ids']]
  /\ UNCHANGED <<spool, auth, authority, helpers>>

\* Mutant of PersistResult: the snapshot goes whatever the answer is.
ReleaseAlways ==
  /\ run.pc = "result"
  /\ record' = [record EXCEPT ![key] = [tr |-> run.tr, retry |-> None, final |-> run.answer \in {"done", "refused"}]]
  /\ IF run.answer = "open" THEN Goto("put") ELSE Goto("release")
  /\ UNCHANGED <<spool, auth, authority, helpers, ids>>

\* Mode retry: a known id is answered again; a new one needs the generation it expects, expired.
Retry ==
  /\ run.pc = "retry"
  /\ sent' = sent \cup {<<key, run.tr>>}
  /\ retried' = retried \cup {<<run.tr, run.retry.gen, run.retry.id>>}
  /\ LET t == transfer[run.tr]
         new == [state |-> "open", gen |-> t.gen + 1, retries |-> t.retries \cup {run.retry.id}]
     IN IF run.retry.id \in t.retries \/ t.state \in {"done", "refused"}
          THEN Answered(t.state, t.gen, "result") /\ UNCHANGED transfer
        ELSE IF t.state = "expired" /\ t.gen = run.retry.gen /\ t.gen < MaxGenerations
          THEN transfer' = [transfer EXCEPT ![run.tr] = new] /\ Answered("open", new.gen, "result")
        ELSE End /\ UNCHANGED transfer
  /\ UNCHANGED <<spool, record, auth, helpers, ids>>

PersistResult ==
  /\ run.pc = "result"
  /\ record' = [record EXCEPT ![key] = [tr |-> run.tr, retry |-> None, final |-> run.answer \in {"done", "refused"}]]
  /\ IF run.answer = "open" THEN Goto("put") ELSE IF run.answer = "done" THEN Goto("release") ELSE End
  /\ UNCHANGED <<spool, auth, authority, helpers, ids>>

\* The PUT of the ticket's generation, with the snapshot's bytes.
Upload ==
  /\ run.pc = "put"
  /\ IF Usable /\ transfer[run.tr].state = "open" /\ transfer[run.tr].gen = run.gen
       THEN /\ transfer' = [transfer EXCEPT ![run.tr].state = "done"]
            /\ Answered("done", run.gen, "result")
       ELSE End /\ UNCHANGED transfer
  /\ UNCHANGED <<spool, record, auth, sent, retried, helpers, ids>>

\* snapshot.release, once the authority has given a handle.
ReleaseFile ==
  /\ run.pc = "release"
  /\ copies' = copies \ {mine.tr}
  /\ Goto("released")
  /\ UNCHANGED <<snapshot, charged, record, auth, authority, helpers, ids>>

PutReleased ==
  /\ run.pc = "released"
  /\ PutSnapshot([mine EXCEPT !.state = "released"])
  /\ Goto("uncharge")
  /\ UNCHANGED <<copies, charged, record, auth, authority, helpers, ids>>

-----------------------------------------------------------------------------
(***************************************************************************)
(* What happens around it.                                                 *)
(***************************************************************************)
Stop ==
  /\ run.pc # "idle"
  /\ End
  /\ UNCHANGED <<spool, record, auth, authority, helpers, ids>>

\* 900 s; bound: they do not run out in the middle of a sweep.
Age(k) ==
  /\ snapshot[k].state # "none" /\ ~snapshot[k].old
  /\ run.pc \notin {"startup", "sweep", "sweep_charge"}
  /\ snapshot' = [snapshot EXCEPT ![k].old = TRUE]
  /\ UNCHANGED <<copies, charged, record, auth, authority, run, helpers, ids>>

\* A ticket runs out, or its upload is abandoned.
Expire(i) ==
  /\ transfer[i].state = "open"
  /\ transfer' = [transfer EXCEPT ![i].state = "expired"]
  /\ UNCHANGED <<spool, record, auth, run, helpers, ids, sent, retried>>

Sweep == \/ \E k \in Keys : SweepFile(k) \/ SweepRow(k)
         \/ \E i \in Ids : SweepOrphan(i)
         \/ SweepCharge \/ Serve

Authorise == BeginLogin \/ CommitLogin \/ Fence \/ DeleteCredential \/ Authenticate

StageFile == \/ Lookup \/ KnownSnapshot \/ ReserveSnapshot \/ PutPreparing \/ CopySource \/ PutCopied
             \/ Uncharge \/ PersistRequest \/ CheckSnapshot \/ Ensure \/ ArmRetry \/ Retry
             \/ PersistResult \/ Upload \/ ReleaseFile \/ PutReleased

Next == \/ \E kind \in Kinds, k \in Keys \cup {None}, l \in logins \cup {NoLogin} : StartHelper(kind, k, l)
        \/ Sweep \/ ListRoots \/ Authorise \/ StageFile \/ Stop
        \/ \E k \in Keys : Age(k)
        \/ \E i \in Ids : Expire(i)

Spec == Init /\ [][Next]_vars

-----------------------------------------------------------------------------
\* Every value is one the journal, the directory and the helper can hold.
TypeOK ==
  /\ \A k \in Keys : /\ snapshot[k].state \in {"none", "preparing", "ready", "failed", "expired", "released"}
                     /\ snapshot[k].tr \in 0..ids
                     /\ record[k].tr \in 0..ids
  /\ copies \subseteq 1..ids /\ charged \subseteq 1..ids
  /\ epoch \in Nat /\ stored.epoch <= epoch

\* A snapshot on the disk is charged to the spool's budget, whatever step a helper stopped at.
SnapshotIsCharged == copies \subseteq charged

\* When a helper has swept what earlier ones left, only the snapshots of requests less than
\* 900 s old still use the budget or the disk: no stop loses room for good.
StartupReclaims ==
  (run.pc = "startup" /\ run.todo = {} /\ Orphans = {}) =>
    \A i \in charged \cup copies :
      \E k \in Keys : snapshot[k].tr = i /\ ~snapshot[k].old

\* The spool's budget is charged for what is on the disk, and for no longer.
SpoolIsTrue == SnapshotIsCharged /\ StartupReclaims

\* A request names one transfer to the authority, however often it is repeated after a stop or
\* a lost answer: the file is not uploaded twice.
OneTransferPerRequest ==
  \A a, b \in sent : a[1] = b[1] => a = b

\* A generation that expired is retried under one id, however often the retry is repeated.
OneRetryPerGeneration ==
  \A a, b \in retried : (a[1] = b[1] /\ a[2] = b[2]) => a = b

\* Whatever is repeated is repeated under the id it had.
OneIdEach == OneTransferPerRequest /\ OneRetryPerGeneration

\* A call goes on only with the credential of a login begun after the last logout: not with one
\* whose browser was open meanwhile, nor with one a stopped logout left in the Keychain.
LogoutHolds ==
  run.pc \in {"lookup", "ensure", "retry", "put"} => run.login.born = epoch

\* A snapshot is given up only when the authority has its bytes, or it is too old to be used.
ReleasedIsStored ==
  [][\A k \in Keys : (snapshot[k].state = "ready" /\ snapshot[k].tr \in copies /\ snapshot[k].tr \notin copies')
       => \/ snapshot[k].old
          \/ transfer[record[k].tr].state = "done"]_vars
=============================================================================
