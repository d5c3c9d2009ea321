-------------------------------- MODULE Saves --------------------------------
(***************************************************************************)
(* The companion's save of a staged attachment to a local folder: the      *)
(* native helper's receipts, its charge against the save budget, and the   *)
(* files, across stops of the helper and losses of power.                  *)
(*                                                                         *)
(* Every tool call starts a helper, which takes the process lock, repairs  *)
(* what earlier helpers left, serves the call's commands and ends: one     *)
(* helper at a time.  An action is one change of the disk or of the        *)
(* journal, or one request to the authority; after each, the helper may be *)
(* stopped or the power lost, and other programs may touch the files.      *)
(*                                                                         *)
(* A file is an inode: whose bytes it has, and whether they are all there. *)
(* The journal commits with a full sync, so its rows survive; a directory  *)
(* change survives a power loss for certain only once it is synced.        *)
(***************************************************************************)
EXTENDS Naturals, FiniteSets

CONSTANTS
  Handles,    \* staged handles
  Paths,      \* destinations under a writable root
  Asks,       \* what a helper can be started for
  MaxHelpers, \* bound: helpers started in one history
  MaxTouches, \* bound: changes other programs make to the files
  MaxLosses,  \* bound: losses of power
  Other,      \* whose bytes other programs write
  None

\* The receipt's temporary name: new and random for each receipt.
Temp(h) == <<"temporary", h>>
Names == Paths \cup {Temp(h) : h \in Handles}
Inodes == 1..(MaxHelpers + MaxTouches)

Idle == [pc |-> "idle", ask |-> [kind |-> "none"], todo |-> {}, doing |-> "none", on |-> None, fd |-> 0]

ASSUME SavesAssumption ==
  /\ MaxHelpers \in Nat /\ MaxTouches \in Nat /\ MaxLosses \in Nat
  /\ None \notin Paths \cup Handles
  /\ None \notin [id : Nat, of : Handles \cup {Other}, whole : BOOLEAN]
  /\ Other \notin Handles
  /\ \A h \in Handles : Temp(h) \notin Paths
  /\ Asks \subseteq [kind : {"save"}, handle : Handles, path : Paths]
               \cup [kind : {"release"}, handle : Handles] \cup [kind : {"other"}]

VARIABLES
  file,     \* what each name holds now
  stable,   \* what the names would hold after a loss of power: the possibilities
  receipt,  \* records "save:"
  charge,   \* reservations "save:": the handles charged
  acked,    \* handles whose download the authority counts as acknowledged
  run,      \* the helper, and the tool call it serves
  helpers, inodes, touches, losses, \* counters, for the bounds
  touched,  \* history: names other programs have touched
  torn,     \* history: receipts whose repair stopped after it removed the temporary
  erred     \* history: receipts whose last repair met a call that failed

vars == <<file, stable, receipt, charge, acked, run, helpers, inodes, touches, losses, touched, torn, erred>>
disk == <<file, stable, inodes, touched>>
counters == <<helpers, touches, losses>>

NoReceipt == [state |-> "none", path |-> None, created |-> 0, file |-> 0]

Init ==
  /\ file = [n \in Names |-> None]
  /\ stable = {file}
  /\ receipt = [h \in Handles |-> NoReceipt]
  /\ charge = {}
  /\ acked = {}
  /\ run = Idle
  /\ helpers = 0 /\ inodes = 0 /\ touches = 0 /\ losses = 0
  /\ touched = {}
  /\ torn = {}
  /\ erred = {}

-----------------------------------------------------------------------------
\* Mutant of Sync: the directory is not synced.
NoSync == UNCHANGED <<stable, file>>

\* A directory change, seen at once and durable only later; and the sync.
Write(name, what) == /\ file' = [file EXCEPT ![name] = what]
                     /\ stable' = stable \cup {file'}
Sync == /\ stable' = {file}
        /\ file' = file

\* files.verify: the recorded inode, with this handle's bytes, whole.
Holds(name, inode, h) == file[name] # None /\ file[name] = [id |-> inode, of |-> h, whole |-> TRUE]

this == run.on
held == receipt[this]
Persist(row) == receipt' = [receipt EXCEPT ![this] = row]
Goto(pc) == run' = [run EXCEPT !.pc = pc]
\* A reply with an error, or the end of the call: the tool closes its helper.
End == run' = Idle
\* recover refused: recoverStartup goes on to the next receipt, a command ends its call.
Refused == IF run.doing = "startup" THEN Goto("startup") ELSE End

\* A tool call or a CLI command starts a helper, which waits for the lock.
StartHelper(ask) ==
  /\ run.pc = "idle" /\ helpers < MaxHelpers
  /\ helpers' = helpers + 1
  /\ run' = [Idle EXCEPT !.pc = "startup", !.doing = "startup", !.ask = ask,
                         !.todo = {s \in Handles : receipt[s].state # "none"}]
  /\ UNCHANGED <<disk, receipt, charge, acked, touches, losses, torn, erred>>

\* recoverStartup: every receipt in turn, whatever came of the one before.
RecoverNext(s) ==
  /\ run.pc = "startup" /\ s \in run.todo
  /\ run' = [run EXCEPT !.pc = "recover", !.on = s, !.todo = @ \ {s}]
  /\ UNCHANGED <<disk, receipt, charge, acked, counters, torn, erred>>

\* Acknowledged receipts are kept for a week.
PurgeSave(s) ==
  /\ run.pc = "startup" /\ run.todo = {} /\ receipt[s].state = "acknowledged"
  /\ receipt' = [receipt EXCEPT ![s] = NoReceipt]
  /\ UNCHANGED <<disk, charge, acked, run, counters, torn, erred>>

\* The command loop takes the call's first command.
Serve ==
  /\ run.pc = "startup" /\ run.todo = {}
  /\ IF run.ask.kind = "save" THEN run' = [run EXCEPT !.pc = "recover", !.doing = "prepare", !.on = run.ask.handle]
     ELSE IF run.ask.kind = "release" THEN run' = [run EXCEPT !.pc = "release", !.on = run.ask.handle]
     ELSE End
  /\ UNCHANGED <<disk, receipt, charge, acked, counters, torn, erred>>

-----------------------------------------------------------------------------
(***************************************************************************)
(* SaveReceipts.recover.                                                   *)
(***************************************************************************)
\* Another path than the receipt's: idempotency_conflict.
Conflict == held.state # "none" /\ run.doing # "startup" /\ held.path # run.ask.path
Verified == held.file # 0 /\ Holds(held.path, held.file, this)

\* Mutant of Unaccounted: an established publication that went missing is saved again.
UnfinishedOnly == held.file # 0 /\ held.state = "verified" /\ file[Temp(this)] = None

\* An established publication that no longer verifies, or a recorded one whose temporary is gone.
Unaccounted ==
  /\ held.file # 0
  /\ \/ held.state \in {"published", "acknowledged", "publication_unknown"}
     \/ file[Temp(this)] = None

\* discardTemporary accepts only the inode recorded at creation.
Ours == file[Temp(this)] # None /\ held.created # 0 /\ file[Temp(this)].id = held.created

RecoverNothing ==
  /\ run.pc = "recover" /\ (held.state = "none" \/ Conflict)
  /\ IF Conflict THEN Refused ELSE Goto("recovered")
  /\ UNCHANGED <<disk, receipt, charge, acked, counters, torn, erred>>

\* The destination has what the receipt says: published, once the directory is synced.
RecoverPublished ==
  /\ run.pc = "recover" /\ held.state # "none" /\ ~Conflict /\ Verified
  /\ Sync
  /\ Persist(IF held.state = "acknowledged" THEN held ELSE [held EXCEPT !.state = "published"])
  /\ erred' = erred \ {this}
  /\ Goto("free")
  /\ UNCHANGED <<charge, acked, counters, inodes, touched, torn>>

\* The charge of a publication found again is to go: in recover, not at the end of publish.
Settling == run.pc = "free" /\ held.state \in {"published", "acknowledged"} /\ (run.doing = "publish" => run.fd = 0)

\* Refused until a repair succeeds.  Any error is one that did not: the destination has
\* something else; or it has the bytes, but the root's grant has changed, or the open, the
\* read or the directory sync fails; or the journal fails once the file is verified.
RecoverUnknown ==
  /\ \/ run.pc = "recover" /\ held.state # "none" /\ ~Conflict /\ Unaccounted
     \/ Settling
  /\ Persist([held EXCEPT !.state = "publication_unknown"])
  /\ erred' = IF Verified \/ Settling THEN erred \cup {this} ELSE erred
  /\ Refused
  /\ UNCHANGED <<disk, charge, acked, counters, torn>>

\* Any other call of a repair fails: recoverStartup leaves this receipt as it is and goes on.
\* (In a command it ends the call: Stop.)
RecoverFails ==
  /\ run.pc \in {"recover", "remove", "removed", "reset", "free"} /\ run.doing = "startup"
  /\ erred' = erred \cup {this}
  /\ Refused
  /\ UNCHANGED <<disk, receipt, charge, acked, counters, torn>>

\* Mutant of RecoverDiscard: a temporary it cannot account for is left behind, and counts as gone.
DiscardLeaves ==
  /\ run.pc = "recover" /\ held.state # "none" /\ ~Conflict /\ ~Verified /\ ~Unaccounted
  /\ IF file[Temp(this)] # None /\ Ours THEN Goto("remove") ELSE Goto("reset")
  /\ UNCHANGED <<disk, receipt, charge, acked, counters, torn, erred>>

\* Nothing published: the temporary goes, if it is there, and if it is provably ours.
RecoverDiscard ==
  /\ run.pc = "recover" /\ held.state # "none" /\ ~Conflict /\ ~Verified /\ ~Unaccounted
  /\ IF file[Temp(this)] = None THEN Goto("reset") ELSE IF Ours THEN Goto("remove") ELSE Refused
  /\ UNCHANGED <<disk, receipt, charge, acked, counters, torn, erred>>

\* gm_remove, by name; another program may have been faster.
RemoveTemporary ==
  /\ run.pc = "remove"
  /\ IF file[Temp(this)] = None THEN Refused /\ UNCHANGED <<file, stable, torn>>
     ELSE /\ Write(Temp(this), None)
          /\ torn' = torn \cup {this}
          /\ Goto("removed")
  /\ UNCHANGED <<receipt, charge, acked, counters, inodes, touched, erred>>

SyncRemoval ==
  /\ run.pc = "removed"
  /\ Sync
  /\ Goto("reset")
  /\ UNCHANGED <<receipt, charge, acked, counters, inodes, touched, torn, erred>>

ResetReceipt ==
  /\ run.pc = "reset"
  /\ Persist([held EXCEPT !.state = "prepared", !.created = 0, !.file = 0])
  /\ torn' = {s \in torn : s # this \/ \E view \in stable : view[Temp(s)] # None}
  /\ erred' = erred \ {this}
  /\ Goto("free")
  /\ UNCHANGED <<disk, charge, acked, counters>>

ReleaseCharge ==
  /\ run.pc = "free"
  /\ charge' = charge \ {this}
  /\ Goto("recovered")
  /\ UNCHANGED <<disk, receipt, acked, counters, torn, erred>>

\* Where the caller of recover goes on: the next receipt, the reply, the reservation, the ACK.
Recovered ==
  /\ run.pc = "recovered"
  /\ IF run.doing = "startup" THEN Goto("startup")
     ELSE IF run.doing \in {"prepare", "publish"} /\ held.state \in {"none", "prepared"} THEN Goto("reserve")
     ELSE IF run.doing = "ack" THEN IF held.state \in {"published", "acknowledged"} THEN Goto("record") ELSE End
     ELSE Goto("reply")
  /\ UNCHANGED <<disk, receipt, charge, acked, counters, torn, erred>>

-----------------------------------------------------------------------------
(***************************************************************************)
(* prepare, publish and acknowledge, as Companion.save calls them.         *)
(***************************************************************************)
\* One save may be charged; reserving again for the same handle is a repeat.
Reserve ==
  /\ run.pc = "reserve"
  /\ IF charge \subseteq {this}
       THEN charge' = {this} /\ Goto("prepared")
       ELSE End /\ UNCHANGED charge  \* spool_budget
  /\ UNCHANGED <<disk, receipt, acked, counters, torn, erred>>

\* The journal may have no room for a new receipt.
PersistPrepared ==
  /\ run.pc = "prepared"
  /\ \/ /\ Persist(IF held.state = "none" THEN [NoReceipt EXCEPT !.state = "prepared", !.path = run.ask.path] ELSE held)
        /\ Goto(IF run.doing = "prepare" THEN "fetch" ELSE "create")
     \/ held.state = "none" /\ End /\ UNCHANGED receipt
  /\ UNCHANGED <<disk, charge, acked, counters, torn, erred>>

\* GET, with the length and the digest checked; the bytes go to save.publish, which prepares again.
Fetch ==
  /\ run.pc = "fetch" /\ this \notin acked
  /\ run' = [run EXCEPT !.pc = "recover", !.doing = "publish"]
  /\ UNCHANGED <<disk, receipt, charge, acked, counters, torn, erred>>

\* O_EXCL.
CreateTemporary ==
  /\ run.pc = "create" /\ file[Temp(this)] = None
  /\ inodes' = inodes + 1
  /\ Write(Temp(this), [id |-> inodes', of |-> this, whole |-> FALSE])
  /\ run' = [run EXCEPT !.pc = "created", !.fd = inodes']
  /\ UNCHANGED <<receipt, charge, acked, counters, touched, torn, erred>>

PersistCreated ==
  /\ run.pc = "created"
  /\ Persist([held EXCEPT !.created = run.fd])
  /\ Goto("write")
  /\ UNCHANGED <<disk, charge, acked, counters, torn, erred>>

\* Mutant of PersistVerified: the receipt says published before the rename.
PersistEarly ==
  /\ run.pc = "written"
  /\ Persist([held EXCEPT !.file = run.fd, !.state = "published"])
  /\ Goto("check")
  /\ UNCHANGED <<disk, charge, acked, counters, torn, erred>>

\* The bytes go to the descriptor, whatever the name holds by now, with a full sync.
WriteBytes ==
  /\ run.pc = "write"
  /\ IF file[Temp(this)] # None /\ file[Temp(this)].id = run.fd
       THEN file' = [file EXCEPT ![Temp(this)] = [id |-> run.fd, of |-> this, whole |-> TRUE]]
       ELSE file' = file
  /\ stable' = {file'}
  /\ Goto("written")
  /\ UNCHANGED <<receipt, charge, acked, counters, inodes, touched, torn, erred>>

PersistVerified ==
  /\ run.pc = "written"
  /\ Persist([held EXCEPT !.file = run.fd, !.state = "verified"])
  /\ Goto("check")
  /\ UNCHANGED <<disk, charge, acked, counters, torn, erred>>

CheckTemporary ==
  /\ run.pc = "check"
  /\ IF Holds(Temp(this), run.fd, this) THEN Goto("rename") ELSE End
  /\ UNCHANGED <<disk, receipt, charge, acked, counters, torn, erred>>

\* gm_publish: by name, and never over a file.
Rename ==
  /\ run.pc = "rename"
  /\ IF file[Temp(this)] = None \/ file[held.path] # None
       THEN End /\ UNCHANGED <<file, stable>>
       ELSE /\ file' = [file EXCEPT ![held.path] = file[Temp(this)], ![Temp(this)] = None]
            /\ stable' = stable \cup {file'}
            /\ Goto("sync")
  /\ UNCHANGED <<receipt, charge, acked, counters, inodes, touched, torn, erred>>

SyncDestination ==
  /\ run.pc = "sync"
  /\ Sync
  /\ Goto("verify")
  /\ UNCHANGED <<receipt, charge, acked, counters, inodes, touched, torn, erred>>

VerifyDestination ==
  /\ run.pc = "verify"
  /\ IF Holds(held.path, run.fd, this) THEN Sync /\ Goto("publish") ELSE End /\ UNCHANGED <<file, stable>>
  /\ UNCHANGED <<receipt, charge, acked, counters, inodes, touched, torn, erred>>

PersistPublished ==
  /\ run.pc = "publish"
  /\ Persist([held EXCEPT !.file = run.fd, !.state = "published"])
  /\ Goto("free")
  /\ UNCHANGED <<disk, charge, acked, counters, torn, erred>>

\* Companion.save looks at the reply: publish only what is prepared, acknowledge only what is
\* published.
Reply ==
  /\ run.pc = "reply"
  /\ IF held.state = "published" THEN Goto("ack") ELSE End
  /\ UNCHANGED <<disk, receipt, charge, acked, counters, torn, erred>>

\* The ACK reaches the authority; its answer may not come back.
Acknowledge ==
  /\ run.pc = "ack"
  /\ acked' = acked \cup {this}
  /\ run' \in {Idle, [run EXCEPT !.pc = "recover", !.doing = "ack"]}
  /\ UNCHANGED <<disk, receipt, charge, counters, torn, erred>>

PersistAcknowledged ==
  /\ run.pc = "record"
  /\ Persist([held EXCEPT !.state = "acknowledged"])
  /\ End
  /\ UNCHANGED <<disk, charge, acked, counters, torn, erred>>

\* debt --release: only for an unknown publication whose temporary is provably absent; a
\* probe may also fail, which is a refusal.
ReleaseDebt ==
  /\ run.pc = "release"
  /\ End
  /\ charge' \in IF held.state = "publication_unknown" /\ file[Temp(this)] = None
                   THEN {charge, charge \ {this}} ELSE {charge}
  /\ UNCHANGED <<disk, receipt, acked, counters, torn, erred>>

-----------------------------------------------------------------------------
(***************************************************************************)
(* What goes wrong around it.                                              *)
(***************************************************************************)
\* The helper is killed, its client goes away, a request fails, an I/O call fails.
Stop ==
  /\ run.pc # "idle"
  /\ End
  /\ UNCHANGED <<disk, receipt, charge, acked, counters, torn, erred>>

LosePower ==
  /\ losses < MaxLosses
  /\ losses' = losses + 1
  /\ file' \in stable
  /\ stable' = {file'}
  /\ End
  /\ UNCHANGED <<receipt, charge, acked, helpers, inodes, touches, touched, torn, erred>>

\* Another program creates, replaces, edits or removes a file, and syncs: directory changes
\* become durable in their order.
Change(name, what) == /\ file' = [file EXCEPT ![name] = what]
                      /\ stable' = {file'}
Touch(name) ==
  /\ touches < MaxTouches
  /\ touches' = touches + 1
  /\ touched' = touched \cup {name}
  /\ inodes' = inodes + 1
  /\ \/ Change(name, [id |-> inodes', of |-> Other, whole |-> TRUE])
     \/ file[name] # None /\ Change(name, [file[name] EXCEPT !.of = Other])
     \/ file[name] # None /\ Change(name, None)
  /\ UNCHANGED <<receipt, charge, acked, run, helpers, losses, torn, erred>>

Recover == \/ RecoverNothing \/ RecoverPublished \/ RecoverUnknown \/ RecoverFails \/ RecoverDiscard
           \/ RemoveTemporary \/ SyncRemoval \/ ResetReceipt \/ ReleaseCharge \/ Recovered

Save == \/ Reserve \/ PersistPrepared \/ Fetch \/ CreateTemporary \/ PersistCreated
        \/ WriteBytes \/ PersistVerified \/ CheckTemporary \/ Rename \/ SyncDestination
        \/ VerifyDestination \/ PersistPublished \/ Reply \/ Acknowledge \/ PersistAcknowledged

Helper == \/ \E s \in Handles : RecoverNext(s) \/ PurgeSave(s)
          \/ Serve \/ Recover \/ Save \/ ReleaseDebt

Next == \/ \E ask \in Asks : StartHelper(ask)
        \/ Helper
        \/ Stop \/ LosePower
        \/ \E name \in Names : Touch(name)

Spec == Init /\ [][Next]_vars

-----------------------------------------------------------------------------
\* Every value is one the journal, the disk and the helper can hold.
TypeOK ==
  /\ \A n \in Names : file[n] = None \/ file[n] \in [id : Inodes, of : Handles \cup {Other}, whole : BOOLEAN]
  /\ file \in stable
  /\ \A s \in Handles : /\ receipt[s].state \in {"none", "prepared", "verified", "published", "acknowledged",
                                                 "publication_unknown"}
                        /\ receipt[s].path \in Paths \cup {None}
                        /\ receipt[s].created \in 0..inodes /\ receipt[s].file \in 0..inodes
  /\ charge \subseteq Handles /\ acked \subseteq Handles /\ torn \subseteq Handles /\ erred \subseteq Handles
  /\ touched \subseteq Names

\* An attachment the receipt calls published, or the authority was told is safe, is at its
\* destination, whole, and stays there through a loss of power, unless another program has
\* touched that name: in particular after a stop between the rename and the directory sync.
AcknowledgedIsDurable ==
  LET Durable(s, p) == \/ p \in touched
                       \/ \A view \in stable : view[p] # None /\ view[p].of = s /\ view[p].whole
  IN \A s \in Handles :
       /\ receipt[s].state \in {"published", "acknowledged"} => Durable(s, receipt[s].path)
       /\ s \in acked => \E p \in Paths : Durable(s, p)

\* A partial or unpublished temporary on the disk is always charged to the save budget,
\* across every stop and every repair.  The exceptions are changes that a loss of power
\* undid: a removal whose repair had been stopped, and a rename that was never synced, whose
\* repair failed and whose debt the owner then released.
TemporaryIsCharged ==
  \A s \in Handles : (file[Temp(s)] # None /\ file[Temp(s)].of = s) =>
    s \in charge \cup torn \/ (s \in erred /\ receipt[s].state = "publication_unknown")

\* No stop and no loss of power strands a save, wherever it comes, but a repair stopped
\* between the removal of the temporary and its record.  What else can is named: another
\* program touched its files, or a call of its last repair failed although the destination
\* has it (SaveReceipts.swift:51-80); the next one that succeeds finds it again.
StopsStrandNoSave ==
  \A s \in Handles : receipt[s].state = "publication_unknown" =>
    s \in torn \cup erred \/ {receipt[s].path, Temp(s)} \cap touched # {}

\* When a helper has repaired what earlier ones left, a save is still charged only if its
\* publication is unknown, if its temporary is there and not provably the helper's, if another
\* program interfered, if a call of its repair failed, or if its receipt was never written.
StartupCollects ==
  (run.pc = "startup" /\ run.todo = {}) =>
    \A s \in charge : \/ receipt[s].state \in {"none", "publication_unknown"}
                      \/ file[Temp(s)] # None /\ file[Temp(s)].id # receipt[s].created
                      \/ Temp(s) \in touched \/ s \in erred

\* The save budget is charged for what may be on the disk, and for no longer.
BudgetIsTrue == TemporaryIsCharged /\ StartupCollects

\* A receipt that has reached a publication never becomes permission to publish again.
PublicationIsFinal ==
  [][\A s \in Handles :
       receipt[s].state \in {"published", "acknowledged", "publication_unknown"}
         => receipt'[s].state \in {"published", "acknowledged", "publication_unknown", "none"}]_vars
=============================================================================
