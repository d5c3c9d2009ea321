----------------------------- MODULE SavesProofs -----------------------------
(***************************************************************************)
(* What Saves keeps, for every set of handles and destinations, every set  *)
(* of calls and every bound: the inductive invariant, and the theorems it  *)
(* gives.                                                                  *)
(*                                                                         *)
(* The argument is about the directories a loss of power may leave, all of *)
(* them at once (stable), not about the one that is there now: a charge, a *)
(* receipt and an acknowledgement are true of each.  A receipt is followed *)
(* from the temporary's creation to the publication by what each point of  *)
(* the helper has established (Now), so that a stop anywhere leaves a      *)
(* receipt the next repair can account for.                                *)
(***************************************************************************)
EXTENDS Saves, TLAPS

\* What a name may hold, when the files numbered so far are 1..top.
Inode(top) == [id : 1..top, of : Handles \cup {Other}, whole : BOOLEAN]
Whole(s, i) == [id |-> i, of |-> s, whole |-> TRUE]
\* The bytes of a save in its temporary, in one of the directories a loss of power may leave.
Of(view, s) == view[Temp(s)] # None /\ view[Temp(s)].of = s
Ghost(s) == \E view \in stable : Of(view, s)
\* A directory change that no loss of power takes back.
Everywhere(name, inode) == \A view \in stable : view[name] = inode

\* What the receipt says is verified.
Recorded(s) == Whole(s, receipt[s].file)

\* Every name holds one file or none, and no file has two names.
Directory(view, top) ==
  /\ view \in [Names -> Inode(top) \cup {None}]
  /\ \A m, n \in Names : m # n /\ view[m] # None /\ view[n] # None => view[m].id # view[n].id
Disk ==
  /\ inodes \in Nat /\ touched \subseteq Names
  /\ file \in stable
  /\ \A view \in stable : Directory(view, inodes)

States == {"none", "prepared", "verified", "published", "acknowledged", "publication_unknown"}
Receipt(top) == [state : States, path : Paths \cup {None}, created : 0..top, file : 0..top]
\* The states of a receipt, and whether it has named a verified file.
Row(row) ==
  /\ row.state = "none" => row = NoReceipt
  /\ row.state # "none" => row.path \in Paths
  /\ (row.file = 0) <=> (row.state \in {"none", "prepared"})
Journal ==
  /\ receipt \in [Handles -> Receipt(inodes)]
  /\ charge \subseteq Handles /\ acked \subseteq Handles /\ torn \subseteq Handles /\ erred \subseteq Handles
  /\ \A s \in Handles : Row(receipt[s])

-----------------------------------------------------------------------------
(***************************************************************************)
(* One save, in every directory a loss of power may leave.                 *)
(***************************************************************************)
\* Given up by a repair that failed: its debt may have been released.
Gone(s) == s \in erred /\ receipt[s].state = "publication_unknown"
\* Its temporary is charged, or its removal was not recorded.
Charged(s) == Ghost(s) => s \in charge \cup torn \/ Gone(s)
\* Once verified, its temporary is the verified file.
Same(s) == receipt[s].file # 0 => \A view \in stable : Of(view, s) => view[Temp(s)] = Recorded(s)
\* A temporary that only a loss of power would bring back was renamed, or its removal was
\* not recorded.
Hidden(s) == s \notin torn /\ ~Gone(s) /\ Ghost(s) =>
  Of(file, s) \/ (receipt[s].state = "verified" /\ file[receipt[s].path] = Recorded(s))
\* Verified and not yet published, it is in its temporary or at its destination.
Kept(s) ==
  receipt[s].state = "verified" =>
    \/ s \in torn
    \/ receipt[s].path \in touched
    \/ Temp(s) \in touched
    \/ \A view \in stable : view[Temp(s)] = Recorded(s) \/ view[receipt[s].path] = Recorded(s)
\* Published, it is at its destination.
Safe(s) ==
  receipt[s].state \in {"published", "acknowledged"} =>
    receipt[s].path \in touched \/ Everywhere(receipt[s].path, Recorded(s))
\* Given up, it was interfered with, or its repair was stopped or met a call that failed.
Stranded(s) ==
  receipt[s].state = "publication_unknown" =>
    s \in torn \cup erred \/ receipt[s].path \in touched \/ Temp(s) \in touched
\* Acknowledged, it is whole at some destination.
Durable(s, p) == p \in touched \/ \A view \in stable : view[p] # None /\ view[p].of = s /\ view[p].whole = TRUE
Vouched(s) == s \in acked => \E p \in Paths : Durable(s, p)

SaveOK(s) == Charged(s) /\ Same(s) /\ Hidden(s) /\ Kept(s) /\ Safe(s) /\ Stranded(s) /\ Vouched(s)

-----------------------------------------------------------------------------
(***************************************************************************)
(* The helper.                                                             *)
(***************************************************************************)
Recovering == {"recover", "remove", "removed", "reset", "free", "recovered"}
Saving == {"reserve", "prepared", "fetch", "create", "created", "write", "written", "check", "rename", "sync",
           "verify", "publish"}
Serving == {"reply", "ack", "record"}
Commands == {"prepare", "publish", "ack"}

Pcs == {"idle", "startup", "release"} \cup Recovering \cup Saving \cup Serving
NoAsk == [kind |-> "none"]
RunAt(top) == [pc : Pcs, ask : Asks \cup {NoAsk}, todo : SUBSET Handles,
               doing : {"none", "startup"} \cup Commands, on : Handles \cup {None}, fd : 0..top]
\* Which command is at which point, and for which save.
Shape ==
  /\ run \in RunAt(inodes)
  /\ run.pc = "idle" => run = Idle
  /\ run.pc \in {"startup", "release"} => run.doing = "startup"
  /\ run.pc \notin {"idle", "startup"} => this \in Handles /\ run.ask # NoAsk
  /\ run.pc = "startup" => run.ask \in Asks
  /\ run.pc \in Recovering => run.doing # "none"
  /\ run.pc \in Saving => run.doing \in {"prepare", "publish"}
  /\ run.pc \in Saving \ {"reserve", "prepared", "fetch"} => run.doing = "publish"
  /\ run.pc = "fetch" => run.doing = "prepare"
  /\ run.pc \in Serving => run.doing \in Commands
  /\ run.doing \in Commands => /\ run.ask \in [kind : {"save"}, handle : Handles, path : Paths]
                               /\ run.pc # "startup"

\* What each point of the helper has established.
Now ==
  LET pc == run.pc
  IN /\ pc = "remove" => file[Temp(this)] # None \/ Temp(this) \in touched
     /\ pc \in {"remove", "removed", "reset"} => held.state \in {"prepared", "verified"}
     /\ pc = "removed" => this \in torn
     /\ pc \in {"reset", "free"} => (Ghost(this) => this \in torn)
     /\ pc = "recovered" /\ run.doing = "startup" => this \notin charge \/ held.state = "none"
     /\ pc \in {"reserve", "prepared"} => held.state \in {"none", "prepared"}
     /\ pc \in {"fetch", "create", "created", "write", "written"} => held.state = "prepared"
     /\ pc \in {"prepared", "create", "created", "write", "written"} => this \in charge
     /\ pc \in {"created", "write"} =>
          /\ run.fd # 0
          /\ Of(file, this) => file[Temp(this)].id = run.fd
          /\ Temp(this) \in touched \/ file[Temp(this)] = [id |-> run.fd, of |-> this, whole |-> FALSE]
     /\ pc = "written" =>
          /\ run.fd # 0
          /\ \A view \in stable : Of(view, this) => view[Temp(this)] = Whole(this, run.fd)
          /\ Temp(this) \in touched \/ Everywhere(Temp(this), Whole(this, run.fd))
     /\ pc \in {"check", "rename", "sync", "verify", "publish"} => held.state = "verified" /\ held.file = run.fd
     /\ pc = "sync" => ~Of(file, this)
     /\ pc \in {"verify", "publish"} => ~Ghost(this)
     /\ pc = "publish" => held.path \in touched \/ Everywhere(held.path, Recorded(this))
     /\ pc = "ack" => held.state = "published"
     /\ pc = "record" => held.state \in {"published", "acknowledged"}

\* What a repair leaves charged, and that no receipt is passed over.
Collected(s) ==
  \/ receipt[s].state \in {"none", "publication_unknown"}
  \/ file[Temp(s)] # None /\ file[Temp(s)].id # receipt[s].created
  \/ Temp(s) \in touched \/ s \in erred
Collecting ==
  run.doing = "startup" => \A s \in charge : s \in run.todo \/ (run.pc # "startup" /\ s = this) \/ Collected(s)

\* A helper creates one temporary at most.
MayCreate ==
  \/ run.doing \in {"startup", "prepare"}
  \/ /\ run.doing = "publish"
     /\ \/ run.pc \in {"recover", "remove", "removed", "reset", "reserve", "prepared", "create"}
        \/ run.pc \in {"free", "recovered"} /\ held.state \in {"none", "prepared"}
Numbered ==
  /\ helpers \in 0..MaxHelpers /\ touches \in 0..MaxTouches
  /\ inodes <= helpers + touches
  /\ MayCreate => inodes < helpers + touches

SavesInv == Disk /\ Journal /\ (\A s \in Handles : SaveOK(s)) /\ Shape /\ Now /\ Collecting /\ Numbered

-----------------------------------------------------------------------------

LEMMA NamesAre ==
  /\ Paths \subseteq Names
  /\ \A s \in Handles : Temp(s) \in Names /\ Temp(s) \notin Paths
  /\ \A s, t \in Handles : s # t => Temp(s) # Temp(t)
BY SavesAssumption DEF Names, Temp

\* One name of a directory changes, to nothing or to a file it does not hold elsewhere.
LEMMA OneChange ==
  ASSUME NEW top \in Nat, NEW end \in Nat, top <= end, NEW view, Directory(view, top),
         NEW name \in Names, NEW what \in Inode(end) \cup {None},
         what # None => \A n \in Names : n # name /\ view[n] # None => view[n].id # what.id,
         NEW next, next = [view EXCEPT ![name] = what]
  PROVE  Directory(next, end)
<1>1. Inode(top) \subseteq Inode(end)
  BY DEF Inode
<1>2. next \in [Names -> Inode(end) \cup {None}]
  BY <1>1 DEF Directory
<1>3. \A n \in Names : next[n] = IF n = name THEN what ELSE view[n]
  BY DEF Directory
<1> QED
  BY <1>2, <1>3 DEF Directory

LEMMA Later ==
  ASSUME NEW top \in Nat, NEW end \in Nat, top <= end, NEW view, Directory(view, top)
  PROVE  Directory(view, end)
BY DEF Directory, Inode

LEMMA Moved ==
  ASSUME NEW top \in Nat, NEW view, Directory(view, top),
         NEW from \in Names, NEW to \in Names, view[to] = None, from # to,
         NEW next, next = [view EXCEPT ![to] = view[from], ![from] = None]
  PROVE  Directory(next, top)
<1>1. next \in [Names -> Inode(top) \cup {None}]
  BY DEF Directory
<1>2. \A n \in Names : next[n] = IF n = from THEN None ELSE IF n = to THEN view[from] ELSE view[n]
  BY DEF Directory
<1> QED
  BY <1>1, <1>2 DEF Directory

\* The steps that leave every name as it is.
Still == UNCHANGED disk
Synced == file' = file /\ stable' = {file} /\ UNCHANGED <<inodes, touched>>

Journaling == \/ \E ask \in Asks : StartHelper(ask)
              \/ \E s \in Handles : RecoverNext(s) \/ PurgeSave(s)
              \/ Serve \/ RecoverNothing \/ RecoverUnknown \/ RecoverFails \/ RecoverDiscard \/ ResetReceipt
              \/ ReleaseCharge \/ Recovered \/ Reserve \/ PersistPrepared \/ Fetch \/ PersistCreated \/ PersistVerified
              \/ CheckTemporary \/ PersistPublished \/ Reply \/ Acknowledge \/ PersistAcknowledged
              \/ ReleaseDebt \/ Stop
Syncing == RecoverPublished \/ SyncRemoval \/ SyncDestination \/ VerifyDestination

LEMMA JournalingIsStill ==
  ASSUME Journaling PROVE Still
BY DEF Journaling, Still, StartHelper, RecoverNext, PurgeSave, Serve, RecoverNothing, RecoverUnknown, RecoverFails,
   RecoverDiscard, ResetReceipt, ReleaseCharge, Recovered, Reserve, PersistPrepared, Fetch, PersistCreated,
   PersistVerified, CheckTemporary, PersistPublished, Reply, Acknowledge, PersistAcknowledged, ReleaseDebt, Stop

LEMMA SyncingIsSynced ==
  ASSUME Syncing PROVE Synced \/ Still
BY DEF Syncing, Still, Synced, Sync, disk, RecoverPublished, SyncRemoval, SyncDestination, VerifyDestination

LEMMA Cases ==
  ASSUME [Next]_vars
  PROVE  \/ Journaling \/ Syncing
         \/ RemoveTemporary \/ CreateTemporary \/ WriteBytes \/ Rename
         \/ LosePower \/ \E name \in Names : Touch(name)
         \/ UNCHANGED vars
BY DEF Next, Helper, Recover, Save, Journaling, Syncing

LEMMA InodesAre ==
  ASSUME NEW inode \in Inode(inodes), inodes \in Nat
  PROVE  inode # None /\ inode.id \in 1..inodes
BY SavesAssumption DEF Inode

-----------------------------------------------------------------------------
LEMMA DiskStep ==
  ASSUME SavesInv, [Next]_vars
  PROVE  Disk' /\ inodes' >= inodes /\ touched \subseteq touched'
<1> USE NamesAre
<1>0. Disk /\ (\A view \in stable : Directory(view, inodes))
      /\ Directory(file, inodes) /\ inodes \in Nat /\ inodes + 1 \in Nat /\ inodes <= inodes + 1 /\ inodes <= inodes
  BY DEF SavesInv, Disk
<1>1. CASE Still \/ Synced
  <2>1. UNCHANGED <<inodes, touched, file>> /\ stable' \subseteq stable /\ file' \in stable'
    BY <1>0, <1>1 DEF Disk, Still, Synced, disk
  <2> QED
    BY <1>0, <2>1 DEF Disk
<1>2. CASE RemoveTemporary
  <2>1. CASE file[Temp(this)] = None
    BY <1>0, <1>2, <2>1 DEF RemoveTemporary, Disk
  <2>2. CASE file[Temp(this)] # None
    <3>1. this \in Handles
      BY <1>2 DEF RemoveTemporary, SavesInv, Shape
    <3>2. Directory([file EXCEPT ![Temp(this)] = None], inodes)
      BY <1>0, <3>1, OneChange DEF Disk
    <3> QED
      BY <1>0, <1>2, <2>2, <3>2 DEF RemoveTemporary, Write, Disk
  <2> QED
    BY <2>1, <2>2
<1>3. CASE CreateTemporary
  <2>1. this \in Handles
    BY <1>3 DEF CreateTemporary, SavesInv, Shape
  <2> DEFINE new == [id |-> inodes + 1, of |-> this, whole |-> FALSE]
  <2>2. new \in Inode(inodes + 1) /\ new.id = inodes + 1
    BY <1>0, <2>1 DEF Inode, Disk
  <2>3. \A n \in Names : file[n] # None => file[n].id # new.id
    BY <1>0, <2>2, InodesAre DEF Disk, Directory
  <2>4. file' = [file EXCEPT ![Temp(this)] = new] /\ inodes' = inodes + 1
        /\ stable' = stable \cup {file'} /\ touched' = touched
    BY <1>3 DEF CreateTemporary, Write
  <2>5. Directory(file', inodes + 1)
    <3> HIDE DEF new
    <3> QED BY <1>0, <2>1, <2>2, <2>3, <2>4, OneChange DEF Disk
  <2>6. \A view \in stable : Directory(view, inodes + 1)
    BY <1>0, Later DEF Disk
  <2> QED
    BY <1>0, <2>4, <2>5, <2>6 DEF Disk
<1>4. CASE WriteBytes
  <2>1. this \in Handles /\ run.fd \in 0..inodes
    BY <1>4 DEF WriteBytes, SavesInv, Shape, RunAt
  <2>2. Directory(file', inodes)
    <3>1. CASE file[Temp(this)] # None /\ file[Temp(this)].id = run.fd
      <4> DEFINE new == [id |-> run.fd, of |-> this, whole |-> TRUE]
      <4>1. run.fd \in 1..inodes
        BY <1>0, <2>1, <3>1, InodesAre DEF Disk, Directory
      <4>2. new \in Inode(inodes) /\ new.id = run.fd
        BY <2>1, <4>1 DEF Inode
      <4>3. \A n \in Names : n # Temp(this) /\ file[n] # None => file[n].id # new.id
        BY <1>0, <2>1, <3>1, <4>2 DEF Disk, Directory
      <4>4. file' = [file EXCEPT ![Temp(this)] = new]
        BY <1>4, <3>1 DEF WriteBytes
      <4> HIDE DEF new
      <4> QED
        BY <1>0, <2>1, <4>2, <4>3, <4>4, OneChange DEF Disk
    <3>2. CASE ~(file[Temp(this)] # None /\ file[Temp(this)].id = run.fd)
      BY <1>0, <1>4, <3>2 DEF WriteBytes, Disk
    <3> QED BY <3>1, <3>2
  <2> QED
    BY <1>0, <1>4, <2>2 DEF WriteBytes, Disk
<1>5. CASE Rename
  <2>1. CASE file[Temp(this)] = None \/ file[held.path] # None
    BY <1>0, <1>5, <2>1 DEF Rename, Disk
  <2>2. CASE ~(file[Temp(this)] = None \/ file[held.path] # None)
    <3>1. this \in Handles /\ held.path \in Paths
      BY <1>5 DEF Rename, SavesInv, Shape, Now, Journal, Row, Saving, held
    <3>2. Directory([file EXCEPT ![held.path] = file[Temp(this)], ![Temp(this)] = None], inodes)
      BY <1>0, <2>2, <3>1, Moved DEF Disk
    <3> QED
      BY <1>0, <1>5, <2>2, <3>2 DEF Rename, Disk
  <2> QED
    BY <2>1, <2>2
<1>6. CASE LosePower
  BY <1>0, <1>6 DEF LosePower, Disk
<1>7. ASSUME NEW name \in Names, Touch(name) PROVE Disk' /\ inodes' >= inodes /\ touched \subseteq touched'
  <2>1. inodes' = inodes + 1 /\ touched' = touched \cup {name} /\ stable' = {file'}
    BY <1>7 DEF Touch, Change
  <2>2. Directory(file', inodes + 1)
    <3>1. CASE file' = [file EXCEPT ![name] = [id |-> inodes + 1, of |-> Other, whole |-> TRUE]]
      <4> DEFINE new == [id |-> inodes + 1, of |-> Other, whole |-> TRUE]
      <4>2. new \in Inode(inodes + 1) /\ new.id = inodes + 1
        BY <1>0 DEF Inode, Disk
      <4>3. \A n \in Names : file[n] # None => file[n].id # new.id
        BY <1>0, <4>2, InodesAre DEF Disk, Directory
      <4>4. file' = [file EXCEPT ![name] = new]
        BY <3>1
      <4> HIDE DEF new
      <4> QED
        BY <1>0, <4>2, <4>3, <4>4, OneChange DEF Disk
    <3>2. CASE file[name] # None /\ file' = [file EXCEPT ![name] = [file[name] EXCEPT !.of = Other]]
      <4> DEFINE new == [file[name] EXCEPT !.of = Other]
      <4>1. file[name] \in Inode(inodes)
        BY <1>0, <3>2 DEF Disk, Directory
      <4>2. new \in Inode(inodes + 1) /\ new.id = file[name].id
        BY <1>0, <4>1 DEF Inode, Disk
      <4>3. \A n \in Names : n # name /\ file[n] # None => file[n].id # new.id
        BY <1>0, <3>2, <4>2 DEF Disk, Directory
      <4>4. file' = [file EXCEPT ![name] = new]
        BY <3>2
      <4> HIDE DEF new
      <4> QED
        BY <1>0, <4>2, <4>3, <4>4, OneChange DEF Disk
    <3>3. CASE file' = [file EXCEPT ![name] = None]
      BY <1>0, <3>3, OneChange DEF Disk
    <3> QED
      BY <1>7, <2>1, <3>1, <3>2, <3>3 DEF Touch, Change
  <2> QED
    BY <1>0, <2>1, <2>2 DEF Disk
<1>8. CASE UNCHANGED vars
  BY <1>1, <1>8 DEF vars, Still, disk
<1> QED
  BY <1>1, <1>2, <1>3, <1>4, <1>5, <1>6, <1>7, <1>8, Cases, JournalingIsStill, SyncingIsSynced

-----------------------------------------------------------------------------
LEMMA ReceiptPut ==
  ASSUME Journal, inodes \in Nat, inodes' \in Nat, inodes' >= inodes,
         NEW s \in Handles, NEW row \in Receipt(inodes), Row(row), receipt' = [receipt EXCEPT ![s] = row]
  PROVE  receipt' \in [Handles -> Receipt(inodes')] /\ \A t \in Handles : Row(receipt'[t])
<1>1. Receipt(inodes) \subseteq Receipt(inodes')
  BY DEF Receipt
<1>2. receipt \in [Handles -> Receipt(inodes)] /\ \A t \in Handles : Row(receipt[t])
  BY DEF Journal
<1>3. receipt' \in [Handles -> Receipt(inodes')]
  BY <1>1, <1>2
<1>4. \A t \in Handles : receipt'[t] = IF t = s THEN row ELSE receipt[t]
  BY <1>2
<1> QED
  BY <1>2, <1>3, <1>4

\* What the helper's program counter implies of the receipt it is at.
LEMMA AtReceipt ==
  ASSUME SavesInv, run.pc \notin {"idle", "startup"}
  PROVE  /\ this \in Handles /\ held \in Receipt(inodes) /\ Row(held)
         /\ receipt \in [Handles -> Receipt(inodes)] /\ inodes \in Nat /\ run.fd \in 0..inodes
         /\ run \in RunAt(inodes)
BY DEF SavesInv, Shape, Journal, held, Disk, RunAt

LEMMA CommandAsk ==
  ASSUME SavesInv, run.doing \in Commands
  PROVE  run.ask.path \in Paths /\ run.ask.handle \in Handles
BY DEF SavesInv, Shape

\* Only the repair at hand meets a call that fails, or puts one right.
LEMMA ErredStep ==
  ASSUME SavesInv, [Next]_vars
  PROVE  /\ erred' \subseteq Handles
         /\ \A s \in Handles : s # this => (s \in erred' <=> s \in erred)
         /\ ~(RecoverPublished \/ RecoverUnknown \/ RecoverFails \/ ResetReceipt) => erred' = erred
<1>0. erred \subseteq Handles
  BY DEF SavesInv, Journal
<1>1. CASE RecoverPublished \/ RecoverUnknown \/ RecoverFails \/ ResetReceipt
  <2>1. this \in Handles
    BY <1>1, AtReceipt DEF RecoverPublished, RecoverUnknown, Settling, RecoverFails, ResetReceipt
  <2>2. erred' \in {erred, erred \cup {this}, erred \ {this}}
    BY <1>1 DEF RecoverPublished, RecoverUnknown, RecoverFails, ResetReceipt
  <2> QED
    BY <1>0, <1>1, <2>1, <2>2
<1>2. CASE ~(RecoverPublished \/ RecoverUnknown \/ RecoverFails \/ ResetReceipt)
  <2>1. erred' = erred
    BY <1>2 DEF Next, Helper, Recover, Save, StartHelper, RecoverNext, PurgeSave, Serve, RecoverNothing,
       RecoverDiscard, RemoveTemporary, SyncRemoval, ReleaseCharge, Recovered, Reserve, PersistPrepared, Fetch,
       CreateTemporary, PersistCreated, WriteBytes, PersistVerified, CheckTemporary, Rename, SyncDestination, VerifyDestination,
       PersistPublished, Reply, Acknowledge, PersistAcknowledged, ReleaseDebt, Stop, LosePower, Touch, vars
  <2> QED
    BY <1>0, <2>1
<1> QED
  BY <1>1, <1>2

LEMMA JournalStep ==
  ASSUME SavesInv, [Next]_vars
  PROVE  Journal'
<1>0. Journal /\ inodes \in Nat /\ inodes' \in Nat /\ inodes' >= inodes /\ erred' \subseteq Handles
  BY DiskStep, ErredStep DEF SavesInv, Disk
<1>1. ASSUME UNCHANGED <<receipt>>, charge' \subseteq Handles, acked' \subseteq Handles, torn' \subseteq Handles
      PROVE Journal'
  <2>1. Receipt(inodes) \subseteq Receipt(inodes')
    BY <1>0 DEF Receipt
  <2> QED
    BY <1>0, <1>1, <2>1 DEF Journal
<1>2. ASSUME NEW row, Persist(row), this \in Handles, row \in Receipt(inodes), Row(row),
             UNCHANGED <<charge, acked>>, torn' \subseteq Handles
      PROVE Journal'
  BY <1>0, <1>2, ReceiptPut DEF Journal, Persist
<1>3. CASE \/ \E ask \in Asks : StartHelper(ask)
           \/ \E s \in Handles : RecoverNext(s)
           \/ \E name \in Names : Touch(name)
           \/ Serve \/ RecoverNothing \/ RecoverFails \/ RecoverDiscard \/ SyncRemoval \/ Recovered \/ Fetch
           \/ CreateTemporary \/ WriteBytes \/ CheckTemporary \/ Rename \/ SyncDestination \/ VerifyDestination
           \/ Reply \/ Stop \/ LosePower \/ UNCHANGED vars
  BY <1>0, <1>1, <1>3 DEF Journal, StartHelper, RecoverNext, Touch, Serve, RecoverNothing, RecoverFails, RecoverDiscard,
     SyncRemoval, Recovered, Fetch, CreateTemporary, WriteBytes, CheckTemporary, Rename, SyncDestination,
     VerifyDestination, Reply, Stop, LosePower, vars
<1>4. CASE RemoveTemporary \/ ReleaseCharge \/ Reserve \/ Acknowledge \/ ReleaseDebt
  <2>1. this \in Handles
    BY <1>4, AtReceipt DEF RemoveTemporary, ReleaseCharge, Reserve, Acknowledge, ReleaseDebt
  <2> QED
    BY <1>0, <1>1, <1>4, <2>1 DEF Journal, RemoveTemporary, ReleaseCharge, Reserve, Acknowledge, ReleaseDebt
<1>5. ASSUME NEW s \in Handles, PurgeSave(s) PROVE Journal'
  <2>1. NoReceipt \in Receipt(inodes) /\ Row(NoReceipt)
    BY <1>0 DEF NoReceipt, Receipt, States, Row
  <2> QED
    BY <1>0, <1>5, <2>1, ReceiptPut DEF PurgeSave, Journal
<1>6. CASE RecoverPublished
  <2>1. /\ this \in Handles /\ held.file # 0 /\ held.state # "none"
        /\ held \in Receipt(inodes) /\ Row(held)
    BY <1>6, AtReceipt DEF RecoverPublished, Verified
  <2>2. [held EXCEPT !.state = "published"] \in Receipt(inodes) /\ Row([held EXCEPT !.state = "published"])
    BY <2>1 DEF Receipt, Row, States
  <2> QED
    BY <1>0, <1>2, <1>6, <2>1, <2>2 DEF RecoverPublished, Journal
<1>7. CASE RecoverUnknown
  <2>1. /\ this \in Handles /\ held.file # 0 /\ held.state # "none"
        /\ held \in Receipt(inodes) /\ Row(held)
    BY <1>7, AtReceipt DEF RecoverUnknown, Unaccounted, Settling, Row
  <2>2. [held EXCEPT !.state = "publication_unknown"] \in Receipt(inodes)
        /\ Row([held EXCEPT !.state = "publication_unknown"])
    BY <2>1 DEF Receipt, Row, States
  <2> QED
    BY <1>0, <1>2, <1>7, <2>1, <2>2 DEF RecoverUnknown, Journal
<1>8. CASE ResetReceipt
  <2>1. /\ this \in Handles /\ held.state # "none" /\ held \in Receipt(inodes) /\ Row(held)
    BY <1>8, AtReceipt DEF ResetReceipt, SavesInv, Now
  <2> DEFINE row == [held EXCEPT !.state = "prepared", !.created = 0, !.file = 0]
  <2>2. row \in Receipt(inodes) /\ Row(row)
    <3>1. 0 \in 0..inodes
      BY <1>0
    <3>2. row \in Receipt(inodes)
      BY <2>1, <3>1 DEF Receipt, States
    <3>3. row.state = "prepared" /\ row.file = 0 /\ row.path = held.path
      BY <2>1 DEF Receipt
    <3>4. held.path \in Paths
      BY <2>1 DEF Row
    <3> HIDE DEF row
    <3> QED
      BY <3>2, <3>3, <3>4 DEF Row
  <2>3. Persist(row) /\ UNCHANGED <<charge, acked>> /\ torn' \subseteq Handles
    BY <1>0, <1>8 DEF ResetReceipt, Journal
  <2> HIDE DEF row
  <2> QED
    BY <1>2, <2>1, <2>2, <2>3
<1>9. CASE PersistPrepared
  <2>1. /\ this \in Handles /\ held \in Receipt(inodes) /\ Row(held) /\ run.ask.path \in Paths
    BY <1>9, AtReceipt, CommandAsk DEF PersistPrepared, SavesInv, Shape, Saving, Commands
  <2> DEFINE row == [NoReceipt EXCEPT !.state = "prepared", !.path = run.ask.path]
  <2>2. row \in Receipt(inodes) /\ Row(row)
    <3>1. 0 \in 0..inodes
      BY <1>0
    <3>2. NoReceipt \in Receipt(inodes) /\ NoReceipt.file = 0
      BY <3>1 DEF NoReceipt, Receipt, States
    <3>3. row \in Receipt(inodes) /\ row.state = "prepared" /\ row.file = 0 /\ row.path = run.ask.path
      BY <2>1, <3>2 DEF Receipt, States
    <3> HIDE DEF row
    <3> QED
      BY <2>1, <3>3 DEF Row
  <2>3. (Persist(row) \/ Persist(held) \/ UNCHANGED receipt) /\ UNCHANGED <<charge, acked, torn>>
    BY <1>9 DEF PersistPrepared
  <2>4. torn' \subseteq Handles /\ charge' \subseteq Handles /\ acked' \subseteq Handles
    BY <1>0, <2>3 DEF Journal
  <2> HIDE DEF row
  <2> QED
    BY <1>1, <1>2, <2>1, <2>2, <2>3, <2>4
<1>10. CASE PersistCreated
  <2>1. /\ this \in Handles /\ held.state = "prepared" /\ held \in Receipt(inodes) /\ Row(held)
        /\ run.fd \in 0..inodes
    BY <1>10, AtReceipt DEF PersistCreated, SavesInv, Now
  <2> DEFINE row == [held EXCEPT !.created = run.fd]
  <2>2. row \in Receipt(inodes) /\ Row(row)
    BY <1>0, <2>1 DEF Receipt, Row, States
  <2>3. Persist(row) /\ UNCHANGED <<charge, acked>> /\ torn' \subseteq Handles
    BY <1>0, <1>10 DEF PersistCreated, Journal
  <2> HIDE DEF row
  <2> QED
    BY <1>2, <2>1, <2>2, <2>3
<1>11. CASE PersistVerified
  <2>1. /\ this \in Handles /\ held.state = "prepared" /\ held \in Receipt(inodes) /\ Row(held)
        /\ run.fd \in 0..inodes /\ run.fd # 0
    BY <1>11, AtReceipt DEF PersistVerified, SavesInv, Now
  <2> DEFINE row == [held EXCEPT !.file = run.fd, !.state = "verified"]
  <2>2. row \in Receipt(inodes) /\ Row(row)
    BY <1>0, <2>1 DEF Receipt, Row, States
  <2>3. Persist(row) /\ UNCHANGED <<charge, acked>> /\ torn' \subseteq Handles
    BY <1>0, <1>11 DEF PersistVerified, Journal
  <2> HIDE DEF row
  <2> QED
    BY <1>2, <2>1, <2>2, <2>3
<1>12. CASE PersistPublished
  <2>1. /\ this \in Handles /\ held.state = "verified" /\ held \in Receipt(inodes) /\ Row(held)
        /\ run.fd \in 0..inodes /\ run.fd = held.file
    BY <1>12, AtReceipt DEF PersistPublished, SavesInv, Now
  <2> DEFINE row == [held EXCEPT !.file = run.fd, !.state = "published"]
  <2>2. row \in Receipt(inodes) /\ Row(row)
    BY <1>0, <2>1 DEF Receipt, Row, States
  <2>3. Persist(row) /\ UNCHANGED <<charge, acked>> /\ torn' \subseteq Handles
    BY <1>0, <1>12 DEF PersistPublished, Journal
  <2> HIDE DEF row
  <2> QED
    BY <1>2, <2>1, <2>2, <2>3
<1>13. CASE PersistAcknowledged
  <2>1. /\ this \in Handles /\ held.state \in {"published", "acknowledged"} /\ held \in Receipt(inodes) /\ Row(held)
    BY <1>13, AtReceipt DEF PersistAcknowledged, SavesInv, Now
  <2> DEFINE row == [held EXCEPT !.state = "acknowledged"]
  <2>2. row \in Receipt(inodes) /\ Row(row)
    BY <1>0, <2>1 DEF Receipt, Row, States
  <2>3. Persist(row) /\ UNCHANGED <<charge, acked>> /\ torn' \subseteq Handles
    BY <1>0, <1>13 DEF PersistAcknowledged, Journal
  <2> HIDE DEF row
  <2> QED
    BY <1>2, <2>1, <2>2, <2>3
<1> QED
  BY <1>3, <1>4, <1>5, <1>6, <1>7, <1>8, <1>9, <1>10, <1>11, <1>12, <1>13 DEF Next, Helper, Recover, Save

-----------------------------------------------------------------------------
LEMMA RowIs ==
  ASSUME SavesInv, NEW s \in Handles
  PROVE  /\ receipt[s] \in Receipt(inodes) /\ Row(receipt[s]) /\ SaveOK(s)
         /\ receipt[s].file \in 0..inodes /\ receipt[s].state \in States /\ Recorded(s) # None
         /\ receipt[s].state # "none" => receipt[s].path \in Paths /\ receipt[s].path \in Names
                                          /\ \A t \in Handles : receipt[s].path # Temp(t)
         /\ Disk /\ Journal /\ inodes \in Nat
<1>1. /\ receipt[s] \in Receipt(inodes) /\ Row(receipt[s]) /\ SaveOK(s) /\ Disk /\ Journal /\ inodes \in Nat
  BY DEF SavesInv, Journal, Disk
<1>2. receipt[s].file \in 0..inodes /\ receipt[s].state \in States
  BY <1>1 DEF Receipt
<1>3. Recorded(s) # None
  <2>1. Recorded(s) \in [id : Nat, of : Handles \cup {Other}, whole : BOOLEAN]
    BY <1>1, <1>2 DEF Recorded, Whole
  <2> QED
    BY <2>1, SavesAssumption
<1>4. receipt[s].state # "none" => receipt[s].path \in Paths
  BY <1>1 DEF Row
<1> QED
  BY <1>1, <1>2, <1>3, <1>4, NamesAre

\* The file a receipt verified is not in two places.
LEMMA InOnePlace ==
  ASSUME SavesInv, NEW s \in Handles, NEW view \in stable, receipt[s].file # 0, view[receipt[s].path] = Recorded(s)
  PROVE  ~Of(view, s)
<1>1. receipt[s].state # "none" /\ receipt[s].path \in Names /\ receipt[s].path # Temp(s) /\ Temp(s) \in Names
  BY RowIs, NamesAre DEF Row
<1>2. Of(view, s) => view[Temp(s)] = Recorded(s)
  BY RowIs DEF SaveOK, Same
<1>3. Directory(view, inodes) /\ Recorded(s) # None
  BY RowIs DEF Disk
<1> QED
  BY <1>1, <1>2, <1>3 DEF Directory, Of

\* A step that leaves a save's receipt, its temporary and every destination that holds a file.
LEMMA AgreeSave ==
  ASSUME SavesInv, NEW s \in Handles, receipt'[s] = receipt[s],
         s \in charge \cup torn => s \in charge' \cup torn',
         s \in torn' <=> s \in torn, s \in erred' <=> s \in erred,
         s \in acked' => s \in acked, touched \subseteq touched',
         stable' \subseteq stable \cup {file'},
         file'[Temp(s)] = file[Temp(s)],
         \A p \in Paths : file[p] # None => file'[p] = file[p]
  PROVE  SaveOK(s)'
<1> USE RowIs
<1>1. Recorded(s)' = Recorded(s) /\ Of(file', s) = Of(file, s) /\ file \in stable
  BY DEF Recorded, Of, Disk
<1>2. Ghost(s)' => Ghost(s)
  BY <1>1 DEF Ghost
<1>3. Charged(s)'
  BY <1>2 DEF SaveOK, Charged, Gone
<1>4. Same(s)'
  BY <1>1 DEF SaveOK, Same
<1>5. Hidden(s)'
  BY <1>1, <1>2 DEF SaveOK, Hidden, Gone
<1>6. Kept(s)'
  BY <1>1 DEF SaveOK, Kept
<1>7. Safe(s)'
  BY <1>1 DEF SaveOK, Safe, Everywhere
<1>8. Stranded(s)'
  BY DEF SaveOK, Stranded
<1>9. Vouched(s)'
  <2>1. SUFFICES ASSUME s \in acked PROVE \E p \in Paths : Durable(s, p)'
    BY DEF Vouched
  <2>2. PICK p \in Paths : Durable(s, p)
    BY <2>1 DEF SaveOK, Vouched
  <2>3. Durable(s, p)'
    BY <2>2 DEF Durable, Disk
  <2> QED
    BY <2>3
<1> QED
  BY <1>3, <1>4, <1>5, <1>6, <1>7, <1>8, <1>9 DEF SaveOK

\* A loss of power: one of the directories it may leave.
LEMMA LostSave ==
  ASSUME SavesInv, NEW s \in Handles, LosePower
  PROVE  SaveOK(s)'
<1> USE RowIs
<1>1. /\ UNCHANGED <<receipt, charge, torn, erred, acked, touched>> /\ stable' = {file'} /\ file' \in stable
      /\ Recorded(s)' = Recorded(s)
  BY DEF LosePower, Recorded
<1>2. Ghost(s)' => Ghost(s) /\ Of(file', s)
  BY <1>1 DEF Ghost
<1>3. Charged(s)' /\ Stranded(s)'
  BY <1>1, <1>2 DEF SaveOK, Charged, Stranded, Gone
<1>4. Same(s)' /\ Kept(s)'
  BY <1>1 DEF SaveOK, Same, Kept
<1>5. Hidden(s)'
  BY <1>1, <1>2 DEF Hidden, Gone
<1>6. Safe(s)'
  BY <1>1 DEF SaveOK, Safe, Everywhere
<1>7. Vouched(s)'
  <2>1. SUFFICES ASSUME s \in acked PROVE \E p \in Paths : Durable(s, p)'
    BY <1>1 DEF Vouched
  <2>2. PICK p \in Paths : Durable(s, p)
    BY <2>1 DEF SaveOK, Vouched
  <2>3. Durable(s, p)'
    BY <1>1, <2>2 DEF Durable, Disk
  <2> QED
    BY <2>3
<1> QED
  BY <1>3, <1>4, <1>5, <1>6, <1>7 DEF SaveOK

\* What another program did to a name.
LEMMA TouchIs ==
  ASSUME SavesInv, NEW name \in Names, Touch(name)
  PROVE  /\ UNCHANGED <<receipt, charge, acked, run, helpers, losses, torn, erred>>
         /\ touched' = touched \cup {name} /\ inodes' = inodes + 1 /\ touches' = touches + 1 /\ touches < MaxTouches
         /\ stable' = {file'}
         /\ \A n \in Names : n # name => file'[n] = file[n]
         /\ file'[name] # None => file'[name].of = Other
<1>1. file \in [Names -> Inode(inodes) \cup {None}] /\ inodes \in Nat
  BY DEF SavesInv, Disk, Directory
<1>2. \E what : file' = [file EXCEPT ![name] = what] /\ (what # None => what.of = Other)
  <2>1. CASE file' = [file EXCEPT ![name] = [id |-> inodes', of |-> Other, whole |-> TRUE]]
    <3>1. [id |-> inodes', of |-> Other, whole |-> TRUE].of = Other
      OBVIOUS
    <3> QED
      BY <2>1, <3>1
  <2>2. CASE file[name] # None /\ file' = [file EXCEPT ![name] = [file[name] EXCEPT !.of = Other]]
    <3>1. file[name] \in Inode(inodes)
      BY <1>1, <2>2
    <3>2. [file[name] EXCEPT !.of = Other].of = Other
      BY <3>1 DEF Inode
    <3> QED
      BY <2>2, <3>2
  <2>3. CASE file' = [file EXCEPT ![name] = None]
    BY <2>3
  <2> QED
    BY <2>1, <2>2, <2>3 DEF Touch, Change
<1>3. (\A n \in Names : n # name => file'[n] = file[n]) /\ (file'[name] # None => file'[name].of = Other)
  BY <1>1, <1>2
<1> QED
  BY <1>3 DEF Touch, Change

LEMMA TouchedSave ==
  ASSUME SavesInv, NEW s \in Handles, NEW name \in Names, Touch(name)
  PROVE  SaveOK(s)'
<1> USE RowIs, NamesAre
<1>1. /\ UNCHANGED <<receipt, charge, torn, erred, acked>> /\ touched' = touched \cup {name} /\ stable' = {file'}
      /\ Recorded(s)' = Recorded(s) /\ file \in stable
  BY TouchIs DEF Recorded, Disk
<1>2. Of(file', s) => Of(file, s) /\ file'[Temp(s)] = file[Temp(s)]
  BY TouchIs, SavesAssumption DEF Of
<1>3. \A p \in Paths : p \in touched' \/ file'[p] = file[p]
  BY <1>1, TouchIs
<1>4. Temp(s) \in touched' \/ file'[Temp(s)] = file[Temp(s)]
  BY <1>1, TouchIs
<1>5. Charged(s)' /\ Hidden(s)'
  BY <1>1, <1>2 DEF SaveOK, Charged, Hidden, Gone, Ghost
<1>6. Same(s)'
  BY <1>1, <1>2 DEF SaveOK, Same
<1>7. Kept(s)' /\ Stranded(s)'
  BY <1>1, <1>3, <1>4 DEF SaveOK, Kept, Stranded
<1>8. Safe(s)'
  BY <1>1, <1>3 DEF SaveOK, Safe, Everywhere
<1>9. Vouched(s)'
  <2>1. SUFFICES ASSUME s \in acked PROVE \E p \in Paths : Durable(s, p)'
    BY <1>1 DEF Vouched
  <2>2. PICK p \in Paths : Durable(s, p)
    BY <2>1 DEF SaveOK, Vouched
  <2>3. Durable(s, p)'
    BY <1>1, <1>3, <2>2 DEF Durable, Disk
  <2> QED
    BY <2>3
<1> QED
  BY <1>5, <1>6, <1>7, <1>8, <1>9 DEF SaveOK

-----------------------------------------------------------------------------
LEMMA PutIs ==
  ASSUME SavesInv, NEW s \in Handles, NEW row, receipt' = [receipt EXCEPT ![s] = row]
  PROVE  receipt'[s] = row /\ \A t \in Handles : t # s => receipt'[t] = receipt[t]
BY DEF SavesInv, Journal

\* The directories are the same, or only the one that is there now.
LEMMA FewerSaves ==
  ASSUME SavesInv, NEW s \in Handles, Still \/ Synced, UNCHANGED acked
  PROVE  /\ file' = file /\ stable' \subseteq stable /\ touched' = touched /\ Vouched(s)'
         /\ Ghost(s)' => Ghost(s)
         /\ Ghost(s)' /\ Synced => Of(file, s)
<1>1. file' = file /\ stable' \subseteq stable /\ touched' = touched
  BY RowIs DEF Still, Synced, disk, Disk
<1>2. Vouched(s)'
  BY <1>1, RowIs DEF SaveOK, Vouched, Durable
<1>3. (Ghost(s)' => Ghost(s)) /\ (Ghost(s)' /\ Synced => Of(file, s))
  BY <1>1 DEF Ghost, Synced
<1> QED
  BY <1>1, <1>2, <1>3

LEMMA RecoverPublishedOwn ==
  ASSUME SavesInv, NEW s \in Handles, s = this, RecoverPublished
  PROVE  SaveOK(s)'
<1> USE RowIs
<1>1. /\ held = receipt[s] /\ held.file # 0 /\ file[held.path] = Recorded(s) /\ held.state # "none"
      /\ Synced /\ UNCHANGED <<charge, acked, torn>>
  BY DEF RecoverPublished, Verified, Holds, held, Recorded, Whole, Synced, Sync
<1>2. receipt'[s].state \in {"published", "acknowledged"} /\ receipt'[s].path = held.path /\ receipt'[s].file = held.file
  <2>1. receipt'[s] = IF held.state = "acknowledged" THEN held ELSE [held EXCEPT !.state = "published"]
    BY PutIs DEF RecoverPublished, Persist
  <2> QED
    BY <1>1, <2>1 DEF Receipt
<1>3. Recorded(s)' = Recorded(s)
  BY <1>1, <1>2 DEF Recorded
<1>4. ~Ghost(s)'
  BY <1>1, FewerSaves, InOnePlace DEF Disk
<1>5. Charged(s)' /\ Hidden(s)' /\ Kept(s)' /\ Stranded(s)'
  BY <1>2, <1>4 DEF Charged, Hidden, Kept, Stranded
<1>6. Same(s)'
  BY <1>4 DEF Same, Ghost
<1>7. Safe(s)'
  BY <1>1, <1>2, <1>3 DEF Safe, Everywhere, Synced
<1>8. Vouched(s)'
  BY <1>1, FewerSaves
<1> QED
  BY <1>5, <1>6, <1>7, <1>8 DEF SaveOK

\* An unknown publication: another program, a repair stopped before its record, or one that
\* met a call that failed.
LEMMA RecoverUnknownOwn ==
  ASSUME SavesInv, NEW s \in Handles, s = this, RecoverUnknown
  PROVE  SaveOK(s)'
<1> USE RowIs
<1>1. /\ held = receipt[s] /\ held.file # 0 /\ held.state # "none"
      /\ s \in erred \cup torn => s \in erred' \cup torn'
      /\ s \in erred => s \in erred'
      /\ file[held.path] = Recorded(s) => s \in erred'
      /\ Still /\ UNCHANGED <<charge, acked, torn>> /\ file \in stable
      /\ held.state \in {"published", "acknowledged", "publication_unknown"} \/ file[Temp(s)] = None
  BY DEF RecoverUnknown, Verified, Unaccounted, Settling, Row, Holds, held, Recorded, Whole, Still, Disk
<1>2. receipt'[s].state = "publication_unknown" /\ receipt'[s].path = held.path /\ receipt'[s].file = held.file
  <2>1. receipt'[s] = [held EXCEPT !.state = "publication_unknown"]
    BY PutIs DEF RecoverUnknown, Persist
  <2> QED
    BY <1>1, <2>1 DEF Receipt
<1>3. Recorded(s)' = Recorded(s)
  BY <1>1, <1>2 DEF Recorded
<1>4. file' = file /\ stable' = stable /\ touched' = touched /\ (Ghost(s)' <=> Ghost(s))
  BY <1>1 DEF Still, disk, Ghost
<1>5. Charged(s)' /\ Kept(s)' /\ Safe(s)'
  BY <1>1, <1>2, <1>4 DEF SaveOK, Charged, Kept, Safe, Gone
<1>6. Same(s)'
  BY <1>1, <1>2, <1>3, <1>4 DEF SaveOK, Same
<1>7. Hidden(s)'
  <2>1. CASE file[held.path] = Recorded(s)
    BY <1>1, <1>2, <2>1 DEF Hidden, Gone
  <2>2. CASE file[held.path] # Recorded(s)
    BY <1>1, <1>2, <1>4, <2>2 DEF SaveOK, Hidden, Gone
  <2> QED
    BY <2>1, <2>2
<1>8. s \in torn \/ s \in erred' \/ held.path \in touched \/ Temp(s) \in touched
  <2>1. CASE held.state \in {"published", "acknowledged"}
    BY <1>1, <2>1 DEF SaveOK, Safe, Everywhere
  <2>2. CASE held.state = "publication_unknown"
    BY <1>1, <2>2 DEF SaveOK, Stranded
  <2>3. CASE held.state = "verified"
    <3>1. file[Temp(s)] # Recorded(s)
      BY <1>1, <2>3
    <3> QED
      BY <1>1, <2>3, <3>1 DEF SaveOK, Kept
  <2> QED
    BY <1>1, <2>1, <2>2, <2>3 DEF Row, States
<1>9. Stranded(s)'
  BY <1>1, <1>2, <1>4, <1>8 DEF Stranded
<1> QED
  BY <1>1, <1>5, <1>6, <1>7, <1>9, FewerSaves DEF SaveOK

LEMMA ResetReceiptOwn ==
  ASSUME SavesInv, NEW s \in Handles, s = this, ResetReceipt
  PROVE  SaveOK(s)'
<1> USE RowIs
<1>1. /\ held = receipt[s] /\ Still /\ UNCHANGED <<charge, acked>> /\ (Ghost(s) => s \in torn)
      /\ torn' = {t \in torn : t # s \/ \E view \in stable : view[Temp(t)] # None}
  BY DEF ResetReceipt, held, Still, SavesInv, Now
<1>2. receipt'[s].state = "prepared" /\ receipt'[s].file = 0
  <2>1. receipt'[s] = [held EXCEPT !.state = "prepared", !.created = 0, !.file = 0]
    BY PutIs DEF ResetReceipt, Persist
  <2> QED
    BY <1>1, <2>1 DEF Receipt
<1>3. file' = file /\ stable' = stable /\ touched' = touched /\ (Ghost(s)' <=> Ghost(s))
  BY <1>1 DEF Still, disk, Ghost
<1>4. Ghost(s)' => s \in torn'
  BY <1>1, <1>3 DEF Ghost, Of
<1>5. Charged(s)' /\ Same(s)' /\ Hidden(s)' /\ Kept(s)' /\ Safe(s)' /\ Stranded(s)'
  BY <1>2, <1>4 DEF Charged, Same, Hidden, Kept, Safe, Stranded
<1> QED
  BY <1>1, <1>5, FewerSaves DEF SaveOK

LEMMA PersistPreparedOwn ==
  ASSUME SavesInv, NEW s \in Handles, s = this, PersistPrepared
  PROVE  SaveOK(s)'
<1> USE RowIs
<1>1. /\ held = receipt[s] /\ Still /\ UNCHANGED <<charge, acked, torn, erred>> /\ s \in charge
      /\ held.state \in {"none", "prepared"} /\ held.file = 0
  BY DEF PersistPrepared, held, Still, SavesInv, Now, Row
<1>2. receipt'[s].state \in {"none", "prepared"} /\ receipt'[s].file = 0
  <2>1. CASE receipt'[s] = held
    BY <1>1, <2>1
  <2>2. CASE receipt'[s] = [NoReceipt EXCEPT !.state = "prepared", !.path = run.ask.path]
    BY <2>2 DEF NoReceipt
  <2> QED
    BY <1>1, <2>1, <2>2, PutIs DEF PersistPrepared, Persist
<1>3. file' = file /\ stable' = stable /\ touched' = touched /\ (Ghost(s)' <=> Ghost(s))
  BY <1>1 DEF Still, disk, Ghost
<1>4. Charged(s)' /\ Same(s)' /\ Hidden(s)' /\ Kept(s)' /\ Safe(s)' /\ Stranded(s)'
  BY <1>1, <1>2, <1>3 DEF SaveOK, Charged, Same, Hidden, Gone, Kept, Safe, Stranded
<1> QED
  BY <1>1, <1>4, FewerSaves DEF SaveOK

LEMMA PersistCreatedOwn ==
  ASSUME SavesInv, NEW s \in Handles, s = this, PersistCreated
  PROVE  SaveOK(s)'
<1> USE RowIs
<1>1. /\ held = receipt[s] /\ Still /\ UNCHANGED <<charge, acked, torn, erred>>
      /\ held.state = "prepared" /\ held.file = 0
  BY DEF PersistCreated, held, Still, SavesInv, Now, Row
<1>2. receipt'[s].state = "prepared" /\ receipt'[s].file = 0
  <2>1. receipt'[s] = [held EXCEPT !.created = run.fd]
    BY PutIs DEF PersistCreated, Persist
  <2> QED
    BY <1>1, <2>1 DEF Receipt
<1>3. file' = file /\ stable' = stable /\ touched' = touched /\ (Ghost(s)' <=> Ghost(s))
  BY <1>1 DEF Still, disk, Ghost
<1>4. Charged(s)' /\ Same(s)' /\ Hidden(s)' /\ Kept(s)' /\ Safe(s)' /\ Stranded(s)'
  BY <1>1, <1>2, <1>3 DEF SaveOK, Charged, Same, Hidden, Gone, Kept, Safe, Stranded
<1> QED
  BY <1>1, <1>4, FewerSaves DEF SaveOK

LEMMA PersistVerifiedOwn ==
  ASSUME SavesInv, NEW s \in Handles, s = this, PersistVerified
  PROVE  SaveOK(s)'
<1> USE RowIs
<1>1. /\ held = receipt[s] /\ Still /\ UNCHANGED <<charge, acked, torn, erred>> /\ s \in charge
      /\ held.state = "prepared" /\ held.file = 0
      /\ \A view \in stable : Of(view, s) => view[Temp(s)] = Whole(s, run.fd)
      /\ Temp(s) \in touched \/ Everywhere(Temp(s), Whole(s, run.fd))
  BY DEF PersistVerified, held, Still, SavesInv, Now, Row
<1>2. receipt'[s].state = "verified" /\ receipt'[s].file = run.fd
  <2>1. receipt'[s] = [held EXCEPT !.file = run.fd, !.state = "verified"]
    BY PutIs DEF PersistVerified, Persist
  <2> QED
    BY <1>1, <2>1 DEF Receipt
<1>3. /\ file' = file /\ stable' = stable /\ touched' = touched /\ (Ghost(s)' <=> Ghost(s))
      /\ Recorded(s)' = Whole(s, run.fd)
  BY <1>1, <1>2 DEF Still, disk, Ghost, Recorded
<1>4. Charged(s)' /\ Safe(s)' /\ Stranded(s)'
  BY <1>1, <1>2, <1>3 DEF SaveOK, Charged, Gone, Safe, Stranded
<1>5. Same(s)' /\ Kept(s)'
  BY <1>1, <1>2, <1>3 DEF Same, Kept, Everywhere
<1>6. Hidden(s)'
  BY <1>1, <1>3 DEF SaveOK, Hidden, Gone
<1> QED
  BY <1>1, <1>4, <1>5, <1>6, FewerSaves DEF SaveOK

LEMMA PersistPublishedOwn ==
  ASSUME SavesInv, NEW s \in Handles, s = this, PersistPublished
  PROVE  SaveOK(s)'
<1> USE RowIs
<1>1. /\ held = receipt[s] /\ Still /\ UNCHANGED <<charge, acked, torn, erred>>
      /\ held.state = "verified" /\ held.file = run.fd /\ ~Ghost(s)
      /\ held.path \in touched \/ Everywhere(held.path, Recorded(s))
  BY DEF PersistPublished, held, Still, SavesInv, Now
<1>2. receipt'[s].state = "published" /\ receipt'[s].file = held.file /\ receipt'[s].path = held.path
  <2>1. receipt'[s] = [held EXCEPT !.file = run.fd, !.state = "published"]
    BY PutIs DEF PersistPublished, Persist
  <2> QED
    BY <1>1, <2>1 DEF Receipt
<1>3. /\ file' = file /\ stable' = stable /\ touched' = touched /\ ~Ghost(s)'
      /\ Recorded(s)' = Recorded(s)
  BY <1>1, <1>2 DEF Still, disk, Ghost, Recorded
<1>4. Charged(s)' /\ Hidden(s)' /\ Kept(s)' /\ Stranded(s)'
  BY <1>2, <1>3 DEF Charged, Hidden, Kept, Stranded
<1>5. Same(s)'
  BY <1>3 DEF Same, Ghost
<1>6. Safe(s)'
  BY <1>1, <1>2, <1>3 DEF Safe, Everywhere
<1> QED
  BY <1>1, <1>4, <1>5, <1>6, FewerSaves DEF SaveOK

LEMMA PersistAcknowledgedOwn ==
  ASSUME SavesInv, NEW s \in Handles, s = this, PersistAcknowledged
  PROVE  SaveOK(s)'
<1> USE RowIs
<1>1. /\ held = receipt[s] /\ Still /\ UNCHANGED <<charge, acked, torn, erred>>
      /\ held.state \in {"published", "acknowledged"}
  BY DEF PersistAcknowledged, held, Still, SavesInv, Now
<1>2. receipt'[s].state = "acknowledged" /\ receipt'[s].file = held.file /\ receipt'[s].path = held.path
  <2>1. receipt'[s] = [held EXCEPT !.state = "acknowledged"]
    BY PutIs DEF PersistAcknowledged, Persist
  <2> QED
    BY <1>1, <2>1 DEF Receipt
<1>3. /\ file' = file /\ stable' = stable /\ touched' = touched /\ (Ghost(s)' <=> Ghost(s))
      /\ Recorded(s)' = Recorded(s)
  BY <1>1, <1>2 DEF Still, disk, Ghost, Recorded
<1>4. Charged(s)' /\ Hidden(s)' /\ Kept(s)' /\ Stranded(s)'
  BY <1>1, <1>2, <1>3 DEF SaveOK, Charged, Hidden, Gone, Kept, Stranded
<1>5. Same(s)'
  BY <1>1, <1>2, <1>3 DEF SaveOK, Same
<1>6. Safe(s)'
  BY <1>1, <1>2, <1>3 DEF SaveOK, Safe, Everywhere
<1> QED
  BY <1>1, <1>4, <1>5, <1>6, FewerSaves DEF SaveOK

LEMMA PurgeSaveOwn ==
  ASSUME SavesInv, NEW s \in Handles, PurgeSave(s)
  PROVE  SaveOK(s)'
<1> USE RowIs
<1>1. Still /\ UNCHANGED <<charge, acked, torn, erred>> /\ receipt[s].state = "acknowledged"
  BY DEF PurgeSave, Still
<1>2. receipt'[s].state = "none" /\ receipt'[s].file = 0
  <2>1. receipt'[s] = NoReceipt
    BY PutIs DEF PurgeSave
  <2> QED
    BY <2>1 DEF NoReceipt
<1>3. file' = file /\ stable' = stable /\ touched' = touched /\ (Ghost(s)' <=> Ghost(s))
  BY <1>1 DEF Still, disk, Ghost
<1>4. Charged(s)' /\ Same(s)' /\ Hidden(s)' /\ Kept(s)' /\ Safe(s)' /\ Stranded(s)'
  BY <1>1, <1>2, <1>3 DEF SaveOK, Charged, Same, Hidden, Gone, Kept, Safe, Stranded
<1> QED
  BY <1>1, <1>4, FewerSaves DEF SaveOK

\* A charge is given back only when no loss of power brings the temporary back.
LEMMA ReleaseOwn ==
  ASSUME SavesInv, NEW s \in Handles, s = this, ReleaseCharge \/ ReleaseDebt
  PROVE  SaveOK(s)'
<1> USE RowIs
<1>1. Still /\ UNCHANGED <<receipt, acked, torn, erred>> /\ file \in stable
  BY DEF ReleaseCharge, ReleaseDebt, Still, Disk
<1>2. s \in charge => s \in charge' \/ (Ghost(s) => s \in torn \/ Gone(s))
  <2>1. CASE ReleaseCharge
    BY <2>1 DEF ReleaseCharge, SavesInv, Now
  <2>2. CASE ReleaseDebt /\ receipt[s].state = "publication_unknown" /\ file[Temp(s)] = None
    BY <2>2 DEF SaveOK, Hidden, Of
  <2>3. CASE ReleaseDebt /\ ~(receipt[s].state = "publication_unknown" /\ file[Temp(s)] = None)
    BY <2>3 DEF ReleaseDebt, held
  <2> QED
    BY <2>1, <2>2, <2>3
<1>3. /\ file' = file /\ stable' = stable /\ touched' = touched /\ (Ghost(s)' <=> Ghost(s))
      /\ Recorded(s)' = Recorded(s)
  BY <1>1 DEF Still, disk, Ghost, Recorded
<1>4. Charged(s)'
  BY <1>1, <1>2, <1>3 DEF SaveOK, Charged, Gone
<1>5. Hidden(s)' /\ Kept(s)' /\ Stranded(s)'
  BY <1>1, <1>3 DEF SaveOK, Hidden, Gone, Kept, Stranded
<1>6. Same(s)' /\ Safe(s)'
  BY <1>1, <1>3 DEF SaveOK, Same, Safe, Everywhere
<1> QED
  BY <1>1, <1>4, <1>5, <1>6, FewerSaves DEF SaveOK

\* The authority hears of a publication that is durable.
LEMMA AcknowledgeOwn ==
  ASSUME SavesInv, NEW s \in Handles, s = this, Acknowledge
  PROVE  SaveOK(s)'
<1> USE RowIs
<1>1. Still /\ UNCHANGED <<receipt, charge, torn, erred>> /\ acked' = acked \cup {s} /\ receipt[s].state = "published"
  BY DEF Acknowledge, Still, SavesInv, Now, held
<1>2. /\ file' = file /\ stable' = stable /\ touched' = touched /\ (Ghost(s)' <=> Ghost(s))
      /\ Recorded(s)' = Recorded(s)
  BY <1>1 DEF Still, disk, Ghost, Recorded
<1>3. Charged(s)' /\ Hidden(s)' /\ Kept(s)' /\ Stranded(s)'
  BY <1>1, <1>2 DEF SaveOK, Charged, Hidden, Gone, Kept, Stranded
<1>4. Same(s)' /\ Safe(s)'
  BY <1>1, <1>2 DEF SaveOK, Same, Safe, Everywhere
<1>5. Recorded(s).of = s /\ Recorded(s).whole = TRUE
  BY DEF Recorded, Whole
<1>6. Durable(s, receipt[s].path)
  BY <1>1, <1>5 DEF SaveOK, Safe, Everywhere, Durable
<1>7. Vouched(s)'
  BY <1>1, <1>2, <1>6 DEF Vouched, Durable
<1> QED
  BY <1>3, <1>4, <1>7 DEF SaveOK

LEMMA RemoveTemporaryOwn ==
  ASSUME SavesInv, NEW s \in Handles, s = this, RemoveTemporary, file[Temp(s)] # None
  PROVE  SaveOK(s)'
<1> USE RowIs, NamesAre
<1>1. /\ file' = [file EXCEPT ![Temp(s)] = None] /\ stable' = stable \cup {file'} /\ torn' = torn \cup {s}
      /\ UNCHANGED <<receipt, charge, acked, touched, erred>> /\ receipt[s].state \in {"prepared", "verified"}
      /\ file \in stable /\ file \in [Names -> Inode(inodes) \cup {None}] /\ s \in torn'
  BY DEF RemoveTemporary, Write, SavesInv, Now, held, Disk, Directory
<1>2. file'[Temp(s)] = None /\ (\A p \in Paths : file'[p] = file[p]) /\ Recorded(s)' = Recorded(s)
  BY <1>1 DEF Recorded
<1>3. Charged(s)' /\ Hidden(s)' /\ Kept(s)' /\ Safe(s)' /\ Stranded(s)'
  BY <1>1 DEF Charged, Hidden, Kept, Safe, Stranded
<1>4. Same(s)'
  BY <1>1, <1>2 DEF SaveOK, Same, Of
<1>5. Vouched(s)'
  <2>1. SUFFICES ASSUME s \in acked PROVE \E p \in Paths : Durable(s, p)'
    BY <1>1 DEF Vouched
  <2>2. PICK p \in Paths : Durable(s, p)
    BY <2>1 DEF SaveOK, Vouched
  <2>3. Durable(s, p)'
    BY <1>1, <1>2, <2>2 DEF Durable
  <2> QED
    BY <2>3
<1> QED
  BY <1>3, <1>4, <1>5 DEF SaveOK

LEMMA CreateTemporaryOwn ==
  ASSUME SavesInv, NEW s \in Handles, s = this, CreateTemporary
  PROVE  SaveOK(s)'
<1> USE RowIs, NamesAre
<1>1. /\ file' = [file EXCEPT ![Temp(s)] = [id |-> inodes', of |-> s, whole |-> FALSE]]
      /\ stable' = stable \cup {file'}
      /\ UNCHANGED <<receipt, charge, acked, touched, torn, erred>> /\ receipt[s].state = "prepared" /\ s \in charge
      /\ file \in stable /\ file \in [Names -> Inode(inodes) \cup {None}] /\ receipt[s].file = 0
  BY DEF CreateTemporary, Write, SavesInv, Now, held, Disk, Directory, Row
<1>2. Of(file', s) /\ (\A p \in Paths : file'[p] = file[p])
  <2>1. file'[Temp(s)] = [id |-> inodes', of |-> s, whole |-> FALSE]
    BY <1>1
  <2>2. [id |-> inodes', of |-> s, whole |-> FALSE] \in [id : Nat, of : Handles \cup {Other}, whole : BOOLEAN]
    BY DiskStep DEF CreateTemporary
  <2> QED
    BY <1>1, <2>1, <2>2, SavesAssumption DEF Of
<1>3. Charged(s)' /\ Hidden(s)' /\ Kept(s)' /\ Safe(s)' /\ Stranded(s)' /\ Same(s)'
  BY <1>1, <1>2 DEF Charged, Hidden, Kept, Safe, Stranded, Same
<1>5. Vouched(s)'
  <2>1. SUFFICES ASSUME s \in acked PROVE \E p \in Paths : Durable(s, p)'
    BY <1>1 DEF Vouched
  <2>2. PICK p \in Paths : Durable(s, p)
    BY <2>1 DEF SaveOK, Vouched
  <2>3. Durable(s, p)'
    BY <1>1, <1>2, <2>2 DEF Durable
  <2> QED
    BY <2>3
<1> QED
  BY <1>3, <1>5 DEF SaveOK

LEMMA WriteBytesOwn ==
  ASSUME SavesInv, NEW s \in Handles, s = this, WriteBytes
  PROVE  SaveOK(s)'
<1> USE RowIs, NamesAre
<1>1. /\ stable' = {file'}
      /\ UNCHANGED <<receipt, charge, acked, touched, torn, erred>> /\ receipt[s].state = "prepared" /\ s \in charge
      /\ file \in stable /\ file \in [Names -> Inode(inodes) \cup {None}] /\ receipt[s].file = 0
  BY DEF WriteBytes, SavesInv, Now, held, Disk, Directory, Row
<1>2. \A p \in Paths : file'[p] = file[p]
  BY <1>1 DEF WriteBytes
<1>3. Ghost(s)' => Of(file', s)
  BY <1>1 DEF Ghost
<1>4. Charged(s)' /\ Hidden(s)' /\ Kept(s)' /\ Safe(s)' /\ Stranded(s)' /\ Same(s)'
  BY <1>1, <1>3 DEF Charged, Hidden, Kept, Safe, Stranded, Same
<1>5. Vouched(s)'
  <2>1. SUFFICES ASSUME s \in acked PROVE \E p \in Paths : Durable(s, p)'
    BY <1>1 DEF Vouched
  <2>2. PICK p \in Paths : Durable(s, p)
    BY <2>1 DEF SaveOK, Vouched
  <2>3. Durable(s, p)'
    BY <1>1, <1>2, <2>2 DEF Durable
  <2> QED
    BY <2>3
<1> QED
  BY <1>4, <1>5 DEF SaveOK

\* The rename puts the verified file where the receipt says, never over a file.
LEMMA RenameOwn ==
  ASSUME SavesInv, NEW s \in Handles, s = this, Rename, file[Temp(s)] # None, file[receipt[s].path] = None
  PROVE  SaveOK(s)'
<1> USE RowIs, NamesAre
<1> DEFINE to == receipt[s].path
<1>1. /\ file' = [file EXCEPT ![to] = file[Temp(s)], ![Temp(s)] = None]
      /\ stable' = stable \cup {file'}
      /\ UNCHANGED <<receipt, charge, acked, touched, torn, erred>> /\ receipt[s].state = "verified" /\ receipt[s].file # 0
      /\ file \in stable /\ file \in [Names -> Inode(inodes) \cup {None}] /\ to \in Paths
  BY DEF Rename, SavesInv, Now, held, Disk, Directory, Row
<1>2. /\ file'[Temp(s)] = None /\ file'[to] = file[Temp(s)]
      /\ (\A p \in Paths : file[p] # None => file'[p] = file[p]) /\ Recorded(s)' = Recorded(s)
  BY <1>1 DEF Recorded
<1>3. Ghost(s)' => Ghost(s)
  BY <1>1, <1>2 DEF Ghost, Of
<1>4. Charged(s)' /\ Safe(s)' /\ Stranded(s)'
  BY <1>1, <1>3 DEF SaveOK, Charged, Gone, Safe, Stranded
<1>5. Hidden(s)'
  <2>1. Ghost(s) /\ s \notin torn => Of(file, s)
    BY <1>1 DEF SaveOK, Hidden, Gone
  <2>2. Of(file, s) => file[Temp(s)] = Recorded(s)
    BY <1>1 DEF SaveOK, Same
  <2> QED
    BY <1>1, <1>2, <1>3, <2>1, <2>2 DEF Hidden
<1>6. Same(s)'
  BY <1>1, <1>2 DEF SaveOK, Same, Of
<1>7. Kept(s)'
  BY <1>1, <1>2 DEF SaveOK, Kept
<1>8. Vouched(s)'
  <2>1. SUFFICES ASSUME s \in acked PROVE \E p \in Paths : Durable(s, p)'
    BY <1>1 DEF Vouched
  <2>2. PICK p \in Paths : Durable(s, p)
    BY <2>1 DEF SaveOK, Vouched
  <2>3. Durable(s, p)'
    BY <1>1, <1>2, <2>2 DEF Durable
  <2> QED
    BY <2>3
<1> QED
  BY <1>4, <1>5, <1>6, <1>7, <1>8 DEF SaveOK

\* A call of the repair failed: the receipt, the charge and the files are as they were.
LEMMA RecoverFailsOwn ==
  ASSUME SavesInv, NEW s \in Handles, s = this, RecoverFails
  PROVE  SaveOK(s)'
<1> USE RowIs
<1>1. Still /\ UNCHANGED <<receipt, charge, acked, torn>> /\ file \in stable /\ s \in erred'
  BY DEF RecoverFails, Still, Disk
<1>2. /\ file' = file /\ stable' = stable /\ touched' = touched /\ (Ghost(s)' <=> Ghost(s))
      /\ Recorded(s)' = Recorded(s)
  BY <1>1 DEF Still, disk, Ghost, Recorded
<1>3. Gone(s) => Gone(s)'
  BY <1>1 DEF Gone
<1>4. Charged(s)' /\ Hidden(s)' /\ Kept(s)' /\ Stranded(s)'
  BY <1>1, <1>2, <1>3 DEF SaveOK, Charged, Hidden, Kept, Stranded
<1>5. Same(s)' /\ Safe(s)'
  BY <1>1, <1>2 DEF SaveOK, Same, Safe, Everywhere
<1> QED
  BY <1>1, <1>4, <1>5, FewerSaves DEF SaveOK

\* The actions that change a receipt, a charge, what is known of the repair or the
\* authority's record of the save at hand.
Own == \/ RecoverPublished \/ RecoverUnknown \/ RecoverFails \/ ResetReceipt \/ PersistPrepared \/ PersistCreated
       \/ PersistVerified \/ PersistPublished \/ PersistAcknowledged \/ ReleaseCharge \/ ReleaseDebt \/ Acknowledge
       \/ RemoveTemporary \/ CreateTemporary \/ WriteBytes \/ Rename

LEMMA OwnSave ==
  ASSUME SavesInv, NEW s \in Handles, s = this, Own
  PROVE  SaveOK(s)'
<1>1. CASE RemoveTemporary /\ file[Temp(s)] = None
  <2>1. UNCHANGED <<file, stable, receipt, charge, acked, touched, torn, erred>>
    BY <1>1 DEF RemoveTemporary
  <2> QED
    BY <2>1, AgreeSave
<1>2. CASE Rename /\ (file[Temp(s)] = None \/ file[receipt[s].path] # None)
  <2>1. UNCHANGED <<file, stable, receipt, charge, acked, touched, torn, erred>>
    BY <1>2 DEF Rename, held
  <2> QED
    BY <2>1, AgreeSave
<1> QED
  BY <1>1, <1>2, RecoverPublishedOwn, RecoverUnknownOwn, RecoverFailsOwn, ResetReceiptOwn, PersistPreparedOwn,
     PersistCreatedOwn, PersistVerifiedOwn, PersistPublishedOwn, PersistAcknowledgedOwn, ReleaseOwn, AcknowledgeOwn,
     RemoveTemporaryOwn, CreateTemporaryOwn, WriteBytesOwn, RenameOwn DEF Own

\* What an action of the save at hand leaves of another save.
LEMMA OtherSave ==
  ASSUME SavesInv, NEW s \in Handles, s # this, Own
  PROVE  SaveOK(s)'
<1> USE NamesAre
<1>0. /\ file \in stable /\ file \in [Names -> Inode(inodes) \cup {None}]
      /\ receipt \in [Handles -> Receipt(inodes)]
  BY DEF SavesInv, Disk, Directory, Journal
<1>1. /\ receipt'[s] = receipt[s] /\ (s \in charge => s \in charge') /\ (s \in torn' <=> s \in torn)
      /\ (s \in erred' <=> s \in erred)
      /\ (s \in acked' => s \in acked) /\ touched' = touched
  <2>1. CASE RecoverPublished \/ RecoverUnknown \/ ResetReceipt \/ PersistPrepared \/ PersistCreated
             \/ PersistVerified \/ PersistPublished \/ PersistAcknowledged
    BY <1>0, <2>1 DEF RecoverPublished, RecoverUnknown, ResetReceipt, PersistPrepared, PersistCreated, PersistVerified,
       PersistPublished, PersistAcknowledged, Persist, disk
  <2>2. CASE \/ RecoverFails \/ ReleaseCharge \/ ReleaseDebt \/ Acknowledge
             \/ RemoveTemporary \/ CreateTemporary \/ WriteBytes \/ Rename
    BY <2>2 DEF RecoverFails, ReleaseCharge, ReleaseDebt, Acknowledge, RemoveTemporary, CreateTemporary, WriteBytes,
       Rename, disk
  <2> QED
    BY <2>1, <2>2 DEF Own
<1>2. /\ stable' \subseteq stable \cup {file'} /\ file'[Temp(s)] = file[Temp(s)]
      /\ \A p \in Paths : file[p] # None => file'[p] = file[p]
  <2>1. CASE Still \/ Synced
    BY <1>0, <2>1 DEF Still, Synced, disk
  <2>2. CASE RemoveTemporary \/ CreateTemporary \/ WriteBytes \/ Rename
    <3>1. this \in Handles /\ held = receipt[this]
      BY <2>2, AtReceipt DEF RemoveTemporary, CreateTemporary, WriteBytes, Rename, held
    <3>2. CASE RemoveTemporary
      BY <1>0, <3>1, <3>2 DEF RemoveTemporary, Write
    <3>3. CASE CreateTemporary
      BY <1>0, <3>1, <3>3 DEF CreateTemporary, Write
    <3>4. CASE WriteBytes
      BY <1>0, <3>1, <3>4 DEF WriteBytes
    <3>5. CASE Rename
      <4>1. held.path \in Paths
        BY <3>1, <3>5, RowIs DEF Rename, SavesInv, Now
      <4> QED
        BY <1>0, <3>1, <3>5, <4>1 DEF Rename
    <3> QED
      BY <2>2, <3>2, <3>3, <3>4, <3>5
  <2> QED
    BY <2>1, <2>2, JournalingIsStill, SyncingIsSynced DEF Own, Journaling, Syncing
<1> QED
  BY <1>1, <1>2, AgreeSave

LEMMA SavesStep ==
  ASSUME SavesInv, [Next]_vars, NEW s \in Handles
  PROVE  SaveOK(s)'
<1>1. CASE LosePower
  BY <1>1, LostSave
<1>2. CASE \E name \in Names : Touch(name)
  BY <1>2, TouchedSave
<1>3. CASE Own
  BY <1>3, OwnSave, OtherSave
<1>4. ASSUME NEW t \in Handles, PurgeSave(t) PROVE SaveOK(s)'
  <2>1. CASE t # s
    <3>1. receipt'[s] = receipt[s] /\ UNCHANGED <<file, stable, touched, charge, acked, torn, erred>>
      BY <1>4, <2>1, PutIs DEF PurgeSave, disk
    <3> QED
      BY <3>1, AgreeSave
  <2> QED
    BY <1>4, <2>1, PurgeSaveOwn
<1>5. CASE \/ \E ask \in Asks : StartHelper(ask)
           \/ \E t \in Handles : RecoverNext(t)
           \/ Serve \/ RecoverNothing \/ RecoverDiscard \/ Recovered \/ Reserve \/ Fetch \/ CheckTemporary \/ Reply \/ Stop
           \/ SyncRemoval \/ SyncDestination \/ VerifyDestination \/ UNCHANGED vars
  <2>1. UNCHANGED <<receipt, acked, torn, erred>> /\ charge \subseteq charge'
    BY <1>5 DEF StartHelper, RecoverNext, Serve, RecoverNothing, RecoverDiscard, Recovered, Reserve, Fetch,
       CheckTemporary, Reply, Stop, SyncRemoval, SyncDestination, VerifyDestination, vars
  <2>2. Still \/ Synced
    BY <1>5, JournalingIsStill, SyncingIsSynced DEF Journaling, Syncing, vars, Still, disk
  <2>3. file' = file /\ stable' \subseteq stable /\ touched' = touched
    BY <2>2 DEF Still, Synced, disk, SavesInv, Disk
  <2> QED
    BY <2>1, <2>3, AgreeSave
<1> QED
  BY <1>1, <1>2, <1>3, <1>4, <1>5 DEF Next, Helper, Recover, Save, Own

-----------------------------------------------------------------------------
\* The helper at another point of the same command.
LEMMA GoesOn ==
  ASSUME NEW top \in Nat, NEW end \in Nat, top <= end, NEW now \in RunAt(top), NEW pc \in Pcs,
         NEW next, next = [now EXCEPT !.pc = pc]
  PROVE  /\ next \in RunAt(end) /\ next.pc = pc
         /\ next.ask = now.ask /\ next.doing = now.doing /\ next.on = now.on /\ next.fd = now.fd /\ next.todo = now.todo
BY DEF RunAt

LEMMA IdleIs ==
  ASSUME NEW end \in Nat
  PROVE  /\ Idle \in RunAt(end) /\ Idle.pc = "idle" /\ Idle.doing = "none"
BY DEF Idle, RunAt, Pcs, NoAsk

LEMMA EndShape ==
  ASSUME inodes' \in Nat, run' = Idle
  PROVE  Shape' /\ run'.pc = "idle" /\ run'.doing = "none"
<1>1. run' \in RunAt(inodes') /\ run'.pc = "idle" /\ run'.doing = "none"
  BY IdleIs
<1> QED
  BY <1>1 DEF Shape, Recovering, Saving, Serving, Commands

\* The next points of each command.
LEMMA GotoShape ==
  ASSUME SavesInv, inodes' \in Nat, inodes <= inodes', NEW pc \in Pcs, Goto(pc), run.pc # "idle",
         pc # "idle", pc = "startup" => run.doing = "startup" /\ run.ask \in Asks,
         pc # "release",
         pc # "startup" => run.pc # "startup",
         pc \in Saving => run.doing \in {"prepare", "publish"},
         pc \in Saving \ {"reserve", "prepared", "fetch"} => run.doing = "publish",
         pc = "fetch" => run.doing = "prepare",
         pc \in Serving => run.doing \in Commands
  PROVE  Shape' /\ run'.pc = pc /\ UNCHANGED <<run.ask, run.doing, run.on, run.fd, run.todo>>
<1>1. run \in RunAt(inodes) /\ inodes \in Nat
  BY DEF SavesInv, Shape, Disk
<1>2. run' \in RunAt(inodes') /\ run'.pc = pc /\ UNCHANGED <<run.ask, run.doing, run.on, run.fd, run.todo>>
  BY <1>1, GoesOn DEF Goto
<1>3. run.doing # "none" /\ run.pc \in Pcs
  BY <1>1 DEF SavesInv, Shape, RunAt, Pcs, Commands
<1>4. (run.doing \in Commands => run.ask \in [kind : {"save"}, handle : Handles, path : Paths])
      /\ (run.pc # "startup" => this \in Handles /\ run.ask # NoAsk)
  BY DEF SavesInv, Shape
<1>5. pc = "startup" => run.doing \notin Commands
  BY DEF Commands
<1> QED
  BY <1>2, <1>3, <1>4, <1>5 DEF Shape, this

LEMMA RunLater ==
  ASSUME NEW top \in Nat, NEW end \in Nat, top <= end
  PROVE  RunAt(top) \subseteq RunAt(end)
BY DEF RunAt

LEMMA RefusedShape ==
  ASSUME SavesInv, inodes' \in Nat, inodes <= inodes', run.pc \notin {"idle", "startup"}, Refused
  PROVE  /\ Shape'
         /\ \/ run'.pc = "idle" /\ run'.doing = "none"
            \/ /\ run.doing = "startup" /\ run'.pc = "startup"
               /\ UNCHANGED <<run.ask, run.doing, run.on, run.fd, run.todo>>
<1>1. CASE run.doing = "startup"
  <2>1. run.ask \in Asks
    BY DEF SavesInv, Shape, RunAt
  <2>2. "startup" \in Pcs /\ "startup" \notin Saving /\ "startup" \notin Serving
    BY DEF Pcs, Saving, Serving
  <2>3. Goto("startup")
    BY <1>1 DEF Refused
  <2> QED
    BY <1>1, <2>1, <2>2, <2>3, GotoShape
<1>2. CASE run.doing # "startup"
  BY <1>2, EndShape DEF Refused, End
<1> QED
  BY <1>1, <1>2

\* The action that was taken left the helper at one of these points.
LEMMA ShapeStep ==
  ASSUME SavesInv, [Next]_vars
  PROVE  Shape'
<1>0. /\ Shape /\ run \in RunAt(inodes) /\ inodes \in Nat /\ inodes' \in Nat /\ inodes <= inodes'
      /\ run.pc \in Pcs /\ run \in RunAt(inodes')
  BY DiskStep, RunLater DEF SavesInv, Shape, Disk, RunAt
<1> USE DEF Pcs, Recovering, Saving, Serving, Commands
<1>1. CASE UNCHANGED run
  <2>1. RunAt(inodes) \subseteq RunAt(inodes')
    BY <1>0 DEF RunAt
  <2> QED
    BY <1>0, <1>1, <2>1 DEF Shape, this
<1>2. CASE run' = Idle
  BY <1>0, <1>2, EndShape
<1>3. ASSUME NEW ask \in Asks, StartHelper(ask) PROVE Shape'
  <2>1. run' = [Idle EXCEPT !.pc = "startup", !.doing = "startup", !.ask = ask,
                            !.todo = {s \in Handles : receipt[s].state # "none"}]
    BY <1>3 DEF StartHelper
  <2>2. run' \in RunAt(inodes') /\ run'.pc = "startup" /\ run'.doing = "startup" /\ run'.ask = ask
    <3>1. {s \in Handles : receipt[s].state # "none"} \in SUBSET Handles
      OBVIOUS
    <3> QED
      BY <1>0, <2>1, <3>1, IdleIs DEF RunAt
  <2> QED
    BY <2>2 DEF Shape, this
<1>4. ASSUME NEW s \in Handles, RecoverNext(s) PROVE Shape'
  <2>1. run' = [run EXCEPT !.pc = "recover", !.on = s, !.todo = @ \ {s}] /\ run.pc = "startup"
    BY <1>4 DEF RecoverNext
  <2>2. run' \in RunAt(inodes') /\ run'.pc = "recover" /\ run'.on = s /\ UNCHANGED <<run.doing, run.ask>>
    BY <1>0, <2>1 DEF RunAt
  <2>3. run.doing = "startup" /\ run.ask \in Asks
    BY <1>0, <2>1 DEF Shape
  <2>4. run.ask # NoAsk
    BY <2>3, SavesAssumption DEF NoAsk
  <2> QED
    BY <2>2, <2>3, <2>4 DEF Shape, this
<1>5. CASE Serve
  <2>1. run.doing = "startup" /\ run.ask \in Asks /\ run.pc = "startup"
    BY <1>0, <1>5 DEF Shape, Serve
  <2>2. run.ask # NoAsk
    BY <2>1, SavesAssumption DEF NoAsk
  <2>3. CASE run.ask.kind = "save"
    <3>1. run.ask \in [kind : {"save"}, handle : Handles, path : Paths]
      BY <2>1, <2>3, SavesAssumption
    <3>2. run' = [run EXCEPT !.pc = "recover", !.doing = "prepare", !.on = run.ask.handle]
      BY <1>5, <2>3 DEF Serve
    <3>3. run' \in RunAt(inodes') /\ run'.pc = "recover" /\ run'.on = run.ask.handle /\ run'.doing = "prepare"
          /\ run'.ask = run.ask
      BY <1>0, <3>1, <3>2 DEF RunAt
    <3> QED
      BY <2>2, <3>1, <3>3 DEF Shape, this
  <2>4. CASE run.ask.kind = "release"
    <3>1. run.ask \in [kind : {"release"}, handle : Handles]
      BY <2>1, <2>4, SavesAssumption
    <3>2. run' = [run EXCEPT !.pc = "release", !.on = run.ask.handle]
      BY <1>5, <2>4 DEF Serve
    <3>3. run' \in RunAt(inodes') /\ run'.pc = "release" /\ run'.on = run.ask.handle /\ UNCHANGED <<run.doing, run.ask>>
      BY <1>0, <3>1, <3>2 DEF RunAt
    <3> QED
      BY <2>1, <2>2, <3>1, <3>3 DEF Shape, this
  <2> QED
    BY <1>2, <1>5, <2>3, <2>4 DEF Serve, End
<1>6. CASE Fetch
  <2>1. run' = [run EXCEPT !.pc = "recover", !.doing = "publish"] /\ run.pc = "fetch"
    BY <1>6 DEF Fetch
  <2>2. run' \in RunAt(inodes') /\ run'.pc = "recover" /\ run'.doing = "publish" /\ UNCHANGED <<run.on, run.ask>>
    BY <1>0, <2>1 DEF RunAt
  <2> QED
    BY <1>0, <2>1, <2>2 DEF Shape, this
<1>7. CASE CreateTemporary
  <2>1. run' = [run EXCEPT !.pc = "created", !.fd = inodes'] /\ run.pc = "create"
    BY <1>7 DEF CreateTemporary
  <2>2. run' \in RunAt(inodes') /\ run'.pc = "created" /\ UNCHANGED <<run.on, run.ask, run.doing>>
    <3>1. inodes' \in 0..inodes' /\ "created" \in Pcs
      BY <1>0
    <3> QED
      BY <1>0, <2>1, <3>1 DEF RunAt
  <2> QED
    BY <1>0, <2>1, <2>2 DEF Shape, this
<1>8. CASE Acknowledge
  <2>1. CASE run' = [run EXCEPT !.pc = "recover", !.doing = "ack"]
    <3>1. run.pc = "ack"
      BY <1>8 DEF Acknowledge
    <3>2. run' \in RunAt(inodes') /\ run'.pc = "recover" /\ run'.doing = "ack" /\ UNCHANGED <<run.on, run.ask>>
      BY <1>0, <2>1 DEF RunAt
    <3> QED
      BY <1>0, <3>1, <3>2 DEF Shape, this
  <2> QED
    BY <1>2, <1>8, <2>1 DEF Acknowledge
<1>9. CASE \/ RecoverNothing \/ RecoverUnknown \/ RecoverFails \/ RecoverDiscard \/ RemoveTemporary \/ Recovered
  <2>1. run.pc \in Recovering
    BY <1>9 DEF RecoverNothing, RecoverUnknown, Settling, RecoverFails, RecoverDiscard, RemoveTemporary, Recovered
  <2>2. run.pc \notin {"idle", "startup"} /\ run.doing \in {"startup"} \cup Commands
    BY <1>0, <2>1 DEF Shape, RunAt
  <2>3. Refused => Shape'
    BY <1>0, <2>2, RefusedShape
  <2>4. ASSUME NEW pc \in Recovering, Goto(pc) PROVE Shape'
    BY <1>0, <2>2, <2>4, GotoShape
  <2>5. CASE RecoverNothing \/ RecoverUnknown \/ RecoverFails \/ RecoverDiscard \/ RemoveTemporary
    BY <2>3, <2>4, <2>5 DEF RecoverNothing, RecoverUnknown, RecoverFails, RecoverDiscard, RemoveTemporary
  <2>6. CASE Recovered
    <3>1. CASE run.doing = "startup"
      <4>1. Refused
        BY <2>6, <3>1 DEF Recovered, Refused
      <4> QED
        BY <2>3, <4>1
    <3>2. CASE run.doing # "startup"
      <4>1. run.doing \in {"prepare", "publish", "ack"}
        BY <2>2, <3>2
      <4>2. \/ run' = Idle
            \/ Goto("reserve") /\ run.doing \in {"prepare", "publish"}
            \/ Goto("record") \/ Goto("reply")
        BY <2>6, <3>2 DEF Recovered, End
      <4>3. Goto("reserve") /\ run.doing \in {"prepare", "publish"} => Shape'
        BY <1>0, <2>2, <4>1, GotoShape
      <4>4. Goto("record") \/ Goto("reply") => Shape'
        BY <1>0, <2>2, <4>1, GotoShape
      <4> QED
        BY <1>2, <4>2, <4>3, <4>4
    <3> QED
      BY <3>1, <3>2
  <2> QED
    BY <1>9, <2>5, <2>6
<1>10. CASE RecoverPublished \/ SyncRemoval \/ ResetReceipt \/ ReleaseCharge
  <2>1. run.pc \in Recovering /\ \E pc \in Recovering : Goto(pc)
    BY <1>10 DEF RecoverPublished, SyncRemoval, ResetReceipt, ReleaseCharge
  <2> QED
    BY <1>0, <2>1, GotoShape
<1>11. CASE Reserve \/ PersistPrepared
  <2>1. run.pc \in {"reserve", "prepared"} /\ run.doing \in {"prepare", "publish"}
    BY <1>0, <1>11 DEF Reserve, PersistPrepared, Shape
  <2>2. \/ run' = Idle \/ Goto("prepared")
        \/ Goto("fetch") /\ run.doing = "prepare"
        \/ Goto("create") /\ run.doing = "publish"
    BY <1>11, <2>1 DEF Reserve, PersistPrepared, End
  <2>3. Goto("prepared") \/ (Goto("fetch") /\ run.doing = "prepare") => Shape'
    BY <1>0, <2>1, GotoShape
  <2>4. Goto("create") /\ run.doing = "publish" => Shape'
    BY <1>0, <2>1, GotoShape
  <2> QED
    BY <1>2, <2>2, <2>3, <2>4
<1>12. CASE \/ PersistCreated \/ WriteBytes \/ PersistVerified \/ CheckTemporary \/ Rename \/ SyncDestination
            \/ VerifyDestination \/ PersistPublished
  <2>1. run.pc \in {"created", "write", "written", "check", "rename", "sync", "verify", "publish"}
    BY <1>12 DEF PersistCreated, WriteBytes, PersistVerified, CheckTemporary, Rename, SyncDestination,
       VerifyDestination, PersistPublished
  <2>2. run.doing = "publish"
    BY <1>0, <2>1 DEF Shape
  <2>3. run' = Idle \/ \E pc \in {"write", "written", "check", "rename", "sync", "verify", "publish", "free"} : Goto(pc)
    BY <1>12 DEF PersistCreated, WriteBytes, PersistVerified, CheckTemporary, Rename, SyncDestination,
       VerifyDestination, PersistPublished, End
  <2>4. ASSUME NEW pc \in {"write", "written", "check", "rename", "sync", "verify", "publish", "free"}, Goto(pc)
        PROVE Shape'
    BY <1>0, <2>1, <2>2, <2>4, GotoShape
  <2> QED
    BY <1>2, <2>3, <2>4
<1>13. CASE Reply
  <2>1. run.pc = "reply" /\ run.doing \in Commands
    BY <1>0, <1>13 DEF Reply, Shape
  <2>2. Goto("ack") => Shape'
    BY <1>0, <2>1, GotoShape
  <2> QED
    BY <1>2, <1>13, <2>2 DEF Reply, End
<1>14. CASE PersistAcknowledged \/ ReleaseDebt \/ Stop \/ LosePower
  BY <1>2, <1>14 DEF PersistAcknowledged, ReleaseDebt, Stop, LosePower, End
<1>15. CASE UNCHANGED vars \/ (\E s \in Handles : PurgeSave(s)) \/ (\E name \in Names : Touch(name))
  BY <1>1, <1>15 DEF vars, PurgeSave, Touch
<1> QED
  BY <1>3, <1>4, <1>5, <1>6, <1>7, <1>8, <1>9, <1>10, <1>11, <1>12, <1>13, <1>14, <1>15 DEF Next, Helper, Recover, Save

\* The point a helper is at determines its action.
LEMMA StepAt ==
  ASSUME Recover \/ Save
  PROVE  \/ run.pc \in Recovering \ {"recovered"} /\ run.doing = "startup" /\ RecoverFails
         \/ run.pc = "recover" /\ (RecoverNothing \/ RecoverPublished \/ RecoverUnknown \/ RecoverDiscard)
         \/ run.pc = "remove" /\ RemoveTemporary
         \/ run.pc = "removed" /\ SyncRemoval
         \/ run.pc = "reset" /\ ResetReceipt
         \/ run.pc = "free" /\ (ReleaseCharge \/ (RecoverUnknown /\ Refused))
         \/ run.pc = "recovered" /\ Recovered
         \/ run.pc = "reserve" /\ Reserve
         \/ run.pc = "prepared" /\ PersistPrepared
         \/ run.pc = "fetch" /\ Fetch
         \/ run.pc = "create" /\ CreateTemporary
         \/ run.pc = "created" /\ PersistCreated
         \/ run.pc = "write" /\ WriteBytes
         \/ run.pc = "written" /\ PersistVerified
         \/ run.pc = "check" /\ CheckTemporary
         \/ run.pc = "rename" /\ Rename
         \/ run.pc = "sync" /\ SyncDestination
         \/ run.pc = "verify" /\ VerifyDestination
         \/ run.pc = "publish" /\ PersistPublished
         \/ run.pc = "reply" /\ Reply
         \/ run.pc = "ack" /\ Acknowledge
         \/ run.pc = "record" /\ PersistAcknowledged
<1>1. RecoverUnknown => run.pc = "recover" \/ (run.pc = "free" /\ Refused)
  BY DEF RecoverUnknown, Settling
<1>2. RecoverFails => run.pc \in Recovering \ {"recovered"} /\ run.doing = "startup"
  BY DEF RecoverFails, Recovering
<1> QED
  BY <1>1, <1>2 DEF Recover, RecoverNothing, RecoverPublished, RecoverDiscard, RemoveTemporary, SyncRemoval,
     ResetReceipt, ReleaseCharge, Recovered, Save, Reserve, PersistPrepared, Fetch, CreateTemporary, PersistCreated,
     WriteBytes, PersistVerified, CheckTemporary, Rename, SyncDestination, VerifyDestination, PersistPublished,
     Reply, Acknowledge, PersistAcknowledged

-----------------------------------------------------------------------------
LEMMA GotoIs ==
  ASSUME SavesInv, NEW pc \in Pcs, Goto(pc)
  PROVE  run'.pc = pc /\ this' = this /\ run'.doing = run.doing /\ run'.fd = run.fd /\ held' = receipt'[this]
<1>1. run \in RunAt(inodes) /\ inodes \in Nat
  BY DEF SavesInv, Shape, Disk
<1>2. run'.pc = pc /\ UNCHANGED <<run.doing, run.on, run.fd>>
  BY <1>1, GoesOn DEF Goto
<1> QED
  BY <1>2 DEF this, held

LEMMA QuietNow ==
  ASSUME run'.pc \in {"idle", "startup", "recover", "release", "reply"}
  PROVE  Now'
BY DEF Now

\* Another program changes a name while the helper is between two of its steps.
LEMMA TouchedNow ==
  ASSUME SavesInv, NEW name \in Names, Touch(name)
  PROVE  Now'
<1>1. CASE run.pc \in {"idle", "startup"}
  BY <1>1, TouchIs, QuietNow
<1>2. CASE run.pc \notin {"idle", "startup"}
  <2>1. this \in Handles /\ Now /\ file \in stable /\ Temp(this) \in Names
    BY <1>2, AtReceipt, NamesAre DEF SavesInv, Disk
  <2>2. /\ UNCHANGED <<run, this, held, charge, torn>> /\ Recorded(this)' = Recorded(this)
        /\ touched' = touched \cup {name} /\ stable' = {file'}
        /\ \A n \in Names : n \in touched' \/ file'[n] = file[n]
    BY TouchIs DEF this, held, Recorded
  <2>3. Of(file', this) => Of(file, this) /\ file'[Temp(this)] = file[Temp(this)]
    BY <2>1, TouchIs, SavesAssumption DEF Of
  <2>4. Ghost(this)' => Ghost(this)
    BY <2>1, <2>2, <2>3 DEF Ghost
  <2>5. run.pc = "publish" => held.path \in Names
    BY <1>2, <2>1, RowIs DEF Now, held
  <2>6. run.pc = "remove" => (file[Temp(this)] # None \/ Temp(this) \in touched)'
    BY <2>1, <2>2 DEF Now
  <2>7. run.pc \in {"created", "write"} =>
          /\ (Of(file, this) => file[Temp(this)].id = run.fd)'
          /\ (Temp(this) \in touched \/ file[Temp(this)] = [id |-> run.fd, of |-> this, whole |-> FALSE])'
    BY <2>1, <2>2, <2>3 DEF Now
  <2>8. run.pc = "written" =>
          /\ (\A view \in stable : Of(view, this) => view[Temp(this)] = Whole(this, run.fd))'
          /\ (Temp(this) \in touched \/ Everywhere(Temp(this), Whole(this, run.fd)))'
    BY <2>1, <2>2, <2>3 DEF Now, Everywhere
  <2>9. run.pc = "publish" => (held.path \in touched \/ Everywhere(held.path, Recorded(this)))'
    BY <2>1, <2>2, <2>5 DEF Now, Everywhere
  <2>10. (run.pc \in {"reset", "free"} => (Ghost(this) => this \in torn))' /\ (run.pc \in {"verify", "publish"} => ~Ghost(this))'
    BY <2>1, <2>2, <2>4 DEF Now
  <2>11. (run.pc = "sync" => ~Of(file, this))'
    BY <2>1, <2>2, <2>3 DEF Now
  <2> QED
    BY <2>1, <2>2, <2>6, <2>7, <2>8, <2>9, <2>10, <2>11 DEF Now
<1> QED
  BY <1>1, <1>2

LEMMA RecoverNow ==
  ASSUME SavesInv, Recover
  PROVE  Now'
<1> USE DEF Pcs, Recovering, Saving, Serving, Commands
<1>0. /\ this \in Handles /\ held = receipt[this] /\ Now /\ file \in stable
      /\ held \in Receipt(inodes) /\ Row(held) /\ SaveOK(this) /\ run.doing # "none"
  <2>1. run.pc \in Recovering
    BY DEF Recover, RecoverNothing, RecoverPublished, RecoverUnknown, Settling, RecoverFails, RecoverDiscard,
       RemoveTemporary, SyncRemoval, ResetReceipt, ReleaseCharge, Recovered
  <2> QED
    BY <2>1, AtReceipt DEF SavesInv, Disk, held, Shape
<1>1. End => Now'
  BY IdleIs, QuietNow DEF End, Idle
<1>2. Refused => Now'
  BY <1>1, GotoIs, QuietNow DEF Refused
<1>3. CASE RecoverNothing
  <2>1. CASE Goto("recovered") /\ ~Conflict
    <3>1. run'.pc = "recovered" /\ held' = held /\ held.state = "none"
      BY <1>3, <2>1, GotoIs DEF RecoverNothing, held
    <3> QED
      BY <3>1 DEF Now
  <2> QED
    BY <1>2, <1>3, <2>1 DEF RecoverNothing
<1>4. CASE RecoverPublished
  <2>1. held.file # 0 /\ file[held.path] = Recorded(this) /\ Goto("free") /\ stable' = {file'} /\ file' = file
    BY <1>0, <1>4 DEF RecoverPublished, Verified, Holds, Recorded, Whole, Sync
  <2>2. ~Of(file', this)
    BY <1>0, <2>1, InOnePlace
  <2>3. run'.pc = "free" /\ this' = this
    BY <2>1, GotoIs
  <2>4. ~Ghost(this)'
    BY <2>1, <2>2, <2>3 DEF Ghost
  <2> QED
    BY <2>3, <2>4 DEF Now
<1>5. CASE RecoverUnknown \/ RecoverFails
  BY <1>2, <1>5 DEF RecoverUnknown, RecoverFails
<1>6. CASE RecoverDiscard
  <2>0. /\ UNCHANGED <<disk, receipt, torn>> /\ held.state \in {"prepared", "verified"}
        /\ held.file = 0 \/ file[Temp(this)] # None
    BY <1>0, <1>6 DEF RecoverDiscard, Unaccounted, Row, Receipt, States
  <2>1. CASE Goto("reset") /\ file[Temp(this)] = None
    <3>1. run'.pc = "reset" /\ this' = this /\ held' = held
      BY <2>0, <2>1, GotoIs DEF held
    <3>2. held.state = "prepared"
      BY <1>0, <2>0, <2>1 DEF Row
    <3>3. Ghost(this) => this \in torn
      BY <1>0, <2>1, <3>2 DEF SaveOK, Hidden, Gone, Of
    <3>4. (Ghost(this) => this \in torn)'
      BY <2>0, <3>1, <3>3 DEF Ghost, disk
    <3> QED
      BY <3>1, <3>2, <3>4 DEF Now
  <2>2. CASE Goto("remove") /\ file[Temp(this)] # None
    <3>1. run'.pc = "remove" /\ this' = this /\ held' = held /\ file' = file
      BY <2>0, <2>2, GotoIs DEF held, disk
    <3> QED
      BY <2>0, <2>2, <3>1 DEF Now
  <2> QED
    BY <1>2, <1>6, <2>1, <2>2 DEF RecoverDiscard
<1>7. CASE RemoveTemporary
  <2>1. CASE file[Temp(this)] # None
    <3>1. run'.pc = "removed" /\ this' = this /\ held' = held /\ torn' = torn \cup {this}
      BY <1>7, <2>1, GotoIs DEF RemoveTemporary, held
    <3> QED
      BY <1>0, <1>7, <3>1 DEF Now, RemoveTemporary
  <2> QED
    BY <1>2, <1>7, <2>1 DEF RemoveTemporary
<1>8. CASE SyncRemoval
  <2>1. run'.pc = "reset" /\ this' = this /\ held' = held /\ torn' = torn
    BY <1>8, GotoIs DEF SyncRemoval, held
  <2> QED
    BY <1>0, <1>8, <2>1 DEF Now, SyncRemoval
<1>9. CASE ResetReceipt
  <2>1. /\ run'.pc = "free" /\ this' = this /\ stable' = stable
        /\ torn' = {s \in torn : s # this \/ \E view \in stable : view[Temp(s)] # None}
    BY <1>9, GotoIs DEF ResetReceipt, disk
  <2>2. (Ghost(this) => this \in torn)'
    BY <1>0, <1>9, <2>1 DEF ResetReceipt, Now, Ghost, Of
  <2> QED
    BY <2>1, <2>2 DEF Now
<1>10. CASE ReleaseCharge
  <2>1. run'.pc = "recovered" /\ this' = this /\ this \notin charge'
    BY <1>10, GotoIs DEF ReleaseCharge
  <2> QED
    BY <2>1 DEF Now
<1>11. CASE Recovered
  <2>1. CASE Goto("reserve") /\ held.state \in {"none", "prepared"}
    <3>1. run'.pc = "reserve" /\ held' = held
      BY <1>11, <2>1, GotoIs DEF Recovered, held
    <3> QED
      BY <2>1, <3>1 DEF Now
  <2>2. CASE Goto("record") /\ held.state \in {"published", "acknowledged"}
    <3>1. run'.pc = "record" /\ held' = held
      BY <1>11, <2>2, GotoIs DEF Recovered, held
    <3> QED
      BY <2>2, <3>1 DEF Now
  <2>3. Goto("startup") \/ Goto("reply") => Now'
    BY GotoIs, QuietNow
  <2> QED
    BY <1>1, <1>11, <2>1, <2>2, <2>3 DEF Recovered
<1> QED
  BY <1>3, <1>4, <1>5, <1>6, <1>7, <1>8, <1>9, <1>10, <1>11 DEF Recover

LEMMA SaveNow ==
  ASSUME SavesInv, Save
  PROVE  Now'
<1> USE DEF Pcs, Recovering, Saving, Serving, Commands
<1>0. /\ this \in Handles /\ held = receipt[this] /\ Now /\ file \in stable /\ file \in [Names -> Inode(inodes) \cup {None}]
      /\ held \in Receipt(inodes) /\ Row(held) /\ SaveOK(this) /\ Temp(this) \in Names
      /\ receipt \in [Handles -> Receipt(inodes)] /\ inodes \in Nat
  <2>1. run.pc \in Saving \cup Serving
    BY DEF Save, Reserve, PersistPrepared, Fetch, CreateTemporary, PersistCreated, WriteBytes, PersistVerified,
       CheckTemporary, Rename, SyncDestination, VerifyDestination, PersistPublished, Reply, Acknowledge, PersistAcknowledged
  <2> QED
    BY <2>1, AtReceipt, NamesAre DEF SavesInv, Disk, Directory, held
<1>1. End => Now'
  BY IdleIs, QuietNow DEF End, Idle
<1>2. CASE Reserve
  <2>1. CASE Goto("prepared")
    <3>1. run'.pc = "prepared" /\ this' = this /\ held' = held
      BY <1>2, <2>1, GotoIs DEF Reserve, held
    <3>2. this \in charge'
      <4>1. run' # Idle
        BY <2>1, GotoIs, IdleIs DEF Idle
      <4> QED
        BY <1>2, <4>1 DEF Reserve, End
    <3> QED
      BY <1>0, <1>2, <3>1, <3>2 DEF Reserve, Now
  <2> QED
    BY <1>1, <1>2, <2>1 DEF Reserve
<1>3. CASE PersistPrepared
  <2>1. ASSUME NEW pc \in {"fetch", "create"}, Goto(pc), NEW row, Persist(row), row.state = "prepared" PROVE Now'
    <3>1. run'.pc = pc /\ this' = this /\ held' = row /\ charge' = charge
      BY <1>0, <1>3, <2>1, GotoIs, PutIs DEF PersistPrepared, Persist
    <3> QED
      BY <1>0, <1>3, <2>1, <3>1 DEF PersistPrepared, Now
  <2>2. held.state # "none" => held.state = "prepared"
    BY <1>0, <1>3 DEF PersistPrepared, Now
  <2>3. [NoReceipt EXCEPT !.state = "prepared", !.path = run.ask.path].state = "prepared"
    BY DEF NoReceipt
  <2> QED
    BY <1>1, <1>3, <2>1, <2>2, <2>3 DEF PersistPrepared
<1>4. CASE Fetch
  <2>1. run \in RunAt(inodes) /\ run' = [run EXCEPT !.pc = "recover", !.doing = "publish"]
    BY <1>4 DEF Fetch, SavesInv, Shape
  <2>2. run'.pc = "recover"
    BY <2>1 DEF RunAt
  <2> QED
    BY <2>2, QuietNow
<1>5. CASE CreateTemporary
  <2>1. run \in RunAt(inodes) /\ run' = [run EXCEPT !.pc = "created", !.fd = inodes']
    BY <1>5 DEF CreateTemporary, SavesInv, Shape
  <2>2. run'.pc = "created" /\ run'.fd = inodes' /\ this' = this /\ held' = held /\ charge' = charge /\ inodes' # 0
    BY <1>0, <1>5, <2>1 DEF RunAt, CreateTemporary, this, held
  <2>3. file'[Temp(this)] = [id |-> inodes', of |-> this, whole |-> FALSE]
    BY <1>0, <1>5 DEF CreateTemporary, Write
  <2>4. held.state = "prepared" /\ this \in charge
    BY <1>0, <1>5 DEF CreateTemporary, Now
  <2> QED
    BY <2>2, <2>3, <2>4 DEF Now
<1>6. CASE PersistCreated
  <2> DEFINE row == [held EXCEPT !.created = run.fd]
  <2>1. /\ run'.pc = "write" /\ this' = this /\ held' = row /\ charge' = charge /\ run'.fd = run.fd
        /\ file' = file /\ touched' = touched
    BY <1>0, <1>6, GotoIs, PutIs DEF PersistCreated, Persist, disk
  <2>2. row.state = held.state
    BY <1>0 DEF Receipt
  <2> HIDE DEF row
  <2> QED
    BY <1>0, <1>6, <2>1, <2>2 DEF PersistCreated, Now
<1>7. CASE WriteBytes
  <2>1. /\ run'.pc = "written" /\ this' = this /\ held' = held /\ charge' = charge /\ run'.fd = run.fd
        /\ stable' = {file'} /\ touched' = touched
    BY <1>0, <1>7, GotoIs DEF WriteBytes, held
  <2>2. /\ run.fd # 0 /\ held.state = "prepared" /\ this \in charge
        /\ Of(file, this) => file[Temp(this)].id = run.fd
        /\ Temp(this) \in touched \/ file[Temp(this)] = [id |-> run.fd, of |-> this, whole |-> FALSE]
    BY <1>0, <1>7 DEF WriteBytes, Now
  <2>3. CASE file[Temp(this)] # None /\ file[Temp(this)].id = run.fd
    <3>1. file'[Temp(this)] = Whole(this, run.fd)
      BY <1>0, <1>7, <2>3 DEF WriteBytes, Whole
    <3> QED
      BY <2>1, <2>2, <3>1 DEF Now, Everywhere
  <2>4. CASE ~(file[Temp(this)] # None /\ file[Temp(this)].id = run.fd)
    <3>1. file' = file
      BY <1>7, <2>4 DEF WriteBytes
    <3>2. ~Of(file, this)
      BY <2>2, <2>4 DEF Of
    <3>3. Temp(this) \in touched
      <4>1. SUFFICES ASSUME file[Temp(this)] = [id |-> run.fd, of |-> this, whole |-> FALSE] PROVE FALSE
        BY <2>2
      <4>2. file[Temp(this)].id = run.fd
        BY <4>1
      <4>3. file[Temp(this)] \in [id : Nat, of : Handles \cup {Other}, whole : BOOLEAN]
        BY <1>0, <4>1, AtReceipt, <1>7 DEF WriteBytes
      <4> QED
        BY <2>4, <4>2, <4>3, SavesAssumption
    <3> QED
      BY <2>1, <2>2, <3>1, <3>2, <3>3 DEF Now
  <2> QED
    BY <2>3, <2>4
<1>8. CASE PersistVerified
  <2> DEFINE row == [held EXCEPT !.file = run.fd, !.state = "verified"]
  <2>1. run'.pc = "check" /\ this' = this /\ held' = row /\ run'.fd = run.fd
    BY <1>0, <1>8, GotoIs, PutIs DEF PersistVerified, Persist
  <2>2. row.state = "verified" /\ row.file = run.fd
    BY <1>0 DEF Receipt
  <2> HIDE DEF row
  <2> QED
    BY <2>1, <2>2 DEF Now
<1>9. CASE CheckTemporary
  <2>1. CASE Goto("rename")
    <3>1. run'.pc = "rename" /\ this' = this /\ held' = held /\ run'.fd = run.fd
      BY <1>9, <2>1, GotoIs DEF CheckTemporary, held
    <3> QED
      BY <1>0, <1>9, <3>1 DEF CheckTemporary, Now
  <2> QED
    BY <1>1, <1>9, <2>1 DEF CheckTemporary
<1>10. CASE Rename
  <2>1. CASE file[Temp(this)] = None \/ file[held.path] # None
    BY <1>1, <1>10, <2>1 DEF Rename
  <2>2. CASE ~(file[Temp(this)] = None \/ file[held.path] # None)
    <3>1. run'.pc = "sync" /\ this' = this /\ held' = held /\ run'.fd = run.fd
      BY <1>10, <2>2, GotoIs DEF Rename, held
    <3>2. file'[Temp(this)] = None
      BY <1>0, <1>10, <2>2 DEF Rename
    <3> QED
      BY <1>0, <1>10, <3>1, <3>2 DEF Rename, Now, Of
  <2> QED
    BY <2>1, <2>2
<1>11. CASE SyncDestination
  <2>1. run'.pc = "verify" /\ this' = this /\ held' = held /\ run'.fd = run.fd /\ stable' = {file}
    BY <1>11, GotoIs DEF SyncDestination, held, Sync
  <2>2. ~Ghost(this)'
    BY <1>0, <1>11, <2>1 DEF SyncDestination, Now, Ghost
  <2> QED
    BY <1>0, <1>11, <2>1, <2>2 DEF SyncDestination, Now
<1>12. CASE VerifyDestination
  <2>1. CASE Holds(held.path, run.fd, this)
    <3>1. /\ run'.pc = "publish" /\ this' = this /\ held' = held /\ run'.fd = run.fd /\ stable' = {file}
          /\ receipt' = receipt
      BY <1>12, <2>1, GotoIs DEF VerifyDestination, held, Sync
    <3>2. held.state = "verified" /\ held.file = run.fd /\ ~Ghost(this)
      BY <1>0, <1>12 DEF VerifyDestination, Now
    <3>3. ~Ghost(this)'
      BY <1>0, <3>1, <3>2 DEF Ghost
    <3>4. Everywhere(held.path, Recorded(this))'
      BY <1>0, <2>1, <3>1, <3>2 DEF Everywhere, Recorded, Whole, Holds
    <3> QED
      BY <3>1, <3>2, <3>3, <3>4 DEF Now
  <2> QED
    BY <1>1, <1>12, <2>1 DEF VerifyDestination
<1>13. CASE PersistPublished
  <2>1. run'.pc = "free" /\ this' = this /\ stable' = stable
    BY <1>13, GotoIs DEF PersistPublished, disk
  <2>2. ~Ghost(this)'
    BY <1>0, <1>13, <2>1 DEF PersistPublished, Now, Ghost
  <2> QED
    BY <2>1, <2>2 DEF Now
<1>14. CASE Reply
  <2>1. CASE Goto("ack") /\ held.state = "published"
    <3>1. run'.pc = "ack" /\ held' = held
      BY <1>14, <2>1, GotoIs DEF Reply, held
    <3> QED
      BY <2>1, <3>1 DEF Now
  <2> QED
    BY <1>1, <1>14, <2>1 DEF Reply
<1>15. CASE Acknowledge
  <2>1. CASE run' = [run EXCEPT !.pc = "recover", !.doing = "ack"]
    <3>1. run \in RunAt(inodes)
      BY DEF SavesInv, Shape
    <3>2. run'.pc = "recover"
      BY <2>1, <3>1 DEF RunAt
    <3> QED
      BY <3>2, QuietNow
  <2> QED
    BY <1>1, <1>15, <2>1 DEF Acknowledge, End
<1>16. CASE PersistAcknowledged
  BY <1>1, <1>16 DEF PersistAcknowledged
<1> QED
  BY <1>2, <1>3, <1>4, <1>5, <1>6, <1>7, <1>8, <1>9, <1>10, <1>11, <1>12, <1>13, <1>14, <1>15, <1>16 DEF Save

LEMMA NowStep ==
  ASSUME SavesInv, [Next]_vars
  PROVE  Now'
<1>0. run \in RunAt(inodes) /\ Now
  BY DEF SavesInv, Shape
<1>1. ASSUME NEW ask \in Asks, StartHelper(ask) PROVE Now'
  <2>1. run'.pc = "startup"
    BY <1>1 DEF StartHelper, Idle
  <2> QED
    BY <2>1, QuietNow
<1>2. ASSUME NEW s \in Handles, RecoverNext(s) PROVE Now'
  <2>1. run'.pc = "recover"
    BY <1>0, <1>2 DEF RecoverNext, RunAt
  <2> QED
    BY <2>1, QuietNow
<1>3. ASSUME NEW s \in Handles, PurgeSave(s) PROVE Now'
  <2>1. run'.pc = "startup"
    BY <1>3 DEF PurgeSave
  <2> QED
    BY <2>1, QuietNow
<1>4. CASE Serve
  <2>1. CASE run' = Idle
    BY <2>1, IdleIs, QuietNow
  <2>2. CASE run' = [run EXCEPT !.pc = "recover", !.doing = "prepare", !.on = run.ask.handle]
    <3>1. run'.pc = "recover"
      BY <1>0, <2>2 DEF RunAt
    <3> QED
      BY <3>1, QuietNow
  <2>3. CASE run' = [run EXCEPT !.pc = "release", !.on = run.ask.handle]
    <3>1. run'.pc = "release"
      BY <1>0, <2>3 DEF RunAt
    <3> QED
      BY <3>1, QuietNow
  <2> QED
    BY <1>4, <2>1, <2>2, <2>3 DEF Serve, End
<1>5. CASE ReleaseDebt \/ Stop \/ LosePower
  <2>1. run'.pc = "idle"
    BY <1>5 DEF ReleaseDebt, Stop, LosePower, End, Idle
  <2> QED
    BY <2>1, QuietNow
<1>6. CASE UNCHANGED vars
  <2>1. UNCHANGED <<this, held, run.pc, run.fd, run.doing, file, charge, torn, touched>>
    BY <1>6 DEF vars, this, held
  <2>2. Ghost(this)' = Ghost(this) /\ Recorded(this)' = Recorded(this) /\ stable' = stable
    BY <1>6, <2>1 DEF vars, Ghost, Recorded
  <2> QED
    BY <1>0, <2>1, <2>2 DEF Now, Everywhere
<1> QED
  BY <1>1, <1>2, <1>3, <1>4, <1>5, <1>6, RecoverNow, SaveNow, TouchedNow DEF Next, Helper

-----------------------------------------------------------------------------
LEMMA CollectedStays ==
  ASSUME NEW s \in Handles, Collected(s), receipt'[s] = receipt[s], file'[Temp(s)] = file[Temp(s)],
         touched \subseteq touched', s \in erred => s \in erred'
  PROVE  Collected(s)'
BY DEF Collected

\* A repair leaves every other receipt, charge and temporary.
LEMMA RecoverOthers ==
  ASSUME SavesInv, Recover, NEW s \in Handles, s # this
  PROVE  receipt'[s] = receipt[s] /\ (s \in charge' => s \in charge) /\ file'[Temp(s)] = file[Temp(s)]
         /\ touched' = touched /\ (s \in erred => s \in erred')
<1>0. receipt \in [Handles -> Receipt(inodes)] /\ file \in [Names -> Inode(inodes) \cup {None}] /\ Temp(s) \in Names
  BY NamesAre DEF SavesInv, Disk, Directory, Journal
<1>1. CASE RemoveTemporary
  <2>1. this \in Handles
    BY <1>1, AtReceipt DEF RemoveTemporary
  <2>2. Temp(this) # Temp(s)
    BY <2>1, NamesAre
  <2> QED
    BY <1>0, <1>1, <2>2 DEF RemoveTemporary, Write
<1>2. CASE RecoverPublished \/ RecoverUnknown \/ ResetReceipt
  BY <1>0, <1>2 DEF RecoverPublished, RecoverUnknown, ResetReceipt, Persist, Sync, disk
<1> QED
  BY <1>1, <1>2 DEF Recover, RecoverNothing, RecoverFails, RecoverDiscard, SyncRemoval, ReleaseCharge, Recovered, Sync, disk

LEMMA RecoverCollecting ==
  ASSUME SavesInv, Recover
  PROVE  Collecting'
<1> USE DEF Pcs, Recovering, Saving, Serving, Commands
<1>0. /\ run.pc \in Recovering /\ Shape /\ run \in RunAt(inodes) /\ Collecting /\ Now /\ Shape' /\ inodes \in Nat
      /\ charge \subseteq Handles /\ charge' \subseteq Handles /\ this \in Handles /\ held = receipt[this]
  <2>1. run.pc \in Recovering
    BY DEF Recover, RecoverNothing, RecoverPublished, RecoverUnknown, Settling, RecoverFails, RecoverDiscard,
       RemoveTemporary, SyncRemoval, ResetReceipt, ReleaseCharge, Recovered
  <2> QED
    BY <2>1, ShapeStep, JournalStep, AtReceipt DEF SavesInv, Disk, Shape, Journal, Next, Helper, held
<1>1. CASE run'.doing # "startup"
  BY <1>1 DEF Collecting
<1>2. CASE run'.doing = "startup"
  <2>1. \E pc \in Pcs : Goto(pc)
    <3>1. Idle.doing = "none"
      BY <1>0, IdleIs
    <3>2. run' # Idle
      BY <1>2, <3>1
    <3>3. Refused => \E pc \in Pcs : Goto(pc)
      BY <3>2 DEF Refused, End
    <3> QED
      BY <3>2, <3>3 DEF Recover, RecoverNothing, RecoverPublished, RecoverUnknown, RecoverFails, RecoverDiscard,
         RemoveTemporary, SyncRemoval, ResetReceipt, ReleaseCharge, Recovered, End
  <2>2. PICK pc \in Pcs : Goto(pc)
    BY <2>1
  <2>3. run'.pc = pc /\ UNCHANGED <<run.doing, run.on, run.todo>>
    BY <1>0, <2>2, GoesOn DEF Goto
  <2>4. run.doing = "startup" /\ this' = this
    BY <1>2, <2>3 DEF this
  <2>5. ASSUME NEW s \in charge', s # this PROVE s \in run'.todo \/ Collected(s)'
    <3>1. s \in charge
      BY <1>0, <2>5, RecoverOthers
    <3>2. s \in run.todo \/ Collected(s)
      BY <1>0, <2>4, <2>5, <3>1 DEF Collecting
    <3> QED
      BY <1>0, <2>3, <2>5, <3>2, RecoverOthers, CollectedStays
  <2>6. this \notin charge' \/ run'.pc # "startup" \/ Collected(this)'
    <3>1. SUFFICES ASSUME run'.pc = "startup" PROVE this \notin charge' \/ Collected(this)'
      OBVIOUS
    <3>2. ~Conflict
      BY <2>4 DEF Conflict
    <3>3. CASE RecoverNothing \/ RecoverPublished \/ SyncRemoval \/ ResetReceipt \/ ReleaseCharge
      <4>1. Goto("recovered") \/ Goto("free") \/ Goto("reset")
        BY <3>2, <3>3 DEF RecoverNothing, RecoverPublished, SyncRemoval, ResetReceipt, ReleaseCharge
      <4> QED
        BY <3>1, <4>1, GotoIs
    <3>4. CASE RecoverUnknown
      <4>1. receipt'[this] = [held EXCEPT !.state = "publication_unknown"]
        BY <1>0, <3>4, PutIs DEF RecoverUnknown, Persist
      <4>2. receipt'[this].state = "publication_unknown"
        BY <1>0, <3>4, <4>1, AtReceipt DEF RecoverUnknown, Receipt
      <4> QED
        BY <2>4, <4>2 DEF Collected
    <3>5. CASE RecoverDiscard
      <4>1. CASE Goto("reset") \/ Goto("remove")
        BY <3>1, <4>1, GotoIs
      <4>2. CASE file[Temp(this)] # None /\ ~Ours
        <5>1. Directory(file, inodes) /\ Temp(this) \in Names
          BY <1>0, NamesAre DEF SavesInv, Disk
        <5>2. file[Temp(this)].id # held.created
          BY <1>0, <4>2, <5>1, InodesAre DEF Ours, Directory
        <5> QED
          BY <1>0, <2>4, <3>5, <4>2, <5>2 DEF RecoverDiscard, Collected, disk
      <4> QED
        BY <3>5, <4>1, <4>2 DEF RecoverDiscard
    <3>6. CASE RemoveTemporary
      <4>1. CASE file[Temp(this)] # None
        <5>1. Goto("removed")
          BY <3>6, <4>1 DEF RemoveTemporary
        <5> QED
          BY <3>1, <5>1, GotoIs
      <4>2. CASE file[Temp(this)] = None
        <5>1. Temp(this) \in touched
          BY <1>0, <3>6, <4>2 DEF RemoveTemporary, Now
        <5> QED
          BY <2>4, <3>6, <5>1 DEF RemoveTemporary, Collected
      <4> QED
        BY <4>1, <4>2
    <3>7. CASE RecoverFails
      BY <1>0, <2>4, <3>7 DEF RecoverFails, Collected
    <3>8. CASE Recovered
      BY <1>0, <2>4, <3>8 DEF Recovered, Now, Collected
    <3> QED
      BY <3>3, <3>4, <3>5, <3>6, <3>7, <3>8 DEF Recover
  <2> QED
    BY <1>0, <2>4, <2>5, <2>6 DEF Collecting
<1> QED
  BY <1>1, <1>2

LEMMA CollectingStep ==
  ASSUME SavesInv, [Next]_vars
  PROVE  Collecting'
<1> USE DEF Pcs, Recovering, Saving, Serving, Commands
<1>0. /\ Shape /\ run \in RunAt(inodes) /\ Collecting /\ inodes \in Nat /\ charge \subseteq Handles
      /\ file \in [Names -> Inode(inodes) \cup {None}] /\ receipt \in [Handles -> Receipt(inodes)]
  BY DEF SavesInv, Disk, Directory, Shape, Journal
<1>1. CASE run'.doing # "startup"
  BY <1>1 DEF Collecting
<1>2. ASSUME NEW ask \in Asks, StartHelper(ask) PROVE Collecting'
  <2>1. run'.todo = {s \in Handles : receipt[s].state # "none"}
    BY <1>2 DEF StartHelper, Idle
  <2> QED
    BY <1>0, <1>2, <2>1 DEF StartHelper, Collecting, Collected
<1>3. ASSUME NEW t \in Handles, RecoverNext(t) PROVE Collecting'
  <2>1. run' = [run EXCEPT !.pc = "recover", !.on = t, !.todo = @ \ {t}] /\ run.pc = "startup"
        /\ UNCHANGED <<disk, receipt, charge, erred>>
    BY <1>3 DEF RecoverNext
  <2>2. run'.pc = "recover" /\ run'.on = t /\ run'.todo = run.todo \ {t}
    BY <1>0, <2>1 DEF RunAt
  <2>3. \A s \in charge : s \in run.todo \/ Collected(s)
    BY <1>0, <2>1 DEF Collecting, Shape
  <2>4. \A s \in charge : Collected(s) => Collected(s)'
    BY <1>0, <2>1, CollectedStays DEF disk
  <2> QED
    BY <2>1, <2>2, <2>3, <2>4 DEF Collecting, this
<1>4. ASSUME NEW t \in Handles, PurgeSave(t) PROVE Collecting'
  <2>1. /\ UNCHANGED <<disk, charge, run, erred>> /\ run.pc = "startup" /\ receipt'[t] = NoReceipt
        /\ \A s \in Handles : s # t => receipt'[s] = receipt[s]
    BY <1>4, PutIs DEF PurgeSave
  <2>2. Collected(t)'
    BY <2>1 DEF Collected, NoReceipt
  <2>3. \A s \in charge : s # t => (Collected(s) => Collected(s)')
    BY <1>0, <2>1, CollectedStays DEF disk
  <2>4. \A s \in charge : s \in run.todo \/ Collected(s)
    BY <1>0, <2>1 DEF Collecting, Shape
  <2> QED
    BY <2>1, <2>2, <2>3, <2>4 DEF Collecting
<1>5. CASE Serve
  <2>1. run.pc = "startup" /\ run.todo = {} /\ UNCHANGED <<disk, receipt, charge, erred>>
    BY <1>5 DEF Serve
  <2>2. \A s \in charge : Collected(s)
    BY <1>0, <2>1 DEF Collecting, Shape
  <2>3. \A s \in charge : Collected(s)'
    BY <1>0, <2>1, <2>2, CollectedStays DEF disk
  <2> QED
    BY <2>1, <2>3 DEF Collecting
<1>6. CASE Recover
  BY <1>6, RecoverCollecting
<1>7. CASE Save
  <2>1. run.doing \in Commands
    BY <1>0, <1>7 DEF Shape, Save, Reserve, PersistPrepared, Fetch, CreateTemporary, PersistCreated, WriteBytes,
       PersistVerified, CheckTemporary, Rename, SyncDestination, VerifyDestination, PersistPublished, Reply,
       Acknowledge, PersistAcknowledged
  <2>2. \/ run' = Idle \/ \E pc \in Pcs : Goto(pc)
        \/ run' = [run EXCEPT !.pc = "recover", !.doing = "publish"]
        \/ run' = [run EXCEPT !.pc = "created", !.fd = inodes']
        \/ run' = [run EXCEPT !.pc = "recover", !.doing = "ack"]
    BY <1>7 DEF Save, Reserve, PersistPrepared, Fetch, CreateTemporary, PersistCreated, WriteBytes,
       PersistVerified, CheckTemporary, Rename, SyncDestination, VerifyDestination, PersistPublished, Reply,
       Acknowledge, PersistAcknowledged, End
  <2>3. CASE run' = Idle
    BY <1>0, <1>1, <2>3, IdleIs
  <2>4. CASE \E pc \in Pcs : Goto(pc)
    BY <1>1, <2>1, <2>4, GotoIs
  <2>5. CASE run' = [run EXCEPT !.pc = "recover", !.doing = "publish"]
    BY <1>0, <1>1, <2>5 DEF RunAt
  <2>6. CASE run' = [run EXCEPT !.pc = "created", !.fd = inodes']
    BY <1>0, <1>1, <2>1, <2>6 DEF RunAt
  <2>7. CASE run' = [run EXCEPT !.pc = "recover", !.doing = "ack"]
    BY <1>0, <1>1, <2>7 DEF RunAt
  <2> QED
    BY <2>2, <2>3, <2>4, <2>5, <2>6, <2>7
<1>8. CASE ReleaseDebt \/ Stop \/ LosePower
  <2>1. run'.doing = "none"
    BY <1>8 DEF ReleaseDebt, Stop, LosePower, End, Idle
  <2> QED
    BY <1>1, <2>1
<1>9. ASSUME NEW name \in Names, Touch(name) PROVE Collecting'
  <2>1. /\ UNCHANGED <<run, receipt, charge, erred>> /\ touched' = touched \cup {name}
        /\ \A n \in Names : n # name => file'[n] = file[n]
    BY <1>9, TouchIs
  <2>2. ASSUME NEW s \in Handles, Collected(s) PROVE Collected(s)'
    <3>1. CASE Temp(s) = name
      BY <2>1, <3>1 DEF Collected
    <3>2. CASE Temp(s) # name
      BY <2>1, <2>2, <3>2, CollectedStays, NamesAre
    <3> QED
      BY <3>1, <3>2
  <2> QED
    BY <1>0, <2>1, <2>2 DEF Collecting, this
<1>10. CASE UNCHANGED vars
  BY <1>0, <1>10 DEF vars, Collecting, Collected, this
<1> QED
  BY <1>2, <1>3, <1>4, <1>5, <1>6, <1>7, <1>8, <1>9, <1>10 DEF Next, Helper

-----------------------------------------------------------------------------
\* A helper that goes on with its command does not become one that may create again.
LEMMA CreatesOnce ==
  ASSUME SavesInv, Recover \/ Save, MayCreate'
  PROVE  MayCreate
<1> USE DEF Pcs, Recovering, Saving, Serving, Commands
<1>0. /\ run \in RunAt(inodes) /\ Shape /\ Now /\ inodes \in Nat /\ this \in Handles /\ held = receipt[this]
      /\ held \in Receipt(inodes)
  <2>1. run.pc \notin {"idle", "startup"}
    BY StepAt
  <2> QED
    BY <2>1, AtReceipt DEF SavesInv, held
<1>1. run' # Idle
  BY <1>0, IdleIs DEF MayCreate, Idle
<1>2. CASE run.doing \in {"startup", "prepare"}
  BY <1>2 DEF MayCreate
<1>3. CASE run.doing = "publish"
  <2>1. CASE run.pc \in {"recover", "remove", "removed", "reset", "reserve", "prepared", "create"}
    BY <1>3, <2>1 DEF MayCreate
  <2>2. CASE run.pc = "free"
    <3>1. ReleaseCharge
      BY <1>1, <1>3, <2>2, StepAt DEF Refused, End
    <3>2. run'.pc = "recovered" /\ run'.doing = "publish" /\ held' = held
      BY <1>3, <3>1, GotoIs DEF ReleaseCharge, held
    <3> QED
      BY <1>3, <2>2, <3>2 DEF MayCreate
  <2>3. CASE run.pc = "recovered"
    <3>1. Recovered
      BY <2>3, StepAt
    <3>2. CASE held.state \in {"none", "prepared"}
      BY <1>3, <2>3, <3>2 DEF MayCreate
    <3>3. CASE held.state \notin {"none", "prepared"}
      <4>1. Goto("reply")
        BY <1>3, <3>1, <3>3 DEF Recovered
      <4> QED
        BY <1>3, <4>1, GotoIs DEF MayCreate
    <3> QED
      BY <3>2, <3>3
  <2>4. CASE run.pc \in {"created", "write", "written", "check", "rename", "sync", "verify", "publish", "reply", "ack", "record"}
    <3>1. \/ PersistCreated \/ WriteBytes \/ PersistVerified \/ CheckTemporary \/ Rename \/ SyncDestination
          \/ VerifyDestination \/ PersistPublished \/ Reply \/ Acknowledge \/ PersistAcknowledged
      BY <2>4, StepAt
    <3>2. CASE PersistPublished
      <4>1. run'.pc = "free" /\ run'.doing = "publish" /\ held' = [held EXCEPT !.file = run.fd, !.state = "published"]
        BY <1>0, <1>3, <3>2, GotoIs, PutIs DEF PersistPublished, Persist
      <4>2. held'.state = "published"
        BY <1>0, <4>1 DEF Receipt
      <4> QED
        BY <4>1, <4>2 DEF MayCreate
    <3>3. CASE Acknowledge
      <4>1. run' = [run EXCEPT !.pc = "recover", !.doing = "ack"]
        BY <1>1, <3>3 DEF Acknowledge
      <4>2. run'.doing = "ack"
        BY <1>0, <4>1 DEF RunAt
      <4> QED
        BY <4>2 DEF MayCreate
    <3>4. CASE \/ PersistCreated \/ WriteBytes \/ PersistVerified \/ CheckTemporary \/ Rename \/ SyncDestination
               \/ VerifyDestination \/ Reply \/ PersistAcknowledged
      <4>1. \E pc \in {"write", "written", "check", "rename", "sync", "verify", "publish", "ack"} : Goto(pc)
        BY <1>1, <3>4 DEF PersistCreated, WriteBytes, PersistVerified, CheckTemporary, Rename, SyncDestination,
           VerifyDestination, Reply, PersistAcknowledged, End
      <4> QED
        BY <1>3, <4>1, GotoIs DEF MayCreate
    <3> QED
      BY <3>1, <3>2, <3>3, <3>4
  <2>5. run.pc # "fetch"
    BY <1>0, <1>3 DEF Shape
  <2> QED
    BY <2>1, <2>2, <2>3, <2>4, <2>5, StepAt
<1>4. CASE run.doing = "ack"
  <2>1. run.pc \in Recovering \cup Serving
    BY <1>0, <1>4, StepAt DEF Shape
  <2>2. \/ \E pc \in Pcs : Goto(pc)
        \/ run' = [run EXCEPT !.pc = "recover", !.doing = "ack"]
    BY <1>1, <1>4, <2>1 DEF Recover, RecoverNothing, RecoverPublished,
       RecoverUnknown, RecoverFails, RecoverDiscard,
       RemoveTemporary, SyncRemoval, ResetReceipt, ReleaseCharge, Recovered, Save, Reserve, PersistPrepared, Fetch, CreateTemporary, PersistCreated,
       WriteBytes, PersistVerified, CheckTemporary, Rename, SyncDestination, VerifyDestination, PersistPublished,
       Reply, Acknowledge, PersistAcknowledged, End, Refused
  <2>3. run'.doing = "ack"
    <3>1. CASE \E pc \in Pcs : Goto(pc)
      BY <1>4, <3>1, GotoIs
    <3>2. CASE run' = [run EXCEPT !.pc = "recover", !.doing = "ack"]
      BY <1>0, <3>2 DEF RunAt
    <3> QED
      BY <2>2, <3>1, <3>2
  <2> QED
    BY <2>3 DEF MayCreate
<1>5. run.doing \in {"startup", "prepare", "publish", "ack"}
  BY <1>0, StepAt DEF RunAt, Shape
<1> QED
  BY <1>2, <1>3, <1>4, <1>5

LEMMA NumberedStep ==
  ASSUME SavesInv, [Next]_vars
  PROVE  Numbered'
<1>0. /\ Shape /\ run \in RunAt(inodes) /\ Numbered /\ inodes \in Nat /\ helpers \in Nat /\ touches \in Nat
      /\ MaxHelpers \in Nat /\ MaxTouches \in Nat
  BY SavesAssumption DEF SavesInv, Disk, Shape, Numbered
<1>1. ASSUME UNCHANGED <<helpers, touches, inodes>>, MayCreate' => MayCreate PROVE Numbered'
  BY <1>0, <1>1 DEF Numbered
<1>2. ASSUME run' = Idle PROVE ~MayCreate'
  BY <1>2 DEF MayCreate, Idle
<1>3. CASE \E ask \in Asks : StartHelper(ask)
  <2>1. helpers < MaxHelpers /\ helpers' = helpers + 1 /\ touches' = touches /\ inodes' = inodes
    BY <1>3 DEF StartHelper, disk
  <2> QED
    BY <1>0, <2>1 DEF Numbered
<1>4. ASSUME NEW s \in Handles, RecoverNext(s) \/ PurgeSave(s) PROVE Numbered'
  <2>1. run.pc = "startup" /\ UNCHANGED <<helpers, touches, inodes>>
    BY <1>4 DEF RecoverNext, PurgeSave, disk, counters
  <2> QED
    BY <1>0, <1>1, <2>1 DEF Shape, MayCreate
<1>5. CASE Serve
  <2>1. run.pc = "startup" /\ UNCHANGED <<helpers, touches, inodes>>
    BY <1>5 DEF Serve, disk, counters
  <2> QED
    BY <1>0, <1>1, <2>1 DEF Shape, MayCreate
<1>6. CASE ReleaseDebt \/ Stop \/ LosePower
  <2>1. run' = Idle /\ UNCHANGED <<helpers, touches, inodes>>
    BY <1>6 DEF ReleaseDebt, Stop, LosePower, End, disk, counters
  <2> QED
    BY <1>1, <1>2, <2>1
<1>7. ASSUME NEW name \in Names, Touch(name) PROVE Numbered'
  <2>1. /\ inodes' = inodes + 1 /\ touches' = touches + 1 /\ helpers' = helpers /\ touches < MaxTouches
        /\ UNCHANGED <<run, receipt>>
    BY <1>7, TouchIs
  <2>2. MayCreate' => MayCreate
    BY <2>1 DEF MayCreate, held, this
  <2> QED
    BY <1>0, <2>1, <2>2 DEF Numbered
<1>8. CASE CreateTemporary
  <2>1. run' = [run EXCEPT !.pc = "created", !.fd = inodes'] /\ run.pc = "create"
        /\ inodes' = inodes + 1 /\ UNCHANGED <<helpers, touches>>
    BY <1>8 DEF CreateTemporary, counters
  <2>2. run.doing = "publish"
    BY <1>0, <2>1 DEF Shape, Saving
  <2>3. MayCreate
    BY <2>1, <2>2 DEF MayCreate
  <2>4. ~MayCreate'
    <3>1. run'.pc = "created" /\ run'.doing = "publish"
      BY <1>0, <2>1, <2>2 DEF RunAt
    <3> QED
      BY <3>1 DEF MayCreate
  <2> QED
    BY <1>0, <2>1, <2>3, <2>4 DEF Numbered
<1>9. CASE (Recover \/ Save) /\ ~CreateTemporary
  <2>1. UNCHANGED <<helpers, touches, inodes>>
    BY <1>9 DEF Recover, RecoverNothing, RecoverPublished, RecoverUnknown, RecoverFails, RecoverDiscard,
       RemoveTemporary, SyncRemoval, ResetReceipt, ReleaseCharge, Recovered, Save, Reserve, PersistPrepared, Fetch, PersistCreated,
       WriteBytes, PersistVerified, CheckTemporary, Rename, SyncDestination, VerifyDestination, PersistPublished,
       Reply, Acknowledge, PersistAcknowledged, disk, counters
  <2> QED
    BY <1>1, <1>9, <2>1, CreatesOnce
<1>10. CASE UNCHANGED vars
  <2>1. UNCHANGED <<helpers, touches, inodes, run, receipt>>
    BY <1>10 DEF vars
  <2>2. MayCreate' => MayCreate
    BY <2>1 DEF MayCreate, held, this
  <2> QED
    BY <1>1, <2>1, <2>2
<1> QED
  BY <1>3, <1>4, <1>5, <1>6, <1>7, <1>8, <1>9, <1>10 DEF Next, Helper

-----------------------------------------------------------------------------
LEMMA SavesInit ==
  ASSUME Init
  PROVE  SavesInv
<1>1. Disk
  BY SavesAssumption DEF Init, Disk, Directory, Inode
<1>2. Journal
  BY SavesAssumption DEF Init, Journal, NoReceipt, Receipt, States, Row
<1>3. \A s \in Handles : SaveOK(s)
  BY NamesAre DEF Init, NoReceipt, SaveOK, Charged, Same, Hidden, Gone, Kept, Safe, Stranded, Vouched, Ghost, Of
<1>4. Shape
  <2>1. Idle \in RunAt(0) /\ Idle.pc = "idle" /\ Idle.doing = "none"
    BY IdleIs
  <2> QED
    BY <2>1 DEF Init, Shape, Recovering, Saving, Serving, Commands
<1>5. Now /\ Collecting /\ Numbered
  BY IdleIs, SavesAssumption DEF Init, Now, Collecting, Numbered, MayCreate, Idle
<1> QED
  BY <1>1, <1>2, <1>3, <1>4, <1>5 DEF SavesInv

LEMMA SavesNext ==
  ASSUME SavesInv, [Next]_vars
  PROVE  SavesInv'
BY DiskStep, JournalStep, SavesStep, ShapeStep, NowStep, CollectingStep, NumberedStep DEF SavesInv

\* The invariant the results below rest on.
THEOREM SavesInvariant == Spec => []SavesInv
BY SavesInit, SavesNext, PTL DEF Spec

\* Every value is one the journal, the disk and the helper can hold.
THEOREM SavesIsTyped == Spec => []TypeOK
<1>1. SavesInv => TypeOK
  <2> SUFFICES ASSUME SavesInv PROVE TypeOK
    OBVIOUS
  <2>1. Disk /\ Journal /\ Numbered /\ inodes \in Nat /\ Directory(file, inodes)
    BY DEF SavesInv, Disk
  <2>2. 1..inodes \subseteq Inodes
    BY <2>1, SavesAssumption DEF Numbered, Inodes
  <2>3. \A n \in Names : file[n] = None \/ file[n] \in [id : Inodes, of : Handles \cup {Other}, whole : BOOLEAN]
    BY <2>1, <2>2 DEF Directory, Inode
  <2>4. \A s \in Handles : /\ receipt[s].state \in States
                           /\ receipt[s].path \in Paths \cup {None}
                           /\ receipt[s].created \in 0..inodes /\ receipt[s].file \in 0..inodes
    BY <2>1 DEF Journal, Receipt
  <2> QED
    BY <2>1, <2>3, <2>4 DEF TypeOK, Disk, Journal, States
<1> QED
  BY <1>1, SavesInvariant, PTL

\* What a receipt calls published, and what the authority was told is safe, is at its
\* destination, whole, in every directory a loss of power may leave.
THEOREM AcknowledgedSurvives == Spec => []AcknowledgedIsDurable
<1>1. SavesInv => AcknowledgedIsDurable
  <2> SUFFICES ASSUME SavesInv, NEW s \in Handles
               PROVE  /\ receipt[s].state \in {"published", "acknowledged"} =>
                           \/ receipt[s].path \in touched
                           \/ \A view \in stable : /\ view[receipt[s].path] # None
                                                   /\ view[receipt[s].path].of = s /\ view[receipt[s].path].whole
                      /\ s \in acked => \E p \in Paths :
                           \/ p \in touched
                           \/ \A view \in stable : view[p] # None /\ view[p].of = s /\ view[p].whole
    BY DEF AcknowledgedIsDurable
  <2>1. Recorded(s) # None /\ Recorded(s).of = s /\ Recorded(s).whole = TRUE
    BY RowIs DEF Recorded, Whole
  <2>3. ASSUME s \in acked
        PROVE  \E p \in Paths : p \in touched \/ \A view \in stable : view[p] # None /\ view[p].of = s /\ view[p].whole
    <3>1. PICK p \in Paths : Durable(s, p)
      BY <2>3, RowIs DEF SaveOK, Vouched
    <3>2. p \in touched \/ \A view \in stable : view[p] # None /\ view[p].of = s /\ view[p].whole
      BY <3>1 DEF Durable
    <3> QED
      BY <3>2
  <2>4. receipt[s].state \in {"published", "acknowledged"} =>
          \/ receipt[s].path \in touched
          \/ \A view \in stable : /\ view[receipt[s].path] # None
                                  /\ view[receipt[s].path].of = s /\ view[receipt[s].path].whole
    <3>1. CASE receipt[s].state \in {"published", "acknowledged"}
      <4>1. receipt[s].path \in touched \/ \A view \in stable : view[receipt[s].path] = Recorded(s)
        BY <3>1, RowIs DEF SaveOK, Safe, Everywhere
      <4> QED
        BY <2>1, <4>1
    <3> QED
      BY <3>1
  <2> QED
    BY <2>3, <2>4
<1> QED
  BY <1>1, SavesInvariant, PTL

\* The save budget is charged for what may be on the disk, two changes a loss of power undid
\* apart; and a helper that has repaired what earlier ones left keeps a charge only for what
\* it cannot account for, or where a call of its repair failed.
THEOREM BudgetStaysTrue == Spec => []BudgetIsTrue
<1>1. SavesInv => BudgetIsTrue
  <2> SUFFICES ASSUME SavesInv PROVE TemporaryIsCharged /\ StartupCollects
    BY DEF BudgetIsTrue
  <2>1. TemporaryIsCharged
    BY RowIs DEF TemporaryIsCharged, SaveOK, Charged, Gone, Ghost, Of, Disk
  <2>2. StartupCollects
    BY DEF StartupCollects, SavesInv, Shape, Collecting, Collected
  <2> QED
    BY <2>1, <2>2
<1> QED
  BY <1>1, SavesInvariant, PTL

\* No stop and no loss of power strands a save but a repair stopped before its record: it
\* takes that, another program's interference or a repair that met a call that failed.
THEOREM SavesAreNotStranded == Spec => []StopsStrandNoSave
<1>1. SavesInv => StopsStrandNoSave
  BY DEF StopsStrandNoSave, SavesInv, SaveOK, Stranded
<1> QED
  BY <1>1, SavesInvariant, PTL

\* A receipt that has reached a publication never becomes permission to publish again.
THEOREM PublicationStands == Spec => PublicationIsFinal
<1> DEFINE Established == {"published", "acknowledged", "publication_unknown"}
           Final == \A s \in Handles : receipt[s].state \in Established => receipt'[s].state \in Established \cup {"none"}
<1>1. ASSUME SavesInv, [Next]_vars PROVE Final
  <2> SUFFICES ASSUME NEW s \in Handles, receipt[s].state \in Established
               PROVE  receipt'[s].state \in Established \cup {"none"}
    OBVIOUS
  <2>1. Journal /\ Now /\ receipt[s] \in Receipt(inodes)
    BY <1>1, RowIs DEF SavesInv
  <2>2. CASE receipt'[s] = receipt[s]
    BY <2>2
  <2>3. CASE receipt'[s] # receipt[s]
    <3>1. CASE Own
      <4>1. s = this /\ held = receipt[s]
        BY <2>1, <2>3, <3>1 DEF Own, RecoverPublished, RecoverUnknown, RecoverFails, ResetReceipt, PersistPrepared, PersistCreated,
           PersistVerified, PersistPublished, PersistAcknowledged, ReleaseCharge, ReleaseDebt, Acknowledge,
           RemoveTemporary, CreateTemporary, WriteBytes, Rename, Persist, Journal, held
      <4>2. ~(ResetReceipt \/ PersistPrepared \/ PersistCreated \/ PersistVerified)
        BY <2>1, <4>1 DEF Now, ResetReceipt, PersistPrepared, PersistCreated, PersistVerified
      <4>3. CASE RecoverPublished
        BY <1>1, <2>1, <4>1, <4>3, PutIs DEF RecoverPublished, Persist, Receipt
      <4>4. CASE RecoverUnknown
        BY <1>1, <2>1, <4>1, <4>4, PutIs DEF RecoverUnknown, Persist, Receipt
      <4>5. CASE PersistPublished
        BY <1>1, <2>1, <4>1, <4>5, PutIs DEF PersistPublished, Persist, Receipt
      <4>6. CASE PersistAcknowledged
        BY <1>1, <2>1, <4>1, <4>6, PutIs DEF PersistAcknowledged, Persist, Receipt
      <4> QED
        BY <2>3, <3>1, <4>2, <4>3, <4>4, <4>5, <4>6 DEF Own, RecoverFails, ReleaseCharge, ReleaseDebt, Acknowledge,
           RemoveTemporary, CreateTemporary, WriteBytes, Rename
    <3>2. CASE \E t \in Handles : PurgeSave(t)
      <4>1. receipt'[s] = NoReceipt
        BY <1>1, <2>3, <3>2, PutIs DEF PurgeSave
      <4> QED
        BY <4>1 DEF NoReceipt
    <3> QED
      BY <1>1, <2>3, <3>1, <3>2 DEF Next, Helper, Recover, Save, Own, StartHelper, RecoverNext, Serve, RecoverNothing,
         RecoverDiscard, SyncRemoval, Recovered, Reserve, Fetch, CheckTemporary, SyncDestination, VerifyDestination,
         Reply, Stop, LosePower, Touch, vars
  <2> QED
    BY <2>2, <2>3
<1>2. SavesInv /\ [Next]_vars =>
        [\A s \in Handles : receipt[s].state \in {"published", "acknowledged", "publication_unknown"}
           => receipt'[s].state \in {"published", "acknowledged", "publication_unknown", "none"}]_vars
  BY <1>1
<1> QED
  BY <1>2, SavesInvariant, PTL DEF Spec, PublicationIsFinal
=============================================================================
