---------------------------- MODULE UploadsProofs ----------------------------
(***************************************************************************)
(* Proofs about Uploads, for every number of requests, writers,            *)
(* generations, edits of the policy and versions of the credential.        *)
(*                                                                         *)
(* UploadsInv is inductive for every step: who writes under which ticket,  *)
(* what of it can be in the bucket, and under which policy a writer was    *)
(* let through.  Unedited is kept, beside it, by every step that leaves    *)
(* the policy as it is: what was published then stays in the bucket.       *)
(***************************************************************************)
EXTENDS Uploads, TLAPS

-----------------------------------------------------------------------------
(* The inductive invariant.                                                 *)

\* Generations are issued in order, and are issued once.
Numbered == \A g \in Generations : gen[g] = "none" <=> g > active

\* Until a generation is admitted nothing was written under it.
Untouched ==
  \A g \in Generations : gen[g] \in {"none", "issued"} =>
    /\ ~stopped[g] /\ g \notin object \cup landing
    /\ \A w \in Writers : Writing(w) => job[w].gen # g

\* What is no longer charged is not in the bucket and cannot come there.
Released == \A g \in Generations : cleanup[g] = "released" => stopped[g] /\ g \notin object

\* What a writer has put, or may have put, by where it is and why it failed.
Late(w) == pc[w] \in {"caught", "failing", "abandoning", "cleaning"}

WriterBy(w) ==
  /\ pc[w] # "idle" => job[w].gen \in 1..active
  /\ pc[w] \in {"receiving", "putting"} => job[w].gen \notin object
  /\ Writing(w) /\ ~(Late(w) /\ job[w].cause = "rejected") => job[w].gen \notin landing
  /\ Late(w) => job[w].cause # "none"
  /\ Late(w) /\ job[w].cause \in {"integrity", "interrupted"} => job[w].gen \notin object
  /\ pc[w] = "cleaning" => job[w].cause # "rejected"

WritersOK == \A w \in Writers : WriterBy(w)

\* A generation that was published is the last.
Published == OnePublication /\ (handle # 0 => handle = active)

Written ==
  /\ Numbered /\ Untouched /\ Released /\ WritersOK /\ Published
  /\ OneWriterPerTicket /\ StoppedIsTrue

\* A writer that is about to be admitted was let through by the policy of its revision,
\* and the approval it saw is still under way as long as its ticket stands.
LetThrough(w) ==
  /\ pc[w] # "idle" => job[w].revision <= revision
  /\ (/\ pc[w] = "admitting" /\ job[w].revision = revision
      /\ transfer = "in_progress" /\ active = job[w].gen /\ gen[job[w].gen] = "issued")
       => level = "allow" \/ (level = "ask" /\ pend = "executing")

AllLetThrough == \A w \in Writers : LetThrough(w)

UploadsInv == TypeOK /\ Written /\ AllLetThrough

-----------------------------------------------------------------------------
(* While the owner leaves the policy alone, what was published stays.       *)

Refused == {"denied", "cancelled", "expired", "failed"}
Lively == {"uploading", "stored"}
Unfinished == {"none", "issued"} \cup Lively

Asked ==
  /\ level # "deny"
  /\ level = "allow" => pend = "none"
  /\ level = "ask" /\ transfer # "none" => pend # "none"
  /\ active # 0 => transfer # "none"

RequestBy(e) ==
  /\ pc[e] # "denying"
  /\ pc[e] \in {"read", "expiring", "deciding"} => transfer # "none"
  /\ pc[e] = "deciding" =>
       /\ seen[e].level = level
       /\ seen[e].pend # "none" => level = "ask"
       /\ seen[e].pend \in Refused => pend \in Refused

\* A writer knows of the approval, its bytes are in the bucket until it is done, and
\* once they are published it only looks whether they are.
CarriesOn(w) ==
  /\ level = "ask" /\ pc[w] # "idle" => job[w].asked
  /\ pc[w] \in {"put", "stored"} /\ gen[job[w].gen] \in Lively => job[w].gen \in object
  /\ Writing(w) /\ job[w].gen = handle => pc[w] = "caught"

\* An admitted transfer has its approval under way; a completed one has used it.
Approved ==
  /\ transfer = "in_progress" /\ active # 0 /\ gen[active] \in Lively
       => level = "allow" \/ pend = "executing"
  /\ handle # 0 => /\ transfer = "completed" /\ handle \in object
                   /\ stopped[handle] /\ cleanup[handle] = "published"
                   /\ level = "ask" => pend = "executed"
  /\ \A g \in Generations : gen[g] \in Unfinished => cleanup[g] = "reserved"

Unedited ==
  /\ Asked /\ Approved
  /\ \A e \in Requests : RequestBy(e)
  /\ \A w \in Writers : CarriesOn(w)

-----------------------------------------------------------------------------
(* Types.                                                                   *)

Views == [state : TransferStates, active : 0..MaxGen, asked : BOOLEAN, over : BOOLEAN,
          level : Levels, revision : 0..MaxRevision, pend : PendingStates]
Jobs == [gen : 0..MaxGen, asked : BOOLEAN, revision : 0..MaxRevision,
         credential : 0..MaxCredential, cause : Causes]

LEMMA UnreadIs == Unread \in Views
BY UploadsAssumption DEF Unread, Views, TransferStates, Levels, PendingStates

LEMMA NoJobIs == NoJob \in Jobs
BY UploadsAssumption DEF NoJob, Jobs, Causes

LEMMA JobFields ==
  ASSUME TypeOK, NEW w \in Writers
  PROVE  /\ job \in [Writers -> Jobs] /\ job[w] \in Jobs
         /\ job[w].gen \in 0..MaxGen /\ job[w].asked \in BOOLEAN /\ job[w].revision \in 0..MaxRevision
         /\ job[w].credential \in 0..MaxCredential /\ job[w].cause \in Causes
         /\ pc[w] \in RequestSteps \cup WriterSteps
BY DEF TypeOK, Jobs

LEMMA ViewFields ==
  ASSUME TypeOK, NEW e \in Requests
  PROVE  /\ seen \in [Requests -> Views] /\ seen[e] \in Views
         /\ seen[e].state \in TransferStates /\ seen[e].active \in 0..MaxGen /\ seen[e].asked \in BOOLEAN
         /\ seen[e].over \in BOOLEAN /\ seen[e].level \in Levels /\ seen[e].revision \in 0..MaxRevision
         /\ seen[e].pend \in PendingStates
BY DEF TypeOK, Views

\* One request, or one writer, goes on; the others stay where they are.
Apart(x) == \A y \in (Requests \cup Writers) \ {x} : pc'[y] = pc[y]

LEMMA GotoIs ==
  ASSUME TypeOK, NEW x \in Requests \cup Writers, NEW s \in RequestSteps \cup WriterSteps, Goto(x, s)
  PROVE  /\ pc' \in [Requests \cup Writers -> RequestSteps \cup WriterSteps]
         /\ pc'[x] = s /\ Apart(x)
BY DEF TypeOK, Goto, Apart

\* What a writer becomes: somewhere, with a job.
Becomes(w, s, new) ==
  /\ pc' \in [Requests \cup Writers -> RequestSteps \cup WriterSteps] /\ pc'[w] = s /\ Apart(w)
  /\ job' \in [Writers -> Jobs] /\ job'[w] = new
  /\ \A v \in Writers \ {w} : job'[v] = job[v]

LEMMA JobIs ==
  ASSUME TypeOK, NEW w \in Writers, NEW s \in RequestSteps \cup WriterSteps, NEW new \in Jobs,
         Goto(w, s), job' = [job EXCEPT ![w] = new]
  PROVE  Becomes(w, s, new)
BY GotoIs, JobFields DEF Becomes

LEMMA LeaveIs ==
  ASSUME TypeOK, NEW w \in Writers, Leave(w)
  PROVE  Becomes(w, "idle", NoJob)
BY NoJobIs, JobIs DEF Leave, RequestSteps

LEMMA SameJobIs ==
  ASSUME TypeOK, NEW w \in Writers, NEW s \in RequestSteps \cup WriterSteps, Goto(w, s), job' = job
  PROVE  Becomes(w, s, job[w])
BY GotoIs, JobFields DEF Becomes

Blamed(w, cause) == [job[w] EXCEPT !.cause = cause]

LEMMA FailIs ==
  ASSUME TypeOK, NEW w \in Writers, NEW cause \in Causes, Fail(w, cause)
  PROVE  /\ Becomes(w, "caught", Blamed(w, cause))
         /\ job'[w].gen = job[w].gen /\ job'[w].cause = cause /\ job'[w].asked = job[w].asked
         /\ job'[w].revision = job[w].revision
<1>1. job[w] \in Jobs
  BY JobFields
<1>2. /\ Blamed(w, cause) \in Jobs /\ Blamed(w, cause).gen = job[w].gen /\ Blamed(w, cause).cause = cause
      /\ Blamed(w, cause).asked = job[w].asked /\ Blamed(w, cause).revision = job[w].revision
  BY <1>1 DEF Blamed, Jobs
<1>3. job' = [job EXCEPT ![w] = Blamed(w, cause)] /\ Goto(w, "caught")
  BY DEF Fail, Blamed
<1>4. Becomes(w, "caught", Blamed(w, cause))
  BY <1>2, <1>3, JobIs DEF WriterSteps
<1> QED
  BY <1>2, <1>4 DEF Becomes

\* What a request becomes.
Sees(e, s, new) ==
  /\ pc' \in [Requests \cup Writers -> RequestSteps \cup WriterSteps] /\ pc'[e] = s /\ Apart(e)
  /\ seen' \in [Requests -> Views] /\ seen'[e] = new
  /\ \A d \in Requests \ {e} : seen'[d] = seen[d]

LEMMA ViewIs ==
  ASSUME TypeOK, NEW e \in Requests, NEW s \in RequestSteps \cup WriterSteps, NEW new \in Views,
         Goto(e, s), seen' = [seen EXCEPT ![e] = new]
  PROVE  Sees(e, s, new)
BY GotoIs, ViewFields DEF Sees

LEMMA FinishIs ==
  ASSUME TypeOK, NEW e \in Requests, Finish(e)
  PROVE  Sees(e, "idle", Unread)
BY UnreadIs, ViewIs DEF Finish, RequestSteps

LEMMA TypeInit ==
  ASSUME Init
  PROVE  TypeOK
<1>1. Unread \in Views
  BY UnreadIs
<1>2. NoJob \in Jobs
  BY NoJobIs
<1>3. seen \in [Requests -> Views] /\ job \in [Writers -> Jobs]
  BY <1>1, <1>2 DEF Init
<1>4. pc \in [Requests \cup Writers -> RequestSteps \cup WriterSteps]
  BY DEF Init, RequestSteps
<1>5. /\ gen \in [Generations -> GenStates] /\ cleanup \in [Generations -> Cleanups]
      /\ stopped \in [Generations -> BOOLEAN] /\ receipt \in [Requests -> 0..MaxGen]
  BY UploadsAssumption DEF Init, GenStates, Cleanups
<1>6. /\ transfer \in TransferStates /\ active \in 0..MaxGen /\ handle \in 0..MaxGen
      /\ op \in OpStates /\ pend \in PendingStates
      /\ level \in Levels /\ revision \in 0..MaxRevision /\ credential \in 1..MaxCredential
  BY UploadsAssumption DEF Init, TransferStates, OpStates, PendingStates, Levels
<1> QED
  BY <1>3, <1>4, <1>5, <1>6 DEF Init, TypeOK, Views, Jobs

\* A step only takes issued tickets back.
Closes ==
  \A g \in Generations :
    \/ gen'[g] = gen[g] /\ cleanup'[g] = cleanup[g] /\ stopped'[g] = stopped[g]
    \/ gen[g] = "issued" /\ gen'[g] \in {"failed", "expired"} /\ cleanup'[g] = "released" /\ stopped'[g]

TicketTypes ==
  /\ gen' \in [Generations -> GenStates] /\ cleanup' \in [Generations -> Cleanups]
  /\ stopped' \in [Generations -> BOOLEAN]

LEMMA WithdrawIs ==
  ASSUME TypeOK, NEW g \in Generations, NEW to \in {"expired", "failed"}, WithdrawIfIssued(g, to)
  PROVE  TicketTypes /\ Closes /\ gen'[g] # "issued"
BY DEF TypeOK, WithdrawIfIssued, Withdraw, TicketTypes, Closes, GenStates, Cleanups

LEMMA TerminateIs ==
  ASSUME TypeOK, NEW to \in {"denied", "failed"}, NEW knowsOp \in BOOLEAN, NEW knowsPending \in BOOLEAN,
         Terminate(to, knowsOp, knowsPending)
  PROVE  /\ TicketTypes /\ Closes /\ \A g \in Generations : gen'[g] # "issued"
         /\ transfer' \in {"completed", to} /\ (transfer' = "completed" <=> transfer = "completed")
         /\ op' \in OpStates /\ pend' \in PendingStates
         /\ UNCHANGED <<active, handle, receipt>>
BY DEF TypeOK, Terminate, TicketTypes, Closes, GenStates, Cleanups, OpStates, PendingStates

\* Nothing happens to the tickets.
LEMMA SameTickets ==
  ASSUME TypeOK, UNCHANGED <<gen, cleanup, stopped>>
  PROVE  TicketTypes /\ Closes
BY DEF TypeOK, TicketTypes, Closes

\* What a request may do, short of issuing a ticket.
RequestFrame(e) ==
  /\ TicketTypes /\ Closes
  /\ pc' \in [Requests \cup Writers -> RequestSteps \cup WriterSteps] /\ Apart(e)
  /\ seen' \in [Requests -> Views] /\ \A d \in Requests \ {e} : seen'[d] = seen[d]
  /\ transfer' \in TransferStates /\ op' \in OpStates /\ pend' \in PendingStates
  /\ transfer' = "in_progress" => transfer = "in_progress"
  /\ pend = "executing" => \/ pend' = "executing" \/ transfer' # "in_progress"
                           \/ \A g \in Generations : gen'[g] # "issued"
  /\ UNCHANGED <<active, handle, receipt, bucket, policy, account, clock, job>>

ShortRequest(e) ==
  \/ Create(e) \/ Read(e) \/ ExpireOnRead(e) \/ Consult(e) \/ DenyTransfer(e)
  \/ Suspend(e) \/ FailRefused(e) \/ RequestApproval(e) \/ EndRequest(e)

LEMMA RequestDoes ==
  ASSUME TypeOK, NEW e \in Requests, ShortRequest(e)
  PROVE  RequestFrame(e)
<1>0. transfer \in TransferStates /\ op \in OpStates /\ pend \in PendingStates /\ pc \in [Requests \cup Writers -> RequestSteps \cup WriterSteps]
  BY DEF TypeOK
<1>1. CASE Create(e)
  <2>1. TicketTypes /\ Closes /\ seen' = seen /\ pc' = pc
    BY <1>1, SameTickets DEF Create, tickets, locals
  <2> QED
    BY <1>0, <1>1, <2>1, ViewFields DEF Create, RequestFrame, TransferStates, PendingStates, Apart, tickets, locals
<1>2. CASE Read(e)
  <2>1. TicketTypes /\ Closes
    BY <1>2, SameTickets DEF Read, tickets
  <2>2. CASE Goto(e, "expiring") /\ UNCHANGED seen
    <3>1. pc' \in [Requests \cup Writers -> RequestSteps \cup WriterSteps] /\ Apart(e)
      BY <2>2, GotoIs DEF RequestSteps
    <3> QED
      BY <1>0, <1>2, <2>1, <2>2, <3>1, ViewFields DEF Read, RequestFrame, tickets, row
  <2>3. CASE ~(Goto(e, "expiring") /\ UNCHANGED seen)
    <3> DEFINE asks == (pend # "none")
    <3> DEFINE over == (active \in ticketOver)
    <3> DEFINE new == [Unread EXCEPT !.state = transfer, !.active = active, !.asked = asks, !.over = over]
    <3>1. active \in 0..MaxGen /\ asks \in BOOLEAN /\ over \in BOOLEAN
      BY DEF TypeOK
    <3>2. Goto(e, "read") /\ seen' = [seen EXCEPT ![e] = new]
      BY <1>2, <2>3 DEF Read
    <3> HIDE DEF asks, over
    <3>3. new \in Views
      BY <1>0, <3>1, UnreadIs DEF Views
    <3> HIDE DEF new
    <3>4. Sees(e, "read", new)
      BY <3>2, <3>3, ViewIs DEF RequestSteps
    <3> QED
      BY <1>0, <1>2, <2>1, <3>4 DEF Sees, Read, RequestFrame, tickets, row
  <2> QED
    BY <1>2, <2>2, <2>3 DEF Read
<1>3. CASE ExpireOnRead(e)
  <2>1. TicketTypes /\ Closes /\ Sees(e, "idle", Unread)
    BY <1>3, SameTickets, FinishIs DEF ExpireOnRead, tickets
  <2> QED
    BY <1>0, <1>3, <2>1 DEF Sees, ExpireOnRead, RequestFrame, TransferStates, Ended, tickets
<1>4. CASE Consult(e)
  <2>1. TicketTypes /\ Closes
    BY <1>4, SameTickets DEF Consult, tickets
  <2>2. CASE Goto(e, "denying") /\ UNCHANGED seen
    BY <1>0, <1>4, <2>1, <2>2, GotoIs, ViewFields DEF Consult, RequestFrame, RequestSteps, tickets, row
  <2>3. CASE ~(Goto(e, "denying") /\ UNCHANGED seen)
    <3> DEFINE new == [seen[e] EXCEPT !.level = level, !.revision = revision,
                         !.pend = IF seen[e].asked THEN pend ELSE "none"]
    <3>1. seen[e] \in Views /\ level \in Levels /\ revision \in 0..MaxRevision
          /\ (IF seen[e].asked THEN pend ELSE "none") \in PendingStates
      BY <1>0, ViewFields DEF TypeOK, PendingStates
    <3>2. new \in Views
      BY <3>1 DEF Views
    <3>3. Goto(e, "deciding") /\ seen' = [seen EXCEPT ![e] = new]
      BY <1>4, <2>3, ViewFields DEF Consult
    <3>4. Sees(e, "deciding", new)
      BY <3>2, <3>3, ViewIs DEF RequestSteps
    <3> QED
      BY <1>0, <1>4, <2>1, <3>4 DEF Sees, Consult, RequestFrame, tickets, row
  <2> QED
    BY <2>2, <2>3
<1>5. CASE DenyTransfer(e)
  <2>1. (seen[e].active # 0) \in BOOLEAN /\ seen[e].asked \in BOOLEAN
    BY ViewFields
  <2>2. /\ TicketTypes /\ Closes /\ (\A g \in Generations : gen'[g] # "issued")
        /\ transfer' \in {"completed", "denied"} /\ op' \in OpStates /\ pend' \in PendingStates
        /\ UNCHANGED <<active, handle, receipt>>
    BY <1>5, <2>1, TerminateIs DEF DenyTransfer
  <2>3. Sees(e, "idle", Unread)
    BY <1>5, FinishIs DEF DenyTransfer
  <2> QED
    BY <1>5, <2>2, <2>3 DEF Sees, DenyTransfer, RequestFrame, TransferStates, Ended
<1>6. CASE Suspend(e)
  <2>1. seen[e].active \in Generations
    BY <1>6, ViewFields DEF Suspend, HasTicket, Generations
  <2>2. TicketTypes /\ Closes
    BY <1>6, <2>1, WithdrawIs DEF Suspend
  <2>3. seen' \in [Requests -> Views] /\ \A d \in Requests \ {e} : seen'[d] = seen[d]
    BY <1>6, ViewFields DEF Suspend, Views, TransferStates
  <2> QED
    BY <1>0, <1>6, <2>2, <2>3 DEF Suspend, RequestFrame, TransferStates, Apart
<1>7. CASE FailRefused(e)
  <2>1. TicketTypes /\ Closes /\ Sees(e, "idle", Unread)
    BY <1>7, SameTickets, FinishIs DEF FailRefused, tickets
  <2> QED
    BY <1>0, <1>7, <2>1 DEF Sees, FailRefused, RequestFrame, TransferStates, Ended, StateAfter, tickets
<1>8. CASE RequestApproval(e)
  <2>1. TicketTypes /\ Closes /\ Sees(e, "idle", Unread)
    BY <1>8, SameTickets, FinishIs DEF RequestApproval, tickets
  <2> QED
    BY <1>0, <1>8, <2>1 DEF Sees, RequestApproval, RequestFrame, TransferStates, PendingStates, tickets
<1>9. CASE EndRequest(e)
  <2>1. TicketTypes /\ Closes /\ Sees(e, "idle", Unread)
    BY <1>9, SameTickets, FinishIs DEF EndRequest, tickets
  <2> QED
    BY <1>0, <1>9, <2>1 DEF Sees, EndRequest, RequestFrame, tickets, row
<1> QED
  BY <1>1, <1>2, <1>3, <1>4, <1>5, <1>6, <1>7, <1>8, <1>9 DEF ShortRequest

-----------------------------------------------------------------------------
(* Steps that put nothing into the bucket.                                  *)

\* What may become of a generation: nothing, a ticket taken back, a writer that goes on
\* or gives up, or a charge given back for a writer that stopped.
Moved == {"uploading", "stored", "abandoned", "failed"}

TicketBy(g) ==
  \/ /\ gen'[g] = gen[g] \/ {gen[g], gen'[g]} \subseteq Moved
     /\ cleanup'[g] = cleanup[g] /\ stopped'[g] = stopped[g]
  \/ gen[g] = "issued" /\ gen'[g] \in {"failed", "expired"} /\ cleanup'[g] = "released" /\ stopped'[g]
  \/ /\ {gen[g], gen'[g]} \subseteq Moved /\ cleanup'[g] = "debt"
     /\ stopped'[g] => /\ g \notin landing
                       /\ \A w \in Writers : job[w].gen = g => pc[w] \notin {"receiving", "putting"}
  \/ gen'[g] = gen[g] /\ cleanup'[g] = "released" /\ stopped[g] /\ stopped'[g] /\ g \notin object'

\* What may become of a writer: nothing, a place before admission or none, or a later place.
MovesOn(w) ==
  \/ pc'[w] = pc[w] /\ job'[w] = job[w]
  \/ ~Writing(w)' /\ (pc'[w] # "idle" => job'[w].gen \in 1..active)
  \/ /\ Writing(w) /\ job'[w].gen = job[w].gen /\ WriterBy(w)'
     /\ pc'[w] \in {"receiving", "putting"} => pc[w] \in {"receiving", "putting"}

Nothing == /\ object' \subseteq object /\ UNCHANGED <<landing, active, handle>>
           /\ \A g \in Generations : TicketBy(g)
           /\ \A w \in Writers : MovesOn(w)

LEMMA NothingKeeps ==
  ASSUME TypeOK, TypeOK', Written, Nothing
  PROVE  Written'
<1>1. \A g \in Generations : /\ gen'[g] = "none" <=> gen[g] = "none"
                             /\ gen'[g] = "issued" => gen[g] = "issued"
                             /\ gen'[g] = "completed" <=> gen[g] = "completed"
                             /\ gen'[g] \in {"none", "issued"} => stopped'[g] = stopped[g] \/ stopped[g]
  BY DEF Nothing, TicketBy, Moved
<1>2. \A w \in Writers : Writing(w)' => Writing(w) /\ job'[w].gen = job[w].gen
                                        /\ (pc'[w] \in {"receiving", "putting"} => pc[w] \in {"receiving", "putting"})
  BY DEF Nothing, MovesOn, Writing
<1>3. Numbered'
  BY <1>1 DEF Written, Numbered, Nothing
<1>4. Untouched'
  BY <1>1, <1>2 DEF Written, Untouched, Nothing
<1>5. Released'
  <2> SUFFICES ASSUME NEW g \in Generations, cleanup'[g] = "released"
               PROVE  stopped'[g] /\ g \notin object'
    BY DEF Released
  <2> QED
    BY DEF Written, Released, Untouched, Nothing, TicketBy
<1>6. WritersOK'
  <2> SUFFICES ASSUME NEW w \in Writers
               PROVE  WriterBy(w)'
    BY DEF WritersOK
  <2>1. CASE pc'[w] = pc[w] /\ job'[w] = job[w]
    BY <2>1 DEF Written, WritersOK, WriterBy, Writing, Late, Nothing
  <2>2. CASE ~Writing(w)' /\ (pc'[w] # "idle" => job'[w].gen \in 1..active)
    BY <2>2 DEF WriterBy, Writing, Late, Nothing
  <2> QED
    BY <2>1, <2>2 DEF Nothing, MovesOn
<1>7. Published'
  BY <1>1 DEF Written, Published, OnePublication, Nothing
<1>8. OneWriterPerTicket'
  BY <1>2 DEF Written, OneWriterPerTicket
<1>9. StoppedIsTrue'
  <2> SUFFICES ASSUME NEW g \in Generations, stopped'[g]
               PROVE  /\ g \notin landing'
                      /\ \A w \in Writers : job'[w].gen = g => pc'[w] \notin {"receiving", "putting"}
    BY DEF StoppedIsTrue
  <2>1. /\ g \notin landing
        /\ \A w \in Writers : job[w].gen = g => pc[w] \notin {"receiving", "putting"}
    BY DEF Written, StoppedIsTrue, Untouched, Nothing, TicketBy, Writing
  <2> QED
    BY <1>2, <2>1 DEF Writing, Nothing
<1> QED
  BY <1>3, <1>4, <1>5, <1>6, <1>7, <1>8, <1>9 DEF Written

\* No step but a ticket's opens a transfer, and an approval that is under way is used up
\* only with the transfer or with its ticket.
Orderly ==
  /\ revision <= revision' /\ (revision' = revision => level' = level)
  /\ active' \in {active, active + 1}
  /\ active' = active =>
       /\ transfer' = "in_progress" => transfer = "in_progress"
       /\ \A g \in Generations : gen'[g] = "issued" => gen[g] = "issued"
       /\ pend = "executing" => \/ pend' = "executing" \/ transfer' # "in_progress"
                                \/ \A g \in Generations : gen'[g] # "issued"

Lets(w) == \/ pc'[w] = pc[w] /\ job'[w] = job[w]
           \/ pc'[w] = "idle"
           \/ pc'[w] # "admitting" /\ job'[w].revision <= revision'
           \/ LetThrough(w)'

LEMMA OrderlyKeeps ==
  ASSUME TypeOK, TypeOK', Written, AllLetThrough, Orderly, \A w \in Writers : Lets(w)
  PROVE  AllLetThrough'
<1> SUFFICES ASSUME NEW w \in Writers
             PROVE  LetThrough(w)'
  BY DEF AllLetThrough
<1>0. /\ active \in Nat /\ active' \in Nat /\ revision \in Nat /\ revision' \in Nat
      /\ job[w].revision \in Nat /\ job[w].gen \in Nat
  BY UploadsAssumption, JobFields DEF TypeOK
<1>1. CASE pc'[w] = pc[w] /\ job'[w] = job[w]
  <2>1. pc[w] # "idle" => job[w].revision <= revision /\ job[w].gen \in 1..active
    BY DEF AllLetThrough, LetThrough, Written, WritersOK, WriterBy
  <2>2. pc[w] # "idle" => job[w].revision <= revision'
    BY <1>0, <2>1 DEF Orderly
  <2>3. ASSUME pc[w] = "admitting", job[w].revision = revision',
               transfer' = "in_progress", active' = job[w].gen, gen'[job[w].gen] = "issued"
        PROVE  level' = "allow" \/ (level' = "ask" /\ pend' = "executing")
    <3>1. active' = active /\ revision' = revision /\ level' = level
      BY <1>0, <2>1, <2>3 DEF Orderly
    <3>2. job[w].gen \in Generations
      BY <2>1, <2>3, <1>0, UploadsAssumption DEF Generations, TypeOK
    <3>3. level = "allow" \/ (level = "ask" /\ pend = "executing")
      BY <2>3, <3>1, <3>2 DEF Orderly, AllLetThrough, LetThrough
    <3> QED
      BY <2>3, <3>1, <3>2, <3>3 DEF Orderly
  <2> QED
    BY <1>1, <2>2, <2>3 DEF LetThrough
<1>2. CASE pc'[w] = "idle"
  BY <1>2 DEF LetThrough
<1>3. CASE pc'[w] # "admitting" /\ job'[w].revision <= revision'
  BY <1>3 DEF LetThrough
<1> QED
  BY <1>1, <1>2, <1>3 DEF Lets

LEMMA WriterIsNoRequest ==
  ASSUME NEW w \in Writers, NEW e \in Requests
  PROVE  w # e /\ w \in Requests \cup Writers /\ e \in Requests \cup Writers
BY UploadsAssumption

LEMMA ShortRequestKeeps ==
  ASSUME UploadsInv, NEW e \in Requests, ShortRequest(e)
  PROVE  UploadsInv'
<1>1. TypeOK /\ Written /\ AllLetThrough
  BY DEF UploadsInv
<1>2. RequestFrame(e)
  BY <1>1, RequestDoes
<1>3. TypeOK'
  BY <1>1, <1>2 DEF RequestFrame, TypeOK, TicketTypes, Views, bucket, policy, account, clock
<1>4. \A w \in Writers : pc'[w] = pc[w] /\ job'[w] = job[w]
  BY <1>2, WriterIsNoRequest DEF RequestFrame, Apart
<1>5. Nothing
  BY <1>2, <1>4 DEF Nothing, RequestFrame, TicketBy, MovesOn, Closes, bucket
<1>6. Orderly
  <2>1. revision' = revision /\ level' = level /\ active' = active /\ revision \in Nat
    BY <1>1, <1>2, UploadsAssumption DEF RequestFrame, policy, TypeOK
  <2>2. \A g \in Generations : gen'[g] = "issued" => gen[g] = "issued"
    BY <1>2 DEF RequestFrame, Closes
  <2> QED
    BY <1>2, <2>1, <2>2 DEF Orderly, RequestFrame
<1> QED
  BY <1>1, <1>3, <1>4, <1>5, <1>6, NothingKeeps, OrderlyKeeps DEF UploadsInv, Lets

\* A ticket opens the next generation, and closes the one before it.
LEMMA IssueTicketKeeps ==
  ASSUME UploadsInv, NEW e \in Requests, IssueTicket(e)
  PROVE  UploadsInv'
<1>1. TypeOK /\ Written /\ AllLetThrough
  BY DEF UploadsInv
<1> DEFINE next == active + 1
<1>2. /\ seen[e].active = active /\ active \in 0..MaxGen /\ active < MaxGen /\ MaxGen \in Nat
      /\ next \in Generations /\ active' = next
      /\ transfer' = "in_progress"
      /\ pend' \in {pend, "executing"} /\ op' \in {op, "claimed"}
      /\ UNCHANGED <<handle, bucket, policy, account, job>>
  BY <1>1, UploadsAssumption DEF TypeOK, IssueTicket, CanIssue, Generations
<1>3. \A g \in Generations :
        /\ gen'[g] = IF g = next THEN "issued" ELSE IF g = active /\ gen[g] = "issued" THEN "expired" ELSE gen[g]
        /\ cleanup'[g] = IF g = active /\ gen[g] = "issued" THEN "released" ELSE cleanup[g]
        /\ stopped'[g] = (stopped[g] \/ (g = active /\ gen[g] = "issued"))
  BY <1>2 DEF IssueTicket
<1>4. TicketTypes /\ receipt' \in [Requests -> 0..MaxGen]
  <2>1. gen' \in [Generations -> GenStates]
    BY <1>1 DEF IssueTicket, TypeOK, GenStates
  <2>2. cleanup' \in [Generations -> Cleanups] /\ stopped' \in [Generations -> BOOLEAN]
    BY <1>1 DEF IssueTicket, TypeOK, Cleanups
  <2>3. receipt' \in [Requests -> 0..MaxGen]
    <3>1. receipt' = [receipt EXCEPT ![e] = IF ExpectedOf[e] = 0 THEN 0 ELSE next]
      BY <1>2 DEF IssueTicket
    <3>2. next \in 0..MaxGen /\ 0 \in 0..MaxGen
      BY <1>2 DEF Generations
    <3> QED
      BY <1>1, <3>1, <3>2 DEF TypeOK
  <2> QED
    BY <2>1, <2>2, <2>3 DEF TicketTypes
<1>5. Sees(e, "idle", Unread)
  BY <1>1, FinishIs DEF IssueTicket
<1>6. \A w \in Writers : pc'[w] = pc[w] /\ job'[w] = job[w]
  BY <1>2, <1>5, WriterIsNoRequest DEF Sees, Apart
<1>7. TypeOK'
  <2>1. ticketOver' \subseteq Generations /\ ended' = ended /\ leaseOver' = leaseOver
    BY <1>1, <1>2 DEF IssueTicket, TypeOK
  <2>2. transfer' \in TransferStates /\ op' \in OpStates /\ pend' \in PendingStates /\ active' \in 0..MaxGen
    BY <1>1, <1>2 DEF TypeOK, TransferStates, OpStates, PendingStates
  <2> QED
    BY <1>1, <1>2, <1>4, <1>5, <2>1, <2>2 DEF Sees, TypeOK, TicketTypes, Views, bucket, policy, account
<1>8. Written'
  <2>1. gen[next] = "none"
    BY <1>1, <1>2 DEF Written, Numbered
  <2>2. active # 0 => gen[active] # "none" /\ active \in Generations
    BY <1>1, <1>2 DEF Written, Numbered, Generations
  <2>3. handle = 0 /\ \A g \in Generations : gen[g] # "completed"
    <3>1. handle # 0 => handle = active /\ gen[active] = "completed" /\ active \in Generations
      BY <1>1, <1>2, <2>2 DEF Written, Published, OnePublication
    <3>2. active # 0 => gen[active] # "completed"
      BY <1>2 DEF IssueTicket, CanIssue, Superseded
    <3> QED
      BY <1>1, <3>1, <3>2 DEF Written, Published, OnePublication, Generations
  <2>4. Numbered'
    BY <1>1, <1>2, <1>3, <2>1, <2>2 DEF Written, Numbered, Generations
  <2>5. Untouched'
    BY <1>1, <1>2, <1>3, <1>6, <2>1 DEF Written, Untouched, Writing, bucket
  <2>6. Released'
    BY <1>1, <1>2, <1>3, <1>6 DEF Written, Released, Untouched, bucket
  <2>7. WritersOK'
    BY <1>1, <1>2, <1>6 DEF Written, WritersOK, WriterBy, Writing, Late, bucket
  <2>8. Published'
    BY <1>2, <1>3, <2>3 DEF Published, OnePublication, Generations
  <2>9. OneWriterPerTicket'
    BY <1>1, <1>6 DEF Written, OneWriterPerTicket, Writing
  <2>10. StoppedIsTrue'
    <3> SUFFICES ASSUME NEW g \in Generations, stopped'[g]
                 PROVE  /\ g \notin landing'
                        /\ \A w \in Writers : job'[w].gen = g => pc'[w] \notin {"receiving", "putting"}
      BY DEF StoppedIsTrue
    <3>1. stopped[g] \/ gen[g] = "issued"
      BY <1>3
    <3>2. /\ g \notin landing
          /\ \A w \in Writers : job[w].gen = g => pc[w] \notin {"receiving", "putting"}
      BY <1>1, <3>1 DEF Written, StoppedIsTrue, Untouched, Writing
    <3> QED
      BY <1>2, <1>6, <3>2 DEF bucket
  <2> QED
    BY <2>4, <2>5, <2>6, <2>7, <2>8, <2>9, <2>10 DEF Written
<1>9. Orderly
  BY <1>1, <1>2, UploadsAssumption DEF Orderly, policy, TypeOK
<1> QED
  BY <1>1, <1>6, <1>7, <1>8, <1>9, OrderlyKeeps DEF UploadsInv, Lets

-----------------------------------------------------------------------------
(* The steps of a writer.                                                   *)

\* The other writers are where they were.
LEMMA OthersStay ==
  ASSUME NEW w \in Writers, NEW s, NEW new, Becomes(w, s, new)
  PROVE  /\ pc'[w] = s /\ job'[w] = new
         /\ \A v \in Writers \ {w} : pc'[v] = pc[v] /\ job'[v] = job[v]
         /\ pc' \in [Requests \cup Writers -> RequestSteps \cup WriterSteps] /\ job' \in [Writers -> Jobs]
BY DEF Becomes, Apart

\* A step of a writer that changes only where it is and what it holds.
Alone == UNCHANGED <<row, tickets, bucket, policy, account, clock, seen>>

LEMMA AloneKeeps ==
  ASSUME UploadsInv, NEW w \in Writers, NEW s, NEW new, Becomes(w, s, new), Alone, MovesOn(w), Lets(w)
  PROVE  UploadsInv'
<1>1. TypeOK /\ Written /\ AllLetThrough
  BY DEF UploadsInv
<1>2. TypeOK'
  BY <1>1 DEF TypeOK, Becomes, Jobs, Alone, row, tickets, bucket, policy, account, clock
<1>3. Nothing
  BY OthersStay DEF Nothing, Alone, TicketBy, MovesOn, row, tickets, bucket
<1>4. Orderly
  BY <1>1, UploadsAssumption DEF Orderly, Alone, row, tickets, policy, TypeOK
<1>5. \A v \in Writers : Lets(v)
  BY OthersStay DEF Lets
<1> QED
  BY <1>1, <1>2, <1>3, <1>4, <1>5, NothingKeeps, OrderlyKeeps DEF UploadsInv

LEMMA WriterFacts ==
  ASSUME UploadsInv, NEW w \in Writers
  PROVE  /\ TypeOK /\ Written /\ AllLetThrough /\ WriterBy(w) /\ LetThrough(w)
         /\ active \in 0..MaxGen /\ MaxGen \in Nat /\ revision \in Nat /\ pc[w] \in RequestSteps \cup WriterSteps
         /\ pc[w] # "idle" => job[w].gen \in Generations /\ job[w].revision <= revision
<1>1. TypeOK /\ Written /\ AllLetThrough
  BY DEF UploadsInv
<1>2. WriterBy(w) /\ LetThrough(w)
  BY <1>1 DEF Written, WritersOK, AllLetThrough
<1>3. active \in 0..MaxGen /\ MaxGen \in Nat /\ revision \in Nat /\ pc[w] \in RequestSteps \cup WriterSteps
  BY <1>1, UploadsAssumption, JobFields DEF TypeOK
<1>4. pc[w] # "idle" => job[w].gen \in Generations /\ job[w].revision <= revision
  BY <1>2, <1>3 DEF WriterBy, LetThrough, Generations
<1> QED
  BY <1>1, <1>2, <1>3, <1>4

LEMMA PresentKeeps ==
  ASSUME UploadsInv, NEW w \in Writers, NEW g \in Generations, Present(w, g)
  PROVE  UploadsInv'
<1>1. TypeOK /\ active \in 0..MaxGen /\ MaxGen \in Nat /\ revision \in Nat
  BY WriterFacts
<1> DEFINE asks == (pend # "none")
<1> DEFINE new == [NoJob EXCEPT !.gen = g, !.asked = asks]
<1>2. asks \in BOOLEAN /\ Goto(w, "presented") /\ job' = [job EXCEPT ![w] = new] /\ active = g /\ Alone
  BY DEF Present, Alone
<1> HIDE DEF asks
<1>3. new \in Jobs /\ new.gen = g /\ new.revision = 0
  BY <1>1, <1>2, NoJobIs DEF Jobs, NoJob, Generations
<1> HIDE DEF new
<1>4. Becomes(w, "presented", new)
  BY <1>1, <1>2, <1>3, JobIs DEF WriterSteps
<1>5. MovesOn(w) /\ Lets(w)
  BY <1>1, <1>2, <1>3, <1>4, OthersStay DEF MovesOn, Lets, Writing, Generations, Alone, policy
<1> QED
  BY <1>2, <1>4, <1>5, AloneKeeps

LEMMA WriterConsultKeeps ==
  ASSUME UploadsInv, NEW w \in Writers, WriterConsult(w)
  PROVE  UploadsInv'
<1>0. TypeOK /\ WriterBy(w) /\ revision \in Nat
  BY WriterFacts
<1>1. TypeOK /\ WriterBy(w) /\ revision \in 0..MaxRevision /\ revision \in Nat /\ credential \in 0..MaxCredential
  BY <1>0, UploadsAssumption DEF TypeOK
<1> DEFINE to == IF level = "deny" THEN "denying"
             ELSE IF level = "ask" /\ ~(job[w].asked /\ pend = "executing") THEN "suspending"
             ELSE IF ~connected THEN "refusing"
             ELSE "admitting"
<1> DEFINE new == [job[w] EXCEPT !.revision = revision, !.credential = credential]
<1>2. to \in {"denying", "suspending", "refusing", "admitting"}
      /\ (to = "admitting" => level = "allow" \/ (level = "ask" /\ pend = "executing"))
  BY <1>1 DEF TypeOK, Levels
<1>3. Goto(w, to) /\ job' = [job EXCEPT ![w] = new] /\ pc[w] = "presented" /\ Alone
  BY DEF WriterConsult, Alone, At
<1> HIDE DEF to
<1>4. new \in Jobs /\ new.gen = job[w].gen /\ new.revision = revision
  BY <1>1, JobFields DEF Jobs
<1> HIDE DEF new
<1>5. Becomes(w, to, new)
  BY <1>1, <1>2, <1>3, <1>4, JobIs DEF WriterSteps
<1>6. pc'[w] = to /\ job'[w].gen = job[w].gen /\ job'[w].revision = revision /\ revision' = revision
      /\ level' = level /\ pend' = pend
  BY <1>3, <1>4, <1>5, OthersStay DEF Alone, policy, row
<1>7. MovesOn(w)
  BY <1>1, <1>2, <1>3, <1>6 DEF MovesOn, Writing, WriterBy
<1>8. Lets(w)
  BY <1>1, <1>2, <1>6 DEF Lets, LetThrough
<1> QED
  BY <1>3, <1>5, <1>7, <1>8, AloneKeeps

LEMMA ReceiveKeeps ==
  ASSUME UploadsInv, NEW w \in Writers, Receive(w)
  PROVE  UploadsInv'
<1>1. TypeOK /\ WriterBy(w) /\ pc[w] = "receiving" /\ Alone /\ job[w].revision <= revision /\ revision' = revision
      /\ active' = active /\ object' = object /\ landing' = landing
  BY WriterFacts DEF Receive, Alone, At, policy, row, bucket
<1>2. ASSUME NEW cause \in {"integrity", "interrupted"}, Fail(w, cause)
      PROVE  UploadsInv'
  <2>1. Becomes(w, "caught", Blamed(w, cause)) /\ job'[w].gen = job[w].gen /\ job'[w].cause = cause
        /\ job'[w].revision = job[w].revision
    BY <1>1, <1>2, FailIs DEF Causes
  <2>2. pc'[w] = "caught"
    BY <2>1 DEF Becomes
  <2>3. MovesOn(w)
    BY <1>1, <2>1, <2>2 DEF MovesOn, Writing, WriterBy, Late
  <2>4. Lets(w)
    BY <1>1, <2>1, <2>2 DEF Lets
  <2> QED
    BY <1>1, <2>1, <2>3, <2>4, AloneKeeps
<1>3. CASE Goto(w, "putting") /\ UNCHANGED job
  <2>1. Becomes(w, "putting", job[w])
    BY <1>1, <1>3, SameJobIs DEF WriterSteps
  <2>2. pc'[w] = "putting" /\ job'[w] = job[w]
    BY <2>1 DEF Becomes
  <2>3. MovesOn(w)
    BY <1>1, <2>2 DEF MovesOn, Writing, WriterBy, Late
  <2>4. Lets(w)
    BY <1>1, <2>2 DEF Lets
  <2> QED
    BY <1>1, <2>1, <2>3, <2>4, AloneKeeps
<1> QED
  BY <1>2, <1>3 DEF Receive

LEMMA PublishFailsKeeps ==
  ASSUME UploadsInv, NEW w \in Writers, PublishFails(w)
  PROVE  UploadsInv'
<1>1. TypeOK /\ WriterBy(w) /\ pc[w] = "stored" /\ Alone /\ job[w].revision <= revision /\ revision' = revision
      /\ active' = active /\ object' = object /\ landing' = landing
  BY WriterFacts DEF PublishFails, Alone, At, policy, row, bucket
<1>2. Becomes(w, "caught", Blamed(w, "refused")) /\ job'[w].gen = job[w].gen /\ job'[w].cause = "refused"
      /\ job'[w].revision = job[w].revision
  BY <1>1, FailIs DEF Causes, PublishFails
<1>3. pc'[w] = "caught"
  BY <1>2 DEF Becomes
<1>4. MovesOn(w)
  BY <1>1, <1>2, <1>3 DEF MovesOn, Writing, WriterBy, Late
<1>5. Lets(w)
  BY <1>1, <1>2, <1>3 DEF Lets
<1> QED
  BY <1>1, <1>2, <1>4, <1>5, AloneKeeps

LEMMA GoesIdle ==
  ASSUME NEW w \in Writers, Becomes(w, "idle", NoJob)
  PROVE  MovesOn(w) /\ Lets(w)
BY OthersStay DEF MovesOn, Lets, Writing

LEMMA CatchKeeps ==
  ASSUME UploadsInv, NEW w \in Writers, Catch(w)
  PROVE  UploadsInv'
<1>1. TypeOK /\ WriterBy(w) /\ pc[w] = "caught" /\ Alone /\ job[w].revision <= revision /\ revision' = revision
      /\ active' = active /\ object' = object /\ landing' = landing
  BY WriterFacts DEF Catch, Alone, At, policy, row, bucket
<1>2. CASE Leave(w)
  BY <1>1, <1>2, LeaveIs, GoesIdle, AloneKeeps
<1>3. ASSUME NEW to \in {"abandoning", "failing"}, Goto(w, to), UNCHANGED job
      PROVE  UploadsInv'
  <2>1. Becomes(w, to, job[w])
    BY <1>1, <1>3, SameJobIs DEF WriterSteps
  <2>2. pc'[w] = to /\ job'[w] = job[w]
    BY <2>1 DEF Becomes
  <2>3. MovesOn(w)
    BY <1>1, <1>3, <2>2 DEF MovesOn, Writing, WriterBy, Late
  <2>4. Lets(w)
    BY <1>1, <1>3, <2>2 DEF Lets
  <2> QED
    BY <1>1, <2>1, <2>3, <2>4, AloneKeeps
<1>4. Leave(w) \/ (UNCHANGED job /\ (Goto(w, "abandoning") \/ Goto(w, "failing")))
  BY DEF Catch
<1> QED
  BY <1>2, <1>3, <1>4

\* A writer that takes tickets back on its way out.
LEMMA ClosingKeeps ==
  ASSUME UploadsInv, NEW w \in Writers, Becomes(w, "idle", NoJob), TicketTypes, Closes,
         transfer' \in TransferStates, op' \in OpStates, pend' \in PendingStates,
         transfer' = "in_progress" => transfer = "in_progress",
         pend' # pend => transfer' # "in_progress" \/ pend # "executing",
         UNCHANGED <<active, handle, receipt, bucket, policy, account, clock, seen>>
  PROVE  UploadsInv'
<1>1. TypeOK /\ Written /\ AllLetThrough /\ revision \in Nat
  BY WriterFacts
<1>2. TypeOK'
  BY <1>1 DEF TypeOK, Becomes, Jobs, TicketTypes, bucket, policy, account, clock
<1>3. Nothing
  BY GoesIdle, OthersStay DEF Nothing, TicketBy, MovesOn, Closes, bucket
<1>4. Orderly
  BY <1>1 DEF Orderly, Closes, policy
<1>5. \A v \in Writers : Lets(v)
  BY OthersStay, GoesIdle DEF Lets
<1> QED
  BY <1>1, <1>2, <1>3, <1>4, <1>5, NothingKeeps, OrderlyKeeps DEF UploadsInv

LEMMA RefuseWriterKeeps ==
  ASSUME UploadsInv, NEW w \in Writers, RefuseWriter(w)
  PROVE  UploadsInv'
<1>1. TypeOK /\ job[w].asked \in BOOLEAN
  BY JobFields DEF UploadsInv
<1>2. Becomes(w, "idle", NoJob)
  BY <1>1, LeaveIs DEF RefuseWriter
<1> DEFINE to == IF At(w, "denying") THEN "denied" ELSE "failed"
<1>3. to \in {"denied", "failed"} /\ Terminate(to, TRUE, job[w].asked)
  BY DEF RefuseWriter
<1> HIDE DEF to
<1>4. /\ TicketTypes /\ Closes
      /\ transfer' \in {"completed", to} /\ op' \in OpStates /\ pend' \in PendingStates
      /\ UNCHANGED <<active, handle, receipt>>
  BY <1>1, <1>3, TerminateIs
<1>5. transfer' \in TransferStates /\ transfer' # "in_progress"
  BY <1>3, <1>4 DEF TransferStates, Ended
<1>6. UNCHANGED <<bucket, policy, account, clock, seen>>
  BY DEF RefuseWriter
<1> QED
  BY <1>2, <1>4, <1>5, <1>6, ClosingKeeps

LEMMA SuspendTicketKeeps ==
  ASSUME UploadsInv, NEW w \in Writers, SuspendTicket(w)
  PROVE  UploadsInv'
<1>1. TypeOK /\ job[w].gen \in Generations
  BY WriterFacts DEF SuspendTicket, At
<1>2. Becomes(w, "idle", NoJob)
  BY <1>1, LeaveIs DEF SuspendTicket
<1>3. TicketTypes /\ Closes
  BY <1>1, WithdrawIs DEF SuspendTicket
<1>4. transfer' \in TransferStates /\ transfer' # "in_progress" /\ op' \in OpStates /\ pend' \in PendingStates
  BY <1>1 DEF SuspendTicket, TypeOK, TransferStates
<1>5. UNCHANGED <<active, handle, receipt, bucket, policy, account, clock, seen>>
  BY DEF SuspendTicket
<1> QED
  BY <1>2, <1>3, <1>4, <1>5, ClosingKeeps

\* Admission: the generation is the one ticket that is open, and nothing was written
\* under it.
LEMMA AdmitKeeps ==
  ASSUME UploadsInv, NEW w \in Writers, Admit(w)
  PROVE  UploadsInv'
<1> DEFINE g == job[w].gen
<1>1. TypeOK /\ Written /\ AllLetThrough /\ WriterBy(w) /\ revision \in Nat /\ pc[w] = "admitting" /\ g \in Generations
      /\ g \in 1..active /\ job[w].revision <= revision
  BY WriterFacts DEF Admit, CanAdmit, At, WriterBy
<1>2. gen[g] = "issued" /\ gen' = [gen EXCEPT ![g] = "uploading"] /\ op' = "executing"
      /\ UNCHANGED <<transfer, active, handle, pend, cleanup, stopped, receipt>>
      /\ UNCHANGED <<bucket, policy, account, clock, seen>>
  BY DEF Admit, CanAdmit, StillIssued
<1>3. Becomes(w, "receiving", job[w])
  BY <1>1, SameJobIs DEF Admit, WriterSteps
<1> HIDE DEF g
<1>4. /\ pc'[w] = "receiving" /\ job'[w] = job[w] /\ \A v \in Writers : job'[v] = job[v]
      /\ \A v \in Writers \ {w} : pc'[v] = pc[v]
  BY <1>3, OthersStay
<1>5. gen'[g] = "uploading" /\ gen' \in [Generations -> GenStates] /\ \A h \in Generations \ {g} : gen'[h] = gen[h]
  BY <1>1, <1>2 DEF TypeOK, GenStates
<1>6. TypeOK'
  BY <1>1, <1>2, <1>3, <1>5 DEF TypeOK, Becomes, Jobs, OpStates, bucket, policy, account, clock
<1>7. /\ ~stopped[g] /\ g \notin object /\ g \notin landing
      /\ \A v \in Writers : Writing(v) => job[v].gen # g
  BY <1>1, <1>2 DEF Written, Untouched
<1>8. Written'
  <2>1. Numbered'
    BY <1>1, <1>2, <1>5 DEF Written, Numbered
  <2>2. Untouched'
    <3> SUFFICES ASSUME NEW h \in Generations, gen'[h] \in {"none", "issued"}
                 PROVE  /\ ~stopped'[h] /\ h \notin object' \cup landing'
                        /\ \A v \in Writers : Writing(v)' => job'[v].gen # h
      BY DEF Untouched
    <3>1. h # g /\ gen[h] \in {"none", "issued"}
      BY <1>5
    <3> QED
      BY <1>1, <1>2, <1>4, <3>1 DEF Written, Untouched, Writing, bucket, g
  <2>3. Released'
    BY <1>1, <1>2 DEF Written, Released, bucket
  <2>4. WritersOK'
    <3>1. WriterBy(w)'
      BY <1>1, <1>2, <1>4, <1>7 DEF WriterBy, Writing, Late, bucket, g
    <3>2. ASSUME NEW v \in Writers \ {w}
          PROVE  WriterBy(v)'
      BY <1>1, <1>2, <1>4 DEF Written, WritersOK, WriterBy, Writing, Late, bucket
    <3> QED
      BY <3>1, <3>2 DEF WritersOK
  <2>5. Published'
    BY <1>1, <1>2, <1>5 DEF Written, Published, OnePublication
  <2>6. OneWriterPerTicket'
    <3> SUFFICES ASSUME NEW u \in Writers, NEW v \in Writers, Writing(u)', Writing(v)', job'[u].gen = job'[v].gen
                 PROVE  u = v
      BY DEF OneWriterPerTicket
    <3>1. CASE u # w /\ v # w
      BY <1>1, <1>4, <3>1 DEF Written, OneWriterPerTicket, Writing
    <3>2. CASE u = w /\ v # w
      BY <1>4, <1>7, <3>2 DEF Writing, g
    <3>3. CASE u # w /\ v = w
      BY <1>4, <1>7, <3>3 DEF Writing, g
    <3> QED
      BY <3>1, <3>2, <3>3
  <2>7. StoppedIsTrue'
    BY <1>1, <1>2, <1>4, <1>7 DEF Written, StoppedIsTrue, bucket, g
  <2> QED
    BY <2>1, <2>2, <2>3, <2>4, <2>5, <2>6, <2>7 DEF Written
<1>9. Orderly
  BY <1>1, <1>2, <1>5 DEF Orderly, policy
<1>10. \A v \in Writers : Lets(v)
  BY <1>1, <1>2, <1>4 DEF Lets, policy
<1> QED
  BY <1>1, <1>6, <1>8, <1>9, <1>10, OrderlyKeeps DEF UploadsInv

\* A write to R2 that arrived, or may yet arrive: it is the one writer's, it was never
\* stopped, and what is kept of it is charged.
LEMMA PutKeeps ==
  ASSUME UploadsInv, NEW w \in Writers, Put(w)
  PROVE  UploadsInv'
<1> DEFINE g == job[w].gen
<1>1. TypeOK /\ Written /\ AllLetThrough /\ WriterBy(w) /\ revision \in Nat /\ pc[w] = "putting" /\ g \in Generations
      /\ job[w].revision <= revision
  BY WriterFacts DEF Put, At
<1>2. UNCHANGED <<row, tickets, policy, account, clock, seen>>
  BY DEF Put
<1>3. /\ ~stopped[g] /\ gen[g] \notin {"none", "issued"} /\ cleanup[g] # "released" /\ g \notin landing
      /\ \A v \in Writers \ {w} : Writing(v) => job[v].gen # g
  BY <1>1 DEF Written, StoppedIsTrue, Untouched, Released, OneWriterPerTicket, Writing, WriterBy, Late
<1> HIDE DEF g
<1>4. ASSUME NEW s \in {"put", "caught"}, NEW new, Becomes(w, s, new), new.gen = g, new.revision = job[w].revision,
             \/ s = "put" /\ object' = object \cup {g} /\ landing' = landing
             \/ s = "caught" /\ new.cause = "rejected" /\ object' = object /\ landing' = landing \cup {g}
      PROVE  UploadsInv'
  <2>1. /\ pc'[w] = s /\ job'[w] = new
        /\ \A v \in Writers \ {w} : pc'[v] = pc[v] /\ job'[v] = job[v]
        /\ \A v \in Writers : job'[v].gen = job[v].gen
    BY <1>4, OthersStay DEF g
  <2>2. TypeOK'
    BY <1>1, <1>2, <1>4 DEF TypeOK, Becomes, Jobs, row, tickets, policy, account, clock
  <2>3. object' \subseteq object \cup {g} /\ landing' \subseteq landing \cup {g}
    BY <1>4
  <2>4. Untouched'
    BY <1>1, <1>2, <1>3, <2>1, <2>3 DEF Written, Untouched, Writing, tickets
  <2>5. Released'
    BY <1>1, <1>2, <1>3, <2>3 DEF Written, Released, tickets
  <2>6. WritersOK'
    <3>1. WriterBy(w)'
      BY <1>1, <1>2, <1>3, <1>4, <2>1 DEF WriterBy, Writing, Late, row, g
    <3>2. ASSUME NEW v \in Writers \ {w}
          PROVE  WriterBy(v)'
      <4>1. WriterBy(v) /\ pc'[v] = pc[v] /\ job'[v] = job[v] /\ active' = active
        BY <1>1, <1>2, <2>1 DEF Written, WritersOK, row
      <4>2. Writing(v) => job[v].gen # g
        BY <1>3
      <4> QED
        BY <4>1, <4>2, <2>3 DEF WriterBy, Writing, Late
    <3> QED
      BY <3>1, <3>2 DEF WritersOK
  <2>7. Numbered' /\ Published'
    BY <1>1, <1>2 DEF Written, Numbered, Published, OnePublication, row, tickets
  <2>8. OneWriterPerTicket'
    BY <1>1, <2>1 DEF Written, OneWriterPerTicket, Writing
  <2>9. StoppedIsTrue'
    BY <1>1, <1>2, <1>3, <1>4, <2>1, <2>3 DEF Written, StoppedIsTrue, tickets
  <2>10. Orderly
    BY <1>1, <1>2 DEF Orderly, policy, row, tickets
  <2>11. \A v \in Writers : Lets(v)
    BY <1>1, <1>2, <1>4, <2>1 DEF Lets, policy
  <2>12. Written'
    BY <2>4, <2>5, <2>6, <2>7, <2>8, <2>9 DEF Written
  <2> QED
    BY <1>1, <2>2, <2>10, <2>11, <2>12, OrderlyKeeps DEF UploadsInv
<1>5. CASE object' = object \cup {g} /\ Goto(w, "put") /\ UNCHANGED <<landing, job>>
  <2>1. Becomes(w, "put", job[w])
    BY <1>1, <1>5, SameJobIs DEF WriterSteps
  <2> QED
    BY <1>4, <1>5, <2>1 DEF g
<1>6. CASE landing' = landing \cup {g} /\ Fail(w, "rejected") /\ UNCHANGED object
  <2>1. Becomes(w, "caught", Blamed(w, "rejected")) /\ job'[w].gen = job[w].gen /\ job'[w].cause = "rejected"
        /\ job'[w].revision = job[w].revision
    BY <1>1, <1>6, FailIs DEF Causes
  <2>2. job'[w] = Blamed(w, "rejected")
    BY <2>1, OthersStay
  <2> QED
    BY <1>4, <1>6, <2>1, <2>2 DEF g
<1> QED
  BY <1>5, <1>6 DEF Put, g

LEMMA StoreKeeps ==
  ASSUME UploadsInv, NEW w \in Writers, Store(w)
  PROVE  UploadsInv'
<1> DEFINE g == job[w].gen
<1>1. TypeOK /\ Written /\ AllLetThrough /\ WriterBy(w) /\ revision \in Nat /\ pc[w] = "put" /\ g \in Generations
      /\ job[w].revision <= revision
  BY WriterFacts DEF Store, At
<1>2. UNCHANGED <<row, cleanup, stopped, receipt>> /\ UNCHANGED <<bucket, policy, account, clock, seen>>
  BY DEF Store
<1>3. CASE gen[g] = "uploading" /\ gen' = [gen EXCEPT ![g] = "stored"] /\ Goto(w, "stored") /\ UNCHANGED job
  <2>1. Becomes(w, "stored", job[w])
    BY <1>1, <1>3, SameJobIs DEF WriterSteps
  <2>2. gen' \in [Generations -> GenStates] /\ gen'[g] = "stored" /\ \A h \in Generations \ {g} : gen'[h] = gen[h]
    BY <1>1, <1>3 DEF TypeOK, GenStates
  <2>3. TypeOK'
    BY <1>1, <1>2, <2>1, <2>2 DEF TypeOK, Becomes, Jobs, row, bucket, policy, account, clock
  <2> HIDE DEF g
  <2>4. \A h \in Generations : TicketBy(h)
    BY <1>2, <1>3, <2>2 DEF TicketBy, Moved
  <2>5. MovesOn(w) /\ Lets(w)
    BY <1>1, <1>2, <2>1, OthersStay DEF MovesOn, Lets, Writing, WriterBy, Late, row, bucket, policy
  <2>6. Nothing
    BY <1>2, <2>1, <2>4, <2>5, OthersStay DEF Nothing, MovesOn, row, bucket
  <2>7. Orderly
    BY <1>1, <1>2, <2>2 DEF Orderly, row, policy
  <2>8. \A v \in Writers : Lets(v)
    BY <2>1, <2>5, OthersStay DEF Lets
  <2> QED
    BY <1>1, <2>3, <2>6, <2>7, <2>8, NothingKeeps, OrderlyKeeps DEF UploadsInv
<1>4. CASE Fail(w, "refused") /\ UNCHANGED gen
  <2>1. Becomes(w, "caught", Blamed(w, "refused")) /\ job'[w].gen = job[w].gen /\ job'[w].cause = "refused"
        /\ job'[w].revision = job[w].revision
    BY <1>1, <1>4, FailIs DEF Causes
  <2>2. Alone /\ pc'[w] = "caught"
    BY <1>2, <1>4, <2>1 DEF Alone, tickets, Becomes
  <2>3. MovesOn(w) /\ Lets(w)
    BY <1>1, <1>2, <2>1, <2>2 DEF MovesOn, Lets, Writing, WriterBy, Late, row, bucket, policy
  <2> QED
    BY <2>1, <2>2, <2>3, AloneKeeps
<1> QED
  BY <1>3, <1>4 DEF Store

\* Publication: the bytes are in the bucket, no write of them is under way, and nothing
\* was published before.
LEMMA PublishKeeps ==
  ASSUME UploadsInv, NEW w \in Writers, Publish(w)
  PROVE  UploadsInv'
<1> DEFINE g == job[w].gen
<1>1. TypeOK /\ Written /\ AllLetThrough /\ WriterBy(w) /\ revision \in Nat /\ pc[w] = "stored" /\ g \in Generations
      /\ job[w].revision <= revision
  BY WriterFacts DEF Publish, CanPublish, At
<1>2. /\ transfer = "in_progress" /\ active = g /\ gen[g] = "stored"
      /\ gen' = [gen EXCEPT ![g] = "completed"] /\ cleanup' = [cleanup EXCEPT ![g] = "published"]
      /\ stopped' = [stopped EXCEPT ![g] = TRUE]
      /\ transfer' = "completed" /\ handle' = g /\ op' = "executed" /\ pend' \in {pend, "executed"}
      /\ UNCHANGED <<active, receipt>> /\ UNCHANGED <<bucket, policy, account, clock, seen>>
  BY DEF Publish, CanPublish, Fenced
<1>3. /\ TicketTypes /\ gen'[g] = "completed" /\ cleanup'[g] = "published" /\ stopped'[g]
      /\ \A h \in Generations \ {g} : gen'[h] = gen[h] /\ cleanup'[h] = cleanup[h] /\ stopped'[h] = stopped[h]
  BY <1>1, <1>2 DEF TypeOK, TicketTypes, GenStates, Cleanups
<1>4. handle = 0 /\ (\A h \in Generations : gen[h] # "completed") /\ g # 0
  BY <1>1, <1>2 DEF Written, Published, OnePublication, Generations
<1>5. \E s \in {"idle", "caught"}, new \in Jobs : Becomes(w, s, new) /\ (s = "caught" =>
        new.gen = job[w].gen /\ new.cause = "refused" /\ new.revision = job[w].revision) /\ (s = "idle" => new = NoJob)
  <2>1. CASE Leave(w)
    BY <1>1, <2>1, LeaveIs, NoJobIs
  <2>2. CASE Fail(w, "refused")
    <3>1. Becomes(w, "caught", Blamed(w, "refused")) /\ job'[w].gen = job[w].gen /\ job'[w].cause = "refused"
          /\ job'[w].revision = job[w].revision
      BY <1>1, <2>2, FailIs DEF Causes
    <3>2. Blamed(w, "refused") \in Jobs
      BY <3>1 DEF Becomes
    <3> QED
      BY <3>1, <3>2, OthersStay
  <2> QED
    BY <2>1, <2>2 DEF Publish
<1>6. PICK s \in {"idle", "caught"}, new \in Jobs :
        Becomes(w, s, new) /\ (s = "caught" => new.gen = job[w].gen /\ new.cause = "refused" /\ new.revision = job[w].revision)
        /\ (s = "idle" => new = NoJob)
  BY <1>5
<1>7. /\ pc'[w] = s /\ job'[w] = new
      /\ \A v \in Writers \ {w} : pc'[v] = pc[v] /\ job'[v] = job[v]
  BY <1>6, OthersStay
<1>8. TypeOK'
  BY <1>1, <1>2, <1>3, <1>6 DEF TypeOK, Becomes, Jobs, TicketTypes, TransferStates, OpStates, PendingStates,
     bucket, policy, account, clock, Generations
<1> HIDE DEF g
<1>9. Numbered'
  BY <1>1, <1>2, <1>3 DEF Written, Numbered
<1>10. \A v \in Writers : Writing(v)' => Writing(v) /\ job'[v].gen = job[v].gen
  BY <1>1, <1>6, <1>7 DEF Writing, g
<1>11. Untouched'
  BY <1>1, <1>2, <1>3, <1>10 DEF Written, Untouched, bucket
<1>12. Released'
  BY <1>1, <1>2, <1>3 DEF Written, Released, bucket
<1>13. WritersOK'
  <2>1. WriterBy(w)'
    BY <1>1, <1>2, <1>6, <1>7 DEF WriterBy, Writing, Late, bucket, g
  <2>2. ASSUME NEW v \in Writers \ {w}
        PROVE  WriterBy(v)'
    BY <1>1, <1>2, <1>7 DEF Written, WritersOK, WriterBy, Writing, Late, bucket
  <2> QED
    BY <2>1, <2>2 DEF WritersOK
<1>14. Published'
  BY <1>1, <1>2, <1>3, <1>4 DEF Published, OnePublication
<1>15. OneWriterPerTicket'
  BY <1>1, <1>10 DEF Written, OneWriterPerTicket
<1>16. StoppedIsTrue'
  <2>1. g \notin landing /\ \A v \in Writers : job'[v].gen = g => pc'[v] \notin {"receiving", "putting"}
    BY <1>1, <1>6, <1>7 DEF Written, OneWriterPerTicket, Writing, WriterBy, Late, g
  <2>2. ASSUME NEW h \in Generations \ {g}, stopped'[h]
        PROVE  h \notin landing /\ \A v \in Writers : job'[v].gen = h => pc'[v] \notin {"receiving", "putting"}
    <3>1. h \notin landing /\ \A v \in Writers : job[v].gen = h => pc[v] \notin {"receiving", "putting"}
      BY <1>1, <1>3, <2>2 DEF Written, StoppedIsTrue
    <3> QED
      BY <1>6, <1>7, <3>1
  <2> QED
    BY <1>2, <2>1, <2>2 DEF StoppedIsTrue, bucket
<1>17. Written'
  BY <1>9, <1>11, <1>12, <1>13, <1>14, <1>15, <1>16 DEF Written
<1>18. Orderly
  BY <1>1, <1>2, <1>3 DEF Orderly, policy
<1>19. \A v \in Writers : Lets(v)
  BY <1>1, <1>2, <1>6, <1>7 DEF Lets, policy
<1> QED
  BY <1>1, <1>8, <1>17, <1>18, <1>19, OrderlyKeeps DEF UploadsInv

LEMMA FailUploadKeeps ==
  ASSUME UploadsInv, NEW w \in Writers, FailUpload(w)
  PROVE  UploadsInv'
<1> DEFINE g == job[w].gen
<1>1. TypeOK /\ Written /\ AllLetThrough /\ WriterBy(w) /\ revision \in Nat /\ pc[w] \in {"failing", "abandoning"}
      /\ g \in Generations /\ job[w].revision <= revision
  BY WriterFacts DEF FailUpload, At
<1> DEFINE to == IF At(w, "failing") THEN "failed" ELSE "abandoned"
<1>2. /\ to \in {"failed", "abandoned"} /\ FailGeneration(w, to, WriterEnded(w))
      /\ transfer' \in {transfer, "completed", "failed"} /\ (transfer' = "in_progress" => transfer = "in_progress")
      /\ op' \in {op, "failed_safe"}
      /\ pend' = pend \/ (pend' = "failed" /\ transfer' # "in_progress")
      /\ UNCHANGED <<active, handle, receipt>> /\ UNCHANGED <<bucket, policy, account, clock, seen>>
  BY DEF FailUpload
<1> HIDE DEF to
<1>3. /\ TicketTypes /\ \A h \in Generations \ {g} : gen'[h] = gen[h] /\ cleanup'[h] = cleanup[h] /\ stopped'[h] = stopped[h]
      /\ \/ gen'[g] = gen[g] /\ cleanup'[g] = cleanup[g] /\ stopped'[g] = stopped[g]
         \/ {gen[g], gen'[g]} \subseteq Moved /\ cleanup'[g] = "debt" /\ (stopped'[g] => WriterEnded(w))
  <2>1. CASE gen[g] \in {"uploading", "stored", "abandoned"}
    <3>1. /\ gen' = [gen EXCEPT ![g] = to] /\ cleanup' = [cleanup EXCEPT ![g] = "debt"]
          /\ stopped' = [stopped EXCEPT ![g] = WriterEnded(w)]
      BY <1>2, <2>1 DEF FailGeneration
    <3>2. WriterEnded(w) \in BOOLEAN
      BY DEF WriterEnded
    <3> QED
      BY <1>1, <1>2, <2>1, <3>1, <3>2 DEF TypeOK, TicketTypes, GenStates, Cleanups, Moved
  <2>2. CASE gen[g] \notin {"uploading", "stored", "abandoned"}
    <3>1. UNCHANGED <<gen, cleanup, stopped>>
      BY <1>2, <2>2 DEF FailGeneration
    <3> QED
      BY <1>1, <3>1 DEF TypeOK, TicketTypes
  <2> QED
    BY <2>1, <2>2
<1>4. WriterEnded(w) => g \notin landing /\ \A v \in Writers : job[v].gen = g => pc[v] \notin {"receiving", "putting"}
  BY <1>1 DEF WriterEnded, WriterBy, Written, OneWriterPerTicket, Writing, Late
<1> HIDE DEF g
<1>5. \A h \in Generations : TicketBy(h)
  BY <1>3, <1>4 DEF TicketBy
<1>6. Becomes(w, "idle", NoJob) \/ (Becomes(w, "cleaning", job[w]) /\ job[w].cause # "rejected")
  <2>1. CASE WriterEnded(w)
    BY <1>1, <2>1, SameJobIs DEF FailUpload, WriterSteps, WriterEnded
  <2>2. CASE ~WriterEnded(w)
    BY <1>1, <2>2, LeaveIs DEF FailUpload
  <2> QED
    BY <2>1, <2>2
<1>7. MovesOn(w) /\ Lets(w) /\ pc' \in [Requests \cup Writers -> RequestSteps \cup WriterSteps]
      /\ job' \in [Writers -> Jobs] /\ \A v \in Writers \ {w} : pc'[v] = pc[v] /\ job'[v] = job[v]
  <2>1. CASE Becomes(w, "idle", NoJob)
    BY <2>1, GoesIdle, OthersStay
  <2>2. CASE Becomes(w, "cleaning", job[w]) /\ job[w].cause # "rejected"
    <3>1. pc'[w] = "cleaning" /\ job'[w] = job[w]
      BY <2>2, OthersStay
    <3>2. MovesOn(w) /\ Lets(w)
      BY <1>1, <1>2, <2>2, <3>1 DEF MovesOn, Lets, Writing, WriterBy, Late, bucket, policy
    <3> QED
      BY <2>2, <3>2, OthersStay
  <2> QED
    BY <1>6, <2>1, <2>2
<1>8. TypeOK'
  BY <1>1, <1>2, <1>3, <1>7 DEF TypeOK, Jobs, TicketTypes, TransferStates, Ended, OpStates, PendingStates,
     bucket, policy, account, clock
<1>9. Nothing
  BY <1>2, <1>5, <1>7 DEF Nothing, MovesOn, bucket
<1>10. \A h \in Generations : gen'[h] = "issued" => gen[h] = "issued"
  BY <1>3 DEF Moved
<1>11. Orderly
  BY <1>1, <1>2, <1>10 DEF Orderly, policy
<1>12. \A v \in Writers : Lets(v)
  BY <1>7 DEF Lets
<1> QED
  BY <1>1, <1>8, <1>9, <1>11, <1>12, NothingKeeps, OrderlyKeeps DEF UploadsInv

\* What a writer leaves behind is released only when it took it out of the bucket.
LEMMA CleanKeeps ==
  ASSUME UploadsInv, NEW w \in Writers, Clean(w)
  PROVE  UploadsInv'
<1> DEFINE g == job[w].gen
<1>1. TypeOK /\ Written /\ AllLetThrough /\ WriterBy(w) /\ revision \in Nat /\ pc[w] = "cleaning" /\ g \in Generations
      /\ job[w].cause \in Causes
  BY WriterFacts, JobFields DEF Clean, At
<1>2. /\ object' = IF job[w].cause = "refused" THEN object \ {g} ELSE object
      /\ cleanup' = cleanup \/ (stopped[g] /\ cleanup' = [cleanup EXCEPT ![g] = "released"])
      /\ UNCHANGED <<row, gen, stopped, receipt, landing>> /\ UNCHANGED <<policy, account, clock, seen>>
  BY DEF Clean
<1>3. Becomes(w, "idle", NoJob)
  BY <1>1, LeaveIs DEF Clean
<1>4. g \notin object'
  BY <1>1, <1>2 DEF WriterBy, Late, Causes
<1> HIDE DEF g
<1>5. cleanup' \in [Generations -> Cleanups] /\ \A h \in Generations : TicketBy(h)
  BY <1>1, <1>2, <1>4 DEF TypeOK, TicketBy, Cleanups
<1>6. object' \subseteq object
  BY <1>2
<1>7. TypeOK'
  BY <1>1, <1>2, <1>3, <1>5, <1>6 DEF TypeOK, Becomes, Jobs, row, policy, account, clock
<1>8. Nothing
  BY <1>2, <1>3, <1>5, <1>6, GoesIdle, OthersStay DEF Nothing, MovesOn, row
<1>9. Orderly
  BY <1>1, <1>2 DEF Orderly, row, policy
<1>10. \A v \in Writers : Lets(v)
  BY <1>3, GoesIdle, OthersStay DEF Lets
<1> QED
  BY <1>1, <1>7, <1>8, <1>9, <1>10, NothingKeeps, OrderlyKeeps DEF UploadsInv

\* A writer that stops while R2 has its bytes leaves a write that may still land.
LEMMA StopWriterKeeps ==
  ASSUME UploadsInv, NEW w \in Writers, StopWriter(w)
  PROVE  UploadsInv'
<1> DEFINE g == job[w].gen
<1>1. TypeOK /\ Written /\ AllLetThrough /\ WriterBy(w) /\ revision \in Nat
  BY WriterFacts
<1>2. Becomes(w, "idle", NoJob) /\ UNCHANGED <<row, tickets, object, policy, account, clock, seen>>
  BY <1>1, LeaveIs DEF StopWriter
<1>3. CASE pc[w] # "putting"
  <2>1. Alone
    BY <1>2, <1>3 DEF StopWriter, Alone, At, bucket
  <2> QED
    BY <1>2, <2>1, GoesIdle, AloneKeeps
<1>4. CASE pc[w] = "putting"
  <2>1. landing' = landing \cup {g} /\ g \in Generations
    BY <1>4, WriterFacts DEF StopWriter, At
  <2>2. /\ ~stopped[g] /\ gen[g] \notin {"none", "issued"}
        /\ \A v \in Writers \ {w} : Writing(v) => job[v].gen # g
    BY <1>1, <1>4, <2>1 DEF Written, StoppedIsTrue, Untouched, OneWriterPerTicket, Writing, WriterBy, Late
  <2> HIDE DEF g
  <2>3. /\ pc'[w] = "idle" /\ \A v \in Writers \ {w} : pc'[v] = pc[v] /\ job'[v] = job[v]
    BY <1>2, OthersStay
  <2>4. TypeOK'
    BY <1>1, <1>2, <2>1 DEF TypeOK, Becomes, Jobs, row, tickets, policy, account, clock
  <2>5. Untouched'
    BY <1>1, <1>2, <2>1, <2>2, <2>3 DEF Written, Untouched, Writing, tickets
  <2>6. Released' /\ Numbered' /\ Published'
    BY <1>1, <1>2 DEF Written, Released, Numbered, Published, OnePublication, row, tickets
  <2>7. WritersOK'
    <3>1. WriterBy(w)'
      BY <2>3 DEF WriterBy, Writing, Late
    <3>2. ASSUME NEW v \in Writers \ {w}
          PROVE  WriterBy(v)'
      <4>1. WriterBy(v) /\ pc'[v] = pc[v] /\ job'[v] = job[v] /\ active' = active /\ object' = object
        BY <1>1, <1>2, <2>3 DEF Written, WritersOK, row
      <4> QED
        BY <4>1, <2>1, <2>2 DEF WriterBy, Writing, Late
    <3> QED
      BY <3>1, <3>2 DEF WritersOK
  <2>8. OneWriterPerTicket'
    BY <1>1, <2>3 DEF Written, OneWriterPerTicket, Writing
  <2>9. StoppedIsTrue'
    BY <1>1, <1>2, <2>1, <2>2, <2>3 DEF Written, StoppedIsTrue, tickets
  <2>10. Written'
    BY <2>5, <2>6, <2>7, <2>8, <2>9 DEF Written
  <2>11. Orderly
    BY <1>1, <1>2 DEF Orderly, policy, row, tickets
  <2>12. \A v \in Writers : Lets(v)
    BY <2>3 DEF Lets
  <2> QED
    BY <1>1, <2>4, <2>10, <2>11, <2>12, OrderlyKeeps DEF UploadsInv
<1> QED
  BY <1>3, <1>4

-----------------------------------------------------------------------------
(* The cron, the owner, the clock and R2.                                   *)

\* Nobody is at another place.
SameLocals == UNCHANGED locals

LEMMA QuietKeeps ==
  ASSUME UploadsInv, SameLocals, TypeOK', Orderly, object' \subseteq object,
         UNCHANGED <<landing, active, handle>>, \A g \in Generations : TicketBy(g)
  PROVE  UploadsInv'
<1>1. TypeOK /\ Written /\ AllLetThrough
  BY DEF UploadsInv
<1>2. \A w \in Writers : MovesOn(w) /\ Lets(w)
  BY DEF SameLocals, locals, MovesOn, Lets
<1>3. Nothing
  BY <1>2 DEF Nothing
<1> QED
  BY <1>1, <1>2, <1>3, NothingKeeps, OrderlyKeeps DEF UploadsInv

LEMMA RecoverGenerationsKeeps ==
  ASSUME UploadsInv, RecoverGenerations
  PROVE  UploadsInv'
<1>1. TypeOK /\ Written /\ revision \in Nat /\ active \in Nat
  BY UploadsAssumption DEF UploadsInv, TypeOK
<1>2. /\ UNCHANGED <<row, receipt, bucket, policy, account, clock, locals>>
      /\ gen' = [g \in Generations |->
               IF ~Lapsed(g) THEN gen[g] ELSE IF gen[g] = "issued" THEN "expired" ELSE "abandoned"]
      /\ cleanup' = [g \in Generations |->
               IF ~Lapsed(g) THEN cleanup[g] ELSE IF gen[g] = "issued" THEN "released" ELSE "debt"]
      /\ stopped' = [g \in Generations |-> stopped[g] \/ (Lapsed(g) /\ gen[g] = "issued")]
  BY DEF RecoverGenerations
<1>3. TicketTypes
  BY <1>1, <1>2 DEF TicketTypes, TypeOK, GenStates, Cleanups
<1>4. TypeOK'
  BY <1>1, <1>2, <1>3 DEF TypeOK, TicketTypes, row, bucket, policy, account, clock, locals
<1>5. ASSUME NEW g \in Generations
      PROVE  TicketBy(g)
  <2>1. CASE ~Lapsed(g)
    <3>1. stopped[g] \in BOOLEAN
      BY <1>1 DEF TypeOK
    <3>2. gen'[g] = gen[g] /\ cleanup'[g] = cleanup[g] /\ stopped'[g] = stopped[g]
      BY <1>2, <2>1, <3>1
    <3> QED
      BY <3>2 DEF TicketBy
  <2>2. CASE Lapsed(g) /\ gen[g] = "issued"
    BY <1>2, <2>2 DEF TicketBy
  <2>3. CASE Lapsed(g) /\ gen[g] # "issued"
    <3>1. gen[g] \in {"uploading", "stored"} /\ gen'[g] = "abandoned" /\ cleanup'[g] = "debt" /\ (stopped'[g] => stopped[g])
      BY <1>2, <2>3 DEF Lapsed
    <3>2. stopped[g] => g \notin landing /\ \A w \in Writers : job[w].gen = g => pc[w] \notin {"receiving", "putting"}
      BY <1>1 DEF Written, StoppedIsTrue
    <3> QED
      BY <3>1, <3>2 DEF TicketBy, Moved
  <2> QED
    BY <2>1, <2>2, <2>3
<1>6. \A g \in Generations : gen'[g] = "issued" => gen[g] = "issued"
  BY <1>2
<1>7. Orderly
  BY <1>1, <1>2, <1>6 DEF Orderly, row, policy
<1>8. object' \subseteq object /\ UNCHANGED <<landing, active, handle>> /\ SameLocals
  BY <1>2 DEF row, bucket, SameLocals
<1> QED
  BY <1>4, <1>5, <1>7, <1>8, QuietKeeps

LEMMA SweepKeeps ==
  ASSUME UploadsInv, NEW g \in Generations, Sweep(g)
  PROVE  UploadsInv'
<1>1. TypeOK /\ Written /\ revision \in Nat /\ active \in Nat
  BY UploadsAssumption DEF UploadsInv, TypeOK
<1>2. /\ object' = object \ {g} /\ (cleanup' = cleanup \/ (stopped[g] /\ cleanup' = [cleanup EXCEPT ![g] = "released"]))
      /\ UNCHANGED <<row, gen, stopped, receipt, landing, policy, account, clock, locals>>
  BY DEF Sweep, Releasable
<1>3. cleanup' \in [Generations -> Cleanups] /\ \A h \in Generations : TicketBy(h)
  BY <1>1, <1>2 DEF TypeOK, TicketBy, Cleanups
<1>4. object' \subseteq object /\ UNCHANGED <<landing, active, handle>> /\ SameLocals
  BY <1>2 DEF row, SameLocals
<1>5. TypeOK'
  BY <1>1, <1>2, <1>3, <1>4 DEF TypeOK, row, policy, account, clock, locals
<1>6. Orderly
  BY <1>1, <1>2 DEF Orderly, row, policy
<1> QED
  BY <1>3, <1>4, <1>5, <1>6, QuietKeeps

\* A write that was cut off lands: it is still charged, and nobody relied on its absence.
LEMMA LandKeeps ==
  ASSUME UploadsInv, NEW g \in Generations, Land(g)
  PROVE  UploadsInv'
<1>1. TypeOK /\ Written /\ AllLetThrough /\ revision \in Nat /\ active \in Nat
  BY UploadsAssumption DEF UploadsInv, TypeOK
<1>2. /\ g \in landing /\ landing' = landing \ {g} /\ object' = object \cup {g}
      /\ UNCHANGED <<row, tickets, policy, account, clock, locals>>
  BY DEF Land
<1>3. ~stopped[g] /\ cleanup[g] # "released" /\ gen[g] \notin {"none", "issued"}
  BY <1>1, <1>2 DEF Written, StoppedIsTrue, Released, Untouched
<1>4. TypeOK'
  BY <1>1, <1>2 DEF TypeOK, row, tickets, policy, account, clock, locals
<1>5. Untouched' /\ Released'
  BY <1>1, <1>2, <1>3 DEF Written, Untouched, Released, Writing, tickets, locals
<1>6. Numbered' /\ Published' /\ OneWriterPerTicket'
  BY <1>1, <1>2 DEF Written, Numbered, Published, OnePublication, OneWriterPerTicket, Writing, row, tickets, locals
<1>7. WritersOK'
  <2> SUFFICES ASSUME NEW w \in Writers
               PROVE  WriterBy(w)'
    BY DEF WritersOK
  <2>1. WriterBy(w) /\ pc' = pc /\ job' = job /\ active' = active
    BY <1>1, <1>2 DEF Written, WritersOK, row, locals
  <2> QED
    BY <1>2, <2>1 DEF WriterBy, Writing, Late
<1>8. StoppedIsTrue'
  BY <1>1, <1>2 DEF Written, StoppedIsTrue, tickets, locals
<1>9. Written'
  BY <1>5, <1>6, <1>7, <1>8 DEF Written
<1>10. Orderly /\ \A w \in Writers : Lets(w)
  BY <1>1, <1>2 DEF Orderly, Lets, row, tickets, policy, locals
<1> QED
  BY <1>1, <1>4, <1>9, <1>10, OrderlyKeeps DEF UploadsInv

\* Steps that touch neither tickets nor the bucket nor anyone's place.
SameTicketsAndBucket == UNCHANGED <<active, handle, tickets, bucket, locals>>

LEMMA AsideKeeps ==
  ASSUME UploadsInv, SameTicketsAndBucket,
         transfer' \in TransferStates, op' \in OpStates, pend' \in PendingStates,
         level' \in Levels, revision' \in 0..MaxRevision, credential' \in 1..MaxCredential,
         connected' \in BOOLEAN, ended' \in BOOLEAN, ticketOver' \subseteq Generations, leaseOver' \subseteq Generations,
         revision <= revision', revision' = revision => level' = level,
         transfer' = "in_progress" => transfer = "in_progress",
         pend = "executing" => pend' = "executing" \/ transfer' # "in_progress"
  PROVE  UploadsInv'
<1>1. TypeOK /\ active \in Nat
  BY UploadsAssumption DEF UploadsInv, TypeOK
<1>2. TypeOK'
  BY <1>1 DEF TypeOK, SameTicketsAndBucket, tickets, bucket, locals
<1>3. Orderly
  BY <1>1 DEF Orderly, SameTicketsAndBucket, tickets
<1>4. \A g \in Generations : TicketBy(g)
  BY DEF TicketBy, SameTicketsAndBucket, tickets
<1>5. object' \subseteq object /\ UNCHANGED <<landing, active, handle>> /\ SameLocals
  BY DEF SameTicketsAndBucket, SameLocals, bucket
<1> QED
  BY <1>2, <1>3, <1>4, <1>5, QuietKeeps

LEMMA RecoverTransferKeeps ==
  ASSUME UploadsInv, RecoverTransfer
  PROVE  UploadsInv'
<1>1. TypeOK /\ revision \in Nat
  BY UploadsAssumption DEF UploadsInv, TypeOK
<1>2. /\ transfer' = "expired" /\ op' \in {op, "failed_safe"} /\ pend' \in {pend, "expired"}
      /\ UNCHANGED <<active, handle>> /\ UNCHANGED <<tickets, bucket, policy, account, clock, locals>>
  BY DEF RecoverTransfer
<1> QED
  BY <1>1, <1>2, AsideKeeps DEF SameTicketsAndBucket, TypeOK, TransferStates, Ended, OpStates, PendingStates,
     policy, account, clock

LEMMA OwnerKeeps ==
  ASSUME UploadsInv, OwnerStep \/ ExpirePending
  PROVE  UploadsInv'
<1>1. TypeOK /\ revision \in Nat /\ MaxRevision \in Nat /\ MaxCredential \in Nat
  BY UploadsAssumption DEF UploadsInv, TypeOK
<1>2. ASSUME NEW to \in {"approved", "denied", "cancelled", "expired"}, pend' = to, pend # "executing",
             UNCHANGED <<transfer, active, handle, op>>, UNCHANGED <<tickets, bucket, policy, account, clock, locals>>
      PROVE  UploadsInv'
  BY <1>1, <1>2, AsideKeeps DEF SameTicketsAndBucket, TypeOK, PendingStates, policy, account, clock
<1>3. CASE OwnerDecides({"pending"}, "approved")
  BY <1>2, <1>3 DEF OwnerDecides
<1>4. CASE OwnerDecides({"pending"}, "denied")
  BY <1>2, <1>4 DEF OwnerDecides
<1>5. CASE OwnerDecides({"pending", "approved"}, "cancelled")
  BY <1>2, <1>5 DEF OwnerDecides
<1>6. CASE ExpirePending
  BY <1>2, <1>6 DEF ExpirePending
<1>7. ASSUME NEW l \in Levels, EditPolicy(l)
      PROVE  UploadsInv'
  BY <1>1, <1>7, AsideKeeps DEF EditPolicy, SameTicketsAndBucket, TypeOK, row, account, clock
<1>8. ASSUME UNCHANGED <<row, tickets, bucket, policy, clock, locals>>, connected' \in BOOLEAN,
             credential' \in {credential, credential + 1}, credential' # credential => credential < MaxCredential
      PROVE  UploadsInv'
  <2>1. credential' \in 1..MaxCredential
    BY <1>1, <1>8 DEF TypeOK
  <2> QED
    BY <1>1, <1>8, <2>1, AsideKeeps DEF SameTicketsAndBucket, TypeOK, row, policy, clock
<1>9. CASE Revoke \/ LoseGrant \/ Reconnect
  BY <1>8, <1>9 DEF Revoke, LoseGrant, Reconnect
<1> QED
  BY <1>3, <1>4, <1>5, <1>6, <1>7, <1>9 DEF OwnerStep

LEMMA ClockKeeps ==
  ASSUME UploadsInv, LapseAuthority \/ \E g \in Generations : ClockStep(g)
  PROVE  UploadsInv'
<1>1. TypeOK /\ revision \in Nat
  BY UploadsAssumption DEF UploadsInv, TypeOK
<1>2. /\ UNCHANGED <<row, tickets, bucket, policy, account, locals>>
      /\ ended' \in BOOLEAN /\ ticketOver' \subseteq Generations /\ leaseOver' \subseteq Generations
  BY <1>1 DEF TypeOK, LapseAuthority, ClockStep, LapseTicket, LapseLease
<1> QED
  BY <1>1, <1>2, AsideKeeps DEF SameTicketsAndBucket, TypeOK, row, policy, account

LEMMA StutterKeeps ==
  ASSUME UploadsInv, UNCHANGED vars
  PROVE  UploadsInv'
<1>1. TypeOK /\ revision \in Nat
  BY UploadsAssumption DEF UploadsInv, TypeOK
<1> QED
  BY <1>1, AsideKeeps DEF SameTicketsAndBucket, TypeOK, vars, row, policy, account, clock

-----------------------------------------------------------------------------
(* The invariant.                                                           *)

LEMMA UploadsStart ==
  ASSUME Init
  PROVE  UploadsInv
<1>1. TypeOK
  BY TypeInit
<1>2. \A w \in Writers : pc[w] = "idle"
  BY DEF Init
<1>3. Written
  BY <1>2 DEF Init, Written, Numbered, Untouched, Released, WritersOK, WriterBy, Late, Writing, Published, OnePublication,
     OneWriterPerTicket, StoppedIsTrue, Generations
<1>4. AllLetThrough
  BY <1>2 DEF AllLetThrough, LetThrough
<1> QED
  BY <1>1, <1>3, <1>4 DEF UploadsInv

LEMMA WriterKeeps ==
  ASSUME UploadsInv, NEW w \in Writers, WriterStep(w)
  PROVE  UploadsInv'
BY PresentKeeps, WriterConsultKeeps, RefuseWriterKeeps, SuspendTicketKeeps, AdmitKeeps, ReceiveKeeps, PutKeeps,
   StoreKeeps, PublishKeeps, PublishFailsKeeps, CatchKeeps, FailUploadKeeps, CleanKeeps, StopWriterKeeps DEF WriterStep

LEMMA RequestKeeps ==
  ASSUME UploadsInv, NEW e \in Requests, RequestStep(e)
  PROVE  UploadsInv'
BY ShortRequestKeeps, IssueTicketKeeps DEF RequestStep, ShortRequest

LEMMA UploadsKeep ==
  ASSUME UploadsInv, [Next]_vars
  PROVE  UploadsInv'
<1>1. CASE \E e \in Requests : RequestStep(e)
  BY <1>1, RequestKeeps
<1>2. CASE \E w \in Writers : WriterStep(w)
  BY <1>2, WriterKeeps
<1>3. CASE OwnerStep
  BY <1>3, OwnerKeeps
<1>4. CASE CronStep
  BY <1>4, RecoverGenerationsKeeps, RecoverTransferKeeps, OwnerKeeps DEF CronStep
<1>5. CASE LapseAuthority \/ \E g \in Generations : ClockStep(g)
  BY <1>5, ClockKeeps
<1>6. CASE \E g \in Generations : Sweep(g) \/ Land(g)
  BY <1>6, SweepKeeps, LandKeeps
<1>7. CASE UNCHANGED vars
  BY <1>7, StutterKeeps
<1> QED
  BY <1>1, <1>2, <1>3, <1>4, <1>5, <1>6, <1>7 DEF Next

\* The inductive invariant: who may write under which ticket, what of it can be in the
\* bucket, and under which policy a writer was let through.
THEOREM UploadsInvariant == Spec => []UploadsInv
<1>1. UploadsInv /\ [Next]_vars => UploadsInv'
  BY UploadsKeep
<1> QED
  BY UploadsStart, <1>1, PTL DEF Spec

\* Every variable of an upload has its type.
THEOREM UploadsIsTyped == Spec => []TypeOK
<1>1. UploadsInv => TypeOK
  BY DEF UploadsInv
<1> QED
  BY <1>1, UploadsInvariant, PTL

\* One upload at a time under a ticket, and one file in the end, however slow a writer
\* is and whatever replaced its ticket.
THEOREM OneUploadAtATime == Spec => []OneWriter
<1>1. UploadsInv => OneWriter
  BY DEF UploadsInv, Written, Published, OneWriter
<1> QED
  BY <1>1, UploadsInvariant, PTL

\* Bytes that are in R2, or may still arrive there, are charged, and a charge is given
\* back only for a writer that stopped.
THEOREM ChargesStandForBytes == Spec => []ChargesAreTrue
<1>1. ASSUME UploadsInv
      PROVE  ChargesAreTrue
  <2>1. Written
    BY <1>1 DEF UploadsInv
  <2>2. ASSUME NEW g \in Generations, InBucket(g)
        PROVE  cleanup[g] # "released"
    BY <2>1, <2>2 DEF Written, Released, StoppedIsTrue, InBucket, At
  <2> QED
    BY <2>1, <2>2 DEF Written, ChargesAreTrue, BytesAreCharged
<1> QED
  BY <1>1, UploadsInvariant, PTL

-----------------------------------------------------------------------------
(* Admission.                                                               *)

\* A ticket becomes an upload in one step only, which looked at the policy's revision
\* and at the account.
LEMMA OnlyAdmissionAdmits ==
  ASSUME UploadsInv, [Next]_vars, NEW g \in Generations, gen[g] = "issued", gen'[g] = "uploading"
  PROVE  \E w \in Writers : Admit(w) /\ job[w].gen = g
<1>1. TypeOK
  BY DEF UploadsInv
<1>2. ASSUME NEW e \in Requests, RequestStep(e)
      PROVE  FALSE
  <2>1. CASE ShortRequest(e)
    BY <1>1, <2>1, RequestDoes DEF RequestFrame, Closes
  <2>2. CASE IssueTicket(e)
    BY <2>2 DEF IssueTicket
  <2> QED
    BY <1>2, <2>1, <2>2 DEF RequestStep, ShortRequest
<1>3. ASSUME NEW w \in Writers, WriterStep(w), ~Admit(w)
      PROVE  FALSE
  <2>1. job[w].gen \in 0..MaxGen
    BY <1>1, JobFields
  <2>2. CASE RefuseWriter(w)
    BY <2>2 DEF RefuseWriter, Terminate
  <2>3. CASE SuspendTicket(w)
    <3>1. gen'[g] \in {gen[g], "expired"}
      BY <1>1, <2>3 DEF SuspendTicket, WithdrawIfIssued, Withdraw, TypeOK
    <3> QED
      BY <3>1
  <2>4. CASE Store(w)
    BY <1>1, <2>4 DEF Store, TypeOK
  <2>5. CASE Publish(w)
    BY <1>1, <2>5 DEF Publish, TypeOK
  <2>6. CASE FailUpload(w)
    BY <1>1, <2>6 DEF FailUpload, FailGeneration, TypeOK
  <2>7. CASE Clean(w) \/ StopWriter(w) \/ Catch(w) \/ PublishFails(w) \/ Put(w) \/ Receive(w) \/ WriterConsult(w)
             \/ \E h \in Generations : Present(w, h)
    BY <2>7 DEF Clean, StopWriter, Catch, PublishFails, Put, Receive, WriterConsult, Present, tickets
  <2> QED
    BY <1>3, <2>2, <2>3, <2>4, <2>5, <2>6, <2>7 DEF WriterStep
<1>4. ~RecoverGenerations
  BY DEF RecoverGenerations
<1>5. ~(OwnerStep \/ LapseAuthority \/ RecoverTransfer \/ ExpirePending
        \/ \E h \in Generations : ClockStep(h) \/ Sweep(h) \/ Land(h))
  BY DEF OwnerStep, OwnerDecides, EditPolicy, Revoke, LoseGrant, Reconnect, LapseAuthority, RecoverTransfer, ExpirePending,
     ClockStep, LapseTicket, LapseLease, Sweep, Land, tickets
<1>6. ~UNCHANGED vars
  BY DEF vars, tickets
<1>7. PICK w \in Writers : Admit(w)
  BY <1>2, <1>3, <1>4, <1>5, <1>6 DEF Next, CronStep
<1>8. job[w].gen = g
  BY <1>1, <1>7 DEF Admit, TypeOK
<1> QED
  BY <1>7, <1>8

\* No byte is admitted but under the policy in force, with an approval under way when
\* it asks, and only for a connected account: whatever the owner saved, or revoked,
\* while the writer was on its way.
THEOREM AdmissionNeedsAuthority == Spec => AdmissionIsAuthorised
<1>1. UploadsInv /\ [Next]_vars =>
        [\A g \in Generations : gen[g] = "issued" /\ gen'[g] = "uploading" =>
           connected /\ (level = "allow" \/ (level = "ask" /\ pend = "executing"))]_vars
  <2> SUFFICES ASSUME UploadsInv, [Next]_vars, NEW g \in Generations, gen[g] = "issued", gen'[g] = "uploading"
               PROVE  connected /\ (level = "allow" \/ (level = "ask" /\ pend = "executing"))
    OBVIOUS
  <2>1. PICK w \in Writers : Admit(w) /\ job[w].gen = g
    BY OnlyAdmissionAdmits
  <2>2. LetThrough(w)
    BY DEF UploadsInv, AllLetThrough
  <2> QED
    BY <2>1, <2>2 DEF LetThrough, Admit, CanAdmit, SamePolicy, StillIssued, Current, At
<1> QED
  BY <1>1, UploadsInvariant, PTL DEF Spec, AdmissionIsAuthorised

-----------------------------------------------------------------------------
(* Publication is final as long as the policy stays as it is.               *)

SteadyTickets ==
  /\ \A g \in Generations : gen'[g] \in Unfinished =>
       gen[g] \in Unfinished /\ cleanup'[g] = cleanup[g] /\ (gen'[g] \in Lively => gen[g] \in Lively)
  /\ \A g \in Generations : gen[g] = "completed" => stopped'[g] = stopped[g] /\ cleanup'[g] = cleanup[g]

SteadyPending ==
  \/ pend' = pend
  \/ pend \in {"pending", "approved", "executing"} /\ pend' # "none"
  \/ pend = "none" /\ pend' = "pending" /\ level = "ask"

\* Nothing is opened, admitted or published; what goes from the bucket is debt, or is
\* what a writer that failed cleans up.
Steady ==
  /\ level' = level /\ UNCHANGED <<active, handle>>
  /\ (transfer' = "none" <=> transfer = "none") /\ (handle # 0 => transfer' = "completed")
  /\ transfer' = "in_progress" =>
       transfer = "in_progress" /\ (pend = "executing" => pend' = "executing" \/ gen'[active] \notin Lively)
  /\ SteadyTickets /\ SteadyPending
  /\ \A g \in object : \/ g \in object' \/ cleanup[g] = "debt"
                       \/ \E v \in Writers : pc[v] = "cleaning" /\ job[v].gen = g
  /\ \A w \in Writers : (pc'[w] = pc[w] /\ job'[w] = job[w]) \/ CarriesOn(w)'
  /\ \A e \in Requests : (pc'[e] = pc[e] /\ seen'[e] = seen[e]) \/ RequestBy(e)'

LEMMA UneditedFacts ==
  ASSUME UploadsInv, Unedited
  PROVE  /\ TypeOK /\ Written /\ level \in {"ask", "allow"} /\ active \in Nat /\ handle \in 0..MaxGen
         /\ Asked /\ Approved /\ (pend # "none" => level = "ask")
         /\ handle # 0 => /\ handle \in Generations /\ handle = active /\ gen[handle] = "completed"
                          /\ transfer = "completed" /\ (level = "ask" => pend = "executed")
<1>1. TypeOK /\ Written /\ Asked /\ Approved
  BY DEF UploadsInv, Unedited
<1>2. level \in {"ask", "allow"} /\ active \in Nat /\ handle \in 0..MaxGen /\ MaxGen \in Nat
  BY <1>1, UploadsAssumption DEF TypeOK, Levels, Asked
<1>3. handle # 0 => handle \in Generations /\ handle = active /\ gen[handle] = "completed"
  BY <1>1, <1>2 DEF Written, Published, OnePublication, Generations
<1> QED
  BY <1>1, <1>2, <1>3 DEF Asked, Approved

LEMMA SteadyStays ==
  ASSUME UploadsInv, UploadsInv', Unedited, Steady
  PROVE  Unedited'
<1>1. /\ TypeOK /\ Written /\ level \in {"ask", "allow"} /\ active \in Nat /\ handle \in 0..MaxGen
      /\ Asked /\ Approved /\ (pend # "none" => level = "ask")
      /\ handle # 0 => /\ handle \in Generations /\ handle = active /\ gen[handle] = "completed"
                       /\ transfer = "completed" /\ (level = "ask" => pend = "executed")
  BY UneditedFacts
<1>2. /\ level' = level /\ active' = active /\ handle' = handle
      /\ (transfer' = "none" <=> transfer = "none")
      /\ (pend' = "none" => pend = "none") /\ (pend \in Refused => pend' \in Refused)
      /\ (level = "allow" => pend' = "none")
  BY <1>1 DEF Steady, SteadyPending, Refused, Asked
<1>3. Asked'
  BY <1>1, <1>2 DEF Asked
<1>4. \A g \in Generations : gen'[g] \in Unfinished =>
        gen[g] \in Unfinished /\ cleanup'[g] = cleanup[g] /\ (gen'[g] \in Lively => gen[g] \in Lively)
  BY DEF Steady, SteadyTickets
<1>5. ASSUME NEW g \in object, g \notin object'
      PROVE  /\ g # handle
             /\ \A w \in Writers : pc[w] \in {"put", "stored"} /\ job[w].gen = g => gen[g] \notin Lively
  <2>1. g \in Generations
    BY <1>1, <1>5 DEF TypeOK
  <2>2. CASE cleanup[g] = "debt"
    <3>1. g # handle
      BY <1>1, <2>1, <2>2, UploadsAssumption DEF Approved, Generations
    <3>2. gen[g] \notin Lively
      BY <1>1, <2>1, <2>2 DEF Approved, Unfinished
    <3> QED
      BY <3>1, <3>2
  <2>3. CASE \E v \in Writers : pc[v] = "cleaning" /\ job[v].gen = g
    <3>1. PICK v \in Writers : pc[v] = "cleaning" /\ job[v].gen = g
      BY <2>3
    <3>2. g # handle
      BY <3>1 DEF Unedited, CarriesOn, Writing
    <3>3. \A w \in Writers : ~(pc[w] \in {"put", "stored"} /\ job[w].gen = g)
      BY <1>1, <3>1 DEF Written, OneWriterPerTicket, Writing
    <3> QED
      BY <3>2, <3>3
  <2> QED
    BY <1>5, <2>2, <2>3 DEF Steady
<1>6. Approved'
  <2>1. ASSUME transfer' = "in_progress", active # 0, gen'[active] \in Lively
        PROVE  level = "allow" \/ pend' = "executing"
    <3>1. active \in Generations
      BY <1>1, <2>1 DEF TypeOK, Generations
    <3>2. gen[active] \in Lively
      BY <1>4, <2>1, <3>1 DEF Unfinished
    <3>3. transfer = "in_progress" /\ (pend = "executing" => pend' = "executing")
      BY <2>1 DEF Steady
    <3> QED
      BY <1>1, <2>1, <3>2, <3>3 DEF Approved
  <2>2. ASSUME handle # 0
        PROVE  /\ transfer' = "completed" /\ handle \in object' /\ stopped'[handle] /\ cleanup'[handle] = "published"
               /\ level = "ask" => pend' = "executed"
    <3>1. handle \in object /\ stopped[handle] /\ cleanup[handle] = "published"
      BY <1>1, <2>2 DEF Approved
    <3>2. handle \in object'
      BY <1>5, <3>1
    <3>3. stopped'[handle] /\ cleanup'[handle] = "published"
      BY <1>1, <2>2, <3>1 DEF Steady, SteadyTickets
    <3>4. transfer' = "completed"
      BY <2>2 DEF Steady
    <3>5. level = "ask" => pend' = "executed"
      BY <1>1, <2>2 DEF Steady, SteadyPending
    <3> QED
      BY <3>2, <3>3, <3>4, <3>5
  <2>3. \A g \in Generations : gen'[g] \in Unfinished => cleanup'[g] = "reserved"
    BY <1>1, <1>4 DEF Approved
  <2> QED
    BY <1>2, <2>1, <2>2, <2>3 DEF Approved
<1>7. ASSUME NEW w \in Writers
      PROVE  CarriesOn(w)'
  <2>1. CASE pc'[w] = pc[w] /\ job'[w] = job[w]
    <3>1. CarriesOn(w) /\ WriterBy(w)
      BY <1>1 DEF Unedited, Written, WritersOK
    <3>2. pc[w] # "idle" => job[w].gen \in Generations
      BY WriterFacts
    <3>3. pc[w] \in {"put", "stored"} /\ gen'[job[w].gen] \in Lively => job[w].gen \in object'
      <4> SUFFICES ASSUME pc[w] \in {"put", "stored"}, gen'[job[w].gen] \in Lively
                   PROVE  job[w].gen \in object'
        OBVIOUS
      <4>1. gen[job[w].gen] \in Lively
        BY <1>4, <3>2 DEF Unfinished
      <4>2. job[w].gen \in object
        BY <3>1, <4>1 DEF CarriesOn
      <4> QED
        BY <1>5, <4>1, <4>2
    <3> QED
      BY <1>2, <2>1, <3>1, <3>3 DEF CarriesOn, Writing
  <2> QED
    BY <2>1 DEF Steady
<1>8. ASSUME NEW e \in Requests
      PROVE  RequestBy(e)'
  <2>1. CASE pc'[e] = pc[e] /\ seen'[e] = seen[e]
    BY <1>2, <2>1 DEF Unedited, RequestBy
  <2> QED
    BY <2>1 DEF Steady
<1> QED
  BY <1>3, <1>6, <1>7, <1>8 DEF Unedited

LEMMA ClosesSteadily ==
  ASSUME TypeOK, Closes
  PROVE  SteadyTickets
BY DEF Closes, SteadyTickets, Unfinished, Lively

\* A request that only reads, or shows, or refuses.
LEMMA ShortRequestStays ==
  ASSUME UploadsInv, UploadsInv', Unedited, NEW e \in Requests, ShortRequest(e), ~Create(e)
  PROVE  Unedited'
<1>1. /\ TypeOK /\ Written /\ level \in {"ask", "allow"} /\ Asked /\ Approved /\ (pend # "none" => level = "ask")
      /\ handle # 0 => /\ handle \in Generations /\ handle = active /\ gen[handle] = "completed"
                       /\ transfer = "completed" /\ (level = "ask" => pend = "executed")
  BY UneditedFacts
<1>2. RequestFrame(e) /\ RequestBy(e)
  BY <1>1, RequestDoes DEF Unedited
<1>3. /\ level' = level /\ UNCHANGED <<active, handle, object, job>> /\ SteadyTickets
      /\ \A w \in Writers : pc'[w] = pc[w] /\ job'[w] = job[w]
      /\ \A d \in Requests \ {e} : pc'[d] = pc[d] /\ seen'[d] = seen[d]
      /\ transfer' = "in_progress" => transfer = "in_progress"
  BY <1>1, <1>2, ClosesSteadily, WriterIsNoRequest DEF RequestFrame, Apart, policy, bucket
<1>4. seen \in [Requests -> Views]
  BY <1>1, ViewFields
<1>5. ASSUME RequestBy(e)', (transfer' = "none" <=> transfer = "none"), handle # 0 => transfer' = "completed",
             SteadyPending,
             transfer' = "in_progress" /\ pend = "executing" => pend' = "executing"
      PROVE  Unedited'
  <2>1. Steady
    BY <1>3, <1>5 DEF Steady
  <2> QED
    BY <2>1, SteadyStays
<1>6. CASE Finish(e) /\ UNCHANGED <<transfer, pend>>
  <2>1. pc'[e] = "idle"
    BY <1>1, <1>6, FinishIs DEF Sees
  <2> QED
    BY <1>1, <1>5, <1>6, <2>1 DEF RequestBy, SteadyPending
<1>7. CASE EndRequest(e)
  BY <1>6, <1>7 DEF EndRequest, row
<1>8. CASE Read(e)
  <2>1. pc'[e] \in {"expiring", "read"}
    BY <1>1, <1>8, GotoIs DEF Read, RequestSteps
  <2>2. transfer # "none" /\ UNCHANGED <<transfer, pend>>
    BY <1>8 DEF Read, row
  <2> QED
    BY <1>1, <1>5, <2>1, <2>2 DEF RequestBy, SteadyPending
<1>9. CASE ExpireOnRead(e)
  <2>1. pc'[e] = "idle" /\ pc[e] = "expiring"
    BY <1>1, <1>9, FinishIs DEF Sees, ExpireOnRead, At
  <2>2. pend' = pend /\ transfer # "none" /\ transfer' \in {transfer, "expired"} /\ (transfer = "completed" => transfer' = transfer)
    BY <1>2, <1>9, <2>1 DEF ExpireOnRead, RequestBy
  <2> QED
    BY <1>1, <1>5, <2>1, <2>2 DEF RequestBy, SteadyPending
<1>10. CASE Consult(e)
  <2>1. level # "deny" /\ pc[e] = "read" /\ UNCHANGED <<transfer, pend>>
    BY <1>1, <1>10 DEF Consult, At, row
  <2>2. seen' = [seen EXCEPT ![e] = [seen[e] EXCEPT !.level = level, !.revision = revision,
                         !.pend = IF seen[e].asked THEN pend ELSE "none"]] /\ Goto(e, "deciding")
    BY <1>10, <2>1 DEF Consult
  <2>3. pc'[e] = "deciding"
    BY <1>1, <2>2, GotoIs DEF RequestSteps
  <2>4. seen'[e].level = level /\ seen'[e].pend \in {pend, "none"}
    BY <1>4, <2>2 DEF Views
  <2>5. RequestBy(e)'
    BY <1>1, <1>2, <1>3, <2>1, <2>3, <2>4 DEF RequestBy, Refused
  <2> QED
    BY <1>1, <1>5, <2>1, <2>5 DEF SteadyPending
<1>11. ~DenyTransfer(e)
  BY <1>2 DEF DenyTransfer, RequestBy, At
<1>12. CASE Suspend(e)
  <2>1. /\ pc' = pc /\ pc[e] = "deciding" /\ transfer = "in_progress" /\ transfer' = "awaiting_approval" /\ pend' = pend
        /\ seen' = [seen EXCEPT ![e].state = "awaiting_approval"]
    BY <1>12 DEF Suspend, At
  <2>2. seen'[e].level = seen[e].level /\ seen'[e].pend = seen[e].pend
    BY <1>4, <2>1 DEF Views
  <2>3. RequestBy(e)'
    BY <1>2, <1>3, <2>1, <2>2 DEF RequestBy
  <2> QED
    BY <1>1, <1>5, <2>1, <2>3 DEF SteadyPending
<1>13. CASE FailRefused(e)
  <2>1. pc'[e] = "idle" /\ pc[e] = "deciding" /\ transfer' = "failed" /\ pend' = pend /\ seen[e].pend \in Refused
    BY <1>1, <1>13, FinishIs DEF Sees, FailRefused, MayProceed, At, StateAfter, Refused
  <2>2. pend \in Refused /\ level = "ask" /\ transfer # "none"
    BY <1>2, <2>1 DEF RequestBy, Refused
  <2>3. handle = 0
    BY <1>1, <2>2 DEF Refused
  <2> QED
    BY <1>5, <2>1, <2>2, <2>3 DEF RequestBy, SteadyPending
<1>14. CASE RequestApproval(e)
  <2>1. /\ pc'[e] = "idle" /\ pc[e] = "deciding" /\ transfer' = "awaiting_approval" /\ pend = "none" /\ pend' = "pending"
        /\ seen[e].level = "ask"
    BY <1>1, <1>14, FinishIs DEF Sees, RequestApproval, MayProceed, At
  <2>2. FALSE
    BY <1>1, <1>2, <2>1 DEF RequestBy, Asked
  <2> QED
    BY <2>2
<1> QED
  BY <1>7, <1>8, <1>9, <1>10, <1>11, <1>12, <1>13, <1>14 DEF ShortRequest

\* The first request of a transfer: nothing can have been published.
LEMMA CreateStays ==
  ASSUME UploadsInv, UploadsInv', Unedited, NEW e \in Requests, Create(e)
  PROVE  Unedited'
<1>1. /\ TypeOK /\ Written /\ level \in {"ask", "allow"} /\ active \in Nat /\ Asked /\ Approved
      /\ (pend # "none" => level = "ask") /\ (handle # 0 => transfer = "completed")
  BY UneditedFacts
<1>2. /\ transfer = "none" /\ active = 0 /\ handle = 0
      /\ IF level = "ask" THEN transfer' = "awaiting_approval" /\ pend' = "pending"
                          ELSE transfer' = "authorized" /\ pend' = pend
      /\ UNCHANGED <<active, handle, op>> /\ UNCHANGED <<tickets, bucket, policy, account, clock, locals>>
  BY <1>1 DEF Create, Asked
<1>3. Asked'
  BY <1>1, <1>2 DEF Asked, policy
<1>4. Approved'
  BY <1>1, <1>2 DEF Approved, tickets
<1>5. \A d \in Requests : RequestBy(d)'
  BY <1>1, <1>2 DEF Unedited, RequestBy, locals
<1>6. \A w \in Writers : CarriesOn(w)'
  BY <1>2 DEF Unedited, CarriesOn, Writing, tickets, bucket, policy, locals
<1> QED
  BY <1>3, <1>4, <1>5, <1>6 DEF Unedited

LEMMA IssueTicketStays ==
  ASSUME UploadsInv, UploadsInv', Unedited, NEW e \in Requests, IssueTicket(e)
  PROVE  Unedited'
<1>1. /\ TypeOK /\ Written /\ level \in {"ask", "allow"} /\ active \in Nat /\ Asked /\ Approved
      /\ (pend # "none" => level = "ask") /\ (handle # 0 => transfer = "completed") /\ RequestBy(e)
  BY UneditedFacts DEF Unedited
<1>2. /\ seen[e].active = active /\ pc[e] = "deciding" /\ transfer # "completed" /\ handle = 0
      /\ active' = active + 1 /\ transfer' = "in_progress"
      /\ (pend' = pend \/ (pend = "approved" /\ pend' = "executing"))
      /\ UNCHANGED <<handle, bucket, policy, account, job>>
  BY <1>1 DEF IssueTicket, CanIssue, MayProceed, At
<1>3. transfer # "none"
  BY <1>1, <1>2 DEF RequestBy
<1>4. \A g \in Generations :
        /\ gen'[g] = IF g = active + 1 THEN "issued" ELSE IF g = active /\ gen[g] = "issued" THEN "expired" ELSE gen[g]
        /\ cleanup'[g] = IF g = active /\ gen[g] = "issued" THEN "released" ELSE cleanup[g]
  BY <1>2 DEF IssueTicket
<1>5. Sees(e, "idle", Unread)
  BY <1>1, FinishIs DEF IssueTicket
<1>6. /\ pc'[e] = "idle" /\ \A d \in Requests \ {e} : pc'[d] = pc[d] /\ seen'[d] = seen[d]
      /\ \A w \in Writers : pc'[w] = pc[w] /\ job'[w] = job[w]
  BY <1>2, <1>5, WriterIsNoRequest DEF Sees, Apart
<1>7. Asked'
  BY <1>1, <1>2, <1>3 DEF Asked, policy
<1>8. active' \in Generations
  <2>1. TypeOK'
    BY DEF UploadsInv
  <2> QED
    BY <1>1, <1>2, <2>1, UploadsAssumption DEF TypeOK, Generations
<1>9. Approved'
  <2>1. gen'[active'] = "issued"
    BY <1>2, <1>4, <1>8
  <2>2. gen[active'] = "none"
    BY <1>1, <1>2, <1>8 DEF Written, Numbered
  <2>3. ASSUME NEW g \in Generations, gen'[g] \in Unfinished
        PROVE  cleanup'[g] = "reserved"
    <3>1. gen[g] \in Unfinished /\ cleanup'[g] = cleanup[g]
      BY <1>1, <1>2, <1>4, <2>2, <2>3 DEF Unfinished, Lively
    <3> QED
      BY <1>1, <3>1 DEF Approved
  <2> QED
    BY <1>2, <2>1, <2>3 DEF Approved, Lively
<1>10. ASSUME NEW d \in Requests
       PROVE  RequestBy(d)'
  BY <1>2, <1>3, <1>6 DEF Unedited, RequestBy, Refused, policy
<1>11. ASSUME NEW w \in Writers
       PROVE  CarriesOn(w)'
  <2>1. CarriesOn(w) /\ (pc[w] # "idle" => job[w].gen \in 1..active /\ job[w].gen \in Generations)
    BY <1>1, WriterFacts DEF Unedited, WriterBy
  <2>2. pc[w] # "idle" /\ gen'[job[w].gen] \in Lively => gen[job[w].gen] \in Lively
    BY <1>1, <1>4, <2>1 DEF Lively
  <2> QED
    BY <1>2, <1>6, <2>1, <2>2 DEF CarriesOn, Writing, bucket, policy
<1> QED
  BY <1>7, <1>9, <1>10, <1>11 DEF Unedited

\* A step of a writer that leaves the tickets alone and takes nothing out of the bucket.
LEMMA WriterMovesStays ==
  ASSUME UploadsInv, UploadsInv', Unedited, NEW w \in Writers, NEW s, NEW new, Becomes(w, s, new), CarriesOn(w)',
         UNCHANGED <<row, tickets, policy, account, clock, seen>>, object \subseteq object'
  PROVE  Unedited'
<1>1. /\ TypeOK /\ (handle # 0 => transfer = "completed")
  BY UneditedFacts
<1>2. SteadyTickets
  BY <1>1 DEF SteadyTickets, tickets, Unfinished
<1>3. \A e \in Requests : pc'[e] = pc[e] /\ seen'[e] = seen[e]
  BY WriterIsNoRequest DEF Becomes, Apart
<1>4. \A v \in Writers \ {w} : pc'[v] = pc[v] /\ job'[v] = job[v]
  BY OthersStay
<1>5. Steady
  BY <1>1, <1>2, <1>3, <1>4 DEF Steady, SteadyPending, row, policy
<1> QED
  BY <1>5, SteadyStays

LEMMA NothingToCarry ==
  ASSUME NEW w \in Writers, pc'[w] = "idle"
  PROVE  CarriesOn(w)'
BY DEF CarriesOn, Writing

LEMMA AlongStays ==
  ASSUME UploadsInv, UploadsInv', Unedited, NEW w \in Writers,
         \/ \E g \in Generations : Present(w, g)
         \/ WriterConsult(w) \/ Receive(w) \/ Put(w) \/ PublishFails(w) \/ Catch(w) \/ StopWriter(w)
  PROVE  Unedited'
<1>1. /\ TypeOK /\ Written /\ level \in {"ask", "allow"} /\ active \in Nat /\ Asked /\ Approved /\ CarriesOn(w) /\ WriterBy(w)
      /\ handle # 0 => handle \in Generations /\ gen[handle] = "completed" /\ transfer = "completed"
  BY UneditedFacts DEF Unedited, Written, WritersOK
<1>2. /\ job \in [Writers -> Jobs] /\ job[w] \in Jobs
      /\ job[w].gen \in 0..MaxGen /\ job[w].asked \in BOOLEAN /\ job[w].revision \in 0..MaxRevision
      /\ job[w].credential \in 0..MaxCredential /\ job[w].cause \in Causes /\ job[w].gen \in Nat
  BY <1>1, JobFields, UploadsAssumption
<1>3. ASSUME NEW g \in Generations, Present(w, g)
      PROVE  Unedited'
  <2> DEFINE asks == (pend # "none")
  <2> DEFINE new == [NoJob EXCEPT !.gen = g, !.asked = asks]
  <2>1. /\ Goto(w, "presented") /\ job' = [job EXCEPT ![w] = new] /\ active = g
        /\ UNCHANGED <<row, tickets, bucket, policy, account, clock, seen>>
    BY <1>3 DEF Present
  <2>2. asks \in BOOLEAN /\ (level = "ask" => asks) /\ g \in 0..MaxGen
    BY <1>1, <2>1, UploadsAssumption DEF Asked, Generations
  <2> HIDE DEF asks
  <2>3. new \in Jobs /\ new.asked = asks
    BY <2>2, NoJobIs DEF Jobs, NoJob
  <2> HIDE DEF new
  <2>4. Becomes(w, "presented", new)
    BY <1>1, <2>1, <2>3, JobIs DEF WriterSteps
  <2>5. CarriesOn(w)'
    BY <2>1, <2>2, <2>3, <2>4, OthersStay DEF CarriesOn, Writing, policy
  <2> QED
    BY <2>1, <2>4, <2>5, WriterMovesStays DEF bucket
<1>4. CASE WriterConsult(w)
  <2> DEFINE to == IF level = "deny" THEN "denying"
               ELSE IF level = "ask" /\ ~(job[w].asked /\ pend = "executing") THEN "suspending"
               ELSE IF ~connected THEN "refusing" ELSE "admitting"
  <2> DEFINE new == [job[w] EXCEPT !.revision = revision, !.credential = credential]
  <2>1. /\ Goto(w, to) /\ job' = [job EXCEPT ![w] = new] /\ pc[w] = "presented"
        /\ UNCHANGED <<row, tickets, bucket, policy, account, clock, seen>>
        /\ to \in {"denying", "suspending", "refusing", "admitting"}
    BY <1>4 DEF WriterConsult, At
  <2> HIDE DEF to
  <2>2. revision \in 0..MaxRevision /\ credential \in 0..MaxCredential
    BY <1>1, UploadsAssumption DEF TypeOK
  <2>3. new \in Jobs /\ new.asked = job[w].asked
    BY <1>2, <2>2 DEF Jobs
  <2> HIDE DEF new
  <2>4. Becomes(w, to, new)
    BY <1>1, <2>1, <2>3, JobIs DEF WriterSteps
  <2>5. CarriesOn(w)'
    BY <1>1, <2>1, <2>3, <2>4, OthersStay DEF CarriesOn, Writing, policy
  <2> QED
    BY <2>1, <2>4, <2>5, WriterMovesStays DEF bucket
\* A writer whose bytes are not published fails, wherever it was.
<1>5. ASSUME NEW cause \in Causes, Fail(w, cause), UNCHANGED <<row, tickets, policy, account, clock, seen>>,
             object \subseteq object', pc[w] # "idle"
      PROVE  Unedited'
  <2>1. Becomes(w, "caught", Blamed(w, cause)) /\ job'[w].gen = job[w].gen /\ job'[w].asked = job[w].asked
    BY <1>1, <1>5, FailIs
  <2>2. pc'[w] = "caught"
    BY <2>1 DEF Becomes
  <2>3. CarriesOn(w)'
    BY <1>1, <1>5, <2>1, <2>2 DEF CarriesOn, Writing, policy
  <2> QED
    BY <1>5, <2>1, <2>3, WriterMovesStays
<1>6. ASSUME NEW s \in {"putting", "put", "failing", "abandoning"}, Goto(w, s), UNCHANGED job, pc[w] # "idle",
             UNCHANGED <<row, tickets, policy, account, clock, seen>>, object \subseteq object',
             s = "put" => job[w].gen \in object', job[w].gen # handle
      PROVE  Unedited'
  <2>1. Becomes(w, s, job[w])
    BY <1>1, <1>6, SameJobIs DEF WriterSteps
  <2>2. pc'[w] = s /\ job'[w] = job[w]
    BY <2>1 DEF Becomes
  <2>3. CarriesOn(w)'
    BY <1>1, <1>6, <2>2 DEF CarriesOn, Writing, policy, row
  <2> QED
    BY <1>6, <2>1, <2>3, WriterMovesStays
<1>7. CASE Receive(w)
  <2>1. pc[w] = "receiving" /\ UNCHANGED <<row, tickets, policy, account, clock, seen>> /\ object \subseteq object'
    BY <1>7 DEF Receive, At, bucket
  <2>2. job[w].gen # handle
    BY <1>1, <2>1 DEF CarriesOn, Writing
  <2>3. Fail(w, "integrity") \/ Fail(w, "interrupted") \/ (Goto(w, "putting") /\ UNCHANGED job)
    BY <1>7 DEF Receive
  <2> QED
    BY <1>5, <1>6, <2>1, <2>2, <2>3 DEF Causes
<1>8. CASE Put(w)
  <2>1. pc[w] = "putting" /\ UNCHANGED <<row, tickets, policy, account, clock, seen>> /\ object \subseteq object'
    BY <1>8 DEF Put, At
  <2>2. job[w].gen # handle
    BY <1>1, <2>1 DEF CarriesOn, Writing
  <2>3. (object' = object \cup {job[w].gen} /\ Goto(w, "put") /\ UNCHANGED job) \/ Fail(w, "rejected")
    BY <1>8 DEF Put
  <2> QED
    BY <1>5, <1>6, <2>1, <2>2, <2>3 DEF Causes
<1>9. CASE PublishFails(w)
  BY <1>5, <1>9 DEF PublishFails, At, bucket, Causes
<1>10. ASSUME Leave(w), UNCHANGED <<row, tickets, policy, account, clock, seen>>, object' = object
       PROVE  Unedited'
  <2>1. Becomes(w, "idle", NoJob) /\ CarriesOn(w)'
    BY <1>1, <1>10, LeaveIs, OthersStay, NothingToCarry
  <2> QED
    BY <1>10, <2>1, WriterMovesStays
<1>11. CASE Catch(w)
  <2>1. /\ pc[w] = "caught" /\ UNCHANGED <<row, tickets, policy, account, clock, seen>> /\ object' = object
    BY <1>11 DEF Catch, At, bucket
  <2>2. Leave(w) \/ (transfer # "completed" /\ UNCHANGED job /\ (Goto(w, "abandoning") \/ Goto(w, "failing")))
    BY <1>11 DEF Catch, AlreadyCompleted
  <2>3. transfer # "completed" => job[w].gen # handle
    BY <1>1, <1>2, <2>1 DEF WriterBy
  <2> QED
    BY <1>6, <1>10, <2>1, <2>2, <2>3
<1>12. CASE StopWriter(w)
  BY <1>10, <1>12 DEF StopWriter
<1> QED
  BY <1>3, <1>4, <1>7, <1>8, <1>9, <1>11, <1>12

\* A writer that takes tickets back: none was admitted, or only its own goes.
LEMMA GivingUpStays ==
  ASSUME UploadsInv, UploadsInv', Unedited, NEW w \in Writers, RefuseWriter(w) \/ SuspendTicket(w)
  PROVE  Unedited'
<1>1. /\ TypeOK /\ Written /\ active \in Nat /\ Asked /\ WriterBy(w) /\ (pend # "none" => level = "ask")
      /\ handle # 0 => handle \in Generations /\ gen[handle] = "completed" /\ transfer = "completed"
  BY UneditedFacts DEF Written, WritersOK
<1>2. Becomes(w, "idle", NoJob) /\ UNCHANGED <<bucket, policy, account, clock, seen>>
  BY <1>1, LeaveIs DEF RefuseWriter, SuspendTicket
<1>3. transfer # "none"
  <2>1. pc[w] # "idle"
    BY DEF RefuseWriter, SuspendTicket, At
  <2>2. active # 0
    BY <1>1, <2>1 DEF WriterBy
  <2> QED
    BY <1>1, <2>2 DEF Asked
<1>4. /\ \A v \in Writers : (pc'[v] = pc[v] /\ job'[v] = job[v]) \/ CarriesOn(v)'
      /\ \A e \in Requests : pc'[e] = pc[e] /\ seen'[e] = seen[e]
  BY <1>2, OthersStay, NothingToCarry, WriterIsNoRequest DEF Becomes, Apart
<1>5. ASSUME SteadyTickets, SteadyPending, UNCHANGED <<active, handle>>,
             transfer' # "in_progress", transfer' # "none", transfer = "completed" => transfer' = "completed"
      PROVE  Unedited'
  <2>1. Steady
    BY <1>1, <1>2, <1>3, <1>4, <1>5 DEF Steady, bucket, policy
  <2> QED
    BY <2>1, SteadyStays
<1>6. CASE RefuseWriter(w)
  <2> DEFINE to == IF At(w, "denying") THEN "denied" ELSE "failed"
  <2>1. to \in {"denied", "failed"} /\ Terminate(to, TRUE, job[w].asked)
    BY <1>6 DEF RefuseWriter
  <2> HIDE DEF to
  <2>2. job[w].asked \in BOOLEAN
    BY <1>1, JobFields
  <2>3. Closes /\ UNCHANGED <<active, handle>> /\ transfer' \in {"completed", to} /\ (transfer' = "completed" <=> transfer = "completed")
    BY <1>1, <2>1, <2>2, TerminateIs
  <2>4. SteadyPending
    BY <2>1 DEF Terminate, SteadyPending
  <2> QED
    BY <1>1, <1>5, <2>1, <2>3, <2>4, ClosesSteadily
<1>7. CASE SuspendTicket(w)
  <2>1. job[w].gen \in Generations
    BY <1>7, WriterFacts DEF SuspendTicket, At
  <2>2. Closes
    BY <1>1, <1>7, <2>1, WithdrawIs DEF SuspendTicket
  <2> QED
    BY <1>1, <1>5, <1>7, <2>2, ClosesSteadily DEF SuspendTicket, SteadyPending
<1> QED
  BY <1>6, <1>7

LEMMA AdmitStays ==
  ASSUME UploadsInv, UploadsInv', Unedited, NEW w \in Writers, Admit(w)
  PROVE  Unedited'
<1> DEFINE g == job[w].gen
<1>1. /\ TypeOK /\ Written /\ level \in {"ask", "allow"} /\ Asked /\ Approved /\ CarriesOn(w) /\ LetThrough(w)
      /\ handle # 0 => gen[handle] = "completed"
  BY UneditedFacts, WriterFacts DEF Unedited
<1>2. /\ pc[w] = "admitting" /\ transfer = "in_progress" /\ active = g /\ gen[g] = "issued" /\ revision = job[w].revision
      /\ gen' = [gen EXCEPT ![g] = "uploading"]
      /\ UNCHANGED <<transfer, active, handle, pend, cleanup, stopped, receipt>>
      /\ UNCHANGED <<bucket, policy, account, clock, seen, job>> /\ Goto(w, "receiving") /\ UNCHANGED job
  BY DEF Admit, CanAdmit, StillIssued, SamePolicy, At
<1>3. g \in Generations
  BY <1>2, WriterFacts
<1>4. Becomes(w, "receiving", job[w])
  BY <1>1, <1>2, SameJobIs DEF WriterSteps
<1>5. /\ pc'[w] = "receiving" /\ job'[w] = job[w] /\ \A v \in Writers \ {w} : pc'[v] = pc[v] /\ job'[v] = job[v]
      /\ \A e \in Requests : pc'[e] = pc[e] /\ seen'[e] = seen[e]
  BY <1>2, <1>4, OthersStay, WriterIsNoRequest DEF Becomes, Apart
<1>6. level = "allow" \/ (level = "ask" /\ pend = "executing")
  BY <1>1, <1>2 DEF LetThrough
<1>7. gen'[g] = "uploading" /\ \A h \in Generations \ {g} : gen'[h] = gen[h]
  BY <1>1, <1>2, <1>3 DEF TypeOK
<1>8. Asked'
  BY <1>1, <1>2 DEF Asked, policy
<1>9. Approved'
  <2>1. \A h \in Generations : gen'[h] \in Unfinished => cleanup[h] = "reserved"
    BY <1>1, <1>2, <1>3, <1>7 DEF Approved, Unfinished
  <2> QED
    BY <1>1, <1>2, <1>6, <2>1 DEF Approved, bucket, policy
<1>10. \A e \in Requests : RequestBy(e)'
  BY <1>2, <1>5 DEF Unedited, RequestBy, policy
<1>11. CarriesOn(w)'
  <2>1. g # handle
    BY <1>1, <1>2, <1>3, UploadsAssumption DEF Generations
  <2> QED
    BY <1>1, <1>2, <1>5, <2>1 DEF CarriesOn, Writing, policy
<1>12. ASSUME NEW v \in Writers \ {w}
       PROVE  CarriesOn(v)'
  <2>1. CarriesOn(v) /\ pc'[v] = pc[v] /\ job'[v] = job[v]
    BY <1>5 DEF Unedited
  <2>2. Writing(v) => job[v].gen # g /\ job[v].gen \in Generations
    BY <1>1, <1>2, <1>3, WriterFacts DEF Written, Untouched, Writing
  <2>3. Writing(v) => gen'[job[v].gen] = gen[job[v].gen]
    BY <1>7, <2>2
  <2> QED
    BY <1>2, <2>1, <2>3 DEF CarriesOn, Writing, bucket, policy
<1> QED
  BY <1>8, <1>9, <1>10, <1>11, <1>12 DEF Unedited

LEMMA StoreStays ==
  ASSUME UploadsInv, UploadsInv', Unedited, NEW w \in Writers, Store(w)
  PROVE  Unedited'
<1> DEFINE g == job[w].gen
<1>1. /\ TypeOK /\ Written /\ Asked /\ Approved /\ CarriesOn(w)
      /\ handle # 0 => handle \in Generations /\ gen[handle] = "completed" /\ transfer = "completed"
  BY UneditedFacts DEF Unedited
<1>2. /\ pc[w] = "put" /\ UNCHANGED <<row, cleanup, stopped, receipt>> /\ UNCHANGED <<bucket, policy, account, clock, seen>>
      /\ g \in Generations
  BY WriterFacts DEF Store, At
<1>3. CASE gen[g] = "uploading" /\ gen' = [gen EXCEPT ![g] = "stored"] /\ Goto(w, "stored") /\ UNCHANGED job
  <2>1. Becomes(w, "stored", job[w])
    BY <1>1, <1>3, SameJobIs DEF WriterSteps
  <2>2. gen'[g] = "stored" /\ \A h \in Generations \ {g} : gen'[h] = gen[h]
    BY <1>1, <1>2, <1>3 DEF TypeOK
  <2>3. pc'[w] = "stored" /\ job'[w] = job[w] /\ \A v \in Writers \ {w} : pc'[v] = pc[v] /\ job'[v] = job[v]
    BY <2>1, OthersStay
  <2>4. CarriesOn(w)'
    BY <1>1, <1>2, <1>3, <2>3 DEF CarriesOn, Writing, Lively, row, bucket, policy
  <2>5. \A e \in Requests : pc'[e] = pc[e] /\ seen'[e] = seen[e]
    BY <2>1, WriterIsNoRequest, <1>2 DEF Becomes, Apart
  <2> HIDE DEF g
  <2>6. SteadyTickets
    BY <1>2, <1>3, <2>2 DEF SteadyTickets, Unfinished, Lively
  <2>7. Steady
    BY <1>1, <1>2, <2>3, <2>4, <2>5, <2>6 DEF Steady, SteadyPending, row, bucket, policy
  <2> QED
    BY <2>7, SteadyStays
<1>4. CASE Fail(w, "refused") /\ UNCHANGED gen
  <2>1. Becomes(w, "caught", Blamed(w, "refused")) /\ job'[w].gen = job[w].gen /\ job'[w].asked = job[w].asked
    BY <1>1, <1>4, FailIs DEF Causes
  <2>2. pc'[w] = "caught"
    BY <2>1 DEF Becomes
  <2>3. CarriesOn(w)'
    BY <1>1, <1>2, <2>1, <2>2 DEF CarriesOn, Writing, policy
  <2> QED
    BY <1>2, <1>4, <2>1, <2>3, WriterMovesStays DEF bucket, tickets
<1> QED
  BY <1>3, <1>4 DEF Store

\* Publication uses the approval up, and finds the bytes where the writer left them.
LEMMA PublishStays ==
  ASSUME UploadsInv, UploadsInv', Unedited, NEW w \in Writers, Publish(w)
  PROVE  Unedited'
<1> DEFINE g == job[w].gen
<1>1. /\ TypeOK /\ Written /\ level \in {"ask", "allow"} /\ Asked /\ Approved /\ CarriesOn(w) /\ WriterBy(w)
      /\ (pend # "none" => level = "ask") /\ active \in Nat
      /\ handle # 0 => transfer = "completed"
  BY UneditedFacts DEF Unedited, Written, WritersOK
<1>2. /\ pc[w] = "stored" /\ transfer = "in_progress" /\ active = g /\ gen[g] = "stored"
      /\ gen' = [gen EXCEPT ![g] = "completed"] /\ cleanup' = [cleanup EXCEPT ![g] = "published"]
      /\ stopped' = [stopped EXCEPT ![g] = TRUE]
      /\ transfer' = "completed" /\ handle' = g
      /\ pend' = (IF job[w].asked /\ pend = "executing" THEN "executed" ELSE pend)
      /\ (Leave(w) \/ Fail(w, "refused"))
      /\ active' = active /\ UNCHANGED <<bucket, policy, account, clock, seen>>
  BY DEF Publish, CanPublish, Fenced, At
<1>3. g \in Generations /\ g # 0
  BY <1>2, WriterFacts, UploadsAssumption DEF Generations
<1>4. g \in object /\ (level = "ask" => job[w].asked /\ pend = "executing")
  BY <1>1, <1>2, <1>3 DEF CarriesOn, Approved, Lively
<1>5. /\ gen'[g] = "completed" /\ cleanup'[g] = "published" /\ stopped'[g]
      /\ \A h \in Generations \ {g} : gen'[h] = gen[h] /\ cleanup'[h] = cleanup[h]
  BY <1>1, <1>2, <1>3 DEF TypeOK
<1>6. /\ pc'[w] = "idle" \/ (pc'[w] = "caught" /\ job'[w].asked = job[w].asked)
      /\ \A v \in Writers \ {w} : pc'[v] = pc[v] /\ job'[v] = job[v]
      /\ \A e \in Requests : pc'[e] = pc[e] /\ seen'[e] = seen[e]
  <2>1. CASE Leave(w)
    BY <1>1, <1>2, <2>1, LeaveIs, OthersStay, WriterIsNoRequest DEF Becomes, Apart
  <2>2. CASE Fail(w, "refused")
    <3>1. Becomes(w, "caught", Blamed(w, "refused")) /\ job'[w].asked = job[w].asked
      BY <1>1, <2>2, FailIs DEF Causes
    <3> QED
      BY <1>2, <3>1, OthersStay, WriterIsNoRequest DEF Becomes, Apart
  <2> QED
    BY <1>2, <2>1, <2>2
<1>7. Asked'
  BY <1>1, <1>2 DEF Asked, policy
<1>8. Approved'
  <2>1. \A h \in Generations : gen'[h] \in Unfinished => cleanup'[h] = "reserved"
    BY <1>1, <1>5 DEF Approved, Unfinished, Lively
  <2> QED
    BY <1>2, <1>4, <1>5, <2>1 DEF Approved, bucket, policy
<1>9. \A e \in Requests : RequestBy(e)'
  BY <1>1, <1>2, <1>6 DEF Unedited, RequestBy, Refused, policy
<1>10. CarriesOn(w)'
  BY <1>1, <1>2, <1>6 DEF CarriesOn, Writing, policy
<1>11. ASSUME NEW v \in Writers \ {w}
       PROVE  CarriesOn(v)'
  <2>1. CarriesOn(v) /\ pc'[v] = pc[v] /\ job'[v] = job[v]
    BY <1>6 DEF Unedited
  <2>2. Writing(v) => job[v].gen # g /\ job[v].gen \in Generations
    BY <1>1, <1>2, WriterFacts DEF Written, OneWriterPerTicket, Writing
  <2>3. Writing(v) => gen'[job[v].gen] = gen[job[v].gen]
    BY <1>5, <2>2
  <2> QED
    BY <1>2, <2>1, <2>2, <2>3 DEF CarriesOn, Writing, bucket, policy
<1> QED
  BY <1>7, <1>8, <1>9, <1>10, <1>11 DEF Unedited

LEMMA FailUploadStays ==
  ASSUME UploadsInv, UploadsInv', Unedited, NEW w \in Writers, FailUpload(w)
  PROVE  Unedited'
<1> DEFINE g == job[w].gen
<1>1. /\ TypeOK /\ Written /\ active \in Nat /\ Asked /\ CarriesOn(w) /\ WriterBy(w)
      /\ handle # 0 => handle \in Generations /\ gen[handle] = "completed" /\ transfer = "completed"
  BY UneditedFacts DEF Unedited, Written, WritersOK
<1>2. /\ pc[w] \in {"failing", "abandoning"} /\ UNCHANGED <<active, handle, receipt>>
      /\ UNCHANGED <<bucket, policy, account, clock, seen>> /\ g \in Generations
      /\ transfer' \in {transfer, "failed"} /\ (transfer = "completed" => transfer' = transfer)
      /\ pend' = pend \/ (pend = "executing" /\ pend' = "failed" /\ transfer' # "in_progress")
  BY WriterFacts DEF FailUpload, At
<1>3. transfer # "none"
  BY <1>1, <1>2 DEF WriterBy, Asked
<1> DEFINE to == IF At(w, "failing") THEN "failed" ELSE "abandoned"
<1>4. FailGeneration(w, to, WriterEnded(w)) /\ to \in {"failed", "abandoned"}
  BY DEF FailUpload
<1> HIDE DEF to
<1>5. SteadyTickets
  <2>1. CASE gen[g] \in {"uploading", "stored", "abandoned"}
    <3>1. /\ gen' = [gen EXCEPT ![g] = to] /\ cleanup' = [cleanup EXCEPT ![g] = "debt"]
          /\ stopped' = [stopped EXCEPT ![g] = WriterEnded(w)]
      BY <1>4, <2>1 DEF FailGeneration
    <3>2. /\ gen'[g] = to
          /\ \A h \in Generations \ {g} : gen'[h] = gen[h] /\ cleanup'[h] = cleanup[h] /\ stopped'[h] = stopped[h]
      BY <1>1, <1>2, <3>1 DEF TypeOK
    <3> HIDE DEF g
    <3> QED
      BY <1>4, <2>1, <3>2 DEF SteadyTickets, Unfinished, Lively
  <2>2. CASE gen[g] \notin {"uploading", "stored", "abandoned"}
    BY <1>4, <2>2 DEF FailGeneration, SteadyTickets, Unfinished
  <2> QED
    BY <2>1, <2>2
<1>6. Becomes(w, "idle", NoJob) \/ Becomes(w, "cleaning", job[w])
  BY <1>1, LeaveIs, SameJobIs DEF FailUpload, WriterSteps
<1>7. /\ CarriesOn(w)'
      /\ \A v \in Writers \ {w} : pc'[v] = pc[v] /\ job'[v] = job[v]
      /\ \A e \in Requests : pc'[e] = pc[e] /\ seen'[e] = seen[e]
  <2>1. CASE Becomes(w, "idle", NoJob)
    BY <1>2, <2>1, OthersStay, NothingToCarry, WriterIsNoRequest DEF Becomes, Apart
  <2>2. CASE Becomes(w, "cleaning", job[w])
    <3>1. pc'[w] = "cleaning" /\ job'[w] = job[w]
      BY <2>2, OthersStay
    <3>2. CarriesOn(w)'
      BY <1>1, <1>2, <3>1 DEF CarriesOn, Writing, policy
    <3> QED
      BY <1>2, <2>2, <3>2, OthersStay, WriterIsNoRequest DEF Becomes, Apart
  <2> QED
    BY <1>6, <2>1, <2>2
<1>8. SteadyPending
  BY <1>2 DEF SteadyPending
<1>9. Steady
  BY <1>1, <1>2, <1>3, <1>5, <1>7, <1>8 DEF Steady, bucket, policy
<1> QED
  BY <1>9, SteadyStays

LEMMA CleanStays ==
  ASSUME UploadsInv, UploadsInv', Unedited, NEW w \in Writers, Clean(w)
  PROVE  Unedited'
<1> DEFINE g == job[w].gen
<1>1. TypeOK /\ (handle # 0 => handle \in Generations /\ gen[handle] = "completed" /\ transfer = "completed")
  BY UneditedFacts
<1>2. /\ pc[w] = "cleaning" /\ g \in Generations
      /\ (object' = object \/ object' = object \ {g})
      /\ \/ cleanup' = cleanup
         \/ gen[g] \in {"failed", "abandoned"} /\ cleanup' = [cleanup EXCEPT ![g] = "released"]
      /\ UNCHANGED <<row, gen, stopped, receipt, landing>> /\ UNCHANGED <<policy, account, clock, seen>>
  BY WriterFacts DEF Clean, At
<1>3. Becomes(w, "idle", NoJob)
  BY <1>1, LeaveIs DEF Clean
<1>4. /\ CarriesOn(w)' /\ (\A v \in Writers \ {w} : pc'[v] = pc[v] /\ job'[v] = job[v])
      /\ \A e \in Requests : pc'[e] = pc[e] /\ seen'[e] = seen[e]
  BY <1>2, <1>3, OthersStay, NothingToCarry, WriterIsNoRequest DEF Becomes, Apart
<1>5. \A h \in object : h \in object' \/ (pc[w] = "cleaning" /\ job[w].gen = h)
  BY <1>2
<1> HIDE DEF g
<1>6. SteadyTickets
  BY <1>1, <1>2 DEF TypeOK, SteadyTickets, Unfinished, Lively
<1>7. Steady
  BY <1>1, <1>2, <1>4, <1>5, <1>6 DEF Steady, SteadyPending, row, policy
<1> QED
  BY <1>7, SteadyStays

\* The cron, the owner, the clock and R2 move nobody.
LEMMA QuietStays ==
  ASSUME UploadsInv, UploadsInv', Unedited, SameLocals, level' = level, UNCHANGED <<active, handle>>,
         transfer' = "none" <=> transfer = "none", handle # 0 => transfer' = "completed",
         transfer' = "in_progress" => transfer = "in_progress" /\ (pend = "executing" => pend' = "executing"),
         SteadyTickets, SteadyPending, \A g \in object : g \in object' \/ cleanup[g] = "debt"
  PROVE  Unedited'
<1>1. /\ \A w \in Writers : pc'[w] = pc[w] /\ job'[w] = job[w]
      /\ \A e \in Requests : pc'[e] = pc[e] /\ seen'[e] = seen[e]
  BY DEF SameLocals, locals
<1>2. Steady
  BY <1>1 DEF Steady
<1> QED
  BY <1>2, SteadyStays

LEMMA RecoveryStays ==
  ASSUME UploadsInv, UploadsInv', Unedited,
         RecoverGenerations \/ RecoverTransfer \/ \E g \in Generations : Sweep(g) \/ Land(g)
  PROVE  Unedited'
<1>1. TypeOK /\ (handle # 0 => handle \in Generations /\ gen[handle] = "completed" /\ transfer = "completed")
  BY UneditedFacts
<1>2. CASE RecoverGenerations
  <2>1. /\ UNCHANGED <<row, receipt, bucket, policy, account, clock, locals>>
        /\ gen' = [g \in Generations |->
                 IF ~Lapsed(g) THEN gen[g] ELSE IF gen[g] = "issued" THEN "expired" ELSE "abandoned"]
        /\ cleanup' = [g \in Generations |->
                 IF ~Lapsed(g) THEN cleanup[g] ELSE IF gen[g] = "issued" THEN "released" ELSE "debt"]
        /\ stopped' = [g \in Generations |-> stopped[g] \/ (Lapsed(g) /\ gen[g] = "issued")]
    BY <1>2 DEF RecoverGenerations
  <2>2. ASSUME NEW g \in Generations, gen'[g] \in Unfinished
        PROVE  gen'[g] = gen[g] /\ cleanup'[g] = cleanup[g]
    BY <2>1, <2>2 DEF Unfinished, Lively
  <2>3. ASSUME NEW g \in Generations, gen[g] = "completed"
        PROVE  stopped'[g] = stopped[g] /\ cleanup'[g] = cleanup[g]
    <3>1. ~Lapsed(g) /\ stopped[g] \in BOOLEAN
      BY <1>1, <2>3 DEF Lapsed, TypeOK
    <3> QED
      BY <2>1, <3>1
  <2>4. SteadyTickets
    BY <2>2, <2>3 DEF SteadyTickets
  <2> QED
    BY <1>1, <2>1, <2>4, QuietStays DEF SteadyPending, SameLocals, row, bucket, policy
<1>3. CASE RecoverTransfer
  <2>1. /\ transfer \in Open /\ transfer' = "expired"
        /\ pend' = pend \/ (pend \in {"pending", "approved", "executing"} /\ pend' = "expired")
        /\ UNCHANGED <<active, handle>> /\ UNCHANGED <<tickets, bucket, policy, account, clock, locals>>
    BY <1>3 DEF RecoverTransfer
  <2>2. SteadyTickets
    BY <2>1 DEF SteadyTickets, Unfinished, tickets
  <2>3. SteadyPending
    BY <2>1 DEF SteadyPending
  <2> QED
    BY <1>1, <2>1, <2>2, <2>3, QuietStays DEF Open, SameLocals, bucket, policy
<1>4. ASSUME NEW g \in Generations, Sweep(g)
      PROVE  Unedited'
  <2>1. /\ cleanup[g] = "debt" /\ object' = object \ {g}
        /\ (cleanup' = cleanup \/ cleanup' = [cleanup EXCEPT ![g] = "released"])
        /\ UNCHANGED <<row, gen, stopped, receipt, landing, policy, account, clock, locals>>
    BY <1>4 DEF Sweep
  <2>2. gen[g] \notin Unfinished /\ gen[g] # "completed"
    <3>1. gen[g] \notin Unfinished
      BY <2>1 DEF Unedited, Approved
    <3>2. gen[g] # "completed"
      <4>1. gen[g] = "completed" => handle = g
        BY DEF UploadsInv, Written, Published, OnePublication
      <4>2. handle = g => cleanup[g] = "published"
        BY UploadsAssumption DEF Unedited, Approved, Generations
      <4> QED
        BY <2>1, <4>1, <4>2
    <3> QED
      BY <3>1, <3>2
  <2>3. SteadyTickets
    BY <1>1, <2>1, <2>2 DEF TypeOK, SteadyTickets, Unfinished
  <2> QED
    BY <1>1, <2>1, <2>3, QuietStays DEF SteadyPending, SameLocals, row, policy
<1>5. ASSUME NEW g \in Generations, Land(g)
      PROVE  Unedited'
  <2>1. object' = object \cup {g} /\ UNCHANGED <<row, tickets, policy, account, clock, locals>>
    BY <1>5 DEF Land
  <2>2. SteadyTickets
    BY <2>1 DEF SteadyTickets, Unfinished, tickets
  <2> QED
    BY <1>1, <2>1, <2>2, QuietStays DEF SteadyPending, SameLocals, row, policy
<1> QED
  BY <1>2, <1>3, <1>4, <1>5

LEMMA AsideStays ==
  ASSUME UploadsInv, UploadsInv', Unedited, revision' = revision,
         \/ OwnerStep \/ ExpirePending \/ LapseAuthority \/ UNCHANGED vars
         \/ \E g \in Generations : ClockStep(g)
  PROVE  Unedited'
<1>1. TypeOK /\ (handle # 0 => handle \in Generations /\ gen[handle] = "completed" /\ transfer = "completed")
      /\ revision \in Nat
  BY UneditedFacts, UploadsAssumption DEF TypeOK
<1>2. ASSUME UNCHANGED <<transfer, active, handle, level, tickets, bucket, locals>>,
             pend' = pend \/ (pend \in {"pending", "approved"} /\ pend' # "none")
      PROVE  Unedited'
  <2>1. SteadyTickets
    BY <1>2 DEF SteadyTickets, Unfinished, tickets
  <2>2. SteadyPending
    BY <1>2 DEF SteadyPending
  <2> QED
    BY <1>1, <1>2, <2>1, <2>2, QuietStays DEF SameLocals, bucket
<1>3. CASE OwnerDecides({"pending"}, "approved") \/ OwnerDecides({"pending"}, "denied")
           \/ OwnerDecides({"pending", "approved"}, "cancelled") \/ ExpirePending
  BY <1>2, <1>3 DEF OwnerDecides, ExpirePending, policy
<1>4. \A l \in Levels : ~EditPolicy(l)
  BY <1>1 DEF EditPolicy
<1>5. CASE Revoke \/ LoseGrant \/ Reconnect
  BY <1>2, <1>5 DEF Revoke, LoseGrant, Reconnect, row, policy
<1>6. CASE LapseAuthority \/ \E g \in Generations : ClockStep(g)
  BY <1>2, <1>6 DEF LapseAuthority, ClockStep, LapseTicket, LapseLease, row, policy
<1>7. CASE UNCHANGED vars
  BY <1>2, <1>7 DEF vars, row, policy
<1> QED
  BY <1>3, <1>4, <1>5, <1>6, <1>7 DEF OwnerStep

LEMMA UneditedStays ==
  ASSUME UploadsInv, UploadsInv', Unedited, [Next]_vars, revision' = revision
  PROVE  Unedited'
<1>1. CASE \E e \in Requests : RequestStep(e)
  BY <1>1, ShortRequestStays, CreateStays, IssueTicketStays DEF RequestStep, ShortRequest
<1>2. CASE \E w \in Writers : WriterStep(w)
  BY <1>2, AlongStays, GivingUpStays, AdmitStays, StoreStays, PublishStays, FailUploadStays, CleanStays DEF WriterStep
<1>3. CASE OwnerStep \/ LapseAuthority \/ UNCHANGED vars \/ \E g \in Generations : ClockStep(g)
  BY <1>3, AsideStays
<1>4. CASE CronStep \/ \E g \in Generations : Sweep(g) \/ Land(g)
  BY <1>4, AsideStays, RecoveryStays DEF CronStep
<1> QED
  BY <1>1, <1>2, <1>3, <1>4 DEF Next

LEMMA UneditedStart ==
  ASSUME Init
  PROVE  Unedited
<1>1. (\A e \in Requests : pc[e] = "idle") /\ \A w \in Writers : pc[w] = "idle"
  BY DEF Init
<1>2. Asked /\ Approved
  BY DEF Init, Asked, Approved
<1>3. \A e \in Requests : RequestBy(e)
  BY <1>1 DEF RequestBy
<1>4. \A w \in Writers : CarriesOn(w)
  BY <1>1 DEF CarriesOn, Writing
<1> QED
  BY <1>2, <1>3, <1>4 DEF Unedited

\* As long as the owner leaves the policy alone, the object behind a published handle
\* is there and no write that was cut off can land over it: whatever fails, and whoever
\* cleans up.  (UploadsLost shows what an edit of the policy can do to it.)
THEOREM PublishedStaysStored == Spec /\ [](revision = 0) => []PublishedIsStored
<1>1. UploadsInv /\ UploadsInv' /\ Unedited /\ [Next]_vars /\ revision = 0 /\ (revision = 0)' => Unedited'
  BY UneditedStays
<1>2. UploadsInv /\ Unedited => PublishedIsStored
  <2> SUFFICES ASSUME UploadsInv, Unedited, handle # 0
               PROVE  gen[handle] = "completed" /\ handle \in object /\ handle \notin landing
    BY DEF PublishedIsStored
  <2>1. handle \in Generations /\ gen[handle] = "completed" /\ Written /\ Approved
    BY UneditedFacts
  <2> QED
    BY <2>1 DEF Written, StoppedIsTrue, Approved
<1> QED
  BY UneditedStart, UploadsInvariant, <1>1, <1>2, PTL DEF Spec
=============================================================================
