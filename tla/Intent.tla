------------------------------- MODULE Intent -------------------------------
(***************************************************************************)
(* The qualification harness of scripts/qualification: a host-wide journal *)
(* of write-once private files that lets a reviewed mutation be sent to the *)
(* deployment at most once, and a sample's first terminal truth stand for  *)
(* good.                                                                   *)
(*                                                                         *)
(* Several commands may run on the host at once, each may be killed at any *)
(* step, a directory sync may fail after its file was published, and the   *)
(* power may go: a name whose directory was never synced may then be gone. *)
(* A command under Mutating dispatches slots (mutation-dispatch.ts), one   *)
(* under Component seals its samples and publishes a closure of them       *)
(* (preparation-finalizer.ts). Both hold the same authorization, so only   *)
(* the first of the two preparations can be bound to it.                   *)
(*                                                                         *)
(* Files are opaque values, and a digest is the value it digests. Evidence *)
(* directories are content-addressed, so publishing in them is one step.   *)
(***************************************************************************)
EXTENDS Naturals, Sequences, FiniteSets

CONSTANTS
    Commands,       \* processes that may run on the host
    Slots,          \* mutation slots of the Mutating preparation
    Needs,          \* the slot whose result a slot's arguments refer to, or None
    Values,         \* what a tool call may answer
    Allocations,    \* samples of the Component preparation, in their order
    Times,          \* recordedAt of a source
    Mutating,       \* the two preparations made under one authorization
    Component,
    None,
    MaxSyncErrors,  \* directory syncs that fail
    MaxCuts         \* power losses

ASSUME IntentAssumption ==
    /\ None \notin Slots \cup Values \cup Commands \cup {Mutating, Component}
    /\ Mutating # Component
    /\ Needs \in [Slots -> Slots \cup {None}]
    /\ \A s \in Slots : Needs[s] # s
    /\ Allocations \in Seq({Allocations[n] : n \in DOMAIN Allocations})
    /\ MaxSyncErrors \in Nat /\ MaxCuts \in Nat

VARIABLES
    disk,       \* the journal directory: what each name holds, or None
    synced,     \* the names a directory sync has made durable
    cmd,        \* each command: where it is and what it holds
    valid,      \* the target still verifies and the window is still open
    calls,      \* what was sent to the deployment, by slot, in order
    closures,   \* the closures published as evidence
    lost,       \* names a power loss has taken
    errors,     \* directory syncs that failed so far
    cuts        \* power losses so far

vars == <<disk, synced, cmd, valid, calls, closures, lost, errors, cuts>>
host == <<valid, calls, closures, lost, errors, cuts>>

-----------------------------------------------------------------------------
(* What the journal holds *)

Samples == {Allocations[n] : n \in DOMAIN Allocations}
Preparations == {Mutating, Component}

Binding == [kind |-> "authorization", of |-> None]
Slot(s) == [kind |-> "slot", of |-> s]
Result(s) == [kind |-> "result", of |-> s]
Sample(x) == [kind |-> "sample", of |-> x]
Outcome(x) == [kind |-> "outcome", of |-> x]

Names == {Binding} \cup {Slot(s) : s \in Slots} \cup {Result(s) : s \in Slots}
                   \cup {Sample(x) : x \in Samples} \cup {Outcome(x) : x \in Samples}

Consumption == [slot : Slots, argument : Values \cup {None}]
IntentResult == [consumption : Consumption, value : Values]
PreparationSource ==
    [event : {"component-ready", "sample-failed", "sample-not-run"}, recordedAt : Times]

StateOf == [event \in {"component-ready", "sample-failed", "sample-not-run"} |->
               CASE event = "component-ready" -> "ready"
                 [] event = "sample-failed" -> "failed"
                 [] event = "sample-not-run" -> "not_run"]

\* An outcome names its source by digest and derives its state from the event.
outcomeOf(source) == [state |-> StateOf[source.event], source |-> source]
PreparationOutcome == {outcomeOf(source) : source \in PreparationSource}

Contents(name) ==
    CASE name.kind = "authorization" -> Preparations
      [] name.kind = "slot" -> Consumption
      [] name.kind = "result" -> IntentResult
      [] name.kind = "sample" -> PreparationSource
      [] name.kind = "outcome" -> PreparationOutcome

\* What a name that is not there holds is nothing else.
ASSUME NothingAssumption ==
    /\ None \notin Names
    /\ \A name \in Names : None \notin Contents(name)

Present == {name \in Names : disk[name] # None}

Idle == [pc |-> "idle", prep |-> None, name |-> None, body |-> None,
         answer |-> None, prior |-> None, outcomes |-> <<>>]

TypeOK ==
    /\ \A name \in Names : disk[name] \in Contents(name) \cup {None}
    /\ synced \subseteq Present
    /\ \A h \in Commands :
        /\ cmd[h].pc \in {"idle", "check", "link", "sync", "wrote", "caught", "opened",
                          "execute", "called", "checkpoint", "seal"}
        /\ cmd[h].pc \in {"check", "link", "sync", "wrote", "caught"} =>
               cmd[h].name \in Names /\ cmd[h].body \in Contents(cmd[h].name)
        /\ cmd[h].answer \in Values \cup {None}
    /\ valid \in BOOLEAN
    /\ \A s \in Slots : calls[s] \in Seq([argument : Values \cup {None}, answer : Values])
    /\ lost \subseteq Names
    /\ errors \in 0 .. MaxSyncErrors /\ cuts \in 0 .. MaxCuts

Init ==
    /\ disk = [name \in Names |-> None]
    /\ synced = {}
    /\ cmd = [h \in Commands |-> Idle]
    /\ valid = TRUE
    /\ calls = [s \in Slots |-> <<>>]
    /\ closures = {}
    /\ lost = {}
    /\ errors = 0 /\ cuts = 0

-----------------------------------------------------------------------------
(* writePrivateJson: publish a name once, by a hard link *)

Become(h, c) == cmd' = [cmd EXCEPT ![h] = c]
Goto(h, pc) == Become(h, [cmd[h] EXCEPT !.pc = pc])

\* The state of a command about to publish body under name.
Writing(h, name, body) == [cmd[h] EXCEPT !.pc = "check", !.name = name, !.body = body]

\* A name already there is refused before a temporary file is made.
Check(h) ==
    /\ cmd[h].pc = "check"
    /\ Goto(h, IF disk[cmd[h].name] = None THEN "link" ELSE "caught")
    /\ UNCHANGED <<disk, synced, host>>

\* Mutant of Link: the temporary is renamed over the name, whoever holds it.
LinkOver(h) ==
    /\ cmd[h].pc = "link"
    /\ disk' = [disk EXCEPT ![cmd[h].name] = cmd[h].body]
    /\ Goto(h, "sync")
    /\ UNCHANGED <<synced, host>>

\* The link is atomic and fails if another writer won since the check.
Link(h) ==
    /\ cmd[h].pc = "link"
    /\ \/ /\ disk[cmd[h].name] = None
          /\ disk' = [disk EXCEPT ![cmd[h].name] = cmd[h].body]
          /\ Goto(h, "sync")
       \/ /\ disk[cmd[h].name] # None
          /\ Goto(h, "caught")
          /\ UNCHANGED disk
    /\ UNCHANGED <<synced, host>>

\* A directory sync makes every name in the directory durable.
Sync(h) ==
    /\ cmd[h].pc = "sync"
    /\ synced' = Present
    /\ Goto(h, "wrote")
    /\ UNCHANGED <<disk, host>>

\* The sync fails after the link: the write reports an error, the name stays.
SyncFails(h) ==
    /\ cmd[h].pc = "sync"
    /\ errors < MaxSyncErrors
    /\ errors' = errors + 1
    /\ Goto(h, "caught")
    /\ UNCHANGED <<disk, synced, valid, calls, closures, lost, cuts>>

\* A write that failed is made good by finding exactly its own bytes there.
Published(h) ==
    \/ cmd[h].pc = "wrote"
    \/ cmd[h].pc = "caught" /\ disk[cmd[h].name] = cmd[h].body

-----------------------------------------------------------------------------
(* createIntentStore: one preparation per authorization *)

Open(h, p) ==
    /\ cmd[h].pc = "idle"
    /\ Become(h, [Writing(h, Binding, p) EXCEPT !.prep = p])
    /\ UNCHANGED <<disk, synced, host>>

\* The journal re-reads the binding it opens under.
Bound(h) ==
    /\ cmd[h].name = Binding
    /\ Published(h)
    /\ disk[Binding] = cmd[h].prep
    /\ Become(h, [Idle EXCEPT !.pc = "opened", !.prep = cmd[h].prep])
    /\ UNCHANGED <<disk, synced, host>>

-----------------------------------------------------------------------------
(* The mutation dispatcher *)

\* verify: a result is of the binding's preparation and of its slot's own consumption.
Verified(result, p) ==
    /\ disk[Binding] = p
    /\ disk[Slot(result.consumption.slot)] = result.consumption

\* The reviewed intent of s carries the argument v: it must be what the sealed
\* result of the slot s refers to says, and that result its slot's own.
Resolvable(s, v, p) ==
    IF Needs[s] = None
    THEN v = None
    ELSE /\ disk[Result(Needs[s])] # None
         /\ Verified(disk[Result(Needs[s])], p)
         /\ disk[Result(Needs[s])].value = v

\* Arguments resolved, target verified, envelope validated: spend the slot.
Dispatch(h, s, v) ==
    /\ cmd[h].pc = "opened"
    /\ cmd[h].prep = Mutating
    /\ Resolvable(s, v, Mutating)
    /\ valid
    /\ Become(h, Writing(h, Slot(s), [slot |-> s, argument |-> v]))
    /\ UNCHANGED <<disk, synced, host>>

\* Mutant of Spent: finding one's own request already there counts as new.
SpentBefore(h) ==
    /\ cmd[h].name # None /\ cmd[h].name.kind = "slot"
    /\ Published(h)
    /\ valid
    /\ Goto(h, "execute")
    /\ UNCHANGED <<disk, synced, host>>

\* consume answered "new"; the target and the envelope are checked once more.
\* A write that failed is "already-consumed" even when its own request is there.
Spent(h) ==
    /\ cmd[h].name # None /\ cmd[h].name.kind = "slot"
    /\ cmd[h].pc = "wrote"
    /\ valid
    /\ Goto(h, "execute")
    /\ UNCHANGED <<disk, synced, host>>

\* The call leaves; its answer may be lost with the command.
Execute(h, v) ==
    /\ cmd[h].pc = "execute"
    /\ LET s == cmd[h].name.of
       IN calls' = [calls EXCEPT ![s] =
                       Append(@, [argument |-> cmd[h].body.argument, answer |-> v])]
    /\ Become(h, [cmd[h] EXCEPT !.pc = "called", !.answer = v])
    /\ UNCHANGED <<disk, synced, valid, closures, lost, errors, cuts>>

\* The answer is projected, the target and the window checked a third time, the
\* consumption read back, and the projection sealed once.
Seal(h) ==
    /\ cmd[h].pc = "called"
    /\ valid
    /\ LET result == [consumption |-> cmd[h].body, value |-> cmd[h].answer]
       IN  /\ Verified(result, cmd[h].prep)
           /\ Become(h, Writing(h, Result(cmd[h].name.of), result))
    /\ UNCHANGED <<disk, synced, host>>

-----------------------------------------------------------------------------
(* The finalizer of a component preparation *)

\* The sample the finalizer is at: one past those it already has outcomes of.
At(h) == Allocations[Len(cmd[h].outcomes) + 1]

\* readSample reads the outcome first, then the checkpoint it derives from.
ReadOutcome(h) ==
    /\ cmd[h].pc = "opened"
    /\ cmd[h].prep = Component
    /\ Len(cmd[h].outcomes) < Len(Allocations)
    /\ disk[Binding] = cmd[h].prep
    /\ Become(h, [cmd[h] EXCEPT !.pc = "checkpoint", !.prior = disk[Outcome(At(h))]])
    /\ UNCHANGED <<disk, synced, host>>

\* No outcome: the pinned source's own outcome stands. An outcome of another
\* source, or without its source, is refused. Neither: the sample is still open.
ReadCheckpoint(h) ==
    LET pinned == disk[Sample(At(h))]
        prior == cmd[h].prior
    IN  /\ cmd[h].pc = "checkpoint"
        /\ \/ /\ pinned = None /\ prior = None
              /\ Goto(h, "seal")
           \/ /\ pinned # None
              /\ prior \in {None, outcomeOf(pinned)}
              /\ Become(h, [Idle EXCEPT !.pc = "opened", !.prep = Component,
                            !.outcomes = Append(cmd[h].outcomes, outcomeOf(pinned))])
        /\ UNCHANGED <<disk, synced, host>>

\* sealSample pins the first source; it is ready only inside the window.
SealSample(h, source) ==
    /\ cmd[h].pc = "seal"
    /\ source.event = "component-ready" => valid
    /\ Become(h, Writing(h, Sample(At(h)), source))
    /\ UNCHANGED <<disk, synced, host>>

\* Mutant of Pinned: a source already there is not compared with one's own.
PinnedByAny(h) ==
    /\ cmd[h].name # None /\ cmd[h].name.kind = "sample"
    /\ cmd[h].pc \in {"wrote", "caught"}
    /\ Become(h, Writing(h, Outcome(At(h)), outcomeOf(cmd[h].body)))
    /\ UNCHANGED <<disk, synced, host>>

\* The source is pinned and is this one's: its outcome is appended.
Pinned(h) ==
    /\ cmd[h].name # None /\ cmd[h].name.kind = "sample"
    /\ Published(h)
    /\ Become(h, Writing(h, Outcome(At(h)), outcomeOf(cmd[h].body)))
    /\ UNCHANGED <<disk, synced, host>>

\* appendOutcome is done; the journal is read again for what was sealed.
Appended(h) ==
    /\ cmd[h].name # None /\ cmd[h].name.kind = "outcome"
    /\ Published(h)
    /\ Become(h, [cmd[h] EXCEPT !.pc = "opened", !.name = None, !.body = None])
    /\ UNCHANGED <<disk, synced, host>>

\* Every allocation has an outcome: the closure is published.
Close(h) ==
    /\ cmd[h].pc = "opened"
    /\ cmd[h].prep = Component
    /\ Len(cmd[h].outcomes) = Len(Allocations)
    /\ closures' = closures \cup {cmd[h].outcomes}
    /\ Become(h, Idle)
    /\ UNCHANGED <<disk, synced, valid, calls, lost, errors, cuts>>

-----------------------------------------------------------------------------
(* The host *)

\* A command ends: done, refused by one of its checks, or killed.
Leave(h) ==
    /\ cmd[h].pc # "idle"
    /\ Become(h, Idle)
    /\ UNCHANGED <<disk, synced, host>>

\* The deployment drifts from the reviewed target, or the window closes.
Invalidate ==
    /\ valid
    /\ valid' = FALSE
    /\ UNCHANGED <<disk, synced, cmd, calls, closures, lost, errors, cuts>>

\* The power goes: every command with it, and any of the names never synced.
Cut(gone) ==
    /\ cuts < MaxCuts
    /\ gone \subseteq Present \ synced
    /\ disk' = [name \in Names |-> IF name \in gone THEN None ELSE disk[name]]
    /\ synced' = Present \ gone
    /\ cmd' = [h \in Commands |-> Idle]
    /\ lost' = lost \cup gone
    /\ cuts' = cuts + 1
    /\ UNCHANGED <<valid, calls, closures, errors>>

CommandStep(h) ==
    \/ Check(h) \/ Link(h) \/ Sync(h) \/ SyncFails(h) \/ Bound(h) \/ Spent(h) \/ Seal(h)
    \/ ReadOutcome(h) \/ ReadCheckpoint(h) \/ Pinned(h) \/ Appended(h) \/ Close(h) \/ Leave(h)
    \/ \E p \in Preparations : Open(h, p)
    \/ \E s \in Slots, v \in Values \cup {None} : Dispatch(h, s, v)
    \/ \E v \in Values : Execute(h, v)
    \/ \E source \in PreparationSource : SealSample(h, source)

Next ==
    \/ \E h \in Commands : CommandStep(h)
    \/ Invalidate
    \/ \E gone \in SUBSET (Present \ synced) : Cut(gone)

Spec == Init /\ [][Next]_vars

-----------------------------------------------------------------------------
(* What the journal is for *)

\* A slot is spent for good before its call leaves: whatever is killed, retried
\* or lost to the power, at most one call of a slot ever reaches the deployment.
\* ("Even a publication followed by a sync error must never become another
\* external call", consume in intent-store.ts.)
OneCallPerSlot == \A s \in Slots : Len(calls[s]) <= 1

\* A call that refers to another slot's result carries what that slot's one call
\* answered, never a value the reviewed file was written with beforehand.
ArgumentsAreAnswers ==
    \A s \in Slots : Needs[s] # None =>
        \A n \in DOMAIN calls[s] : \E m \in DOMAIN calls[Needs[s]] :
            calls[Needs[s]][m].answer = calls[s][n].argument

\* A sample's outcome on disk is always that of the source pinned for it: no
\* crash or race leaves a pair that every later reader refuses.
OutcomeFollowsSource ==
    \A x \in Samples :
        disk[Sample(x)] # None /\ disk[Outcome(x)] # None =>
            disk[Outcome(x)] = outcomeOf(disk[Sample(x)])

\* Neither an argument nor an outcome is taken from anywhere else.
NothingIsInvented == ArgumentsAreAnswers /\ OutcomeFollowsSource

\* Two closures of a preparation tell the same truth of every sample, unless a
\* power loss took the file that pinned it.
FirstTruthStands ==
    \A a, b \in closures : \A n \in DOMAIN Allocations :
        a[n] # b[n] => Sample(Allocations[n]) \in lost

\* One authorization serves one preparation: calls made under the one and a
\* closure of the other can only come from a binding lost to the power.
OnePreparation ==
    closures # {} /\ (\E s \in Slots : calls[s] # <<>>) => Binding \in lost

\* What the directory once told, it tells again.
TruthsStand == FirstTruthStands /\ OnePreparation
=============================================================================
