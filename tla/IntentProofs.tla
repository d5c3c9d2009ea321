----------------------------- MODULE IntentProofs -----------------------------
(***************************************************************************)
(* Proofs about Intent, for every number of commands, slots, samples,      *)
(* failing syncs and power losses.                                         *)
(***************************************************************************)
EXTENDS Intent, SequenceTheorems, TLAPS

Call == [argument : Values \cup {None}, answer : Values]

\* A command is a record of seven fields; what it is about to write, or spends
\* and calls with, is of the kind its name asks for; the sample it is at exists.
Shaped(h) ==
    /\ cmd[h] = [pc |-> cmd[h].pc, prep |-> cmd[h].prep, name |-> cmd[h].name,
                 body |-> cmd[h].body, answer |-> cmd[h].answer, prior |-> cmd[h].prior,
                 outcomes |-> cmd[h].outcomes]
    /\ cmd[h].prep \in Preparations \cup {None}
    /\ cmd[h].name \in Names \cup {None}
    /\ cmd[h].name # None => cmd[h].body \in Contents(cmd[h].name)
    /\ cmd[h].pc \in {"check", "link", "sync", "wrote", "caught"} => cmd[h].name # None
    /\ cmd[h].pc \in {"execute", "called"} => cmd[h].name \in {Slot(s) : s \in Slots}
    /\ cmd[h].pc = "called" => cmd[h].answer \in Values
    /\ cmd[h].outcomes \in Seq(PreparationOutcome)
    /\ cmd[h].pc \in {"checkpoint", "seal"} => At(h) \in Samples
    /\ cmd[h].name # None /\ cmd[h].name.kind = "sample" => cmd[h].name = Sample(At(h))
    /\ cmd[h].name # None /\ cmd[h].name.kind = "outcome" => cmd[h].name = Outcome(At(h))

Typed ==
    /\ cmd = [h \in Commands |-> cmd[h]]
    /\ \A h \in Commands : Shaped(h)
    /\ disk = [n \in Names |-> disk[n]]
    /\ \A n \in Names : disk[n] \in Contents(n) \cup {None}
    /\ synced \subseteq Present
    /\ calls \in [Slots -> Seq(Call)]

-----------------------------------------------------------------------------
(* The names of the directory *)

LEMMA NamesAre ==
    /\ Binding \in Names /\ Contents(Binding) = Preparations
    /\ \A s \in Slots : Slot(s) \in Names /\ Contents(Slot(s)) = Consumption
    /\ \A s \in Slots : Result(s) \in Names /\ Contents(Result(s)) = IntentResult
    /\ \A x \in Samples : Sample(x) \in Names /\ Contents(Sample(x)) = PreparationSource
    /\ \A x \in Samples : Outcome(x) \in Names /\ Contents(Outcome(x)) = PreparationOutcome
    /\ \A n \in Names : n.kind = "slot" => n = Slot(n.of) /\ n.of \in Slots
    /\ \A n \in Names : n.kind = "sample" => n = Sample(n.of) /\ n.of \in Samples
    /\ \A n \in Names : n.kind = "outcome" => n = Outcome(n.of) /\ n.of \in Samples
<1>1. /\ Binding \in Names
      /\ \A s \in Slots : Slot(s) \in Names /\ Result(s) \in Names
      /\ \A x \in Samples : Sample(x) \in Names /\ Outcome(x) \in Names
  BY DEF Names
<1>2. Contents(Binding) = Preparations
  BY DEF Contents, Binding
<1>3. \A s : Contents(Slot(s)) = Consumption /\ Contents(Result(s)) = IntentResult
  BY DEF Contents, Slot, Result
<1>4. \A x : /\ Contents(Sample(x)) = PreparationSource
             /\ Contents(Outcome(x)) = PreparationOutcome
  BY DEF Contents, Sample, Outcome
<1>5. ASSUME NEW n \in Names
      PROVE  /\ n.kind = "slot" => n = Slot(n.of) /\ n.of \in Slots
             /\ n.kind = "sample" => n = Sample(n.of) /\ n.of \in Samples
             /\ n.kind = "outcome" => n = Outcome(n.of) /\ n.of \in Samples
  BY DEF Names, Binding, Slot, Result, Sample, Outcome
<1> QED
  BY <1>1, <1>2, <1>3, <1>4, <1>5

\* A step of one command leaves every other command as it was.
LEMMA OthersStay ==
    ASSUME Typed, NEW h \in Commands, NEW c, Become(h, c)
    PROVE  /\ cmd' = [g \in Commands |-> cmd'[g]]
           /\ cmd'[h] = c
           /\ \A g \in Commands \ {h} : cmd'[g] = cmd[g] /\ (Shaped(g) => Shaped(g)')
BY DEF Typed, Become, Shaped, At

LEMMA IdleShaped ==
    ASSUME NEW h \in Commands, cmd'[h] = Idle
    PROVE  Shaped(h)'
BY EmptySeq DEF Shaped, Idle, At

LEMMA GotoShaped ==
    ASSUME Typed, NEW h \in Commands, NEW pc, Goto(h, pc),
           pc \in {"link", "sync", "wrote", "caught"} => cmd[h].name # None,
           pc = "execute" => cmd[h].name \in {Slot(s) : s \in Slots},
           pc = "seal" => At(h) \in Samples,
           pc \notin {"check", "called", "checkpoint"}
    PROVE  \A g \in Commands : Shaped(g)'
<1>1. /\ cmd'[h] = [cmd[h] EXCEPT !.pc = pc]
      /\ \A g \in Commands \ {h} : Shaped(g)'
  BY OthersStay DEF Goto, Typed
<1>2. Shaped(h)
  BY DEF Typed
<1>3. Shaped(h)'
  BY <1>1, <1>2 DEF Shaped, At
<1> QED
  BY <1>1, <1>3

\* A command that turns to writing what its name asks for stays shaped.
LEMMA WritingShaped ==
    ASSUME Typed, NEW h \in Commands, NEW name \in Names, NEW body \in Contents(name),
           Become(h, Writing(h, name, body)),
           name.kind = "sample" => name = Sample(At(h)),
           name.kind = "outcome" => name = Outcome(At(h))
    PROVE  \A g \in Commands : Shaped(g)'
<1>1. /\ cmd'[h] = Writing(h, name, body)
      /\ \A g \in Commands \ {h} : Shaped(g)'
  BY OthersStay DEF Typed
<1>2. Shaped(h) /\ name # None
  BY NothingAssumption DEF Typed
<1>3. Shaped(h)'
  BY <1>1, <1>2 DEF Shaped, At, Writing
<1> QED
  BY <1>1, <1>3

\* What every step of a command leaves well formed.
LEMMA TypedByCommand ==
    ASSUME Typed, NEW h \in Commands, CommandStep(h)
    PROVE  \A g \in Commands : Shaped(g)'
<1>0. Shaped(h)
  BY DEF Typed
<1>1. CASE Check(h) \/ Link(h) \/ Sync(h) \/ SyncFails(h) \/ Spent(h)
  <2>1. /\ cmd[h].name # None
        /\ \E pc \in {"link", "sync", "wrote", "caught", "execute"} :
              /\ Goto(h, pc)
              /\ pc = "execute" => Spent(h)
    BY <1>0, <1>1 DEF Check, Link, Sync, SyncFails, Spent, Shaped
  <2>2. Spent(h) => cmd[h].name \in {Slot(s) : s \in Slots}
    BY <1>0, NamesAre DEF Spent, Shaped
  <2> QED
    BY <2>1, <2>2, GotoShaped
<1>2. CASE Bound(h)
  <2>1. Become(h, [Idle EXCEPT !.pc = "opened", !.prep = cmd[h].prep])
    BY <1>2 DEF Bound
  <2>2. Shaped(h)'
    <3>1. cmd'[h] = [Idle EXCEPT !.pc = "opened", !.prep = cmd[h].prep]
      BY <2>1, OthersStay
    <3> QED
      BY <1>0, <3>1, EmptySeq DEF Shaped, Idle, At
  <2> QED
    BY <2>1, <2>2, OthersStay DEF Typed
<1>3. ASSUME NEW p \in Preparations, Open(h, p) PROVE \A g \in Commands : Shaped(g)'
  <2>1. Become(h, [Writing(h, Binding, p) EXCEPT !.prep = p])
    BY <1>3 DEF Open
  <2>2. Shaped(h)'
    <3>1. cmd'[h] = [Writing(h, Binding, p) EXCEPT !.prep = p]
      BY <2>1, OthersStay
    <3>2. Binding # None /\ Binding.kind = "authorization"
      BY NamesAre, NothingAssumption DEF Binding
    <3> QED
      BY <1>0, <3>1, <3>2, NamesAre DEF Shaped, Writing, At
  <2> QED
    BY <2>1, <2>2, OthersStay DEF Typed
<1>4. ASSUME NEW s \in Slots, NEW v \in Values \cup {None}, Dispatch(h, s, v)
      PROVE  \A g \in Commands : Shaped(g)'
  <2>1. [slot |-> s, argument |-> v] \in Contents(Slot(s)) /\ Slot(s).kind = "slot"
    BY NamesAre DEF Consumption, Slot
  <2> QED
    BY <1>4, <2>1, NamesAre, WritingShaped DEF Dispatch
<1>5. ASSUME NEW v \in Values, Execute(h, v) PROVE \A g \in Commands : Shaped(g)'
  <2>1. Become(h, [cmd[h] EXCEPT !.pc = "called", !.answer = v]) /\ cmd[h].pc = "execute"
    BY <1>5 DEF Execute
  <2>2. Shaped(h)'
    <3>1. cmd'[h] = [cmd[h] EXCEPT !.pc = "called", !.answer = v]
      BY <2>1, OthersStay
    <3> QED
      BY <1>0, <2>1, <3>1 DEF Shaped, At
  <2> QED
    BY <2>1, <2>2, OthersStay DEF Typed
<1>6. CASE Seal(h)
  <2>1. PICK s \in Slots : cmd[h].name = Slot(s)
    BY <1>0, <1>6 DEF Seal, Shaped
  <2>2. cmd[h].body \in Consumption /\ cmd[h].answer \in Values /\ cmd[h].name.of = s
    BY <1>0, <1>6, <2>1, NamesAre, NothingAssumption DEF Seal, Shaped, Slot
  <2>3. [consumption |-> cmd[h].body, value |-> cmd[h].answer] \in Contents(Result(s))
    BY <2>2, NamesAre DEF IntentResult
  <2>4. Result(s).kind = "result"
    BY DEF Result
  <2> QED
    BY <1>6, <2>2, <2>3, <2>4, NamesAre, WritingShaped DEF Seal
<1>7. CASE ReadOutcome(h)
  <2>1. /\ Become(h, [cmd[h] EXCEPT !.pc = "checkpoint", !.prior = disk[Outcome(At(h))]])
        /\ Len(cmd[h].outcomes) < Len(Allocations)
    BY <1>7 DEF ReadOutcome
  <2>2. At(h) \in Samples
    BY <1>0, <2>1, IntentAssumption DEF At, Samples, Shaped
  <2>3. Shaped(h)'
    <3>1. cmd'[h] = [cmd[h] EXCEPT !.pc = "checkpoint", !.prior = disk[Outcome(At(h))]]
      BY <2>1, OthersStay
    <3> QED
      BY <1>0, <2>1, <2>2, <3>1 DEF Shaped, At
  <2> QED
    BY <2>1, <2>3, OthersStay DEF Typed
<1>8. CASE ReadCheckpoint(h)
  <2>1. At(h) \in Samples /\ cmd[h].pc = "checkpoint"
    BY <1>0, <1>8 DEF ReadCheckpoint, Shaped
  <2>2. CASE Goto(h, "seal")
    BY <2>1, <2>2, GotoShaped
  <2>3. CASE /\ disk[Sample(At(h))] # None
             /\ Become(h, [Idle EXCEPT !.pc = "opened", !.prep = Component,
                      !.outcomes = Append(cmd[h].outcomes, outcomeOf(disk[Sample(At(h))]))])
    <3>1. disk[Sample(At(h))] \in PreparationSource
      BY <2>1, <2>3, NamesAre DEF Typed
    <3>2. Append(cmd[h].outcomes, outcomeOf(disk[Sample(At(h))])) \in Seq(PreparationOutcome)
      BY <1>0, <3>1 DEF Shaped, PreparationOutcome
    <3>3. Shaped(h)'
      <4>1. cmd'[h] = [Idle EXCEPT !.pc = "opened", !.prep = Component,
               !.outcomes = Append(cmd[h].outcomes, outcomeOf(disk[Sample(At(h))]))]
        BY <2>3, OthersStay
      <4> QED
        BY <3>2, <4>1 DEF Shaped, Idle, Preparations, At
    <3> QED
      BY <2>3, <3>3, OthersStay DEF Typed
  <2> QED
    BY <1>8, <2>2, <2>3 DEF ReadCheckpoint
<1>9. ASSUME NEW source \in PreparationSource, SealSample(h, source)
      PROVE  \A g \in Commands : Shaped(g)'
  <2>1. At(h) \in Samples
    BY <1>0, <1>9 DEF SealSample, Shaped
  <2>2. Sample(At(h)).kind = "sample"
    BY DEF Sample
  <2> QED
    BY <1>9, <2>1, <2>2, NamesAre, WritingShaped DEF SealSample
<1>10. CASE Pinned(h)
  <2>1. cmd[h].name = Sample(At(h)) /\ At(h) \in Samples
    BY <1>0, <1>10, NamesAre DEF Pinned, Shaped, Sample
  <2>2. outcomeOf(cmd[h].body) \in Contents(Outcome(At(h)))
    BY <1>0, <1>10, <2>1, NamesAre DEF Pinned, Shaped, PreparationOutcome
  <2>3. Outcome(At(h)).kind = "outcome"
    BY DEF Outcome
  <2> QED
    BY <1>10, <2>1, <2>2, <2>3, NamesAre, WritingShaped DEF Pinned
<1>11. CASE Appended(h)
  <2>1. Become(h, [cmd[h] EXCEPT !.pc = "opened", !.name = None, !.body = None])
    BY <1>11 DEF Appended
  <2>2. Shaped(h)'
    <3>1. cmd'[h] = [cmd[h] EXCEPT !.pc = "opened", !.name = None, !.body = None]
      BY <2>1, OthersStay
    <3> QED
      BY <1>0, <3>1 DEF Shaped, At
  <2> QED
    BY <2>1, <2>2, OthersStay DEF Typed
<1>12. CASE Close(h) \/ Leave(h)
  <2>1. Become(h, Idle)
    BY <1>12 DEF Close, Leave
  <2> QED
    BY <2>1, OthersStay, IdleShaped DEF Typed
<1> QED
  BY <1>1, <1>2, <1>3, <1>4, <1>5, <1>6, <1>7, <1>8, <1>9, <1>10, <1>11, <1>12 DEF CommandStep

\* Only three steps of a command touch the directory or the deployment.
LEMMA Effects ==
    ASSUME NEW h \in Commands, CommandStep(h)
    PROVE  UNCHANGED <<disk, synced, calls>> \/ Link(h) \/ Sync(h) \/ \E v \in Values : Execute(h, v)
BY DEF CommandStep, Check, SyncFails, Bound, Spent, Seal, ReadOutcome, ReadCheckpoint, Pinned,
       Appended, Close, Leave, Open, Dispatch, SealSample, host

LEMMA OnlyOwn ==
    ASSUME Typed, NEW h \in Commands, CommandStep(h)
    PROVE  /\ cmd' = [g \in Commands |-> cmd'[g]]
           /\ \A g \in Commands \ {h} : cmd'[g] = cmd[g]
<1>1. \E c : Become(h, c)
  BY DEF CommandStep, Check, Link, Sync, SyncFails, Bound, Spent, Seal, ReadOutcome, ReadCheckpoint,
         Pinned, Appended, Close, Leave, Open, Dispatch, SealSample, Execute, Goto
<1> QED
  BY <1>1, OthersStay

LEMMA TypedInit == Init => Typed
<1> SUFFICES ASSUME Init PROVE Typed
  OBVIOUS
<1>1. \A h \in Commands : Shaped(h)
  BY EmptySeq DEF Init, Shaped, Idle, At
<1>2. calls \in [Slots -> Seq(Call)]
  BY EmptySeq DEF Init
<1> QED
  BY <1>1, <1>2 DEF Init, Typed, Present

\* What a command links, what a sync covers, what a call adds.
LEMMA LinkEffect ==
    ASSUME Typed, NEW h \in Commands, Link(h)
    PROVE  /\ UNCHANGED <<synced, calls>>
           /\ \/ UNCHANGED disk /\ Goto(h, "caught")
              \/ /\ cmd[h].name \in Names /\ disk[cmd[h].name] = None
                 /\ cmd[h].body # None /\ cmd[h].body \in Contents(cmd[h].name)
                 /\ disk' = [disk EXCEPT ![cmd[h].name] = cmd[h].body]
                 /\ Goto(h, "sync")
BY NothingAssumption DEF Link, host, Typed, Shaped

LEMMA ExecuteEffect ==
    ASSUME Typed, NEW h \in Commands, NEW v \in Values, Execute(h, v)
    PROVE  \E s \in Slots :
             /\ cmd[h].pc = "execute" /\ cmd[h].name = Slot(s) /\ cmd[h].body.argument \in Values \cup {None}
             /\ calls' = [calls EXCEPT ![s] = Append(calls[s], [argument |-> cmd[h].body.argument, answer |-> v])]
             /\ Append(calls[s], [argument |-> cmd[h].body.argument, answer |-> v]) \in Seq(Call)
             /\ Become(h, [cmd[h] EXCEPT !.pc = "called", !.answer = v])
             /\ UNCHANGED <<disk, synced>>
<1>1. PICK s \in Slots : cmd[h].name = Slot(s)
  BY DEF Execute, Typed, Shaped
<1>2. cmd[h].name.of = s /\ cmd[h].body \in Consumption
  BY <1>1, NamesAre, NothingAssumption DEF Typed, Shaped, Slot
<1>3. cmd[h].body.argument \in Values \cup {None}
  BY <1>2 DEF Consumption
<1>4. Append(calls[s], [argument |-> cmd[h].body.argument, answer |-> v]) \in Seq(Call)
  <2>1. [argument |-> cmd[h].body.argument, answer |-> v] \in Call /\ calls[s] \in Seq(Call)
    BY <1>3 DEF Typed, Call
  <2> QED
    BY <2>1
<1> QED
  BY <1>1, <1>2, <1>3, <1>4 DEF Execute

LEMMA TypedStep ==
    ASSUME Typed, [Next]_vars
    PROVE  Typed'
<1>1. ASSUME NEW h \in Commands, CommandStep(h) PROVE Typed'
  <2>1. /\ cmd' = [g \in Commands |-> cmd'[g]]
        /\ \A g \in Commands : Shaped(g)'
    BY <1>1, OnlyOwn, TypedByCommand
  <2>2. CASE UNCHANGED <<disk, synced, calls>>
    BY <2>1, <2>2 DEF Typed, Present
  <2>3. CASE Link(h)
    BY <2>1, <2>3, LinkEffect DEF Typed, Present
  <2>4. CASE Sync(h)
    BY <2>1, <2>4 DEF Sync, host, Typed, Present
  <2>5. ASSUME NEW v \in Values, Execute(h, v) PROVE Typed'
    BY <2>1, <2>5, ExecuteEffect DEF Typed, Present
  <2> QED
    BY <1>1, <2>2, <2>3, <2>4, <2>5, Effects
<1>2. CASE Invalidate
  BY <1>2 DEF Invalidate, Typed, Shaped, Present, At
<1>3. ASSUME NEW gone \in SUBSET (Present \ synced), Cut(gone) PROVE Typed'
  <2>1. \A h \in Commands : Shaped(h)'
    BY <1>3, IdleShaped DEF Cut
  <2> QED
    BY <1>3, <2>1 DEF Cut, Typed, Present
<1>4. CASE UNCHANGED vars
  BY <1>4 DEF vars, Typed, Shaped, Present, At
<1> QED
  BY <1>1, <1>2, <1>3, <1>4 DEF Next

-----------------------------------------------------------------------------
(* A slot is called once *)

\* The one command that owns a slot's file and has not called yet.
Spending(h, s) == cmd[h].name = Slot(s) /\ cmd[h].pc \in {"sync", "wrote", "execute"}

\* A slot whose call left is durable, so that no power loss gives it back; a
\* slot being spent has had no call, and one command spends it.
Once ==
    /\ \A h \in Commands, s \in Slots : Spending(h, s) => disk[Slot(s)] # None /\ calls[s] = <<>>
    /\ \A h \in Commands, s \in Slots :
         cmd[h].name = Slot(s) /\ cmd[h].pc \in {"wrote", "execute"} => Slot(s) \in synced
    /\ \A g, h \in Commands, s \in Slots : Spending(g, s) /\ Spending(h, s) => g = h
    /\ \A s \in Slots : calls[s] # <<>> => Slot(s) \in synced
    /\ \A s \in Slots : Len(calls[s]) <= 1

\* A command comes to own a slot by its link, and to have it durable by its sync.
LEMMA SpendingBegins ==
    ASSUME Typed, NEW h \in Commands, CommandStep(h), NEW s \in Slots
    PROVE  /\ Spending(h, s)' => \/ Spending(h, s)
                                 \/ Link(h) /\ disk[Slot(s)] = None /\ disk'[Slot(s)] # None
           /\ (cmd'[h].name = Slot(s) /\ cmd'[h].pc \in {"wrote", "execute"}) =>
                 \/ cmd[h].name = Slot(s) /\ cmd[h].pc \in {"wrote", "execute"}
                 \/ cmd[h].name = Slot(s) /\ Sync(h)
           /\ Slot(s) \in Names
<1>0. Shaped(h) /\ Slot(s) \in Names
  BY NamesAre DEF Typed
<1>1. CASE Link(h)
  <2>1. \/ Goto(h, "caught")
        \/ Goto(h, "sync") /\ disk[cmd[h].name] = None /\ cmd[h].body # None
                           /\ disk' = [disk EXCEPT ![cmd[h].name] = cmd[h].body]
    BY <1>1, LinkEffect
  <2>2. cmd'[h] = [cmd[h] EXCEPT !.pc = "caught"] \/ cmd'[h] = [cmd[h] EXCEPT !.pc = "sync"]
    BY <2>1, OthersStay DEF Goto
  <2> QED
    BY <1>0, <1>1, <2>1, <2>2, OthersStay DEF Shaped, Spending, Goto, Typed
<1>2. CASE Sync(h)
  <2>1. cmd'[h] = [cmd[h] EXCEPT !.pc = "wrote"] /\ cmd[h].pc = "sync"
    BY <1>2, OthersStay DEF Sync, Goto
  <2> QED
    BY <1>0, <1>2, <2>1 DEF Shaped, Spending
<1>3. CASE Spent(h)
  <2>1. cmd'[h] = [cmd[h] EXCEPT !.pc = "execute"] /\ cmd[h].pc = "wrote"
    BY <1>3, OthersStay DEF Spent, Goto
  <2> QED
    BY <1>0, <1>3, <2>1 DEF Shaped, Spending
<1>4. ASSUME ~Link(h), ~Sync(h), ~Spent(h)
      PROVE  cmd'[h].pc \notin {"sync", "wrote", "execute"}
  <2>1. CASE Check(h) \/ SyncFails(h)
    <3>1. \E pc \in {"link", "caught"} : cmd'[h] = [cmd[h] EXCEPT !.pc = pc]
      BY <2>1, OthersStay DEF Check, SyncFails, Goto
    <3> QED
      BY <1>0, <3>1 DEF Shaped
  <2>2. CASE Bound(h) \/ Appended(h)
    <3>1. \/ cmd'[h] = [Idle EXCEPT !.pc = "opened", !.prep = cmd[h].prep]
          \/ cmd'[h] = [cmd[h] EXCEPT !.pc = "opened", !.name = None, !.body = None]
      BY <2>2, OthersStay DEF Bound, Appended
    <3> QED
      BY <1>0, <3>1 DEF Shaped, Idle
  <2>3. CASE Seal(h) \/ Pinned(h) \/ \E t \in Slots, v \in Values \cup {None} : Dispatch(h, t, v)
             \/ \E source \in PreparationSource : SealSample(h, source)
    <3>1. \E name, body : Become(h, Writing(h, name, body))
      BY <2>3 DEF Seal, Pinned, Dispatch, SealSample
    <3>2. \E name, body : cmd'[h] = Writing(h, name, body)
      BY <3>1, OthersStay
    <3> QED
      BY <1>0, <3>2 DEF Shaped, Writing
  <2>4. ASSUME NEW p \in Preparations, Open(h, p) PROVE cmd'[h].pc = "check"
    <3>1. cmd'[h] = [Writing(h, Binding, p) EXCEPT !.prep = p]
      BY <2>4, OthersStay DEF Open
    <3> QED
      BY <1>0, <3>1 DEF Shaped, Writing
  <2>5. ASSUME NEW v \in Values, Execute(h, v) PROVE cmd'[h].pc = "called"
    <3>1. cmd'[h] = [cmd[h] EXCEPT !.pc = "called", !.answer = v]
      BY <2>5, OthersStay DEF Execute
    <3> QED
      BY <1>0, <3>1 DEF Shaped
  <2>6. CASE ReadOutcome(h)
    <3>1. cmd'[h] = [cmd[h] EXCEPT !.pc = "checkpoint", !.prior = disk[Outcome(At(h))]]
      BY <2>6, OthersStay DEF ReadOutcome
    <3> QED
      BY <1>0, <3>1 DEF Shaped
  <2>7. CASE ReadCheckpoint(h)
    <3>1. \/ cmd'[h] = [cmd[h] EXCEPT !.pc = "seal"]
          \/ \E o : cmd'[h] = [Idle EXCEPT !.pc = "opened", !.prep = Component, !.outcomes = o]
      BY <2>7, OthersStay DEF ReadCheckpoint, Goto
    <3> QED
      BY <1>0, <3>1 DEF Shaped, Idle
  <2>8. CASE Close(h) \/ Leave(h)
    <3>1. cmd'[h] = Idle
      BY <2>8, OthersStay DEF Close, Leave
    <3> QED
      BY <3>1 DEF Idle
  <2> QED
    BY <1>4, <2>1, <2>2, <2>3, <2>4, <2>5, <2>6, <2>7, <2>8 DEF CommandStep
<1> QED
  BY <1>0, <1>1, <1>2, <1>3, <1>4 DEF Spending

LEMMA OnceInit == Init => Once
BY EmptySeq DEF Init, Once, Spending, Idle

LEMMA OnceStep ==
    ASSUME Typed, Once, [Next]_vars
    PROVE  Once'
<1> USE DEF Once
<1>1. ASSUME NEW h \in Commands, CommandStep(h) PROVE Once'
  <2>1. \A g \in Commands \ {h}, s \in Slots :
           /\ Spending(g, s)' <=> Spending(g, s)
           /\ cmd'[g] = cmd[g]
    BY <1>1, OnlyOwn DEF Spending
  <2>2. \A s \in Slots :
           /\ Spending(h, s)' => \/ Spending(h, s)
                                 \/ Link(h) /\ disk[Slot(s)] = None /\ disk'[Slot(s)] # None
           /\ (cmd'[h].name = Slot(s) /\ cmd'[h].pc \in {"wrote", "execute"}) =>
                 \/ cmd[h].name = Slot(s) /\ cmd[h].pc \in {"wrote", "execute"}
                 \/ cmd[h].name = Slot(s) /\ Sync(h)
           /\ Slot(s) \in Names
    BY <1>1, SpendingBegins
  <2>3. CASE UNCHANGED <<disk, synced, calls>> /\ ~Link(h) /\ ~Sync(h)
    BY <2>1, <2>2, <2>3
  <2>4. CASE Link(h)
    <3>1. UNCHANGED <<synced, calls>> /\ ~Sync(h)
      BY <2>4, LinkEffect DEF Link, Sync
    <3>2. \A s \in Slots : disk[Slot(s)] # None => disk'[Slot(s)] # None
      BY <2>2, <2>4, LinkEffect DEF Typed
    <3>3. \A s \in Slots : disk[Slot(s)] = None => Slot(s) \notin synced /\ calls[s] = <<>>
      BY DEF Typed, Present
    <3> QED
      BY <2>1, <2>2, <3>1, <3>2, <3>3
  <2>5. CASE Sync(h)
    <3>1. /\ UNCHANGED <<disk, calls>> /\ synced' = Present /\ cmd[h].pc = "sync"
          /\ synced \subseteq synced'
      BY <2>5 DEF Sync, host, Typed
    <3>2. ~Link(h)
      BY <3>1 DEF Link
    <3>3. \A s \in Slots : cmd[h].name = Slot(s) => Slot(s) \in Present
      BY <2>2, <3>1 DEF Spending, Present
    <3> QED
      BY <2>1, <2>2, <3>1, <3>2, <3>3
  <2>6. ASSUME NEW v \in Values, Execute(h, v) PROVE Once'
    <3>1. PICK s \in Slots :
             /\ cmd[h].pc = "execute" /\ cmd[h].name = Slot(s)
             /\ calls' = [calls EXCEPT ![s] = Append(calls[s], [argument |-> cmd[h].body.argument, answer |-> v])]
             /\ Become(h, [cmd[h] EXCEPT !.pc = "called", !.answer = v])
             /\ UNCHANGED <<disk, synced>>
      BY <2>6, ExecuteEffect
    <3>2. Spending(h, s) /\ calls[s] = <<>> /\ Slot(s) \in synced
      BY <3>1 DEF Spending
    <3>3. calls'[s] = <<[argument |-> cmd[h].body.argument, answer |-> v]>> /\ Len(calls'[s]) = 1
      BY <3>1, <3>2 DEF Typed
    <3>4. \A t \in Slots \ {s} : calls'[t] = calls[t]
      BY <3>1 DEF Typed
    <3>5. cmd'[h] = [cmd[h] EXCEPT !.pc = "called", !.answer = v]
      BY <3>1, OthersStay
    <3>6. \A t \in Slots : ~Spending(h, t)' /\ cmd'[h].pc \notin {"wrote", "execute"}
      BY <3>5 DEF Spending, Typed, Shaped
    <3>7. \A g \in Commands \ {h} : ~Spending(g, s)
      BY <3>2
    <3> QED
      BY <2>1, <3>1, <3>2, <3>3, <3>4, <3>6, <3>7
  <2> QED
    BY <1>1, <2>3, <2>4, <2>5, <2>6, Effects
<1>2. CASE Invalidate
  BY <1>2 DEF Invalidate, Spending
<1>3. ASSUME NEW gone \in SUBSET (Present \ synced), Cut(gone) PROVE Once'
  <2>1. \A h \in Commands, s \in Slots : ~Spending(h, s)' /\ cmd'[h].pc \notin {"wrote", "execute"}
    BY <1>3 DEF Cut, Spending, Idle
  <2>2. calls' = calls /\ synced \subseteq synced'
    BY <1>3 DEF Cut, Typed
  <2> QED
    BY <2>1, <2>2
<1>4. CASE UNCHANGED vars
  BY <1>4 DEF vars, Spending
<1> QED
  BY <1>1, <1>2, <1>3, <1>4 DEF Next

\* The directory is always well typed.
THEOREM DirectoryIsTyped == Spec => []Typed
<1>1. Typed /\ [Next]_vars => Typed'
  BY TypedStep
<1> QED
  BY TypedInit, <1>1, PTL DEF Spec

\* Whatever is killed, retried or lost to the power, a reviewed mutation
\* reaches the deployment at most once (consume in intent-store.ts).
THEOREM SlotIsCalledOnce == Spec => []OneCallPerSlot
<1>1. Typed /\ Once /\ [Next]_vars => Once'
  BY OnceStep
<1>2. Once => OneCallPerSlot
  BY DEF Once, OneCallPerSlot
<1> QED
  BY DirectoryIsTyped, OnceInit, <1>1, <1>2, PTL DEF Spec

-----------------------------------------------------------------------------
(* Nothing is invented *)

Answers(s) == {calls[s][m].answer : m \in DOMAIN calls[s]}

\* What a command is about to seal or send has been answered already.
Told(h) ==
    \A s \in Slots :
        /\ cmd[h].name = Slot(s) /\ Needs[s] # None => cmd[h].body.argument \in Answers(Needs[s])
        /\ cmd[h].name = Slot(s) /\ cmd[h].pc = "called" => cmd[h].answer \in Answers(s)
        /\ cmd[h].name = Result(s) => cmd[h].body.value \in Answers(s)

Sourced ==
    /\ \A h \in Commands : Told(h)
    /\ \A s \in Slots : disk[Result(s)] # None => disk[Result(s)].value \in Answers(s)
    /\ ArgumentsAreAnswers

LEMMA SourcedInit == Init => Sourced
BY NamesAre, NothingAssumption DEF Init, Sourced, Told, Idle, ArgumentsAreAnswers

\* Calls are only ever added.
LEMMA AnswersGrow ==
    ASSUME Typed, NEW h \in Commands, CommandStep(h), NEW s \in Slots
    PROVE  Answers(s) \subseteq Answers(s)'
<1>1. CASE calls' = calls
  BY <1>1 DEF Answers
<1>2. ASSUME NEW v \in Values, Execute(h, v) PROVE Answers(s) \subseteq Answers(s)'
  <2>1. PICK t \in Slots, c \in Call : calls' = [calls EXCEPT ![t] = Append(calls[t], c)]
    <3>1. PICK t \in Slots :
             /\ calls' = [calls EXCEPT ![t] = Append(calls[t], [argument |-> cmd[h].body.argument, answer |-> v])]
             /\ cmd[h].body.argument \in Values \cup {None}
      BY <1>2, ExecuteEffect
    <3>2. [argument |-> cmd[h].body.argument, answer |-> v] \in Call
      BY <3>1 DEF Call
    <3> QED
      BY <3>1, <3>2
  <2>2. \A m \in DOMAIN calls[s] : m \in DOMAIN calls'[s] /\ calls'[s][m] = calls[s][m]
    BY <2>1 DEF Typed
  <2> QED
    BY <2>2 DEF Answers
<1> QED
  BY <1>1, <1>2, Effects, LinkEffect DEF Sync, host

LEMMA ToldStep ==
    ASSUME Typed, Sourced, NEW h \in Commands, CommandStep(h)
    PROVE  \A g \in Commands : Told(g)'
<1>0. Shaped(h) /\ Told(h) /\ None \notin Names
  BY NothingAssumption DEF Typed, Sourced
<1>1. \A s \in Slots : Answers(s) \subseteq Answers(s)'
  BY AnswersGrow
<1>2. \A s \in Slots : Needs[s] # None => Needs[s] \in Slots
  BY IntentAssumption
<1>3. \A g \in Commands \ {h} : Told(g)'
  BY <1>1, <1>2, OnlyOwn DEF Told, Sourced
<1> SUFFICES Told(h)'
  BY <1>3
<1>4. ASSUME NEW pc, pc # "called", cmd'[h] = [cmd[h] EXCEPT !.pc = pc] PROVE Told(h)'
  <2>1. cmd'[h].name = cmd[h].name /\ cmd'[h].body = cmd[h].body /\ cmd'[h].pc = pc
    BY <1>0, <1>4 DEF Shaped
  <2> QED
    BY <1>0, <1>1, <1>2, <1>4, <2>1 DEF Told
<1>5. ASSUME \A s \in Slots : cmd'[h].name \notin {Slot(s), Result(s)} PROVE Told(h)'
  BY <1>5 DEF Told
<1>6. \A s \in Slots : Slot(s) # None /\ Result(s) # None /\ Binding # Slot(s) /\ Binding # Result(s)
  BY <1>0, NamesAre DEF Binding, Slot, Result
<1>7. CASE Check(h) \/ Link(h) \/ Sync(h) \/ SyncFails(h) \/ Spent(h)
  <2>1. \E pc \in {"link", "sync", "wrote", "caught", "execute"} : Goto(h, pc)
    BY <1>7 DEF Check, Link, Sync, SyncFails, Spent
  <2> QED
    BY <1>4, <2>1, OthersStay DEF Goto
<1>8. CASE Bound(h) \/ Appended(h) \/ Close(h) \/ Leave(h)
  <2>1. \/ cmd'[h] = [Idle EXCEPT !.pc = "opened", !.prep = cmd[h].prep]
        \/ cmd'[h] = [cmd[h] EXCEPT !.pc = "opened", !.name = None, !.body = None]
        \/ cmd'[h] = Idle
    BY <1>8, OthersStay DEF Bound, Appended, Close, Leave
  <2>2. CASE cmd'[h] = [Idle EXCEPT !.pc = "opened", !.prep = cmd[h].prep]
    <3>1. cmd'[h].name = None
      BY <2>2 DEF Idle
    <3> QED
      BY <1>5, <1>6, <3>1
  <2>4. CASE cmd'[h] = Idle
    <3>1. cmd'[h].name = None
      BY <2>4 DEF Idle
    <3> QED
      BY <1>5, <1>6, <3>1
  <2>3. CASE cmd'[h] = [cmd[h] EXCEPT !.pc = "opened", !.name = None, !.body = None]
    <3>1. cmd'[h].name = None
      BY <1>0, <2>3 DEF Shaped
    <3> QED
      BY <1>5, <1>6, <3>1
  <2> QED
    BY <2>1, <2>2, <2>3, <2>4
<1>9. ASSUME NEW p \in Preparations, Open(h, p) PROVE Told(h)'
  <2>1. cmd'[h] = [Writing(h, Binding, p) EXCEPT !.prep = p]
    BY <1>9, OthersStay DEF Open
  <2>2. cmd'[h].name = Binding
    BY <1>0, <2>1 DEF Shaped, Writing
  <2> QED
    BY <1>5, <1>6, <2>2
<1>10. ASSUME NEW s \in Slots, NEW v \in Values \cup {None}, Dispatch(h, s, v) PROVE Told(h)'
  <2>1. cmd'[h] = Writing(h, Slot(s), [slot |-> s, argument |-> v])
    BY <1>10, OthersStay DEF Dispatch
  <2>2. /\ cmd'[h].name = Slot(s) /\ cmd'[h].body.argument = v /\ cmd'[h].pc = "check"
    BY <1>0, <2>1 DEF Shaped, Writing
  <2>3. Needs[s] # None => v \in Answers(Needs[s])
    BY <1>2, <1>10 DEF Dispatch, Resolvable, Sourced
  <2>4. \A t \in Slots : (Slot(t) = Slot(s) => t = s) /\ Result(t) # Slot(s)
    BY DEF Slot, Result
  <2> QED
    BY <1>1, <1>2, <2>2, <2>3, <2>4 DEF Told
<1>11. ASSUME NEW v \in Values, Execute(h, v) PROVE Told(h)'
  <2>1. PICK s \in Slots :
           /\ cmd[h].name = Slot(s)
           /\ calls' = [calls EXCEPT ![s] = Append(calls[s], [argument |-> cmd[h].body.argument, answer |-> v])]
           /\ Become(h, [cmd[h] EXCEPT !.pc = "called", !.answer = v])
    BY <1>11, ExecuteEffect
  <2>5. cmd'[h] = [cmd[h] EXCEPT !.pc = "called", !.answer = v]
    BY <2>1, OthersStay
  <2>2. v \in Answers(s)'
    <3>1. /\ Len(calls[s]) + 1 \in DOMAIN calls'[s]
          /\ calls'[s][Len(calls[s]) + 1].answer = v
      BY <2>1 DEF Typed
    <3> QED
      BY <3>1 DEF Answers
  <2>3. /\ cmd'[h].name = Slot(s) /\ cmd'[h].body = cmd[h].body /\ cmd'[h].answer = v
    BY <1>0, <2>1, <2>5 DEF Shaped
  <2>4. \A t \in Slots : (Slot(t) = Slot(s) => t = s) /\ Result(t) # Slot(s)
    BY DEF Slot, Result
  <2> QED
    BY <1>0, <1>1, <1>2, <2>1, <2>2, <2>3, <2>4 DEF Told
<1>12. CASE Seal(h)
  <2>1. PICK s \in Slots : cmd[h].name = Slot(s)
    BY <1>0, <1>12 DEF Seal, Shaped
  <2>2. cmd[h].name.of = s
    BY <2>1 DEF Slot
  <2>3. cmd'[h] = Writing(h, Result(s), [consumption |-> cmd[h].body, value |-> cmd[h].answer])
    BY <1>12, <2>2, OthersStay DEF Seal
  <2>4. cmd'[h].name = Result(s) /\ cmd'[h].body.value = cmd[h].answer
    BY <1>0, <2>3 DEF Shaped, Writing
  <2>5. cmd[h].answer \in Answers(s)
    BY <1>0, <1>12, <2>1 DEF Told, Seal
  <2>6. \A t \in Slots : (Result(t) = Result(s) => t = s) /\ Slot(t) # Result(s)
    BY DEF Slot, Result
  <2> QED
    BY <1>1, <2>4, <2>5, <2>6 DEF Told
<1>13. CASE ReadOutcome(h)
  <2>1. cmd'[h] = [cmd[h] EXCEPT !.pc = "checkpoint", !.prior = disk[Outcome(At(h))]]
    BY <1>13, OthersStay DEF ReadOutcome
  <2>2. cmd'[h].name = cmd[h].name /\ cmd'[h].body = cmd[h].body /\ cmd'[h].pc = "checkpoint"
    BY <1>0, <2>1 DEF Shaped
  <2> QED
    BY <1>0, <1>1, <1>2, <2>2 DEF Told
<1>14. CASE ReadCheckpoint(h)
  <2>1. \/ cmd'[h] = [cmd[h] EXCEPT !.pc = "seal"]
        \/ \E o : cmd'[h] = [Idle EXCEPT !.pc = "opened", !.prep = Component, !.outcomes = o]
    BY <1>14, OthersStay DEF ReadCheckpoint, Goto
  <2>2. ASSUME NEW o, cmd'[h] = [Idle EXCEPT !.pc = "opened", !.prep = Component, !.outcomes = o]
        PROVE  cmd'[h].name = None
    BY <2>2 DEF Idle
  <2> QED
    BY <1>4, <1>5, <1>6, <2>1, <2>2
<1>15. CASE Pinned(h) \/ \E source \in PreparationSource : SealSample(h, source)
  <2>1. \E name \in {Sample(At(h)), Outcome(At(h))} : \E body : Become(h, Writing(h, name, body))
    BY <1>15 DEF Pinned, SealSample
  <2>2. \E name \in {Sample(At(h)), Outcome(At(h))} : \E body : cmd'[h] = Writing(h, name, body)
    BY <2>1, OthersStay
  <2>3. cmd'[h].name \in {Sample(At(h)), Outcome(At(h))}
    BY <1>0, <2>2 DEF Shaped, Writing
  <2>4. \A t \in Slots : \A x : {Slot(t), Result(t)} \cap {Sample(x), Outcome(x)} = {}
    BY DEF Slot, Result, Sample, Outcome
  <2> QED
    BY <1>5, <2>3, <2>4
<1> QED
  BY <1>7, <1>8, <1>9, <1>10, <1>11, <1>12, <1>13, <1>14, <1>15 DEF CommandStep

LEMMA SourcedStep ==
    ASSUME Typed, Sourced, [Next]_vars
    PROVE  Sourced'
<1>1. ASSUME NEW h \in Commands, CommandStep(h) PROVE Sourced'
  <2>1. (\A g \in Commands : Told(g))' /\ \A s \in Slots : Answers(s) \subseteq Answers(s)'
    BY <1>1, ToldStep, AnswersGrow
  <2>2. ASSUME NEW s \in Slots, disk'[Result(s)] # None
        PROVE  disk'[Result(s)].value \in Answers(s)'
    <3>1. CASE disk' = disk
      BY <2>1, <2>2, <3>1 DEF Sourced
    <3>2. CASE Link(h)
      <4>1. CASE cmd[h].name = Result(s) /\ disk'[Result(s)] = cmd[h].body
        BY <2>1, <4>1 DEF Sourced, Told
      <4>2. CASE disk'[Result(s)] = disk[Result(s)]
        BY <2>1, <2>2, <4>2 DEF Sourced
      <4> QED
        BY <3>2, <4>1, <4>2, LinkEffect, NamesAre DEF Typed
    <3>3. Link(h) \/ disk' = disk
      BY <1>1, Effects, ExecuteEffect DEF Sync, host
    <3> QED
      BY <3>1, <3>2, <3>3
  <2>3. ASSUME NEW s \in Slots, Needs[s] # None, NEW n \in DOMAIN calls'[s]
        PROVE  calls'[s][n].argument \in Answers(Needs[s])'
    <3>0. Needs[s] \in Slots
      BY <2>3, IntentAssumption
    <3>1. CASE n \in DOMAIN calls[s] /\ calls'[s][n] = calls[s][n]
      BY <2>1, <2>3, <3>0, <3>1 DEF Sourced, ArgumentsAreAnswers, Answers
    <3>2. ASSUME NEW v \in Values, Execute(h, v),
                 ~(n \in DOMAIN calls[s] /\ calls'[s][n] = calls[s][n])
          PROVE  calls'[s][n].argument \in Answers(Needs[s])'
      <4>1. PICK t \in Slots :
               /\ cmd[h].name = Slot(t)
               /\ calls' = [calls EXCEPT ![t] = Append(calls[t], [argument |-> cmd[h].body.argument, answer |-> v])]
        BY <3>2, ExecuteEffect
      <4>2. t = s /\ calls'[s][n].argument = cmd[h].body.argument
        BY <2>3, <3>2, <4>1 DEF Typed
      <4>3. cmd[h].body.argument \in Answers(Needs[s])
        BY <2>3, <4>1, <4>2 DEF Sourced, Told
      <4> QED
        BY <2>1, <3>0, <4>2, <4>3
    <3>3. calls' = calls \/ \E v \in Values : Execute(h, v)
      BY <1>1, Effects, LinkEffect DEF Sync, host
    <3> QED
      BY <2>3, <3>1, <3>2, <3>3
  <2>4. ArgumentsAreAnswers'
    BY <2>3 DEF ArgumentsAreAnswers, Answers
  <2> QED
    BY <2>1, <2>2, <2>4 DEF Sourced
<1>2. CASE Invalidate
  BY <1>2 DEF Invalidate, Sourced, Told, Answers, ArgumentsAreAnswers
<1>3. ASSUME NEW gone \in SUBSET (Present \ synced), Cut(gone) PROVE Sourced'
  <2>1. \A h \in Commands : Told(h)'
    BY <1>3, NamesAre, NothingAssumption DEF Cut, Told, Idle
  <2>2. calls' = calls
    BY <1>3 DEF Cut
  <2>3. \A n \in Names : disk'[n] # None => disk'[n] = disk[n]
    BY <1>3 DEF Cut
  <2> QED
    BY <2>1, <2>2, <2>3, NamesAre DEF Sourced, Answers, ArgumentsAreAnswers
<1>4. CASE UNCHANGED vars
  BY <1>4 DEF vars, Sourced, Told, Answers, ArgumentsAreAnswers
<1> QED
  BY <1>1, <1>2, <1>3, <1>4 DEF Next

-----------------------------------------------------------------------------
(* An outcome is that of the source pinned for its sample *)

\* What was linked is there; an outcome is written beside its source; a sample is
\* looked at, and its source written, only when it has a source or no outcome.
Follows(h) ==
    /\ cmd[h].pc \in {"sync", "wrote"} => disk[cmd[h].name] = cmd[h].body
    /\ \A x \in Samples : cmd[h].name = Outcome(x) =>
          disk[Sample(x)] # None /\ cmd[h].body = outcomeOf(disk[Sample(x)])
    /\ \A x \in Samples :
          /\ \/ cmd[h].name = Sample(x)
             \/ At(h) = x /\ cmd[h].pc = "seal"
             \/ At(h) = x /\ cmd[h].pc = "checkpoint" /\ cmd[h].prior = None
          /\ disk[Sample(x)] = None
          => disk[Outcome(x)] = None

Paired == (\A h \in Commands : Follows(h)) /\ OutcomeFollowsSource

LEMMA PairedInit == Init => Paired
BY NamesAre, NothingAssumption DEF Init, Paired, Follows, Idle, OutcomeFollowsSource

\* A command never changes a file that is there, and writes an outcome only
\* beside its source, a source only where there is no outcome.
LEMMA FilesStay ==
    ASSUME Typed, Paired, NEW h \in Commands, CommandStep(h)
    PROVE  /\ \A n \in Names : disk[n] # None => disk'[n] = disk[n]
           /\ \A x \in Samples : disk[Outcome(x)] = None /\ disk'[Outcome(x)] # None =>
                 disk[Sample(x)] # None /\ disk'[Outcome(x)] = outcomeOf(disk[Sample(x)])
           /\ \A x \in Samples : disk[Sample(x)] = None /\ disk'[Sample(x)] # None =>
                 disk[Outcome(x)] = None /\ disk'[Outcome(x)] = None
<1>1. CASE disk' = disk
  BY <1>1
<1>2. CASE Link(h) /\ disk' # disk
  <2>1. /\ cmd[h].name \in Names /\ disk[cmd[h].name] = None
        /\ disk' = [disk EXCEPT ![cmd[h].name] = cmd[h].body]
    BY <1>2, LinkEffect
  <2>2. \A n \in Names : IF n = cmd[h].name THEN disk'[n] = cmd[h].body ELSE disk'[n] = disk[n]
    BY <2>1 DEF Typed
  <2>3. \A x \in Samples : Sample(x) \in Names /\ Outcome(x) \in Names /\ Sample(x) # Outcome(x)
    BY NamesAre DEF Sample, Outcome
  <2> QED
    BY <2>1, <2>2, <2>3 DEF Paired, Follows
<1>3. Link(h) \/ disk' = disk
  BY Effects, ExecuteEffect DEF Sync, host
<1> QED
  BY <1>1, <1>2, <1>3

LEMMA FollowsStays ==
    ASSUME Typed, Paired, NEW h \in Commands, CommandStep(h), NEW g \in Commands,
           cmd'[g] = cmd[g]
    PROVE  Follows(g)'
<1>1. /\ cmd[g].pc \in {"sync", "wrote"} => cmd[g].name \in Names /\ cmd[g].body # None
      /\ \A x \in Samples : Sample(x) \in Names /\ Outcome(x) \in Names
  BY NamesAre, NothingAssumption DEF Typed, Shaped
<1>2. Follows(g)
  BY DEF Paired
<1> QED
  BY <1>1, <1>2, FilesStay DEF Follows, At

LEMMA FollowsStep ==
    ASSUME Typed, Paired, NEW h \in Commands, CommandStep(h)
    PROVE  Follows(h)'
<1>0. Shaped(h) /\ Follows(h) /\ None \notin Names
  BY NothingAssumption DEF Typed, Paired
<1>1. /\ \A x \in Samples : Sample(x) \in Names /\ Outcome(x) \in Names
      /\ \A n \in Names : disk[n] # None => disk'[n] = disk[n]
      /\ \A x \in Samples : disk[Outcome(x)] = None /\ disk'[Outcome(x)] # None => disk[Sample(x)] # None
      /\ \A x, y \in Samples : /\ Sample(x) # Outcome(y)
                               /\ Sample(x) = Sample(y) => x = y
                               /\ Outcome(x) = Outcome(y) => x = y
      /\ \A s \in Slots, x \in Samples : {Slot(s), Result(s), Binding, None} \cap {Sample(x), Outcome(x)} = {}
  <2>1. \A s \in Slots, x \in Samples : {Slot(s), Result(s), Binding, None} \cap {Sample(x), Outcome(x)} = {}
    BY <1>0, NamesAre DEF Binding, Slot, Result, Sample, Outcome
  <2>2. \A x, y \in Samples : /\ Sample(x) # Outcome(y)
                              /\ Sample(x) = Sample(y) => x = y
                              /\ Outcome(x) = Outcome(y) => x = y
    BY DEF Sample, Outcome
  <2> QED
    BY <2>1, <2>2, FilesStay, NamesAre
<1>2. ASSUME cmd'[h].name = cmd[h].name, cmd'[h].body = cmd[h].body,
             cmd'[h].pc \notin {"seal", "checkpoint"},
             cmd'[h].pc \in {"sync", "wrote"} => disk'[cmd[h].name] = cmd[h].body
      PROVE  Follows(h)'
  BY <1>0, <1>1, <1>2 DEF Follows
<1>3. ASSUME \A x \in Samples : cmd'[h].name \notin {Sample(x), Outcome(x)},
             cmd'[h].pc \notin {"sync", "wrote", "seal", "checkpoint"}
      PROVE  Follows(h)'
  BY <1>3 DEF Follows
<1>4. ASSUME NEW pc \in {"link", "caught", "execute", "sync", "wrote"},
             cmd'[h] = [cmd[h] EXCEPT !.pc = pc],
             pc \in {"sync", "wrote"} => disk'[cmd[h].name] = cmd[h].body
      PROVE  Follows(h)'
  <2>1. cmd'[h].name = cmd[h].name /\ cmd'[h].body = cmd[h].body /\ cmd'[h].pc = pc
    BY <1>0, <1>4 DEF Shaped
  <2> QED
    BY <1>2, <1>4, <2>1
<1>5. ASSUME NEW name, NEW body, cmd'[h] = Writing(h, name, body)
      PROVE  /\ cmd'[h].name = name /\ cmd'[h].body = body /\ cmd'[h].pc = "check"
  BY <1>0, <1>5 DEF Shaped, Writing
<1>6. CASE Check(h) \/ SyncFails(h) \/ Spent(h)
  <2>1. \E pc \in {"link", "caught", "execute"} : cmd'[h] = [cmd[h] EXCEPT !.pc = pc]
    BY <1>6, OthersStay DEF Check, SyncFails, Spent, Goto
  <2> QED
    BY <1>4, <2>1
<1>7. CASE Link(h)
  <2>1. \/ Goto(h, "caught")
        \/ Goto(h, "sync") /\ disk'[cmd[h].name] = cmd[h].body
    BY <1>7, LinkEffect DEF Typed
  <2> QED
    BY <1>4, <2>1, OthersStay DEF Goto
<1>8. CASE Sync(h)
  <2>1. cmd'[h] = [cmd[h] EXCEPT !.pc = "wrote"] /\ disk' = disk /\ cmd[h].pc = "sync"
    BY <1>8, OthersStay DEF Sync, Goto
  <2> QED
    BY <1>0, <1>4, <2>1 DEF Follows
<1>9. CASE Bound(h) \/ Appended(h) \/ Close(h) \/ Leave(h)
  <2>1. \/ cmd'[h] = [Idle EXCEPT !.pc = "opened", !.prep = cmd[h].prep]
        \/ cmd'[h] = [cmd[h] EXCEPT !.pc = "opened", !.name = None, !.body = None]
        \/ cmd'[h] = Idle
    BY <1>9, OthersStay DEF Bound, Appended, Close, Leave
  <2>2. ASSUME cmd'[h].name = None, cmd'[h].pc \in {"opened", "idle"} PROVE Follows(h)'
    BY <1>0, <1>1, <1>3, <2>2 DEF Sample, Outcome
  <2>3. CASE cmd'[h] = [Idle EXCEPT !.pc = "opened", !.prep = cmd[h].prep]
    BY <2>2, <2>3 DEF Idle
  <2>4. CASE cmd'[h] = [cmd[h] EXCEPT !.pc = "opened", !.name = None, !.body = None]
    BY <1>0, <2>2, <2>4 DEF Shaped
  <2>5. CASE cmd'[h] = Idle
    BY <2>2, <2>5 DEF Idle
  <2> QED
    BY <2>1, <2>3, <2>4, <2>5
<1>10. ASSUME NEW p \in Preparations, Open(h, p) PROVE Follows(h)'
  <2>1. cmd'[h] = [Writing(h, Binding, p) EXCEPT !.prep = p]
    BY <1>10, OthersStay DEF Open
  <2>2. cmd'[h].name = Binding /\ cmd'[h].pc = "check"
    BY <1>0, <2>1 DEF Shaped, Writing
  <2>3. \A x \in Samples : Binding \notin {Sample(x), Outcome(x)}
    BY DEF Binding, Sample, Outcome
  <2> QED
    BY <1>3, <2>2, <2>3
<1>11. CASE Seal(h) \/ \E s \in Slots, v \in Values \cup {None} : Dispatch(h, s, v)
  <2>1. \E s \in Slots : \E name \in {Slot(s), Result(s)} : \E body : Become(h, Writing(h, name, body))
    <3>1. CASE Seal(h)
      <4>1. PICK s \in Slots : cmd[h].name = Slot(s)
        BY <1>0, <3>1 DEF Seal, Shaped
      <4>2. cmd[h].name.of = s
        BY <4>1 DEF Slot
      <4> QED
        BY <3>1, <4>2 DEF Seal
    <3> QED
      BY <1>11, <3>1 DEF Dispatch
  <2>2. PICK s \in Slots : \E name \in {Slot(s), Result(s)} : \E body : cmd'[h] = Writing(h, name, body)
    BY <2>1, OthersStay
  <2>3. cmd'[h].name \in {Slot(s), Result(s)} /\ cmd'[h].pc = "check"
    BY <1>5, <2>2
  <2> QED
    BY <1>1, <1>3, <2>3
<1>12. ASSUME NEW v \in Values, Execute(h, v) PROVE Follows(h)'
  <2>1. cmd'[h] = [cmd[h] EXCEPT !.pc = "called", !.answer = v]
    BY <1>12, OthersStay DEF Execute
  <2>2. cmd'[h].name = cmd[h].name /\ cmd'[h].body = cmd[h].body /\ cmd'[h].pc = "called"
    BY <1>0, <2>1 DEF Shaped
  <2> QED
    BY <1>2, <2>2
<1>13. CASE ReadOutcome(h)
  <2>1. /\ cmd'[h] = [cmd[h] EXCEPT !.pc = "checkpoint", !.prior = disk[Outcome(At(h))]]
        /\ disk' = disk
    BY <1>13, OthersStay DEF ReadOutcome
  <2>2. /\ cmd'[h].name = cmd[h].name /\ cmd'[h].body = cmd[h].body /\ cmd'[h].pc = "checkpoint"
        /\ cmd'[h].prior = disk[Outcome(At(h))] /\ cmd'[h].outcomes = cmd[h].outcomes
    BY <1>0, <2>1 DEF Shaped
  <2> QED
    BY <1>0, <2>1, <2>2 DEF Follows, At
<1>14. CASE ReadCheckpoint(h)
  <2>1. /\ \/ cmd'[h] = [cmd[h] EXCEPT !.pc = "seal"] /\ cmd[h].prior = None
           \/ \E o : cmd'[h] = [Idle EXCEPT !.pc = "opened", !.prep = Component, !.outcomes = o]
        /\ disk' = disk /\ cmd[h].pc = "checkpoint"
    BY <1>14, OthersStay DEF ReadCheckpoint, Goto
  <2>2. CASE cmd'[h] = [cmd[h] EXCEPT !.pc = "seal"] /\ cmd[h].prior = None
    <3>1. /\ cmd'[h].name = cmd[h].name /\ cmd'[h].body = cmd[h].body /\ cmd'[h].pc = "seal"
          /\ cmd'[h].outcomes = cmd[h].outcomes
      BY <1>0, <2>2 DEF Shaped
    <3> QED
      BY <1>0, <2>1, <2>2, <3>1 DEF Follows, At
  <2>3. ASSUME NEW o, cmd'[h] = [Idle EXCEPT !.pc = "opened", !.prep = Component, !.outcomes = o]
        PROVE  Follows(h)'
    <3>1. cmd'[h].name = None /\ cmd'[h].pc = "opened"
      BY <2>3 DEF Idle
    <3> QED
      BY <1>0, <1>1, <1>3, <3>1
  <2> QED
    BY <2>1, <2>2, <2>3
<1>15. ASSUME NEW source \in PreparationSource, SealSample(h, source) PROVE Follows(h)'
  <2>1. cmd'[h] = Writing(h, Sample(At(h)), source) /\ disk' = disk /\ cmd[h].pc = "seal"
    BY <1>15, OthersStay DEF SealSample
  <2>2. cmd'[h].name = Sample(At(h)) /\ cmd'[h].pc = "check" /\ At(h) \in Samples
    BY <1>0, <1>5, <2>1 DEF Shaped
  <2> QED
    BY <1>0, <1>1, <2>1, <2>2 DEF Follows
<1>16. CASE Pinned(h)
  <2>1. cmd[h].name = Sample(At(h)) /\ At(h) \in Samples
    BY <1>0, <1>16, NamesAre DEF Pinned, Shaped, Sample
  <2>2. disk[Sample(At(h))] = cmd[h].body /\ cmd[h].body # None
    BY <1>0, <1>1, <1>16, <2>1, NothingAssumption DEF Pinned, Published, Follows, Shaped
  <2>3. cmd'[h] = Writing(h, Outcome(At(h)), outcomeOf(cmd[h].body)) /\ disk' = disk
    BY <1>16, OthersStay DEF Pinned
  <2>4. cmd'[h].name = Outcome(At(h)) /\ cmd'[h].body = outcomeOf(cmd[h].body) /\ cmd'[h].pc = "check"
    BY <1>5, <2>3
  <2> QED
    BY <1>1, <2>1, <2>2, <2>3, <2>4 DEF Follows
<1> QED
  BY <1>6, <1>7, <1>8, <1>9, <1>10, <1>11, <1>12, <1>13, <1>14, <1>15, <1>16 DEF CommandStep

LEMMA PairedStep ==
    ASSUME Typed, Paired, [Next]_vars
    PROVE  Paired'
<1>1. ASSUME NEW h \in Commands, CommandStep(h) PROVE Paired'
  <2>1. \A g \in Commands : Follows(g)'
    BY <1>1, OnlyOwn, FollowsStays, FollowsStep
  <2>2. \A x \in Samples : Sample(x) \in Names /\ Outcome(x) \in Names
    BY NamesAre
  <2> QED
    BY <1>1, <2>1, <2>2, FilesStay DEF Paired, OutcomeFollowsSource
<1>2. CASE Invalidate
  BY <1>2 DEF Invalidate, Paired, Follows, OutcomeFollowsSource, At
<1>3. ASSUME NEW gone \in SUBSET (Present \ synced), Cut(gone) PROVE Paired'
  <2>1. \A h \in Commands : Follows(h)'
    BY <1>3, NamesAre, NothingAssumption DEF Cut, Follows, Idle
  <2>2. \A n \in Names : disk'[n] # None => disk'[n] = disk[n]
    BY <1>3 DEF Cut
  <2> QED
    BY <2>1, <2>2, NamesAre DEF Paired, OutcomeFollowsSource
<1>4. CASE UNCHANGED vars
  BY <1>4 DEF vars, Paired, Follows, OutcomeFollowsSource, At
<1> QED
  BY <1>1, <1>2, <1>3, <1>4 DEF Next

\* A dependent call carries what the call it refers to answered, and a
\* sample's outcome is that of its pinned source, across every kill and loss.
THEOREM NothingComesFromElsewhere == Spec => []NothingIsInvented
<1>1. Typed /\ Sourced /\ [Next]_vars => Sourced'
  BY SourcedStep
<1>2. Typed /\ Paired /\ [Next]_vars => Paired'
  BY PairedStep
<1>3. Sourced /\ Paired => NothingIsInvented
  BY DEF Sourced, Paired, NothingIsInvented
<1> QED
  BY DirectoryIsTyped, SourcedInit, PairedInit, <1>1, <1>2, <1>3, PTL DEF Spec

-----------------------------------------------------------------------------
(* What was told of a sample is told again, and one preparation is served *)

\* An outcome that was read for the n-th sample is that of the source still
\* pinned for it, unless a power loss took that file.
Stands(n, outcome) ==
    LET pinned == Sample(Allocations[n])
    IN  /\ pinned \in Names
        /\ pinned \notin lost => disk[pinned] # None /\ outcome = outcomeOf(disk[pinned])

\* A command that opened its preparation works under the binding on the disk; it
\* spends slots under Mutating only, and looks at samples under Component only.
Pledged(h) ==
    /\ cmd[h].pc \in {"opened", "execute", "called", "checkpoint", "seal"}
       \/ cmd[h].name \notin {None, Binding}
       => disk[Binding] = cmd[h].prep /\ cmd[h].prep # None
    /\ \A s \in Slots : cmd[h].name = Slot(s) => cmd[h].prep = Mutating
    /\ cmd[h].pc = "checkpoint" => cmd[h].prep = Component

ToldOf(h) == \A n \in DOMAIN cmd[h].outcomes : Stands(n, cmd[h].outcomes[n])

Standing ==
    /\ \A h \in Commands : Pledged(h) /\ ToldOf(h)
    /\ \A a \in closures : DOMAIN a = DOMAIN Allocations /\ \A n \in DOMAIN a : Stands(n, a[n])
    /\ (\E s \in Slots : calls[s] # <<>>) => Binding \in lost \/ disk[Binding] = Mutating
    /\ closures # {} => Binding \in lost \/ disk[Binding] = Component

LEMMA StandingInit == Init => Standing
BY NamesAre, NothingAssumption DEF Init, Standing, Pledged, ToldOf, Idle

\* A file that stays, or that a power loss took, leaves what was told true.
LEMMA StandsStays ==
    ASSUME NEW n, NEW outcome, Stands(n, outcome),
           lost \subseteq lost',
           \A f \in Names : disk[f] # None => disk'[f] = disk[f] \/ f \in lost'
    PROVE  Stands(n, outcome)'
BY DEF Stands

\* A command that only moves on under the same preparation.
LEMMA PledgedStays ==
    ASSUME NEW h \in Commands, Pledged(h), disk[Binding] # None => disk'[Binding] = disk[Binding],
           cmd'[h].prep = cmd[h].prep,
           cmd'[h].name = cmd[h].name \/ \A s \in Slots : cmd'[h].name # Slot(s),
           cmd'[h].pc = "checkpoint" => cmd[h].pc = "checkpoint",
           \/ cmd'[h].name = cmd[h].name /\ cmd'[h].pc \in {"link", "sync", "wrote", "caught"}
           \/ cmd[h].pc \in {"opened", "execute", "called", "checkpoint", "seal"}
           \/ cmd[h].name \notin {None, Binding}
    PROVE  Pledged(h)'
BY DEF Pledged

LEMMA PledgedStep ==
    ASSUME Typed, Paired, NEW h \in Commands, Pledged(h), CommandStep(h)
    PROVE  Pledged(h)'
<1>0. Shaped(h) /\ Follows(h) /\ None \notin Names
  BY NothingAssumption DEF Typed, Paired
<1>1. /\ Binding \in Names
      /\ disk[Binding] # None => disk'[Binding] = disk[Binding]
      /\ \A s \in Slots : Slot(s) \in Names /\ Slot(s) # Binding
      /\ \A s \in Slots, x \in Samples : Slot(s) \notin {Sample(x), Outcome(x)}
      /\ \A s, t \in Slots : Slot(s) # Result(t)
  BY FilesStay, NamesAre DEF Binding, Slot, Result, Sample, Outcome
<1>2. ASSUME NEW name, NEW body, cmd'[h] = Writing(h, name, body)
      PROVE  /\ cmd'[h].name = name /\ cmd'[h].pc = "check" /\ cmd'[h].prep = cmd[h].prep
  BY <1>0, <1>2 DEF Shaped, Writing
<1>3. CASE Check(h) \/ Link(h) \/ Sync(h) \/ SyncFails(h) \/ Spent(h)
  <2>1. PICK pc \in {"link", "sync", "wrote", "caught", "execute"} :
           cmd'[h] = [cmd[h] EXCEPT !.pc = pc] /\ (pc = "execute" => Spent(h))
    BY <1>3, OthersStay DEF Check, Link, Sync, SyncFails, Spent, Goto
  <2>2. cmd'[h].name = cmd[h].name /\ cmd'[h].prep = cmd[h].prep /\ cmd'[h].pc = pc
    BY <1>0, <2>1 DEF Shaped
  <2>3. Spent(h) => cmd[h].name \notin {None, Binding}
    BY DEF Spent, Binding
  <2> QED
    BY <1>1, <2>1, <2>2, <2>3, PledgedStays
<1>4. CASE Bound(h)
  <2>1. cmd'[h] = [Idle EXCEPT !.pc = "opened", !.prep = cmd[h].prep]
    BY <1>4, OthersStay DEF Bound
  <2>2. cmd'[h].pc = "opened" /\ cmd'[h].prep = cmd[h].prep /\ cmd'[h].name = None
    BY <2>1 DEF Idle
  <2>3. disk[Binding] = cmd[h].prep /\ disk[Binding] = cmd[h].body
    BY <1>4 DEF Bound, Published, Follows, Paired
  <2>4. cmd[h].body # None
    BY <1>0, <1>1, <1>4, NothingAssumption DEF Bound, Shaped
  <2> QED
    BY <1>0, <1>1, <2>2, <2>3, <2>4 DEF Pledged
<1>5. ASSUME NEW p \in Preparations, Open(h, p) PROVE Pledged(h)'
  <2>1. cmd'[h] = [Writing(h, Binding, p) EXCEPT !.prep = p]
    BY <1>5, OthersStay DEF Open
  <2>2. cmd'[h].name = Binding /\ cmd'[h].pc = "check"
    BY <1>0, <2>1 DEF Shaped, Writing
  <2> QED
    BY <1>1, <2>2 DEF Pledged
<1>6. ASSUME NEW s \in Slots, NEW v \in Values \cup {None}, Dispatch(h, s, v) PROVE Pledged(h)'
  <2>1. cmd'[h].prep = Mutating /\ cmd'[h].pc = "check" /\ cmd[h].pc = "opened" /\ cmd[h].prep = Mutating
    BY <1>2, <1>6, OthersStay DEF Dispatch
  <2> QED
    BY <1>1, <2>1 DEF Pledged
<1>7. ASSUME NEW v \in Values, Execute(h, v) PROVE Pledged(h)'
  <2>1. cmd'[h] = [cmd[h] EXCEPT !.pc = "called", !.answer = v] /\ cmd[h].pc = "execute"
    BY <1>7, OthersStay DEF Execute
  <2>2. cmd'[h].name = cmd[h].name /\ cmd'[h].prep = cmd[h].prep /\ cmd'[h].pc = "called"
    BY <1>0, <2>1 DEF Shaped
  <2> QED
    BY <1>1, <2>1, <2>2, PledgedStays
<1>8. CASE Seal(h)
  <2>1. PICK s \in Slots : cmd[h].name = Slot(s)
    BY <1>0, <1>8 DEF Seal, Shaped
  <2>2. cmd[h].name.of = s
    BY <2>1 DEF Slot
  <2>3. \E body : cmd'[h] = Writing(h, Result(s), body)
    BY <1>8, <2>2, OthersStay DEF Seal
  <2>4. cmd'[h].name = Result(s) /\ cmd'[h].pc = "check" /\ cmd'[h].prep = cmd[h].prep
    BY <1>2, <2>3
  <2>5. cmd[h].pc = "called"
    BY <1>8 DEF Seal
  <2> QED
    BY <1>1, <2>4, <2>5, PledgedStays
<1>9. CASE ReadOutcome(h)
  <2>1. /\ cmd'[h] = [cmd[h] EXCEPT !.pc = "checkpoint", !.prior = disk[Outcome(At(h))]]
        /\ cmd[h].pc = "opened" /\ cmd[h].prep = Component
    BY <1>9, OthersStay DEF ReadOutcome
  <2>2. cmd'[h].name = cmd[h].name /\ cmd'[h].prep = cmd[h].prep /\ cmd'[h].pc = "checkpoint"
    BY <1>0, <2>1 DEF Shaped
  <2> QED
    BY <1>1, <2>1, <2>2 DEF Pledged
<1>10. CASE ReadCheckpoint(h)
  <2>1. \/ cmd'[h] = [cmd[h] EXCEPT !.pc = "seal"]
        \/ \E o : cmd'[h] = [Idle EXCEPT !.pc = "opened", !.prep = Component, !.outcomes = o]
    BY <1>10, OthersStay DEF ReadCheckpoint, Goto
  <2>2. cmd[h].pc = "checkpoint" /\ cmd[h].prep = Component /\ disk[Binding] = Component /\ Component # None
    BY <1>10 DEF ReadCheckpoint, Pledged
  <2>3. CASE cmd'[h] = [cmd[h] EXCEPT !.pc = "seal"]
    <3>1. cmd'[h].name = cmd[h].name /\ cmd'[h].prep = cmd[h].prep /\ cmd'[h].pc = "seal"
      BY <1>0, <2>3 DEF Shaped
    <3> QED
      BY <1>1, <2>2, <3>1, PledgedStays
  <2>4. ASSUME NEW o, cmd'[h] = [Idle EXCEPT !.pc = "opened", !.prep = Component, !.outcomes = o]
        PROVE  Pledged(h)'
    <3>1. cmd'[h].name = None /\ cmd'[h].prep = Component /\ cmd'[h].pc = "opened"
      BY <2>4 DEF Idle
    <3> QED
      BY <1>0, <1>1, <2>2, <3>1 DEF Pledged
  <2> QED
    BY <2>1, <2>3, <2>4
<1>11. CASE Pinned(h) \/ \E source \in PreparationSource : SealSample(h, source)
  <2>1. /\ \E name \in {Sample(At(h)), Outcome(At(h))} : \E body : cmd'[h] = Writing(h, name, body)
        /\ cmd[h].pc = "seal" \/ cmd[h].name \notin {None, Binding}
    <3>1. CASE Pinned(h)
      <4>1. cmd[h].name \notin {None, Binding}
        BY <3>1 DEF Pinned, Binding
      <4> QED
        BY <3>1, <4>1, OthersStay DEF Pinned
    <3> QED
      BY <1>11, <3>1, OthersStay DEF SealSample
  <2>2. cmd'[h].name \in {Sample(At(h)), Outcome(At(h))} /\ cmd'[h].pc = "check" /\ cmd'[h].prep = cmd[h].prep
    BY <1>2, <2>1
  <2>3. \A s \in Slots : cmd'[h].name # Slot(s)
    BY <2>2 DEF Slot, Sample, Outcome
  <2> QED
    BY <1>1, <2>1, <2>2, <2>3, PledgedStays
<1>12. CASE Appended(h)
  <2>1. cmd'[h] = [cmd[h] EXCEPT !.pc = "opened", !.name = None, !.body = None]
    BY <1>12, OthersStay DEF Appended
  <2>2. cmd'[h].name = None /\ cmd'[h].prep = cmd[h].prep /\ cmd'[h].pc = "opened"
    BY <1>0, <2>1 DEF Shaped
  <2>3. cmd[h].name \notin {None, Binding}
    BY <1>12 DEF Appended, Binding
  <2> QED
    BY <1>0, <1>1, <2>2, <2>3, PledgedStays
<1>13. CASE Close(h) \/ Leave(h)
  <2>1. cmd'[h] = Idle
    BY <1>13, OthersStay DEF Close, Leave
  <2>2. cmd'[h].name = None /\ cmd'[h].pc = "idle"
    BY <2>1 DEF Idle
  <2> QED
    BY <1>0, <1>1, <2>2 DEF Pledged
<1> QED
  BY <1>3, <1>4, <1>5, <1>6, <1>7, <1>8, <1>9, <1>10, <1>11, <1>12, <1>13 DEF CommandStep

\* A command adds an outcome only by reading the source pinned for the next sample.
LEMMA OutcomesOnlyGrow ==
    ASSUME Typed, NEW h \in Commands, CommandStep(h)
    PROVE  cmd'[h].outcomes \in {cmd[h].outcomes, <<>>} \/ ReadCheckpoint(h)
<1>0. Shaped(h)
  BY DEF Typed
<1>1. CASE Check(h) \/ Link(h) \/ Sync(h) \/ SyncFails(h) \/ Spent(h)
  <2>1. \E pc \in {"link", "sync", "wrote", "caught", "execute"} : Goto(h, pc)
    BY <1>1 DEF Check, Link, Sync, SyncFails, Spent
  <2>2. \E pc : cmd'[h] = [cmd[h] EXCEPT !.pc = pc]
    BY <2>1, OthersStay DEF Goto
  <2> QED
    BY <1>0, <2>2 DEF Shaped
<1>2. CASE Bound(h) \/ Close(h) \/ Leave(h)
  <2>1. cmd'[h] = Idle \/ cmd'[h] = [Idle EXCEPT !.pc = "opened", !.prep = cmd[h].prep]
    BY <1>2, OthersStay DEF Bound, Close, Leave
  <2>2. Idle.outcomes = <<>>
    BY DEF Idle
  <2>3. [Idle EXCEPT !.pc = "opened", !.prep = cmd[h].prep].outcomes = <<>>
    BY DEF Idle
  <2> QED
    BY <2>1, <2>2, <2>3
<1>3. CASE \/ Seal(h) \/ Pinned(h)
           \/ \E s \in Slots, v \in Values \cup {None} : Dispatch(h, s, v)
           \/ \E source \in PreparationSource : SealSample(h, source)
  <2>1. \E name, body : Become(h, Writing(h, name, body))
    BY <1>3 DEF Seal, Pinned, Dispatch, SealSample
  <2>2. \E name, body : cmd'[h] = Writing(h, name, body)
    BY <2>1, OthersStay
  <2> QED
    BY <1>0, <2>2 DEF Shaped, Writing
<1>4. CASE \E p \in Preparations : Open(h, p)
  <2>1. \E p : cmd'[h] = [Writing(h, Binding, p) EXCEPT !.prep = p]
    BY <1>4, OthersStay DEF Open
  <2> QED
    BY <1>0, <2>1 DEF Shaped, Writing
<1>5. CASE ReadOutcome(h) \/ Appended(h) \/ \E v \in Values : Execute(h, v)
  <2>1. \/ cmd'[h] = [cmd[h] EXCEPT !.pc = "checkpoint", !.prior = disk[Outcome(At(h))]]
        \/ cmd'[h] = [cmd[h] EXCEPT !.pc = "opened", !.name = None, !.body = None]
        \/ \E v \in Values : cmd'[h] = [cmd[h] EXCEPT !.pc = "called", !.answer = v]
    BY <1>5, OthersStay DEF ReadOutcome, Appended, Execute
  <2> QED
    BY <1>0, <2>1 DEF Shaped
<1> QED
  BY <1>1, <1>2, <1>3, <1>4, <1>5 DEF CommandStep

LEMMA ToldOfStep ==
    ASSUME Typed, Paired, NEW h \in Commands, ToldOf(h), CommandStep(h)
    PROVE  ToldOf(h)'
<1>1. lost' = lost /\ \A f \in Names : disk[f] # None => disk'[f] = disk[f]
  <2>1. lost' = lost
    BY DEF CommandStep, Check, Link, Sync, SyncFails, Bound, Spent, Seal, ReadOutcome, ReadCheckpoint,
       Pinned, Appended, Close, Leave, Open, Dispatch, Execute, SealSample, host
  <2> QED
    BY <2>1, FilesStay
<1>2. \A n, o : Stands(n, o) => Stands(n, o)'
  BY <1>1, StandsStays
<1>3. CASE cmd'[h].outcomes = cmd[h].outcomes
  BY <1>2, <1>3 DEF ToldOf
<1>4. CASE cmd'[h].outcomes = <<>>
  BY <1>4 DEF ToldOf
<1>5. CASE ReadCheckpoint(h) /\ cmd'[h].outcomes # cmd[h].outcomes
  <2> DEFINE pinned == Sample(At(h))
             o == outcomeOf(disk[pinned])
  <2>1. /\ cmd'[h] = [cmd[h] EXCEPT !.pc = "seal"]
           \/ /\ disk[pinned] # None
              /\ cmd'[h] = [Idle EXCEPT !.pc = "opened", !.prep = Component,
                                        !.outcomes = Append(cmd[h].outcomes, o)]
        /\ cmd[h].pc = "checkpoint" /\ disk' = disk
    BY <1>5, OthersStay DEF ReadCheckpoint, Goto
  <2>2. Shaped(h)
    BY DEF Typed
  <2>3. disk[pinned] # None /\ cmd'[h].outcomes = Append(cmd[h].outcomes, o)
    <3>1. CASE cmd'[h] = [cmd[h] EXCEPT !.pc = "seal"]
      BY <1>5, <2>2, <3>1 DEF Shaped
    <3> QED
      BY <2>1, <3>1 DEF Idle
  <2>4. pinned \in Names
    BY <2>1, <2>2, NamesAre DEF Shaped
  <2> HIDE DEF o
  <2>5. ASSUME NEW n, NEW outcome, n = Len(cmd[h].outcomes) + 1, outcome = o
        PROVE  Stands(n, outcome)'
    <3>1. Stands(n, outcome)
      BY <2>3, <2>4, <2>5 DEF Stands, At, o
    <3> QED
      BY <1>2, <3>1
  <2>6. cmd[h].outcomes \in Seq(PreparationOutcome)
    BY <2>2 DEF Shaped
  <2>7. ASSUME NEW n \in DOMAIN cmd'[h].outcomes
        PROVE  \/ n \in DOMAIN cmd[h].outcomes /\ cmd'[h].outcomes[n] = cmd[h].outcomes[n]
               \/ n = Len(cmd[h].outcomes) + 1 /\ cmd'[h].outcomes[n] = o
    BY <2>3, <2>6
  <2> QED
    BY <1>2, <2>5, <2>7 DEF ToldOf
<1> QED
  BY <1>3, <1>4, <1>5, OutcomesOnlyGrow

\* Calls are made under the one preparation, closures under the other.
LEMMA WhoTells ==
    ASSUME Typed, NEW h \in Commands, Pledged(h), ToldOf(h), CommandStep(h)
    PROVE  /\ lost' = lost
           /\ calls' = calls \/ disk[Binding] = Mutating
           /\ \/ closures' = closures
              \/ /\ closures' = closures \cup {cmd[h].outcomes}
                 /\ disk[Binding] = Component
                 /\ DOMAIN cmd[h].outcomes = DOMAIN Allocations
                 /\ \A n \in DOMAIN cmd[h].outcomes : Stands(n, cmd[h].outcomes[n])
<1>0. Shaped(h)
  BY DEF Typed
<1>1. CASE Close(h)
  <2>1. /\ closures' = closures \cup {cmd[h].outcomes} /\ UNCHANGED <<calls, lost>>
        /\ Len(cmd[h].outcomes) = Len(Allocations) /\ cmd[h].pc = "opened" /\ cmd[h].prep = Component
    BY <1>1 DEF Close
  <2>2. DOMAIN cmd[h].outcomes = DOMAIN Allocations
    BY <1>0, <2>1, IntentAssumption, LenProperties DEF Shaped
  <2> QED
    BY <2>1, <2>2 DEF Pledged, ToldOf
<1>2. ASSUME NEW v \in Values, Execute(h, v)
      PROVE  UNCHANGED <<lost, closures>> /\ disk[Binding] = Mutating
  <2>1. UNCHANGED <<lost, closures>>
    BY <1>2 DEF Execute
  <2>2. \E s \in Slots : cmd[h].pc = "execute" /\ cmd[h].name = Slot(s)
    BY <1>2, ExecuteEffect
  <2> QED
    BY <2>1, <2>2 DEF Pledged
<1>3. CASE ~Close(h) /\ ~\E v \in Values : Execute(h, v)
  BY <1>3 DEF CommandStep, Check, Link, Sync, SyncFails, Bound, Spent, Seal, ReadOutcome,
     ReadCheckpoint, Pinned, Appended, Leave, Open, Dispatch, SealSample, host
<1> QED
  BY <1>1, <1>2, <1>3

LEMMA StandingStep ==
    ASSUME Typed, Paired, Standing, [Next]_vars
    PROVE  Standing'
<1>0. Binding \in Names /\ Mutating # None /\ Component # None
  BY NamesAre, IntentAssumption
<1>1. ASSUME NEW h \in Commands, CommandStep(h) PROVE Standing'
  <2>0. Pledged(h) /\ ToldOf(h)
    BY DEF Standing
  <2>1. /\ lost' = lost
        /\ \A f \in Names : disk[f] # None => disk'[f] = disk[f]
    BY <1>1, <2>0, WhoTells, FilesStay
  <2>2. \A n, o : Stands(n, o) => Stands(n, o)'
    BY <2>1, StandsStays
  <2>3. ASSUME NEW g \in Commands PROVE Pledged(g)' /\ ToldOf(g)'
    <3>1. CASE g = h
      BY <1>1, <2>0, <3>1, PledgedStep, ToldOfStep
    <3>2. CASE g # h
      <4>1. cmd'[g] = cmd[g] /\ Pledged(g) /\ ToldOf(g)
        BY <1>1, <3>2, OnlyOwn DEF Standing
      <4> QED
        BY <1>0, <2>1, <2>2, <4>1 DEF Pledged, ToldOf
    <3> QED
      BY <3>1, <3>2
  <2>4. /\ calls' = calls \/ disk[Binding] = Mutating
        /\ \/ closures' = closures
           \/ /\ closures' = closures \cup {cmd[h].outcomes}
              /\ disk[Binding] = Component
              /\ DOMAIN cmd[h].outcomes = DOMAIN Allocations
              /\ \A n \in DOMAIN cmd[h].outcomes : Stands(n, cmd[h].outcomes[n])
    BY <1>1, <2>0, WhoTells
  <2>5. \A a \in closures' : DOMAIN a = DOMAIN Allocations /\ \A n \in DOMAIN a : Stands(n, a[n])'
    BY <2>2, <2>4 DEF Standing
  <2>6. (\E s \in Slots : calls'[s] # <<>>) => Binding \in lost \/ disk[Binding] = Mutating
    BY <2>4 DEF Standing
  <2>7. closures' # {} => Binding \in lost \/ disk[Binding] = Component
    BY <2>4 DEF Standing
  <2> QED
    BY <1>0, <2>1, <2>3, <2>5, <2>6, <2>7 DEF Standing
<1>2. CASE Invalidate
  BY <1>2 DEF Invalidate, Standing, Pledged, ToldOf, Stands
<1>3. ASSUME NEW gone \in SUBSET (Present \ synced), Cut(gone) PROVE Standing'
  <2>1. \A h \in Commands : cmd'[h] = Idle
    BY <1>3 DEF Cut
  <2>2. \A h \in Commands : Pledged(h)' /\ ToldOf(h)'
    BY <2>1, NamesAre, NothingAssumption DEF Pledged, ToldOf, Idle
  <2>3. /\ UNCHANGED <<calls, closures>> /\ lost \subseteq lost'
        /\ \A f \in Names : disk'[f] = disk[f] \/ f \in lost'
    BY <1>3 DEF Cut
  <2>4. \A n, o : Stands(n, o) => Stands(n, o)'
    BY <2>3, StandsStays
  <2> QED
    BY <1>0, <2>2, <2>3, <2>4 DEF Standing
<1>4. CASE UNCHANGED vars
  BY <1>4 DEF vars, Standing, Pledged, ToldOf, Stands
<1> QED
  BY <1>1, <1>2, <1>3, <1>4 DEF Next

\* Two closures tell the same of every sample, and an authorization serves one
\* preparation, but for what a power loss took.
THEOREM FirstTruthsStand == Spec => []TruthsStand
<1>1. Typed /\ Paired /\ Standing /\ [Next]_vars => Paired' /\ Standing'
  BY PairedStep, StandingStep
<1>2. Standing => TruthsStand
  <2> SUFFICES ASSUME Standing PROVE TruthsStand
    OBVIOUS
  <2>1. FirstTruthStands
    BY DEF Standing, Stands, FirstTruthStands
  <2>2. OnePreparation
    BY IntentAssumption DEF Standing, OnePreparation
  <2> QED
    BY <2>1, <2>2 DEF TruthsStand
<1> QED
  BY DirectoryIsTyped, PairedInit, StandingInit, <1>1, <1>2, PTL DEF Spec
=============================================================================
