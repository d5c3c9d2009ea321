---------------------------- MODULE RecoveryProofs ----------------------------
(***************************************************************************)
(* Proofs about Recovery, for every number of operations, passes, windows, *)
(* grants and qualification epochs, and for every quota.                   *)
(***************************************************************************)
EXTENDS Recovery, FiniteSetTheorems, TLAPS

\* A pass beyond its claim has a row, counted in the window it was claimed in.
Placed ==
  \A p \in Passes :
    /\ pc[p] \in Working \cup {"chosen"} => at[p] \in Ops
    /\ pc[p] \in Working => lastWindow[at[p]] \in Windows
    /\ pc[p] # "idle" => win[p] \in Windows

Typed == TypeOK /\ Placed

LEMMA TypedInit == Init => Typed
<1> SUFFICES ASSUME Init PROVE Typed
  OBVIOUS
<1>0. 1 \in Epochs /\ 0 \in Epochs /\ 0 \in Versions /\ 1 \in Windows
  BY RecoveryAssumption DEF Epochs, Versions, Windows
<1>1. RowsTyped
  BY RecoveryAssumption DEF Init, RowsTyped, OpStates, Open, RecStates
<1>2. WorldTyped
  BY <1>0, RecoveryAssumption DEF Init, WorldTyped
<1>3. BudgetTyped
  BY DEF Init, BudgetTyped
<1>4. PolicyTyped
  <2>1. \A k \in Versions \X Modes : (IF k[1] = 0 THEN [NoControl EXCEPT !.epoch = 1, !.allows = Ops] ELSE NoControl)
           \in [epoch : Epochs, allows : SUBSET Ops, disabled : BOOLEAN]
    BY <1>0 DEF NoControl
  <2>2. control \in [Versions \X Modes -> [epoch : Epochs, allows : SUBSET Ops, disabled : BOOLEAN]]
    BY <2>1 DEF Init
  <2>3. epoch \in Epochs /\ connected \in BOOLEAN /\ credential \in Versions /\ installed \in BOOLEAN
    BY <1>0 DEF Init
  <2> QED
    BY <2>2, <2>3 DEF PolicyTyped
<1>5. PassesTyped
  BY <1>0, RecoveryAssumption DEF Init, PassesTyped, NoLease, Modes, Steps
<1>6. Placed
  BY DEF Init, Placed, Working
<1> QED
  BY <1>1, <1>2, <1>3, <1>4, <1>5, <1>6 DEF Typed, TypeOK

\* What the steps of the request that sends touch.
LEMMA SenderTyped ==
  ASSUME Typed, NEW o \in Ops, Sender(o)
  PROVE  Typed'
<1> USE DEF Typed, TypeOK, row, budget, world, policy, pass
<1>1. UNCHANGED <<budget, policy, pass, lastWindow>> 
  BY DEF Sender, Begin, Deliver, SettleDirect, FailDirect, SettlePositive
<1>2. BudgetTyped' /\ PolicyTyped' /\ PassesTyped' /\ Placed'
  BY <1>1 DEF BudgetTyped, PolicyTyped, PassesTyped, Placed
<1>3. CASE Begin(o)
  <2>1. credential \in Versions
    BY DEF PolicyTyped
  <2>2. RowsTyped'
    BY <1>3 DEF Begin, RowsTyped, OpStates, Open, RecStates
  <2>3. WorldTyped'
    BY <1>3, <2>1 DEF Begin, WorldTyped
  <2> QED
    BY <1>2, <2>2, <2>3
<1>4. CASE Deliver(o)
  BY <1>2, <1>4 DEF Deliver, RowsTyped, WorldTyped
<1>5. CASE SettleDirect(o)
  <2>1. RowsTyped'
    BY <1>5 DEF SettleDirect, SettlePositive, RowsTyped, OpStates, RecStates
  <2> QED
    BY <1>2, <1>5, <2>1 DEF SettleDirect, WorldTyped
<1>6. CASE FailDirect(o)
  BY <1>2, <1>6 DEF FailDirect, RecordFailure, RowsTyped, WorldTyped, OpStates, Open
<1> QED
  BY <1>3, <1>4, <1>5, <1>6 DEF Sender

LEMMA ClockTyped == ASSUME Typed, Clock PROVE Typed'
<1> USE DEF Typed, TypeOK, row, budget, world, policy, pass
<1>1. BudgetTyped' /\ PolicyTyped' /\ PassesTyped' /\ Placed'
  <2>1. UNCHANGED <<budget, policy, pass, lastWindow>>
    BY DEF Clock, NextWindow, LeaseLapses, RetryComes, DeadlinePasses, RetentionEnds
  <2> QED
    BY <2>1 DEF BudgetTyped, PolicyTyped, PassesTyped, Placed
<1>2. CASE NextWindow
  <2>1. window + 1 \in Windows
    BY <1>2, RecoveryAssumption DEF NextWindow, Windows, WorldTyped
  <2> QED
    BY <1>1, <1>2, <2>1 DEF NextWindow, RowsTyped, WorldTyped
<1>3. ASSUME NEW o \in Ops, LeaseLapses(o) \/ RetryComes(o)
      PROVE  Typed'
  BY <1>1, <1>3 DEF LeaseLapses, RetryComes, RowsTyped, WorldTyped
<1>4. ASSUME NEW o \in Ops, DeadlinePasses(o) \/ RetentionEnds(o)
      PROVE  Typed'
  BY <1>1, <1>4 DEF DeadlinePasses, RetentionEnds, RowsTyped, WorldTyped
<1> QED
  BY <1>2, <1>3, <1>4 DEF Clock

LEMMA OperatorTyped == ASSUME Typed, Operator PROVE Typed'
<1> USE DEF Typed, TypeOK, row, budget, world, policy, pass
<1> DEFINE Controls == [epoch : Epochs, allows : SUBSET Ops, disabled : BOOLEAN]
<1>0. UNCHANGED <<opState, lastWindow, budget, world, pass, crashes>>
  BY DEF Operator, Qualify, Disable, SuspendAll, QualificationExpires, Revoke, Reconnect, FreezeOrRelease
<1>1. BudgetTyped' /\ WorldTyped' /\ PassesTyped' /\ Placed'
  BY <1>0 DEF BudgetTyped, WorldTyped, PassesTyped, Placed
<1>2. ASSUME NEW m \in Modes, NEW allows \in SUBSET Ops, NEW disabled \in BOOLEAN,
             Administer(m, allows, disabled)
      PROVE  PolicyTyped'
  <2>1. epoch + 1 \in Epochs
    BY <1>2, RecoveryAssumption DEF Administer, Epochs, PolicyTyped
  <2>2. [epoch |-> epoch + 1, allows |-> allows, disabled |-> disabled] \in Controls
    BY <2>1
  <2>3. control' \in [Versions \X Modes -> Controls]
    BY <1>2, <2>2 DEF Administer, PolicyTyped
  <2>4. epoch' \in Epochs /\ UNCHANGED <<connected, credential, installed>>
    BY <1>2, <2>1 DEF Administer
  <2> QED
    BY <2>3, <2>4 DEF PolicyTyped
<1>3. ASSUME NEW m \in Modes, Qualify(m) PROVE Typed'
  <2>1. PICK allowed \in {Ops} \cup {{o} : o \in Ops} : Administer(m, allowed, FALSE)
    BY <1>3 DEF Qualify
  <2>2. allowed \in SUBSET Ops
    OBVIOUS
  <2>3. PolicyTyped'
    BY <1>2, <2>1, <2>2
  <2>4. RowsTyped'
    BY <1>3 DEF Qualify, RowsTyped
  <2> QED
    BY <1>1, <2>3, <2>4
<1>4. ASSUME NEW m \in Modes, Disable(m) PROVE Typed'
  <2>1. Administer(m, {}, TRUE)
    BY <1>4 DEF Disable
  <2>2. PolicyTyped'
    BY <1>2, <2>1
  <2>3. RowsTyped'
    BY <1>4 DEF Disable, SuspendAll, RowsTyped, RecStates
  <2> QED
    BY <1>1, <2>2, <2>3
<1>5. ASSUME NEW m \in Modes, QualificationExpires(m) PROVE Typed'
  <2>1. NoControl \in Controls
    BY RecoveryAssumption DEF NoControl, Epochs
  <2>2. PolicyTyped'
    BY <1>5, <2>1 DEF QualificationExpires, PolicyTyped
  <2> QED
    BY <1>1, <1>5, <2>2 DEF QualificationExpires, RowsTyped
<1>6. CASE Revoke \/ Reconnect
  <2>1. credential + 1 \in Versions
    BY <1>6, RecoveryAssumption DEF Revoke, Reconnect, Versions, PolicyTyped
  <2>3. credential' \in Versions /\ UNCHANGED <<control, epoch, installed>> /\ connected' \in BOOLEAN
    BY <1>6, <2>1 DEF Revoke, Reconnect
  <2>2. RowsTyped'
    BY <1>6 DEF Revoke, Reconnect, RowsTyped
  <2> QED
    BY <1>1, <2>3, <2>2 DEF PolicyTyped
<1>7. CASE FreezeOrRelease
  <2>1. UNCHANGED <<control, epoch, connected, credential>> /\ installed' \in BOOLEAN
    BY <1>7 DEF FreezeOrRelease
  <2>2. RowsTyped'
    BY <1>7 DEF FreezeOrRelease, RowsTyped
  <2> QED
    BY <1>1, <2>1, <2>2 DEF PolicyTyped
<1> QED
  BY <1>3, <1>4, <1>5, <1>6, <1>7 DEF Operator

-----------------------------------------------------------------------------
(* Where a pass goes *)

PassesStayTyped == PassesTyped' /\ Placed'

\* A claimed row's window stays a window.
LastStays == \A o \in Ops : lastWindow[o] \in Windows => lastWindow'[o] \in Windows

LEMMA GotoTyped ==
  ASSUME Typed, LastStays, NEW p \in Passes, NEW s \in Steps, Goto(p, s),
         s \in Working \cup {"chosen"} => at[p] \in Ops,
         s \in Working => lastWindow'[at[p]] \in Windows,
         s # "idle" => win[p] \in Windows
  PROVE  PassesStayTyped
<1>1. /\ pc' = [pc EXCEPT ![p] = s] /\ pc' \in [Passes -> Steps]
      /\ UNCHANGED <<todo, at, held, found, win>>
  BY DEF Typed, TypeOK, PassesTyped, Goto
<1>2. Placed'
  BY <1>1 DEF Typed, TypeOK, PassesTyped, Placed, LastStays
<1> QED
  BY <1>1, <1>2 DEF Typed, TypeOK, PassesTyped, PassesStayTyped

LEMMA NextRowTyped ==
  ASSUME Typed, LastStays, NEW p \in Passes, NextRow(p), pc[p] # "idle"
  PROVE  PassesStayTyped
<1>0. "due" \in Steps /\ "due" \notin Working \cup {"chosen"} /\ NoLease \in [mode : Modes, epoch : Epochs]
  BY RecoveryAssumption DEF Steps, Working, NoLease, Modes, Epochs
<1>1. PassesTyped'
  BY <1>0 DEF Typed, TypeOK, PassesTyped, NextRow
<1>2. /\ pc'[p] = "due" /\ \A q \in Passes \ {p} : pc'[q] = pc[q] /\ at'[q] = at[q]
      /\ win' = win
  BY DEF Typed, TypeOK, PassesTyped, NextRow
<1>3. Placed'
  BY <1>0, <1>2 DEF Typed, TypeOK, PassesTyped, Placed, LastStays
<1> QED
  BY <1>1, <1>3 DEF PassesStayTyped

LEMMA RestTyped ==
  ASSUME Typed, LastStays, NEW p \in Passes, Rest(p)
  PROVE  PassesStayTyped
<1>0. "idle" \in Steps /\ "idle" \notin Working \cup {"chosen"} /\ NoLease \in [mode : Modes, epoch : Epochs]
  BY RecoveryAssumption DEF Steps, Working, NoLease, Modes, Epochs
<1>1. PassesTyped'
  BY <1>0, RecoveryAssumption DEF Typed, TypeOK, PassesTyped, Rest
<1>2. /\ pc'[p] = "idle"
      /\ \A q \in Passes \ {p} : pc'[q] = pc[q] /\ at'[q] = at[q] /\ win'[q] = win[q]
  BY DEF Typed, TypeOK, PassesTyped, Rest
<1>3. Placed'
  BY <1>0, <1>2 DEF Typed, TypeOK, PassesTyped, Placed, LastStays
<1> QED
  BY <1>1, <1>3 DEF PassesStayTyped

\* The steps of a pass that leave the tables alone, or only count a request.
LEMMA QuietPassTyped ==
  ASSUME Typed, NEW p \in Passes,
         \/ Collect(p) \/ Inconclusive(p) \/ SearchMatch(p) \/ Metadata(p) \/ EndPass(p)
         \/ \E o \in Ops : Choose(p, o)
  PROVE  Typed'
<1> USE DEF row, budget, world, policy, pass
<1>1. UNCHANGED <<row, opState, budget, world, policy, crashes>>
  BY DEF Collect, Inconclusive, SearchMatch, Metadata, EndPass, Choose
<1>2. RowsTyped' /\ WorldTyped' /\ BudgetTyped' /\ PolicyTyped' /\ LastStays
  BY <1>1 DEF Typed, TypeOK, RowsTyped, WorldTyped, BudgetTyped, PolicyTyped, LastStays
<1>3. Working = {"ready", "asked", "confirmed", "deferred", "suspended"}
      /\ Steps = {"idle", "failing", "due", "chosen"} \cup Working
  BY DEF Working, Steps
<1>4. CASE Collect(p)
  <2>1. PICK rows \in SUBSET Ops : todo' = [todo EXCEPT ![p] = rows]
    BY <1>4 DEF Collect
  <2>2. /\ pc[p] = "failing" /\ pc' = [pc EXCEPT ![p] = "due"]
        /\ UNCHANGED <<at, held, found, win>>
    BY <1>4 DEF Collect
  <2>3. PassesTyped'
    BY <1>3, <2>1, <2>2 DEF Typed, TypeOK, PassesTyped
  <2>4. Placed'
    BY <1>1, <1>3, <2>2 DEF Typed, TypeOK, PassesTyped, Placed
  <2> QED
    BY <1>2, <2>3, <2>4 DEF Typed, TypeOK
<1>5. CASE Inconclusive(p) \/ Metadata(p)
  <2>1. /\ pc[p] = "asked"
        /\ \E s \in {"confirmed", "deferred"} : Goto(p, s)
    BY <1>5 DEF Inconclusive, Metadata
  <2>2. /\ at[p] \in Ops /\ lastWindow'[at[p]] \in Windows /\ win[p] \in Windows
    BY <1>1, <1>3, <2>1 DEF Typed, Placed
  <2>3. PassesStayTyped
    BY <1>2, <1>3, <2>1, <2>2, GotoTyped
  <2> QED
    BY <1>2, <2>3 DEF Typed, TypeOK, PassesStayTyped
<1>6. CASE SearchMatch(p)
  <2>1. /\ pc[p] = "asked" /\ pc' = [pc EXCEPT ![p] = "ready"]
        /\ UNCHANGED <<todo, at, held, win>>
        /\ \E c \in {"own", "other"} : found' = [found EXCEPT ![p] = c]
    BY <1>6 DEF SearchMatch
  <2>2. PassesTyped'
    BY <1>3, <2>1 DEF Typed, TypeOK, PassesTyped
  <2>3. Placed'
    BY <1>1, <1>3, <2>1 DEF Typed, TypeOK, PassesTyped, Placed
  <2> QED
    BY <1>2, <2>2, <2>3 DEF Typed, TypeOK
<1>7. CASE EndPass(p)
  BY <1>2, <1>7, RestTyped DEF EndPass, Typed, TypeOK, PassesStayTyped
<1>8. ASSUME NEW o \in Ops, Choose(p, o) PROVE Typed'
  <2>1. /\ pc[p] = "due" /\ todo' = [todo EXCEPT ![p] = @ \ {o}] /\ UNCHANGED <<found, win>>
        /\ \/ UNCHANGED <<pc, at, held>>
           \/ /\ pc' = [pc EXCEPT ![p] = "chosen"] /\ at' = [at EXCEPT ![p] = o]
              /\ \E m \in Modes : held' = [held EXCEPT ![p] = [mode |-> m, epoch |-> Control(o, m).epoch]]
    BY <1>8 DEF Choose, Modes
  <2>2. \A m \in Modes : Control(o, m).epoch \in Epochs
    BY DEF Control, Typed, TypeOK, WorldTyped, PolicyTyped
  <2>3. PassesTyped'
    <3>1. pc' \in [Passes -> Steps] /\ at' \in [Passes -> Ops \cup {None}]
      BY <1>3, <2>1 DEF Typed, TypeOK, PassesTyped
    <3>2. held' \in [Passes -> [mode : Modes, epoch : Epochs]]
      BY <2>1, <2>2 DEF Typed, TypeOK, PassesTyped
    <3>3. todo' \in [Passes -> SUBSET Ops]
      BY <2>1 DEF Typed, TypeOK, PassesTyped
    <3> QED
      BY <2>1, <3>1, <3>2, <3>3 DEF Typed, TypeOK, PassesTyped
  <2>4. Placed'
    BY <1>1, <1>3, <2>1 DEF Typed, TypeOK, PassesTyped, Placed
  <2> QED
    BY <1>2, <2>3, <2>4 DEF Typed, TypeOK
<1> QED
  BY <1>4, <1>5, <1>6, <1>7, <1>8

\* A request may be admitted; the pass goes on with its row, or gives it up.
LEMMA RequestTyped ==
  ASSUME Typed, NEW p \in Passes, Ask(p) \/ Refresh(p)
  PROVE  Typed'
<1> USE DEF row, budget, world, policy, pass
<1>1. /\ UNCHANGED <<row, opState, log, world, control, epoch, credential, installed, crashes>>
      /\ connected' \in {FALSE, connected}
      /\ pc[p] \in {"ready", "asked"}
  BY DEF Ask, Refresh, Refused
<1>2. at[p] \in Ops /\ lastWindow[at[p]] \in Windows /\ win[p] \in Windows
  BY <1>1 DEF Typed, Placed, Working
<1>3. requests' = requests \/ Admit(at[p])
  BY DEF Ask, Refresh, Refused
<1>4. BudgetTyped'
  BY <1>1, <1>2, <1>3 DEF Admit, Typed, TypeOK, BudgetTyped
<1>5. RowsTyped' /\ WorldTyped' /\ PolicyTyped' /\ LastStays
  BY <1>1 DEF Typed, TypeOK, RowsTyped, WorldTyped, PolicyTyped, LastStays
<1>6. UNCHANGED pass \/ \E s \in {"asked", "deferred", "suspended"} : Goto(p, s)
  BY DEF Ask, Refresh, Refused
<1>7. PassesStayTyped
  <2>1. CASE UNCHANGED pass
    BY <1>1, <2>1 DEF PassesStayTyped, Typed, TypeOK, PassesTyped, Placed
  <2>2. ASSUME NEW s \in {"asked", "deferred", "suspended"}, Goto(p, s) PROVE PassesStayTyped
    BY <1>1, <1>2, <1>5, <2>2, GotoTyped DEF Steps, Working
  <2> QED
    BY <1>6, <2>1, <2>2
<1> QED
  BY <1>4, <1>5, <1>7 DEF Typed, TypeOK, PassesStayTyped

\* The steps of a pass that write rows.
LEMMA WritingPassTyped ==
  ASSUME Typed, NEW p \in Passes,
         \/ Start(p) \/ Claim(p) \/ SessionStatus(p) \/ Settle(p) \/ Finish(p) \/ Crash(p)
         \/ \E o \in Ops : RecordStale(p, o)
  PROVE  Typed'
<1> USE DEF row, budget, world, policy, pass
<1>1. UNCHANGED <<world, policy, requests>>
  BY DEF Start, Claim, SessionStatus, Settle, Finish, Crash, RecordStale
<1>2. PolicyTyped'
  BY <1>1 DEF Typed, TypeOK, PolicyTyped
<1>3. Working = {"ready", "asked", "confirmed", "deferred", "suspended"}
      /\ Steps = {"idle", "failing", "due", "chosen"} \cup Working
  BY DEF Working, Steps
<1>4. ASSUME UNCHANGED <<log, crashes>>, RowsTyped', PassesStayTyped PROVE Typed'
  BY <1>1, <1>2, <1>4 DEF Typed, TypeOK, WorldTyped, BudgetTyped, PassesStayTyped
<1>5. CASE Start(p)
  <2>1. RowsTyped' /\ LastStays
    BY <1>5 DEF Start, Cleanup, Typed, TypeOK, RowsTyped, RecStates, LastStays
  <2>2. /\ pc' = [pc EXCEPT ![p] = "failing"] /\ UNCHANGED <<at, held, found, lastWindow>>
        /\ \E w \in 1 .. window, stale \in SUBSET Ops :
             win' = [win EXCEPT ![p] = w] /\ todo' = [todo EXCEPT ![p] = stale]
    BY <1>5 DEF Start, Cleanup, Executing
  <2>3. \A w \in 1 .. window : w \in Windows
    BY RecoveryAssumption DEF Typed, TypeOK, WorldTyped, Windows
  <2>4. PassesTyped'
    BY <1>3, <2>2, <2>3 DEF Typed, TypeOK, PassesTyped, Windows
  <2>5. Placed'
    BY <1>3, <2>2, <2>3 DEF Typed, TypeOK, PassesTyped, Placed
  <2> QED
    BY <1>4, <1>5, <2>1, <2>4, <2>5 DEF Start, PassesStayTyped
<1>6. ASSUME NEW o \in Ops, RecordStale(p, o) PROVE Typed'
  <2>1. RowsTyped' /\ LastStays
    BY <1>6 DEF RecordStale, RecordFailure, Typed, TypeOK, RowsTyped, OpStates, Open, LastStays
  <2>2. CASE Rest(p)
    BY <1>4, <1>6, <2>1, <2>2, RestTyped DEF RecordStale
  <2>3. CASE todo' = [todo EXCEPT ![p] = @ \ {o}] /\ UNCHANGED <<pc, at, held, found, win>>
    <3>1. PassesStayTyped
      BY <1>6, <2>3 DEF RecordStale, Typed, TypeOK, PassesTyped, Placed, PassesStayTyped
    <3> QED
      BY <1>4, <1>6, <2>1, <3>1 DEF RecordStale
  <2> QED
    BY <1>6, <2>2, <2>3 DEF RecordStale
<1>7. CASE Claim(p)
  <2>1. pc[p] = "chosen" /\ at[p] \in Ops /\ win[p] \in Windows /\ crashes' = crashes
    BY <1>3, <1>7 DEF Claim, Typed, Placed
  <2>2. CASE CanClaim(p, at[p])
    <3>1. /\ log' = log \cup {<<win[p], at[p]>>}
          /\ attempts' = [attempts EXCEPT ![at[p]] = @ + 1]
          /\ lastWindow' = [lastWindow EXCEPT ![at[p]] = win[p]]
          /\ lease' = [lease EXCEPT ![at[p]] = p]
          /\ leaseOver' = [leaseOver EXCEPT ![at[p]] = FALSE]
          /\ Goto(p, "ready")
          /\ UNCHANGED <<rec, session, waiting, opState>>
      BY <1>7, <2>2 DEF Claim
    <3>2. attempts[at[p]] + 1 \in 0 .. AttemptCap
      BY <2>1, <2>2, RecoveryAssumption DEF CanClaim, Typed, TypeOK, RowsTyped
    <3>3. RowsTyped' /\ LastStays
      BY <2>1, <3>1, <3>2 DEF Typed, TypeOK, RowsTyped, LastStays, Windows
    <3>4. PassesStayTyped
      BY <1>3, <2>1, <3>1, <3>3, GotoTyped DEF Typed, TypeOK, RowsTyped
    <3>5. BudgetTyped' /\ WorldTyped'
      BY <1>1, <2>1, <3>1 DEF Typed, TypeOK, BudgetTyped, WorldTyped
    <3> QED
      BY <1>2, <3>3, <3>4, <3>5 DEF Typed, TypeOK, PassesStayTyped
  <2>3. CASE ~CanClaim(p, at[p])
    <3>1. NextRow(p) /\ UNCHANGED <<row, opState, log>>
      BY <1>7, <2>3 DEF Claim
    <3>2. RowsTyped' /\ LastStays
      BY <3>1 DEF Typed, TypeOK, RowsTyped, LastStays
    <3> QED
      BY <1>4, <2>1, <3>1, <3>2, NextRowTyped
  <2> QED
    BY <2>2, <2>3
<1>8. CASE SessionStatus(p)
  <2>1. /\ pc[p] = "asked" /\ \E s \in {"confirmed", "deferred"} : Goto(p, s)
        /\ UNCHANGED <<rec, lease, leaseOver, lastWindow, attempts, waiting, opState, log, crashes>>
        /\ \/ session' = session
           \/ session' = [session EXCEPT ![at[p]] = @ /\ ~Fences(p, at[p])]
    BY <1>8 DEF SessionStatus
  <2>2. session' \in [Ops -> BOOLEAN]
    <3>1. CASE session' = session
      BY <3>1 DEF Typed, TypeOK, RowsTyped
    <3>2. CASE session' = [session EXCEPT ![at[p]] = @ /\ ~Fences(p, at[p])]
      <4>1. (session[at[p]] /\ ~Fences(p, at[p])) \in BOOLEAN
        OBVIOUS
      <4> QED
        BY <3>2, <4>1 DEF Typed, TypeOK, RowsTyped
    <3> QED
      BY <2>1, <3>1, <3>2
  <2>3. RowsTyped' /\ LastStays
    BY <2>1, <2>2 DEF Typed, TypeOK, RowsTyped, LastStays
  <2>4. at[p] \in Ops /\ lastWindow'[at[p]] \in Windows /\ win[p] \in Windows
    BY <1>3, <2>1 DEF Typed, Placed
  <2>5. PassesStayTyped
    BY <1>3, <2>1, <2>3, <2>4, GotoTyped
  <2> QED
    BY <1>4, <2>1, <2>3, <2>5
<1>9. CASE Settle(p)
  <2>1. /\ pc[p] = "confirmed" /\ UNCHANGED <<log, crashes>>
        /\ NextRow(p) \/ Goto(p, "deferred")
        /\ UNCHANGED <<row, opState>> \/ SettlePositive(at[p])
    BY <1>9 DEF Settle
  <2>2. RowsTyped' /\ LastStays
    <3>1. CASE UNCHANGED <<row, opState>>
      BY <3>1 DEF Typed, TypeOK, RowsTyped, LastStays
    <3>2. CASE SettlePositive(at[p])
      BY <3>2 DEF SettlePositive, Typed, TypeOK, RowsTyped, LastStays, OpStates, RecStates
    <3> QED
      BY <2>1, <3>1, <3>2
  <2>3. at[p] \in Ops /\ lastWindow'[at[p]] \in Windows /\ win[p] \in Windows
    BY <1>3, <2>1, <2>2 DEF Typed, Placed, LastStays
  <2>4. PassesStayTyped
    BY <1>3, <2>1, <2>2, <2>3, GotoTyped, NextRowTyped
  <2> QED
    BY <1>4, <2>1, <2>2, <2>4
<1>10. CASE Finish(p)
  <2>1. /\ pc[p] \in {"deferred", "suspended"} /\ UNCHANGED <<log, crashes, opState, lastWindow, attempts>>
        /\ NextRow(p)
        /\ \/ UNCHANGED row
           \/ /\ \E manual \in BOOLEAN : Park(at[p], manual)
              /\ waiting' = [waiting EXCEPT ![at[p]] = TRUE]
              /\ lease' = [lease EXCEPT ![at[p]] = None]
              /\ leaseOver' = [leaseOver EXCEPT ![at[p]] = FALSE]
    BY <1>10 DEF Finish
  <2>2. \A manual \in BOOLEAN : Park(at[p], manual) => session' \in [Ops -> BOOLEAN] /\ rec' \in [Ops -> RecStates]
    BY DEF Park, Typed, TypeOK, RowsTyped, RecStates
  <2>3. RowsTyped' /\ LastStays
    BY <2>1, <2>2 DEF Typed, TypeOK, RowsTyped, LastStays
  <2>4. PassesStayTyped
    BY <2>1, <2>3, NextRowTyped
  <2> QED
    BY <1>4, <2>1, <2>3, <2>4
<1>11. CASE Crash(p)
  <2>1. Rest(p) /\ crashes < MaxCrashes /\ crashes' = crashes + 1 /\ UNCHANGED <<row, opState, log>>
    BY <1>11 DEF Crash
  <2>2. RowsTyped' /\ LastStays
    BY <2>1 DEF Typed, TypeOK, RowsTyped, LastStays
  <2>3. WorldTyped'
    BY <1>1, <2>1, RecoveryAssumption DEF Typed, TypeOK, WorldTyped
  <2>4. BudgetTyped'
    BY <1>1, <2>1 DEF Typed, TypeOK, BudgetTyped
  <2> QED
    BY <1>2, <2>1, <2>2, <2>3, <2>4, RestTyped DEF Typed, TypeOK, PassesStayTyped
<1> QED
  BY <1>5, <1>6, <1>7, <1>8, <1>9, <1>10, <1>11

LEMMA TypedStep == ASSUME Typed, [Next]_vars PROVE Typed'
<1>1. ASSUME NEW p \in Passes, PassStep(p) \/ Crash(p) PROVE Typed'
  BY <1>1, QuietPassTyped, RequestTyped, WritingPassTyped DEF PassStep, Observe
<1>2. CASE UNCHANGED vars
  BY <1>2 DEF vars, row, budget, world, policy, pass, Typed, TypeOK, RowsTyped, WorldTyped,
              BudgetTyped, PolicyTyped, PassesTyped, Placed
<1> QED
  BY <1>1, <1>2, SenderTyped, ClockTyped, OperatorTyped DEF Next

(***************************************************************************)
(* Every variable keeps the values its column, or its place in the code,   *)
(* allows, under every interleaving of senders, passes, operator and clock.*)
(***************************************************************************)
THEOREM RowsAreTyped == Spec => []TypeOK
<1>1. Typed => TypeOK
  BY DEF Typed
<1> QED
  BY <1>1, TypedInit, TypedStep, PTL DEF Spec

-----------------------------------------------------------------------------
(* What is settled was delivered *)

\* Evidence a pass has read, and whatever was settled, came from Gmail; a send
\* not yet begun has sent nothing.
Evidence ==
  /\ \A o \in Ops : /\ opState[o] = "claimed" => gmail[o] = "unsent"
                    /\ opState[o] = "executed" => gmail[o] = "delivered"
  /\ \A p \in Passes :
       /\ pc[p] = "confirmed" => gmail[at[p]] = "delivered"
       /\ found[p] = "own" => pc[p] \in Working /\ gmail[at[p]] = "delivered"

LEMMA EvidenceInit == Init => Evidence
  BY DEF Init, Evidence

\* A pass that moves on keeps its evidence, or has just read it.
LEMMA EvidenceMoves ==
  ASSUME Typed, Evidence, NEW p \in Passes,
         Rest(p) \/ NextRow(p) \/ \E s \in Working : Goto(p, s) /\ (s = "confirmed" => gmail[at[p]] = "delivered")
  PROVE  \A q \in Passes :
           /\ pc'[q] = "confirmed" => gmail[at'[q]] = "delivered"
           /\ found'[q] = "own" => pc'[q] \in Working /\ gmail[at'[q]] = "delivered"
<1> USE DEF Typed, TypeOK, PassesTyped
<1>1. CASE Rest(p)
  BY <1>1 DEF Rest, Evidence, Working
<1>2. CASE NextRow(p)
  BY <1>2 DEF NextRow, Evidence, Working
<1>3. ASSUME NEW s \in Working, Goto(p, s), s = "confirmed" => gmail[at[p]] = "delivered"
      PROVE  \A q \in Passes :
               /\ pc'[q] = "confirmed" => gmail[at'[q]] = "delivered"
               /\ found'[q] = "own" => pc'[q] \in Working /\ gmail[at'[q]] = "delivered"
  BY <1>3 DEF Goto, Evidence
<1> QED
  BY <1>1, <1>2, <1>3

LEMMA EvidenceStep == ASSUME Typed, Evidence, [Next]_vars PROVE Evidence'
<1> USE DEF row, budget, world, policy, pass
<1> DEFINE Sent == \A o \in Ops : /\ opState'[o] = "claimed" => gmail'[o] = "unsent"
                                  /\ opState'[o] = "executed" => gmail'[o] = "delivered"
<1> DEFINE Read == \A q \in Passes :
                     /\ pc'[q] = "confirmed" => gmail[at'[q]] = "delivered"
                     /\ found'[q] = "own" => pc'[q] \in Working /\ gmail[at'[q]] = "delivered"
<1>0. ASSUME gmail' = gmail, Sent, Read PROVE Evidence'
  BY <1>0 DEF Evidence
<1>1. ASSUME UNCHANGED <<gmail, opState, pass>> PROVE Evidence'
  BY <1>1 DEF Evidence
<1>2. ASSUME NEW o \in Ops, Sender(o) PROVE Evidence'
  <2>1. UNCHANGED pass
    BY <1>2 DEF Sender, Begin, Deliver, SettleDirect, FailDirect
  <2>3. /\ \A x \in Ops \ {o} : gmail'[x] = gmail[x] /\ opState'[x] = opState[x]
        /\ gmail[o] = "delivered" => gmail'[o] = "delivered"
    BY <1>2 DEF Sender, Begin, Deliver, SettleDirect, SettlePositive, FailDirect, RecordFailure,
                Evidence, Typed, TypeOK, RowsTyped, WorldTyped
  <2>4. /\ opState'[o] = "claimed" => gmail'[o] = "unsent"
        /\ opState'[o] = "executed" => gmail'[o] = "delivered"
    BY <1>2 DEF Sender, Begin, Deliver, SettleDirect, SettlePositive, FailDirect, RecordFailure,
                Evidence, Typed, TypeOK, RowsTyped, WorldTyped
  <2>5. \A p \in Passes : gmail[at[p]] = "delivered" /\ at[p] \in Ops => gmail'[at[p]] = "delivered"
    BY <2>3
  <2>6. \A p \in Passes : pc[p] \in Working => at[p] \in Ops
    BY DEF Typed, Placed
  <2>7. \A p \in Passes : pc[p] = "confirmed" => pc[p] \in Working
    BY DEF Working
  <2> QED
    BY <2>1, <2>3, <2>4, <2>5, <2>6, <2>7 DEF Evidence
<1>3. ASSUME NEW p \in Passes, PassStep(p) \/ Crash(p) PROVE Evidence'
  <2>0. UNCHANGED gmail
    BY <1>3 DEF PassStep, Start, Collect, Claim, Observe, Ask, Refresh, Refused, Inconclusive, SessionStatus,
                SearchMatch, Metadata, Settle, Finish, EndPass, RecordStale, Choose, Crash
  <2>1. ASSUME UNCHANGED opState PROVE Sent
    BY <2>0, <2>1 DEF Evidence
  <2>2. ASSUME UNCHANGED pass PROVE Read
    BY <2>2 DEF Evidence
  <2>3. Working = {"ready", "asked", "confirmed", "deferred", "suspended"}
    BY DEF Working
  <2>4. CASE Start(p)
    <3>1. /\ pc[p] = "idle" /\ pc' = [pc EXCEPT ![p] = "failing"]
          /\ UNCHANGED <<opState, at, held, found>>
      BY <2>4 DEF Start
    <3>2. Read
      BY <2>3, <3>1 DEF Evidence, Typed, TypeOK, PassesTyped
    <3> QED
      BY <1>0, <2>0, <2>1, <3>1, <3>2
  <2>5. CASE Collect(p)
    <3>1. /\ pc[p] = "failing" /\ pc' = [pc EXCEPT ![p] = "due"]
          /\ UNCHANGED <<opState, at, held, found>>
      BY <2>5 DEF Collect
    <3>2. Read
      BY <2>3, <3>1 DEF Evidence, Typed, TypeOK, PassesTyped
    <3> QED
      BY <1>0, <2>0, <2>1, <3>1, <3>2
  <2>6. CASE Claim(p)
    <3>1. pc[p] = "chosen" /\ UNCHANGED opState /\ (NextRow(p) \/ Goto(p, "ready"))
      BY <2>6 DEF Claim
    <3>2. Read
      BY <2>3, <3>1, EvidenceMoves
    <3> QED
      BY <1>0, <2>0, <2>1, <3>1, <3>2
  <2>7. CASE Ask(p) \/ Refresh(p)
    <3>1. /\ UNCHANGED opState
          /\ UNCHANGED pass \/ \E s \in {"asked", "deferred", "suspended"} : Goto(p, s)
      BY <2>7 DEF Ask, Refresh, Refused
    <3>2. Read
      BY <2>2, <2>3, <3>1, EvidenceMoves
    <3> QED
      BY <1>0, <2>0, <2>1, <3>1, <3>2
  <2>8. CASE Inconclusive(p)
    <3>1. UNCHANGED opState /\ Goto(p, "deferred")
      BY <2>8 DEF Inconclusive
    <3>2. Read
      BY <2>3, <3>1, EvidenceMoves
    <3> QED
      BY <1>0, <2>0, <2>1, <3>1, <3>2
  <2>9. CASE SessionStatus(p)
    <3>1. /\ UNCHANGED opState
          /\ Goto(p, "deferred") \/ (gmail[at[p]] = "delivered" /\ Goto(p, "confirmed"))
      BY <2>9 DEF SessionStatus
    <3>2. Read
      BY <2>3, <3>1, EvidenceMoves
    <3> QED
      BY <1>0, <2>0, <2>1, <3>1, <3>2
  <2>10. CASE SearchMatch(p)
    <3>1. /\ pc[p] = "asked" /\ pc' = [pc EXCEPT ![p] = "ready"] /\ UNCHANGED <<opState, at>>
          /\ \E c \in {"own", "other"} : found' = [found EXCEPT ![p] = c] /\ (c = "own" => gmail[at[p]] = "delivered")
      BY <2>10 DEF SearchMatch
    <3>2. Read
      BY <2>3, <3>1 DEF Evidence, Typed, TypeOK, PassesTyped
    <3> QED
      BY <1>0, <2>0, <2>1, <3>1, <3>2
  <2>11. CASE Metadata(p)
    <3>1. /\ UNCHANGED opState
          /\ Goto(p, "deferred") \/ (gmail[at[p]] = "delivered" /\ Goto(p, "confirmed"))
      BY <2>11 DEF Metadata, Verifies, Evidence
    <3>2. Read
      BY <2>3, <3>1, EvidenceMoves
    <3> QED
      BY <1>0, <2>0, <2>1, <3>1, <3>2
  <2>12. CASE Settle(p)
    <3>1. at[p] \in Ops /\ gmail[at[p]] = "delivered"
      BY <2>3, <2>12 DEF Settle, Evidence, Typed, Placed
    <3>2. /\ NextRow(p) \/ Goto(p, "deferred")
          /\ UNCHANGED opState \/ opState' = [opState EXCEPT ![at[p]] = "executed"]
      BY <2>12 DEF Settle, SettlePositive
    <3>3. Sent
      BY <2>0, <3>1, <3>2 DEF Evidence, Typed, TypeOK, RowsTyped
    <3>4. Read
      BY <2>3, <3>2, EvidenceMoves
    <3> QED
      BY <1>0, <2>0, <3>3, <3>4
  <2>13. CASE Finish(p)
    <3>1. UNCHANGED opState /\ NextRow(p)
      BY <2>13 DEF Finish
    <3>2. Read
      BY <2>3, <3>1, EvidenceMoves
    <3> QED
      BY <1>0, <2>0, <2>1, <3>1, <3>2
  <2>14. CASE EndPass(p) \/ Crash(p)
    BY <1>0, <2>0, <2>1, <2>14, EvidenceMoves DEF EndPass, Crash
  <2>15. ASSUME NEW o \in Ops, RecordStale(p, o) PROVE Evidence'
    <3>1. /\ UNCHANGED opState \/ (opState[o] = "executing" /\ opState' = [opState EXCEPT ![o] = "delivery_unknown"])
          /\ Rest(p) \/ UNCHANGED <<pc, at, found>>
      BY <2>15 DEF RecordStale, RecordFailure
    <3>2. Sent
      BY <2>0, <3>1 DEF Evidence, Typed, TypeOK, RowsTyped
    <3>3. Read
      BY <3>1, EvidenceMoves DEF Evidence
    <3> QED
      BY <1>0, <2>0, <3>2, <3>3
  <2>16. ASSUME NEW o \in Ops, Choose(p, o) PROVE Evidence'
    <3>1. /\ pc[p] = "due" /\ UNCHANGED <<opState, found>>
          /\ \/ UNCHANGED <<pc, at>>
             \/ pc' = [pc EXCEPT ![p] = "chosen"] /\ at' = [at EXCEPT ![p] = o]
      BY <2>16 DEF Choose
    <3>2. Read
      BY <2>3, <3>1 DEF Evidence, Typed, TypeOK, PassesTyped
    <3> QED
      BY <1>0, <2>0, <2>1, <3>1, <3>2
  <2> QED
    BY <1>3, <2>4, <2>5, <2>6, <2>7, <2>8, <2>9, <2>10, <2>11, <2>12, <2>13, <2>14, <2>15, <2>16
    DEF PassStep, Observe
<1>4. CASE Clock \/ Operator
  <2>1. UNCHANGED <<gmail, opState, pass>>
    BY <1>4 DEF Clock, NextWindow, LeaseLapses, RetryComes, DeadlinePasses, RetentionEnds,
                Operator, Qualify, Disable, QualificationExpires, Revoke, Reconnect, FreezeOrRelease
  <2> QED
    BY <1>1, <2>1
<1>5. CASE UNCHANGED vars
  BY <1>1, <1>5 DEF vars
<1> QED
  BY <1>2, <1>3, <1>4, <1>5 DEF Next

(***************************************************************************)
(* settlePositive: whichever pass or request settles an operation, and     *)
(* however old its evidence, Gmail did deliver the message.                *)
(***************************************************************************)
THEOREM SettledWasDelivered == Spec => []SettledIsDelivered
<1>1. Init => Typed /\ Evidence
  BY TypedInit, EvidenceInit
<1>2. Typed /\ Evidence /\ [Next]_vars => (Typed /\ Evidence)'
  BY TypedStep, EvidenceStep
<1>3. Typed /\ Evidence => SettledIsDelivered
  BY DEF Evidence, SettledIsDelivered
<1> QED
  BY <1>1, <1>2, <1>3, PTL DEF Spec

-----------------------------------------------------------------------------
(* What a row says of its operation and of itself *)

\* A row is made by the transaction that begins its operation.
RowIsBegun == \A o \in Ops : opState[o] = "claimed" => rec[o] = "none"

Agreement == RowsAgree /\ RowIsBegun

\* The agreement, of one row.
AgreesOn(o) ==
  /\ opState[o] = "claimed" => rec[o] = "none"
  /\ rec[o] # "none" => (rec[o] = "completed" <=> opState[o] = "executed")
  /\ rec[o] # "active" => ~session[o] /\ lease[o] = None

LEMMA AgreementIsByRow == Agreement <=> \A o \in Ops : AgreesOn(o)
BY DEF Agreement, RowsAgree, RowIsBegun, CompletedIsExecuted, StoppedHoldsNothing, AgreesOn

LEMMA AgreementPrimed == Agreement' <=> \A o \in Ops : AgreesOn(o)'
BY DEF Agreement, RowsAgree, RowIsBegun, CompletedIsExecuted, StoppedHoldsNothing, AgreesOn

LEMMA AgreementInit == Init => Agreement
BY DEF Init, Agreement, RowsAgree, RowIsBegun, CompletedIsExecuted, StoppedHoldsNothing

\* A step that writes the row and the operation of one o only, and leaves that
\* row in agreement, leaves them all so.
LEMMA OneRow ==
  ASSUME Agreement, NEW o \in Ops, AgreesOn(o)',
         \A x \in Ops \ {o} : /\ opState'[x] = opState[x] /\ rec'[x] = rec[x]
                              /\ session'[x] = session[x] /\ lease'[x] = lease[x]
  PROVE  Agreement'
<1>1. \A x \in Ops \ {o} : AgreesOn(x)'
  BY AgreementIsByRow DEF AgreesOn
<1> QED
  BY <1>1, AgreementPrimed

\* settlePositive, by whoever read the evidence.
LEMMA SettlingAgrees ==
  ASSUME Typed, Agreement, NEW o \in Ops, SettlePositive(o), opState[o] # "claimed"
  PROVE  Agreement'
<1> USE DEF Typed, TypeOK, RowsTyped
<1>1. /\ opState'[o] = "executed" /\ ~session'[o] /\ lease'[o] = None
      /\ rec'[o] = IF rec[o] = "none" THEN "none" ELSE "completed"
  BY DEF SettlePositive
<1>2. AgreesOn(o)'
  BY <1>1 DEF AgreesOn
<1>3. \A x \in Ops \ {o} : /\ opState'[x] = opState[x] /\ rec'[x] = rec[x]
                           /\ session'[x] = session[x] /\ lease'[x] = lease[x]
  BY DEF SettlePositive
<1> QED
  BY <1>2, <1>3, OneRow

LEMMA SenderAgrees ==
  ASSUME Typed, Agreement, NEW o \in Ops, Sender(o)
  PROVE  Agreement'
<1> USE DEF Typed, TypeOK, RowsTyped, row
<1>0. AgreesOn(o)
  BY AgreementIsByRow
<1>1. CASE Begin(o)
  <2>1. /\ opState[o] = "claimed" /\ opState'[o] = "executing"
        /\ rec'[o] = IF o \in Drafts THEN "manual" ELSE "active"
        /\ session'[o] = (o \in Sessions) /\ lease' = lease
    BY <1>1 DEF Begin
  <2>2. AgreesOn(o)'
    BY <1>0, <2>1, RecoveryAssumption DEF AgreesOn
  <2>3. \A x \in Ops \ {o} : /\ opState'[x] = opState[x] /\ rec'[x] = rec[x]
                             /\ session'[x] = session[x] /\ lease'[x] = lease[x]
    BY <1>1 DEF Begin
  <2> QED
    BY <2>2, <2>3, OneRow
<1>2. CASE Deliver(o)
  BY <1>2, AgreementIsByRow, AgreementPrimed DEF Deliver, AgreesOn
<1>3. CASE SettleDirect(o)
  BY <1>3, SettlingAgrees DEF SettleDirect, Open
<1>4. CASE FailDirect(o)
  <2>1. AgreesOn(o)'
    BY <1>0, <1>4 DEF FailDirect, RecordFailure, AgreesOn
  <2> QED
    BY <1>4, <2>1, OneRow DEF FailDirect, RecordFailure
<1> QED
  BY <1>1, <1>2, <1>3, <1>4 DEF Sender

LEMMA PassAgrees ==
  ASSUME Typed, Agreement, NEW p \in Passes, PassStep(p) \/ Crash(p)
  PROVE  Agreement'
<1> USE DEF row, Typed, TypeOK, RowsTyped
<1>0. ASSUME UNCHANGED <<opState, rec, session, lease>> PROVE Agreement'
  BY <1>0, AgreementIsByRow, AgreementPrimed DEF AgreesOn
<1>1. pc[p] \in Working \cup {"chosen"} => at[p] \in Ops
  BY DEF Placed
<1>2. Working = {"ready", "asked", "confirmed", "deferred", "suspended"}
  BY DEF Working
<1>3. CASE Start(p)
  <2>1. Cleanup /\ opState' = opState
    BY <1>3 DEF Start
  <2>2. ASSUME NEW o \in Ops PROVE AgreesOn(o)'
    <3>1. AgreesOn(o)
      BY AgreementIsByRow
    <3>2. /\ age[o] # "old" /\ ~Finished(o) => rec'[o] = rec[o] /\ lease'[o] = lease[o]
          /\ age[o] # "old" /\ Finished(o) /\ rec[o] # "completed" => rec'[o] \in {"manual", "suspended"}
          /\ age[o] = "old" => rec'[o] = "none"
          /\ session'[o] => session[o]
          /\ Finished(o) \/ age[o] = "old" => ~session'[o] /\ lease'[o] = None
      <4> DEFINE out == {x \in Ops : Finished(x) \/ age[x] = "old"}
      <4>1. o \in out <=> Finished(o) \/ age[o] = "old"
        OBVIOUS
      <4>2. session'[o] = (session[o] /\ o \notin out) /\ lease'[o] = IF o \in out THEN None ELSE lease[o]
        BY <2>1 DEF Cleanup
      <4>3. rec'[o] = IF age[o] = "old" THEN "none"
                      ELSE IF ~Finished(o) \/ rec[o] = "completed" THEN rec[o]
                      ELSE IF age[o] = "over" THEN "manual" ELSE "suspended"
        BY <2>1 DEF Cleanup
      <4>4. age[o] = "old" => rec'[o] = "none"
        BY <4>3
      <4>5. age[o] # "old" /\ ~Finished(o) => rec'[o] = rec[o]
        BY <4>3
      <4>6. age[o] # "old" /\ Finished(o) /\ rec[o] # "completed" => rec'[o] \in {"manual", "suspended"}
        BY <4>3
      <4> QED
        BY <4>1, <4>2, <4>4, <4>5, <4>6
    <3>3. Finished(o) => rec[o] = "active"
      BY <3>1 DEF AgreesOn, Finished
    <3>4. CASE age[o] = "old"
      BY <2>1, <3>1, <3>2, <3>4 DEF AgreesOn
    <3>5. CASE age[o] # "old" /\ Finished(o)
      <4>1. rec'[o] \in {"manual", "suspended"} /\ ~session'[o] /\ lease'[o] = None
        BY <3>2, <3>3, <3>5
      <4>2. rec[o] = "active" /\ opState'[o] = opState[o]
        BY <2>1, <3>3, <3>5
      <4> QED
        BY <3>1, <4>1, <4>2 DEF AgreesOn
    <3>6. CASE age[o] # "old" /\ ~Finished(o)
      <4>1. rec'[o] = rec[o] /\ (session'[o] => session[o]) /\ lease'[o] = lease[o]
        BY <3>2, <3>6
      <4> QED
        BY <2>1, <3>1, <4>1 DEF AgreesOn
    <3> QED
      BY <3>4, <3>5, <3>6
  <2> QED
    BY <2>2, AgreementPrimed
<1>4. CASE Claim(p)
  <2>1. PICK o \in Ops : o = at[p]
    BY <1>1, <1>4 DEF Claim
  <2>2. /\ UNCHANGED <<opState, rec, session>>
        /\ lease' = lease \/ (rec[o] = "active" /\ lease' = [lease EXCEPT ![o] = p])
    BY <1>4, <2>1 DEF Claim, CanClaim
  <2>3. AgreesOn(o)
    BY AgreementIsByRow
  <2>4. AgreesOn(o)'
    BY <2>2, <2>3 DEF AgreesOn
  <2> QED
    BY <2>2, <2>4, OneRow
<1>5. CASE SessionStatus(p)
  <2>1. PICK o \in Ops : o = at[p]
    BY <1>1, <1>2, <1>5 DEF SessionStatus
  <2>2. /\ UNCHANGED <<opState, rec, lease>>
        /\ session' = session \/ session' = [session EXCEPT ![o] = @ /\ ~Fences(p, o)]
    BY <1>5, <2>1 DEF SessionStatus
  <2>3. AgreesOn(o)
    BY AgreementIsByRow
  <2>4. session'[o] => session[o]
    BY <2>2
  <2>5. AgreesOn(o)'
    BY <2>2, <2>3, <2>4 DEF AgreesOn
  <2>6. \A x \in Ops \ {o} : session'[x] = session[x]
    BY <2>2
  <2> QED
    BY <2>2, <2>5, <2>6, OneRow
<1>6. CASE Settle(p)
  <2>1. CASE UNCHANGED <<row, opState>>
    BY <1>0, <2>1
  <2>2. CASE SettlePositive(at[p]) /\ Fences(p, at[p])
    BY <1>1, <1>2, <1>6, <2>2, SettlingAgrees DEF Settle, Fences, Open
  <2> QED
    BY <1>6, <2>1, <2>2 DEF Settle
<1>7. CASE Finish(p)
  <2>1. PICK o \in Ops : o = at[p]
    BY <1>1, <1>2, <1>7 DEF Finish
  <2>2. CASE UNCHANGED row
    BY <1>0, <1>7, <2>2 DEF Finish
  <2>3. ASSUME StillHolds(p, o), NEW manual \in BOOLEAN, Park(o, manual),
               lease' = [lease EXCEPT ![o] = None]
        PROVE  Agreement'
    <3>1. AgreesOn(o) /\ opState' = opState
      BY <1>7, AgreementIsByRow DEF Finish
    <3>2. /\ rec[o] = "active" /\ lease'[o] = None
          /\ rec'[o] = IF manual THEN "manual" ELSE "active"
          /\ manual => ~session'[o]
      BY <2>3 DEF Park, StillHolds
    <3>3. AgreesOn(o)'
      BY <3>1, <3>2 DEF AgreesOn
    <3>4. \A x \in Ops \ {o} : /\ rec'[x] = rec[x] /\ session'[x] = session[x]
                                /\ lease'[x] = lease[x]
      BY <2>3 DEF Park
    <3> QED
      BY <3>1, <3>3, <3>4, OneRow
  <2> QED
    BY <1>7, <2>1, <2>2, <2>3 DEF Finish
<1>8. ASSUME NEW o \in Ops, RecordStale(p, o) PROVE Agreement'
  <2>1. /\ UNCHANGED <<rec, session, lease>>
        /\ opState' = opState \/ (opState[o] = "executing" /\ opState' = [opState EXCEPT ![o] = "delivery_unknown"])
    BY <1>8 DEF RecordStale, RecordFailure
  <2>2. AgreesOn(o)
    BY AgreementIsByRow
  <2>3. AgreesOn(o)'
    BY <2>1, <2>2 DEF AgreesOn
  <2> QED
    BY <2>1, <2>3, OneRow
<1>9. CASE \/ Collect(p) \/ Ask(p) \/ Refresh(p) \/ Inconclusive(p) \/ SearchMatch(p)
           \/ Metadata(p) \/ EndPass(p) \/ Crash(p) \/ \E o \in Ops : Choose(p, o)
  BY <1>0, <1>9 DEF Collect, Ask, Refresh, Inconclusive, SearchMatch, Metadata, EndPass, Crash, Choose
<1> QED
  BY <1>3, <1>4, <1>5, <1>6, <1>7, <1>8, <1>9 DEF PassStep, Observe

LEMMA AgreementStep == ASSUME Typed, Agreement, [Next]_vars PROVE Agreement'
<1> USE DEF row
<1>0. ASSUME UNCHANGED <<opState, rec, session, lease>> PROVE Agreement'
  BY <1>0, AgreementIsByRow, AgreementPrimed DEF AgreesOn
<1>1. CASE Clock
  BY <1>0, <1>1 DEF Clock, NextWindow, LeaseLapses, RetryComes, DeadlinePasses, RetentionEnds
<1>2. ASSUME NEW m \in Modes, Qualify(m) \/ QualificationExpires(m) PROVE Agreement'
  BY <1>0, <1>2 DEF Qualify, QualificationExpires
<1>3. ASSUME NEW m \in Modes, Disable(m) PROVE Agreement'
  <2>1. SuspendAll /\ opState' = opState
    BY <1>3 DEF Disable
  <2>2. ASSUME NEW o \in Ops PROVE AgreesOn(o)'
    <3>1. AgreesOn(o)
      BY AgreementIsByRow
    <3>2. DEFINE swept == rec[o] # "none" /\ bound[o] = credential
    <3>3. /\ rec'[o] = IF swept /\ rec[o] # "completed" THEN "suspended" ELSE rec[o]
          /\ session'[o] = (session[o] /\ ~swept)
          /\ lease'[o] = IF swept THEN None ELSE lease[o]
      BY <2>1 DEF SuspendAll
    <3> QED
      BY <2>1, <3>1, <3>3 DEF AgreesOn
  <2> QED
    BY <2>2, AgreementPrimed
<1>4. CASE Revoke \/ Reconnect \/ FreezeOrRelease
  BY <1>0, <1>4 DEF Revoke, Reconnect, FreezeOrRelease
<1>5. CASE UNCHANGED vars
  BY <1>0, <1>5 DEF vars
<1> QED
  BY <1>1, <1>2, <1>3, <1>4, <1>5, SenderAgrees, PassAgrees DEF Next, Operator

(***************************************************************************)
(* changeQualification, cleanupRecovery, settlePositive and the update     *)
(* after an attempt, in any order: a row says completed exactly when its   *)
(* operation is executed, and holds nothing once it is not active.         *)
(***************************************************************************)
THEOREM RowsAlwaysAgree == Spec => []RowsAgree
<1>1. Typed /\ Agreement /\ [Next]_vars => (Typed /\ Agreement)'
  BY TypedStep, AgreementStep
<1>2. Init => Typed /\ Agreement
  BY TypedInit, AgreementInit
<1>3. Agreement => RowsAgree
  BY DEF Agreement
<1> QED
  BY <1>1, <1>2, <1>3, PTL DEF Spec

-----------------------------------------------------------------------------
(* What recovery may do in one window *)

\* The windows an operation was attempted in.
AttemptsOf(o) == {w \in Windows : <<w, o>> \in log}

Quota ==
  /\ \A w \in Windows : /\ IsFiniteSet(Attempted(w))
                        /\ Cardinality(Attempted(w)) <= AttemptQuota
                        /\ requests[w] <= RequestQuota
  /\ \A o \in Ops : attempts[o] = Cardinality(AttemptsOf(o))

LEMMA FinitelyManyAttempts == \A o \in Ops : IsFiniteSet(AttemptsOf(o))
<1>1. IsFiniteSet(Windows)
  BY RecoveryAssumption, FS_Interval DEF Windows
<1>2. \A o \in Ops : AttemptsOf(o) \subseteq Windows
  BY DEF AttemptsOf
<1> QED
  BY <1>1, <1>2, FS_Subset

LEMMA QuotaInit == Init => Quota
<1> SUFFICES ASSUME Init PROVE Quota
  OBVIOUS
<1>1. /\ \A w \in Windows : Attempted(w) = {}
      /\ \A o \in Ops : AttemptsOf(o) = {}
  BY DEF Init, Attempted, AttemptsOf
<1>2. IsFiniteSet({}) /\ Cardinality({}) = 0
  BY FS_EmptySet
<1>3. \A o \in Ops : attempts[o] = 0
  BY DEF Init
<1>4. \A w \in Windows : requests[w] = 0
  BY DEF Init
<1>5. AttemptQuota >= 0 /\ RequestQuota >= 0
  BY RecoveryAssumption
<1>6. \A w \in Windows : /\ IsFiniteSet(Attempted(w)) /\ Cardinality(Attempted(w)) = 0
  BY <1>1, <1>2
<1>7. \A o \in Ops : Cardinality(AttemptsOf(o)) = 0
  BY <1>1, <1>2
<1> QED
  BY <1>3, <1>4, <1>5, <1>6, <1>7 DEF Quota

\* claimRecovery: the attempt is logged and counted in one transaction, once per
\* window, while the account has attempts left.
LEMMA ClaimWithinQuota ==
  ASSUME Typed, Quota, NEW p \in Passes, Claim(p)
  PROVE  Quota'
<1> USE DEF Typed, TypeOK, RowsTyped, BudgetTyped
<1>1. PICK o \in Ops : o = at[p]
  BY DEF Claim, Placed
<1>2. PICK w \in Windows : w = win[p]
  BY DEF Claim, Placed
<1>3. requests' = requests
  BY DEF Claim
<1>4. CASE CanClaim(p, o)
  <2>1. /\ log' = log \cup {<<w, o>>} /\ attempts' = [attempts EXCEPT ![o] = @ + 1]
        /\ <<w, o>> \notin log /\ Cardinality(Attempted(w)) < AttemptQuota
    BY <1>1, <1>2, <1>4 DEF Claim, CanClaim
  <2>2. /\ Attempted(w)' = Attempted(w) \cup {o} /\ o \notin Attempted(w)
        /\ \A v \in Windows \ {w} : Attempted(v)' = Attempted(v)
    BY <2>1 DEF Attempted
  <2>3. /\ AttemptsOf(o)' = AttemptsOf(o) \cup {w} /\ w \notin AttemptsOf(o)
        /\ \A x \in Ops \ {o} : AttemptsOf(x)' = AttemptsOf(x)
    BY <2>1 DEF AttemptsOf
  <2>4. IsFiniteSet(Attempted(w))
    BY DEF Quota
  <2>5. Cardinality(Attempted(w)) \in Nat
    BY <2>4, FS_CardinalityType
  <2>6. IsFiniteSet(Attempted(w)') /\ Cardinality(Attempted(w)') = Cardinality(Attempted(w)) + 1
    BY <2>2, <2>4, FS_AddElement
  <2>7. Cardinality(Attempted(w)') <= AttemptQuota
    BY <2>1, <2>5, <2>6, RecoveryAssumption
  <2>8. IsFiniteSet(AttemptsOf(o))
    BY FinitelyManyAttempts
  <2>9. Cardinality(AttemptsOf(o)') = Cardinality(AttemptsOf(o)) + 1
    BY <2>3, <2>8, FS_AddElement
  <2>10. \A x \in Ops : attempts'[x] = Cardinality(AttemptsOf(x)')
    BY <2>1, <2>3, <2>9 DEF Quota
  <2>11. \A v \in Windows : /\ IsFiniteSet(Attempted(v)')
                            /\ Cardinality(Attempted(v)') <= AttemptQuota
                            /\ requests'[v] <= RequestQuota
    BY <1>3, <2>2, <2>6, <2>7 DEF Quota
  <2> QED
    BY <2>10, <2>11 DEF Quota
<1>5. CASE ~CanClaim(p, o)
  BY <1>1, <1>3, <1>5 DEF Claim, Quota, Attempted, AttemptsOf
<1> QED
  BY <1>4, <1>5

\* admitRequest: the window's counter goes up only under its budget.
LEMMA RequestWithinQuota ==
  ASSUME Typed, Quota, NEW p \in Passes, Ask(p) \/ Refresh(p)
  PROVE  Quota'
<1> USE DEF row, Typed, TypeOK, RowsTyped, BudgetTyped
<1>1. UNCHANGED <<log, attempts>>
  BY DEF Ask, Refresh
<1>2. PICK w \in Windows : w = lastWindow[at[p]]
  BY DEF Ask, Refresh, Placed, Working
<1>3. requests' = requests \/ (CanAdmit(p, at[p]) /\ Admit(at[p]))
  BY DEF Ask, Refresh, Refused
<1>4. \A v \in Windows : requests'[v] <= RequestQuota
  <2>1. CASE requests' = requests
    BY <2>1 DEF Quota
  <2>2. CASE CanAdmit(p, at[p]) /\ Admit(at[p])
    <3>1. requests' = [requests EXCEPT ![w] = @ + 1] /\ requests[w] < RequestQuota
      BY <1>2, <2>2 DEF CanAdmit, Counted, Admit
    <3> QED
      BY <3>1, RecoveryAssumption DEF Quota
  <2> QED
    BY <1>3, <2>1, <2>2
<1> QED
  BY <1>1, <1>4 DEF Quota, Attempted, AttemptsOf

LEMMA QuotaStep == ASSUME Typed, Quota, [Next]_vars PROVE Quota'
<1> USE DEF row, budget
<1>1. ASSUME UNCHANGED <<log, requests, attempts>> PROVE Quota'
  BY <1>1 DEF Quota, Attempted, AttemptsOf
<1>2. ASSUME NEW o \in Ops, Sender(o) PROVE Quota'
  BY <1>1, <1>2 DEF Sender, Begin, Deliver, SettleDirect, SettlePositive, FailDirect
<1>3. ASSUME NEW p \in Passes, PassStep(p) \/ Crash(p) PROVE Quota'
  <2>1. CASE Start(p) \/ SessionStatus(p) \/ Settle(p) \/ Finish(p)
    BY <1>1, <2>1 DEF Start, Cleanup, SessionStatus, Settle, SettlePositive, Finish
  <2>2. CASE \/ Collect(p) \/ Inconclusive(p) \/ SearchMatch(p) \/ Metadata(p) \/ EndPass(p) \/ Crash(p)
             \/ \E o \in Ops : RecordStale(p, o) \/ Choose(p, o)
    BY <1>1, <2>2 DEF Collect, Inconclusive, SearchMatch, Metadata, EndPass, Crash, RecordStale, Choose
  <2> QED
    BY <1>3, <2>1, <2>2, ClaimWithinQuota, RequestWithinQuota DEF PassStep, Observe
<1>4. CASE Clock
  BY <1>1, <1>4 DEF Clock, NextWindow, LeaseLapses, RetryComes, DeadlinePasses, RetentionEnds
<1>5. CASE Operator
  BY <1>1, <1>5 DEF Operator, Qualify, Disable, SuspendAll, QualificationExpires, Revoke,
                    Reconnect, FreezeOrRelease
<1>6. CASE UNCHANGED vars
  BY <1>1, <1>6 DEF vars
<1> QED
  BY <1>2, <1>3, <1>4, <1>5, <1>6 DEF Next

(***************************************************************************)
(* claimRecovery and admitRequest: overlapping, late and repeated passes   *)
(* together stay within the attempts and the requests of every window, and *)
(* every attempt counted is one logged, so that none repeats in a window.  *)
(***************************************************************************)
THEOREM QuotasHold == Spec => []WithinQuota
<1>1. Init => Typed /\ Quota
  BY TypedInit, QuotaInit
<1>2. Typed /\ Quota /\ [Next]_vars => (Typed /\ Quota)'
  BY TypedStep, QuotaStep
<1>3. Typed /\ Quota => WithinQuota
  BY DEF Quota, AttemptsOf, WithinQuota, AttemptsWithinQuota, RequestsWithinQuota
<1> QED
  BY <1>1, <1>2, <1>3, PTL DEF Spec

-----------------------------------------------------------------------------
(* What one step of a pass may do to the row in its hands *)

\* A pass moves by its own steps only.
LEMMA OnlyItself ==
  ASSUME Typed, [Next]_vars, NEW p \in Passes, ~(PassStep(p) \/ Crash(p))
  PROVE  pc'[p] = pc[p] /\ at'[p] = at[p]
<1> USE DEF pass
<1>1. ASSUME NEW q \in Passes, q # p, PassStep(q) \/ Crash(q)
      PROVE  pc'[p] = pc[p] /\ at'[p] = at[p]
  <2>1. ASSUME Rest(q) \/ NextRow(q) \/ (\E s \in Steps : Goto(q, s)) \/ UNCHANGED <<pc, at>>
        PROVE  pc'[p] = pc[p] /\ at'[p] = at[p]
    BY <1>1, <2>1 DEF Rest, NextRow, Goto, Typed, TypeOK, PassesTyped
  <2>2. CASE Start(q) \/ Collect(q) \/ SearchMatch(q) \/ \E o \in Ops : Choose(q, o)
    BY <1>1, <2>2 DEF Start, Collect, SearchMatch, Choose, Typed, TypeOK, PassesTyped
  <2>3. CASE Claim(q) \/ Settle(q) \/ Finish(q) \/ EndPass(q) \/ Crash(q) \/ \E o \in Ops : RecordStale(q, o)
    <3>1. Rest(q) \/ NextRow(q) \/ Goto(q, "ready") \/ Goto(q, "deferred") \/ UNCHANGED <<pc, at>>
      BY <2>3 DEF Claim, Settle, Finish, EndPass, Crash, RecordStale
    <3> QED
      BY <2>1, <3>1 DEF Steps, Working
  <2>4. CASE Ask(q) \/ Refresh(q) \/ Inconclusive(q) \/ SessionStatus(q) \/ Metadata(q)
    <3>1. UNCHANGED <<pc, at>> \/ \E s \in Working : Goto(q, s)
      BY <2>4 DEF Ask, Refresh, Refused, Inconclusive, SessionStatus, Metadata, Working
    <3> QED
      BY <2>1, <3>1 DEF Steps
  <2> QED
    BY <1>1, <2>2, <2>3, <2>4 DEF PassStep, Observe
<1>2. CASE UNCHANGED pass
  BY <1>2
<1>3. ASSUME NEW o \in Ops, Sender(o) PROVE UNCHANGED pass
  BY <1>3 DEF Sender, Begin, Deliver, SettleDirect, FailDirect
<1>4. CASE Clock \/ Operator
  BY <1>4 DEF Clock, NextWindow, LeaseLapses, RetryComes, DeadlinePasses, RetentionEnds,
              Operator, Qualify, Disable, QualificationExpires, Revoke, Reconnect, FreezeOrRelease
<1>5. CASE UNCHANGED vars
  BY <1>5 DEF vars
<1> QED
  BY <1>1, <1>2, <1>3, <1>4, <1>5 DEF Next

LEMMA SettlesUnderGrant ==
  ASSUME Typed, [Next]_vars, NEW p \in Passes, NEW o \in Ops,
         at[p] = o, at'[p] = None, opState'[o] # opState[o]
  PROVE  installed /\ SameGrant(o) /\ Qualifies(o, held[p])
<1>1. at'[p] # at[p]
  BY RecoveryAssumption
<1>2. PassStep(p) \/ Crash(p)
  BY <1>1, OnlyItself
<1>3. Settle(p)
  BY <1>1, <1>2
  DEF PassStep, Observe, row, pass, Start, Collect, Claim, Ask, Refresh, Refused, Inconclusive,
      SessionStatus, SearchMatch, Metadata, Finish, EndPass, Crash, RecordStale, Choose, Goto
<1>4. Fences(p, o)
  BY <1>3 DEF Settle
<1> QED
  BY <1>4 DEF Fences

(***************************************************************************)
(* recoveryFences: a pass settles a send only while the installation is    *)
(* active, the account is connected under the grant that sent it, and the  *)
(* qualification epoch is the one the pass was admitted under.             *)
(***************************************************************************)
THEOREM GrantIsRespected == Spec => SettledUnderItsGrant
<1>1. Typed /\ [Next]_vars
        => [\A p \in Passes, o \in Ops :
              at[p] = o /\ at'[p] = None /\ opState'[o] # opState[o]
                => installed /\ SameGrant(o) /\ Qualifies(o, held[p])]_vars
  BY SettlesUnderGrant
<1> QED
  BY <1>1, TypedInit, TypedStep, PTL DEF Spec, SettledUnderItsGrant

LEMMA LateStepIsHarmless ==
  ASSUME Typed, [Next]_vars, NEW p \in Passes, NEW o \in Ops,
         at[p] = o, pc[p] \in Working, pc'[p] # pc[p], lease[o] # p
  PROVE  UNCHANGED <<rec[o], session[o], lease[o], waiting[o], opState[o]>>
<1> USE DEF row
<1>1. PassStep(p) \/ Crash(p)
  BY OnlyItself
<1>2. Working = {"ready", "asked", "confirmed", "deferred", "suspended"}
  BY DEF Working
<1>3. ~Fences(p, o) /\ ~StillHolds(p, o)
  BY DEF Fences, StillHolds
<1>4. CASE SessionStatus(p)
  <2>1. session' = session \/ session' = [session EXCEPT ![o] = @ /\ ~Fences(p, o)]
    BY <1>4 DEF SessionStatus
  <2>2. session[o] \in BOOLEAN /\ session \in [Ops -> BOOLEAN]
    BY DEF Typed, TypeOK, RowsTyped
  <2>3. session'[o] = session[o]
    BY <1>3, <2>1, <2>2
  <2> QED
    BY <1>4, <2>3 DEF SessionStatus
<1>5. CASE Settle(p) \/ Finish(p)
  BY <1>3, <1>5 DEF Settle, Finish
<1>6. CASE Ask(p) \/ Refresh(p) \/ Inconclusive(p) \/ SearchMatch(p) \/ Metadata(p) \/ EndPass(p) \/ Crash(p)
  BY <1>6 DEF Ask, Refresh, Inconclusive, SearchMatch, Metadata, EndPass, Crash
<1> QED
  BY <1>1, <1>2, <1>4, <1>5, <1>6
  DEF PassStep, Observe, Start, Collect, Claim, RecordStale, Choose

(***************************************************************************)
(* recoverDeliveries: a pass whose lease was taken over or removed while it*)
(* waited for an answer changes nothing of the row any more.               *)
(***************************************************************************)
THEOREM LateAnswersAreHarmless == Spec => LateAnswerIsHarmless
<1>1. Typed /\ [Next]_vars
        => [\A p \in Passes, o \in Ops :
              at[p] = o /\ pc[p] \in Working /\ pc'[p] # pc[p] /\ lease[o] # p
                => UNCHANGED <<rec[o], session[o], lease[o], waiting[o], opState[o]>>]_vars
  BY LateStepIsHarmless
<1> QED
  BY <1>1, TypedInit, TypedStep, PTL DEF Spec, LateAnswerIsHarmless
=============================================================================
