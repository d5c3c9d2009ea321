----------------------------- MODULE StageProofs -----------------------------
(***************************************************************************)
(* Proofs about Stage, for every set of request keys, any number of        *)
(* helpers and generations, and any room for snapshots.                    *)
(***************************************************************************)
EXTENDS Stage, TLAPS

-----------------------------------------------------------------------------
(* Types, and the numbers that are still free.                             *)

Starting == {"startup", "sweep", "sweep_charge"}
Naming == {"prepare", "row", "copy", "ready", "failed"}      \* a new request, not in the journal
Telling == {"check", "ensure", "arm", "retry", "result", "put", "release"}
Staging == {"stage", "lookup", "persist", "released", "uncharge"} \cup Naming \cup Telling
Places == {"idle", "login", "commit", "logout", "other", "delete"} \cup Starting \cup Staging

SnapshotStates == {"none", "preparing", "ready", "failed", "expired", "released"}
TransferStates == {"none", "waiting", "refused", "open", "expired", "done"}
RetryIds == [gen : Nat, id : Nat] \cup {None}
Logins == [epoch : Nat, born : Nat]

Calls == [pc : Places, kind : Kinds \cup {"none"}, key : Keys \cup {None}, todo : SUBSET Keys,
          tr : Nat, known : BOOLEAN, retry : RetryIds, answer : TransferStates, gen : Nat,
          login : Logins]

RowsTyped ==
  /\ snapshot \in [Keys -> [state : SnapshotStates, tr : Nat, old : BOOLEAN]]
  /\ copies \subseteq Nat /\ charged \subseteq Nat
  /\ record \in [Keys -> [tr : Nat, retry : RetryIds, final : BOOLEAN]]
  /\ transfer \in [Ids -> [state : TransferStates, gen : Nat, retries : SUBSET Nat]]
  /\ stored \in Logins /\ epoch \in Nat /\ logins \subseteq Logins
  /\ helpers \in Nat /\ ids \in Nat
  /\ sent \subseteq Keys \X Nat
  /\ retried \subseteq Nat \X Nat \X Nat

RunTyped ==
  /\ run \in Calls
  /\ run.pc \in Starting => run.kind \in Kinds /\ (run.kind = "stage" => run.key \in Keys)
  /\ run.pc \in Staging => run.key \in Keys

Typed == RowsTyped /\ RunTyped

-----------------------------------------------------------------------------
(* What the proofs need beside the types                                   *)

\* A helper makes at most two ids, so every id names one of the authority's transfers; ids
\* above the last one are nowhere.
Counted ==
  /\ helpers <= MaxHelpers /\ ids <= 2 * helpers
  /\ run.pc \in Starting \cup {"stage", "lookup"} => ids + 2 <= 2 * helpers
  /\ run.pc \in Naming \cup {"persist", "check", "ensure", "arm"} => ids + 1 <= 2 * helpers
  /\ run.tr <= ids

Numbered ==
  /\ charged \subseteq 1..ids
  /\ \A k \in Keys : /\ snapshot[k].tr <= ids /\ record[k].tr <= ids
                     /\ record[k].retry # None => record[k].retry.id \in 1..ids
  /\ \A i \in Ids : /\ transfer[i].retries \subseteq 1..ids
                    /\ transfer[i].state \in {"none", "waiting"} => transfer[i].gen = 0

Numbers == Counted /\ Numbered

\* Every copy is charged, under an id of one snapshot, and a charge is given back
\* only when its copy is gone.
Spool ==
  /\ copies \subseteq charged
  /\ \A k \in Keys : snapshot[k].state = "none" => ~snapshot[k].old
  /\ \A k, l \in Keys : snapshot[k].tr = snapshot[l].tr => k = l \/ snapshot[k].tr = 0
  /\ run.pc \in {"prepare", "row"} => run.tr > 0 /\ \A k \in Keys : snapshot[k].tr # run.tr
  /\ run.pc \in {"prepare", "row", "copy", "failed"} => run.tr \notin copies
  /\ run.pc \in {"row", "copy"} => run.tr \in charged
  /\ run.pc \in {"copy", "ready", "failed"} => mine.tr = run.tr /\ mine.state = "preparing"
  /\ run.pc \in {"released", "uncharge"} => mine.tr \notin copies
  /\ run.pc \in {"sweep", "sweep_charge"} => run.tr \notin copies

\* A helper that sweeps has given back what it has passed.
Swept ==
  run.pc \in Starting => \A k \in Keys \ run.todo : snapshot[k].old /\ snapshot[k].tr \in charged =>
     run.pc # "startup" /\ snapshot[k].tr = run.tr

\* A request is in the journal, under one id, before the authority hears of it.
Told ==
  /\ \A k, l \in Keys : record[k].tr = record[l].tr => k = l \/ record[k].tr = 0
  /\ run.pc \in Starting \cup {"stage", "lookup"} => ~run.known /\ run.retry = None
  /\ run.pc \in Naming => ~run.known
  /\ run.pc \in Naming \/ (run.pc = "persist" /\ ~run.known) =>
       /\ run.tr > 0 /\ run.retry = None
       /\ record[key].tr = 0 /\ \A k \in Keys : record[k].tr # run.tr
  /\ run.pc \in Telling \/ (run.pc = "persist" /\ run.known) =>
       run.tr > 0 /\ record[key].tr = run.tr
  /\ run.pc \in {"check", "ensure", "arm", "retry"} \/ (run.pc = "persist" /\ run.known) =>
       record[key].retry = run.retry
  /\ run.pc \in {"ensure", "arm"} => run.retry = None
  /\ run.pc = "retry" => run.retry # None
  /\ run.pc = "put" => record[key].retry = None
  /\ \A s \in sent : s[2] > 0 /\ record[s[1]].tr = s[2]

\* A generation whose retry was sent is over, or that retry is still the one in the journal.
Past(r) == transfer[r[1]].gen > r[2] \/ transfer[r[1]].state \in {"done", "refused"}

Retried ==
  /\ \A r \in retried : r[1] \in Ids /\ transfer[r[1]].gen >= r[2]
  /\ \A r \in retried : Past(r) \/ \E k \in Keys :
       record[k].tr = r[1] /\ record[k].retry = [gen |-> r[2], id |-> r[3]]
  /\ \A k \in Keys : record[k].retry # None =>
       /\ record[k].tr > 0
       /\ transfer[record[k].tr].gen >= record[k].retry.gen
       /\ record[k].retry.id \in transfer[record[k].tr].retries =>
            transfer[record[k].tr].gen > record[k].retry.gen
       /\ \A r \in retried : r[1] = record[k].tr /\ r[2] = record[k].retry.gen =>
            r[3] = record[k].retry.id
  /\ run.pc = "result" => \A r \in retried : r[1] = run.tr => Past(r)
  /\ run.pc = "arm" => transfer[run.tr].state = "expired" /\ transfer[run.tr].gen = run.gen
  /\ OneRetryPerGeneration

\* What the helper takes for stored is stored.
Done ==
  (run.pc = "result" /\ run.answer = "done") \/ run.pc = "release" =>
    transfer[run.tr].state = "done"

\* A login is bound to the epoch it was begun in, and a call has one of this epoch.
LoggedIn ==
  /\ \A l \in logins \cup {stored, run.login} : l.epoch = l.born
  /\ run.pc \in Staging \ {"stage"} => run.login.born = epoch

-----------------------------------------------------------------------------
(* Types                                                                    *)

LEMMA KindsAre == Kinds \subseteq {"stage", "login", "commit", "logout", "other"} /\ "none" \notin Kinds
BY StageAssumption

LEMMA TypedInit == Init => Typed
BY StageAssumption DEF Init, Typed, RowsTyped, RunTyped, NoSnapshot, NoRecord, NoTransfer, NoLogin,
   Idle, Calls, SnapshotStates, TransferStates, RetryIds, Logins, Places, Starting, Staging, Naming, Telling

\* The helper's record, field by field.
LEMMA CallIs ==
  run \in Calls <=>
    /\ run = [pc |-> run.pc, kind |-> run.kind, key |-> run.key, todo |-> run.todo, tr |-> run.tr,
              known |-> run.known, retry |-> run.retry, answer |-> run.answer, gen |-> run.gen,
              login |-> run.login]
    /\ run.pc \in Places /\ run.kind \in Kinds \cup {"none"} /\ run.key \in Keys \cup {None}
    /\ run.todo \subseteq Keys /\ run.tr \in Nat /\ run.known \in BOOLEAN /\ run.retry \in RetryIds
    /\ run.answer \in TransferStates /\ run.gen \in Nat /\ run.login \in Logins
BY DEF Calls

LEMMA GotoTyped ==
  ASSUME RunTyped, NEW pc \in Places, Goto(pc),
         pc \in Starting => run.kind \in Kinds /\ (run.kind = "stage" => run.key \in Keys),
         pc \in Staging => run.key \in Keys
  PROVE  RunTyped'
BY DEF Calls, Goto, RunTyped

LEMMA EndTyped == End => RunTyped'
BY StageAssumption DEF End, Idle, NoLogin, RunTyped, Calls, Places, TransferStates, RetryIds, Logins,
   Starting, Staging, Naming, Telling

LEMMA AnsweredTyped ==
  ASSUME RunTyped, NEW state \in TransferStates, NEW gen \in Nat, NEW pc \in Places \ Starting,
         pc \in Staging => run.key \in Keys, Answered(state, gen, pc)
  PROVE  RunTyped'
<1>1. CASE run' = Idle
  BY <1>1, EndTyped DEF End
<1>2. CASE run' = [run EXCEPT !.pc = pc, !.answer = state, !.gen = gen]
  <2>1. run' = [pc |-> pc, kind |-> run.kind, key |-> run.key, todo |-> run.todo, tr |-> run.tr,
                known |-> run.known, retry |-> run.retry, answer |-> state, gen |-> gen, login |-> run.login]
    BY <1>2 DEF RunTyped, Calls
  <2> QED
    BY <2>1 DEF RunTyped, Calls
<1> QED
  BY <1>1, <1>2 DEF Answered

LEMMA OneOfIds ==
  ASSUME Typed, Numbers, run.tr > 0
  PROVE  run.tr \in Ids
BY StageAssumption DEF Typed, RowsTyped, RunTyped, Calls, Numbers, Counted, Ids

\* The helper's transfer, in another state.
Row(s, g) == [state |-> s, gen |-> g, retries |-> transfer[run.tr].retries]

\* What the authority may answer to an intent, and what is then stored.
LEMMA EnsureAnswers ==
  ASSUME Typed, Numbers, Told, Ensure
  PROVE  \E s \in TransferStates, g \in Nat :
           /\ transfer' = [transfer EXCEPT ![run.tr] = Row(s, g)]
           /\ Answered(s, g, IF run.known /\ s = "expired" THEN "arm" ELSE "result")
           /\ \/ s = transfer[run.tr].state /\ g = transfer[run.tr].gen
              \/ transfer[run.tr].state \in {"none", "waiting"} /\ s \in {"waiting", "refused"} /\ g = transfer[run.tr].gen
              \/ transfer[run.tr].state \in {"none", "waiting"} /\ s = "open" /\ g = 1
<1>1. run.tr \in Ids
  BY OneOfIds DEF Ensure, Told, Telling
<1>2. transfer[run.tr] \in [state : TransferStates, gen : Nat, retries : SUBSET Nat]
  BY <1>1 DEF Typed, RowsTyped
<1>3. PICK t : /\ transfer' = [transfer EXCEPT ![run.tr] = t]
               /\ Answered(t.state, t.gen, IF run.known /\ t.state = "expired" THEN "arm" ELSE "result")
               /\ t \in IF transfer[run.tr].state \in {"none", "waiting"}
                  THEN {[transfer[run.tr] EXCEPT !.state = "waiting"], [transfer[run.tr] EXCEPT !.state = "refused"],
                        [transfer[run.tr] EXCEPT !.state = "open", !.gen = 1]}
                  ELSE {transfer[run.tr]}
  BY DEF Ensure
<1>4. transfer[run.tr] = [state |-> transfer[run.tr].state, gen |-> transfer[run.tr].gen,
                          retries |-> transfer[run.tr].retries]
  BY <1>2
<1>5. \/ t = transfer[run.tr]
      \/ /\ transfer[run.tr].state \in {"none", "waiting"}
         /\ \/ t = Row("waiting", transfer[run.tr].gen)
            \/ t = Row("refused", transfer[run.tr].gen)
            \/ t = Row("open", 1)
  BY <1>3, <1>4 DEF Row
<1> QED
  BY <1>2, <1>3, <1>4, <1>5 DEF TransferStates, Row

\* The same for a retry.
LEMMA RetryAnswers ==
  ASSUME Typed, Numbers, Told, Retry
  PROVE  /\ run.tr \in Ids /\ run.retry \in [gen : Nat, id : Nat]
         /\ \/ transfer' = transfer /\ End
            \/ /\ transfer' = transfer
               /\ run.retry.id \in transfer[run.tr].retries \/ transfer[run.tr].state \in {"done", "refused"}
               /\ Answered(transfer[run.tr].state, transfer[run.tr].gen, "result")
            \/ /\ transfer[run.tr].gen = run.retry.gen
               /\ transfer' = [transfer EXCEPT ![run.tr] = [state |-> "open", gen |-> transfer[run.tr].gen + 1,
                                 retries |-> transfer[run.tr].retries \cup {run.retry.id}]]
               /\ Answered("open", transfer[run.tr].gen + 1, "result")
<1>1. run.tr \in Ids
  BY OneOfIds DEF Retry, Told, Telling
<1>2. run.retry \in [gen : Nat, id : Nat]
  BY DEF Retry, Told, Typed, RunTyped, Calls, RetryIds
<1> QED
  BY <1>1, <1>2 DEF Retry

LEMMA RowsStep ==
  ASSUME Typed, Numbers, Told, [Next]_vars
  PROVE  RowsTyped'
<1> USE DEF Typed, RowsTyped, RunTyped, Calls, key, mine, spool, auth, authority, Starting, Staging,
   Naming, Telling, RetryIds, TransferStates, SnapshotStates, Logins
<1>1. ASSUME NEW kind \in Kinds, NEW k \in Keys \cup {None}, NEW l \in logins \cup {NoLogin},
             StartHelper(kind, k, l)
      PROVE  RowsTyped'
  BY <1>1 DEF StartHelper
<1>2. ASSUME NEW k \in Keys, SweepFile(k)
      PROVE  RowsTyped'
  BY <1>2 DEF SweepFile
<1>3. ASSUME NEW k \in Keys, SweepRow(k)
      PROVE  RowsTyped'
  BY <1>3 DEF SweepRow
<1>4. ASSUME NEW i \in Ids, SweepOrphan(i)
      PROVE  RowsTyped'
  BY <1>4 DEF SweepOrphan
<1>5. CASE SweepCharge
  BY <1>5 DEF SweepCharge
<1>6. CASE Serve
  BY <1>6 DEF Serve
<1>7. CASE ListRoots
  BY <1>7 DEF ListRoots
<1>8. CASE Stop
  BY <1>8 DEF Stop
<1>9. CASE CheckSnapshot
  BY <1>9 DEF CheckSnapshot
<1>10. CASE KnownSnapshot
  BY <1>10 DEF KnownSnapshot
<1>11. CASE Authenticate
  BY <1>11 DEF Authenticate
<1>12. CASE BeginLogin
  BY <1>12 DEF BeginLogin, NoLogin
<1>13. CASE CommitLogin
  BY <1>13 DEF CommitLogin, NoLogin
<1>14. CASE Fence
  BY <1>14 DEF Fence, NoLogin
<1>15. CASE DeleteCredential
  BY <1>15 DEF DeleteCredential, NoLogin
<1>16. CASE Lookup
  BY <1>16 DEF Lookup, PutSnapshot
<1>17. CASE PutPreparing
  BY <1>17 DEF PutPreparing, PutSnapshot
<1>18. CASE CopySource
  BY <1>18 DEF CopySource, PutSnapshot
<1>19. CASE ReleaseFile
  BY <1>19 DEF ReleaseFile, PutSnapshot
<1>20. CASE PutReleased
  BY <1>20 DEF PutReleased, PutSnapshot
<1>21. CASE Uncharge
  BY <1>21 DEF Uncharge, PutSnapshot
<1>22. CASE PersistRequest
  BY <1>22 DEF PersistRequest, NoRecord
<1>23. CASE ArmRetry
  BY <1>23 DEF ArmRetry, NoRecord
<1>24. CASE PersistResult
  BY <1>24 DEF PersistResult, NoRecord
<1>25. CASE ReserveSnapshot
  <2>1. charged' \in {charged, charged \cup {run.tr}}
    BY <1>25 DEF ReserveSnapshot
  <2> QED
    BY <1>25, <2>1 DEF ReserveSnapshot
<1>26. CASE Ensure
  <2>1. run.tr \in Ids
    BY <1>26, OneOfIds DEF Ensure, Told
  <2>2. PICK s \in TransferStates, g \in Nat :
          transfer' = [transfer EXCEPT ![run.tr] = Row(s, g)]
    BY <1>26, EnsureAnswers DEF Typed
  <2> QED
    BY <1>26, <2>1, <2>2 DEF Ensure, Row
<1>27. CASE Retry
  <2>1. run.tr \in Ids /\ run.retry \in [gen : Nat, id : Nat]
    BY <1>27, RetryAnswers
  <2>2. \/ transfer' = transfer
        \/ transfer' = [transfer EXCEPT ![run.tr] = [state |-> "open", gen |-> transfer[run.tr].gen + 1,
                          retries |-> transfer[run.tr].retries \cup {run.retry.id}]]
    BY <1>27, RetryAnswers
  <2>3. transfer' \in [Ids -> [state : TransferStates, gen : Nat, retries : SUBSET Nat]]
    BY <2>1, <2>2
  <2>4. retried' \subseteq Nat \X Nat \X Nat
    BY <1>27, <2>1 DEF Retry
  <2> QED
    BY <1>27, <2>3, <2>4 DEF Retry
<1>28. CASE Upload
  <2>1. run.tr \in Ids
    BY <1>28, OneOfIds DEF Upload, Told
  <2>2. [transfer[run.tr] EXCEPT !.state = "done"] \in [state : TransferStates, gen : Nat, retries : SUBSET Nat]
    BY <2>1
  <2>3. transfer' \in [Ids -> [state : TransferStates, gen : Nat, retries : SUBSET Nat]]
    BY <1>28, <2>1, <2>2 DEF Upload
  <2> QED
    BY <1>28, <2>3 DEF Upload
<1>29. CASE PutCopied
  <2>1. [mine EXCEPT !.state = run.pc] \in [state : SnapshotStates, tr : Nat, old : BOOLEAN]
    BY <1>29 DEF PutCopied
  <2> QED
    BY <1>29, <2>1 DEF PutCopied, PutSnapshot
<1>30. ASSUME NEW k \in Keys, Age(k)
      PROVE  RowsTyped'
  <2>1. [snapshot[k] EXCEPT !.old = TRUE] \in [state : SnapshotStates, tr : Nat, old : BOOLEAN]
    <3>1. snapshot[k] = [state |-> snapshot[k].state, tr |-> snapshot[k].tr, old |-> snapshot[k].old]
      OBVIOUS
    <3> QED
      BY <3>1
  <2> QED
    BY <1>30, <2>1 DEF Age
<1>31. ASSUME NEW i \in Ids, Expire(i)
      PROVE  RowsTyped'
  BY <1>31 DEF Expire
<1>32. CASE UNCHANGED vars
  BY <1>32 DEF vars
<1> HIDE DEF RowsTyped
<1> QED
  BY <1>1, <1>2, <1>3, <1>4, <1>5, <1>6, <1>7, <1>8, <1>9, <1>10, <1>11, <1>12, <1>13, <1>14, <1>15,
     <1>16, <1>17, <1>18, <1>19, <1>20, <1>21, <1>22, <1>23, <1>24, <1>25, <1>26, <1>27, <1>28,
        <1>29, <1>30, <1>31, <1>32 DEF Next, Sweep, Authorise, StageFile

LEMMA RunStep ==
  ASSUME Typed, Numbers, Told, [Next]_vars
  PROVE  RunTyped'
<1> USE DEF Typed, RunTyped, Calls, key, Places, Starting, Staging, Naming, Telling, RetryIds
<1>1. ASSUME NEW kind \in Kinds, NEW k \in Keys \cup {None}, NEW l \in logins \cup {NoLogin},
             StartHelper(kind, k, l)
      PROVE  RunTyped'
  <2>1. l \in Logins /\ "none" \in TransferStates
    BY <1>1 DEF RowsTyped, NoLogin, Logins, TransferStates
  <2> QED
    BY <1>1, <2>1, KindsAre DEF StartHelper, Idle
<1>2. ASSUME NEW k \in Keys, SweepFile(k)
      PROVE  RunTyped'
  <2>1. \E pc \in {"startup", "sweep"}, n \in Nat :
          run' = [pc |-> pc, kind |-> run.kind, key |-> run.key, todo |-> run.todo \ {k}, tr |-> n,
                  known |-> run.known, retry |-> run.retry, answer |-> run.answer, gen |-> run.gen,
                  login |-> run.login] /\ run.pc = "startup"
    BY <1>2 DEF SweepFile, RowsTyped
  <2> QED
    BY <2>1
<1>3. ASSUME NEW i \in Ids, SweepOrphan(i)
      PROVE  RunTyped'
  <2>1. i \in Nat
    BY StageAssumption DEF Ids
  <2> QED
    BY <1>3, <2>1 DEF SweepOrphan
<1>4. CASE SweepCharge
  BY <1>4 DEF SweepCharge
<1>5. CASE Authenticate
  <2>1. CASE run' = [run EXCEPT !.pc = "lookup", !.login = stored]
    BY <1>5, <2>1 DEF Authenticate, RowsTyped
  <2> QED
    BY <1>5, <2>1, EndTyped DEF Authenticate
<1>6. CASE Lookup
  <2>1. CASE End
    BY <2>1, EndTyped
  <2>2. CASE ids' = ids + 1 /\ run' = [run EXCEPT !.pc = "prepare", !.tr = ids']
    <3>1. ids' \in Nat
      BY <2>2 DEF RowsTyped
    <3> QED
      BY <1>6, <2>2, <3>1 DEF Lookup
  <2>3. CASE run' = [run EXCEPT !.pc = "persist", !.tr = record[key].tr, !.known = TRUE,
                                !.retry = record[key].retry]
    BY <1>6, <2>3 DEF Lookup, RowsTyped
  <2> QED
    BY <1>6, <2>1, <2>2, <2>3 DEF Lookup
<1>7. CASE ArmRetry
  <2>1. ids' \in Nat
    BY <1>7 DEF ArmRetry, RowsTyped
  <2> QED
    BY <1>7, <2>1 DEF ArmRetry
<1>8. CASE Ensure
  <2>1. PICK s \in TransferStates, g \in Nat :
          Answered(s, g, IF run.known /\ s = "expired" THEN "arm" ELSE "result")
    BY <1>8, EnsureAnswers
  <2> QED
    BY <1>8, <2>1, AnsweredTyped DEF Ensure
<1>9. CASE Retry
  <2>1. run.tr \in Ids
    BY <1>9, RetryAnswers
  <2>2. transfer[run.tr].state \in TransferStates /\ transfer[run.tr].gen \in Nat
    BY <2>1 DEF RowsTyped
  <2>3. \/ End
        \/ Answered(transfer[run.tr].state, transfer[run.tr].gen, "result")
        \/ Answered("open", transfer[run.tr].gen + 1, "result")
    BY <1>9, RetryAnswers
  <2> QED
    BY <1>9, <2>2, <2>3, EndTyped, AnsweredTyped DEF Retry, TransferStates
<1>10. CASE Upload
  <2>1. End \/ Answered("done", run.gen, "result")
    BY <1>10 DEF Upload
  <2> QED
    BY <1>10, <2>1, EndTyped, AnsweredTyped DEF Upload, TransferStates
<1>11. ASSUME NEW k \in Keys, SweepRow(k)
      PROVE  RunTyped'
  BY <1>11, KindsAre, GotoTyped, EndTyped DEF SweepRow
<1>12. CASE Serve
  BY <1>12, KindsAre, GotoTyped, EndTyped DEF Serve
<1>13. CASE ListRoots
  BY <1>13, KindsAre, GotoTyped, EndTyped DEF ListRoots
<1>14. CASE BeginLogin
  BY <1>14, KindsAre, GotoTyped, EndTyped DEF BeginLogin
<1>15. CASE CommitLogin
  BY <1>15, KindsAre, GotoTyped, EndTyped DEF CommitLogin
<1>16. CASE Fence
  BY <1>16, KindsAre, GotoTyped, EndTyped DEF Fence
<1>17. CASE DeleteCredential
  BY <1>17, KindsAre, GotoTyped, EndTyped DEF DeleteCredential
<1>18. CASE KnownSnapshot
  BY <1>18, KindsAre, GotoTyped, EndTyped DEF KnownSnapshot
<1>19. CASE ReserveSnapshot
  BY <1>19, KindsAre, GotoTyped, EndTyped DEF ReserveSnapshot
<1>20. CASE PutPreparing
  BY <1>20, KindsAre, GotoTyped, EndTyped DEF PutPreparing
<1>21. CASE CopySource
  BY <1>21, KindsAre, GotoTyped, EndTyped DEF CopySource
<1>22. CASE PutCopied
  BY <1>22, KindsAre, GotoTyped, EndTyped DEF PutCopied
<1>23. CASE Uncharge
  BY <1>23, KindsAre, GotoTyped, EndTyped DEF Uncharge
<1>24. CASE PersistRequest
  BY <1>24, KindsAre, GotoTyped, EndTyped DEF PersistRequest
<1>25. CASE CheckSnapshot
  BY <1>25, KindsAre, GotoTyped, EndTyped DEF CheckSnapshot
<1>26. CASE PersistResult
  BY <1>26, KindsAre, GotoTyped, EndTyped DEF PersistResult
<1>27. CASE ReleaseFile
  BY <1>27, KindsAre, GotoTyped, EndTyped DEF ReleaseFile
<1>28. CASE PutReleased
  BY <1>28, KindsAre, GotoTyped, EndTyped DEF PutReleased
<1>29. CASE Stop
  BY <1>29, KindsAre, GotoTyped, EndTyped DEF Stop
<1>30. ASSUME NEW k \in Keys, Age(k)
      PROVE  RunTyped'
  BY <1>30 DEF Age
<1>31. ASSUME NEW i \in Ids, Expire(i)
      PROVE  RunTyped'
  BY <1>31 DEF Expire
<1>32. CASE UNCHANGED vars
  BY <1>32 DEF vars
<1> HIDE DEF RunTyped
<1> QED
  BY <1>1, <1>2, <1>3, <1>4, <1>5, <1>6, <1>7, <1>8, <1>9, <1>10, <1>11, <1>12, <1>13, <1>14, <1>15,
     <1>16, <1>17, <1>18, <1>19, <1>20, <1>21, <1>22, <1>23, <1>24, <1>25, <1>26, <1>27, <1>28,
        <1>29, <1>30, <1>31, <1>32 DEF Next, Sweep, Authorise, StageFile

LEMMA TypedStep == ASSUME Typed, Numbers, Told, [Next]_vars PROVE Typed'
BY RowsStep, RunStep DEF Typed

LEMMA GotoFields ==
  ASSUME Typed, NEW pc \in Places, Goto(pc)
  PROVE  /\ run'.pc = pc /\ run'.kind = run.kind /\ run'.key = run.key /\ run'.todo = run.todo
         /\ run'.tr = run.tr /\ run'.known = run.known /\ run'.retry = run.retry
         /\ run'.answer = run.answer /\ run'.gen = run.gen /\ run'.login = run.login
BY DEF Goto, Typed, RunTyped, Calls

LEMMA EndFields ==
  ASSUME End
  PROVE  run'.pc = "idle" /\ run'.tr = 0 /\ run'.login = NoLogin
BY DEF End, Idle

LEMMA AnsweredFields ==
  ASSUME Typed, NEW state \in TransferStates, NEW gen \in Nat, NEW pc \in Places, Answered(state, gen, pc)
  PROVE  \/ End
         \/ /\ run'.pc = pc /\ run'.answer = state /\ run'.gen = gen
            /\ run'.kind = run.kind /\ run'.key = run.key /\ run'.todo = run.todo
            /\ run'.tr = run.tr /\ run'.known = run.known /\ run'.retry = run.retry /\ run'.login = run.login
BY DEF Answered, End, Typed, RunTyped, Calls

\* Whatever the authority answers, the helper goes on with the same request, or ends.
LEMMA AnswerKeeps ==
  ASSUME Typed, Numbers, Told, Ensure \/ Retry \/ Upload
  PROVE  End \/ (run'.key = run.key /\ run'.tr = run.tr /\ run'.known = run.known /\ run'.retry = run.retry
                 /\ run'.login = run.login)
<1>1. CASE Ensure
  <2>1. PICK s \in TransferStates, g \in Nat :
           Answered(s, g, IF run.known /\ s = "expired" THEN "arm" ELSE "result")
    BY <1>1, EnsureAnswers
  <2> QED
    BY <2>1, AnsweredFields DEF Places, Staging, Telling
<1>2. CASE Retry \/ Upload
  <2>1. \E s \in TransferStates, g \in Nat : End \/ Answered(s, g, "result")
    <3>1. CASE Retry
      <4>1. transfer[run.tr].state \in TransferStates /\ transfer[run.tr].gen \in Nat
        BY <3>1, RetryAnswers DEF Typed, RowsTyped
      <4> QED
        BY <3>1, <4>1, RetryAnswers DEF TransferStates
    <3>2. CASE Upload
      <4>1. End \/ Answered("done", run.gen, "result")
        BY <3>2 DEF Upload
      <4> QED
        BY <4>1 DEF Typed, RunTyped, Calls, TransferStates
    <3> QED
      BY <1>2, <3>1, <3>2
  <2> QED
    BY <2>1, AnsweredFields DEF Places, Staging, Telling
<1> QED
  BY <1>1, <1>2

LEMMA CountersAre == Typed => helpers \in Nat /\ ids \in Nat /\ run.tr \in Nat /\ run.gen \in Nat
BY DEF Typed, RowsTyped, RunTyped, Calls

LEMMA StartFields ==
  ASSUME NEW kind, NEW k, NEW l, StartHelper(kind, k, l)
  PROVE  /\ run'.pc = "startup" /\ run'.kind = kind /\ run'.key = k /\ run'.tr = 0 /\ run'.login = l
         /\ run'.known = FALSE /\ run'.retry = None
         /\ run'.todo = {s \in Keys : snapshot[s].state # "none"}
BY DEF StartHelper, Idle

LEMMA SweepFields ==
  ASSUME Typed, NEW k \in Keys, SweepFile(k)
  PROVE  /\ run.pc = "startup" /\ k \in run.todo /\ run'.todo = run.todo \ {k}
         /\ run'.kind = run.kind /\ run'.key = run.key /\ run'.login = run.login
         /\ run'.known = run.known /\ run'.retry = run.retry
         /\ \/ Abandoned(snapshot[k]) /\ run'.pc = "sweep" /\ run'.tr = snapshot[k].tr
            \/ ~Abandoned(snapshot[k]) /\ run'.pc = "startup" /\ run'.tr = run.tr
BY DEF SweepFile, Typed, RunTyped, Calls

LEMMA OrphanFields ==
  ASSUME Typed, NEW i \in Ids, SweepOrphan(i) \/ SweepCharge
  PROVE  /\ run'.kind = run.kind /\ run'.key = run.key /\ run'.todo = run.todo /\ run'.login = run.login
         /\ run'.known = run.known /\ run'.retry = run.retry
         /\ SweepOrphan(i) => run'.pc = "sweep_charge" /\ run'.tr = i
         /\ SweepCharge => run'.pc = "startup" /\ run'.tr = 0
BY DEF SweepOrphan, SweepCharge, Typed, RunTyped, Calls

LEMMA AuthenticateFields ==
  ASSUME Typed, Authenticate
  PROVE  \/ End
         \/ Readable /\ run'.pc = "lookup" /\ run'.login = stored /\ run'.key = run.key /\ run'.tr = run.tr
            /\ run'.known = run.known /\ run'.retry = run.retry
BY DEF Authenticate, Typed, RunTyped, Calls

LEMMA LookupFields ==
  ASSUME Typed, Lookup
  PROVE  \/ End /\ ids' = ids
         \/ /\ run'.key = run.key /\ run'.login = run.login
            /\ \/ /\ record[run.key].tr = 0 /\ ids' = ids + 1
                  /\ run'.pc = "prepare" /\ run'.tr = ids' /\ run'.known = run.known /\ run'.retry = run.retry
               \/ /\ record[run.key].tr # 0 /\ ids' = ids
                  /\ run'.pc = "persist" /\ run'.tr = record[run.key].tr /\ run'.known = TRUE
                  /\ run'.retry = record[run.key].retry
BY DEF Lookup, Typed, RunTyped, Calls, key

LEMMA ArmFields ==
  ASSUME Typed, ArmRetry
  PROVE  /\ run'.pc = "retry" /\ run'.tr = run.tr /\ run'.key = run.key /\ run'.login = run.login
         /\ run'.retry = [gen |-> run.gen, id |-> ids'] /\ run'.known = run.known
BY DEF ArmRetry, Typed, RunTyped, Calls

-----------------------------------------------------------------------------
(* Numbers                                                                 *)

LEMMA NumbersInit == Init => Numbers
BY StageAssumption DEF Init, Numbers, Counted, Numbered, Idle, NoSnapshot, NoRecord, NoTransfer,
   Starting, Naming

LEMMA NumbersStep ==
  ASSUME Typed, Numbers, Told, [Next]_vars
  PROVE  Numbers'
<1> USE DEF Numbers, Counted, Numbered, key, mine, spool, auth, authority
<1>1. ASSUME NEW kind \in Kinds, NEW k \in Keys \cup {None}, NEW l \in logins \cup {NoLogin},
             StartHelper(kind, k, l)
      PROVE  Numbers'
  <2>0. run'.pc = "startup" /\ run'.tr = 0
    BY <1>1, StartFields
  <2>1. Counted'
    BY <1>1, <2>0, CountersAre, StageAssumption DEF StartHelper, Starting, Naming
  <2>2. Numbered'
    BY <1>1 DEF StartHelper
  <2> QED
    BY <2>1, <2>2
<1>2. CASE Ensure
  <2>1. run.tr \in Ids
    BY <1>2, OneOfIds DEF Ensure, Told, Telling
  <2>2. PICK s \in TransferStates, g \in Nat :
           /\ transfer' = [transfer EXCEPT ![run.tr] = Row(s, g)]
           /\ Answered(s, g, IF run.known /\ s = "expired" THEN "arm" ELSE "result")
           /\ \/ s = transfer[run.tr].state /\ g = transfer[run.tr].gen
              \/ transfer[run.tr].state \in {"none", "waiting"} /\ s \in {"waiting", "refused"} /\ g = transfer[run.tr].gen
              \/ transfer[run.tr].state \in {"none", "waiting"} /\ s = "open" /\ g = 1
    BY <1>2, EnsureAnswers
  <2>3. End \/ (run'.pc \in {"arm", "result"} /\ run'.tr = run.tr)
    BY <2>2, AnsweredFields DEF Places, Staging, Telling
  <2>4. \A i \in Ids : transfer'[i].retries = transfer[i].retries
                      /\ (transfer'[i].state \in {"none", "waiting"} => transfer'[i].gen = 0)
    BY <2>1, <2>2 DEF Row, Typed, RowsTyped
  <2> QED
    BY <1>2, <2>3, <2>4, EndFields DEF Ensure, Starting, Naming, Typed, RowsTyped
<1>3. CASE Retry
  <2>1. run.tr \in Ids /\ run.retry \in [gen : Nat, id : Nat]
    BY <1>3, RetryAnswers
  <2>2. End \/ (run'.pc = "result" /\ run'.tr = run.tr)
    <3>1. "result" \in Places /\ "open" \in TransferStates
      BY DEF Places, Staging, Telling, TransferStates
    <3>2. transfer[run.tr].state \in TransferStates /\ transfer[run.tr].gen \in Nat
      BY <2>1 DEF Typed, RowsTyped
    <3> QED
      BY <1>3, <3>1, <3>2, RetryAnswers, AnsweredFields
  <2>3. run.retry.id <= ids /\ run.retry.id > 0
    BY <1>3 DEF Retry, Told, Typed, RowsTyped, RunTyped, Staging, Telling
  <2>4. \A i \in Ids : transfer'[i].retries \subseteq 1..ids
                      /\ (transfer'[i].state \in {"none", "waiting"} => transfer'[i].gen = 0)
    BY <1>3, <2>1, <2>3, RetryAnswers DEF Typed, RowsTyped
  <2> QED
    BY <1>3, <2>2, <2>4, EndFields DEF Retry, Starting, Naming, Typed, RowsTyped
<1>4. ASSUME NEW k \in Keys, SweepFile(k)
      PROVE  Numbers'
  BY <1>4, SweepFields DEF SweepFile, Starting, Naming
<1>5. ASSUME NEW i \in Ids, SweepOrphan(i)
      PROVE  Numbers'
  <2>1. i \in charged /\ charged' = charged
    BY <1>5 DEF SweepOrphan, Orphans
  <2>0. run'.pc = "sweep_charge" /\ run'.tr = i
    BY <1>5, OrphanFields
  <2>2. Counted'
    BY <1>5, <2>0, <2>1, CountersAre DEF SweepOrphan, Starting, Naming
  <2>3. Numbered'
    BY <1>5 DEF SweepOrphan
  <2> QED
    BY <2>2, <2>3
<1>6. CASE SweepCharge
  <2>1. run'.pc = "startup" /\ run'.tr = 0
    BY <1>6 DEF SweepCharge, Typed, RunTyped, Calls
  <2>2. charged' \subseteq charged
    BY <1>6 DEF SweepCharge
  <2> QED
    BY <1>6, <2>1, <2>2, CountersAre DEF SweepCharge, Starting, Naming
<1>7. CASE Authenticate
  BY <1>7, AuthenticateFields, EndFields DEF Authenticate, Starting, Naming, Typed, RowsTyped
<1>8. CASE Lookup
  <2>0. run.pc = "lookup" /\ helpers' = helpers /\ record[run.key].tr <= ids
    BY <1>8 DEF Lookup, Typed, RunTyped, Staging
  <2>5. \/ run'.pc = "idle" /\ run'.tr = 0 /\ ids' = ids
        \/ run'.pc = "prepare" /\ run'.tr = ids' /\ ids' = ids + 1
        \/ run'.pc = "persist" /\ run'.tr = record[run.key].tr /\ ids' = ids
    BY <1>8, LookupFields, EndFields
  <2>1. Counted'
    BY <2>0, <2>5, CountersAre DEF Starting, Naming
  <2>2. ids' \in {ids, ids + 1}
    BY <1>8, LookupFields
  <2>3. Numbered'
    BY <1>8, <2>2, CountersAre DEF Lookup, Typed, RowsTyped
  <2> QED
    BY <2>1, <2>3
<1>9. CASE ArmRetry
  BY <1>9, ArmFields, CountersAre DEF ArmRetry, Starting, Naming, Typed, RowsTyped, RunTyped,
     Staging, Telling
<1>10. CASE ReserveSnapshot
  <2>1. charged' \subseteq charged \cup {run.tr} /\ (End \/ Goto("row"))
    BY <1>10 DEF ReserveSnapshot
  <2>2. run.tr \in 1..ids
    BY <1>10 DEF ReserveSnapshot, Told, Naming, Typed, RowsTyped, RunTyped, Calls
  <2> QED
    BY <1>10, <2>1, <2>2, GotoFields, EndFields, CountersAre DEF ReserveSnapshot, Starting, Naming,
       Places, Staging
<1>11. CASE Uncharge
  <2>1. charged' \subseteq charged
    BY <1>11 DEF Uncharge
  <2>2. Counted'
    BY <1>11, EndFields, CountersAre DEF Uncharge, Starting, Naming
  <2>3. Numbered'
    BY <1>11, <2>1 DEF Uncharge
  <2> QED
    BY <2>2, <2>3
<1>12. CASE Upload
  <2>1. run.tr \in Ids /\ run.gen \in Nat
    BY <1>12, OneOfIds DEF Upload, Told, Telling, Typed, RunTyped, Calls
  <2>2. End \/ (run'.pc = "result" /\ run'.tr = run.tr)
    BY <1>12, <2>1, AnsweredFields DEF Upload, Places, Staging, Telling, TransferStates
  <2>3. \A i \in Ids : transfer'[i].retries \subseteq 1..ids
                      /\ (transfer'[i].state \in {"none", "waiting"} => transfer'[i].gen = 0)
    BY <1>12, <2>1 DEF Upload, Typed, RowsTyped
  <2> QED
    BY <1>12, <2>2, <2>3, EndFields DEF Upload, Starting, Naming, Typed, RowsTyped
<1>13. ASSUME NEW k \in Keys, SweepRow(k)
      PROVE  Numbers'
  BY <1>13, KindsAre, GotoFields, EndFields DEF SweepRow, Typed, RowsTyped, RunTyped, Calls, Places,
     Starting, Staging, Naming, Telling
<1>14. CASE Serve
  BY <1>14, KindsAre, GotoFields, EndFields DEF Serve, Typed, RowsTyped, RunTyped, Calls, Places,
     Starting, Staging, Naming, Telling
<1>15. CASE ListRoots
  BY <1>15, KindsAre, GotoFields, EndFields DEF ListRoots, Typed, RowsTyped, RunTyped, Calls, Places,
     Starting, Staging, Naming, Telling
<1>16. CASE BeginLogin
  BY <1>16, KindsAre, GotoFields, EndFields DEF BeginLogin, Typed, RowsTyped, RunTyped, Calls,
     Places, Starting, Staging, Naming, Telling
<1>17. CASE CommitLogin
  BY <1>17, KindsAre, GotoFields, EndFields DEF CommitLogin, Typed, RowsTyped, RunTyped, Calls,
     Places, Starting, Staging, Naming, Telling
<1>18. CASE Fence
  BY <1>18, KindsAre, GotoFields, EndFields DEF Fence, Typed, RowsTyped, RunTyped, Calls, Places,
     Starting, Staging, Naming, Telling
<1>19. CASE DeleteCredential
  BY <1>19, KindsAre, GotoFields, EndFields DEF DeleteCredential, Typed, RowsTyped, RunTyped, Calls,
     Places, Starting, Staging, Naming, Telling
<1>20. CASE KnownSnapshot
  BY <1>20, KindsAre, GotoFields, EndFields DEF KnownSnapshot, Typed, RowsTyped, RunTyped, Calls,
     Places, Starting, Staging, Naming, Telling
<1>21. CASE CheckSnapshot
  BY <1>21, KindsAre, GotoFields, EndFields DEF CheckSnapshot, Typed, RowsTyped, RunTyped, Calls,
     Places, Starting, Staging, Naming, Telling
<1>22. CASE ReleaseFile
  BY <1>22, KindsAre, GotoFields, EndFields DEF ReleaseFile, Typed, RowsTyped, RunTyped, Calls,
     Places, Starting, Staging, Naming, Telling
<1>23. CASE Stop
  BY <1>23, KindsAre, GotoFields, EndFields DEF Stop, Typed, RowsTyped, RunTyped, Calls, Places,
     Starting, Staging, Naming, Telling
<1>24. ASSUME NEW k \in Keys, Age(k)
      PROVE  Numbers'
  BY <1>24, KindsAre, GotoFields, EndFields DEF Age, Typed, RowsTyped, RunTyped, Calls, Places,
     Starting, Staging, Naming, Telling
<1>25. ASSUME NEW i \in Ids, Expire(i)
      PROVE  Numbers'
  BY <1>25, KindsAre, GotoFields, EndFields DEF Expire, Typed, RowsTyped, RunTyped, Calls, Places,
     Starting, Staging, Naming, Telling
<1>26. CASE CopySource
  BY <1>26, KindsAre, GotoFields, EndFields DEF CopySource, Typed, RowsTyped, RunTyped, Calls,
     Places, Starting, Staging, Naming, Telling
<1>27. CASE PersistRequest
  BY <1>27, KindsAre, GotoFields, EndFields DEF PersistRequest, Typed, RowsTyped, RunTyped, Calls,
     Places, Starting, Staging, Naming, Telling, NoRecord, Told
<1>28. CASE PersistResult
  BY <1>28, KindsAre, GotoFields, EndFields DEF PersistResult, Typed, RowsTyped, RunTyped, Calls,
     Places, Starting, Staging, Naming, Telling, NoRecord, Told
<1>29. CASE PutPreparing
  BY <1>29, KindsAre, GotoFields, EndFields DEF PutPreparing, Typed, RowsTyped, RunTyped, Calls,
     Places, Starting, Staging, Naming, Telling, PutSnapshot
<1>30. CASE PutCopied
  BY <1>30, KindsAre, GotoFields, EndFields DEF PutCopied, Typed, RowsTyped, RunTyped, Calls, Places,
     Starting, Staging, Naming, Telling, PutSnapshot
<1>31. CASE PutReleased
  BY <1>31, KindsAre, GotoFields, EndFields DEF PutReleased, Typed, RowsTyped, RunTyped, Calls,
     Places, Starting, Staging, Naming, Telling, PutSnapshot
<1>32. CASE UNCHANGED vars
  BY <1>32 DEF vars
<1> HIDE DEF Numbers
<1> QED
  BY <1>1, <1>2, <1>3, <1>4, <1>5, <1>6, <1>7, <1>8, <1>9, <1>10, <1>11, <1>12, <1>13, <1>14, <1>15,
     <1>16, <1>17, <1>18, <1>19, <1>20, <1>21, <1>22, <1>23, <1>24, <1>25, <1>26, <1>27, <1>28,
        <1>29, <1>30, <1>31, <1>32 DEF Next, Sweep, Authorise, StageFile

-----------------------------------------------------------------------------
(* The spool                                                               *)

LEMMA PlacesAre ==
  /\ {"idle", "startup", "sweep", "sweep_charge", "delete", "lookup", "prepare", "row", "copy", "ready", "failed",
      "persist", "check", "ensure", "arm", "retry", "result", "put", "release", "released", "uncharge"} \subseteq Places
  /\ {"open", "done"} \subseteq TransferStates
BY DEF Places, Starting, Staging, Naming, Telling, TransferStates

\* Where a helper is after a step that leaves the spool alone.
LEMMA Onwards ==
  ASSUME Typed, Numbers, Told
  PROVE  /\ ListRoots \/ BeginLogin \/ CommitLogin \/ DeleteCredential \/ Stop => run'.pc = "idle"
         /\ Fence => run'.pc = "delete"
         /\ Serve => run'.pc \in {"stage", "login", "commit", "logout", "other"}
         /\ Authenticate => run'.pc \in {"idle", "lookup"}
         /\ KnownSnapshot => run'.pc \in {"idle", "persist"}
         /\ PersistRequest => run'.pc = "check"
         /\ CheckSnapshot => run'.pc \in {"idle", "ensure", "retry"}
         /\ Ensure => run'.pc \in {"idle", "arm", "result"}
         /\ Retry \/ Upload => run'.pc \in {"idle", "result"}
         /\ PersistResult => run'.pc \in {"idle", "put", "release"}
         /\ Lookup => run'.pc \in {"idle", "prepare", "persist"}
         /\ ReserveSnapshot => run'.pc \in {"idle", "row"}
         /\ PutPreparing => run'.pc = "copy"
         /\ CopySource => run'.pc \in {"ready", "failed"}
         /\ PutCopied => run'.pc \in {"persist", "uncharge"}
         /\ Uncharge => run'.pc = "idle"
         /\ ArmRetry => run'.pc = "retry"
         /\ ReleaseFile => run'.pc = "released"
         /\ PutReleased => run'.pc = "uncharge"
<1>1. ListRoots \/ BeginLogin \/ CommitLogin \/ DeleteCredential \/ Stop => run'.pc = "idle"
  BY EndFields DEF ListRoots, BeginLogin, CommitLogin, DeleteCredential, Stop
<1>2. Fence => run'.pc = "delete"
  BY GotoFields, PlacesAre DEF Fence
<1>3. Serve => run'.pc \in {"stage", "login", "commit", "logout", "other"}
  BY KindsAre DEF Serve, Goto, Typed, RunTyped, Calls, Starting
<1>4. (Authenticate => run'.pc \in {"idle", "lookup"}) /\ (KnownSnapshot => run'.pc \in {"idle", "persist"})
  BY AuthenticateFields, EndFields, GotoFields, PlacesAre DEF KnownSnapshot
<1>5. (PersistRequest => run'.pc = "check") /\ (CheckSnapshot => run'.pc \in {"idle", "ensure", "retry"})
  BY EndFields, GotoFields, PlacesAre DEF PersistRequest, CheckSnapshot
<1>6. Ensure => run'.pc \in {"idle", "arm", "result"}
  BY EnsureAnswers, AnsweredFields, EndFields, PlacesAre
<1>7. Retry => run'.pc \in {"idle", "result"}
  <2>1. Retry => transfer[run.tr].state \in TransferStates /\ transfer[run.tr].gen \in Nat
    BY RetryAnswers DEF Typed, RowsTyped
  <2> QED
    BY <2>1, RetryAnswers, AnsweredFields, EndFields, PlacesAre
<1>8. Upload => run'.pc \in {"idle", "result"}
  <2>1. Upload => End \/ Answered("done", run.gen, "result")
    BY DEF Upload
  <2> QED
    BY <2>1, CountersAre, AnsweredFields, EndFields, PlacesAre
<1>9. PersistResult => run'.pc \in {"idle", "put", "release"}
  BY EndFields, GotoFields, PlacesAre DEF PersistResult
<1>10. Lookup => run'.pc \in {"idle", "prepare", "persist"}
  BY LookupFields, EndFields
<1>11. ArmRetry => run'.pc = "retry"
  BY ArmFields
<1>12. (ReserveSnapshot => run'.pc \in {"idle", "row"}) /\ (PutPreparing => run'.pc = "copy")
  BY EndFields, GotoFields, PlacesAre DEF ReserveSnapshot, PutPreparing
<1>13. (CopySource => run'.pc \in {"ready", "failed"}) /\ (PutCopied => run'.pc \in {"persist", "uncharge"})
  BY GotoFields, PlacesAre DEF CopySource, PutCopied
<1>14. (Uncharge => run'.pc = "idle") /\ (ReleaseFile => run'.pc = "released") /\ (PutReleased => run'.pc = "uncharge")
  BY EndFields, GotoFields, PlacesAre DEF Uncharge, ReleaseFile, PutReleased
<1> QED
  BY <1>1, <1>2, <1>3, <1>4, <1>5, <1>6, <1>7, <1>8, <1>9, <1>10, <1>11, <1>12, <1>13, <1>14

LEMMA SpoolFrame ==
  ASSUME Spool, UNCHANGED spool,
         run'.pc \notin {"prepare", "row", "copy", "ready", "failed", "released", "uncharge", "sweep", "sweep_charge"}
  PROVE  Spool'
BY DEF Spool, spool

LEMMA SpoolInit == Init => Spool /\ Swept
BY DEF Init, Spool, Swept, NoSnapshot, Idle, Starting

LEMMA SpoolStep ==
  ASSUME Typed, Numbers, Told, Spool, [Next]_vars
  PROVE  Spool'
<1>1. ASSUME NEW kind \in Kinds, NEW k \in Keys \cup {None}, NEW l \in logins \cup {NoLogin},
             StartHelper(kind, k, l)
      PROVE  Spool'
  BY <1>1, StartFields, SpoolFrame DEF StartHelper
<1>2. CASE Serve
  BY <1>2, Onwards, SpoolFrame DEF Serve
<1>3. CASE ListRoots
  BY <1>3, Onwards, SpoolFrame DEF ListRoots
<1>4. CASE BeginLogin
  BY <1>4, Onwards, SpoolFrame DEF BeginLogin
<1>5. CASE CommitLogin
  BY <1>5, Onwards, SpoolFrame DEF CommitLogin
<1>6. CASE Fence
  BY <1>6, Onwards, SpoolFrame DEF Fence
<1>7. CASE DeleteCredential
  BY <1>7, Onwards, SpoolFrame DEF DeleteCredential
<1>8. CASE Authenticate
  BY <1>8, Onwards, SpoolFrame DEF Authenticate
<1>9. CASE KnownSnapshot
  BY <1>9, Onwards, SpoolFrame DEF KnownSnapshot
<1>10. CASE PersistRequest
  BY <1>10, Onwards, SpoolFrame DEF PersistRequest
<1>11. CASE CheckSnapshot
  BY <1>11, Onwards, SpoolFrame DEF CheckSnapshot
<1>12. CASE Ensure
  BY <1>12, Onwards, SpoolFrame DEF Ensure
<1>13. CASE Retry
  BY <1>13, Onwards, SpoolFrame DEF Retry
<1>14. CASE PersistResult
  BY <1>14, Onwards, SpoolFrame DEF PersistResult
<1>15. CASE Upload
  BY <1>15, Onwards, SpoolFrame DEF Upload
<1>16. CASE Stop
  BY <1>16, Onwards, SpoolFrame DEF Stop
<1>17. CASE ArmRetry
  BY <1>17, ArmFields, SpoolFrame DEF ArmRetry
<1>18. ASSUME NEW k \in Keys, SweepFile(k)
      PROVE  Spool'
  <2>1. /\ copies' \subseteq copies /\ charged' = charged /\ snapshot' = snapshot
        /\ run'.pc = "startup" \/ (run'.pc = "sweep" /\ run'.tr = snapshot[k].tr /\ run'.tr \notin copies')
    BY <1>18, SweepFields DEF SweepFile
  <2> QED
    BY <2>1 DEF Spool
<1>19. ASSUME NEW k \in Keys, SweepRow(k)
      PROVE  Spool'
  <2>1. /\ run.pc = "sweep" /\ run'.pc = "sweep_charge" /\ run'.tr = run.tr
        /\ UNCHANGED <<copies, charged>>
    BY <1>19, GotoFields, PlacesAre DEF SweepRow
  <2>2. \A m \in Keys : /\ snapshot'[m].tr = snapshot[m].tr /\ snapshot'[m].old = snapshot[m].old
                        /\ snapshot'[m].state = "none" => snapshot[m].state = "none"
    BY <1>19 DEF SweepRow, Typed, RowsTyped
  <2> QED
    BY <2>1, <2>2 DEF Spool
<1>20. ASSUME NEW i \in Ids, SweepOrphan(i)
      PROVE  Spool'
  <2>1. /\ run'.pc = "sweep_charge" /\ run'.tr = i
        /\ copies' = copies \ {i} /\ UNCHANGED <<snapshot, charged>>
    BY <1>20, OrphanFields DEF SweepOrphan
  <2> QED
    BY <2>1 DEF Spool
<1>21. CASE SweepCharge
  <2>1. /\ run.pc = "sweep_charge" /\ run'.pc = "startup"
        /\ charged' = charged \ {run.tr} /\ UNCHANGED <<snapshot, copies>>
    BY <1>21 DEF SweepCharge, Typed, RunTyped, Calls
  <2> QED
    BY <2>1 DEF Spool
<1>22. CASE Lookup
  <2>1. UNCHANGED spool
    BY <1>22 DEF Lookup
  <2>2. CASE run'.pc = "prepare" /\ run'.tr = ids + 1
    BY <2>1, <2>2, CountersAre DEF Spool, spool, Numbers, Numbered, Typed, RowsTyped
  <2>3. CASE run'.pc \in {"idle", "persist"}
    BY <2>1, <2>3, SpoolFrame
  <2> QED
    BY <1>22, <2>2, <2>3, LookupFields, EndFields
<1>23. CASE ReserveSnapshot
  <2>1. CASE run'.pc = "idle" /\ charged' = charged
    BY <1>23, <2>1, SpoolFrame DEF ReserveSnapshot, spool
  <2>2. CASE charged' = charged \cup {run.tr} /\ Goto("row")
    BY <1>23, <2>2, GotoFields, PlacesAre DEF ReserveSnapshot, Spool
  <2> QED
    BY <1>23, <2>1, <2>2, EndFields DEF ReserveSnapshot
<1>24. CASE PutPreparing
  <2>1. /\ run.pc = "row" /\ run'.pc = "copy" /\ run'.tr = run.tr /\ run'.key = run.key
        /\ UNCHANGED <<copies, charged>> /\ run.key \in Keys
        /\ snapshot' = [snapshot EXCEPT ![run.key] = [state |-> "preparing", tr |-> run.tr, old |-> FALSE]]
    BY <1>24, GotoFields, PlacesAre DEF PutPreparing, PutSnapshot, key, Typed, RunTyped, Staging, Naming
  <2> QED
    BY <2>1 DEF Spool, mine, key, Typed, RowsTyped
<1>25. CASE CopySource
  <2>1. /\ run.pc = "copy" /\ UNCHANGED <<snapshot, charged>>
        /\ \/ copies' = copies \cup {run.tr} /\ run'.pc = "ready"
           \/ copies' = copies /\ run'.pc = "failed"
        /\ run'.tr = run.tr /\ run'.key = run.key
    BY <1>25, GotoFields, PlacesAre DEF CopySource
  <2> QED
    BY <2>1 DEF Spool, mine, key
<1>26. CASE PutCopied
  <2>1. /\ run.pc \in {"ready", "failed"} /\ UNCHANGED <<copies, charged>> /\ run.key \in Keys
        /\ run'.pc = IF run.pc = "ready" THEN "persist" ELSE "uncharge"
        /\ run'.tr = run.tr /\ run'.key = run.key
    BY <1>26, GotoFields, PlacesAre DEF PutCopied, Typed, RunTyped, Staging, Naming
  <2>2. \A m \in Keys : /\ snapshot'[m].tr = snapshot[m].tr /\ snapshot'[m].old = snapshot[m].old
                        /\ snapshot'[m].state = IF m = run.key THEN run.pc ELSE snapshot[m].state
    BY <1>26, <2>1 DEF PutCopied, PutSnapshot, mine, key, Typed, RowsTyped
  <2> QED
    BY <2>1, <2>2 DEF Spool, mine, key
<1>27. CASE Uncharge
  <2>1. /\ run.pc = "uncharge" /\ run'.pc = "idle" /\ UNCHANGED <<snapshot, copies>>
        /\ charged' = charged \ {mine.tr}
    BY <1>27, EndFields DEF Uncharge
  <2> QED
    BY <2>1 DEF Spool
<1>28. CASE ReleaseFile
  <2>1. /\ run'.pc = "released" /\ run'.key = run.key /\ UNCHANGED <<snapshot, charged>>
        /\ copies' = copies \ {mine.tr}
    BY <1>28, GotoFields, PlacesAre DEF ReleaseFile
  <2> QED
    BY <2>1 DEF Spool, mine, key
<1>29. CASE PutReleased
  <2>1. /\ run.pc = "released" /\ UNCHANGED <<copies, charged>> /\ run.key \in Keys
        /\ run'.pc = "uncharge" /\ run'.key = run.key
    BY <1>29, GotoFields, PlacesAre DEF PutReleased, Typed, RunTyped, Staging
  <2>2. \A m \in Keys : /\ snapshot'[m].tr = snapshot[m].tr /\ snapshot'[m].old = snapshot[m].old
                        /\ snapshot'[m].state = IF m = run.key THEN "released" ELSE snapshot[m].state
    BY <1>29, <2>1 DEF PutReleased, PutSnapshot, mine, key, Typed, RowsTyped
  <2> QED
    BY <2>1, <2>2 DEF Spool, mine, key
<1>30. ASSUME NEW k \in Keys, Age(k)
      PROVE  Spool'
  <2>1. /\ run' = run /\ UNCHANGED <<copies, charged>> /\ snapshot[k].state # "none"
    BY <1>30 DEF Age
  <2>2. \A m \in Keys : /\ snapshot'[m].tr = snapshot[m].tr /\ snapshot'[m].state = snapshot[m].state
                        /\ m # k => snapshot'[m].old = snapshot[m].old
    BY <1>30 DEF Age, Typed, RowsTyped
  <2>3. run.pc \in {"copy", "ready", "failed", "released", "uncharge"} => run.key \in Keys
    BY DEF Typed, RunTyped, Staging, Naming
  <2> QED
    BY <2>1, <2>2, <2>3 DEF Spool, mine, key
<1>31. ASSUME NEW i \in Ids, Expire(i)
      PROVE  Spool'
  BY <1>31 DEF Expire, Spool, spool, mine, key
<1>32. CASE UNCHANGED vars
  BY <1>32 DEF vars, Spool, spool, mine, key
<1> QED
  BY <1>1, <1>2, <1>3, <1>4, <1>5, <1>6, <1>7, <1>8, <1>9, <1>10, <1>11, <1>12, <1>13, <1>14, <1>15,
     <1>16, <1>17, <1>18, <1>19, <1>20, <1>21, <1>22, <1>23, <1>24, <1>25, <1>26, <1>27, <1>28,
        <1>29, <1>30, <1>31, <1>32 DEF Next, Sweep, Authorise, StageFile

-----------------------------------------------------------------------------
(* The sweep                                                               *)

LEMMA SweptFrame ==
  ASSUME Swept, run'.pc \notin Starting \/ (run' = run /\ UNCHANGED spool)
  PROVE  Swept'
BY DEF Swept, spool

LEMMA SweptStep ==
  ASSUME Typed, Numbers, Told, Spool, Swept, [Next]_vars
  PROVE  Swept'
<1>1. ASSUME NEW kind \in Kinds, NEW k \in Keys \cup {None}, NEW l \in logins \cup {NoLogin},
             StartHelper(kind, k, l)
      PROVE  Swept'
  <2>1. UNCHANGED spool /\ run'.pc = "startup" /\ run'.todo = {s \in Keys : snapshot[s].state # "none"}
    BY <1>1, StartFields DEF StartHelper
  <2> QED
    BY <2>1 DEF Swept, Spool, spool
<1>2. ASSUME NEW k \in Keys, SweepFile(k)
      PROVE  Swept'
  <2>1. /\ charged' = charged /\ snapshot' = snapshot
        /\ run.pc = "startup" /\ run'.todo = run.todo \ {k}
        /\ \/ run'.pc = "startup" /\ ~snapshot[k].old
           \/ run'.pc = "sweep" /\ run'.tr = snapshot[k].tr
    BY <1>2, SweepFields DEF SweepFile, Abandoned
  <2> QED
    BY <2>1 DEF Swept, Starting
<1>3. ASSUME NEW k \in Keys, SweepRow(k)
      PROVE  Swept'
  <2>1. /\ run.pc = "sweep" /\ run'.pc = "sweep_charge" /\ run'.tr = run.tr /\ run'.todo = run.todo
        /\ UNCHANGED <<copies, charged>>
    BY <1>3, GotoFields, PlacesAre DEF SweepRow
  <2>2. \A m \in Keys : snapshot'[m].tr = snapshot[m].tr /\ snapshot'[m].old = snapshot[m].old
    BY <1>3 DEF SweepRow, Typed, RowsTyped
  <2> QED
    BY <2>1, <2>2 DEF Swept, Starting
<1>4. ASSUME NEW i \in Ids, SweepOrphan(i)
      PROVE  Swept'
  <2>1. run.pc = "startup" /\ run'.todo = run.todo /\ UNCHANGED <<snapshot, charged>>
    BY <1>4, OrphanFields DEF SweepOrphan
  <2> QED
    BY <2>1 DEF Swept, Starting
<1>5. CASE SweepCharge
  <2>1. /\ run.pc = "sweep_charge" /\ run'.todo = run.todo
        /\ charged' = charged \ {run.tr} /\ UNCHANGED snapshot
    BY <1>5, OrphanFields DEF SweepCharge
  <2> QED
    BY <2>1 DEF Swept, Starting
<1>6. ASSUME NEW k \in Keys, Age(k)
      PROVE  Swept'
  <2>1. run' = run /\ run.pc \notin Starting
    BY <1>6 DEF Age, Starting
  <2> QED
    BY <2>1, SweptFrame
<1>7. ASSUME NEW i \in Ids, Expire(i)
      PROVE  Swept'
  BY <1>7, SweptFrame DEF Expire
<1>8. CASE Serve
  BY <1>8, Onwards, SweptFrame DEF Starting
<1>9. CASE ListRoots
  BY <1>9, Onwards, SweptFrame DEF Starting
<1>10. CASE BeginLogin
  BY <1>10, Onwards, SweptFrame DEF Starting
<1>11. CASE CommitLogin
  BY <1>11, Onwards, SweptFrame DEF Starting
<1>12. CASE Fence
  BY <1>12, Onwards, SweptFrame DEF Starting
<1>13. CASE DeleteCredential
  BY <1>13, Onwards, SweptFrame DEF Starting
<1>14. CASE Authenticate
  BY <1>14, Onwards, SweptFrame DEF Starting
<1>15. CASE KnownSnapshot
  BY <1>15, Onwards, SweptFrame DEF Starting
<1>16. CASE PersistRequest
  BY <1>16, Onwards, SweptFrame DEF Starting
<1>17. CASE CheckSnapshot
  BY <1>17, Onwards, SweptFrame DEF Starting
<1>18. CASE Ensure
  BY <1>18, Onwards, SweptFrame DEF Starting
<1>19. CASE Retry
  BY <1>19, Onwards, SweptFrame DEF Starting
<1>20. CASE PersistResult
  BY <1>20, Onwards, SweptFrame DEF Starting
<1>21. CASE Upload
  BY <1>21, Onwards, SweptFrame DEF Starting
<1>22. CASE Stop
  BY <1>22, Onwards, SweptFrame DEF Starting
<1>23. CASE Lookup
  BY <1>23, Onwards, SweptFrame DEF Starting
<1>24. CASE ReserveSnapshot
  BY <1>24, Onwards, SweptFrame DEF Starting
<1>25. CASE PutPreparing
  BY <1>25, Onwards, SweptFrame DEF Starting
<1>26. CASE CopySource
  BY <1>26, Onwards, SweptFrame DEF Starting
<1>27. CASE PutCopied
  BY <1>27, Onwards, SweptFrame DEF Starting
<1>28. CASE Uncharge
  BY <1>28, Onwards, SweptFrame DEF Starting
<1>29. CASE ArmRetry
  BY <1>29, Onwards, SweptFrame DEF Starting
<1>30. CASE ReleaseFile
  BY <1>30, Onwards, SweptFrame DEF Starting
<1>31. CASE PutReleased
  BY <1>31, Onwards, SweptFrame DEF Starting
<1>32. CASE UNCHANGED vars
  BY <1>32 DEF vars, Swept, spool
<1> QED
  BY <1>1, <1>2, <1>3, <1>4, <1>5, <1>6, <1>7, <1>8, <1>9, <1>10, <1>11, <1>12, <1>13, <1>14, <1>15,
     <1>16, <1>17, <1>18, <1>19, <1>20, <1>21, <1>22, <1>23, <1>24, <1>25, <1>26, <1>27, <1>28,
        <1>29, <1>30, <1>31, <1>32 DEF Next, Sweep, Authorise, StageFile

-----------------------------------------------------------------------------
(* The journal                                                             *)

LEMMA ToldInit == Init => Told
BY DEF Init, Told, NoRecord, Idle, Starting, Naming, Telling

LEMMA ToldFrame ==
  ASSUME Told, UNCHANGED <<record, sent>>,
         run'.pc \notin Starting \cup {"stage", "lookup", "persist"} \cup Naming \cup Telling
  PROVE  Told'
BY DEF Told, Starting, Naming, Telling

LEMMA ToldStep ==
  ASSUME Typed, Numbers, Told, [Next]_vars
  PROVE  Told'
<1>1. ASSUME NEW kind \in Kinds, NEW k \in Keys \cup {None}, NEW l \in logins \cup {NoLogin},
             StartHelper(kind, k, l)
      PROVE  Told'
  <2>1. /\ UNCHANGED <<record, sent>> /\ run'.pc = "startup" /\ run'.known = FALSE /\ run'.retry = None
    BY <1>1, StartFields DEF StartHelper, authority
  <2> QED
    BY <2>1 DEF Told, Starting, Naming, Telling
<1>2. CASE ListRoots
  BY <1>2, Onwards, ToldFrame DEF ListRoots, authority, Starting, Naming, Telling
<1>3. CASE BeginLogin
  BY <1>3, Onwards, ToldFrame DEF BeginLogin, authority, Starting, Naming, Telling
<1>4. CASE CommitLogin
  BY <1>4, Onwards, ToldFrame DEF CommitLogin, authority, Starting, Naming, Telling
<1>5. CASE Fence
  BY <1>5, Onwards, ToldFrame DEF Fence, authority, Starting, Naming, Telling
<1>6. CASE DeleteCredential
  BY <1>6, Onwards, ToldFrame DEF DeleteCredential, authority, Starting, Naming, Telling
<1>7. CASE Stop
  BY <1>7, Onwards, ToldFrame DEF Stop, authority, Starting, Naming, Telling
<1>8. CASE Uncharge
  BY <1>8, Onwards, ToldFrame DEF Uncharge, authority, Starting, Naming, Telling
<1>9. CASE ReleaseFile
  BY <1>9, Onwards, ToldFrame DEF ReleaseFile, authority, Starting, Naming, Telling
<1>10. CASE PutReleased
  BY <1>10, Onwards, ToldFrame DEF PutReleased, authority, Starting, Naming, Telling
<1>11. CASE Serve
  <2>1. /\ UNCHANGED <<record, sent>> /\ run.pc = "startup"
        /\ run'.pc \in {"stage", "login", "commit", "logout", "other"}
        /\ run'.known = run.known /\ run'.retry = run.retry
    BY <1>11, Onwards DEF Serve, authority, Goto, Typed, RunTyped, Calls
  <2> QED
    BY <2>1 DEF Told, Starting, Naming, Telling
<1>12. CASE Authenticate
  <2>1. UNCHANGED <<record, sent>> /\ run.pc = "stage"
    BY <1>12 DEF Authenticate, authority
  <2>2. \/ run'.pc = "idle"
        \/ run'.pc = "lookup" /\ run'.known = run.known /\ run'.retry = run.retry
    BY <1>12, AuthenticateFields, EndFields
  <2> QED
    BY <2>1, <2>2 DEF Told, Starting, Naming, Telling
<1>13. ASSUME NEW k \in Keys, SweepFile(k)
      PROVE  Told'
  <2>1. UNCHANGED <<record, sent>>
    BY <1>13 DEF SweepFile, authority
  <2>2. run.pc = "startup" /\ run'.pc \in {"startup", "sweep"} /\ run'.known = run.known /\ run'.retry = run.retry
    BY <1>13, SweepFields
  <2> QED
    BY <2>1, <2>2 DEF Told, Starting, Naming, Telling
<1>14. ASSUME NEW k \in Keys, SweepRow(k)
      PROVE  Told'
  <2>1. UNCHANGED <<record, sent>>
    BY <1>14 DEF SweepRow, authority
  <2>2. run.pc = "sweep" /\ run'.pc = "sweep_charge" /\ run'.known = run.known /\ run'.retry = run.retry
    BY <1>14, GotoFields, PlacesAre DEF SweepRow
  <2> QED
    BY <2>1, <2>2 DEF Told, Starting, Naming, Telling
<1>15. ASSUME NEW i \in Ids, SweepOrphan(i)
      PROVE  Told'
  <2>1. UNCHANGED <<record, sent>> /\ run.pc = "startup"
    BY <1>15 DEF SweepOrphan, authority
  <2>2. run'.pc = "sweep_charge" /\ run'.known = run.known /\ run'.retry = run.retry
    BY <1>15, OrphanFields
  <2> QED
    BY <2>1, <2>2 DEF Told, Starting, Naming, Telling
<1>16. CASE SweepCharge
  <2>1. UNCHANGED <<record, sent>> /\ run.pc = "sweep_charge"
    BY <1>16 DEF SweepCharge, authority
  <2>2. run'.pc = "startup" /\ run'.known = run.known /\ run'.retry = run.retry
    BY <1>16 DEF SweepCharge, Typed, RunTyped, Calls
  <2> QED
    BY <2>1, <2>2 DEF Told, Starting, Naming, Telling
<1>17. CASE Lookup
  <2>1. UNCHANGED <<record, sent>> /\ run.pc = "lookup" /\ run.key \in Keys
    BY <1>17 DEF Lookup, authority, Typed, RunTyped, Staging
  <2>2. CASE run'.pc = "idle"
    BY <2>1, <2>2, ToldFrame DEF Starting, Naming, Telling
  <2>3. CASE /\ record[run.key].tr = 0 /\ run'.pc = "prepare" /\ run'.tr = ids + 1 /\ run'.key = run.key
             /\ run'.known = run.known /\ run'.retry = run.retry
    BY <2>1, <2>3, CountersAre DEF Told, key, Starting, Naming, Telling, Numbers, Numbered, Typed,
       RowsTyped
  <2>4. CASE /\ record[run.key].tr # 0 /\ run'.pc = "persist" /\ run'.tr = record[run.key].tr /\ run'.key = run.key
             /\ run'.known = TRUE /\ run'.retry = record[run.key].retry
    BY <2>1, <2>4 DEF Told, key, Starting, Naming, Telling, Typed, RowsTyped
  <2> QED
    BY <1>17, <2>2, <2>3, <2>4, LookupFields, EndFields
<1>18. CASE KnownSnapshot \/ ReserveSnapshot \/ PutPreparing \/ CopySource \/ PutCopied
  <2>1. /\ UNCHANGED <<record, sent>> /\ run.pc \in Naming
        /\ run'.pc \in Naming \cup {"persist", "idle", "uncharge"}
    BY <1>18, Onwards DEF KnownSnapshot, ReserveSnapshot, PutPreparing, CopySource, PutCopied,
       authority, Naming
  <2>2. End \/ (run'.key = run.key /\ run'.tr = run.tr /\ run'.known = run.known /\ run'.retry = run.retry)
    BY <1>18, GotoFields, PlacesAre DEF KnownSnapshot, ReserveSnapshot, PutPreparing, CopySource,
       PutCopied
  <2>3. CASE run'.pc \in {"idle", "uncharge"}
    BY <2>1, <2>3, ToldFrame DEF Starting, Naming, Telling
  <2> QED
    BY <2>1, <2>2, <2>3, EndFields DEF Told, key, Starting, Naming, Telling
<1>19. CASE PersistRequest
  <2>1. /\ sent' = sent /\ run.pc = "persist" /\ run'.pc = "check" /\ run.key \in Keys
        /\ run'.key = run.key /\ run'.tr = run.tr /\ run'.known = run.known /\ run'.retry = run.retry
    BY <1>19, GotoFields, PlacesAre DEF PersistRequest, authority, Typed, RunTyped, Staging
  <2>2. \A m \in Keys : /\ record'[m].tr = IF m = run.key THEN run.tr ELSE record[m].tr
                        /\ record'[m].retry = IF m = run.key THEN run.retry ELSE record[m].retry
    BY <1>19, <2>1 DEF PersistRequest, NoRecord, key, Typed, RowsTyped
  <2>3. \A s \in sent : s[1] \in Keys
    BY DEF Typed, RowsTyped
  <2> QED
    BY <2>1, <2>2, <2>3 DEF Told, key, Starting, Naming, Telling
<1>20. CASE CheckSnapshot
  <2>1. /\ UNCHANGED <<record, sent>> /\ run.pc = "check"
        /\ \/ End
           \/ /\ run'.pc = IF run.retry = None THEN "ensure" ELSE "retry"
              /\ run'.key = run.key /\ run'.tr = run.tr /\ run'.known = run.known /\ run'.retry = run.retry
    BY <1>20, GotoFields, PlacesAre DEF CheckSnapshot, authority
  <2> QED
    BY <2>1, EndFields DEF Told, key, Starting, Naming, Telling
<1>21. CASE Ensure \/ Retry
  <2>1. /\ record' = record /\ sent' = sent \cup {<<run.key, run.tr>>} /\ run.pc \in {"ensure", "retry"}
        /\ (run'.pc = "arm" => run.pc = "ensure") /\ run'.pc \in {"idle", "arm", "result"}
    BY <1>21, Onwards DEF Ensure, Retry, key
  <2>2. End \/ (run'.key = run.key /\ run'.tr = run.tr /\ run'.retry = run.retry)
    BY <1>21, AnswerKeeps
  <2> QED
    BY <2>1, <2>2, EndFields DEF Told, key, Starting, Naming, Telling
<1>22. CASE ArmRetry
  <2>1. /\ sent' = sent /\ run.pc = "arm" /\ run.key \in Keys /\ run'.pc = "retry"
        /\ run'.key = run.key /\ run'.tr = run.tr /\ run'.retry # None /\ run'.retry = [gen |-> run.gen, id |-> ids']
    BY <1>22, ArmFields, CountersAre, StageAssumption DEF ArmRetry, authority, Typed, RunTyped,
       Staging, Telling
  <2>2. \A m \in Keys : /\ record'[m].tr = record[m].tr
                        /\ record'[m].retry = IF m = run.key THEN [gen |-> run.gen, id |-> ids'] ELSE record[m].retry
    BY <1>22 DEF ArmRetry, key, Typed, RowsTyped
  <2>3. \A s \in sent : s[1] \in Keys
    BY DEF Typed, RowsTyped
  <2> QED
    BY <2>1, <2>2, <2>3 DEF Told, key, Starting, Naming, Telling
<1>23. CASE PersistResult
  <2>1. /\ sent' = sent /\ run.pc = "result" /\ run.key \in Keys /\ run'.pc \in {"idle", "put", "release"}
        /\ End \/ (run'.key = run.key /\ run'.tr = run.tr)
    BY <1>23, Onwards, GotoFields, PlacesAre DEF PersistResult, authority, Typed, RunTyped, Staging,
       Telling
  <2>2. \A m \in Keys : /\ record'[m].tr = IF m = run.key THEN run.tr ELSE record[m].tr
                        /\ record'[m].retry = IF m = run.key THEN None ELSE record[m].retry
    BY <1>23, <2>1 DEF PersistResult, key, Typed, RowsTyped
  <2>3. \A s \in sent : s[1] \in Keys
    BY DEF Typed, RowsTyped
  <2> QED
    BY <2>1, <2>2, <2>3, EndFields DEF Told, key, Starting, Naming, Telling
<1>24. CASE Upload
  <2>1. UNCHANGED <<record, sent>> /\ run.pc = "put" /\ run'.pc \in {"idle", "result"}
    BY <1>24, Onwards DEF Upload
  <2>2. End \/ (run'.key = run.key /\ run'.tr = run.tr)
    BY <1>24, AnswerKeeps
  <2> QED
    BY <2>1, <2>2, EndFields DEF Told, key, Starting, Naming, Telling
<1>25. ASSUME NEW k \in Keys, Age(k)
      PROVE  Told'
  BY <1>25 DEF Age, Told, key, authority
<1>26. ASSUME NEW i \in Ids, Expire(i)
      PROVE  Told'
  BY <1>26 DEF Expire, Told, key
<1>27. CASE UNCHANGED vars
  BY <1>27 DEF vars, Told, key
<1> QED
  BY <1>1, <1>2, <1>3, <1>4, <1>5, <1>6, <1>7, <1>8, <1>9, <1>10, <1>11, <1>12, <1>13, <1>14, <1>15,
     <1>16, <1>17, <1>18, <1>19, <1>20, <1>21, <1>22, <1>23, <1>24, <1>25, <1>26, <1>27 DEF Next,
        Sweep, Authorise, StageFile

-----------------------------------------------------------------------------
(* The retries                                                             *)

LEMMA RetriedInit == Init => Retried
BY DEF Init, Retried, NoRecord, Idle, OneRetryPerGeneration

\* A step of the authority that names no retry.
OnlyGrows ==
  \A i \in Ids : /\ transfer'[i].gen \in Nat /\ transfer'[i].gen >= transfer[i].gen
                 /\ transfer'[i].retries = transfer[i].retries
                 /\ transfer[i].state \in {"done", "refused"} => transfer'[i].state = transfer[i].state

\* What the retries hang on, where neither the journal nor the retries sent change: the
\* generations of a transfer only go up, and what is over stays over.
LEMMA RetriedFrame ==
  ASSUME Typed, Numbers, Retried, UNCHANGED <<record, retried>>, OnlyGrows,
         run'.pc = "result" => \A r \in retried : r[1] = run'.tr => Past(r),
         run'.pc = "arm" => transfer'[run'.tr].state = "expired" /\ transfer'[run'.tr].gen = run'.gen
  PROVE  Retried'
<1>1. \A r \in retried : r[1] \in Ids /\ r[2] \in Nat /\ transfer[r[1]].gen \in Nat
  BY DEF Retried, Typed, RowsTyped
<1>2. \A r \in retried : Past(r) => Past(r)'
  BY <1>1 DEF Past, OnlyGrows
<1>3. \A k \in Keys : record[k].retry # None =>
        /\ record[k].tr \in Ids /\ record[k].retry.gen \in Nat /\ transfer[record[k].tr].gen \in Nat
  <2>1. \A k \in Keys : record[k].tr \in Nat /\ record[k].tr <= ids
    BY DEF Numbers, Numbered, Typed, RowsTyped
  <2>2. \A n \in Nat : n > 0 /\ n <= ids => n \in Ids
    BY CountersAre, StageAssumption DEF Numbers, Counted, Ids
  <2> QED
    BY <2>1, <2>2 DEF Retried, Typed, RowsTyped, RetryIds
<1>4. (\A k \in Keys : record[k].retry # None =>
         /\ record[k].tr > 0
         /\ transfer[record[k].tr].gen >= record[k].retry.gen
         /\ record[k].retry.id \in transfer[record[k].tr].retries =>
              transfer[record[k].tr].gen > record[k].retry.gen
         /\ \A r \in retried : r[1] = record[k].tr /\ r[2] = record[k].retry.gen =>
              r[3] = record[k].retry.id)'
  BY <1>3 DEF Retried, OnlyGrows
<1>5. (\A r \in retried : r[1] \in Ids /\ transfer[r[1]].gen >= r[2])'
  BY <1>1 DEF Retried, OnlyGrows
<1>6. (\A r \in retried : Past(r) \/ \E k \in Keys :
         record[k].tr = r[1] /\ record[k].retry = [gen |-> r[2], id |-> r[3]])'
  BY <1>2 DEF Retried
<1>7. (run.pc = "result" => \A r \in retried : r[1] = run.tr => Past(r))'
  BY <1>2
<1>8. OneRetryPerGeneration'
  BY DEF Retried, OneRetryPerGeneration
<1> QED
  BY <1>4, <1>5, <1>6, <1>7, <1>8 DEF Retried

\* The same where the authority's transfers do not change either.
LEMMA RetriedStays ==
  ASSUME Typed, Numbers, Retried, UNCHANGED <<record, retried, transfer>>,
         run'.pc \notin {"result", "arm"}
  PROVE  Retried'
<1>1. OnlyGrows
  BY DEF Typed, RowsTyped, OnlyGrows
<1> QED
  BY <1>1, RetriedFrame

\* While the helper has no retry in the journal, what was retried of its transfer is over.
LEMMA NoneIsPast ==
  ASSUME Typed, Told, Retried, record[run.key].tr = run.tr, record[run.key].retry = None, run.key \in Keys, run.tr > 0
  PROVE  \A r \in retried : r[1] = run.tr => Past(r)
<1> SUFFICES ASSUME NEW r \in retried, r[1] = run.tr, ~Past(r)
             PROVE  FALSE
  OBVIOUS
<1>1. PICK k \in Keys : record[k].tr = r[1] /\ record[k].retry = [gen |-> r[2], id |-> r[3]]
  BY DEF Retried
<1>2. k = run.key
  BY <1>1 DEF Told
<1>3. r[2] \in Nat /\ r[3] \in Nat
  BY DEF Typed, RowsTyped
<1>4. [gen |-> r[2], id |-> r[3]] # None
  BY <1>3, StageAssumption
<1> QED
  BY <1>1, <1>2, <1>4

LEMMA RetriedStep ==
  ASSUME Typed, Numbers, Told, Retried, [Next]_vars
  PROVE  Retried'
<1>1. ASSUME NEW kind \in Kinds, NEW k \in Keys \cup {None}, NEW l \in logins \cup {NoLogin},
             StartHelper(kind, k, l)
      PROVE  Retried'
  <2>1. /\ UNCHANGED <<record, retried, transfer>> /\ run'.pc = "startup"
    BY <1>1, StartFields DEF StartHelper, authority
  <2> QED
    BY <2>1, RetriedStays
<1>2. CASE ListRoots
  BY <1>2, Onwards, RetriedStays DEF ListRoots, authority
<1>3. CASE BeginLogin
  BY <1>3, Onwards, RetriedStays DEF BeginLogin, authority
<1>4. CASE CommitLogin
  BY <1>4, Onwards, RetriedStays DEF CommitLogin, authority
<1>5. CASE Fence
  BY <1>5, Onwards, RetriedStays DEF Fence, authority
<1>6. CASE DeleteCredential
  BY <1>6, Onwards, RetriedStays DEF DeleteCredential, authority
<1>7. CASE Stop
  BY <1>7, Onwards, RetriedStays DEF Stop, authority
<1>8. CASE Uncharge
  BY <1>8, Onwards, RetriedStays DEF Uncharge, authority
<1>9. CASE ReleaseFile
  BY <1>9, Onwards, RetriedStays DEF ReleaseFile, authority
<1>10. CASE PutReleased
  BY <1>10, Onwards, RetriedStays DEF PutReleased, authority
<1>11. CASE Serve
  BY <1>11, Onwards, RetriedStays DEF Serve, authority
<1>12. CASE Authenticate
  BY <1>12, Onwards, RetriedStays DEF Authenticate, authority
<1>13. CASE Lookup
  BY <1>13, Onwards, RetriedStays DEF Lookup, authority
<1>14. CASE KnownSnapshot
  BY <1>14, Onwards, RetriedStays DEF KnownSnapshot, authority
<1>15. CASE ReserveSnapshot
  BY <1>15, Onwards, RetriedStays DEF ReserveSnapshot, authority
<1>16. CASE PutPreparing
  BY <1>16, Onwards, RetriedStays DEF PutPreparing, authority
<1>17. CASE CopySource
  BY <1>17, Onwards, RetriedStays DEF CopySource, authority
<1>18. CASE PutCopied
  BY <1>18, Onwards, RetriedStays DEF PutCopied, authority
<1>19. CASE CheckSnapshot
  BY <1>19, Onwards, RetriedStays DEF CheckSnapshot, authority
<1>20. ASSUME NEW k \in Keys, SweepFile(k)
      PROVE  Retried'
  BY <1>20, SweepFields, RetriedStays DEF SweepFile, authority
<1>21. ASSUME NEW k \in Keys, SweepRow(k)
      PROVE  Retried'
  BY <1>21, GotoFields, PlacesAre, RetriedStays DEF SweepRow, authority
<1>22. ASSUME NEW i \in Ids, SweepOrphan(i)
      PROVE  Retried'
  BY <1>22, OrphanFields, RetriedStays DEF SweepOrphan, authority
<1>23. CASE SweepCharge
  <2>1. run'.pc = "startup"
    BY <1>23 DEF SweepCharge, Typed, RunTyped, Calls
  <2> QED
    BY <1>23, <2>1, RetriedStays DEF SweepCharge, authority
<1>24. ASSUME NEW k \in Keys, Age(k)
      PROVE  Retried'
  BY <1>24 DEF Age, Retried, authority, Past, OneRetryPerGeneration
<1>25. ASSUME NEW i \in Ids, Expire(i)
      PROVE  Retried'
  <2>1. /\ UNCHANGED <<record, retried, run>> /\ transfer[i].state = "open"
    BY <1>25 DEF Expire
  <2>2. \A j \in Ids : /\ transfer'[j].gen = transfer[j].gen /\ transfer'[j].retries = transfer[j].retries
                       /\ transfer[j].gen \in Nat
                       /\ transfer[j].state # "open" => transfer'[j].state = transfer[j].state
    BY <1>25 DEF Expire, Typed, RowsTyped
  <2>6. OnlyGrows
    BY <2>2 DEF OnlyGrows
  <2>3. run.pc = "arm" => run.tr \in Ids
    BY OneOfIds DEF Told, Telling
  <2>4. run.pc = "result" => \A r \in retried : r[1] = run.tr => Past(r)
    BY DEF Retried
  <2>5. run.pc = "arm" => transfer[run.tr].state = "expired" /\ transfer[run.tr].gen = run.gen
    BY DEF Retried
  <2>7. run'.pc = "arm" => transfer'[run'.tr].state = "expired" /\ transfer'[run'.tr].gen = run'.gen
    BY <2>1, <2>2, <2>3, <2>5
  <2>8. run'.pc = "result" => \A r \in retried : r[1] = run'.tr => Past(r)
    BY <2>1, <2>4
  <2> QED
    BY <2>1, <2>6, <2>7, <2>8, RetriedFrame
<1>26. CASE PersistRequest
  <2>1. /\ UNCHANGED <<transfer, retried>> /\ run.pc = "persist" /\ run'.pc = "check" /\ run.key \in Keys
    BY <1>26, Onwards DEF PersistRequest, authority, Typed, RunTyped, Staging
  <2>2. \A m \in Keys : /\ record'[m].tr = IF m = run.key THEN run.tr ELSE record[m].tr
                        /\ record'[m].retry = IF m = run.key THEN run.retry ELSE record[m].retry
    BY <1>26, <2>1 DEF PersistRequest, NoRecord, key, Typed, RowsTyped
  <2>3. CASE run.known
    <3>1. \A m \in Keys : record'[m].tr = record[m].tr /\ record'[m].retry = record[m].retry
      BY <2>1, <2>2, <2>3 DEF Told, key
    <3> QED
      BY <2>1, <3>1 DEF Retried, Past, OneRetryPerGeneration
  <2>4. CASE ~run.known
    <3>1. record[run.key].tr = 0 /\ run.retry = None
      BY <2>1, <2>4 DEF Told, key
    <3>2. \A r \in retried : r[1] > 0
      BY StageAssumption DEF Retried, Ids
    <3> QED
      BY <2>1, <2>2, <3>1, <3>2 DEF Retried, Past, OneRetryPerGeneration
  <2> QED
    BY <2>3, <2>4
<1>27. CASE Ensure
  <2>1. UNCHANGED <<record, retried>> /\ run.pc = "ensure" /\ run.key \in Keys
    BY <1>27 DEF Ensure, Typed, RunTyped, Staging, Telling
  <2>2. run.tr \in Ids /\ run.tr > 0 /\ record[run.key].tr = run.tr /\ record[run.key].retry = None
    BY <2>1, OneOfIds DEF Told, Telling, key
  <2>3. PICK s \in TransferStates, g \in Nat :
           /\ transfer' = [transfer EXCEPT ![run.tr] = Row(s, g)]
           /\ Answered(s, g, IF run.known /\ s = "expired" THEN "arm" ELSE "result")
           /\ \/ s = transfer[run.tr].state /\ g = transfer[run.tr].gen
              \/ transfer[run.tr].state \in {"none", "waiting"} /\ s \in {"waiting", "refused"} /\ g = transfer[run.tr].gen
              \/ transfer[run.tr].state \in {"none", "waiting"} /\ s = "open" /\ g = 1
    BY <1>27, EnsureAnswers
  <2>4. OnlyGrows
    <3>1. \A i \in Ids : transfer[i].gen \in Nat /\ transfer[i].state \in {"none", "waiting"} => transfer[i].gen = 0
      BY DEF Numbers, Numbered
    <3>2. \A i \in Ids : transfer[i].gen \in Nat
      BY DEF Typed, RowsTyped
    <3> QED
      BY <2>2, <2>3, <3>1, <3>2 DEF OnlyGrows, Row, Typed, RowsTyped
  <2>5. transfer'[run.tr].state = s /\ transfer'[run.tr].gen = g
    BY <2>2, <2>3 DEF Row, Typed, RowsTyped
  <2>6. \/ run'.pc = "idle"
        \/ run'.pc \in {"arm", "result"} /\ run'.gen = g /\ run'.tr = run.tr /\ (run'.pc = "arm" => s = "expired")
    BY <2>3, AnsweredFields, EndFields, PlacesAre
  <2>7. \A r \in retried : r[1] = run.tr => Past(r)
    BY <2>1, <2>2, NoneIsPast
  <2>8. run'.pc = "result" => \A r \in retried : r[1] = run'.tr => Past(r)
    BY <2>6, <2>7
  <2>9. run'.pc = "arm" => transfer'[run'.tr].state = "expired" /\ transfer'[run'.tr].gen = run'.gen
    BY <2>5, <2>6
  <2> QED
    BY <2>1, <2>4, <2>8, <2>9, RetriedFrame
<1>28. CASE Upload
  <2>1. UNCHANGED <<record, retried>> /\ run.pc = "put" /\ run.key \in Keys
    BY <1>28 DEF Upload, Typed, RunTyped, Staging, Telling
  <2>2. run.tr \in Ids /\ run.tr > 0 /\ record[run.key].tr = run.tr /\ record[run.key].retry = None
    BY <2>1, OneOfIds DEF Told, Telling, key
  <2>3. OnlyGrows
    BY <1>28, <2>2 DEF OnlyGrows, Upload, Typed, RowsTyped
  <2>4. \A r \in retried : r[1] = run.tr => Past(r)
    BY <2>1, <2>2, NoneIsPast
  <2>5. run'.pc = "idle" \/ (run'.pc = "result" /\ run'.tr = run.tr)
    BY <1>28, Onwards, AnswerKeeps, EndFields
  <2>6. run'.pc = "result" => \A r \in retried : r[1] = run'.tr => Past(r)
    BY <2>4, <2>5
  <2>7. run'.pc # "arm"
    BY <2>5
  <2> QED
    BY <2>1, <2>3, <2>6, <2>7, RetriedFrame
<1>29. CASE PersistResult
  <2>1. /\ UNCHANGED <<transfer, retried>> /\ run.pc = "result" /\ run.key \in Keys
        /\ run'.pc \in {"idle", "put", "release"} /\ record[run.key].tr = run.tr
    BY <1>29, Onwards DEF PersistResult, authority, Typed, RunTyped, Staging, Telling, Told, key
  <2>2. \A m \in Keys : /\ record'[m].tr = record[m].tr
                        /\ record'[m].retry = IF m = run.key THEN None ELSE record[m].retry
    BY <1>29, <2>1 DEF PersistResult, key, Typed, RowsTyped
  <2>3. \A r \in retried : r[1] = run.tr => Past(r)
    BY <2>1 DEF Retried
  <2> QED
    BY <2>1, <2>2, <2>3 DEF Retried, Past, OneRetryPerGeneration
<1>30. CASE ArmRetry
  <2>1. /\ UNCHANGED <<transfer, retried>> /\ run.pc = "arm" /\ run.key \in Keys /\ run'.pc = "retry"
        /\ ids' = ids + 1
    BY <1>30, Onwards DEF ArmRetry, authority, Typed, RunTyped, Staging, Telling
  <2>2. run.tr \in Ids /\ run.tr > 0 /\ record[run.key].tr = run.tr /\ record[run.key].retry = None
    BY <2>1, OneOfIds DEF Told, Telling, key
  <2>3. \A m \in Keys : /\ record'[m].tr = record[m].tr
                        /\ record'[m].retry = IF m = run.key THEN [gen |-> run.gen, id |-> ids'] ELSE record[m].retry
    BY <1>30 DEF ArmRetry, key, Typed, RowsTyped
  <2>4. transfer[run.tr].state = "expired" /\ transfer[run.tr].gen = run.gen
    BY <2>1 DEF Retried
  <2>5. \A r \in retried : r[1] = run.tr => Past(r)
    BY <2>1, <2>2, NoneIsPast
  <2>6. \A r \in retried : r[1] = run.tr => r[2] # run.gen
    BY <2>2, <2>4, <2>5, CountersAre DEF Past
  <2>7. ids' \notin transfer[run.tr].retries
    BY <2>1, <2>2, CountersAre DEF Numbers, Numbered
  <2>8. [gen |-> run.gen, id |-> ids'] # None
    BY <2>1, CountersAre, StageAssumption
  <2>9. (\A k \in Keys : record[k].retry # None =>
           /\ record[k].tr > 0
           /\ transfer[record[k].tr].gen >= record[k].retry.gen
           /\ record[k].retry.id \in transfer[record[k].tr].retries =>
                transfer[record[k].tr].gen > record[k].retry.gen
           /\ \A r \in retried : r[1] = record[k].tr /\ r[2] = record[k].retry.gen =>
                r[3] = record[k].retry.id)'
    BY <2>1, <2>2, <2>3, <2>4, <2>6, <2>7, CountersAre DEF Retried
  <2>10. (\A r \in retried : Past(r) \/ \E k \in Keys :
           record[k].tr = r[1] /\ record[k].retry = [gen |-> r[2], id |-> r[3]])'
    BY <2>1, <2>2, <2>3, <2>5 DEF Retried, Past
  <2> QED
    BY <2>1, <2>9, <2>10 DEF Retried, OneRetryPerGeneration
<1>31. CASE Retry
  <2>1. /\ record' = record /\ run.pc = "retry" /\ run.key \in Keys
        /\ retried' = retried \cup {<<run.tr, run.retry.gen, run.retry.id>>}
    BY <1>31 DEF Retry, Typed, RunTyped, Staging, Telling
  <2>2. /\ run.tr \in Ids /\ run.retry \in [gen : Nat, id : Nat] /\ run.retry # None
        /\ record[run.key].tr = run.tr /\ record[run.key].retry = run.retry
    BY <1>31, <2>1, RetryAnswers DEF Told, Telling, key
  <2>3. /\ transfer[run.tr].gen >= run.retry.gen
        /\ run.retry.id \in transfer[run.tr].retries => transfer[run.tr].gen > run.retry.gen
        /\ \A r \in retried : r[1] = run.tr /\ r[2] = run.retry.gen => r[3] = run.retry.id
    BY <2>1, <2>2 DEF Retried
  <2>4. \A i \in Ids : /\ transfer'[i].gen >= transfer[i].gen /\ transfer[i].gen \in Nat /\ transfer'[i].gen \in Nat
                       /\ i # run.tr => transfer'[i] = transfer[i]
                       /\ transfer[i].state \in {"done", "refused"} =>
                           transfer'[i].state \in {"done", "refused"} \/ transfer'[i].gen > transfer[i].gen
    BY <1>31, <2>2, RetryAnswers DEF Typed, RowsTyped
  <2>5. run.retry.id \in transfer'[run.tr].retries => transfer'[run.tr].gen > run.retry.gen
    BY <1>31, <2>2, <2>3, <2>4, RetryAnswers DEF Typed, RowsTyped
  <2>6. \A r \in retried : r[1] \in Ids /\ r[2] \in Nat /\ r[3] \in Nat /\ transfer[r[1]].gen >= r[2]
    BY DEF Retried, Typed, RowsTyped
  <2>7. \A r \in retried : Past(r) => Past(r)'
    <3> SUFFICES ASSUME NEW r \in retried, Past(r)
                 PROVE  Past(r)'
      OBVIOUS
    <3>1. /\ r[1] \in Ids /\ r[2] \in Nat /\ transfer[r[1]].gen \in Nat /\ transfer[r[1]].gen >= r[2]
          /\ transfer'[r[1]].gen \in Nat /\ transfer'[r[1]].gen >= transfer[r[1]].gen
          /\ transfer[r[1]].state \in {"done", "refused"} =>
               transfer'[r[1]].state \in {"done", "refused"} \/ transfer'[r[1]].gen > transfer[r[1]].gen
      BY <2>4, <2>6
    <3>2. transfer[r[1]].gen > r[2] \/ transfer[r[1]].state \in {"done", "refused"}
      BY DEF Past
    <3>3. transfer'[r[1]].gen > r[2] \/ transfer'[r[1]].state \in {"done", "refused"}
      BY <3>1, <3>2
    <3> QED
      BY <3>3 DEF Past
  <2>8. \A m \in Keys : m # run.key => record[m].tr # run.tr
    <3>1. run.tr > 0
      BY <2>1 DEF Told, Telling
    <3>2. \A k, l \in Keys : record[k].tr = record[l].tr => k = l \/ record[k].tr = 0
      BY DEF Told
    <3> QED
      BY <2>1, <2>2, <3>1, <3>2
  <2>9. (\A k \in Keys : record[k].retry # None =>
           /\ record[k].tr > 0
           /\ transfer[record[k].tr].gen >= record[k].retry.gen
           /\ record[k].retry.id \in transfer[record[k].tr].retries =>
                transfer[record[k].tr].gen > record[k].retry.gen
           /\ \A r \in retried : r[1] = record[k].tr /\ r[2] = record[k].retry.gen =>
                r[3] = record[k].retry.id)'
    <3> SUFFICES ASSUME NEW k \in Keys, record[k].retry # None
                 PROVE  /\ record[k].tr > 0
                        /\ transfer'[record[k].tr].gen >= record[k].retry.gen
                        /\ record[k].retry.id \in transfer'[record[k].tr].retries =>
                             transfer'[record[k].tr].gen > record[k].retry.gen
                        /\ \A r \in retried' : r[1] = record[k].tr /\ r[2] = record[k].retry.gen =>
                             r[3] = record[k].retry.id
      BY <2>1
    <3>1. CASE k = run.key
      BY <2>1, <2>2, <2>3, <2>4, <2>5, <3>1, StageAssumption DEF Ids
    <3>2. CASE k # run.key
      <4>1. record[k].tr \in Ids
        <5>1. record[k].tr \in Nat /\ record[k].tr <= ids /\ record[k].tr > 0
          BY DEF Retried, Numbers, Numbered, Typed, RowsTyped
        <5> QED
          BY <5>1, CountersAre, StageAssumption DEF Ids, Numbers, Counted
      <4>2. transfer'[record[k].tr] = transfer[record[k].tr]
        BY <2>4, <2>8, <3>2, <4>1
      <4> QED
        BY <2>1, <2>8, <3>2, <4>2 DEF Retried
    <3> QED
      BY <3>1, <3>2
  <2>10. (\A r \in retried : Past(r) \/ \E k \in Keys :
           record[k].tr = r[1] /\ record[k].retry = [gen |-> r[2], id |-> r[3]])'
    <3>1. \E k \in Keys : record[k].tr = run.tr /\ record[k].retry = [gen |-> run.retry.gen, id |-> run.retry.id]
      BY <2>1, <2>2
    <3> QED
      BY <2>1, <2>7, <3>1 DEF Retried
  <2>11. (run.pc = "result" => \A r \in retried : r[1] = run.tr => Past(r))'
    <3>1. run'.pc = "result" => run'.tr = run.tr
      BY <1>31, AnswerKeeps, EndFields
    <3>2. \A r \in retried' : r[1] = run.tr => r[2] \in Nat /\ transfer[run.tr].gen >= r[2]
      BY <2>1, <2>2, <2>3, <2>6
    <3>3. CASE End
      BY <3>3, EndFields
    <3>4. CASE transfer[run.tr].state \in {"done", "refused"} /\ transfer' = transfer
      BY <3>1, <3>4 DEF Past
    <3>5. CASE transfer' = [transfer EXCEPT ![run.tr] = [state |-> "open", gen |-> transfer[run.tr].gen + 1,
                               retries |-> transfer[run.tr].retries \cup {run.retry.id}]]
      <4>1. transfer'[run.tr].gen = transfer[run.tr].gen + 1
        BY <2>2, <3>5 DEF Typed, RowsTyped
      <4> QED
        BY <2>2, <2>4, <3>1, <3>2, <4>1 DEF Past
    <3>6. CASE run.retry.id \in transfer[run.tr].retries /\ transfer' = transfer
      <4>1. transfer[run.tr].gen > run.retry.gen
        BY <2>3, <3>6
      <4>2. \A r \in retried : r[1] = run.tr => Past(r)
        <5> SUFFICES ASSUME NEW r \in retried, r[1] = run.tr, ~Past(r)
                     PROVE  FALSE
          OBVIOUS
        <5>1. PICK k \in Keys : record[k].tr = run.tr /\ record[k].retry = [gen |-> r[2], id |-> r[3]]
          BY DEF Retried
        <5>2. run.retry.gen = r[2]
          BY <2>2, <2>8, <5>1
        <5> QED
          BY <2>2, <2>4, <4>1, <5>2 DEF Past
      <4> QED
        BY <2>1, <3>1, <3>6, <4>1, <4>2 DEF Past
    <3> QED
      BY <1>31, <3>3, <3>4, <3>5, <3>6, RetryAnswers
  <2>12. (\A r \in retried : r[1] \in Ids /\ transfer[r[1]].gen >= r[2])'
    BY <2>1, <2>2, <2>3, <2>4, <2>6
  <2>13. OneRetryPerGeneration'
    <3>1. retried \subseteq Nat \X Nat \X Nat /\ run.tr \in Nat
      BY CountersAre DEF Typed, RowsTyped
    <3>2. \A a, b \in retried : a[1] = b[1] /\ a[2] = b[2] => a = b
      BY DEF Retried, OneRetryPerGeneration
    <3>3. \A a \in retried : a[1] = run.tr /\ a[2] = run.retry.gen => a = <<run.tr, run.retry.gen, run.retry.id>>
      BY <2>2, <2>3, <3>1
    <3>4. \A a, b \in retried \cup {<<run.tr, run.retry.gen, run.retry.id>>} :
            a[1] = b[1] /\ a[2] = b[2] => a = b
      BY <3>2, <3>3
    <3> QED
      BY <2>1, <3>4 DEF OneRetryPerGeneration
  <2>14. run'.pc # "arm"
    BY <1>31, Onwards
  <2> QED
    BY <2>9, <2>10, <2>11, <2>12, <2>13, <2>14 DEF Retried
<1>32. CASE UNCHANGED vars
  BY <1>32 DEF vars, Retried, Past, OneRetryPerGeneration
<1> QED
  BY <1>1, <1>2, <1>3, <1>4, <1>5, <1>6, <1>7, <1>8, <1>9, <1>10, <1>11, <1>12, <1>13, <1>14, <1>15,
     <1>16, <1>17, <1>18, <1>19, <1>20, <1>21, <1>22, <1>23, <1>24, <1>25, <1>26, <1>27, <1>28,
        <1>29, <1>30, <1>31, <1>32 DEF Next, Sweep, Authorise, StageFile

-----------------------------------------------------------------------------
(* What is stored, and who is logged in                                    *)

LEMMA DoneFrame ==
  ASSUME Done, transfer' = transfer, run'.pc \notin {"result", "release"}
  PROVE  Done'
BY DEF Done

LEMMA DoneStep ==
  ASSUME Typed, Numbers, Told, Done, [Next]_vars
  PROVE  Done'
<1>1. ASSUME NEW kind \in Kinds, NEW k \in Keys \cup {None}, NEW l \in logins \cup {NoLogin},
             StartHelper(kind, k, l)
      PROVE  Done'
  <2>1. /\ transfer' = transfer /\ run'.pc = "startup"
    BY <1>1, StartFields DEF StartHelper, authority
  <2> QED
    BY <2>1, DoneFrame
<1>2. CASE ListRoots
  BY <1>2, Onwards, DoneFrame DEF ListRoots, authority
<1>3. CASE BeginLogin
  BY <1>3, Onwards, DoneFrame DEF BeginLogin, authority
<1>4. CASE CommitLogin
  BY <1>4, Onwards, DoneFrame DEF CommitLogin, authority
<1>5. CASE Fence
  BY <1>5, Onwards, DoneFrame DEF Fence, authority
<1>6. CASE DeleteCredential
  BY <1>6, Onwards, DoneFrame DEF DeleteCredential, authority
<1>7. CASE Stop
  BY <1>7, Onwards, DoneFrame DEF Stop, authority
<1>8. CASE Uncharge
  BY <1>8, Onwards, DoneFrame DEF Uncharge, authority
<1>9. CASE ReleaseFile
  BY <1>9, Onwards, DoneFrame DEF ReleaseFile, authority
<1>10. CASE PutReleased
  BY <1>10, Onwards, DoneFrame DEF PutReleased, authority
<1>11. CASE Serve
  BY <1>11, Onwards, DoneFrame DEF Serve, authority
<1>12. CASE Authenticate
  BY <1>12, Onwards, DoneFrame DEF Authenticate, authority
<1>13. CASE Lookup
  BY <1>13, Onwards, DoneFrame DEF Lookup, authority
<1>14. CASE KnownSnapshot
  BY <1>14, Onwards, DoneFrame DEF KnownSnapshot, authority
<1>15. CASE ReserveSnapshot
  BY <1>15, Onwards, DoneFrame DEF ReserveSnapshot, authority
<1>16. CASE PutPreparing
  BY <1>16, Onwards, DoneFrame DEF PutPreparing, authority
<1>17. CASE CopySource
  BY <1>17, Onwards, DoneFrame DEF CopySource, authority
<1>18. CASE PutCopied
  BY <1>18, Onwards, DoneFrame DEF PutCopied, authority
<1>19. CASE CheckSnapshot
  BY <1>19, Onwards, DoneFrame DEF CheckSnapshot, authority
<1>20. CASE PersistRequest
  BY <1>20, Onwards, DoneFrame DEF PersistRequest, authority
<1>21. CASE ArmRetry
  BY <1>21, Onwards, DoneFrame DEF ArmRetry, authority
<1>22. ASSUME NEW k \in Keys, SweepFile(k)
      PROVE  Done'
  BY <1>22, SweepFields, DoneFrame DEF SweepFile, authority
<1>23. ASSUME NEW k \in Keys, SweepRow(k)
      PROVE  Done'
  BY <1>23, GotoFields, PlacesAre, DoneFrame DEF SweepRow, authority
<1>24. ASSUME NEW i \in Ids, SweepOrphan(i)
      PROVE  Done'
  BY <1>24, OrphanFields, DoneFrame DEF SweepOrphan, authority
<1>25. CASE SweepCharge
  <2>1. run'.pc = "startup"
    BY <1>25 DEF SweepCharge, Typed, RunTyped, Calls
  <2> QED
    BY <1>25, <2>1, DoneFrame DEF SweepCharge, authority
<1>26. ASSUME NEW k \in Keys, Age(k)
      PROVE  Done'
  BY <1>26 DEF Age, Done, authority
<1>27. ASSUME NEW i \in Ids, Expire(i)
      PROVE  Done'
  BY <1>27 DEF Expire, Done, Typed, RowsTyped
<1>28. CASE PersistResult
  <2>1. /\ run.pc = "result" /\ transfer' = transfer
        /\ \/ run'.pc \in {"idle", "put"}
           \/ run.answer = "done" /\ run'.pc = "release" /\ run'.tr = run.tr
    BY <1>28, GotoFields, EndFields, PlacesAre DEF PersistResult, authority
  <2> QED
    BY <2>1 DEF Done
<1>29. CASE Ensure
  <2>1. run.tr \in Ids
    BY <1>29, OneOfIds DEF Ensure, Told, Telling
  <2>2. PICK s \in TransferStates, g \in Nat :
           /\ transfer' = [transfer EXCEPT ![run.tr] = Row(s, g)]
           /\ Answered(s, g, IF run.known /\ s = "expired" THEN "arm" ELSE "result")
    BY <1>29, EnsureAnswers
  <2>3. transfer'[run.tr].state = s
    BY <2>1, <2>2 DEF Row, Typed, RowsTyped
  <2>4. \/ run'.pc \in {"idle", "arm"}
        \/ run'.pc = "result" /\ run'.answer = s /\ run'.tr = run.tr
    BY <2>2, AnsweredFields, EndFields, PlacesAre
  <2> QED
    BY <2>3, <2>4 DEF Done
<1>30. CASE Retry
  <2>1. /\ run.tr \in Ids
        /\ transfer[run.tr].state \in TransferStates /\ transfer[run.tr].gen \in Nat
    BY <1>30, RetryAnswers DEF Typed, RowsTyped
  <2>2. \/ End
        \/ transfer' = transfer /\ Answered(transfer[run.tr].state, transfer[run.tr].gen, "result")
        \/ Answered("open", transfer[run.tr].gen + 1, "result")
    BY <1>30, RetryAnswers
  <2>3. \/ run'.pc = "idle"
        \/ transfer' = transfer /\ run'.pc = "result" /\ run'.answer = transfer[run.tr].state /\ run'.tr = run.tr
        \/ run'.pc = "result" /\ run'.answer = "open"
    BY <2>1, <2>2, AnsweredFields, EndFields, PlacesAre
  <2> QED
    BY <2>3 DEF Done
<1>31. CASE Upload
  <2>1. run.tr \in Ids
    BY <1>31, OneOfIds DEF Upload, Told, Telling
  <2>2. \/ run'.pc = "idle"
        \/ run'.pc = "result" /\ run'.tr = run.tr /\ transfer' = [transfer EXCEPT ![run.tr].state = "done"]
    BY <1>31, AnswerKeeps, Onwards, EndFields DEF Upload, End, Idle
  <2> QED
    BY <2>1, <2>2 DEF Done, Typed, RowsTyped
<1>32. CASE UNCHANGED vars
  BY <1>32 DEF vars, Done
<1> QED
  BY <1>1, <1>2, <1>3, <1>4, <1>5, <1>6, <1>7, <1>8, <1>9, <1>10, <1>11, <1>12, <1>13, <1>14, <1>15,
     <1>16, <1>17, <1>18, <1>19, <1>20, <1>21, <1>22, <1>23, <1>24, <1>25, <1>26, <1>27, <1>28,
        <1>29, <1>30, <1>31, <1>32 DEF Next, Sweep, Authorise, StageFile

\* A step that is not about logins, by a call that goes on as it was or ends.
LEMMA LoggedInFrame ==
  ASSUME LoggedIn, UNCHANGED auth,
         \/ run'.login = NoLogin /\ run'.pc \notin Staging \ {"stage"}
         \/ run'.login = run.login /\ (run'.pc \in Staging \ {"stage"} => run.pc \in Staging \ {"stage"})
  PROVE  LoggedIn'
BY DEF LoggedIn, auth, NoLogin

LEMMA LoggedInStep ==
  ASSUME Typed, Numbers, Told, LoggedIn, [Next]_vars
  PROVE  LoggedIn'
<1>1. ASSUME NEW kind \in Kinds, NEW k \in Keys \cup {None}, NEW l \in logins \cup {NoLogin},
             StartHelper(kind, k, l)
      PROVE  LoggedIn'
  <2>1. run'.pc = "startup" /\ run'.login = l
    BY <1>1, StartFields
  <2>2. UNCHANGED auth
    BY <1>1 DEF StartHelper
  <2> QED
    BY <1>1, <2>1, <2>2 DEF LoggedIn, auth, NoLogin, Staging, Naming, Telling
<1>2. CASE ListRoots
  BY <1>2, Onwards, GotoFields, EndFields, PlacesAre, LoggedInFrame DEF ListRoots, Starting, Staging,
     Naming, Telling
<1>3. CASE Stop
  BY <1>3, Onwards, GotoFields, EndFields, PlacesAre, LoggedInFrame DEF Stop, Starting, Staging,
     Naming, Telling
<1>4. CASE Uncharge
  BY <1>4, Onwards, GotoFields, EndFields, PlacesAre, LoggedInFrame DEF Uncharge, Starting, Staging,
     Naming, Telling
<1>5. CASE ReleaseFile
  BY <1>5, Onwards, GotoFields, EndFields, PlacesAre, LoggedInFrame DEF ReleaseFile, Starting,
     Staging, Naming, Telling
<1>6. CASE PutReleased
  BY <1>6, Onwards, GotoFields, EndFields, PlacesAre, LoggedInFrame DEF PutReleased, Starting,
     Staging, Naming, Telling
<1>7. ASSUME NEW k \in Keys, SweepRow(k)
      PROVE  LoggedIn'
  BY <1>7, Onwards, GotoFields, EndFields, PlacesAre, LoggedInFrame DEF SweepRow, Starting, Staging,
     Naming, Telling
<1>8. CASE KnownSnapshot
  BY <1>8, Onwards, GotoFields, EndFields, PlacesAre, LoggedInFrame DEF KnownSnapshot, Starting,
     Staging, Naming, Telling
<1>9. CASE ReserveSnapshot
  BY <1>9, Onwards, GotoFields, EndFields, PlacesAre, LoggedInFrame DEF ReserveSnapshot, Starting,
     Staging, Naming, Telling
<1>10. CASE PutPreparing
  BY <1>10, Onwards, GotoFields, EndFields, PlacesAre, LoggedInFrame DEF PutPreparing, Starting,
     Staging, Naming, Telling
<1>11. CASE CopySource
  BY <1>11, Onwards, GotoFields, EndFields, PlacesAre, LoggedInFrame DEF CopySource, Starting,
     Staging, Naming, Telling
<1>12. CASE PutCopied
  BY <1>12, Onwards, GotoFields, EndFields, PlacesAre, LoggedInFrame DEF PutCopied, Starting,
     Staging, Naming, Telling
<1>13. CASE CheckSnapshot
  BY <1>13, Onwards, GotoFields, EndFields, PlacesAre, LoggedInFrame DEF CheckSnapshot, Starting,
     Staging, Naming, Telling
<1>14. CASE PersistRequest
  BY <1>14, Onwards, GotoFields, EndFields, PlacesAre, LoggedInFrame DEF PersistRequest, Starting,
     Staging, Naming, Telling
<1>15. CASE PersistResult
  BY <1>15, Onwards, GotoFields, EndFields, PlacesAre, LoggedInFrame DEF PersistResult, Starting,
     Staging, Naming, Telling
<1>16. CASE Ensure \/ Retry \/ Upload
  <2>1. UNCHANGED auth /\ run.pc \in Staging \ {"stage"}
    BY <1>16 DEF Ensure, Retry, Upload, Staging, Telling
  <2>2. End \/ run'.login = run.login
    BY <1>16, AnswerKeeps
  <2> QED
    BY <2>1, <2>2, EndFields, LoggedInFrame DEF Staging, Naming, Telling
<1>17. CASE ArmRetry
  BY <1>17, ArmFields, LoggedInFrame DEF ArmRetry, Staging, Telling
<1>18. CASE Lookup
  BY <1>18, LookupFields, EndFields, LoggedInFrame DEF Lookup, Staging, Naming, Telling
<1>19. ASSUME NEW k \in Keys, SweepFile(k)
      PROVE  LoggedIn'
  BY <1>19, SweepFields, LoggedInFrame DEF SweepFile, Staging, Naming, Telling
<1>20. ASSUME NEW i \in Ids, SweepOrphan(i)
      PROVE  LoggedIn'
  BY <1>20, OrphanFields, LoggedInFrame DEF SweepOrphan, Staging, Naming, Telling
<1>21. CASE SweepCharge
  <2>1. run'.pc = "startup" /\ run'.login = run.login
    BY <1>21 DEF SweepCharge, Typed, RunTyped, Calls
  <2> QED
    BY <1>21, <2>1, LoggedInFrame DEF SweepCharge, Staging, Naming, Telling
<1>22. CASE Serve
  <2>1. UNCHANGED auth /\ run'.login = run.login /\ run'.pc \in {"stage", "login", "commit", "logout", "other"}
    BY <1>22, Onwards DEF Serve, Goto, Typed, RunTyped, Calls
  <2> QED
    BY <2>1, LoggedInFrame DEF Staging, Naming, Telling
<1>23. ASSUME NEW k \in Keys, Age(k)
      PROVE  LoggedIn'
  BY <1>23, LoggedInFrame DEF Age
<1>24. ASSUME NEW i \in Ids, Expire(i)
      PROVE  LoggedIn'
  BY <1>24, LoggedInFrame DEF Expire
<1>25. CASE BeginLogin
  BY <1>25, EndFields DEF BeginLogin, LoggedIn, NoLogin, Staging, Naming, Telling
<1>26. CASE CommitLogin
  BY <1>26, EndFields DEF CommitLogin, LoggedIn, NoLogin, Staging, Naming, Telling
<1>27. CASE DeleteCredential
  BY <1>27, EndFields DEF DeleteCredential, LoggedIn, NoLogin, Staging, Naming, Telling
<1>28. CASE Fence
  BY <1>28, GotoFields, PlacesAre DEF Fence, LoggedIn, Staging, Naming, Telling
<1>29. CASE Authenticate
  <2>1. UNCHANGED auth
    BY <1>29 DEF Authenticate
  <2>2. \/ run'.pc = "idle" /\ run'.login = NoLogin
        \/ stored.epoch = epoch /\ run'.login = stored
    BY <1>29, AuthenticateFields, EndFields DEF Readable
  <2> QED
    BY <2>1, <2>2 DEF LoggedIn, auth, NoLogin, Staging, Naming, Telling
<1>30. CASE UNCHANGED vars
  BY <1>30 DEF vars, LoggedIn, auth
<1> QED
  BY <1>1, <1>2, <1>3, <1>4, <1>5, <1>6, <1>7, <1>8, <1>9, <1>10, <1>11, <1>12, <1>13, <1>14, <1>15,
     <1>16, <1>17, <1>18, <1>19, <1>20, <1>21, <1>22, <1>23, <1>24, <1>25, <1>26, <1>27, <1>28,
        <1>29, <1>30 DEF Next, Sweep, Authorise, StageFile

-----------------------------------------------------------------------------
(* The theorems                                                            *)

Inv == Typed /\ Numbers /\ Spool /\ Swept /\ Told /\ Retried /\ Done /\ LoggedIn

LEMMA InvInit == Init => Inv
BY TypedInit, NumbersInit, SpoolInit, ToldInit, RetriedInit
   DEF Inv, Init, Done, LoggedIn, Idle, NoLogin, Staging, Naming, Telling

LEMMA InvStep == Inv /\ [Next]_vars => Inv'
BY TypedStep, NumbersStep, SpoolStep, SweptStep, ToldStep, RetriedStep, DoneStep, LoggedInStep DEF Inv

\* What every reachable state of the companion keeps: the types, and what each of its parts
\* knows of the others.
THEOREM StageInvariant == Spec => []Inv
<1>1. Inv /\ UNCHANGED vars => Inv'
  BY InvStep
<1> QED
  BY InvInit, InvStep, PTL DEF Spec

\* The spool's budget is charged for what is on the disk, and for no longer, whatever step the
\* earlier helpers stopped at.
THEOREM SpoolHolds == Spec => []SpoolIsTrue
<1>1. Inv => SnapshotIsCharged
  BY DEF Inv, Spool, SnapshotIsCharged
<1>2. Inv => StartupReclaims
  <2> SUFFICES ASSUME Inv, run.pc = "startup", run.todo = {}, Orphans = {}, NEW i \in charged \cup copies
               PROVE  \E k \in Keys : snapshot[k].tr = i /\ ~snapshot[k].old
    BY DEF StartupReclaims
  <2>1. i \in charged
    BY DEF Inv, Spool
  <2>2. PICK k \in Keys : snapshot[k].tr = i
    BY <2>1 DEF Orphans
  <2> QED
    BY <2>1, <2>2 DEF Inv, Swept, Starting
<1> QED
  BY <1>1, <1>2, StageInvariant, PTL DEF SpoolIsTrue

\* A request names one transfer to the authority, and a generation that expired is retried
\* under one id, however often a stopped helper or a lost answer makes them be repeated.
THEOREM IdsAreKept == Spec => []OneIdEach
<1>1. Inv => OneTransferPerRequest
  <2> SUFFICES ASSUME Inv, NEW a \in sent, NEW b \in sent, a[1] = b[1]
               PROVE  a = b
    BY DEF OneTransferPerRequest
  <2>1. a \in Keys \X Nat /\ b \in Keys \X Nat
    BY DEF Inv, Typed, RowsTyped
  <2>2. a[2] = b[2]
    BY DEF Inv, Told
  <2> QED
    BY <2>1, <2>2
<1>2. Inv => OneRetryPerGeneration
  BY DEF Inv, Retried
<1> QED
  BY <1>1, <1>2, StageInvariant, PTL DEF OneIdEach

\* A call goes on only with the credential of a login begun after the last logout.
THEOREM LogoutIsFinal == Spec => []LogoutHolds
<1>1. Inv => LogoutHolds
  BY DEF Inv, LoggedIn, LogoutHolds, Staging, Naming, Telling
<1> QED
  BY <1>1, StageInvariant, PTL

\* A snapshot is given up only when the authority has its bytes, or when it is too old.
THEOREM StoredBeforeReleased == Spec => ReleasedIsStored
<1> DEFINE GivenUp(k) == snapshot[k].state = "ready" /\ snapshot[k].tr \in copies /\ snapshot[k].tr \notin copies'
           Stored(k) == snapshot[k].old \/ transfer[record[k].tr].state = "done"
<1>1. ASSUME Inv, [Next]_vars, NEW k \in Keys, GivenUp(k)
      PROVE  Stored(k)
  <2>1. \/ \E m \in Keys : SweepFile(m)
        \/ \E i \in Ids : SweepOrphan(i)
        \/ ReleaseFile
    <3>1. copies' # copies
      BY <1>1
    <3>2. ASSUME NEW m \in Keys, SweepRow(m) \/ Age(m)
          PROVE  copies' = copies
      BY <3>2 DEF SweepRow, Age
    <3>3. ASSUME NEW i \in Ids, Expire(i)
          PROVE  copies' = copies
      BY <3>3 DEF Expire, spool
    <3>4. ASSUME NEW kind \in Kinds, NEW m \in Keys \cup {None}, NEW l \in logins \cup {NoLogin},
                 StartHelper(kind, m, l)
          PROVE  copies' = copies
      BY <3>4 DEF StartHelper, spool
    <3>5. SweepCharge \/ Serve \/ ListRoots \/ Authorise \/ Stop \/ UNCHANGED vars => copies' = copies
      BY DEF SweepCharge, Serve, ListRoots, Authorise, BeginLogin, CommitLogin, Fence, DeleteCredential,
         Authenticate, Stop, vars, spool
    <3>6. StageFile => ReleaseFile \/ copies' = copies \/ copies' = copies \cup {run.tr}
      BY DEF StageFile, Lookup, KnownSnapshot, ReserveSnapshot, PutPreparing, CopySource, PutCopied,
         Uncharge, PersistRequest, CheckSnapshot, Ensure, ArmRetry, Retry, PersistResult, Upload,
         PutReleased, spool
    <3>7. copies' # copies \cup {run.tr}
      BY <1>1
    <3> QED
      BY <1>1, <3>1, <3>2, <3>3, <3>4, <3>5, <3>6, <3>7 DEF Next, Sweep
  <2>2. snapshot[k].tr > 0 /\ \A m \in Keys : snapshot[m].tr = snapshot[k].tr => m = k
    <3>1. snapshot[k].tr \in 1..ids
      BY <1>1 DEF Inv, Spool, Numbers, Numbered
    <3> QED
      BY <1>1, <3>1, CountersAre DEF Inv, Spool
  <2>3. ASSUME NEW m \in Keys, SweepFile(m)
        PROVE  snapshot[k].old
    <3>1. Abandoned(snapshot[m]) /\ snapshot[m].tr = snapshot[k].tr
      BY <1>1, <2>3 DEF SweepFile
    <3> QED
      BY <1>1, <2>2, <3>1 DEF Abandoned
  <2>4. ASSUME NEW i \in Ids, SweepOrphan(i)
        PROVE  FALSE
    BY <1>1, <2>4 DEF SweepOrphan, Orphans
  <2>5. CASE ReleaseFile
    <3>1. run.pc = "release" /\ run.key \in Keys /\ snapshot[run.key].tr = snapshot[k].tr
      BY <1>1, <2>5 DEF ReleaseFile, mine, key, Inv, Typed, RunTyped, Staging, Telling
    <3>2. k = run.key
      BY <2>2, <3>1
    <3>3. record[run.key].tr = run.tr /\ transfer[run.tr].state = "done"
      BY <1>1, <3>1 DEF Inv, Told, Telling, Done, key
    <3> QED
      BY <3>2, <3>3
  <2> QED
    BY <2>1, <2>3, <2>4, <2>5
<1>2. Inv /\ [Next]_vars =>
        [\A k \in Keys : (snapshot[k].state = "ready" /\ snapshot[k].tr \in copies /\ snapshot[k].tr \notin copies')
           => \/ snapshot[k].old
              \/ transfer[record[k].tr].state = "done"]_vars
  BY <1>1
<1> QED
  BY <1>2, StageInvariant, PTL DEF Spec, ReleasedIsStored
=============================================================================
