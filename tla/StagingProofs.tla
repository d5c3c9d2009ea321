---------------------------- MODULE StagingProofs ----------------------------
(***************************************************************************)
(* What Staging keeps, for every set of handles, streams and               *)
(* acknowledgements, every quota and every lease: the inductive invariant, *)
(* and the theorems it gives.                                              *)
(*                                                                         *)
(* A file is followed from the slot of its ingest to its removal by what   *)
(* its writer has done (WriterBy) and what its rows then say of the bucket *)
(* (FileBy).  The cron decides on what it has selected earlier: CronBy     *)
(* says what of that cannot have changed since.                            *)
(***************************************************************************)
EXTENDS Staging, FiniteSetTheorems, WellFoundedInduction, TLAPS

-----------------------------------------------------------------------------
(* The inductive invariant.                                                 *)

Before == {"idle", "slot", "account"}
Busy == {"reserved", "putting", "commit"}
Catching == {"caught", "marking", "erasing", "settling"}

\* Charged to an ingest whose writer is not known to have stopped.
Owed(h) == ingest[h].state \in {"active", "debt"} /\ ~ingest[h].stopped
\* Nothing is in R2, and nothing will come there.
Absent(h) == h \notin bucket /\ h \notin flying

\* What the writer of a file has done, by where it is.
WriterBy(h) ==
  LET w == writer[h] IN
  /\ w.at \in Before => ingest[h].state = "none" /\ Absent(h)
  /\ w.at \in Before \cup {"reserved"} => ~w.started /\ ~w.returned
  /\ w.at \in Busy => Owed(h)
  /\ w.at \in {"caught", "marking"} => Owed(h) \/ ingest[h].state \in {"none", "published"}
  /\ w.at \in {"erasing", "settling"} => ingest[h].state # "active"
  /\ w.at \in Before \cup Busy \cup Catching /\ ~w.started => Absent(h)
  /\ w.at = "putting" /\ ingest[h].state = "active" => ~Absent(h)
  /\ w.at = "commit" => w.returned /\ (ingest[h].state = "active" => h \in bucket)
  /\ w.at = "erasing" => w.returned
  /\ w.at = "settling" => Absent(h)
  /\ w.returned => h \notin flying

\* What the rows of a file say of the bucket.
FileBy(h) ==
  LET o == object[h] IN
  /\ o.state = "none" => o = NoObject
  /\ o.state # "none" => ingest[h].state = "published" /\ writer[h].at \in {"caught", "leaving", "done"}
  /\ o.state = "available" => h \in bucket
  /\ o.state = "deleting" => o.lease <= clock
  /\ o.reserved => o.state = "available"
  /\ ingest[h].state = "published" => ingest[h].stopped
  /\ ingest[h].state = "active" => ~ingest[h].stopped
  /\ ingest[h].stopped => h \notin flying
  /\ o.state # "none" \/ ingest[h].state \in {"active", "debt"} \/ Absent(h)

Files == \A h \in Handles : WriterBy(h) /\ FileBy(h)

\* A stream's lease is covered by its object's for as long as that exists.
StreamBy(s) ==
  LET h == stream[s].h IN
  /\ stream[s].at = "read" => lease[s] = 0
  /\ lease[s] > 0 => writer[h].at \notin Before \cup Busy
  /\ IF object[h].state = "none" THEN lease[s] <= clock ELSE lease[s] <= object[h].lease

Leased == \A s \in Streams : StreamBy(s)

\* What the cron has selected and is at work on.
CronBy ==
  /\ cron.now <= clock
  /\ cron.at \in {"debts", "owing"} => cron.on = {}
  /\ cron.at = "settling" =>
       /\ \A h \in cron.todo : /\ ingest[h].state \in {"debt", "released"}
                               /\ h \in cron.sure => ingest[h].stopped
       /\ \A h \in cron.on : h \in cron.todo \cap cron.sure /\ h \notin bucket
  /\ cron.at \in {"erasing", "dropping"} => \A h \in cron.on : object[h].state = "deleting"
  /\ cron.at = "erasing" => \A g, h \in cron.on : g = h
  /\ cron.at = "dropping" => \A h \in cron.on : h \notin bucket

\* An acknowledgement answered as new is on record, or its retention is over.
Recorded == \A h \in Handles : fresh[h] <= ack[h] \/ fresh[h] <= clock

\* Files that exist and files still to be, as byteQuota counts them.
Stored == {h \in Handles : object[h].state # "none"}
Owing == {h \in Handles : ingest[h].state \in {"active", "debt"}}
Slotted == {h \in Handles : slot[h].bytes = 1}

Quota ==
  /\ IsFiniteSet(Stored) /\ IsFiniteSet(Owing) /\ IsFiniteSet(Slotted)
  /\ Cardinality(Stored) + Cardinality(Owing) <= Bytes

StagingInv == TypeOK /\ Files /\ Leased /\ CronBy /\ Recorded /\ Quota

-----------------------------------------------------------------------------
(* Types.                                                                   *)

Writers == [at : WriterSteps, started : BOOLEAN, returned : BOOLEAN]
Slots == [until : Nat, bytes : 0..1]
Ingests == [state : IngestStates, stopped : BOOLEAN, until : Nat]
Objects == [state : ObjectStates, created : Nat, expires : Nat, consumed : BOOLEAN,
            reserved : BOOLEAN, linked : BOOLEAN, lease : Nat]
StreamRows == [at : StreamSteps, h : Handles, now : Nat]
AckRows == [at : AckSteps, h : Handles, now : Nat]
Passes == [at : CronSteps, now : Nat, todo : SUBSET Handles, sure : SUBSET Handles, on : SUBSET Handles]
Budgets == [units : 0..2, until : Nat]

LEMMA Sizes ==
  /\ Bytes \in Nat /\ Records \in Nat /\ OwnStreams \in Nat /\ Lease \in Nat /\ Ttl \in Nat
  /\ Retain \in Nat /\ Horizon \in Nat
BY StagingAssumption

Types ==
  /\ clock \in 0..Horizon /\ asked \in Workloads /\ account \in BOOLEAN
  /\ writer \in [Handles -> Writers] /\ slot \in [Handles -> Slots]
  /\ ingest \in [Handles -> Ingests] /\ bucket \subseteq Handles /\ flying \subseteq Handles
  /\ object \in [Handles -> Objects] /\ stream \in [Streams -> StreamRows]
  /\ lease \in [Streams -> Nat] /\ admission \in [Handles -> Nat]
  /\ budget \in [Handles -> Budgets]
  /\ ack \in [Handles -> Nat] /\ fresh \in [Handles -> Nat]
  /\ acker \in [Ackers -> AckRows] /\ cron \in Passes

LEMMA TypesAre == (TypeOK <=> Types) /\ (TypeOK' <=> Types')
BY DEF TypeOK, Types, Writers, Slots, Ingests, Objects, StreamRows, AckRows, Passes, Budgets

LEMMA Blanks ==
  /\ NewWriter \in Writers /\ NoSlot \in Slots /\ NoIngest \in Ingests /\ NoObject \in Objects
  /\ Idle \in StreamRows /\ Idle \in AckRows /\ IdleCron \in Passes
<1>1. (CHOOSE h \in Downloads : TRUE) \in Handles
  BY StagingAssumption DEF Handles
<1> QED
  BY <1>1 DEF NewWriter, Writers, WriterSteps, NoSlot, Slots, NoIngest, Ingests, IngestStates, NoObject,
     Objects, ObjectStates, Idle, StreamRows, StreamSteps, AckRows, AckSteps, IdleCron, Passes, CronSteps

LEMMA TypesInit == Init => TypeOK
<1> SUFFICES ASSUME Init PROVE TypeOK
  OBVIOUS
<1>1. account \in BOOLEAN /\ clock \in 0..Horizon
  BY Sizes DEF Init
<1>2. [units |-> 0, until |-> 0] \in Budgets
  BY DEF Budgets
<1> QED
  BY <1>1, <1>2, Blanks, TypesAre DEF Init, Types

\* One writer goes on, the others stay where they are.
LEMMA StepIs ==
  ASSUME TypeOK, NEW h \in Handles, NEW at \in WriterSteps, Step(h, at)
  PROVE  /\ writer' \in [Handles -> Writers]
         /\ writer'[h].at = at
         /\ writer'[h].started = writer[h].started /\ writer'[h].returned = writer[h].returned
         /\ \A g \in Handles \ {h} : writer'[g] = writer[g]
<1>1. writer \in [Handles -> Writers] /\ writer[h] \in Writers
  BY TypesAre DEF Types
<1>2. [writer[h] EXCEPT !.at = at] \in Writers
  BY <1>1 DEF Writers
<1>3. writer'[h] = [writer[h] EXCEPT !.at = at]
  BY <1>1 DEF Step
<1> QED
  BY <1>1, <1>2, <1>3 DEF Step, Writers

LEMMA WriterTypes ==
  ASSUME TypeOK, NEW h \in Handles, IngestNext(h)
  PROVE  TypeOK'
<1> USE TypesAre DEF Types
<1> clock \in Nat /\ clock + Lease \in Nat /\ clock + Ttl \in Nat
  BY Sizes
<1>1. CASE OpenSlot(h)
  <2>1. \A n \in 0..1 : [until |-> clock + Lease, bytes |-> n] \in Slots
    BY DEF Slots
  <2>2. slot' \in [Handles -> Slots]
    BY <1>1, <2>1 DEF OpenSlot
  <2> QED
    BY <1>1, <2>2, StepIs DEF OpenSlot, WriterSteps, table, r2
<1>2. CASE ReadAccount(h) \/ ReserveFails(h) \/ BodyFails(h) \/ PublishFails(h) \/ Catch(h)
  BY <1>2, StepIs DEF ReadAccount, ReserveFails, BodyFails, PublishFails, Catch, WriterSteps, table, r2
<1>3. CASE Reserve(h)
  <2>1. slot' \in [Handles -> Slots]
    BY <1>3 DEF Reserve, Slots
  <2>2. [state |-> "active", stopped |-> FALSE, until |-> slot[h].until] \in Ingests
    BY DEF Ingests, IngestStates, Slots
  <2>3. ingest' \in [Handles -> Ingests]
    BY <1>3, <2>2 DEF Reserve
  <2> QED
    BY <1>3, <2>1, <2>3, StepIs DEF Reserve, WriterSteps, table, r2
<1>4. CASE StartPut(h)
  BY <1>4 DEF StartPut, Writers, WriterSteps, table, r2
<1>5. CASE PutReturns(h)
  BY <1>5 DEF PutReturns, Writers, WriterSteps, table, r2
<1>6. CASE PutFails(h)
  BY <1>6, StepIs DEF PutFails, WriterSteps, table, r2
<1>7. CASE Publish(h)
  <2>1. [NoObject EXCEPT !.state = "available", !.created = clock, !.expires = clock + Ttl] \in Objects
    BY DEF NoObject, Objects, ObjectStates
  <2>2. object' \in [Handles -> Objects]
    BY <1>7, <2>1 DEF Publish
  <2>3. ingest' \in [Handles -> Ingests]
    BY <1>7 DEF Publish, Ingests, IngestStates
  <2> QED
    BY <1>7, <2>2, <2>3, StepIs DEF Publish, WriterSteps, table, r2
<1>8. CASE MarkDebt(h)
  <2>1. WriterStopped(h) \in BOOLEAN
    BY DEF WriterStopped
  <2>. \A i \in Ingests, b \in BOOLEAN : [i EXCEPT !.state = "debt", !.stopped = b] \in Ingests
    BY DEF Ingests, IngestStates
  <2>2. [ingest[h] EXCEPT !.state = "debt", !.stopped = WriterStopped(h)] \in Ingests
    BY <2>1
  <2>3. [ingest EXCEPT ![h].state = "debt", ![h].stopped = WriterStopped(h)]
          = [ingest EXCEPT ![h] = [ingest[h] EXCEPT !.state = "debt", !.stopped = WriterStopped(h)]]
    OBVIOUS
  <2>4. ingest' \in [Handles -> Ingests]
    BY <1>8, <2>2, <2>3 DEF MarkDebt
  <2>5. writer' \in [Handles -> Writers]
    BY <1>8, StepIs DEF MarkDebt, WriterSteps
  <2> QED
    BY <1>8, <2>4, <2>5 DEF MarkDebt, table, r2
<1>9. CASE EraseOwn(h)
  BY <1>9, StepIs DEF EraseOwn, WriterSteps, table, r2
<1>10. CASE SettleOwn(h)
  <2>1. ingest' \in [Handles -> Ingests]
    BY <1>10 DEF SettleOwn, Ingests, IngestStates
  <2> QED
    BY <1>10, <2>1, StepIs DEF SettleOwn, WriterSteps, table, r2
<1>11. CASE LeaveSlot(h) \/ WriterDies(h)
  <2> [NewWriter EXCEPT !.at = "done"] \in Writers
    BY DEF NewWriter, Writers, WriterSteps
  <2>1. writer' \in [Handles -> Writers]
    BY <1>11 DEF LeaveSlot, WriterDies
  <2>2. slot' \in [Handles -> Slots]
    BY <1>11, Blanks DEF LeaveSlot, WriterDies, table
  <2> QED
    BY <1>11, <2>1, <2>2 DEF LeaveSlot, WriterDies, table, r2
<1> QED
  BY <1>1, <1>2, <1>3, <1>4, <1>5, <1>6, <1>7, <1>8, <1>9, <1>10, <1>11 DEF IngestNext

\* The object's lease after a release is the largest of the rows that are left.  Natural
\* numbers up to n have a largest: the tails x..n of a set of them have a smallest.
LEMMA LargestIs ==
  ASSUME NEW n \in Nat, NEW T \in SUBSET (0..n), T # {}
  PROVE  Max(T) \in T /\ \A y \in T : y <= Max(T)
<1> DEFINE above(x) == x..n
           Tails == {above(x) : x \in T}
           R == StrictSubsetOrdering(0..n)
<1>1. Tails # {}
  OBVIOUS
<1>2. ASSUME NEW x \in T PROVE above(x) \in FiniteSubsetsOf(0..n)
  <2>1. IsFiniteSet(above(x))
    BY FS_Interval
  <2> QED
    BY <2>1 DEF FiniteSubsetsOf
<1>3. Tails \subseteq FiniteSubsetsOf(0..n)
  BY <1>2
<1>4. IsWellFoundedOn(R, FiniteSubsetsOf(0..n))
  BY FS_StrictSubsetOrderingWellFounded
<1>5. \E u \in Tails : \A v \in Tails : ~(<<v, u>> \in R)
  <2> HIDE DEF Tails, R
  <2> QED
    BY <1>1, <1>3, <1>4, WFMin
<1>6. PICK x \in T : \A y \in T : ~(<<above(y), above(x)>> \in R)
  BY <1>5
<1>7. ASSUME NEW y \in T, y > x PROVE FALSE
  <2>1. above(y) \subseteq above(x) /\ x \in above(x) /\ x \notin above(y)
    BY <1>7
  <2>2. above(y) \in SUBSET (0..n) /\ above(x) \in SUBSET (0..n)
    BY <1>7
  <2>3. <<above(y), above(x)>> \in R
    <3> HIDE DEF above
    <3> QED
      BY <2>1, <2>2 DEF StrictSubsetOrdering
  <2> QED
    BY <1>6, <2>3
<1>8. \A y \in T : x >= y
  BY <1>7
<1>9. \E z \in T : \A y \in T : z >= y
  BY <1>8
<1> QED
  BY <1>9 DEF Max

\* Where no row of h exceeds n, the lease computed again covers every row of h and is
\* at most n itself.
LEMMA LeaseLeftIs ==
  ASSUME NEW h \in Handles, NEW rows \in [Streams -> Nat], NEW n \in Nat,
         \A s \in Streams : stream[s].h = h => rows[s] <= n
  PROVE  /\ LeaseLeft(h, rows) \in 0..n
         /\ \A s \in Streams : stream[s].h = h => rows[s] <= LeaseLeft(h, rows)
<1> DEFINE T == {0} \cup {rows[s] : s \in {x \in Streams : rows[x] > 0 /\ stream[x].h = h}}
<1>1. T \in SUBSET (0..n) /\ T # {}
  OBVIOUS
<1>2. 0 \in T /\ \A s \in Streams : stream[s].h = h /\ rows[s] > 0 => rows[s] \in T
  OBVIOUS
<1>3. LeaseLeft(h, rows) = Max(T)
  BY DEF LeaseLeft
<1>4. Max(T) \in T /\ \A y \in T : y <= Max(T)
  <2> HIDE DEF T
  <2> QED
    BY <1>1, LargestIs
<1>5. Max(T) \in 0..n
  BY <1>1, <1>4
<1>6. ASSUME NEW s \in Streams, stream[s].h = h PROVE rows[s] <= Max(T)
  <2>1. CASE rows[s] > 0
    BY <1>2, <1>4, <1>6, <2>1
  <2>2. CASE rows[s] = 0
    BY <1>5, <2>2
  <2> QED
    BY <2>1, <2>2
<1> QED
  BY <1>3, <1>5, <1>6

-----------------------------------------------------------------------------
(* Downloads.                                                               *)

\* One stream goes on, for the same file.
LEMMA StreamGotoIs ==
  ASSUME TypeOK, NEW s \in Streams, NEW at \in StreamSteps, StreamGoto(s, at)
  PROVE  /\ stream' \in [Streams -> StreamRows]
         /\ stream'[s].at = at
         /\ \A x \in Streams : stream'[x].h = stream[x].h
         /\ \A x \in Streams \ {s} : stream'[x] = stream[x]
<1> DEFINE new == [stream[s] EXCEPT !.at = at, !.now = IF at = "read" THEN @ ELSE 0]
<1>1. stream[s] \in StreamRows
  BY TypesAre DEF Types
<1>2. new \in StreamRows /\ new.at = at /\ new.h = stream[s].h
  BY <1>1 DEF StreamRows
<1>3. stream' = [stream EXCEPT ![s] = new]
  BY <1>1 DEF StreamGoto
<1> QED
  BY <1>2, <1>3, TypesAre DEF Types

LEMMA StreamUntilIs ==
  ASSUME TypeOK, NEW h \in Handles, NEW now \in Nat
  PROVE  StreamUntil(h, now) \in Nat
<1>1. object[h].created \in Nat
  BY TypesAre DEF Types, Objects
<1> QED
  BY <1>1, Sizes DEF StreamUntil

LEMMA PayIs ==
  ASSUME TypeOK, NEW h \in Handles, NEW units \in 1..2, NEW until \in Nat, Pay(h, units, until)
  PROVE  budget' \in [Handles -> Budgets]
<1>1. budget[h].units \in 0..2 /\ budget[h].until \in Nat
  BY TypesAre DEF Types, Budgets
<1>2. Later(Held(h), units) \in 0..2 /\ Later(budget[h].until, until) \in Nat
  BY <1>1 DEF Later, Held
<1> QED
  BY <1>2, TypesAre DEF Types, Budgets, Pay

\* What an admission and a release make of a file's lease.
LEMMA AdmitIs ==
  ASSUME TypeOK, NEW s \in Streams, Admit(s)
  PROVE  LET h == stream[s].h IN
         /\ h \in Handles /\ object[h].state = "available"
         /\ \E until \in Nat, l \in Nat :
              /\ l >= until /\ l >= object[h].lease
              /\ lease' = [lease EXCEPT ![s] = until]
              /\ object' = [object EXCEPT ![h].lease = l]
<1> DEFINE h == stream[s].h
           until == StreamUntil(h, stream[s].now)
<1>1. h \in Handles /\ stream[s].now \in Nat
  BY TypesAre DEF Types, StreamRows
<1>2. until \in Nat
  BY <1>1, StreamUntilIs
<1>3. object[h].lease \in Nat
  BY <1>1, TypesAre DEF Types, Objects
<1>4. Later(object[h].lease, until) \in Nat /\ Later(object[h].lease, until) >= until
      /\ Later(object[h].lease, until) >= object[h].lease
  BY <1>2, <1>3 DEF Later
<1>5. object' = [object EXCEPT ![h].lease = Later(object[h].lease, until)]
  BY <1>1, TypesAre DEF Admit, Types, Objects
<1> HIDE DEF until
<1> QED
  BY <1>1, <1>2, <1>4, <1>5 DEF Admit, until

LEMMA ReleaseIs ==
  ASSUME TypeOK, Leased, NEW s \in Streams, Release(s)
  PROVE  LET h == stream[s].h IN
         /\ h \in Handles
         /\ lease' = [lease EXCEPT ![s] = 0]
         /\ IF object[h].state = "none" THEN object' = object
            ELSE \E l \in Nat :
                   /\ l <= object[h].lease
                   /\ object' = [object EXCEPT ![h].lease = l]
                   /\ \A x \in Streams : stream[x].h = h => lease'[x] <= l
<1> DEFINE h == stream[s].h
           rows == [lease EXCEPT ![s] = 0]
           l == LeaseLeft(h, rows)
<1>1. h \in Handles /\ rows \in [Streams -> Nat]
  BY TypesAre DEF Types, StreamRows
<1>2. lease' = rows /\ object' = IF object[h].state = "none" THEN object ELSE [object EXCEPT ![h].lease = l]
  BY DEF Release
<1>3. ASSUME object[h].state # "none"
      PROVE  l \in 0..object[h].lease /\ \A x \in Streams : stream[x].h = h => rows[x] <= l
  <2>1. object[h].lease \in Nat
    BY <1>1, TypesAre DEF Types, Objects
  <2>2. \A x \in Streams : stream[x].h = h => rows[x] <= object[h].lease
    BY <1>3, <2>1, TypesAre DEF Types, Leased, StreamBy
  <2> HIDE DEF rows
  <2> QED
    BY <1>1, <2>1, <2>2, LeaseLeftIs
<1> HIDE DEF l
<1>4. CASE object[h].state = "none"
  BY <1>1, <1>2, <1>4
<1>5. CASE object[h].state # "none"
  <2>1. l \in Nat /\ l <= object[h].lease
    BY <1>1, <1>3, <1>5, TypesAre DEF Types, Objects
  <2> QED
    BY <1>1, <1>2, <1>3, <1>5, <2>1
<1> QED
  BY <1>4, <1>5

LEMMA StreamTypes ==
  ASSUME TypeOK, Leased, NEW s \in Streams, StreamNext(s)
  PROVE  TypeOK'
<1> USE TypesAre DEF Types
<1>1. ASSUME NEW h \in Handles, ReadObject(s, h) PROVE TypeOK'
  <2>1. [at |-> "read", h |-> h, now |-> clock] \in StreamRows
    BY Sizes DEF StreamRows, StreamSteps
  <2>2. stream' \in [Streams -> StreamRows]
    BY <1>1, <2>1 DEF ReadObject
  <2> QED
    BY <1>1, <2>2 DEF ReadObject, table, r2
<1>2. CASE Admit(s)
  <2>1. stream[s].h \in Handles /\ stream[s].now \in Nat /\ stream[s].now + Retain \in Nat
    BY Sizes DEF StreamRows
  <2>2. budget' \in [Handles -> Budgets]
    BY <1>2, <2>1, PayIs DEF Admit, AdmissionUnits
  <2>3. admission' \in [Handles -> Nat]
    <3>1. Later(admission[stream[s].h], stream[s].now + Retain) \in Nat
      BY <2>1 DEF Later
    <3> QED
      BY <1>2, <2>1, <3>1 DEF Admit
  <2>4. PICK until \in Nat, l \in Nat : /\ lease' = [lease EXCEPT ![s] = until]
                                        /\ object' = [object EXCEPT ![stream[s].h].lease = l]
    BY <1>2, AdmitIs
  <2>5. object' \in [Handles -> Objects]
    BY <2>1, <2>4 DEF Objects
  <2>6. stream' \in [Streams -> StreamRows]
    BY <1>2, StreamGotoIs DEF Admit, StreamSteps
  <2>7. lease' \in [Streams -> Nat]
    BY <2>4
  <2>8. UNCHANGED <<clock, asked, account, slot, ingest, ack, r2, writer, acker, cron, fresh>>
    BY <1>2 DEF Admit
  <2> QED
    BY <2>2, <2>3, <2>5, <2>6, <2>7, <2>8 DEF r2
<1>3. CASE Open(s) \/ LeaveStream(s)
  <2>1. stream' \in [Streams -> StreamRows]
    BY <1>3, StreamGotoIs DEF Open, LeaveStream, StreamSteps
  <2> QED
    BY <1>3, <2>1 DEF Open, LeaveStream, table, r2
<1>4. CASE Release(s)
  <2>1. stream' \in [Streams -> StreamRows]
    BY <1>4, StreamGotoIs DEF Release, StreamSteps
  <2>2. lease' \in [Streams -> Nat]
    BY <1>4, ReleaseIs
  <2>3. object' \in [Handles -> Objects]
    <3>1. CASE object[stream[s].h].state = "none"
      BY <1>4, <3>1, ReleaseIs
    <3>2. CASE object[stream[s].h].state # "none"
      <4>1. PICK l \in Nat : object' = [object EXCEPT ![stream[s].h].lease = l]
        BY <1>4, <3>2, ReleaseIs
      <4> QED
        BY <4>1 DEF Objects, StreamRows
    <3> QED
      BY <3>1, <3>2
  <2> QED
    BY <1>4, <2>1, <2>2, <2>3 DEF Release, r2
<1> QED
  BY <1>1, <1>2, <1>3, <1>4 DEF StreamNext

LEMMA AckTypes ==
  ASSUME TypeOK, NEW a \in Ackers, AckNext(a)
  PROVE  TypeOK'
<1> USE TypesAre DEF Types
<1>1. ASSUME NEW h \in Handles, BeginAck(a, h) PROVE TypeOK'
  <2>1. [at |-> "read", h |-> h, now |-> clock] \in AckRows
    BY Sizes DEF AckRows, AckSteps
  <2>2. acker' \in [Ackers -> AckRows]
    BY <1>1, <2>1 DEF BeginAck
  <2> QED
    BY <1>1, <2>2 DEF BeginAck, table, r2
<1>2. ASSUME NEW at \in AckSteps, AckGoto(a, at) PROVE acker' \in [Ackers -> AckRows]
  <2>1. acker[a] \in AckRows
    OBVIOUS
  <2>2. [acker[a] EXCEPT !.at = at] \in AckRows
    BY <2>1 DEF AckRows
  <2> QED
    BY <1>2, <2>2, Blanks DEF AckGoto
<1>3. CASE ReadKnown(a) \/ LeaveAck(a)
  BY <1>2, <1>3 DEF ReadKnown, LeaveAck, AckSteps, table, r2
<1>4. CASE Record(a)
  <2>1. acker[a].h \in Handles /\ acker[a].now \in Nat /\ acker[a].now + Retain \in Nat
    BY Sizes DEF AckRows
  <2>2. budget' \in [Handles -> Budgets]
    BY <1>4, <2>1, PayIs DEF Record
  <2>3. object' \in [Handles -> Objects]
    BY <1>4, <2>1 DEF Record, Objects
  <2>4. ack' \in [Handles -> Nat] /\ fresh' \in [Handles -> Nat]
    BY <1>4, <2>1 DEF Record
  <2> QED
    BY <1>2, <1>4, <2>2, <2>3, <2>4 DEF Record, AckSteps, r2
<1> QED
  BY <1>1, <1>3, <1>4 DEF AckNext

LEMMA OperationTypes ==
  ASSUME TypeOK, NEW h \in Handles, OperationNext(h) \/ Land(h)
  PROVE  TypeOK'
<1> USE TypesAre DEF Types
<1>1. object[h] \in Objects
  OBVIOUS
<1>2. ASSUME NEW o \in Objects, SetObject(h, o) PROVE TypeOK'
  BY <1>2 DEF SetObject, r2, calls
<1>3. CASE ExtendExpiry(h)
  <2>1. Later(object[h].expires, clock + Ttl) \in Nat
    BY <1>1, Sizes DEF Objects, Later
  <2>2. [object[h] EXCEPT !.expires = Later(object[h].expires, clock + Ttl)] \in Objects
    BY <1>1, <2>1 DEF Objects
  <2> QED
    BY <1>2, <1>3, <2>2 DEF ExtendExpiry
<1>4. CASE ReserveFor(h)
  <2>1. \A b \in BOOLEAN : [object[h] EXCEPT !.reserved = TRUE, !.linked = object[h].linked \/ b] \in Objects
    BY <1>1 DEF Objects
  <2> QED
    BY <1>2, <1>4, <2>1 DEF ReserveFor
<1>5. CASE Consume(h)
  <2>1. [object[h] EXCEPT !.reserved = FALSE, !.consumed = TRUE] \in Objects
    BY <1>1 DEF Objects
  <2> QED
    BY <1>2, <1>5, <2>1 DEF Consume
<1>6. CASE ReleaseReserved(h)
  <2>1. [object[h] EXCEPT !.reserved = FALSE] \in Objects
    BY <1>1 DEF Objects
  <2> QED
    BY <1>2, <1>6, <2>1 DEF ReleaseReserved
<1>7. CASE Land(h)
  BY <1>7 DEF Land, table, calls
<1> QED
  BY <1>3, <1>4, <1>5, <1>6, <1>7 DEF OperationNext

-----------------------------------------------------------------------------
(* The cron.                                                                *)

CronStep(h) == EraseDebt(h) \/ SettleDebt(h) \/ Claim(h) \/ Erase(h) \/ DropObject(h)

LEMMA CronTypes ==
  ASSUME TypeOK, CronNext \/ CronFails
  PROVE  TypeOK'
<1> USE TypesAre DEF Types
<1>1. clock \in Nat /\ cron.now \in Nat /\ cron.todo \in SUBSET Handles /\ cron.on \in SUBSET Handles
      /\ cron.sure \in SUBSET Handles
  BY Sizes DEF Passes
<1>2. ASSUME NEW from \in CronSteps, NEW to \in CronSteps, CronGoto(from, to) PROVE cron' \in Passes
  BY <1>2 DEF CronGoto, Passes
<1>3. CASE CronBegin \/ SelectDebts \/ SelectCandidates \/ CronEnd \/ CronFails
  <2>1. CASE CronBegin \/ CronEnd \/ CronFails
    <3>1. \A at \in CronSteps, n \in Nat : [IdleCron EXCEPT !.at = at, !.now = n] \in Passes
      BY DEF IdleCron, Passes
    <3>2. \A n \in Nat : [IdleCron EXCEPT !.now = n] \in Passes
      BY DEF IdleCron, Passes, CronSteps
    <3>3. cron' \in Passes
      BY <1>1, <2>1, <3>1, <3>2 DEF CronBegin, CronEnd, CronFails, CronSteps
    <3> QED
      BY <2>1, <3>3 DEF CronBegin, CronEnd, CronFails, CronOnly, table, r2
  <2>2. CASE SelectDebts
    <3>1. cron' \in Passes
      BY <1>1, <2>2 DEF SelectDebts, Passes, CronSteps
    <3> QED
      BY <2>2, <3>1 DEF SelectDebts, CronOnly, table, r2
  <2>3. CASE SelectCandidates
    <3>1. cron' \in Passes
      BY <1>1, <2>3 DEF SelectCandidates, Passes, CronSteps
    <3> QED
      BY <2>3, <3>1 DEF SelectCandidates, CronOnly, table, r2
  <2> QED
    BY <1>3, <2>1, <2>2, <2>3
<1>4. CASE ExpireIngests
  <2>1. ingest' \in [Handles -> Ingests]
    BY <1>4 DEF ExpireIngests, Ingests, IngestStates
  <2> QED
    BY <1>2, <1>4, <2>1 DEF ExpireIngests, CronOnly, CronSteps, r2
<1>5. CASE DropRows
  <2>1. ingest' \in [Handles -> Ingests] /\ slot' \in [Handles -> Slots]
    BY <1>5, Blanks DEF DropRows
  <2>2. [units |-> 0, until |-> 0] \in Budgets
    BY DEF Budgets
  <2>3. budget' \in [Handles -> Budgets]
    BY <1>5, <2>2 DEF DropRows
  <2> QED
    BY <1>2, <1>5, <2>1, <2>3 DEF DropRows, CronOnly, CronSteps, r2
<1>6. CASE DropDownloads
  <2>1. lease' \in [Streams -> Nat] /\ ack' \in [Handles -> Nat] /\ admission' \in [Handles -> Nat]
    BY <1>6 DEF DropDownloads
  <2> QED
    BY <1>2, <1>6, <2>1 DEF DropDownloads, CronOnly, CronSteps, r2
<1>7. ASSUME NEW h \in Handles, CronStep(h) PROVE TypeOK'
  <2>1. CASE EraseDebt(h) \/ Erase(h)
    <3>1. cron' \in Passes
      BY <1>1, <1>2, <2>1 DEF EraseDebt, Erase, Passes, CronSteps
    <3> QED
      BY <2>1, <3>1 DEF EraseDebt, Erase, CronOnly, table
  <2>2. CASE SettleDebt(h)
    <3>1. cron' \in Passes
      BY <1>1, <2>2 DEF SettleDebt, Passes
    <3>2. ingest' \in [Handles -> Ingests]
      BY <2>2 DEF SettleDebt, Ingests, IngestStates
    <3> QED
      BY <2>2, <3>1, <3>2 DEF SettleDebt, CronOnly, r2
  <2>3. CASE Claim(h)
    <3>1. cron' \in Passes
      BY <1>1, <2>3 DEF Claim, Passes, CronSteps
    <3>2. object' \in [Handles -> Objects]
      BY <2>3 DEF Claim, Objects, ObjectStates
    <3> QED
      BY <2>3, <3>1, <3>2 DEF Claim, CronOnly, r2
  <2>4. CASE DropObject(h)
    <3>1. cron' \in Passes
      BY <1>1, <2>4 DEF DropObject, Passes, CronSteps
    <3>2. object' \in [Handles -> Objects]
      BY <2>4, Blanks DEF DropObject
    <3> QED
      BY <2>4, <3>1, <3>2 DEF DropObject, CronOnly, r2
  <2> QED
    BY <1>7, <2>1, <2>2, <2>3, <2>4 DEF CronStep
<1> QED
  BY <1>3, <1>4, <1>5, <1>6, <1>7 DEF CronNext, CronStep

LEMMA TypesStep ==
  ASSUME TypeOK, Leased, [Next]_vars
  PROVE  TypeOK'
<1>1. CASE AccountChanges \/ Tick
  <2>1. clock' \in 0..Horizon /\ account' \in BOOLEAN
    <3>1. CASE AccountChanges
      BY <1>1, <3>1, TypesAre DEF AccountChanges, Types
    <3>2. CASE Tick
      BY <1>1, <3>2, TypesAre, Sizes DEF Tick, Types
    <3> QED
      BY <1>1, <3>1, <3>2
  <2>2. UNCHANGED <<asked, table, r2, calls, fresh>>
    BY <1>1 DEF AccountChanges, Tick
  <2> QED
    BY <2>1, <2>2, TypesAre DEF Types, table, r2, calls
<1>2. CASE UNCHANGED vars
  BY <1>2, TypesAre DEF Types, vars, table, r2, calls
<1> QED
  BY <1>1, <1>2, WriterTypes, OperationTypes, StreamTypes, AckTypes, CronTypes DEF Next

-----------------------------------------------------------------------------
(* One file.                                                                *)

\* The writer and the ingest of g, and what R2 has of it, stay as they are.
SameWriting(g) ==
  /\ writer'[g] = writer[g] /\ ingest'[g] = ingest[g]
  /\ (g \in bucket') <=> (g \in bucket)
  /\ (g \in flying') <=> (g \in flying)

Same(g) == SameWriting(g) /\ object'[g] = object[g]

LEMMA WriterFrame ==
  ASSUME NEW g \in Handles, WriterBy(g), SameWriting(g)
  PROVE  WriterBy(g)'
BY DEF WriterBy, SameWriting, Owed, Absent

\* The row of g keeps its state.
SameState(g) ==
  /\ object'[g].state = object[g].state
  /\ object[g].state = "none" => object'[g] = object[g]
  /\ object'[g].reserved => object'[g].state = "available"
  /\ object'[g].state = "deleting" => object'[g].lease <= clock'

LEMMA FileFrame ==
  ASSUME NEW g \in Handles, WriterBy(g), FileBy(g), SameWriting(g), SameState(g)
  PROVE  WriterBy(g)' /\ FileBy(g)'
<1>1. FileBy(g)'
  BY DEF FileBy, SameWriting, SameState, Owed, Absent
<1> QED
  BY <1>1, WriterFrame

\* Time only goes on.
LEMMA ClockGoesOn ==
  ASSUME TypeOK, TypeOK', [Next]_vars
  PROVE  clock \in Nat /\ clock' \in Nat /\ clock <= clock'
<1>1. clock \in Nat /\ clock' \in Nat
  BY TypesAre, Sizes DEF Types
<1>2. CASE Tick
  BY <1>1, <1>2 DEF Tick
<1>3. ASSUME NEW h \in Handles, IngestNext(h) \/ Land(h) \/ OperationNext(h) PROVE clock' = clock
  BY <1>3 DEF IngestNext, OpenSlot, ReadAccount, Reserve, ReserveFails, StartPut, BodyFails, PutReturns,
     PutFails, Publish, PublishFails, Catch, MarkDebt, EraseOwn, SettleOwn, LeaveSlot, WriterDies, Land,
     OperationNext, ExtendExpiry, ReserveFor, Consume, ReleaseReserved, SetObject
<1>4. ASSUME NEW s \in Streams, StreamNext(s) PROVE clock' = clock
  BY <1>4 DEF StreamNext, ReadObject, Admit, Open, Release, LeaveStream
<1>5. ASSUME NEW a \in Ackers, AckNext(a) PROVE clock' = clock
  BY <1>5 DEF AckNext, BeginAck, ReadKnown, Record, LeaveAck
<1>6. ASSUME CronNext \/ CronFails PROVE clock' = clock
  BY <1>6 DEF CronNext, CronBegin, ExpireIngests, SelectDebts, DropRows, DropDownloads, SelectCandidates,
     CronEnd, EraseDebt, SettleDebt, Claim, Erase, DropObject, CronFails, CronOnly
<1>7. ASSUME AccountChanges \/ UNCHANGED vars PROVE clock' = clock
  BY <1>7 DEF AccountChanges, vars
<1> QED
  BY <1>1, <1>2, <1>3, <1>4, <1>5, <1>6, <1>7 DEF Next

LEMMA SameIs ==
  ASSUME TypeOK, TypeOK', NEW g \in Handles, FileBy(g), Same(g), clock <= clock'
  PROVE  SameState(g)
<1>1. clock \in Nat /\ clock' \in Nat /\ object[g].lease \in Nat
  BY TypesAre, Sizes DEF Types, Objects
<1> QED
  BY <1>1 DEF FileBy, Same, SameState

\* Only the file of the writer that moves is concerned.
LEMMA OthersAreSame ==
  ASSUME TypeOK, NEW h \in Handles, IngestNext(h) \/ Land(h), NEW g \in Handles \ {h}
  PROVE  Same(g)
<1> USE TypesAre DEF Types, Same, SameWriting, table, r2, calls, Step
<1>1. CASE OpenSlot(h) \/ ReadAccount(h) \/ Reserve(h) \/ ReserveFails(h) \/ BodyFails(h)
  BY <1>1 DEF OpenSlot, ReadAccount, Reserve, ReserveFails, BodyFails
<1>2. CASE StartPut(h) \/ PutReturns(h) \/ PutFails(h) \/ Land(h)
  BY <1>2 DEF StartPut, PutReturns, PutFails, Land
<1>3. CASE Publish(h) \/ PublishFails(h) \/ Catch(h) \/ MarkDebt(h)
  BY <1>3 DEF Publish, PublishFails, Catch, MarkDebt
<1>4. CASE EraseOwn(h) \/ SettleOwn(h) \/ LeaveSlot(h) \/ WriterDies(h)
  BY <1>4 DEF EraseOwn, SettleOwn, LeaveSlot, WriterDies
<1> QED
  BY <1>1, <1>2, <1>3, <1>4 DEF IngestNext

LEMMA RowFields ==
  ASSUME TypeOK, NEW h \in Handles
  PROVE  /\ writer \in [Handles -> Writers] /\ ingest \in [Handles -> Ingests] /\ object \in [Handles -> Objects]
         /\ writer[h] \in Writers /\ ingest[h] \in Ingests /\ object[h] \in Objects
         /\ writer[h].at \in WriterSteps /\ writer[h].started \in BOOLEAN /\ writer[h].returned \in BOOLEAN
         /\ ingest[h].state \in IngestStates /\ ingest[h].stopped \in BOOLEAN
         /\ object[h].state \in ObjectStates /\ object[h].reserved \in BOOLEAN
         /\ object[h].lease \in Nat /\ clock \in Nat
BY TypesAre, Sizes DEF Types, Writers, Ingests, Objects

\* The writer goes on and the rest stays as it is.
LEMMA OnlyMoves ==
  ASSUME TypeOK, NEW h \in Handles, NEW at \in WriterSteps, WriterBy(h), FileBy(h), Step(h, at),
         UNCHANGED <<ingest, object, bucket, flying, clock>>,
         \/ writer[h].at = "slot" /\ at \in {"account", "leaving"}
         \/ writer[h].at = "account" /\ at = "leaving"
         \/ writer[h].at = "reserved" /\ at = "caught"
         \/ writer[h].at = "commit" /\ at = "caught"
         \/ writer[h].at = "caught" /\ at = IF object[h].state # "none" THEN "leaving" ELSE "marking"
  PROVE  WriterBy(h)' /\ FileBy(h)'
<1>1. writer'[h].at = at /\ writer'[h].started = writer[h].started /\ writer'[h].returned = writer[h].returned
  BY StepIs, RowFields DEF Writers
<1>2. WriterBy(h)'
  BY <1>1 DEF WriterBy, FileBy, Owed, Absent, Before, Busy, Catching
<1>3. FileBy(h)'
  BY <1>1 DEF WriterBy, FileBy, Owed, Absent, Before, Busy
<1> QED
  BY <1>2, <1>3

LEMMA WriterActs ==
  ASSUME TypeOK, NEW h \in Handles, WriterBy(h), FileBy(h), IngestNext(h)
  PROVE  WriterBy(h)' /\ FileBy(h)'
<1> USE RowFields
<1>1. CASE OpenSlot(h)
  <2>1. writer'[h].at = "slot" /\ writer'[h].started = writer[h].started /\ writer'[h].returned = writer[h].returned
    BY <1>1, StepIs DEF OpenSlot, WriterSteps, Writers
  <2>2. writer[h].at = "idle" /\ UNCHANGED <<clock, ingest, object, bucket, flying>>
    BY <1>1 DEF OpenSlot, r2
  <2> QED
    BY <2>1, <2>2 DEF WriterBy, FileBy, Owed, Absent, Before, Busy, Catching
<1>2. CASE ReadAccount(h) \/ ReserveFails(h) \/ BodyFails(h) \/ PublishFails(h) \/ Catch(h)
  <2>1. UNCHANGED <<ingest, object, bucket, flying, clock>>
    BY <1>2 DEF ReadAccount, ReserveFails, BodyFails, PublishFails, Catch, table, r2
  <2> QED
    BY <1>2, <2>1, OnlyMoves DEF ReadAccount, ReserveFails, BodyFails, PublishFails, Catch, WriterSteps
<1>3. CASE Reserve(h)
  <2>1. /\ writer'[h].at \in {"reserved", "leaving"}
        /\ writer'[h].started = writer[h].started /\ writer'[h].returned = writer[h].returned
    BY <1>3, StepIs DEF Reserve, WriterSteps, Writers
  <2>2. writer[h].at = "account" /\ UNCHANGED <<clock, object, bucket, flying>>
    BY <1>3 DEF Reserve, r2
  <2>3. ingest'[h].state = "active" /\ ingest'[h].stopped = FALSE
    BY <1>3 DEF Reserve
  <2> QED
    BY <2>1, <2>2, <2>3 DEF WriterBy, FileBy, Owed, Absent, Before, Busy, Catching
<1>4. CASE StartPut(h)
  <2>1. writer'[h].at = "putting" /\ writer'[h].started = TRUE /\ writer'[h].returned = writer[h].returned
    BY <1>4 DEF StartPut, Writers
  <2>2. writer[h].at = "reserved" /\ flying' = flying \cup {h} /\ UNCHANGED <<clock, object, ingest, bucket>>
    BY <1>4 DEF StartPut, table
  <2> QED
    BY <2>1, <2>2 DEF WriterBy, FileBy, Owed, Absent, Before, Busy, Catching
<1>5. CASE PutReturns(h)
  <2>1. writer'[h].at = "commit" /\ writer'[h].started = writer[h].started /\ writer'[h].returned = TRUE
    BY <1>5 DEF PutReturns, Writers
  <2>2. writer[h].at = "putting" /\ h \notin flying /\ UNCHANGED <<clock, object, ingest, bucket, flying>>
    BY <1>5 DEF PutReturns, table, r2
  <2> QED
    BY <2>1, <2>2 DEF WriterBy, FileBy, Owed, Absent, Before, Busy, Catching
<1>6. CASE PutFails(h)
  <2>1. writer'[h].at = "caught" /\ writer'[h].started = writer[h].started /\ writer'[h].returned = writer[h].returned
    BY <1>6, StepIs DEF PutFails, WriterSteps, Writers
  <2>2. writer[h].at = "putting" /\ flying' \subseteq flying /\ UNCHANGED <<clock, object, ingest, bucket>>
    BY <1>6 DEF PutFails, table
  <2> QED
    BY <2>1, <2>2 DEF WriterBy, FileBy, Owed, Absent, Before, Busy, Catching
<1>7. CASE Publish(h)
  <2>1. /\ writer'[h].at \in {"caught", "leaving"}
        /\ writer'[h].started = writer[h].started /\ writer'[h].returned = writer[h].returned
    BY <1>7, StepIs DEF Publish, WriterSteps, Writers
  <2>2. writer[h].at = "commit" /\ ingest[h].state = "active" /\ UNCHANGED <<clock, bucket, flying>>
    BY <1>7 DEF Publish, MayPublish, r2
  <2>3. ingest'[h].state = "published" /\ ingest'[h].stopped = TRUE
    BY <1>7 DEF Publish, Ingests
  <2>4. object'[h].state = "available" /\ object'[h].reserved = FALSE
    BY <1>7 DEF Publish, NoObject
  <2> QED
    BY <2>1, <2>2, <2>3, <2>4 DEF WriterBy, FileBy, Owed, Absent, Before, Busy, Catching
<1>8. CASE MarkDebt(h)
  <2>1. /\ writer'[h].at \in {"leaving", "erasing", "settling"}
        /\ writer'[h].started = writer[h].started /\ writer'[h].returned = writer[h].returned
        /\ writer'[h].at = "erasing" => writer[h].returned
        /\ writer'[h].at = "settling" => ~writer[h].started
    BY <1>8, StepIs DEF MarkDebt, WriterStopped, WriterSteps, Writers
  <2>2. writer[h].at = "marking" /\ UNCHANGED <<clock, object, bucket, flying>>
    BY <1>8 DEF MarkDebt, r2
  <2>3. IF ingest[h].state \in {"none", "published"} THEN ingest'[h] = ingest[h]
        ELSE ingest'[h].state = "debt" /\ ingest'[h].stopped = (~writer[h].started \/ writer[h].returned)
    BY <1>8 DEF MarkDebt, WriterStopped, Ingests
  <2>4. ingest'[h].stopped \in BOOLEAN
    BY <2>3
  <2> QED
    BY <2>1, <2>2, <2>3, <2>4 DEF WriterBy, FileBy, Owed, Absent, Before, Busy, Catching
<1>9. CASE EraseOwn(h)
  <2>1. writer'[h].at = "settling" /\ writer'[h].started = writer[h].started /\ writer'[h].returned = writer[h].returned
    BY <1>9, StepIs DEF EraseOwn, WriterSteps, Writers
  <2>2. writer[h].at = "erasing" /\ bucket' = bucket \ {h} /\ UNCHANGED <<clock, object, ingest, flying>>
    BY <1>9 DEF EraseOwn, table
  <2> QED
    BY <2>1, <2>2 DEF WriterBy, FileBy, Owed, Absent, Before, Busy, Catching
<1>10. CASE SettleOwn(h)
  <2>1. writer'[h].at = "leaving" /\ writer'[h].started = writer[h].started /\ writer'[h].returned = writer[h].returned
    BY <1>10, StepIs DEF SettleOwn, WriterSteps, Writers
  <2>2. writer[h].at = "settling" /\ UNCHANGED <<clock, object, bucket, flying>>
    BY <1>10 DEF SettleOwn, r2
  <2>3. IF ingest[h].state = "debt" /\ ingest[h].stopped
        THEN ingest'[h].state = "released" /\ ingest'[h].stopped = ingest[h].stopped ELSE ingest'[h] = ingest[h]
    BY <1>10 DEF SettleOwn, Ingests
  <2> QED
    BY <2>1, <2>2, <2>3 DEF WriterBy, FileBy, Owed, Absent, Before, Busy, Catching
<1>11. CASE LeaveSlot(h) \/ WriterDies(h)
  <2>1. writer'[h].at = "done" /\ writer'[h].started = FALSE /\ writer'[h].returned = FALSE
    BY <1>11 DEF LeaveSlot, WriterDies, NewWriter
  <2>2. UNCHANGED <<clock, object, ingest, bucket, flying>>
    BY <1>11 DEF LeaveSlot, WriterDies, table, r2
  <2> QED
    BY <2>1, <2>2 DEF WriterBy, FileBy, Owed, Absent, Before, Busy, Catching
<1> QED
  BY <1>1, <1>2, <1>3, <1>4, <1>5, <1>6, <1>7, <1>8, <1>9, <1>10, <1>11 DEF IngestNext

LEMMA LandActs ==
  ASSUME TypeOK, NEW h \in Handles, WriterBy(h), FileBy(h), Land(h)
  PROVE  WriterBy(h)' /\ FileBy(h)'
<1>1. /\ h \in flying /\ flying' = flying \ {h} /\ bucket' = bucket \cup {h}
      /\ UNCHANGED <<clock, writer, ingest, object>>
  BY DEF Land, table, calls
<1> QED
  BY <1>1, RowFields DEF WriterBy, FileBy, Owed, Absent, Before, Busy, Catching

\* Operations, streams and acknowledgements change what a row says, not its state.
LEMMA OperationIs ==
  ASSUME TypeOK, NEW h \in Handles, FileBy(h), OperationNext(h)
  PROVE  /\ object[h].state = "available"
         /\ \E o \in Objects : /\ SetObject(h, o)
                               /\ o.state = object[h].state /\ o.lease = object[h].lease
<1>1. object[h] \in Objects
  BY RowFields
<1>2. CASE ExtendExpiry(h)
  <2>1. Later(object[h].expires, clock + Ttl) \in Nat
    BY <1>1, RowFields, Sizes DEF Objects, Later
  <2>2. [object[h] EXCEPT !.expires = Later(object[h].expires, clock + Ttl)] \in Objects
    BY <1>1, <2>1 DEF Objects
  <2> QED
    BY <1>1, <1>2, <2>2 DEF ExtendExpiry, Objects
<1>3. CASE ReserveFor(h)
  <2>1. \A b \in BOOLEAN : LET o == [object[h] EXCEPT !.reserved = TRUE, !.linked = object[h].linked \/ b] IN
                             o \in Objects /\ o.state = object[h].state /\ o.lease = object[h].lease
    BY <1>1 DEF Objects
  <2> QED
    BY <1>3, <2>1 DEF ReserveFor
<1>4. CASE Consume(h)
  <2>1. LET o == [object[h] EXCEPT !.reserved = FALSE, !.consumed = TRUE] IN
          o \in Objects /\ o.state = object[h].state /\ o.lease = object[h].lease
    BY <1>1 DEF Objects
  <2> QED
    BY <1>4, <2>1 DEF Consume, FileBy
<1>5. CASE ReleaseReserved(h)
  <2>1. LET o == [object[h] EXCEPT !.reserved = FALSE] IN
          o \in Objects /\ o.state = object[h].state /\ o.lease = object[h].lease
    BY <1>1 DEF Objects
  <2> QED
    BY <1>5, <2>1 DEF ReleaseReserved, FileBy
<1> QED
  BY <1>2, <1>3, <1>4, <1>5 DEF OperationNext

LEMMA OperationActs ==
  ASSUME TypeOK, NEW h \in Handles, FileBy(h), OperationNext(h), NEW g \in Handles, WriterBy(g), FileBy(g)
  PROVE  WriterBy(g)' /\ FileBy(g)'
<1>1. PICK o \in Objects : SetObject(h, o) /\ o.state = object[h].state /\ o.lease = object[h].lease
  BY OperationIs
<1>2. SameWriting(g) /\ clock' = clock
  BY <1>1 DEF SetObject, SameWriting, r2, calls
<1>3. object'[g] = IF g = h THEN o ELSE object[g]
  BY <1>1, RowFields DEF SetObject
<1>4. SameState(g)
  BY <1>1, <1>2, <1>3, OperationIs DEF SameState, FileBy
<1> QED
  BY <1>2, <1>4, FileFrame

LEMMA StreamActs ==
  ASSUME TypeOK, Leased, NEW s \in Streams, StreamNext(s), NEW g \in Handles, WriterBy(g), FileBy(g)
  PROVE  WriterBy(g)' /\ FileBy(g)'
<1>1. SameWriting(g) /\ clock' = clock
  BY DEF StreamNext, ReadObject, Admit, Open, Release, LeaveStream, SameWriting, table, r2
<1>2. ASSUME object' = object PROVE SameState(g)
  BY <1>1, <1>2 DEF SameState, FileBy
<1>3. ASSUME NEW h \in Handles, NEW l \in Nat, object' = [object EXCEPT ![h].lease = l],
             object[h].state # "none", object[h].state = "deleting" => l <= object[h].lease
      PROVE  SameState(g)
  <2>1. /\ object'[g].state = object[g].state /\ object'[g].reserved = object[g].reserved
        /\ object[g].state = "none" => object'[g] = object[g]
        /\ object'[g].lease = IF g = h THEN l ELSE object[g].lease
    BY <1>3, RowFields DEF Objects
  <2>2. object[g].lease \in Nat /\ clock \in Nat
    BY RowFields
  <2> QED
    BY <1>1, <1>3, <2>1, <2>2 DEF SameState, FileBy
<1>4. CASE Admit(s)
  <2>1. PICK l \in Nat : object' = [object EXCEPT ![stream[s].h].lease = l]
    BY <1>4, AdmitIs
  <2> QED
    BY <1>1, <1>3, <1>4, <2>1, AdmitIs, FileFrame
<1>5. CASE Release(s)
  <2>1. CASE object[stream[s].h].state = "none"
    BY <1>1, <1>2, <1>5, <2>1, ReleaseIs, FileFrame
  <2>2. CASE object[stream[s].h].state # "none"
    <3>1. PICK l \in Nat : l <= object[stream[s].h].lease /\ object' = [object EXCEPT ![stream[s].h].lease = l]
      BY <1>5, <2>2, ReleaseIs
    <3> QED
      BY <1>1, <1>3, <1>5, <2>2, <3>1, ReleaseIs, FileFrame
  <2> QED
    BY <2>1, <2>2
<1>6. CASE (\E h \in Handles : ReadObject(s, h)) \/ Open(s) \/ LeaveStream(s)
  <2>1. object' = object
    BY <1>6 DEF ReadObject, Open, LeaveStream, table
  <2> QED
    BY <1>1, <1>2, <2>1, FileFrame
<1> QED
  BY <1>4, <1>5, <1>6 DEF StreamNext

LEMMA AckActs ==
  ASSUME TypeOK, NEW a \in Ackers, AckNext(a), NEW g \in Handles, WriterBy(g), FileBy(g)
  PROVE  WriterBy(g)' /\ FileBy(g)'
<1>1. SameWriting(g) /\ clock' = clock
  BY DEF AckNext, BeginAck, ReadKnown, Record, LeaveAck, SameWriting, table, r2
<1>2. \/ object' = object
      \/ \E h \in Handles : object[h].state # "none" /\ object' = [object EXCEPT ![h].consumed = TRUE]
  <2>1. acker[a].h \in Handles
    BY TypesAre DEF Types, AckRows
  <2> QED
    BY <2>1 DEF AckNext, BeginAck, ReadKnown, Record, LeaveAck, table
<1>3. /\ object'[g].state = object[g].state /\ object'[g].reserved = object[g].reserved
      /\ object'[g].lease = object[g].lease
      /\ object[g].state = "none" => object'[g] = object[g]
  BY <1>2, RowFields DEF Objects
<1>4. SameState(g)
  BY <1>1, <1>3 DEF SameState, FileBy
<1> QED
  BY <1>1, <1>4, FileFrame

LEMMA CronActs ==
  ASSUME TypeOK, CronBy, CronNext \/ CronFails, NEW g \in Handles, WriterBy(g), FileBy(g)
  PROVE  WriterBy(g)' /\ FileBy(g)'
<1> USE RowFields
<1>0. writer' = writer /\ clock' = clock
  BY DEF CronNext, CronBegin, ExpireIngests, SelectDebts, DropRows, DropDownloads, SelectCandidates,
     CronEnd, EraseDebt, SettleDebt, Claim, Erase, DropObject, CronFails, CronOnly
<1>1. CASE CronBegin \/ SelectDebts \/ SelectCandidates \/ CronEnd \/ CronFails \/ DropDownloads
  <2>1. Same(g)
    BY <1>0, <1>1 DEF CronBegin, SelectDebts, SelectCandidates, CronEnd, CronFails, DropDownloads, table, r2,
       Same, SameWriting
  <2>2. SameState(g)
    BY <1>0, <2>1 DEF Same, SameState, FileBy
  <2> QED
    BY <2>1, <2>2, FileFrame DEF Same
<1>2. CASE ExpireIngests
  <2>1. /\ ingest'[g].stopped = ingest[g].stopped
        /\ \/ ingest'[g].state = ingest[g].state
           \/ ingest[g].state = "active" /\ ingest'[g].state = "debt"
    BY <1>2 DEF ExpireIngests, Ingests
  <2>2. UNCHANGED <<object, bucket, flying>>
    BY <1>2 DEF ExpireIngests, r2
  <2> QED
    BY <1>0, <2>1, <2>2 DEF WriterBy, FileBy, Owed, Absent, Before, Busy, Catching
<1>3. CASE DropRows
  <2>1. \/ ingest'[g] = ingest[g]
        \/ /\ ingest[g].state \in {"released", "published"} /\ object[g].state = "none"
           /\ ingest'[g].state = "none" /\ ingest'[g].stopped = FALSE
    BY <1>3 DEF DropRows, NoIngest
  <2>2. UNCHANGED <<object, bucket, flying>>
    BY <1>3 DEF DropRows, r2
  <2> QED
    BY <1>0, <2>1, <2>2 DEF WriterBy, FileBy, Owed, Absent, Before, Busy, Catching
<1>4. ASSUME NEW h \in Handles, EraseDebt(h) PROVE WriterBy(g)' /\ FileBy(g)'
  <2>1. ingest[h].state \in {"debt", "released"}
    BY <1>4 DEF EraseDebt, CronBy
  <2>2. bucket' = bucket \ {h} /\ UNCHANGED <<object, ingest, flying>>
    BY <1>4 DEF EraseDebt, table
  <2> QED
    BY <1>0, <2>1, <2>2 DEF WriterBy, FileBy, Owed, Absent, Before, Busy, Catching
<1>5. ASSUME NEW h \in Handles, SettleDebt(h) PROVE WriterBy(g)' /\ FileBy(g)'
  <2>1. h \notin bucket
    BY <1>5 DEF SettleDebt, CronBy
  <2>2. UNCHANGED <<object, bucket, flying>>
    BY <1>5 DEF SettleDebt, r2
  <2>3. \/ ingest'[g] = ingest[g]
        \/ /\ g = h /\ ingest[g].state = "debt" /\ ingest[g].stopped
           /\ ingest'[g].state = "released" /\ ingest'[g].stopped
    BY <1>5 DEF SettleDebt, Ingests
  <2> QED
    BY <1>0, <2>1, <2>2, <2>3 DEF WriterBy, FileBy, Owed, Absent, Before, Busy, Catching
<1>6. ASSUME NEW h \in Handles, Claim(h) PROVE WriterBy(g)' /\ FileBy(g)'
  <2>1. UNCHANGED <<ingest, bucket, flying>>
    BY <1>6 DEF Claim, r2
  <2>2. cron.now <= clock /\ cron.now \in Nat
    BY TypesAre DEF CronBy, Types, Passes
  <2>3. \/ object'[g] = object[g]
        \/ /\ object[g].state # "none" /\ ~object[g].reserved /\ object[g].lease <= cron.now
           /\ object'[g].state = "deleting" /\ object'[g].reserved = object[g].reserved
           /\ object'[g].lease = object[g].lease
    BY <1>6 DEF Claim, Claimable, Unheld, Objects
  <2> QED
    BY <1>0, <2>1, <2>2, <2>3 DEF WriterBy, FileBy, Owed, Absent, Before, Busy, Catching, ObjectStates
<1>7. ASSUME NEW h \in Handles, Erase(h) PROVE WriterBy(g)' /\ FileBy(g)'
  <2>1. object[h].state = "deleting"
    BY <1>7 DEF Erase, CronGoto, CronBy
  <2>2. bucket' = bucket \ {h} /\ UNCHANGED <<object, ingest, flying>>
    BY <1>7 DEF Erase, table
  <2> QED
    BY <1>0, <2>1, <2>2 DEF WriterBy, FileBy, Owed, Absent, Before, Busy, Catching
<1>8. ASSUME NEW h \in Handles, DropObject(h) PROVE WriterBy(g)' /\ FileBy(g)'
  <2>1. object[h].state = "deleting" /\ h \notin bucket
    BY <1>8 DEF DropObject, CronBy
  <2>2. UNCHANGED <<ingest, bucket, flying>>
    BY <1>8 DEF DropObject, r2
  <2>3. object'[g] = IF g = h THEN NoObject ELSE object[g]
    BY <1>8, <2>1 DEF DropObject
  <2>4. NoObject.state = "none" /\ ~NoObject.reserved
    BY DEF NoObject
  <2> HIDE DEF NoObject
  <2> QED
    BY <1>0, <2>1, <2>2, <2>3, <2>4 DEF WriterBy, FileBy, Owed, Absent, Before, Busy, Catching
<1> QED
  BY <1>1, <1>2, <1>3, <1>4, <1>5, <1>6, <1>7, <1>8 DEF CronNext

LEMMA FilesStep ==
  ASSUME TypeOK, TypeOK', Files, Leased, CronBy, [Next]_vars
  PROVE  Files'
<1> SUFFICES ASSUME NEW g \in Handles PROVE WriterBy(g)' /\ FileBy(g)'
  BY DEF Files
<1>1. WriterBy(g) /\ FileBy(g)
  BY DEF Files
<1>2. ASSUME Same(g) PROVE WriterBy(g)' /\ FileBy(g)'
  BY <1>1, <1>2, ClockGoesOn, SameIs, FileFrame DEF Same
<1>3. ASSUME NEW h \in Handles, IngestNext(h) PROVE WriterBy(g)' /\ FileBy(g)'
  <2>1. CASE g = h
    BY <1>1, <1>3, <2>1, WriterActs
  <2>2. CASE g # h
    BY <1>2, <1>3, <2>2, OthersAreSame
  <2> QED
    BY <2>1, <2>2
<1>4. ASSUME NEW h \in Handles, Land(h) PROVE WriterBy(g)' /\ FileBy(g)'
  <2>1. CASE g = h
    BY <1>1, <1>4, <2>1, LandActs
  <2>2. CASE g # h
    BY <1>2, <1>4, <2>2, OthersAreSame
  <2> QED
    BY <2>1, <2>2
<1>5. ASSUME NEW h \in Handles, OperationNext(h) PROVE WriterBy(g)' /\ FileBy(g)'
  BY <1>1, <1>5, OperationActs DEF Files
<1>6. ASSUME NEW s \in Streams, StreamNext(s) PROVE WriterBy(g)' /\ FileBy(g)'
  BY <1>1, <1>6, StreamActs
<1>7. ASSUME NEW a \in Ackers, AckNext(a) PROVE WriterBy(g)' /\ FileBy(g)'
  BY <1>1, <1>7, AckActs
<1>8. CASE CronNext \/ CronFails
  BY <1>1, <1>8, CronActs
<1>9. CASE AccountChanges \/ Tick \/ UNCHANGED vars
  <2>1. Same(g)
    BY <1>9 DEF AccountChanges, Tick, vars, table, r2, calls, Same, SameWriting
  <2> QED
    BY <1>2, <2>1
<1> QED
  BY <1>3, <1>4, <1>5, <1>6, <1>7, <1>8, <1>9 DEF Next

-----------------------------------------------------------------------------
(* Leases.                                                                  *)

\* A writer that has come to its end does not write again.
LEMMA NeverBack ==
  ASSUME TypeOK, NEW h \in Handles, IngestNext(h) \/ Land(h), writer[h].at \notin Before \cup Busy
  PROVE  writer'[h].at \notin Before \cup Busy
<1> USE RowFields DEF Before, Busy
<1>1. CASE OpenSlot(h) \/ ReadAccount(h) \/ Reserve(h) \/ ReserveFails(h) \/ StartPut(h) \/ BodyFails(h)
           \/ PutReturns(h) \/ PutFails(h) \/ Publish(h) \/ PublishFails(h)
  BY <1>1 DEF OpenSlot, ReadAccount, Reserve, ReserveFails, StartPut, BodyFails, PutReturns, PutFails,
     Publish, PublishFails
<1>2. CASE Catch(h) \/ MarkDebt(h) \/ EraseOwn(h) \/ SettleOwn(h)
  BY <1>2, StepIs DEF Catch, MarkDebt, EraseOwn, SettleOwn, WriterSteps
<1>3. CASE LeaveSlot(h) \/ WriterDies(h) \/ Land(h)
  BY <1>3 DEF LeaveSlot, WriterDies, NewWriter, Land, calls
<1> QED
  BY <1>1, <1>2, <1>3 DEF IngestNext

LEMMA NoLease ==
  ASSUME TypeOK', NEW s \in Streams, lease'[s] = 0
  PROVE  StreamBy(s)'
<1>1. stream'[s].h \in Handles /\ clock' \in Nat
  BY TypesAre, Sizes DEF Types, StreamRows
<1>2. object'[stream'[s].h].lease \in Nat
  BY <1>1, TypesAre DEF Types, Objects
<1> QED
  BY <1>1, <1>2 DEF StreamBy

\* Nothing happens that a stream's lease depends on.
LEMMA StreamFrame ==
  ASSUME TypeOK, TypeOK', NEW s \in Streams, StreamBy(s), clock <= clock',
         stream'[s].h = stream[s].h, stream'[s].at = "read" => stream[s].at = "read",
         lease'[s] = lease[s],
         writer[stream[s].h].at \notin Before \cup Busy => writer'[stream[s].h].at \notin Before \cup Busy,
         \/ /\ object'[stream[s].h].state = "none" <=> object[stream[s].h].state = "none"
            /\ object'[stream[s].h].lease >= object[stream[s].h].lease
         \/ /\ object[stream[s].h].state = "deleting" /\ object[stream[s].h].lease <= clock
            /\ object'[stream[s].h].state = "none"
  PROVE  StreamBy(s)'
<1> DEFINE h == stream[s].h
<1>1. h \in Handles /\ clock \in Nat /\ clock' \in Nat /\ lease[s] \in Nat
  BY TypesAre, Sizes DEF Types, StreamRows
<1>2. object[h].lease \in Nat /\ object'[h].lease \in Nat
  BY <1>1, TypesAre DEF Types, Objects
<1> QED
  BY <1>1, <1>2 DEF StreamBy

\* A file whose writer has not published yet is leased to nobody.
LEMMA IngestLeases ==
  ASSUME TypeOK, TypeOK', Files, Leased, NEW h \in Handles, IngestNext(h) \/ Land(h), NEW s \in Streams
  PROVE  StreamBy(s)'
<1> DEFINE g == stream[s].h
<1>1. StreamBy(s) /\ g \in Handles /\ lease[s] \in Nat /\ object[g].lease \in Nat
  BY TypesAre DEF Leased, Types, StreamRows, Objects
<1>2. UNCHANGED <<stream, lease, clock>> /\ clock <= clock'
  <2>1. UNCHANGED <<stream, lease, clock>>
    BY DEF IngestNext, OpenSlot, ReadAccount, Reserve, ReserveFails, StartPut, BodyFails, PutReturns, PutFails,
       Publish, PublishFails, Catch, MarkDebt, EraseOwn, SettleOwn, LeaveSlot, WriterDies, Land, table, calls
  <2> QED
    BY <2>1, RowFields
<1>3. writer[g].at \notin Before \cup Busy => writer'[g].at \notin Before \cup Busy
  <2>1. CASE g = h
    BY <2>1, NeverBack
  <2>2. CASE g # h
    BY <1>1, <2>2, OthersAreSame DEF Same, SameWriting
  <2> QED
    BY <2>1, <2>2
<1>4. CASE object'[g] = object[g]
  BY <1>1, <1>2, <1>3, <1>4, StreamFrame
<1>5. CASE object'[g] # object[g]
  <2>1. g = h
    BY <1>1, <1>5, OthersAreSame DEF Same
  <2>2. Publish(h)
    BY <1>5, <2>1 DEF IngestNext, OpenSlot, ReadAccount, Reserve, ReserveFails, StartPut, BodyFails, PutReturns,
       PutFails, PublishFails, Catch, MarkDebt, EraseOwn, SettleOwn, LeaveSlot, WriterDies, Land, table
  <2>3. lease[s] = 0
    BY <1>1, <2>1, <2>2 DEF Publish, StreamBy, Busy
  <2> QED
    BY <1>2, <2>3, NoLease
<1> QED
  BY <1>4, <1>5

LEMMA StreamLeases ==
  ASSUME TypeOK, TypeOK', Files, Leased, NEW x \in Streams, StreamNext(x), NEW s \in Streams
  PROVE  StreamBy(s)'
<1> DEFINE h == stream[s].h
<1>1. StreamBy(s) /\ h \in Handles /\ lease[s] \in Nat /\ object[h].lease \in Nat /\ clock \in Nat
  BY TypesAre, Sizes DEF Leased, Types, StreamRows, Objects
<1>2. writer' = writer /\ clock' = clock /\ clock <= clock'
  <2>1. writer' = writer /\ clock' = clock
    BY DEF StreamNext, ReadObject, Admit, Open, Release, LeaveStream
  <2> QED
    BY <1>1, <2>1
<1>3. CASE \E g \in Handles : ReadObject(x, g)
  <2>1. CASE s = x
    BY <1>3, <2>1, NoLease DEF ReadObject, table
  <2>2. CASE s # x
    <3>1. stream'[s] = stream[s] /\ lease' = lease /\ object' = object
      BY <1>3, <2>2, TypesAre DEF ReadObject, table, Types
    <3> QED
      BY <1>1, <1>2, <3>1, StreamFrame
  <2> QED
    BY <2>1, <2>2
<1>4. CASE Open(x) \/ LeaveStream(x)
  <2>1. PICK at \in {"serving", "releasing", "idle"} : StreamGoto(x, at)
    BY <1>4 DEF Open, LeaveStream
  <2>2. stream'[s].h = stream[s].h /\ (stream'[s].at = "read" => stream[s].at = "read")
    BY <2>1, StreamGotoIs DEF StreamSteps
  <2>3. lease' = lease /\ object' = object
    BY <1>4 DEF Open, LeaveStream, table
  <2> QED
    BY <1>1, <1>2, <2>2, <2>3, StreamFrame
<1>5. CASE Admit(x)
  <2>1. PICK at \in {"admitted", "idle"} : StreamGoto(x, at)
    BY <1>5 DEF Admit
  <2>2. stream'[s].h = stream[s].h /\ (stream'[s].at = "read" => stream[s].at = "read" /\ s # x)
    BY <2>1, StreamGotoIs DEF StreamSteps
  <2>3. PICK until \in Nat, l \in Nat :
          /\ l >= until /\ l >= object[stream[x].h].lease
          /\ lease' = [lease EXCEPT ![x] = until]
          /\ object' = [object EXCEPT ![stream[x].h].lease = l]
    BY <1>5, AdmitIs
  <2>4. stream[x].h \in Handles /\ object[stream[x].h].state = "available"
    BY <1>5, AdmitIs
  <2>5. /\ object'[h].state = object[h].state
        /\ object'[h].lease = IF h = stream[x].h THEN l ELSE object[h].lease
    BY <1>1, <2>3, <2>4, RowFields DEF Objects
  <2>6. CASE s # x
    <3>1. lease'[s] = lease[s] /\ object'[h].lease >= object[h].lease
      BY <1>1, <2>3, <2>5, <2>6, TypesAre DEF Types
    <3> QED
      BY <1>1, <1>2, <2>2, <2>5, <3>1, StreamFrame
  <2>7. CASE s = x
    <3>1. lease'[s] = until /\ until <= object'[h].lease
      BY <2>3, <2>5, <2>7, TypesAre DEF Types
    <3>2. writer[h].at \notin Before \cup Busy
      BY <1>1, <2>4, <2>7 DEF Files, FileBy, Before, Busy
    <3> QED
      BY <1>2, <2>2, <2>4, <2>5, <2>7, <3>1, <3>2 DEF StreamBy
  <2> QED
    BY <2>6, <2>7
<1>6. CASE Release(x)
  <2>1. stream'[s].h = stream[s].h /\ (stream'[s].at = "read" => stream[s].at = "read" /\ s # x)
    BY <1>6, StreamGotoIs DEF Release, StreamSteps
  <2>2. stream[x].h \in Handles /\ lease' = [lease EXCEPT ![x] = 0]
    BY <1>6, ReleaseIs
  <2>3. CASE s = x
    BY <2>2, <2>3, NoLease, TypesAre DEF Types
  <2>4. CASE s # x
    <3>1. lease'[s] = lease[s]
      BY <2>2, <2>4, TypesAre DEF Types
    <3>2. CASE object'[h] = object[h]
      BY <1>1, <1>2, <2>1, <3>1, <3>2, StreamFrame
    <3>3. CASE object'[h] # object[h]
      <4>1. object[stream[x].h].state # "none"
        BY <1>6, <3>3, ReleaseIs
      <4>2. PICK l \in Nat : /\ object' = [object EXCEPT ![stream[x].h].lease = l]
                             /\ \A y \in Streams : stream[y].h = stream[x].h => lease'[y] <= l
        BY <1>6, <4>1, ReleaseIs
      <4>3. h = stream[x].h
        BY <1>1, <3>3, <4>2, TypesAre DEF Types
      <4>4. object'[h].state = object[h].state /\ object'[h].lease = l
        BY <4>2, <4>3, <2>2, RowFields DEF Objects
      <4> QED
        BY <1>1, <1>2, <2>1, <3>1, <4>1, <4>2, <4>3, <4>4 DEF StreamBy
    <3> QED
      BY <3>2, <3>3
  <2> QED
    BY <2>3, <2>4
<1> QED
  BY <1>3, <1>4, <1>5, <1>6 DEF StreamNext

\* Nobody but a stream and the purge changes a lease, or what it is a lease on.
LEMMA OtherLeases ==
  ASSUME TypeOK, TypeOK', NEW s \in Streams, StreamBy(s), clock <= clock',
         UNCHANGED <<writer, stream, lease>>, NEW h \in Handles, NEW o \in Objects,
         object' = [object EXCEPT ![h] = o],
         \/ (o.state = "none" <=> object[h].state = "none") /\ o.lease = object[h].lease
         \/ object[h].state = "deleting" /\ object[h].lease <= clock /\ o.state = "none"
  PROVE  StreamBy(s)'
<1> DEFINE g == stream[s].h
<1>1. g \in Handles /\ object[g].lease \in Nat
  BY TypesAre DEF Types, StreamRows, Objects
<1>2. object'[g] = IF g = h THEN o ELSE object[g]
  BY <1>1, TypesAre DEF Types
<1>3. \/ (object'[g].state = "none" <=> object[g].state = "none") /\ object'[g].lease >= object[g].lease
      \/ object[g].state = "deleting" /\ object[g].lease <= clock /\ object'[g].state = "none"
  BY <1>1, <1>2
<1> QED
  BY <1>3, StreamFrame

LEMMA LeasedStep ==
  ASSUME TypeOK, TypeOK', Files, Leased, CronBy, [Next]_vars
  PROVE  Leased'
<1> SUFFICES ASSUME NEW s \in Streams PROVE StreamBy(s)'
  BY DEF Leased
<1>1. StreamBy(s) /\ clock <= clock' /\ stream[s].h \in Handles /\ object \in [Handles -> Objects]
      /\ object[stream[s].h].lease \in Nat
  BY ClockGoesOn, TypesAre DEF Leased, Types, StreamRows, Objects
<1>2. ASSUME UNCHANGED <<writer, stream, lease, object>> PROVE StreamBy(s)'
  BY <1>1, <1>2, StreamFrame
<1>3. ASSUME NEW h \in Handles, IngestNext(h) \/ Land(h) PROVE StreamBy(s)'
  BY <1>3, IngestLeases
<1>4. ASSUME NEW h \in Handles, OperationNext(h) PROVE StreamBy(s)'
  <2>1. PICK o \in Objects : SetObject(h, o) /\ o.state = object[h].state /\ o.lease = object[h].lease
    BY <1>4, OperationIs DEF Files
  <2> QED
    BY <1>1, <2>1, OtherLeases DEF SetObject, calls
<1>5. ASSUME NEW x \in Streams, StreamNext(x) PROVE StreamBy(s)'
  BY <1>5, StreamLeases
<1>6. ASSUME NEW a \in Ackers, AckNext(a) PROVE StreamBy(s)'
  <2>1. UNCHANGED <<writer, stream, lease>>
    BY <1>6 DEF AckNext, BeginAck, ReadKnown, Record, LeaveAck, table
  <2>2. CASE object' = object
    BY <1>2, <2>1, <2>2
  <2>3. CASE object' # object
    <3> DEFINE h == acker[a].h
    <3>1. h \in Handles /\ object' = [object EXCEPT ![h].consumed = TRUE]
      BY <1>6, <2>3, TypesAre DEF AckNext, BeginAck, ReadKnown, Record, LeaveAck, table, Types, AckRows
    <3>2. object'[h] \in Objects /\ object'[h].state = object[h].state /\ object'[h].lease = object[h].lease
      BY <1>1, <3>1 DEF Objects
    <3>3. object' = [object EXCEPT ![h] = object'[h]]
      BY <1>1, <3>1
    <3> HIDE DEF h
    <3> QED
      BY <1>1, <2>1, <3>1, <3>2, <3>3, OtherLeases
  <2> QED
    BY <2>2, <2>3
<1>7. CASE CronNext \/ CronFails
  <2>0. writer' = writer /\ stream' = stream
    BY <1>7 DEF CronNext, CronBegin, ExpireIngests, SelectDebts, DropRows, DropDownloads, SelectCandidates,
       CronEnd, EraseDebt, SettleDebt, Claim, Erase, DropObject, CronFails, CronOnly
  <2>1. CASE DropDownloads
    <3>1. object' = object /\ (lease'[s] = 0 \/ lease'[s] = lease[s])
      BY <2>1 DEF DropDownloads
    <3> QED
      BY <1>1, <2>0, <3>1, NoLease, StreamFrame
  <2>2. ASSUME NEW h \in Handles, Claim(h) PROVE StreamBy(s)'
    <3>1. lease' = lease
      BY <2>2 DEF Claim
    <3>2. CASE object' = object
      BY <1>2, <2>0, <3>1, <3>2
    <3>3. CASE object' # object
      <4>1. object[h].state # "none" /\ object' = [object EXCEPT ![h].state = "deleting"]
        BY <2>2, <3>3 DEF Claim, Claimable
      <4>2. object'[h] \in Objects /\ object'[h].state = "deleting" /\ object'[h].lease = object[h].lease
        BY <1>1, <4>1 DEF Objects, ObjectStates
      <4>3. object' = [object EXCEPT ![h] = object'[h]]
        BY <1>1, <4>1
      <4> QED
        BY <1>1, <2>0, <3>1, <4>1, <4>2, <4>3, OtherLeases
    <3> QED
      BY <3>2, <3>3
  <2>3. ASSUME NEW h \in Handles, DropObject(h) PROVE StreamBy(s)'
    <3>1. lease' = lease /\ object[h].state = "deleting" /\ object' = [object EXCEPT ![h] = NoObject]
      BY <2>3 DEF DropObject, CronBy
    <3>2. NoObject \in Objects /\ NoObject.state = "none" /\ object[h].lease <= clock
      BY <3>1, Blanks DEF NoObject, Files, FileBy
    <3> HIDE DEF NoObject
    <3> QED
      BY <1>1, <2>0, <3>1, <3>2, OtherLeases
  <2>4. CASE \/ CronBegin \/ ExpireIngests \/ SelectDebts \/ DropRows \/ SelectCandidates \/ CronEnd \/ CronFails
             \/ \E h \in Handles : EraseDebt(h) \/ SettleDebt(h) \/ Erase(h)
    <3>1. UNCHANGED <<lease, object>>
      BY <2>4 DEF CronBegin, ExpireIngests, SelectDebts, DropRows, SelectCandidates, CronEnd, CronFails,
         EraseDebt, SettleDebt, Erase, table
    <3> QED
      BY <1>2, <2>0, <3>1
  <2> QED
    BY <1>7, <2>1, <2>2, <2>3, <2>4 DEF CronNext
<1>8. CASE AccountChanges \/ Tick \/ UNCHANGED vars
  BY <1>2, <1>8 DEF AccountChanges, Tick, vars, table, calls
<1> QED
  BY <1>3, <1>4, <1>5, <1>6, <1>7, <1>8 DEF Next

-----------------------------------------------------------------------------
(* What the cron has selected.                                              *)

\* What the pass relies on of a file, whoever else acts on it.
Settles(h) ==
  /\ ingest[h].state \in {"debt", "released"} =>
       /\ ingest'[h].state \in {"debt", "released"}
       /\ ingest[h].stopped => ingest'[h].stopped
  /\ object[h].state = "deleting" => object'[h].state = "deleting"
  /\ h \notin bucket /\ (ingest[h].stopped \/ object[h].state = "deleting") => h \notin bucket'

LEMMA CronFrame ==
  ASSUME TypeOK, TypeOK', CronBy, cron' = cron, clock <= clock', \A h \in Handles : Settles(h)
  PROVE  CronBy'
<1>1. clock \in Nat /\ clock' \in Nat /\ cron.now \in Nat
  BY TypesAre, Sizes DEF Types, Passes
<1>2. \A h \in cron.todo \cup cron.on : h \in Handles
  BY TypesAre DEF Types, Passes
<1>3. cron'.now <= clock'
  BY <1>1 DEF CronBy
<1>4. ASSUME cron.at = "settling"
      PROVE  /\ \A h \in cron.todo : /\ ingest'[h].state \in {"debt", "released"}
                                     /\ h \in cron.sure => ingest'[h].stopped
             /\ \A h \in cron.on : h \in cron.todo \cap cron.sure /\ h \notin bucket'
  BY <1>2, <1>4 DEF CronBy, Settles
<1>5. cron.at \in {"erasing", "dropping"} => \A h \in cron.on : object'[h].state = "deleting"
  BY <1>2 DEF CronBy, Settles
<1>6. cron.at = "dropping" => \A h \in cron.on : h \notin bucket'
  BY <1>2 DEF CronBy, Settles
<1> QED
  BY <1>3, <1>4, <1>5, <1>6 DEF CronBy

LEMMA WriterSettles ==
  ASSUME TypeOK, NEW h \in Handles, WriterBy(h), FileBy(h), IngestNext(h) \/ Land(h)
  PROVE  Settles(h)
<1> USE RowFields DEF Settles
<1>1. CASE OpenSlot(h) \/ ReadAccount(h) \/ ReserveFails(h) \/ StartPut(h) \/ BodyFails(h) \/ PutReturns(h)
           \/ PutFails(h) \/ PublishFails(h) \/ Catch(h) \/ LeaveSlot(h) \/ WriterDies(h)
  BY <1>1 DEF OpenSlot, ReadAccount, ReserveFails, StartPut, BodyFails, PutReturns, PutFails, PublishFails,
     Catch, LeaveSlot, WriterDies, table, r2
<1>2. CASE Reserve(h)
  BY <1>2 DEF Reserve, WriterBy, FileBy, Before, r2
<1>3. CASE Publish(h)
  BY <1>3 DEF Publish, MayPublish, WriterBy, FileBy, Busy, r2
<1>4. CASE MarkDebt(h)
  <2>1. writer[h].at = "marking" /\ UNCHANGED <<object, bucket>>
    BY <1>4 DEF MarkDebt, r2
  <2>2. CASE ingest[h].state \in {"none", "published"}
    BY <1>4, <2>1, <2>2 DEF MarkDebt
  <2>3. CASE ingest[h].state \notin {"none", "published"}
    <3>1. ingest'[h].state = "debt" /\ ~ingest[h].stopped
      BY <1>4, <2>1, <2>3 DEF MarkDebt, WriterBy, Owed, Ingests
    <3> QED
      BY <2>1, <3>1
  <2> QED
    BY <2>2, <2>3
<1>5. CASE EraseOwn(h)
  BY <1>5 DEF EraseOwn, table
<1>6. CASE SettleOwn(h)
  BY <1>6 DEF SettleOwn, Ingests, r2
<1>7. CASE Land(h)
  BY <1>7 DEF Land, table, FileBy
<1> QED
  BY <1>1, <1>2, <1>3, <1>4, <1>5, <1>6, <1>7 DEF IngestNext

LEMMA CronPasses ==
  ASSUME TypeOK, CronBy, CronNext \/ CronFails
  PROVE  CronBy'
<1> USE TypesAre DEF CronBy, Types, CronGoto, CronOnly
<1>0. clock' = clock /\ clock \in Nat /\ cron.now \in Nat /\ cron.now <= clock /\ cron \in Passes
      /\ cron.todo \subseteq Handles /\ cron.on \subseteq Handles /\ cron.at \in CronSteps
  <2>1. clock' = clock
    BY DEF CronNext, CronBegin, ExpireIngests, SelectDebts, DropRows, DropDownloads, SelectCandidates,
       CronEnd, EraseDebt, SettleDebt, Claim, Erase, DropObject, CronFails
  <2> QED
    BY <2>1, Sizes DEF Passes
<1> USE DEF Passes
<1>1. CASE CronBegin \/ CronEnd \/ CronFails
  <2>1. cron'.at \in {"debts", "idle"} /\ cron'.on = {} /\ cron'.now \in {clock, cron.now}
    BY <1>1 DEF CronBegin, CronEnd, CronFails, IdleCron
  <2> QED
    BY <1>0, <2>1
<1>2. CASE ExpireIngests
  <2>1. cron'.at = "owing" /\ cron'.on = cron.on /\ cron'.now = cron.now /\ cron.at = "debts"
    BY <1>0, <1>2 DEF ExpireIngests
  <2> QED
    BY <1>0, <2>1
<1>3. CASE SelectDebts
  <2>1. /\ cron.at = "owing" /\ cron'.at = "settling" /\ cron'.on = cron.on /\ cron'.now = cron.now
        /\ \A h \in cron'.todo : ingest'[h].state = "debt" /\ (h \in cron'.sure => ingest'[h].stopped)
    BY <1>0, <1>3 DEF SelectDebts, table
  <2> QED
    BY <1>0, <2>1
<1>4. CASE DropRows \/ DropDownloads \/ SelectCandidates
  <2>1. cron'.at \in {"downloads", "candidates", "purging"} /\ cron'.now = cron.now
    BY <1>0, <1>4 DEF DropRows, DropDownloads, SelectCandidates
  <2> QED
    BY <1>0, <2>1
<1>5. ASSUME NEW h \in Handles, EraseDebt(h) PROVE CronBy'
  <2>1. /\ cron.at = "settling" /\ cron'.at = "settling" /\ cron'.now = cron.now /\ cron'.sure = cron.sure
        /\ cron'.todo \subseteq cron.todo /\ h \in cron.todo
        /\ IF h \in cron.sure THEN cron'.on = {h} /\ cron'.todo = cron.todo ELSE cron'.on = {}
        /\ bucket' = bucket \ {h} /\ ingest' = ingest
    BY <1>0, <1>5 DEF EraseDebt, table
  <2> QED
    BY <1>0, <2>1
<1>6. ASSUME NEW h \in Handles, SettleDebt(h) PROVE CronBy'
  <2>1. /\ cron.at = "settling" /\ cron'.at = "settling" /\ cron'.now = cron.now /\ cron'.sure = cron.sure
        /\ cron'.todo = cron.todo \ {h} /\ cron'.on = {} /\ \A g \in Handles \ {h} : ingest'[g] = ingest[g]
    BY <1>0, <1>6 DEF SettleDebt
  <2> QED
    BY <1>0, <2>1
<1>7. ASSUME NEW h \in Handles, Claim(h) PROVE CronBy'
  <2>1. CASE cron'.at = "erasing"
    <3>1. cron.at = "purging"
      BY <1>7 DEF Claim
    <3>2. object' = [object EXCEPT ![h].state = "deleting"] /\ cron' = [cron EXCEPT !.at = "erasing", !.on = {h}]
      BY <1>0, <1>7, <2>1, <3>1 DEF Claim
    <3>3. object'[h].state = "deleting" /\ cron'.on = {h} /\ cron'.now = cron.now
      BY <1>0, <3>2, RowFields DEF Objects
    <3> QED
      BY <1>0, <2>1, <3>3
  <2>2. CASE cron'.at # "erasing"
    <3>1. cron'.at = "purging" /\ cron'.now = cron.now
      BY <1>0, <1>7, <2>2 DEF Claim
    <3> QED
      BY <1>0, <3>1
  <2> QED
    BY <2>1, <2>2
<1>8. ASSUME NEW h \in Handles, Erase(h) PROVE CronBy'
  <2>1. /\ cron.at = "erasing" /\ cron'.at = "dropping" /\ cron'.now = cron.now /\ cron'.on = cron.on
        /\ h \in cron.on /\ bucket' = bucket \ {h} /\ object' = object
    BY <1>0, <1>8 DEF Erase, table
  <2> QED
    BY <1>0, <2>1
<1>9. ASSUME NEW h \in Handles, DropObject(h) PROVE CronBy'
  <2>1. cron'.at = "purging" /\ cron'.now = cron.now
    BY <1>0, <1>9 DEF DropObject
  <2> QED
    BY <1>0, <2>1
<1> QED
  BY <1>1, <1>2, <1>3, <1>4, <1>5, <1>6, <1>7, <1>8, <1>9 DEF CronNext

LEMMA CronByStep ==
  ASSUME TypeOK, TypeOK', Files, Leased, CronBy, [Next]_vars
  PROVE  CronBy'
<1>0. clock <= clock'
  BY ClockGoesOn
<1>1. ASSUME NEW h \in Handles, IngestNext(h) \/ Land(h) PROVE CronBy'
  <2>1. cron' = cron
    BY <1>1 DEF IngestNext, OpenSlot, ReadAccount, Reserve, ReserveFails, StartPut, BodyFails, PutReturns, PutFails,
       Publish, PublishFails, Catch, MarkDebt, EraseOwn, SettleOwn, LeaveSlot, WriterDies, Land, calls
  <2>2. ASSUME NEW g \in Handles PROVE Settles(g)
    <3>1. CASE g = h
      BY <1>1, <3>1, WriterSettles DEF Files
    <3>2. CASE g # h
      BY <1>1, <3>2, OthersAreSame DEF Same, SameWriting, Settles
    <3> QED
      BY <3>1, <3>2
  <2> QED
    BY <1>0, <2>1, <2>2, CronFrame
<1>2. ASSUME ingest' = ingest, bucket' = bucket, cron' = cron,
             \A g \in Handles : object'[g].state = object[g].state
      PROVE  CronBy'
  <2>1. \A g \in Handles : Settles(g)
    BY <1>2 DEF Settles
  <2> QED
    BY <1>0, <1>2, <2>1, CronFrame
<1>3. ASSUME NEW h \in Handles, OperationNext(h) PROVE CronBy'
  <2>1. PICK o \in Objects : SetObject(h, o) /\ o.state = object[h].state
    BY <1>3, OperationIs DEF Files
  <2>2. \A g \in Handles : object'[g].state = object[g].state
    BY <2>1, TypesAre DEF SetObject, Types
  <2> QED
    BY <1>2, <2>1, <2>2 DEF SetObject, r2, calls
<1>4. ASSUME NEW s \in Streams, StreamNext(s) PROVE CronBy'
  <2>1. UNCHANGED <<ingest, bucket, cron>>
    BY <1>4 DEF StreamNext, ReadObject, Admit, Open, Release, LeaveStream, table, r2
  <2>2. ASSUME NEW g \in Handles PROVE object'[g].state = object[g].state
    <3>1. object' = object \/ \E h \in Handles, l \in Nat : object' = [object EXCEPT ![h].lease = l]
      <4>1. CASE Admit(s)
        BY <4>1, AdmitIs
      <4>2. CASE Release(s)
        BY <4>2, ReleaseIs
      <4> QED
        BY <1>4, <4>1, <4>2 DEF StreamNext, ReadObject, Open, LeaveStream, table
    <3> QED
      BY <3>1, RowFields DEF Objects
  <2> QED
    BY <1>2, <2>1, <2>2
<1>5. ASSUME NEW a \in Ackers, AckNext(a) PROVE CronBy'
  <2>1. UNCHANGED <<ingest, bucket, cron>>
    BY <1>5 DEF AckNext, BeginAck, ReadKnown, Record, LeaveAck, table, r2
  <2>2. object' = object \/ \E h \in Handles : object' = [object EXCEPT ![h].consumed = TRUE]
    BY <1>5, TypesAre DEF AckNext, BeginAck, ReadKnown, Record, LeaveAck, table, Types, AckRows
  <2>3. ASSUME NEW g \in Handles PROVE object'[g].state = object[g].state
    BY <2>2, RowFields DEF Objects
  <2> QED
    BY <1>2, <2>1, <2>3
<1>6. CASE CronNext \/ CronFails
  BY <1>6, CronPasses
<1>7. CASE AccountChanges \/ Tick \/ UNCHANGED vars
  BY <1>2, <1>7 DEF AccountChanges, Tick, vars, table, r2, calls
<1> QED
  BY <1>1, <1>3, <1>4, <1>5, <1>6, <1>7 DEF Next

-----------------------------------------------------------------------------
(* Acknowledgements, and the quota.                                         *)

LEMMA RecordIs ==
  ASSUME TypeOK, NEW a \in Ackers, Record(a)
  PROVE  \E h \in Handles, until \in Nat :
           /\ ack' = [ack EXCEPT ![h] = IF ack[h] = 0 THEN until ELSE ack[h]]
           /\ fresh' = IF ack[h] = 0 THEN [fresh EXCEPT ![h] = until] ELSE fresh
<1> DEFINE h == acker[a].h
           until == acker[a].now + Retain
<1>1. h \in Handles /\ until \in Nat
  BY TypesAre, Sizes DEF Types, AckRows
<1>2. /\ ack' = [ack EXCEPT ![h] = IF ack[h] = 0 THEN until ELSE ack[h]]
      /\ fresh' = IF ack[h] = 0 THEN [fresh EXCEPT ![h] = until] ELSE fresh
  BY <1>1, TypesAre DEF Record, Types
<1> HIDE DEF h, until
<1> QED
  BY <1>1, <1>2

LEMMA AcksStay ==
  ASSUME [Next]_vars, \A a \in Ackers : ~Record(a), ~DropDownloads
  PROVE  UNCHANGED <<ack, fresh>>
<1>1. ASSUME NEW h \in Handles, IngestNext(h) \/ Land(h) \/ OperationNext(h) PROVE UNCHANGED <<ack, fresh>>
  BY <1>1 DEF IngestNext, OpenSlot, ReadAccount, Reserve, ReserveFails, StartPut, BodyFails, PutReturns,
     PutFails, Publish, PublishFails, Catch, MarkDebt, EraseOwn, SettleOwn, LeaveSlot, WriterDies, Land,
     OperationNext, ExtendExpiry, ReserveFor, Consume, ReleaseReserved, SetObject, table
<1>2. ASSUME NEW s \in Streams, StreamNext(s) PROVE UNCHANGED <<ack, fresh>>
  BY <1>2 DEF StreamNext, ReadObject, Admit, Open, Release, LeaveStream, table
<1>3. ASSUME NEW a \in Ackers, AckNext(a) PROVE UNCHANGED <<ack, fresh>>
  BY <1>3 DEF AckNext, BeginAck, ReadKnown, LeaveAck, table
<1>4. ASSUME CronNext \/ CronFails PROVE UNCHANGED <<ack, fresh>>
  BY <1>4 DEF CronNext, CronBegin, ExpireIngests, SelectDebts, DropRows, SelectCandidates,
     CronEnd, EraseDebt, SettleDebt, Claim, Erase, DropObject, CronFails, CronOnly, table
<1>5. ASSUME AccountChanges \/ Tick \/ UNCHANGED vars PROVE UNCHANGED <<ack, fresh>>
  BY <1>5 DEF AccountChanges, Tick, vars, table
<1> QED
  BY <1>1, <1>2, <1>3, <1>4, <1>5 DEF Next

LEMMA RecordedStep ==
  ASSUME TypeOK, TypeOK', Recorded, CronBy, [Next]_vars
  PROVE  Recorded' /\ \A h \in Handles : fresh'[h] # fresh[h] => fresh[h] <= clock
<1> SUFFICES ASSUME NEW h \in Handles
             PROVE  /\ fresh'[h] <= ack'[h] \/ fresh'[h] <= clock'
                    /\ fresh'[h] # fresh[h] => fresh[h] <= clock
  BY DEF Recorded
<1>1. /\ clock \in Nat /\ clock' \in Nat /\ clock <= clock' /\ ack[h] \in Nat /\ fresh[h] \in Nat
      /\ ack \in [Handles -> Nat] /\ fresh \in [Handles -> Nat]
  BY ClockGoesOn, TypesAre DEF Types
<1>2. fresh[h] <= ack[h] \/ fresh[h] <= clock
  BY DEF Recorded
<1>3. ASSUME NEW a \in Ackers, Record(a)
      PROVE  /\ fresh'[h] <= ack'[h] \/ fresh'[h] <= clock'
             /\ fresh'[h] # fresh[h] => fresh[h] <= clock
  <2>1. PICK g \in Handles, until \in Nat :
          /\ ack' = [ack EXCEPT ![g] = IF ack[g] = 0 THEN until ELSE ack[g]]
          /\ fresh' = IF ack[g] = 0 THEN [fresh EXCEPT ![g] = until] ELSE fresh
    BY <1>3, RecordIs
  <2>2. CASE g = h /\ ack[h] = 0
    BY <1>1, <1>2, <2>1, <2>2
  <2>3. CASE ~(g = h /\ ack[h] = 0)
    <3>1. ack'[h] = ack[h] /\ fresh'[h] = fresh[h]
      BY <1>1, <2>1, <2>3
    <3> QED
      BY <1>1, <1>2, <3>1
  <2> QED
    BY <2>2, <2>3
<1>4. CASE DropDownloads
  <2>1. fresh' = fresh /\ (ack'[h] = ack[h] \/ ack[h] <= cron.now)
    BY <1>4 DEF DropDownloads, AckOver, CronOnly
  <2>2. cron.now \in Nat /\ cron.now <= clock
    BY TypesAre DEF CronBy, Types, Passes
  <2> QED
    BY <1>1, <1>2, <2>1, <2>2
<1>5. CASE UNCHANGED <<ack, fresh>>
  BY <1>1, <1>2, <1>5
<1> QED
  BY <1>3, <1>4, <1>5, AcksStay

LEMMA QuotaFrame ==
  ASSUME Quota, IsFiniteSet(Slotted'), Stored' \subseteq Stored, Owing' \subseteq Owing
  PROVE  Quota'
<1>1. /\ IsFiniteSet(Stored') /\ Cardinality(Stored') <= Cardinality(Stored)
      /\ IsFiniteSet(Owing') /\ Cardinality(Owing') <= Cardinality(Owing)
  BY FS_Subset DEF Quota
<1>2. Cardinality(Stored') \in Nat /\ Cardinality(Stored) \in Nat /\ Cardinality(Owing') \in Nat /\ Cardinality(Owing) \in Nat
  BY <1>1, FS_CardinalityType DEF Quota
<1>3. Cardinality(Stored') + Cardinality(Owing') <= Bytes
  BY <1>1, <1>2, Sizes DEF Quota
<1> QED
  BY <1>1, <1>3 DEF Quota

\* A slot is charged to one file at a time, and only OpenSlot adds one.
LEMMA SlottedStep ==
  ASSUME TypeOK, IsFiniteSet(Slotted), [Next]_vars
  PROVE  IsFiniteSet(Slotted')
<1> USE TypesAre DEF Types
<1>1. ASSUME NEW h \in Handles, OpenSlot(h) PROVE IsFiniteSet(Slotted')
  <2>1. Slotted' \subseteq Slotted \cup {h}
    BY <1>1 DEF OpenSlot, Slotted
  <2> QED
    BY <2>1, FS_AddElement, FS_Subset
<1>2. ASSUME \A g \in Handles : slot'[g].bytes \in {0, slot[g].bytes} PROVE IsFiniteSet(Slotted')
  <2>1. Slotted' \subseteq Slotted
    BY <1>2 DEF Slotted
  <2> QED
    BY <2>1, FS_Subset
<1>3. ASSUME slot' = slot PROVE IsFiniteSet(Slotted')
  BY <1>2, <1>3
<1>4. ASSUME NEW h \in Handles, Reserve(h) \/ LeaveSlot(h) PROVE IsFiniteSet(Slotted')
  <2>1. ASSUME NEW g \in Handles PROVE slot'[g].bytes \in {0, slot[g].bytes}
    <3>1. slot \in [Handles -> Slots] /\ slot[g] \in Slots /\ NoSlot.bytes = 0
      BY DEF NoSlot
    <3>2. CASE Reserve(h)
      BY <3>1, <3>2 DEF Reserve, Slots
    <3>3. CASE LeaveSlot(h)
      BY <3>1, <3>3 DEF LeaveSlot
    <3> QED
      BY <1>4, <3>2, <3>3
  <2> QED
    BY <1>2, <2>1
<1>5. CASE DropRows
  <2>1. ASSUME NEW g \in Handles PROVE slot'[g].bytes \in {0, slot[g].bytes}
    BY <1>5 DEF DropRows, NoSlot
  <2> QED
    BY <1>2, <2>1
<1>6. ASSUME NEW h \in Handles, IngestNext(h) \/ Land(h) \/ OperationNext(h), ~OpenSlot(h), ~Reserve(h), ~LeaveSlot(h)
      PROVE  slot' = slot
  BY <1>6 DEF IngestNext, ReadAccount, ReserveFails, StartPut, BodyFails, PutReturns, PutFails, Publish,
     PublishFails, Catch, MarkDebt, EraseOwn, SettleOwn, WriterDies, Land, OperationNext, ExtendExpiry,
     ReserveFor, Consume, ReleaseReserved, SetObject, table
<1>7. ASSUME NEW s \in Streams, StreamNext(s) PROVE slot' = slot
  BY <1>7 DEF StreamNext, ReadObject, Admit, Open, Release, LeaveStream, table
<1>8. ASSUME NEW a \in Ackers, AckNext(a) PROVE slot' = slot
  BY <1>8 DEF AckNext, BeginAck, ReadKnown, Record, LeaveAck, table
<1>9. ASSUME CronNext \/ CronFails, ~DropRows PROVE slot' = slot
  BY <1>9 DEF CronNext, CronBegin, ExpireIngests, SelectDebts, DropDownloads, SelectCandidates,
     CronEnd, EraseDebt, SettleDebt, Claim, Erase, DropObject, CronFails, CronOnly, table
<1>10. ASSUME AccountChanges \/ Tick \/ UNCHANGED vars PROVE slot' = slot
  BY <1>10 DEF AccountChanges, Tick, vars, table
<1> QED
  BY <1>1, <1>3, <1>4, <1>5, <1>6, <1>7, <1>8, <1>9, <1>10 DEF Next

\* The batch that reserves asks for one more than everything charged now.
LEMMA ReserveQuota ==
  ASSUME TypeOK, Quota, NEW h \in Handles, Reserve(h)
  PROVE  /\ IsFiniteSet(Stored') /\ IsFiniteSet(Owing')
         /\ Cardinality(Stored') + Cardinality(Owing') <= Bytes
<1> DEFINE zeroed == [slot EXCEPT ![h].bytes = 0]
           Rest == {g \in Handles : zeroed[g].bytes = 1}
<1>1. Cardinality(Stored) + Cardinality(Owing) + Cardinality(Rest) + 1 <= Bytes
  BY DEF Reserve, Charged, Stored, Owing
<1>2. Cardinality(Rest) \in Nat
  <2>1. Rest \subseteq Slotted
    BY TypesAre DEF Types, Slots, Slotted
  <2>2. IsFiniteSet(Rest)
    BY <2>1, FS_Subset DEF Quota
  <2> HIDE DEF Rest
  <2> QED
    BY <2>2, FS_CardinalityType
<1>3. Stored' = Stored /\ Owing' \subseteq Owing \cup {h}
  BY TypesAre DEF Reserve, Stored, Owing, Types
<1>4. IsFiniteSet(Stored) /\ IsFiniteSet(Owing)
  BY DEF Quota
<1>5. IsFiniteSet(Owing \cup {h}) /\ Cardinality(Owing \cup {h}) <= Cardinality(Owing) + 1
  <2> HIDE DEF zeroed, Rest
  <2>1. Cardinality(Owing) \in Nat
    BY <1>4, FS_CardinalityType
  <2>2. /\ IsFiniteSet(Owing \cup {h})
        /\ Cardinality(Owing \cup {h}) = Cardinality(Owing) \/ Cardinality(Owing \cup {h}) = Cardinality(Owing) + 1
    BY <1>4, FS_AddElement
  <2> QED
    BY <2>1, <2>2
<1>6. IsFiniteSet(Owing') /\ Cardinality(Owing') <= Cardinality(Owing \cup {h})
  BY <1>3, <1>5, FS_Subset
<1>7. /\ Cardinality(Stored) \in Nat /\ Cardinality(Owing) \in Nat /\ Cardinality(Owing') \in Nat
      /\ Cardinality(Owing \cup {h}) \in Nat
  BY <1>4, <1>5, <1>6, FS_CardinalityType
<1>8. Cardinality(Stored) + Cardinality(Owing') <= Bytes
  <2> HIDE DEF Rest
  <2> QED
    BY <1>1, <1>2, <1>5, <1>6, <1>7, Sizes
<1> QED
  BY <1>3, <1>4, <1>6, <1>8

\* A file that is published is no longer owed: what was charged to its ingest is charged to it.
LEMMA PublishQuota ==
  ASSUME TypeOK, Quota, NEW h \in Handles, Publish(h)
  PROVE  /\ IsFiniteSet(Stored') /\ IsFiniteSet(Owing')
         /\ Cardinality(Stored') + Cardinality(Owing') <= Bytes
<1>1. h \in Owing /\ Stored' \subseteq Stored \cup {h} /\ Owing' \subseteq Owing \ {h}
  <2>1. h \in Owing
    BY DEF Publish, MayPublish, Owing
  <2>2. Stored' \subseteq Stored \cup {h}
    BY TypesAre DEF Publish, Types, Stored
  <2>3. ingest'[h].state = "published" /\ \A g \in Handles \ {h} : ingest'[g] = ingest[g]
    BY RowFields DEF Publish, Ingests
  <2> QED
    BY <2>1, <2>2, <2>3 DEF Owing
<1>2. IsFiniteSet(Stored) /\ IsFiniteSet(Owing)
  BY DEF Quota
<1>3. IsFiniteSet(Stored \cup {h}) /\ Cardinality(Stored \cup {h}) <= Cardinality(Stored) + 1
  BY <1>2, FS_AddElement, FS_CardinalityType
<1>4. IsFiniteSet(Owing \ {h}) /\ Cardinality(Owing \ {h}) = Cardinality(Owing) - 1
  BY <1>1, <1>2, FS_RemoveElement
<1>5. /\ IsFiniteSet(Stored') /\ Cardinality(Stored') <= Cardinality(Stored \cup {h})
      /\ IsFiniteSet(Owing') /\ Cardinality(Owing') <= Cardinality(Owing \ {h})
  BY <1>1, <1>3, <1>4, FS_Subset
<1>6. /\ Cardinality(Stored) \in Nat /\ Cardinality(Owing) \in Nat /\ Cardinality(Stored') \in Nat
      /\ Cardinality(Owing') \in Nat /\ Cardinality(Stored \cup {h}) \in Nat /\ Cardinality(Owing \ {h}) \in Nat
  BY <1>2, <1>3, <1>4, <1>5, FS_CardinalityType
<1>7. Cardinality(Stored) + Cardinality(Owing) <= Bytes
  BY DEF Quota
<1> QED
  BY <1>3, <1>4, <1>5, <1>6, <1>7, Sizes

\* Every other step charges for nothing that was not charged for before.
LEMMA ChargesShrink ==
  ASSUME TypeOK, Files, Leased, [Next]_vars, \A h \in Handles : ~Reserve(h) /\ ~Publish(h)
  PROVE  Stored' \subseteq Stored /\ Owing' \subseteq Owing
<1> USE RowFields
<1>1. ASSUME NEW h \in Handles, IngestNext(h) \/ Land(h) PROVE Stored' \subseteq Stored /\ Owing' \subseteq Owing
  <2>1. object' = object
    BY <1>1 DEF IngestNext, OpenSlot, ReadAccount, ReserveFails, StartPut, BodyFails, PutReturns, PutFails,
       PublishFails, Catch, MarkDebt, EraseOwn, SettleOwn, LeaveSlot, WriterDies, Land, table
  <2>2. CASE MarkDebt(h)
    <3>1. WriterBy(h)
      BY DEF Files
    <3>2. \A g \in Handles : ingest'[g] = ingest[g] \/ ingest[g].state \in {"active", "debt"}
      BY <2>2, <3>1 DEF MarkDebt, WriterBy, Owed
    <3> QED
      BY <2>1, <3>2 DEF Stored, Owing
  <2>3. CASE SettleOwn(h)
    <3>1. \A g \in Handles : ingest'[g] = ingest[g] \/ ingest[g].state = "debt"
      BY <2>3 DEF SettleOwn
    <3> QED
      BY <2>1, <3>1 DEF Stored, Owing
  <2>4. CASE ~MarkDebt(h) /\ ~SettleOwn(h)
    <3>1. ingest' = ingest
      BY <1>1, <2>4 DEF IngestNext, OpenSlot, ReadAccount, ReserveFails, StartPut, BodyFails, PutReturns, PutFails,
         PublishFails, Catch, EraseOwn, LeaveSlot, WriterDies, Land, table
    <3> QED
      BY <2>1, <3>1 DEF Stored, Owing
  <2> QED
    BY <2>2, <2>3, <2>4
<1>2. ASSUME ingest' = ingest, \A g \in Handles : object'[g].state = object[g].state
      PROVE  Stored' \subseteq Stored /\ Owing' \subseteq Owing
  BY <1>2 DEF Stored, Owing
<1>3. ASSUME NEW h \in Handles, OperationNext(h) PROVE Stored' \subseteq Stored /\ Owing' \subseteq Owing
  <2>1. PICK o \in Objects : SetObject(h, o) /\ o.state = object[h].state
    BY <1>3, OperationIs DEF Files
  <2> QED
    BY <1>2, <2>1 DEF SetObject
<1>4. ASSUME NEW s \in Streams, StreamNext(s) PROVE Stored' \subseteq Stored /\ Owing' \subseteq Owing
  <2>1. ingest' = ingest
    BY <1>4 DEF StreamNext, ReadObject, Admit, Open, Release, LeaveStream, table
  <2>2. object' = object \/ \E h \in Handles, l \in Nat : object' = [object EXCEPT ![h].lease = l]
    <3>1. CASE Admit(s)
      BY <3>1, AdmitIs
    <3>2. CASE Release(s)
      BY <3>2, ReleaseIs
    <3> QED
      BY <1>4, <3>1, <3>2 DEF StreamNext, ReadObject, Open, LeaveStream, table
  <2>3. ASSUME NEW g \in Handles PROVE object'[g].state = object[g].state
    BY <2>2 DEF Objects
  <2> QED
    BY <1>2, <2>1, <2>3
<1>5. ASSUME NEW a \in Ackers, AckNext(a) PROVE Stored' \subseteq Stored /\ Owing' \subseteq Owing
  <2>1. ingest' = ingest
    BY <1>5 DEF AckNext, BeginAck, ReadKnown, Record, LeaveAck, table
  <2>2. object' = object \/ \E h \in Handles : object' = [object EXCEPT ![h].consumed = TRUE]
    BY <1>5, TypesAre DEF AckNext, BeginAck, ReadKnown, Record, LeaveAck, table, Types, AckRows
  <2>3. ASSUME NEW g \in Handles PROVE object'[g].state = object[g].state
    BY <2>2 DEF Objects
  <2> QED
    BY <1>2, <2>1, <2>3
<1>6. CASE CronNext \/ CronFails
  <2>1. ASSUME NEW g \in Handles
        PROVE  /\ object'[g].state # "none" => object[g].state # "none"
               /\ ingest'[g].state \in {"active", "debt"} => ingest[g].state \in {"active", "debt"}
    <3>1. CASE ExpireIngests
      BY <3>1 DEF ExpireIngests
    <3>2. CASE DropRows
      BY <3>2 DEF DropRows, NoIngest
    <3>3. ASSUME NEW h \in Handles, SettleDebt(h)
          PROVE  object'[g] = object[g] /\ (ingest'[g] = ingest[g] \/ ingest[g].state = "debt")
      BY <3>3 DEF SettleDebt
    <3>4. ASSUME NEW h \in Handles, Claim(h)
          PROVE  ingest'[g] = ingest[g] /\ (object'[g] = object[g] \/ object[g].state # "none")
      BY <3>4 DEF Claim, Claimable
    <3>5. ASSUME NEW h \in Handles, DropObject(h)
          PROVE  ingest'[g] = ingest[g] /\ (object'[g] = object[g] \/ object'[g].state = "none")
      BY <3>5 DEF DropObject, NoObject
    <3>6. ASSUME NEW h \in Handles, EraseDebt(h) \/ Erase(h)
          PROVE  ingest' = ingest /\ object' = object
      BY <3>6 DEF EraseDebt, Erase, table
    <3>7. ASSUME CronBegin \/ SelectDebts \/ DropDownloads \/ SelectCandidates \/ CronEnd \/ CronFails
          PROVE  ingest' = ingest /\ object' = object
      BY <3>7 DEF CronBegin, SelectDebts, DropDownloads, SelectCandidates, CronEnd, CronFails, table
    <3> QED
      BY <1>6, <3>1, <3>2, <3>3, <3>4, <3>5, <3>6, <3>7 DEF CronNext
  <2> QED
    BY <2>1 DEF Stored, Owing
<1>7. CASE AccountChanges \/ Tick \/ UNCHANGED vars
  BY <1>2, <1>7 DEF AccountChanges, Tick, vars, table
<1> QED
  BY <1>1, <1>3, <1>4, <1>5, <1>6, <1>7 DEF Next

LEMMA QuotaStep ==
  ASSUME TypeOK, Files, Leased, Quota, [Next]_vars
  PROVE  Quota'
<1>1. IsFiniteSet(Slotted')
  BY SlottedStep DEF Quota
<1>2. CASE \E h \in Handles : Reserve(h) \/ Publish(h)
  BY <1>1, <1>2, ReserveQuota, PublishQuota DEF Quota
<1>3. CASE ~\E h \in Handles : Reserve(h) \/ Publish(h)
  BY <1>1, <1>3, ChargesShrink, QuotaFrame
<1> QED
  BY <1>2, <1>3

-----------------------------------------------------------------------------
(* The theorems.                                                            *)

LEMMA InvInit == Init => StagingInv
<1> SUFFICES ASSUME Init PROVE StagingInv
  OBVIOUS
<1>1. TypeOK
  BY TypesInit
<1>2. Files
  BY DEF Init, Files, WriterBy, FileBy, Owed, Absent, Before, Busy, Catching, NewWriter, NoIngest, NoObject
<1>3. Leased
  <2>1. \A s \in Streams : lease[s] = 0 /\ stream[s].h \in Handles /\ stream[s].at = "idle"
    BY <1>1, TypesAre DEF Init, Idle, Types, StreamRows
  <2> QED
    BY <2>1 DEF Init, Leased, StreamBy, NoObject
<1>4. CronBy
  BY DEF Init, CronBy, IdleCron
<1>5. Recorded
  BY DEF Init, Recorded
<1>6. Quota
  <2>1. Stored = {} /\ Owing = {} /\ Slotted = {}
    BY DEF Init, Stored, Owing, Slotted, NoObject, NoIngest, NoSlot
  <2> QED
    BY <2>1, FS_EmptySet, Sizes DEF Quota
<1> QED
  BY <1>1, <1>2, <1>3, <1>4, <1>5, <1>6 DEF StagingInv

LEMMA InvStep == StagingInv /\ [Next]_vars => StagingInv'
<1> SUFFICES ASSUME StagingInv, [Next]_vars PROVE StagingInv'
  OBVIOUS
<1>1. TypeOK /\ Files /\ Leased /\ CronBy /\ Recorded /\ Quota
  BY DEF StagingInv
<1>2. TypeOK'
  BY <1>1, TypesStep
<1>3. Files' /\ Leased' /\ CronBy' /\ Recorded' /\ Quota'
  BY <1>1, <1>2, FilesStep, LeasedStep, CronByStep, RecordedStep, QuotaStep
<1> QED
  BY <1>2, <1>3 DEF StagingInv

\* What is followed of every file holds in every state, for every set of handles, streams and
\* acknowledgements: where its writer is, its rows agree with the bucket; the leases cover the
\* streams; what the cron has selected is still so when it comes to it; what is stored or may
\* still be stored is within the quota.
THEOREM StagingInvariant == Spec => []StagingInv
<1> QED
  BY InvInit, InvStep, PTL DEF Spec

\* Every table and every request keeps its type.
THEOREM StagingIsTyped == Spec => []TypeOK
<1>1. StagingInv => TypeOK
  BY DEF StagingInv
<1> QED
  BY <1>1, StagingInvariant, PTL

\* Whoever is offered a file, or was given a hold on it, finds it: neither the catch of ingest,
\* nor the debt job, nor the purge takes the bytes of a row that somebody may still read.
THEOREM FilesStay == Spec => []FilesAreThere
<1>1. StagingInv => FilesAreThere
  <2> SUFFICES ASSUME StagingInv PROVE FilesAreThere
    OBVIOUS
  <2>1. \A h \in Handles : FileBy(h)
    BY DEF StagingInv, Files
  <2>2. OfferedIsStored
    BY <2>1 DEF OfferedIsStored, FileBy
  <2>3. ASSUME NEW s \in Streams, lease[s] > clock
        PROVE  /\ object[stream[s].h].lease >= lease[s]
               /\ stream[s].h \in bucket
    <3> DEFINE h == stream[s].h
    <3>1. /\ h \in Handles /\ object[h].lease \in Nat /\ lease[s] \in Nat /\ clock \in Nat
          /\ object[h].state \in ObjectStates
      BY TypesAre, Sizes DEF StagingInv, Types, StreamRows, Objects
    <3>2. object[h].state # "none" /\ lease[s] <= object[h].lease
      BY <2>3, <3>1 DEF StagingInv, Leased, StreamBy
    <3>3. object[h].state # "deleting"
      BY <2>1, <2>3, <3>1, <3>2 DEF FileBy
    <3> QED
      BY <2>1, <3>1, <3>2, <3>3 DEF FileBy, ObjectStates
  <2>4. LeaseCoversStreams /\ HolderCanRead
    BY <2>1, <2>3 DEF LeaseCoversStreams, HolderCanRead, FileBy
  <2> QED
    BY <2>2, <2>4 DEF FilesAreThere
<1> QED
  BY <1>1, StagingInvariant, PTL

\* Whatever is in the bucket, or may still come there from a put nobody waits for, is charged
\* to a row, and all of it together is within the owner's quota.
THEOREM BytesAreCharged == Spec => []StorageIsCharged
<1>1. StagingInv => StorageIsCharged
  <2> SUFFICES ASSUME StagingInv PROVE StorageIsCharged
    OBVIOUS
  <2>1. bucket \subseteq Handles /\ flying \subseteq Handles
    BY TypesAre DEF StagingInv, Types
  <2>2. NothingUncharged
    BY <2>1 DEF StagingInv, Files, FileBy, Absent, NothingUncharged
  <2>3. bucket \cup flying \subseteq Stored \cup Owing
    BY <2>1, <2>2 DEF NothingUncharged, Stored, Owing
  <2>4. /\ IsFiniteSet(Stored) /\ IsFiniteSet(Owing)
        /\ Cardinality(Stored) + Cardinality(Owing) <= Bytes
    BY DEF StagingInv, Quota
  <2>5. /\ IsFiniteSet(Stored \cup Owing)
        /\ Cardinality(Stored \cup Owing) = Cardinality(Stored) + Cardinality(Owing) - Cardinality(Stored \cap Owing)
    BY <2>4, FS_Union
  <2>6. IsFiniteSet(Stored \cap Owing)
    BY <2>4, FS_Subset
  <2>7. /\ IsFiniteSet(bucket \cup flying)
        /\ Cardinality(bucket \cup flying) <= Cardinality(Stored \cup Owing)
    BY <2>3, <2>5, FS_Subset
  <2>8. /\ Cardinality(Stored) \in Nat /\ Cardinality(Owing) \in Nat /\ Cardinality(Stored \cap Owing) \in Nat
        /\ Cardinality(Stored \cup Owing) \in Nat /\ Cardinality(bucket \cup flying) \in Nat
    BY <2>4, <2>5, <2>6, <2>7, FS_CardinalityType
  <2>9. StoredWithinQuota
    BY <2>4, <2>5, <2>7, <2>8, Sizes DEF StoredWithinQuota
  <2> QED
    BY <2>2, <2>9 DEF StorageIsCharged
<1> QED
  BY <1>1, StagingInvariant, PTL

\* An acknowledgement is answered as new at most once in its retention: the row that says so
\* outlives the object and every race between acknowledgements and the cron.
THEOREM AcknowledgementsAreOnce == Spec => AcknowledgedOnce
<1>1. StagingInv /\ [Next]_vars => [\A h \in Handles : fresh'[h] # fresh[h] => fresh[h] <= clock]_vars
  <2> SUFFICES ASSUME StagingInv, [Next]_vars
               PROVE  \A h \in Handles : fresh'[h] # fresh[h] => fresh[h] <= clock
    OBVIOUS
  <2>1. TypeOK /\ TypeOK' /\ Recorded /\ CronBy
    BY InvStep DEF StagingInv
  <2> QED
    BY <2>1, RecordedStep
<1> QED
  BY <1>1, StagingInvariant, PTL DEF Spec, AcknowledgedOnce

-----------------------------------------------------------------------------
(* Staging implements Shelf: each step is a step of Shelf's or none.        *)

LEMMA ShelfIs ==
  ASSUME NEW h \in Handles
  PROVE  /\ Shown[h] = (IF object[h].state = "available" THEN "offered"
                        ELSE IF writer[h].at \in Before \cup Busy THEN "awaited" ELSE "gone")
         /\ Shown'[h] = (IF object'[h].state = "available" THEN "offered"
                         ELSE IF writer'[h].at \in Before \cup Busy THEN "awaited" ELSE "gone")
         /\ (object[h].state = "available" => Used[h] = object[h].consumed)
         /\ (object[h].state # "available" => Used[h] = FALSE)
         /\ (object'[h].state = "available" => Used'[h] = object'[h].consumed)
         /\ (object'[h].state # "available" => Used'[h] = FALSE)
         /\ InUse[h] = object[h].reserved /\ InUse'[h] = object'[h].reserved
         /\ ReadingBy[h] = {s \in Streams : stream[s].h = h /\ lease[s] > clock}
         /\ ReadingBy'[h] = {s \in Streams : stream'[s].h = h /\ lease'[s] > clock'}
<1>1. Before \cup Busy = {"idle", "slot", "account", "reserved", "putting", "commit"}
  BY DEF Before, Busy
<1> QED
  BY <1>1 DEF Shown, Used, InUse, ReadingBy

\* What Shelf has of the files is a function of the files.
LEMMA ShelfStays ==
  /\ ReadingBy' \in [Handles -> SUBSET Streams]
  /\ ((\A g \in Handles : Shown'[g] = Shown[g]) => Shown' = Shown)
  /\ ((\A g \in Handles : Used'[g] = Used[g]) => Used' = Used)
  /\ ((\A g \in Handles : InUse'[g] = InUse[g]) => InUse' = InUse)
BY DEF Shown, Used, InUse, ReadingBy

LEMMA ShelfChanges ==
  ASSUME NEW h \in Handles
  PROVE  /\ ((\A g \in Handles \ {h} : Shown'[g] = Shown[g]) => Shown' = [Shown EXCEPT ![h] = Shown'[h]])
         /\ ((\A g \in Handles \ {h} : Used'[g] = Used[g]) => Used' = [Used EXCEPT ![h] = Used'[h]])
         /\ ((\A g \in Handles \ {h} : InUse'[g] = InUse[g]) => InUse' = [InUse EXCEPT ![h] = InUse'[h]])
         /\ ((\A g \in Handles \ {h} : ReadingBy'[g] = ReadingBy[g])
               => ReadingBy' = [ReadingBy EXCEPT ![h] = ReadingBy'[h]])
BY DEF Shown, Used, InUse, ReadingBy

\* What concerns h as Shelf has it, the readers apart, stays.
Stays(h) == Shown'[h] = Shown[h] /\ Used'[h] = Used[h] /\ InUse'[h] = InUse[h]

LEMMA RowStays ==
  ASSUME NEW h \in Handles, object'[h].state = object[h].state, object'[h].consumed = object[h].consumed,
         object'[h].reserved = object[h].reserved, writer'[h] = writer[h]
  PROVE  Stays(h)
BY ShelfIs DEF Stays

LEMMA ReadersLeave ==
  ASSUME \A h \in Handles : Stays(h) /\ ReadingBy'[h] \subseteq ReadingBy[h]
  PROVE  Promise!Next
<1>1. UNCHANGED <<Shown, Used, InUse>>
  BY ShelfStays DEF Stays
<1>2. Promise!Leave
  BY <1>1, ShelfStays DEF Promise!Leave
<1> QED
  BY <1>2 DEF Promise!Next

LEMMA NobodyReads ==
  ASSUME UNCHANGED <<stream, lease, clock>>
  PROVE  ReadingBy' = ReadingBy
BY DEF ReadingBy

\* Nobody has anything of a file that is still awaited.
LEMMA AwaitedIsNew ==
  ASSUME TypeOK, Files, NEW h \in Handles, Shown[h] = "awaited"
  PROVE  object[h] = NoObject /\ writer[h].at \in Before \cup Busy /\ Used[h] = FALSE /\ InUse[h] = FALSE
<1>1. object[h].state # "available" /\ writer[h].at \in Before \cup Busy
  BY ShelfIs
<1>2. object[h] = NoObject
  BY <1>1, RowFields DEF Files, FileBy, Before, Busy
<1>3. NoObject.reserved = FALSE
  BY DEF NoObject
<1> QED
  BY <1>1, <1>2, <1>3, ShelfIs

LEMMA IngestKeeps ==
  ASSUME TypeOK, Files, NEW h \in Handles, IngestNext(h) \/ Land(h)
  PROVE  Promise!Next
<1>1. ReadingBy' = ReadingBy
  <2>1. UNCHANGED <<stream, lease, clock>>
    BY DEF IngestNext, OpenSlot, ReadAccount, Reserve, ReserveFails, StartPut, BodyFails, PutReturns, PutFails,
       Publish, PublishFails, Catch, MarkDebt, EraseOwn, SettleOwn, LeaveSlot, WriterDies, Land, table, calls
  <2> QED
    BY <2>1, NobodyReads
<1>2. \A g \in Handles \ {h} : Stays(g)
  BY OthersAreSame, RowStays DEF Same, SameWriting
<1>3. CASE Publish(h)
  <2>1. Shown[h] = "awaited"
    BY <1>3, RowFields, ShelfIs DEF Publish, Busy, Files, FileBy
  <2>2. object'[h].state = "available" /\ object'[h].consumed = FALSE /\ object'[h].reserved = FALSE
    BY <1>3, RowFields DEF Publish, NoObject
  <2>3. Shown'[h] = "offered" /\ Used'[h] = Used[h] /\ InUse'[h] = InUse[h]
    BY <2>1, <2>2, ShelfIs, AwaitedIsNew
  <2>4. Shown' = [Shown EXCEPT ![h] = "offered"]
    BY <1>2, <2>3, ShelfChanges DEF Stays
  <2>5. UNCHANGED <<Used, InUse>>
    BY <1>2, <2>3, ShelfStays DEF Stays
  <2>6. Promise!Offer(h)
    BY <1>1, <2>1, <2>4, <2>5 DEF Promise!Offer
  <2> QED
    BY <2>6 DEF Promise!Next
<1>4. CASE ~Publish(h)
  <2>1. object' = object
    BY <1>4 DEF IngestNext, OpenSlot, ReadAccount, Reserve, ReserveFails, StartPut, BodyFails, PutReturns,
       PutFails, PublishFails, Catch, MarkDebt, EraseOwn, SettleOwn, LeaveSlot, WriterDies, Land, table
  <2>2. Used' = Used /\ InUse' = InUse
    BY <2>1 DEF Used, InUse
  <2>3. CASE Shown'[h] = Shown[h]
    BY <1>1, <1>2, <2>2, <2>3, ReadersLeave DEF Stays
  <2>4. CASE Shown'[h] # Shown[h]
    <3>1. Shown[h] = "awaited" /\ Shown'[h] = "gone"
      BY <2>1, <2>4, NeverBack, ShelfIs
    <3>2. Shown' = [Shown EXCEPT ![h] = "gone"]
      BY <1>2, <3>1, ShelfChanges DEF Stays
    <3>3. Promise!Miss(h)
      BY <1>1, <2>2, <3>1, <3>2 DEF Promise!Miss
    <3> QED
      BY <3>3 DEF Promise!Next
  <2> QED
    BY <2>3, <2>4
<1> QED
  BY <1>3, <1>4

\* The row of one file changes, and nothing else that Shelf sees.
LEMMA OneRow ==
  ASSUME TypeOK, NEW h \in Handles, NEW o, object' = [object EXCEPT ![h] = o],
         UNCHANGED <<writer, stream, lease, clock>>
  PROVE  /\ object'[h] = o /\ ReadingBy' = ReadingBy
         /\ \A g \in Handles \ {h} : Stays(g)
<1>1. object'[h] = o /\ \A g \in Handles \ {h} : object'[g] = object[g]
  BY RowFields
<1> QED
  BY <1>1, NobodyReads, RowStays

\* An operation has its file's row in hand: what it writes there is all that happens.
LEMMA OfferedChanges ==
  ASSUME TypeOK, NEW h \in Handles, object[h].state = "available", NEW o, o.state = "available",
         object' = [object EXCEPT ![h] = o], UNCHANGED <<writer, stream, lease, clock>>,
         o.consumed \in BOOLEAN
  PROVE  /\ Shown[h] = "offered" /\ Used[h] = object[h].consumed /\ InUse[h] = object[h].reserved
         /\ Shown' = Shown /\ ReadingBy' = ReadingBy
         /\ Used' = [Used EXCEPT ![h] = o.consumed] /\ InUse' = [InUse EXCEPT ![h] = o.reserved]
<1>1. object[h].consumed \in BOOLEAN
  BY RowFields DEF Objects
<1>2. /\ Shown[h] = "offered" /\ Used[h] = object[h].consumed /\ InUse[h] = object[h].reserved
      /\ Shown'[h] = "offered" /\ Used'[h] = o.consumed /\ InUse'[h] = o.reserved
  <2>1. object'[h] = o
    BY RowFields
  <2> QED
    BY <2>1, ShelfIs
<1>3. Shown' = Shown
  BY <1>2, OneRow, ShelfStays DEF Stays
<1>4. Used' = [Used EXCEPT ![h] = o.consumed] /\ InUse' = [InUse EXCEPT ![h] = o.reserved]
  BY <1>2, OneRow, ShelfChanges DEF Stays
<1> QED
  BY <1>2, <1>3, <1>4, OneRow

LEMMA OperationKeeps ==
  ASSUME TypeOK, Files, NEW h \in Handles, OperationNext(h)
  PROVE  Promise!Next
<1>1. object[h] \in Objects /\ object[h].state = "available"
  BY OperationIs, RowFields DEF Files
<1>2. ASSUME NEW o, SetObject(h, o)
      PROVE  object' = [object EXCEPT ![h] = o] /\ UNCHANGED <<writer, stream, lease, clock>>
  BY <1>2 DEF SetObject, calls
<1>3. CASE ExtendExpiry(h)
  <2> DEFINE o == [object[h] EXCEPT !.expires = Later(object[h].expires, clock + Ttl)]
  <2>1. SetObject(h, o)
    BY <1>1, <1>3 DEF ExtendExpiry
  <2>2. o.state = object[h].state /\ o.consumed = object[h].consumed /\ o.reserved = object[h].reserved
    BY <1>1 DEF Objects
  <2> HIDE DEF o
  <2>3. Stays(h)
    BY <1>2, <2>1, <2>2, OneRow, RowStays
  <2> QED
    BY <1>2, <2>1, <2>3, OneRow, ReadersLeave
<1>4. CASE ReserveFor(h)
  <2>1. PICK l \in BOOLEAN :
          SetObject(h, [object[h] EXCEPT !.reserved = TRUE, !.linked = object[h].linked \/ l])
    BY <1>4 DEF ReserveFor
  <2> DEFINE o == [object[h] EXCEPT !.reserved = TRUE, !.linked = object[h].linked \/ l]
  <2>2. object[h].consumed = FALSE /\ object[h].reserved = FALSE
    BY <1>1, <1>4 DEF ReserveFor, Objects
  <2>3. o.state = "available" /\ o.consumed = object[h].consumed /\ o.reserved = TRUE
    BY <1>1 DEF Objects
  <2>4. SetObject(h, o)
    BY <2>1
  <2> HIDE DEF o
  <2>5. object' = [object EXCEPT ![h] = o] /\ UNCHANGED <<writer, stream, lease, clock>>
        /\ o.consumed = FALSE /\ o.consumed \in BOOLEAN
    BY <1>2, <2>2, <2>3, <2>4
  <2>6. /\ Shown[h] = "offered" /\ Used[h] = object[h].consumed /\ InUse[h] = object[h].reserved
        /\ Shown' = Shown /\ ReadingBy' = ReadingBy
        /\ Used' = [Used EXCEPT ![h] = o.consumed] /\ InUse' = [InUse EXCEPT ![h] = o.reserved]
    BY <1>1, <2>3, <2>5, OfferedChanges
  <2>7. Used' = Used
    BY <2>2, <2>3, <2>6 DEF Used
  <2>8. Promise!Hold(h)
    BY <2>2, <2>3, <2>6, <2>7 DEF Promise!Hold, Promise!Takeable
  <2> QED
    BY <2>8 DEF Promise!Next
<1>5. CASE Consume(h) \/ ReleaseReserved(h)
  <2>1. \E o : \E used \in BOOLEAN :
          SetObject(h, o) /\ o.state = "available" /\ o.consumed = used /\ o.reserved = FALSE
    <3>1. CASE Consume(h)
      <4> DEFINE o == [object[h] EXCEPT !.reserved = FALSE, !.consumed = TRUE]
      <4>1. SetObject(h, o) /\ o.state = "available" /\ o.consumed = TRUE /\ o.reserved = FALSE
        BY <1>1, <3>1 DEF Consume, Objects
      <4> HIDE DEF o
      <4> QED
        BY <4>1
    <3>2. CASE ReleaseReserved(h)
      <4> DEFINE o == [object[h] EXCEPT !.reserved = FALSE]
      <4>1. SetObject(h, o) /\ o.state = "available" /\ o.consumed = FALSE /\ o.reserved = FALSE
        BY <1>1, <3>2 DEF ReleaseReserved, Objects
      <4> HIDE DEF o
      <4> QED
        BY <4>1
    <3> QED
      BY <1>5, <3>1, <3>2
  <2>2. PICK used \in BOOLEAN :
           /\ InUse[h] = object[h].reserved /\ Shown' = Shown /\ ReadingBy' = ReadingBy
           /\ InUse' = [InUse EXCEPT ![h] = FALSE] /\ Used' = [Used EXCEPT ![h] = used]
    BY <1>1, <1>2, <2>1, OfferedChanges
  <2>3. Promise!Settle(h)
    BY <1>5, <2>2 DEF Consume, ReleaseReserved, Promise!Settle
  <2> QED
    BY <2>3 DEF Promise!Next
<1> QED
  BY <1>3, <1>4, <1>5 DEF OperationNext

LEMMA ReaderIs ==
  ASSUME NEW g \in Handles, NEW x \in Streams
  PROVE  /\ x \in ReadingBy[g] <=> (stream[x].h = g /\ lease[x] > clock)
         /\ x \in ReadingBy'[g] <=> (stream'[x].h = g /\ lease'[x] > clock')
BY DEF ReadingBy

LEMMA ReadersAre ==
  ASSUME NEW g \in Handles
  PROVE  ReadingBy[g] \in SUBSET Streams /\ ReadingBy'[g] \in SUBSET Streams
BY DEF ReadingBy

LEMMA NoneComes ==
  ASSUME \A x \in Streams : lease'[x] > clock' => stream'[x].h = stream[x].h /\ lease[x] > clock
  PROVE  \A g \in Handles : ReadingBy'[g] \subseteq ReadingBy[g]
<1> SUFFICES ASSUME NEW g \in Handles, NEW x \in ReadingBy'[g] PROVE x \in ReadingBy[g]
  OBVIOUS
<1>1. x \in Streams
  BY ReadersAre
<1> QED
  BY <1>1, ReaderIs

\* The row of a file a stream is for changes in its lease only.
LEMMA LeasesStay ==
  ASSUME TypeOK, NEW h \in Handles, NEW l \in Nat, object' = [object EXCEPT ![h].lease = l], writer' = writer
  PROVE  \A g \in Handles : Stays(g)
<1>1. \A g \in Handles : /\ object'[g].state = object[g].state /\ object'[g].consumed = object[g].consumed
                         /\ object'[g].reserved = object[g].reserved
  BY RowFields DEF Objects
<1> QED
  BY <1>1, RowStays

LEMMA StreamsKeep ==
  ASSUME TypeOK, Leased, NEW s \in Streams, StreamNext(s)
  PROVE  Promise!Next
<1>1. writer' = writer /\ clock' = clock /\ clock \in Nat /\ lease \in [Streams -> Nat] /\ stream \in [Streams -> StreamRows]
  BY TypesAre, Sizes DEF Types, StreamNext, ReadObject, Admit, Open, Release, LeaveStream
<1>2. ASSUME object' = object PROVE \A g \in Handles : Stays(g)
  BY <1>1, <1>2, RowStays
<1>3. ASSUME NEW h \in Handles, ReadObject(s, h) PROVE Promise!Next
  <2>1. object' = object /\ lease' = lease /\ lease[s] = 0
    BY <1>3 DEF ReadObject, table
  <2>2. \A x \in Streams \ {s} : stream'[x] = stream[x]
    BY <1>1, <1>3 DEF ReadObject
  <2>3. \A g \in Handles : ReadingBy'[g] \subseteq ReadingBy[g]
    BY <1>1, <2>1, <2>2, NoneComes
  <2> QED
    BY <1>2, <2>1, <2>3, ReadersLeave
<1>4. CASE Open(s) \/ LeaveStream(s)
  <2>1. object' = object /\ lease' = lease
    BY <1>4 DEF Open, LeaveStream, table
  <2>2. \A x \in Streams : stream'[x].h = stream[x].h
    BY <1>4, StreamGotoIs DEF Open, LeaveStream, StreamSteps
  <2>3. \A g \in Handles : ReadingBy'[g] \subseteq ReadingBy[g]
    BY <1>1, <2>1, <2>2, NoneComes
  <2> QED
    BY <1>2, <2>1, <2>3, ReadersLeave
<1>5. CASE Admit(s)
  <2> DEFINE h == stream[s].h
  <2>1. h \in Handles /\ object[h].state = "available" /\ object[h].consumed = FALSE
    BY <1>5, AdmitIs, RowFields DEF Admit, Objects
  <2>2. PICK until \in Nat, l \in Nat : /\ lease' = [lease EXCEPT ![s] = until]
                                        /\ object' = [object EXCEPT ![h].lease = l]
    BY <1>5, AdmitIs
  <2>3. \A x \in Streams : stream'[x].h = stream[x].h
    BY <1>5, StreamGotoIs DEF Admit, StreamSteps
  <2>4. \A g \in Handles : Stays(g)
    BY <1>1, <2>1, <2>2, LeasesStay
  <2>5. lease'[s] = until /\ \A x \in Streams \ {s} : lease'[x] = lease[x]
    BY <1>1, <2>2
  <2>6. CASE until > clock
    <3>1. \A g \in Handles \ {h} : ReadingBy'[g] = ReadingBy[g]
      <4> SUFFICES ASSUME NEW g \in Handles \ {h} PROVE ReadingBy'[g] = ReadingBy[g]
        OBVIOUS
      <4>1. \A x \in Streams : x \in ReadingBy'[g] <=> x \in ReadingBy[g]
        BY <1>1, <2>3, <2>5, ReaderIs
      <4> QED
        BY <4>1, ReadersAre
    <3>2. ReadingBy'[h] = ReadingBy[h] \cup {s}
      <4>1. \A x \in Streams : x \in ReadingBy'[h] <=> (x \in ReadingBy[h] \/ x = s)
        BY <1>1, <2>1, <2>3, <2>5, <2>6, ReaderIs
      <4> HIDE DEF h
      <4> QED
        BY <2>1, <4>1, ReadersAre
    <3>3. ReadingBy' = [ReadingBy EXCEPT ![h] = ReadingBy[h] \cup {s}]
      BY <2>1, <3>1, <3>2, ShelfChanges
    <3>4. Shown[h] = "offered" /\ Used[h] = FALSE
      BY <2>1, ShelfIs
    <3>5. UNCHANGED <<Shown, Used, InUse>>
      BY <2>4, ShelfStays DEF Stays
    <3> HIDE DEF h
    <3>6. Promise!Read(h, s)
      BY <3>3, <3>4, <3>5 DEF Promise!Read, Promise!Takeable
    <3> QED
      BY <2>1, <3>6 DEF Promise!Next
  <2>7. CASE ~(until > clock)
    <3>1. \A g \in Handles : ReadingBy'[g] \subseteq ReadingBy[g]
      BY <1>1, <2>3, <2>5, <2>7, NoneComes
    <3> QED
      BY <2>4, <3>1, ReadersLeave
  <2> QED
    BY <2>6, <2>7
<1>6. CASE Release(s)
  <2> DEFINE h == stream[s].h
  <2>1. h \in Handles /\ lease' = [lease EXCEPT ![s] = 0]
    BY <1>6, ReleaseIs
  <2>2. \A x \in Streams : stream'[x].h = stream[x].h
    BY <1>6, StreamGotoIs DEF Release, StreamSteps
  <2>3. \A g \in Handles : Stays(g)
    <3>1. CASE object[h].state = "none"
      BY <1>2, <1>6, <3>1, ReleaseIs
    <3>2. CASE object[h].state # "none"
      <4>1. PICK l \in Nat : object' = [object EXCEPT ![h].lease = l]
        BY <1>6, <3>2, ReleaseIs
      <4> QED
        BY <1>1, <2>1, <4>1, LeasesStay
    <3> QED
      BY <3>1, <3>2
  <2>4. lease'[s] = 0 /\ \A x \in Streams \ {s} : lease'[x] = lease[x]
    BY <1>1, <2>1
  <2>5. \A g \in Handles : ReadingBy'[g] \subseteq ReadingBy[g]
    BY <1>1, <2>2, <2>4, NoneComes
  <2> QED
    BY <2>3, <2>5, ReadersLeave
<1> QED
  BY <1>3, <1>4, <1>5, <1>6 DEF StreamNext

LEMMA AcksKeep ==
  ASSUME TypeOK, Files, NEW a \in Ackers, AckNext(a)
  PROVE  Promise!Next
<1>1. writer' = writer /\ ReadingBy' = ReadingBy
  BY NobodyReads DEF AckNext, BeginAck, ReadKnown, Record, LeaveAck, table
<1>2. ASSUME \A g \in Handles : Stays(g) PROVE Promise!Next
  BY <1>1, <1>2, ReadersLeave
<1>3. CASE object' = object
  BY <1>1, <1>2, <1>3, RowStays
<1>4. CASE object' # object
  <2> DEFINE h == acker[a].h
  <2>1. h \in Handles /\ ~object[h].reserved /\ object' = [object EXCEPT ![h].consumed = TRUE]
    BY <1>4, TypesAre DEF AckNext, BeginAck, ReadKnown, Record, LeaveAck, table, Types, AckRows
  <2>2. /\ object'[h].state = object[h].state /\ object'[h].consumed = TRUE
        /\ object'[h].reserved = object[h].reserved
        /\ \A g \in Handles \ {h} : object'[g] = object[g]
    BY <2>1, RowFields DEF Objects
  <2>3. \A g \in Handles \ {h} : Stays(g)
    BY <1>1, <2>2, RowStays
  <2>4. Shown'[h] = Shown[h] /\ InUse'[h] = InUse[h]
    <3>1. writer'[h] = writer[h]
      BY <1>1
    <3> HIDE DEF h
    <3>2. Shown'[h] = Shown[h]
      BY <2>1, <2>2, <3>1, ShelfIs
    <3>3. InUse'[h] = InUse[h]
      BY <2>1, <2>2, ShelfIs
    <3> QED
      BY <3>2, <3>3
  <2>5. CASE Used'[h] = Used[h]
    BY <1>2, <2>3, <2>4, <2>5 DEF Stays
  <2>6. CASE Used'[h] # Used[h]
    <3>1. object[h].state = "available"
      BY <2>1, <2>2, <2>6, ShelfIs
    <3>2. Shown[h] = "offered" /\ Used[h] = object[h].consumed /\ Used'[h] = TRUE /\ InUse[h] = object[h].reserved
      BY <2>1, <2>2, <3>1, ShelfIs
    <3>3. Used[h] = FALSE
      BY <2>1, <2>6, <3>2, RowFields DEF Objects
    <3>4. Used' = [Used EXCEPT ![h] = TRUE]
      BY <2>1, <2>3, <3>2, ShelfChanges DEF Stays
    <3>5. UNCHANGED <<Shown, InUse>>
      BY <2>3, <2>4, ShelfStays DEF Stays
    <3> HIDE DEF h
    <3>6. Promise!Spend(h)
      BY <1>1, <2>1, <3>2, <3>3, <3>4, <3>5 DEF Promise!Spend, Promise!Takeable
    <3> QED
      BY <2>1, <3>6 DEF Promise!Next
  <2> QED
    BY <2>5, <2>6
<1> QED
  BY <1>3, <1>4

LEMMA CronKeeps ==
  ASSUME TypeOK, Files, Leased, CronBy, CronNext \/ CronFails
  PROVE  Promise!Next
<1>0. clock \in Nat
  BY TypesAre, Sizes DEF Types
<1>1. writer' = writer /\ stream' = stream /\ clock' = clock /\ clock \in Nat
  BY <1>0 DEF CronNext, CronBegin, ExpireIngests, SelectDebts, DropRows, DropDownloads, SelectCandidates,
     CronEnd, EraseDebt, SettleDebt, Claim, Erase, DropObject, CronFails, CronOnly
<1>2. ASSUME object' = object PROVE \A g \in Handles : Stays(g)
  BY <1>1, <1>2, RowStays
<1>3. ASSUME lease' = lease PROVE ReadingBy' = ReadingBy
  BY <1>1, <1>3, NobodyReads
<1>4. CASE DropDownloads
  <2>1. object' = object /\ \A s \in Streams : lease'[s] = 0 \/ lease'[s] = lease[s]
    BY <1>4 DEF DropDownloads
  <2>2. \A g \in Handles : ReadingBy'[g] \subseteq ReadingBy[g]
    BY <1>1, <2>1, NoneComes
  <2> QED
    BY <1>2, <2>1, <2>2, ReadersLeave
<1>5. ASSUME NEW h \in Handles, Claim(h) PROVE Promise!Next
  <2>1. lease' = lease
    BY <1>5 DEF Claim
  <2>2. CASE object' = object
    BY <1>2, <1>3, <2>1, <2>2, ReadersLeave
  <2>3. CASE object' # object
    <3>1. Claimable(h) /\ object' = [object EXCEPT ![h].state = "deleting"]
      BY <1>5, <2>3 DEF Claim
    <3>2. /\ object[h].state # "none" /\ object[h].reserved = FALSE /\ object[h].lease <= clock
      <4>1. object[h].lease <= cron.now /\ cron.now <= clock /\ cron.now \in Nat
        BY <3>1, TypesAre DEF Claimable, Unheld, CronBy, Types, Passes
      <4> QED
        BY <3>1, <4>1, RowFields DEF Claimable, Unheld
    <3>3. /\ object'[h].state = "deleting" /\ object'[h].reserved = object[h].reserved
          /\ \A g \in Handles \ {h} : object'[g] = object[g]
      BY <3>1, RowFields DEF Objects
    <3>4. \A g \in Handles \ {h} : Stays(g)
      BY <1>1, <3>3, RowStays
    <3>5. writer[h].at \notin Before \cup Busy
      BY <3>2 DEF Files, FileBy, Before, Busy
    <3>6. Shown'[h] = "gone" /\ Used'[h] = FALSE /\ InUse'[h] = FALSE /\ InUse[h] = FALSE
      BY <1>1, <3>2, <3>3, <3>5, ShelfIs
    <3>7. CASE object[h].state = "deleting"
      <4>1. Stays(h)
        BY <3>5, <3>6, <3>7, ShelfIs DEF Stays
      <4> QED
        BY <1>3, <2>1, <3>4, <4>1, ReadersLeave
    <3>8. CASE object[h].state = "available"
      <4>1. Shown[h] = "offered"
        BY <3>8, ShelfIs
      <4>2. ReadingBy[h] = {}
        <5> SUFFICES ASSUME NEW s \in Streams, stream[s].h = h, lease[s] > clock PROVE FALSE
          BY ShelfIs
        <5>1. lease[s] \in Nat /\ lease[s] <= object[h].lease
          BY <3>8, TypesAre DEF Types, Leased, StreamBy
        <5> QED
          BY <3>2, <5>1, RowFields
      <4>3. Shown' = [Shown EXCEPT ![h] = "gone"] /\ Used' = [Used EXCEPT ![h] = FALSE]
        BY <3>4, <3>6, ShelfChanges DEF Stays
      <4>4. InUse' = InUse
        BY <3>4, <3>6, ShelfStays DEF Stays
      <4>5. Promise!Remove(h)
        BY <1>3, <2>1, <3>6, <4>1, <4>2, <4>3, <4>4 DEF Promise!Remove
      <4> QED
        BY <4>5 DEF Promise!Next
    <3> QED
      BY <3>2, <3>7, <3>8, RowFields DEF ObjectStates
  <2> QED
    BY <2>2, <2>3
<1>6. ASSUME NEW h \in Handles, DropObject(h) PROVE Promise!Next
  <2>1. lease' = lease /\ object[h].state = "deleting" /\ object' = [object EXCEPT ![h] = NoObject]
    BY <1>6 DEF DropObject, CronBy
  <2>2. writer[h].at \notin Before \cup Busy /\ object[h].reserved = FALSE
    BY <2>1, RowFields DEF Files, FileBy, Before, Busy
  <2>3. object'[h].state = "none" /\ object'[h].reserved = FALSE /\ \A g \in Handles \ {h} : object'[g] = object[g]
    BY <2>1, RowFields DEF NoObject
  <2>4. Stays(h)
    BY <1>1, <2>1, <2>2, <2>3, ShelfIs DEF Stays
  <2>5. \A g \in Handles : Stays(g)
    BY <1>1, <2>3, <2>4, RowStays
  <2> QED
    BY <1>3, <2>1, <2>5, ReadersLeave
<1>7. CASE \/ CronBegin \/ ExpireIngests \/ SelectDebts \/ DropRows \/ SelectCandidates \/ CronEnd \/ CronFails
           \/ \E h \in Handles : EraseDebt(h) \/ SettleDebt(h) \/ Erase(h)
  <2>1. UNCHANGED <<lease, object>>
    BY <1>7 DEF CronBegin, ExpireIngests, SelectDebts, DropRows, SelectCandidates, CronEnd, CronFails,
       EraseDebt, SettleDebt, Erase, table
  <2> QED
    BY <1>2, <1>3, <2>1, ReadersLeave
<1> QED
  BY <1>4, <1>5, <1>6, <1>7 DEF CronNext

LEMMA ShelfInit == Init => Promise!Init
<1> SUFFICES ASSUME Init PROVE Promise!Init
  OBVIOUS
<1>1. ASSUME NEW h \in Handles
      PROVE  Shown[h] = "awaited" /\ Used[h] = FALSE /\ InUse[h] = FALSE /\ ReadingBy[h] = {}
  <2>1. object[h].state = "none" /\ object[h].reserved = FALSE /\ writer[h].at = "idle"
    BY DEF Init, NoObject, NewWriter
  <2>2. ReadingBy[h] = {}
    <3>1. \A x \in Streams : ~(lease[x] > clock)
      BY DEF Init
    <3> QED
      BY <3>1, ReadersAre, ReaderIs
  <2> QED
    BY <2>1, <2>2, ShelfIs DEF Before
<1>2. /\ Shown = [h \in Handles |-> "awaited"] /\ Used = [h \in Handles |-> FALSE]
      /\ InUse = [h \in Handles |-> FALSE] /\ ReadingBy = [h \in Handles |-> {}]
  BY <1>1 DEF Shown, Used, InUse, ReadingBy
<1> QED
  BY <1>2 DEF Promise!Init

LEMMA ShelfStep == StagingInv /\ [Next]_vars => Promise!Next
<1> SUFFICES ASSUME StagingInv, [Next]_vars PROVE Promise!Next
  OBVIOUS
<1>1. TypeOK /\ Files /\ Leased /\ CronBy
  BY DEF StagingInv
<1>2. ASSUME NEW h \in Handles, IngestNext(h) \/ Land(h) PROVE Promise!Next
  BY <1>1, <1>2, IngestKeeps
<1>3. ASSUME NEW h \in Handles, OperationNext(h) PROVE Promise!Next
  BY <1>1, <1>3, OperationKeeps
<1>4. ASSUME NEW s \in Streams, StreamNext(s) PROVE Promise!Next
  BY <1>1, <1>4, StreamsKeep
<1>5. ASSUME NEW a \in Ackers, AckNext(a) PROVE Promise!Next
  BY <1>1, <1>5, AcksKeep
<1>6. CASE CronNext \/ CronFails
  BY <1>1, <1>6, CronKeeps
<1>7. CASE AccountChanges \/ Tick \/ UNCHANGED vars
  <2>1. UNCHANGED <<object, writer, stream, lease>>
    BY <1>7 DEF AccountChanges, Tick, vars, table, calls
  <2>2. clock \in Nat /\ clock' \in Nat /\ clock <= clock' /\ lease \in [Streams -> Nat]
    <3>1. clock \in Nat /\ lease \in [Streams -> Nat]
      BY <1>1, TypesAre, Sizes DEF Types
    <3>2. clock' = clock \/ clock' = clock + 1
      BY <1>7 DEF AccountChanges, Tick, vars, calls
    <3> QED
      BY <3>1, <3>2
  <2>3. \A g \in Handles : Stays(g)
    BY <2>1, RowStays
  <2>4. \A g \in Handles : ReadingBy'[g] \subseteq ReadingBy[g]
    BY <2>1, <2>2, NoneComes
  <2> QED
    BY <2>3, <2>4, ReadersLeave
<1> QED
  BY <1>2, <1>3, <1>4, <1>5, <1>6, <1>7 DEF Next

\* Staging implements Shelf: a file is offered once, is given to a stream or to an
\* operation only while it is offered and not used up, is used up by whoever holds it or
\* by an acknowledgement while nobody does, and leaves its table only when no operation
\* holds it and no stream's lease runs, whatever fails and whenever the cron passes.
THEOREM StagingKeepsFiles == Spec => KeepsFiles
<1>1. Promise!Next => [Promise!Next]_Promise!vars
  OBVIOUS
<1>2. StagingInv /\ [Next]_vars => [Promise!Next]_Promise!vars
  BY <1>1, ShelfStep
<1> QED
  BY <1>2, ShelfInit, StagingInvariant, PTL DEF Spec, KeepsFiles, Promise!Spec

\* Whoever has taken a file, an operation or a stream, has it on offer still.
TakenIsOffered == \A h \in Handles : InUse[h] \/ ReadingBy[h] # {} => Shown[h] = "offered"

\* What one file becomes is seen by that file.
LEMMA OnlyOne ==
  ASSUME NEW h \in Handles, NEW g \in Handles, NEW x
  PROVE  /\ [Shown EXCEPT ![h] = x][g] = (IF g = h THEN x ELSE Shown[g])
         /\ [InUse EXCEPT ![h] = x][g] = (IF g = h THEN x ELSE InUse[g])
         /\ [ReadingBy EXCEPT ![h] = x][g] = (IF g = h THEN x ELSE ReadingBy[g])
BY DEF Shown, InUse, ReadingBy

\* What the promise of Shelf is worth, from its steps alone: a file that an operation
\* holds, or that a stream whose lease runs may read, is on offer at that moment.
THEOREM ShelfIsSafe == KeepsFiles => []TakenIsOffered
<1>1. Promise!Init => TakenIsOffered
  BY DEF Promise!Init, TakenIsOffered
<1>2. TakenIsOffered /\ [Promise!Next]_Promise!vars => TakenIsOffered'
  <2> SUFFICES ASSUME TakenIsOffered, [Promise!Next]_Promise!vars, NEW g \in Handles
               PROVE  InUse'[g] \/ ReadingBy'[g] # {} => Shown'[g] = "offered"
    BY DEF TakenIsOffered
  <2>1. InUse[g] \/ ReadingBy[g] # {} => Shown[g] = "offered"
    BY DEF TakenIsOffered
  <2>2. CASE Promise!Leave
    BY <2>1, <2>2 DEF Promise!Leave
  <2>3. ASSUME NEW h \in Handles, Promise!Offer(h) \/ Promise!Miss(h)
        PROVE  InUse'[g] \/ ReadingBy'[g] # {} => Shown'[g] = "offered"
    <3>1. InUse' = InUse /\ ReadingBy' = ReadingBy /\ Shown[h] = "awaited"
      BY <2>3 DEF Promise!Offer, Promise!Miss
    <3>2. Shown'[g] = Shown[g] \/ g = h
      BY <2>3, OnlyOne DEF Promise!Offer, Promise!Miss
    <3> QED
      BY <2>1, <3>1, <3>2
  <2>4. ASSUME NEW h \in Handles, Promise!Hold(h)
        PROVE  InUse'[g] \/ ReadingBy'[g] # {} => Shown'[g] = "offered"
    <3>1. ReadingBy' = ReadingBy /\ Shown' = Shown /\ Shown[h] = "offered"
      BY <2>4 DEF Promise!Hold, Promise!Takeable
    <3>2. InUse'[g] = InUse[g] \/ g = h
      <4>1. InUse' = [InUse EXCEPT ![h] = TRUE]
        BY <2>4 DEF Promise!Hold
      <4>2. ASSUME g # h PROVE [InUse EXCEPT ![h] = TRUE][g] = InUse[g]
        BY <4>2 DEF InUse
      <4> QED
        BY <4>1, <4>2
    <3> QED
      BY <2>1, <3>1, <3>2
  <2>5. ASSUME NEW h \in Handles, Promise!Settle(h) \/ Promise!Spend(h)
        PROVE  InUse'[g] \/ ReadingBy'[g] # {} => Shown'[g] = "offered"
    <3>1. ReadingBy' = ReadingBy /\ Shown' = Shown
      BY <2>5 DEF Promise!Settle, Promise!Spend
    <3>2. InUse'[g] = InUse[g] \/ InUse'[g] = FALSE
      BY <2>5, OnlyOne DEF Promise!Settle, Promise!Spend
    <3> QED
      BY <2>1, <3>1, <3>2
  <2>6. ASSUME NEW h \in Handles, Promise!Remove(h)
        PROVE  InUse'[g] \/ ReadingBy'[g] # {} => Shown'[g] = "offered"
    <3>1. InUse' = InUse /\ ReadingBy' = ReadingBy /\ ~InUse[h] /\ ReadingBy[h] = {}
      BY <2>6 DEF Promise!Remove
    <3>2. Shown'[g] = Shown[g] \/ g = h
      BY <2>6, OnlyOne DEF Promise!Remove
    <3> QED
      BY <2>1, <3>1, <3>2
  <2>7. ASSUME NEW h \in Handles, NEW r \in Streams, Promise!Read(h, r)
        PROVE  InUse'[g] \/ ReadingBy'[g] # {} => Shown'[g] = "offered"
    <3>1. InUse' = InUse /\ Shown' = Shown /\ Shown[h] = "offered"
      BY <2>7 DEF Promise!Read, Promise!Takeable
    <3>2. ReadingBy'[g] = ReadingBy[g] \/ g = h
      BY <2>7, OnlyOne DEF Promise!Read
    <3> QED
      BY <2>1, <3>1, <3>2
  <2>8. CASE UNCHANGED Promise!vars
    BY <2>1, <2>8 DEF Promise!vars
  <2> QED
    BY <2>2, <2>3, <2>4, <2>5, <2>6, <2>7, <2>8 DEF Promise!Next
<1> QED
  BY <1>1, <1>2, PTL DEF KeepsFiles, Promise!Spec
=============================================================================
