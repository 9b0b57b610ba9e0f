------------------------ MODULE MemoryRepository_proofs ------------------------
(***************************************************************************)
(* Proofs about MemoryRepository: its invariants and, through RowStatus    *)
(* and the other Row functions, that careful callers cannot tell it from   *)
(* JobQueue.                                                               *)
(***************************************************************************)
EXTENDS MemoryRepository, FiniteSetTheorems, TLAPS

MemoryInv == MemoryTypeOK /\ RecordsMatchStatus
-------------------------------------------------------------------------------
(* The records the methods write.                                          *)

LEMMA NoRecordType == NoRecord \in Record /\ MatchesStatus(NoRecord)
BY MemoryAssumption DEF NoRecord, Record, Existing, MatchesStatus

\* When a record that is not running, or one that is, matches its status.
LEMMA MatchesIdle ==
    ASSUME NEW r, r.status \in {"pending", "completed", "dead", "cancelled"},
           r.expires = 0, r.leased_by = NoWorker, r.attempts <= MaxAttempts
    PROVE  MatchesStatus(r)
BY DEF MatchesStatus

LEMMA MatchesRunning ==
    ASSUME NEW r, r.status = "running", r.leased_by \in Workers,
           r.attempts > 0, r.attempts <= MaxAttempts
    PROVE  MatchesStatus(r)
BY DEF MatchesStatus

LEMMA CreatedRecord ==
    ASSUME now \in Nat, NEW d \in Nat
    PROVE  /\ Created(d) \in Record /\ MatchesStatus(Created(d))
           /\ Created(d).status = "pending" /\ Created(d).attempts = 0
           /\ Created(d).generation = 0 /\ Created(d).leased_by = NoWorker
           /\ Created(d).expires = 0 /\ Created(d).available = now + d
<1>1. /\ Created(d).status = "pending" /\ Created(d).attempts = 0
      /\ Created(d).generation = 0 /\ Created(d).leased_by = NoWorker
      /\ Created(d).expires = 0 /\ Created(d).available = now + d
    BY DEF Created, NoRecord
<1>2. Created(d) \in Record
    <2>1. now + d \in Nat
        OBVIOUS
    <2> QED BY <2>1 DEF Created, NoRecord, Record, Existing
<1>3. MatchesStatus(Created(d))
    BY <1>1, MatchesIdle, MemoryAssumption
<1> QED BY <1>1, <1>2, <1>3

\* What a settled or requeued job's record looks like.
LEMMA UnleasedRecord ==
    ASSUME NEW r \in Record, MatchesStatus(r), r.status # "absent",
           NEW s \in {"pending", "completed", "dead", "cancelled"}
    PROVE  /\ Unleased(r, s) \in Record /\ MatchesStatus(Unleased(r, s))
           /\ Unleased(r, s) = [r EXCEPT !.status = s, !.leased_by = NoWorker, !.expires = 0]
           /\ Unleased(r, s).status = s /\ Unleased(r, s).attempts = r.attempts
           /\ Unleased(r, s).generation = r.generation
           /\ Unleased(r, s).leased_by = NoWorker /\ Unleased(r, s).expires = 0
           /\ Unleased(r, s).available = r.available
BY MemoryAssumption DEF Unleased, Record, Existing, MatchesStatus, NoRecord

LEMMA LeasedRecord ==
    ASSUME NEW r \in Record, MatchesStatus(r), r.attempts < MaxAttempts,
           NEW w \in Workers, now \in Nat
    PROVE  /\ Leased(r, w) \in Record /\ MatchesStatus(Leased(r, w))
           /\ Leased(r, w).status = "running" /\ Leased(r, w).attempts = r.attempts + 1
           /\ Leased(r, w).generation = r.generation + 1
           /\ Leased(r, w).leased_by = w /\ Leased(r, w).expires = now + LeaseFor
           /\ Leased(r, w).available = r.available
<1>1. r.attempts \in Nat /\ r.generation \in Nat /\ MaxAttempts \in Nat
      /\ now + LeaseFor \in Nat
    BY MemoryAssumption DEF Record, Existing
<1>2. /\ Leased(r, w).status = "running" /\ Leased(r, w).attempts = r.attempts + 1
      /\ Leased(r, w).generation = r.generation + 1
      /\ Leased(r, w).leased_by = w /\ Leased(r, w).expires = now + LeaseFor
      /\ Leased(r, w).available = r.available
    BY DEF Leased, Record, Existing
<1>3. Leased(r, w) \in Record
    <2>1. /\ r.attempts + 1 \in Nat /\ r.generation + 1 \in Nat
          /\ "running" \in {"absent", "pending", "running", "completed", "dead", "cancelled"}
          /\ w \in Workers \cup {NoWorker}
        BY <1>1
    <2> QED BY <1>1, <2>1 DEF Leased, Record, Existing
<1>4. MatchesStatus(Leased(r, w))
    BY <1>1, <1>2, MatchesRunning
<1> QED BY <1>2, <1>3, <1>4

\* The record that a pause, or a failure with a retry, leaves.
PausedRecord(j, d) ==
    [Unleased(job[j], "pending") EXCEPT
        !.attempts = IF @ = 0 THEN 0 ELSE @ - 1, !.available = now + d]

RetriedRecord(j) ==
    [Unleased(job[j], "pending") EXCEPT !.available = now + Backoff[job[j].attempts]]

RenewedRecord(j) == [job[j] EXCEPT !.expires = now + LeaseFor]

LEMMA RunningRecord ==
    ASSUME MemoryInv, NEW j \in Jobs, job[j].status = "running"
    PROVE  /\ job[j] \in Record /\ MatchesStatus(job[j]) /\ now \in Nat
           /\ job[j].attempts \in 1..MaxAttempts /\ job[j].leased_by \in Workers
           /\ job[j].generation \in Nat /\ job[j].expires \in Nat
<1> USE MemoryAssumption
<1>1. job[j] \in Record /\ MatchesStatus(job[j]) /\ now \in Nat
    BY DEF MemoryInv, MemoryTypeOK, RecordsMatchStatus
<1> QED BY <1>1 DEF Record, Existing, MatchesStatus

LEMMA PausedRecordShape ==
    ASSUME MemoryInv, NEW j \in Jobs, job[j].status = "running", NEW d \in Nat
    PROVE  /\ PausedRecord(j, d) \in Record /\ MatchesStatus(PausedRecord(j, d))
           /\ PausedRecord(j, d).status = "pending"
           /\ PausedRecord(j, d).attempts = job[j].attempts - 1
           /\ PausedRecord(j, d).generation = job[j].generation
           /\ PausedRecord(j, d).leased_by = NoWorker /\ PausedRecord(j, d).expires = 0
           /\ PausedRecord(j, d).available = now + d
<1> DEFINE r == Unleased(job[j], "pending")
<1>1. /\ r \in Record /\ r.status = "pending" /\ r.attempts = job[j].attempts
      /\ r.generation = job[j].generation
      /\ r.leased_by = NoWorker /\ r.expires = 0
    BY RunningRecord, UnleasedRecord
<1>2. job[j].attempts \in 1..MaxAttempts /\ now + d \in Nat /\ MaxAttempts \in Nat
    BY RunningRecord, MemoryAssumption
<1>3. PausedRecord(j, d) = [r EXCEPT !.attempts = job[j].attempts - 1, !.available = now + d]
    <2>1. r.attempts # 0 /\ r.attempts - 1 = job[j].attempts - 1
        BY <1>1, <1>2
    <2>2. PausedRecord(j, d) = [r EXCEPT !.attempts = IF r.attempts = 0 THEN 0
                                                      ELSE r.attempts - 1,
                                         !.available = now + d]
        BY DEF PausedRecord
    <2> QED BY <2>1, <2>2
<1> job[j].attempts - 1 \in Nat
    BY <1>2
<1> HIDE DEF r
<1>4. /\ PausedRecord(j, d) \in Record
      /\ PausedRecord(j, d).status = "pending"
      /\ PausedRecord(j, d).attempts = job[j].attempts - 1
      /\ PausedRecord(j, d).generation = job[j].generation
      /\ PausedRecord(j, d).leased_by = NoWorker /\ PausedRecord(j, d).expires = 0
      /\ PausedRecord(j, d).available = now + d
    BY <1>1, <1>2, <1>3 DEF Record, Existing
<1>5. MatchesStatus(PausedRecord(j, d))
    BY <1>2, <1>4, MatchesIdle
<1> QED BY <1>4, <1>5

LEMMA RetriedRecordShape ==
    ASSUME MemoryInv, NEW j \in Jobs, job[j].status = "running"
    PROVE  /\ RetriedRecord(j) \in Record /\ MatchesStatus(RetriedRecord(j))
           /\ RetriedRecord(j).status = "pending"
           /\ RetriedRecord(j).attempts = job[j].attempts
           /\ RetriedRecord(j).generation = job[j].generation
           /\ RetriedRecord(j).leased_by = NoWorker /\ RetriedRecord(j).expires = 0
           /\ RetriedRecord(j).available = now + Backoff[job[j].attempts]
<1>1. Backoff[job[j].attempts] \in Nat
    BY RunningRecord, MemoryAssumption
<1> DEFINE r == Unleased(job[j], "pending")
<1>2. /\ r \in Record /\ r.status = "pending" /\ r.attempts = job[j].attempts
      /\ r.generation = job[j].generation
      /\ r.leased_by = NoWorker /\ r.expires = 0
    BY RunningRecord, UnleasedRecord
<1>3. job[j].attempts \in 1..MaxAttempts /\ MaxAttempts \in Nat
      /\ now + Backoff[job[j].attempts] \in Nat
    BY <1>1, RunningRecord, MemoryAssumption
<1>4. RetriedRecord(j) = [r EXCEPT !.available = now + Backoff[job[j].attempts]]
    BY DEF RetriedRecord
<1> HIDE DEF r
<1>5. /\ RetriedRecord(j) \in Record
      /\ RetriedRecord(j).status = "pending"
      /\ RetriedRecord(j).attempts = job[j].attempts
      /\ RetriedRecord(j).generation = job[j].generation
      /\ RetriedRecord(j).leased_by = NoWorker /\ RetriedRecord(j).expires = 0
      /\ RetriedRecord(j).available = now + Backoff[job[j].attempts]
    BY <1>2, <1>3, <1>4 DEF Record, Existing
<1>6. MatchesStatus(RetriedRecord(j))
    BY <1>3, <1>5, MatchesIdle
<1> QED BY <1>5, <1>6

LEMMA RenewedRecordShape ==
    ASSUME MemoryInv, NEW j \in Jobs, job[j].status = "running"
    PROVE  /\ RenewedRecord(j) \in Record /\ MatchesStatus(RenewedRecord(j))
           /\ RenewedRecord(j).status = "running"
           /\ RenewedRecord(j).attempts = job[j].attempts
           /\ RenewedRecord(j).generation = job[j].generation
           /\ RenewedRecord(j).leased_by = job[j].leased_by
           /\ RenewedRecord(j).expires = now + LeaseFor
           /\ RenewedRecord(j).available = job[j].available
<1>1. /\ job[j] \in Record /\ job[j].attempts \in 1..MaxAttempts
      /\ job[j].leased_by \in Workers /\ MaxAttempts \in Nat
      /\ now + LeaseFor \in Nat
    BY RunningRecord, MemoryAssumption
<1>2. /\ RenewedRecord(j) \in Record
      /\ RenewedRecord(j).status = "running"
      /\ RenewedRecord(j).attempts = job[j].attempts
      /\ RenewedRecord(j).generation = job[j].generation
      /\ RenewedRecord(j).leased_by = job[j].leased_by
      /\ RenewedRecord(j).expires = now + LeaseFor
      /\ RenewedRecord(j).available = job[j].available
    BY <1>1 DEF RenewedRecord, Record, Existing
<1>3. MatchesStatus(RenewedRecord(j))
    BY <1>1, <1>2, MatchesRunning
<1> QED BY <1>2, <1>3

\* The four records a lease holder's method writes.
LEMMA CallWrites ==
    ASSUME NEW j, NEW w, NEW g, NEW delays, Call(j, w, g, delays)
    PROVE  \/ Update(j, w, g, RenewedRecord(j))
           \/ Update(j, w, g, Unleased(job[j], "completed"))
           \/ \E d \in delays : Update(j, w, g, PausedRecord(j, d))
           \/ Update(j, w, g, Unleased(job[j], "dead"))
           \/ Update(j, w, g, RetriedRecord(j))
BY DEF Call, Heartbeat, Complete, Pause, Fail, RenewedRecord, PausedRecord, RetriedRecord

\* The record that the sweep leaves of a job.
LEMMA SweptRecord ==
    ASSUME MemoryInv, NEW j \in Jobs
    PROVE  /\ Swept[j] \in Record /\ MatchesStatus(Swept[j])
           /\ Swept[j].attempts = job[j].attempts /\ Swept[j].available = job[j].available
           /\ j \notin Exhausted => Swept[j] = job[j]
           /\ j \in Exhausted => /\ Swept[j].status = "dead"
                                 /\ Swept[j].leased_by = NoWorker /\ Swept[j].expires = 0
                                 /\ job[j].status \in {"pending", "running"}
                                 /\ Swept[j].generation =
                                      IF job[j].status = "running"
                                      THEN job[j].generation + 1 ELSE job[j].generation
<1>1. job[j] \in Record /\ MatchesStatus(job[j])
    BY DEF MemoryInv, MemoryTypeOK, RecordsMatchStatus
<1>2. CASE j \notin Exhausted
    BY <1>1, <1>2 DEF Swept
<1>3. CASE j \in Exhausted
    <2>1. PendingDue(j) \/ LeaseExpired(j)
        BY <1>3 DEF Exhausted
    <2>2. LeaseExpired(j) <=> job[j].status = "running"
        BY <2>1 DEF PendingDue, LeaseExpired
    <2>3. Swept[j] = [Unleased(job[j], "dead") EXCEPT
                         !.generation = IF LeaseExpired(j) THEN @ + 1 ELSE @]
        BY <1>3 DEF Swept
    <2>4. job[j].status \in {"pending", "running"}
        BY <2>1 DEF PendingDue, LeaseExpired
    <2> DEFINE r == Unleased(job[j], "dead")
    <2>5. /\ r \in Record /\ r.status = "dead" /\ r.attempts = job[j].attempts
          /\ r.generation = job[j].generation /\ r.available = job[j].available
          /\ r.leased_by = NoWorker /\ r.expires = 0
        BY <1>1, <2>4, UnleasedRecord
    <2>6. job[j].attempts \in Nat /\ job[j].attempts <= MaxAttempts
          /\ job[j].generation \in Nat
        BY <1>1 DEF Record, Existing, MatchesStatus
    <2>7. Swept[j] = [r EXCEPT !.generation = IF job[j].status = "running"
                                             THEN job[j].generation + 1
                                             ELSE job[j].generation]
        BY <2>2, <2>3, <2>5
    <2> HIDE DEF r
    <2>8. /\ Swept[j] \in Record /\ Swept[j].status = "dead"
          /\ Swept[j].attempts = job[j].attempts /\ Swept[j].available = job[j].available
          /\ Swept[j].leased_by = NoWorker /\ Swept[j].expires = 0
          /\ Swept[j].generation = IF job[j].status = "running"
                                   THEN job[j].generation + 1 ELSE job[j].generation
        BY <2>5, <2>6, <2>7 DEF Record, Existing
    <2>9. MatchesStatus(Swept[j])
        BY <2>6, <2>8, MatchesIdle
    <2> QED BY <1>3, <2>4, <2>8, <2>9
<1> QED BY <1>2, <1>3
-------------------------------------------------------------------------------
(* The invariant.                                                          *)

LEMMA WriteKeepsInv ==
    ASSUME MemoryInv, NEW j \in Jobs, NEW r \in Record, MatchesStatus(r),
           job' = [job EXCEPT ![j] = r], UNCHANGED <<slots, now>>
    PROVE  MemoryInv'
<1>1. job' \in [Jobs -> Record] /\ \A i \in Jobs : MatchesStatus(job[i])'
    BY DEF MemoryInv, MemoryTypeOK, RecordsMatchStatus, MatchesStatus
<1> QED BY <1>1 DEF MemoryInv, MemoryTypeOK, RecordsMatchStatus

LEMMA UpdateKeepsInv ==
    ASSUME MemoryInv, NEW j \in Jobs, NEW w, NEW g, NEW r, Update(j, w, g, r),
           r \in Record, MatchesStatus(r)
    PROVE  MemoryInv'
BY WriteKeepsInv DEF Update

LEMMA CallKeepsInv ==
    ASSUME MemoryInv, NEW j \in Jobs, NEW w, NEW g, Call(j, w, g, 0..MaxDelay)
    PROVE  MemoryInv'
<1> USE MemoryAssumption
<1>1. job[j].status = "running"
    BY CallWrites DEF Update, ActiveLease
<1>2. job[j] \in Record /\ MatchesStatus(job[j])
    BY <1>1, RunningRecord
<1>3. CASE Update(j, w, g, RenewedRecord(j))
    BY <1>1, <1>3, RenewedRecordShape, UpdateKeepsInv
<1>4. CASE Update(j, w, g, Unleased(job[j], "completed"))
    BY <1>1, <1>2, <1>4, UnleasedRecord, UpdateKeepsInv
<1>5. CASE \E d \in 0..MaxDelay : Update(j, w, g, PausedRecord(j, d))
    <2>1. PICK d \in 0..MaxDelay : Update(j, w, g, PausedRecord(j, d))
        BY <1>5
    <2>2. d \in Nat
        OBVIOUS
    <2> QED BY <1>1, <2>1, <2>2, PausedRecordShape, UpdateKeepsInv
<1>6. CASE Update(j, w, g, Unleased(job[j], "dead"))
    BY <1>1, <1>2, <1>6, UnleasedRecord, UpdateKeepsInv
<1>7. CASE Update(j, w, g, RetriedRecord(j))
    BY <1>1, <1>7, RetriedRecordShape, UpdateKeepsInv
<1> QED BY <1>3, <1>4, <1>5, <1>6, <1>7, CallWrites

LEMMA SweptKeepsInv ==
    ASSUME MemoryInv
    PROVE  Swept \in [Jobs -> Record] /\ \A j \in Jobs : MatchesStatus(Swept[j])
<1>1. \A j \in Jobs : Swept[j] \in Record /\ MatchesStatus(Swept[j])
    BY SweptRecord
<1>2. Swept = [j \in Jobs |-> Swept[j]]
    BY DEF Swept
<1> QED BY <1>1, <1>2

\* What lease does, however its order picks the job.
LEMMA LeaseWrites ==
    ASSUME MemoryInv, NEW w \in Workers, NEW kinds, Lease(w, kinds)
    PROVE  \E j \in Jobs :
              /\ PendingDue(j) \/ LeaseExpired(j)
              /\ job[j].attempts < MaxAttempts /\ job[j].generation < MaxGeneration
              /\ Swept[j] = job[j]
              /\ job' = [Swept EXCEPT ![j] = Leased(job[j], w)]
              /\ UNCHANGED <<slots, now>>
<1>1. PICK j \in Due(kinds) :
          /\ job[j].generation < MaxGeneration
          /\ job' = [Swept EXCEPT ![j] = Leased(@, w)]
          /\ UNCHANGED <<slots, now>>
    BY DEF Lease
<1>2. j \in Jobs /\ (PendingDue(j) \/ LeaseExpired(j)) /\ job[j].attempts < MaxAttempts
    BY <1>1 DEF Due
<1>3. job[j].attempts \in Nat /\ MaxAttempts \in Nat
    BY <1>2, MemoryAssumption DEF MemoryInv, MemoryTypeOK, Record, Existing
<1>4. j \notin Exhausted
    BY <1>2, <1>3 DEF Exhausted
<1>5. Swept[j] = job[j]
    BY <1>2, <1>4 DEF Swept
<1> QED BY <1>1, <1>2, <1>5

LEMMA LeaseKeepsInv ==
    ASSUME MemoryInv, NEW w \in Workers, NEW kinds, Lease(w, kinds)
    PROVE  MemoryInv'
<1>1. PICK j \in Jobs : /\ job[j].attempts < MaxAttempts
                        /\ job' = [Swept EXCEPT ![j] = Leased(job[j], w)]
                        /\ UNCHANGED <<slots, now>>
    BY LeaseWrites
<1>2. job[j] \in Record /\ MatchesStatus(job[j]) /\ now \in Nat
    BY DEF MemoryInv, MemoryTypeOK, RecordsMatchStatus
<1>3. Leased(job[j], w) \in Record /\ MatchesStatus(Leased(job[j], w))
    BY <1>1, <1>2, LeasedRecord
<1>4. job' \in [Jobs -> Record] /\ \A i \in Jobs : MatchesStatus(job'[i])
    BY <1>1, <1>3, SweptKeepsInv
<1>5. \A i \in Jobs : MatchesStatus(job[i])'
    BY <1>4 DEF MatchesStatus
<1> QED BY <1>1, <1>4, <1>5 DEF MemoryInv, MemoryTypeOK, RecordsMatchStatus

LEMMA NextKeepsInv ==
    ASSUME MemoryInv, MemoryNext
    PROVE  MemoryInv'
<1> USE MemoryAssumption
<1>0. now \in Nat /\ slots \in [Slots -> Jobs \cup {NoJob}] /\ job \in [Jobs -> Record]
    BY DEF MemoryInv, MemoryTypeOK
<1>1. ASSUME NEW j \in Jobs, NEW d \in 0..MaxDelay, Enqueue(j, d) PROVE MemoryInv'
    <2> d \in Nat
        OBVIOUS
    <2>1. Created(d) \in Record /\ MatchesStatus(Created(d))
        BY <1>0, CreatedRecord
    <2> QED BY <1>1, <2>1, WriteKeepsInv DEF Enqueue
<1>2. ASSUME NEW j \in Jobs, EnqueueScheduled(j) PROVE MemoryInv'
    <2>1. Created(0) \in Record /\ MatchesStatus(Created(0))
        BY <1>0, CreatedRecord
    <2>2. now' = now /\ slots' \in [Slots -> Jobs \cup {NoJob}]
        BY <1>0, <1>2 DEF EnqueueScheduled, Twins
    <2>3. job' = job \/ job' = [job EXCEPT ![j] = Created(0)]
        BY <1>2 DEF EnqueueScheduled
    <2>4. job' \in [Jobs -> Record] /\ \A i \in Jobs : MatchesStatus(job'[i])
        BY <1>0, <2>1, <2>3 DEF MemoryInv, RecordsMatchStatus
    <2>5. \A i \in Jobs : MatchesStatus(job[i])'
        BY <2>4 DEF MatchesStatus
    <2> QED BY <1>0, <2>2, <2>4, <2>5 DEF MemoryInv, MemoryTypeOK, RecordsMatchStatus
<1>3. ASSUME NEW kinds, Sweep(kinds) PROVE MemoryInv'
    <2>1. job' = Swept /\ UNCHANGED <<slots, now>>
        BY <1>3 DEF Sweep
    <2>2. \A i \in Jobs : MatchesStatus(job[i])'
        BY <2>1, SweptKeepsInv DEF MatchesStatus
    <2> QED BY <1>0, <2>1, <2>2, SweptKeepsInv
            DEF MemoryInv, MemoryTypeOK, RecordsMatchStatus
<1>4. ASSUME NEW j \in Jobs, Cancel(j) PROVE MemoryInv'
    <2> job[j].status \in {"pending", "running"}
        BY <1>4 DEF Cancel, Cancellable, Active
    <2>1. job[j] \in Record /\ MatchesStatus(job[j])
        BY DEF MemoryInv, MemoryTypeOK, RecordsMatchStatus
    <2>2. Unleased(job[j], "cancelled") \in Record
          /\ MatchesStatus(Unleased(job[j], "cancelled"))
        BY <1>4, <2>1, UnleasedRecord
    <2>3. job' = [job EXCEPT ![j] = Unleased(job[j], "cancelled")] /\ UNCHANGED <<slots, now>>
        BY <1>4 DEF Cancel
    <2> QED BY <2>2, <2>3, WriteKeepsInv
<1>5. ASSUME Tick PROVE MemoryInv'
    BY <1>0, <1>5 DEF Tick, MemoryInv, MemoryTypeOK, RecordsMatchStatus, MatchesStatus
<1> QED BY <1>1, <1>2, <1>3, <1>4, <1>5, LeaseKeepsInv, CallKeepsInv
        DEF MemoryNext, NextOf

LEMMA InitInv == MemoryInit => MemoryInv
BY NoRecordType DEF MemoryInit, MemoryInv, MemoryTypeOK, RecordsMatchStatus

LEMMA InvAlways == MemorySpec => []MemoryInv
<1>1. ASSUME MemoryInv, UNCHANGED memoryVars PROVE MemoryInv'
    BY <1>1 DEF MemoryInv, MemoryTypeOK, RecordsMatchStatus, MatchesStatus, memoryVars
<1> QED BY <1>1, InitInv, NextKeepsInv, PTL DEF MemorySpec

(* Whatever the callers ask for, records keep their type, and exactly the  *)
(* running ones carry a lease, within max_attempts.                        *)
THEOREM RecordsKeepShape == MemorySpec => [](MemoryTypeOK /\ RecordsMatchStatus)
BY InvAlways, PTL DEF MemoryInv
-------------------------------------------------------------------------------
(* Dedupe keys and slots.                                                  *)

\* Only enqueuing makes a job active, and no method makes one absent again.
Quiet ==
    \A i \in Jobs : /\ Active(i)' => Active(i)
                    /\ job'[i].status = "absent" => job[i].status = "absent"

LEMMA UpdateIsQuiet ==
    ASSUME MemoryInv, NEW j \in Jobs, NEW w, NEW g, NEW r \in Record,
           r.status # "absent", Update(j, w, g, r)
    PROVE  Quiet
BY DEF Update, ActiveLease, Quiet, Active, MemoryInv, MemoryTypeOK

LEMMA CallIsQuiet ==
    ASSUME MemoryInv, NEW j \in Jobs, NEW w, NEW g, Call(j, w, g, 0..MaxDelay)
    PROVE  Quiet /\ slots' = slots
<1> USE MemoryAssumption
<1>1. job[j].status = "running"
    BY CallWrites DEF Update, ActiveLease
<1>2. job[j] \in Record /\ MatchesStatus(job[j])
    BY <1>1, RunningRecord
<1>3. slots' = slots
    BY CallWrites DEF Update
<1>4. ASSUME Update(j, w, g, RenewedRecord(j)) PROVE Quiet
    <2>1. RenewedRecord(j) \in Record /\ RenewedRecord(j).status # "absent"
        BY <1>1, RenewedRecordShape
    <2> QED BY <1>4, <2>1, UpdateIsQuiet
<1>5. ASSUME NEW s \in {"completed", "dead"}, Update(j, w, g, Unleased(job[j], s))
      PROVE  Quiet
    <2> s \in {"pending", "completed", "dead", "cancelled"} /\ job[j].status # "absent"
        BY <1>1
    <2>1. Unleased(job[j], s) \in Record /\ Unleased(job[j], s).status = s
        BY <1>2, UnleasedRecord
    <2>2. Unleased(job[j], s).status # "absent"
        BY <2>1
    <2> QED BY <1>5, <2>1, <2>2, UpdateIsQuiet
<1>6. ASSUME NEW d \in 0..MaxDelay, Update(j, w, g, PausedRecord(j, d)) PROVE Quiet
    <2>1. d \in Nat
        OBVIOUS
    <2>2. PausedRecord(j, d) \in Record /\ PausedRecord(j, d).status # "absent"
        BY <1>1, <2>1, PausedRecordShape
    <2> QED BY <1>6, <2>2, UpdateIsQuiet
<1>7. ASSUME Update(j, w, g, RetriedRecord(j)) PROVE Quiet
    <2>1. RetriedRecord(j) \in Record /\ RetriedRecord(j).status # "absent"
        BY <1>1, RetriedRecordShape
    <2> QED BY <1>7, <2>1, UpdateIsQuiet
<1> QED BY <1>3, <1>4, <1>5, <1>6, <1>7, CallWrites

LEMMA SweepIsQuiet ==
    ASSUME MemoryInv, NEW kinds, Sweep(kinds)
    PROVE  Quiet /\ slots' = slots
<1>1. job' = Swept /\ slots' = slots
    BY DEF Sweep
<1>2. \A i \in Jobs : /\ i \notin Exhausted => Swept[i] = job[i]
                      /\ i \in Exhausted => Swept[i].status = "dead"
    BY SweptRecord
<1> QED BY <1>1, <1>2 DEF Quiet, Active

LEMMA LeaseIsQuiet ==
    ASSUME MemoryInv, NEW w \in Workers, NEW kinds, Lease(w, kinds)
    PROVE  Quiet /\ slots' = slots
<1>1. PICK j \in Jobs : /\ PendingDue(j) \/ LeaseExpired(j)
                        /\ job[j].attempts < MaxAttempts
                        /\ job' = [Swept EXCEPT ![j] = Leased(job[j], w)]
                        /\ slots' = slots
    BY LeaseWrites
<1>2. job[j] \in Record /\ MatchesStatus(job[j]) /\ now \in Nat
    BY DEF MemoryInv, MemoryTypeOK, RecordsMatchStatus
<1>3. Leased(job[j], w).status = "running" /\ Active(j)
    BY <1>1, <1>2, LeasedRecord DEF PendingDue, LeaseExpired, Active
<1>4. \A i \in Jobs : /\ i \notin Exhausted => Swept[i] = job[i]
                      /\ i \in Exhausted => Swept[i].status = "dead"
    BY SweptRecord
<1>5. \A i \in Jobs : i # j => job'[i] = Swept[i]
    BY <1>1, SweptKeepsInv
<1>6. job'[j].status = "running"
    BY <1>1, <1>3, SweptKeepsInv
<1>7. ASSUME NEW i \in Jobs
      PROVE  /\ Active(i)' => Active(i)
             /\ job'[i].status = "absent" => job[i].status = "absent"
    <2>1. CASE i = j
        BY <1>3, <1>6, <2>1
    <2>2. CASE i # j
        BY <1>4, <1>5, <2>2 DEF Active
    <2> QED BY <2>1, <2>2
<1> QED BY <1>1, <1>7 DEF Quiet

LEMMA CancelIsQuiet ==
    ASSUME MemoryInv, NEW j \in Jobs, Cancel(j)
    PROVE  Quiet /\ slots' = slots
<1> job[j].status \in {"pending", "running"}
    BY DEF Cancel, Cancellable, Active
<1>1. job[j] \in Record /\ MatchesStatus(job[j])
    BY DEF MemoryInv, MemoryTypeOK, RecordsMatchStatus
<1>2. Unleased(job[j], "cancelled").status = "cancelled"
    BY <1>1, UnleasedRecord
<1>3. job' = [job EXCEPT ![j] = Unleased(job[j], "cancelled")] /\ slots' = slots
    BY DEF Cancel
<1> QED BY <1>2, <1>3 DEF Quiet, Active, MemoryInv, MemoryTypeOK

\* A method either enqueues or is quiet.
LEMMA QuietUnlessEnqueued ==
    ASSUME MemoryInv, MemoryNext
    PROVE  \/ Quiet /\ slots' = slots
           \/ \E j \in Jobs, d \in 0..MaxDelay : Enqueue(j, d)
           \/ \E j \in Jobs : EnqueueScheduled(j)
<1>1. Tick => Quiet /\ slots' = slots
    BY DEF Tick, Quiet, Active
<1> QED BY <1>1, CallIsQuiet, SweepIsQuiet, LeaseIsQuiet, CancelIsQuiet
        DEF MemoryNext, NextOf

LEMMA CreatedStaysUnique ==
    ASSUME MemoryInv, ActiveKeysUnique, NEW j \in Jobs, NEW d \in Nat,
           Twins(j) = {}, job' = [job EXCEPT ![j] = Created(d)]
    PROVE  ActiveKeysUnique'
<1>1. \A i \in Jobs : i # j => (Active(i)' <=> Active(i))
    BY DEF Active, MemoryInv, MemoryTypeOK
<1>2. \A i \in Jobs : Active(i) /\ kind_of[i] = kind_of[j] /\ key_of[i] = key_of[j]
                      => key_of[i] = NoKey
    BY DEF Twins
<1> QED BY <1>1, <1>2 DEF ActiveKeysUnique

LEMMA NextKeepsUnique ==
    ASSUME MemoryInv, ActiveKeysUnique, MemoryNext
    PROVE  ActiveKeysUnique'
<1>1. CASE Quiet
    BY <1>1 DEF Quiet, ActiveKeysUnique
<1>2. ASSUME NEW j \in Jobs, NEW d \in 0..MaxDelay, Enqueue(j, d)
      PROVE  ActiveKeysUnique'
    <2> d \in Nat
        BY MemoryAssumption
    <2> QED BY <1>2, CreatedStaysUnique DEF Enqueue
<1>3. ASSUME NEW j \in Jobs, EnqueueScheduled(j)
      PROVE  ActiveKeysUnique'
    <2>1. CASE Twins(j) = {}
        BY <1>3, <2>1, CreatedStaysUnique DEF EnqueueScheduled
    <2>2. CASE Twins(j) # {}
        BY <1>3, <2>2 DEF EnqueueScheduled, ActiveKeysUnique, Active
    <2> QED BY <2>1, <2>2
<1> QED BY <1>1, <1>2, <1>3, QuietUnlessEnqueued

(* Two active jobs never share kind and dedupe key.                        *)
THEOREM KeysStayUnique == MemorySpec => []ActiveKeysUnique
<1>1. MemoryInit => ActiveKeysUnique
    BY DEF MemoryInit, ActiveKeysUnique, Active, NoRecord
<1>2. ASSUME MemoryInv, ActiveKeysUnique, [MemoryNext]_memoryVars
      PROVE  ActiveKeysUnique'
    <2>1. CASE MemoryNext
        BY <1>2, <2>1, NextKeepsUnique
    <2>2. CASE UNCHANGED memoryVars
        BY <1>2, <2>2 DEF memoryVars, ActiveKeysUnique, Active
    <2> QED BY <1>2, <2>1, <2>2
<1> QED BY <1>1, <1>2, InvAlways, PTL DEF MemorySpec

\* What SlotStays says of a state: a reserved slot names a job with its key.
SlotsNameJobs ==
    \A s \in Slots : slots[s] # NoJob =>
        key_of[slots[s]] = s /\ job[slots[s]].status # "absent"

SlotStep ==
    \A s \in Slots :
        /\ slots[s] # NoJob => slots'[s] = slots[s]
        /\ slots'[s] # NoJob => /\ key_of[slots'[s]] = s
                                /\ job'[slots'[s]].status # "absent"

LEMMA ReservationNamesJob ==
    ASSUME MemoryInv, SlotsNameJobs, NEW j \in Jobs, EnqueueScheduled(j)
    PROVE  SlotStep
<1> USE MemoryAssumption
<1>1. /\ slots \in [Slots -> Jobs \cup {NoJob}] /\ job \in [Jobs -> Record] /\ now \in Nat
    BY DEF MemoryInv, MemoryTypeOK
<1>2. key_of[j] \in Slots /\ slots[key_of[j]] = NoJob
    BY DEF EnqueueScheduled, SlotFree
<1>3. PICK i \in Jobs : /\ slots' = [slots EXCEPT ![key_of[j]] = i]
                        /\ key_of[i] = key_of[j] /\ job'[i].status # "absent"
                        /\ \A k \in Jobs : job'[k].status = "absent"
                                           => job[k].status = "absent"
    <2>1. CASE Twins(j) = {}
        <3>1. job' = [job EXCEPT ![j] = Created(0)] /\ slots' = [slots EXCEPT ![key_of[j]] = j]
            BY <2>1 DEF EnqueueScheduled
        <3>2. Created(0).status = "pending"
            BY <1>1, CreatedRecord
        <3> QED BY <1>1, <3>1, <3>2
    <2>2. CASE Twins(j) # {}
        <3>1. PICK i \in Twins(j) : slots' = [slots EXCEPT ![key_of[j]] = i]
            BY <2>2 DEF EnqueueScheduled
        <3>2. job' = job
            BY <2>2 DEF EnqueueScheduled
        <3>3. i \in Jobs /\ Active(i) /\ key_of[i] = key_of[j]
            BY <3>1 DEF Twins
        <3> QED BY <3>1, <3>2, <3>3 DEF Active
    <2> QED BY <2>1, <2>2
<1>4. ASSUME NEW s \in Slots
      PROVE  /\ slots[s] # NoJob => slots'[s] = slots[s]
             /\ slots'[s] # NoJob => /\ key_of[slots'[s]] = s
                                     /\ job'[slots'[s]].status # "absent"
    <2>1. CASE s = key_of[j]
        BY <1>1, <1>2, <1>3, <2>1
    <2>2. CASE s # key_of[j]
        BY <1>1, <1>3, <2>2 DEF SlotsNameJobs
    <2> QED BY <2>1, <2>2
<1> QED BY <1>4 DEF SlotStep

LEMMA NextKeepsSlots ==
    ASSUME MemoryInv, SlotsNameJobs, MemoryNext
    PROVE  SlotStep
<1>1. slots \in [Slots -> Jobs \cup {NoJob}] /\ job \in [Jobs -> Record] /\ now \in Nat
    BY DEF MemoryInv, MemoryTypeOK
<1>2. CASE Quiet /\ slots' = slots
    BY <1>1, <1>2 DEF Quiet, SlotsNameJobs, SlotStep
<1>3. ASSUME NEW j \in Jobs, NEW d \in 0..MaxDelay, Enqueue(j, d)
      PROVE  SlotStep
    <2> d \in Nat
        BY MemoryAssumption
    <2>1. Created(d).status = "pending"
        BY <1>1, CreatedRecord
    <2> QED BY <1>1, <1>3, <2>1 DEF Enqueue, SlotsNameJobs, SlotStep
<1> QED BY <1>2, <1>3, ReservationNamesJob, QuietUnlessEnqueued

(* A slot stays reserved for a job with its key.                           *)
THEOREM SlotsStay == MemorySpec => SlotStays
<1>1. MemoryInit => SlotsNameJobs
    BY DEF MemoryInit, SlotsNameJobs
<1>2. ASSUME MemoryInv, SlotsNameJobs, [MemoryNext]_memoryVars
      PROVE  SlotsNameJobs' /\ (SlotStep \/ UNCHANGED memoryVars)
    <2>1. CASE MemoryNext
        BY <1>2, <2>1, NextKeepsSlots DEF SlotStep, SlotsNameJobs
    <2>2. CASE UNCHANGED memoryVars
        BY <1>2, <2>2 DEF memoryVars, SlotsNameJobs
    <2> QED BY <1>2, <2>1, <2>2
<1>3. MemorySpec => [][SlotStep]_memoryVars
    BY <1>1, <1>2, InvAlways, PTL DEF MemorySpec
<1> QED BY <1>3 DEF SlotStays, SlotStep
-------------------------------------------------------------------------------
(* Careful callers cannot tell the repository from the database queue.     *)

LEMMA TicksLeftOfFuture ==
    ASSUME now \in Nat, NEW d \in Nat
    PROVE  TicksLeft(now + d) = d
BY DEF TicksLeft

\* Writing one record changes one row.
LEMMA RowsOfWrite ==
    ASSUME MemoryInv, NEW j \in Jobs, NEW r \in Record,
           job' = [job EXCEPT ![j] = r], now' = now
    PROVE  /\ RowStatus' = [RowStatus EXCEPT ![j] = r.status]
           /\ RowAttempts' = [RowAttempts EXCEPT ![j] = r.attempts]
           /\ RowGeneration' = [RowGeneration EXCEPT ![j] = r.generation]
           /\ RowOwner' = [RowOwner EXCEPT ![j] = r.leased_by]
           /\ RowLease' = [RowLease EXCEPT ![j] = TicksLeft(r.expires)]
           /\ RowDue' = [RowDue EXCEPT ![j] = TicksLeft(r.available)]
<1>1. job'[j] = r /\ \A i \in Jobs \ {j} : job'[i] = job[i]
    BY DEF MemoryInv, MemoryTypeOK
<1>2. RowStatus' = [RowStatus EXCEPT ![j] = r.status]
    <2>1. \A i \in Jobs : RowStatus'[i] = [RowStatus EXCEPT ![j] = r.status][i]
        BY <1>1 DEF RowStatus
    <2> QED BY <2>1 DEF RowStatus
<1>3. RowAttempts' = [RowAttempts EXCEPT ![j] = r.attempts]
    <2>1. \A i \in Jobs : RowAttempts'[i] = [RowAttempts EXCEPT ![j] = r.attempts][i]
        BY <1>1 DEF RowAttempts
    <2> QED BY <2>1 DEF RowAttempts
<1>4. RowGeneration' = [RowGeneration EXCEPT ![j] = r.generation]
    <2>1. \A i \in Jobs : RowGeneration'[i] = [RowGeneration EXCEPT ![j] = r.generation][i]
        BY <1>1 DEF RowGeneration
    <2> QED BY <2>1 DEF RowGeneration
<1>5. RowOwner' = [RowOwner EXCEPT ![j] = r.leased_by]
    <2>1. \A i \in Jobs : RowOwner'[i] = [RowOwner EXCEPT ![j] = r.leased_by][i]
        BY <1>1 DEF RowOwner
    <2> QED BY <2>1 DEF RowOwner
<1>6. RowLease' = [RowLease EXCEPT ![j] = TicksLeft(r.expires)]
    <2>1. \A i \in Jobs : RowLease'[i] = [RowLease EXCEPT ![j] = TicksLeft(r.expires)][i]
        BY <1>1 DEF RowLease, TicksLeft
    <2> QED BY <2>1 DEF RowLease
<1>7. RowDue' = [RowDue EXCEPT ![j] = TicksLeft(r.available)]
    <2>1. \A i \in Jobs : RowDue'[i] = [RowDue EXCEPT ![j] = TicksLeft(r.available)][i]
        BY <1>1 DEF RowDue, TicksLeft
    <2> QED BY <2>1 DEF RowDue
<1> QED BY <1>2, <1>3, <1>4, <1>5, <1>6, <1>7

\* Writing what was there changes nothing.
LEMMA SameEntry ==
    ASSUME NEW f, NEW S, f = [i \in S |-> f[i]], NEW j \in S
    PROVE  [f EXCEPT ![j] = f[j]] = f
OBVIOUS

LEMMA RowsAreFunctions ==
    /\ RowStatus = [j \in Jobs |-> RowStatus[j]]
    /\ RowAttempts = [j \in Jobs |-> RowAttempts[j]]
    /\ RowGeneration = [j \in Jobs |-> RowGeneration[j]]
    /\ RowOwner = [j \in Jobs |-> RowOwner[j]]
    /\ RowLease = [j \in Jobs |-> RowLease[j]]
    /\ RowDue = [j \in Jobs |-> RowDue[j]]
BY DEF RowStatus, RowAttempts, RowGeneration, RowOwner, RowLease, RowDue

LEMMA RowOf ==
    ASSUME NEW j \in Jobs
    PROVE  /\ RowStatus[j] = job[j].status /\ RowAttempts[j] = job[j].attempts
           /\ RowGeneration[j] = job[j].generation /\ RowOwner[j] = job[j].leased_by
           /\ RowLease[j] = TicksLeft(job[j].expires)
           /\ RowDue[j] = TicksLeft(job[j].available)
BY DEF RowStatus, RowAttempts, RowGeneration, RowOwner, RowLease, RowDue

LEMMA NoGates ==
    /\ OfNoSource' = OfNoSource
    /\ \A f : f = [s \in {} |-> f[s]] => f = OfNoSource
BY DEF OfNoSource

LEMMA LeaseLiveInQueue ==
    ASSUME MemoryInv, NEW j \in Jobs, NEW w, NEW g, ActiveLease(j, w, g)
    PROVE  Queue!LeaseLive(j, w, g)
<1>1. job[j].expires \in Nat /\ now \in Nat
    BY DEF MemoryInv, MemoryTypeOK, Record, Existing
<1>2. TicksLeft(job[j].expires) > 0
    BY <1>1 DEF ActiveLease, TicksLeft
<1> QED BY <1>2, RowOf DEF ActiveLease, Queue!LeaseLive

LEMMA EnqueueInQueue ==
    ASSUME MemoryInv, NEW j \in Jobs, NEW d \in Nat, job[j].status = "absent",
           job' = [job EXCEPT ![j] = Created(d)], now' = now
    PROVE  Queue!Enqueue(j, d)
<1>1. now \in Nat /\ job[j] = NoRecord
    BY DEF MemoryInv, MemoryTypeOK, RecordsMatchStatus, MatchesStatus
<1>2. /\ Created(d) \in Record
      /\ Created(d).status = "pending" /\ Created(d).attempts = 0
      /\ Created(d).generation = 0 /\ Created(d).leased_by = NoWorker
      /\ Created(d).expires = 0 /\ Created(d).available = now + d
    BY <1>1, CreatedRecord
<1> DEFINE r == Created(d)
<1>a. /\ RowStatus' = [RowStatus EXCEPT ![j] = r.status]
      /\ RowAttempts' = [RowAttempts EXCEPT ![j] = r.attempts]
      /\ RowGeneration' = [RowGeneration EXCEPT ![j] = r.generation]
      /\ RowOwner' = [RowOwner EXCEPT ![j] = r.leased_by]
      /\ RowLease' = [RowLease EXCEPT ![j] = TicksLeft(r.expires)]
      /\ RowDue' = [RowDue EXCEPT ![j] = TicksLeft(r.available)]
    BY <1>2, RowsOfWrite
<1>3. /\ RowStatus' = [RowStatus EXCEPT ![j] = "pending"]
      /\ RowAttempts' = [RowAttempts EXCEPT ![j] = 0]
      /\ RowGeneration' = [RowGeneration EXCEPT ![j] = 0]
      /\ RowOwner' = [RowOwner EXCEPT ![j] = NoWorker]
      /\ RowLease' = [RowLease EXCEPT ![j] = TicksLeft(0)]
      /\ RowDue' = [RowDue EXCEPT ![j] = TicksLeft(now + d)]
    BY <1>2, <1>a
<1>4. /\ RowAttempts[j] = 0 /\ RowGeneration[j] = 0 /\ RowOwner[j] = NoWorker
      /\ RowLease[j] = TicksLeft(0) /\ RowStatus[j] = "absent"
    BY <1>1, RowOf DEF NoRecord
<1>5. UNCHANGED <<RowAttempts, RowGeneration, RowOwner, RowLease>>
    BY <1>3, <1>4, SameEntry, RowsAreFunctions
<1>6. RowDue' = [RowDue EXCEPT ![j] = d]
    BY <1>1, <1>3, TicksLeftOfFuture
<1> QED BY <1>3, <1>4, <1>5, <1>6, NoGates DEF Queue!Enqueue, Queue!sourceVars

\* Columns that the record written agrees with stay.
LEMMA RowsKept ==
    ASSUME MemoryInv, NEW j \in Jobs, NEW r \in Record,
           job' = [job EXCEPT ![j] = r], now' = now
    PROVE  /\ r.status = job[j].status => RowStatus' = RowStatus
           /\ r.attempts = job[j].attempts => RowAttempts' = RowAttempts
           /\ r.generation = job[j].generation => RowGeneration' = RowGeneration
           /\ r.leased_by = job[j].leased_by => RowOwner' = RowOwner
           /\ r.available = job[j].available => RowDue' = RowDue
<1>1. /\ RowStatus' = [RowStatus EXCEPT ![j] = r.status]
      /\ RowAttempts' = [RowAttempts EXCEPT ![j] = r.attempts]
      /\ RowGeneration' = [RowGeneration EXCEPT ![j] = r.generation]
      /\ RowOwner' = [RowOwner EXCEPT ![j] = r.leased_by]
      /\ RowDue' = [RowDue EXCEPT ![j] = TicksLeft(r.available)]
    BY RowsOfWrite
<1> QED BY <1>1, RowOf, SameEntry, RowsAreFunctions

\* A job that gives up its lease, or is cancelled while it waits.
LEMMA UnlockInQueue ==
    ASSUME MemoryInv, NEW j \in Jobs, NEW r \in Record,
           r.leased_by = NoWorker, r.expires = 0,
           job' = [job EXCEPT ![j] = r], now' = now
    PROVE  Queue!Unlock(j, r.status)
<1>1. /\ RowStatus' = [RowStatus EXCEPT ![j] = r.status]
      /\ RowOwner' = [RowOwner EXCEPT ![j] = r.leased_by]
      /\ RowLease' = [RowLease EXCEPT ![j] = TicksLeft(r.expires)]
    BY RowsOfWrite
<1>2. TicksLeft(0) = 0
    BY DEF MemoryInv, MemoryTypeOK, TicksLeft
<1> QED BY <1>1, <1>2 DEF Queue!Unlock

LEMMA CancelInQueue ==
    ASSUME MemoryInv, NEW j \in Jobs, job[j].status = "pending", Cancel(j)
    PROVE  Queue!Cancel(j)
<1> DEFINE r == Unleased(job[j], "cancelled")
<1>1. job[j] \in Record /\ MatchesStatus(job[j])
    BY DEF MemoryInv, MemoryTypeOK, RecordsMatchStatus
<1>2. /\ r \in Record /\ r.status = "cancelled" /\ r.attempts = job[j].attempts
      /\ r.generation = job[j].generation /\ r.available = job[j].available
      /\ r.leased_by = NoWorker /\ r.expires = 0
    BY <1>1, UnleasedRecord
<1>3. job' = [job EXCEPT ![j] = r] /\ now' = now
    BY DEF Cancel
<1> HIDE DEF r
<1>4. Queue!Unlock(j, "cancelled")
    BY <1>2, <1>3, UnlockInQueue
<1>5. UNCHANGED <<RowAttempts, RowGeneration, RowDue>>
    BY <1>2, <1>3, RowsKept
<1> QED BY <1>4, <1>5, RowOf, NoGates DEF Queue!Cancel, Queue!sourceVars

LEMMA HeartbeatInQueue ==
    ASSUME MemoryInv, NEW j \in Jobs, NEW w, NEW g, Heartbeat(j, w, g)
    PROVE  Queue!Heartbeat(j, w, g)
<1> DEFINE r == RenewedRecord(j)
<1>1. ActiveLease(j, w, g) /\ job' = [job EXCEPT ![j] = r] /\ now' = now
    BY DEF Heartbeat, Update, RenewedRecord
<1>2. job[j].status = "running" /\ now \in Nat /\ LeaseFor \in Nat
    BY <1>1, MemoryAssumption DEF ActiveLease, MemoryInv, MemoryTypeOK
<1>3. /\ r \in Record /\ r.status = job[j].status /\ r.attempts = job[j].attempts
      /\ r.generation = job[j].generation /\ r.leased_by = job[j].leased_by
      /\ r.expires = now + LeaseFor /\ r.available = job[j].available
    BY <1>2, RenewedRecordShape
<1> HIDE DEF r
<1>4. UNCHANGED <<RowStatus, RowAttempts, RowGeneration, RowOwner, RowDue>>
    BY <1>1, <1>3, RowsKept
<1>5. RowLease' = [RowLease EXCEPT ![j] = LeaseFor]
    <2>1. RowLease' = [RowLease EXCEPT ![j] = TicksLeft(r.expires)]
        BY <1>1, <1>3, RowsOfWrite
    <2>2. TicksLeft(r.expires) = LeaseFor
        BY <1>2, <1>3, TicksLeftOfFuture
    <2> QED BY <2>1, <2>2
<1>6. Queue!RenewedGates(j, g, LeaseFor) = OfNoSource
    BY DEF Queue!RenewedGates, OfNoSource
<1> QED BY <1>1, <1>4, <1>5, <1>6, LeaseLiveInQueue, NoGates DEF Queue!Heartbeat

LEMMA CompleteInQueue ==
    ASSUME MemoryInv, NEW j \in Jobs, NEW w, NEW g, Complete(j, w, g)
    PROVE  Queue!Finalize(j, w, g, 0)
<1> DEFINE r == Unleased(job[j], "completed")
<1>1. ActiveLease(j, w, g) /\ job' = [job EXCEPT ![j] = r] /\ now' = now
    BY DEF Complete, Update
<1>2. job[j].status = "running" /\ job[j] \in Record /\ MatchesStatus(job[j])
    BY <1>1, RunningRecord DEF ActiveLease
<1>3. /\ r \in Record /\ r.status = "completed" /\ r.attempts = job[j].attempts
      /\ r.generation = job[j].generation /\ r.available = job[j].available
      /\ r.leased_by = NoWorker /\ r.expires = 0
    BY <1>2, UnleasedRecord
<1> HIDE DEF r
<1>4. Queue!Unlock(j, "completed")
    BY <1>1, <1>3, UnlockInQueue
<1>5. UNCHANGED <<RowAttempts, RowGeneration, RowDue>>
    BY <1>1, <1>3, RowsKept
<1> QED BY <1>1, <1>4, <1>5, LeaseLiveInQueue, NoGates
        DEF Queue!Finalize, Queue!MayPersist

LEMMA PauseInQueue ==
    ASSUME MemoryInv, NEW j \in Jobs, NEW w, NEW g, NEW d \in Nat \ {0}, Pause(j, w, g, d)
    PROVE  Queue!Pause(j, w, g, d)
<1> DEFINE r == PausedRecord(j, d)
<1>1. ActiveLease(j, w, g) /\ job' = [job EXCEPT ![j] = r] /\ now' = now
    BY DEF Pause, Update, PausedRecord
<1>2. job[j].status = "running" /\ now \in Nat /\ job[j].attempts \in 1..MaxAttempts
    BY <1>1, RunningRecord DEF ActiveLease
<1>3. /\ r \in Record /\ r.status = "pending" /\ r.attempts = job[j].attempts - 1
      /\ r.generation = job[j].generation /\ r.available = now + d
      /\ r.leased_by = NoWorker /\ r.expires = 0
    BY <1>2, PausedRecordShape
<1> HIDE DEF r
<1>4. Queue!Unlock(j, "pending")
    BY <1>1, <1>3, UnlockInQueue
<1>5. UNCHANGED RowGeneration
    BY <1>1, <1>3, RowsKept
<1>6. RowAttempts' = [RowAttempts EXCEPT ![j] = r.attempts]
      /\ RowDue' = [RowDue EXCEPT ![j] = TicksLeft(r.available)]
    BY <1>1, <1>3, RowsOfWrite
<1>7. RowDue' = [RowDue EXCEPT ![j] = d]
    BY <1>2, <1>3, <1>6, TicksLeftOfFuture
<1>8. Queue!Max2(0, RowAttempts[j] - 1) = job[j].attempts - 1
    BY <1>2, RowOf, MemoryAssumption DEF Queue!Max2
<1>9. RowAttempts' = [RowAttempts EXCEPT ![j] = Queue!Max2(0, RowAttempts[j] - 1)]
    BY <1>3, <1>6, <1>8
<1> QED BY <1>1, <1>4, <1>5, <1>7, <1>9, LeaseLiveInQueue, NoGates
        DEF Queue!Pause, Queue!NamesLease, Queue!LeaseLive, Queue!sourceVars

LEMMA FailInQueue ==
    ASSUME MemoryInv, NEW j \in Jobs, NEW w, NEW g, NEW retryable \in BOOLEAN,
           Fail(j, w, g, retryable)
    PROVE  Queue!Fail(j, w, g, retryable)
<1> DEFINE dead == ~retryable \/ job[j].attempts >= MaxAttempts
           r == IF dead THEN Unleased(job[j], "dead") ELSE RetriedRecord(j)
           b == Backoff[job[j].attempts]
<1>1. ActiveLease(j, w, g) /\ job' = [job EXCEPT ![j] = r] /\ now' = now
    BY DEF Fail, Update, RetriedRecord
<1>2. /\ job[j].status = "running" /\ job[j] \in Record /\ MatchesStatus(job[j])
      /\ now \in Nat /\ b \in Nat
    BY <1>1, RunningRecord, MemoryAssumption DEF ActiveLease
<1>3. /\ r \in Record /\ r.status = (IF dead THEN "dead" ELSE "pending")
      /\ r.attempts = job[j].attempts /\ r.generation = job[j].generation
      /\ r.leased_by = NoWorker /\ r.expires = 0
      /\ dead => r.available = job[j].available
      /\ ~dead => r.available = now + b
    <2>1. CASE dead
        BY <1>2, <2>1, UnleasedRecord
    <2>2. CASE ~dead
        BY <1>2, <2>2, RetriedRecordShape
    <2> QED BY <2>1, <2>2
<1>4. (~retryable \/ RowAttempts[j] >= MaxAttempts) <=> dead
    BY RowOf
<1>5. Backoff[RowAttempts[j]] = b
    BY RowOf
<1> HIDE DEF r, dead, b
<1>6. Queue!Unlock(j, IF dead THEN "dead" ELSE "pending")
    BY <1>1, <1>3, UnlockInQueue
<1>7. UNCHANGED <<RowAttempts, RowGeneration>> /\ (dead => UNCHANGED RowDue)
    BY <1>1, <1>3, RowsKept
<1>8. ~dead => RowDue' = [RowDue EXCEPT ![j] = b]
    <2>1. RowDue' = [RowDue EXCEPT ![j] = TicksLeft(r.available)]
        BY <1>1, <1>3, RowsOfWrite
    <2>2. ~dead => TicksLeft(r.available) = b
        BY <1>2, <1>3, TicksLeftOfFuture
    <2> QED BY <2>1, <2>2
<1>9. Queue!ReleasedGates(j, g) = OfNoSource
      /\ [s \in {} |-> IF Queue!OwnsGate(s, j, g) THEN 1 ELSE OfNoSource[s]] = OfNoSource
    BY DEF Queue!ReleasedGates, OfNoSource
<1> QED BY <1>1, <1>4, <1>5, <1>6, <1>7, <1>8, <1>9, LeaseLiveInQueue, NoGates
        DEF Queue!Fail

LEMMA AvailableInQueue ==
    ASSUME MemoryInv, NEW j \in Jobs
    PROVE  /\ Queue!Available(j) <=> PendingDue(j) \/ LeaseExpired(j)
           /\ LeaseExpired(j) => RowLease[j] = 0
           /\ PendingDue(j) => RowLease[j] = 0
<1>1. job[j] \in Record /\ MatchesStatus(job[j]) /\ now \in Nat
    BY DEF MemoryInv, MemoryTypeOK, RecordsMatchStatus
<1>2. job[j].available \in Nat /\ job[j].expires \in Nat
    BY <1>1 DEF Record, Existing
<1>3. /\ TicksLeft(job[j].available) = 0 <=> job[j].available <= now
      /\ TicksLeft(job[j].expires) = 0 <=> job[j].expires <= now
    BY <1>1, <1>2 DEF TicksLeft
<1>4. job[j].status = "pending" => job[j].expires <= now
    BY <1>1 DEF MatchesStatus
<1> QED BY <1>3, <1>4, RowOf DEF Queue!Available, PendingDue, LeaseExpired

LEMMA ExhaustedInQueue ==
    ASSUME MemoryInv
    PROVE  Queue!Exhausted = Exhausted
<1>1. \A j \in Jobs : RowAttempts[j] = job[j].attempts
    BY RowOf
<1> QED BY <1>1, AvailableInQueue DEF Queue!Exhausted, Exhausted

\* The rows that the sweep leaves, for a record function that agrees with it.
LEMMA SweptInQueue ==
    ASSUME MemoryInv, NEW i \in Jobs, job'[i] = Swept[i], now' = now
    PROVE  /\ RowStatus'[i] = Queue!SweptStatus[i]
           /\ RowGeneration'[i] = Queue!SweptGeneration[i]
           /\ RowOwner'[i] = Queue!SweptOwner[i]
           /\ RowAttempts'[i] = RowAttempts[i]
           /\ RowLease'[i] = RowLease[i]
           /\ RowDue'[i] = RowDue[i]
<1>1. /\ RowStatus'[i] = Swept[i].status /\ RowGeneration'[i] = Swept[i].generation
      /\ RowOwner'[i] = Swept[i].leased_by /\ RowAttempts'[i] = Swept[i].attempts
    BY DEF RowStatus, RowGeneration, RowOwner, RowAttempts
<1>2. RowLease'[i] = TicksLeft(Swept[i].expires) /\ RowDue'[i] = TicksLeft(Swept[i].available)
    BY DEF RowLease, RowDue, TicksLeft
<1>3. now \in Nat
    BY DEF MemoryInv, MemoryTypeOK
<1>4. TicksLeft(0) = 0
    BY <1>3 DEF TicksLeft
<1>5. RowAttempts'[i] = RowAttempts[i] /\ RowDue'[i] = RowDue[i]
    BY <1>1, <1>2, SweptRecord, RowOf
<1>6. CASE i \notin Exhausted
    BY <1>1, <1>2, <1>5, <1>6, SweptRecord, RowOf, ExhaustedInQueue
       DEF Queue!SweptStatus, Queue!SweptGeneration, Queue!SweptOwner
<1>7. CASE i \in Exhausted
    <2>1. RowLease[i] = 0
        BY <1>7, AvailableInQueue DEF Exhausted
    <2>2. /\ Swept[i].status = "dead" /\ Swept[i].leased_by = NoWorker
          /\ Swept[i].expires = 0
          /\ Swept[i].generation = IF job[i].status = "running"
                                   THEN job[i].generation + 1 ELSE job[i].generation
        BY <1>7, SweptRecord
    <2>3. /\ Queue!SweptStatus[i] = "dead" /\ Queue!SweptOwner[i] = NoWorker
          /\ Queue!SweptGeneration[i] = IF job[i].status = "running"
                                        THEN job[i].generation + 1 ELSE job[i].generation
        BY <1>7, RowOf, ExhaustedInQueue
           DEF Queue!SweptStatus, Queue!SweptGeneration, Queue!SweptOwner,
               Queue!IssuedGeneration
    <2> QED BY <1>1, <1>2, <1>4, <1>5, <2>1, <2>2, <2>3
<1> QED BY <1>6, <1>7

\* Functions on Jobs that agree everywhere are equal.
LEMMA SameOnJobs ==
    ASSUME NEW f, NEW h, f = [i \in Jobs |-> f[i]], h = [i \in Jobs |-> h[i]],
           \A i \in Jobs : f[i] = h[i]
    PROVE  f = h
OBVIOUS

LEMMA RowsAreFunctionsNext ==
    /\ RowStatus' = [j \in Jobs |-> RowStatus'[j]]
    /\ RowAttempts' = [j \in Jobs |-> RowAttempts'[j]]
    /\ RowGeneration' = [j \in Jobs |-> RowGeneration'[j]]
    /\ RowOwner' = [j \in Jobs |-> RowOwner'[j]]
    /\ RowLease' = [j \in Jobs |-> RowLease'[j]]
    /\ RowDue' = [j \in Jobs |-> RowDue'[j]]
BY DEF RowStatus, RowAttempts, RowGeneration, RowOwner, RowLease, RowDue

LEMMA SweptAreFunctions ==
    /\ Queue!SweptStatus = [j \in Jobs |-> Queue!SweptStatus[j]]
    /\ Queue!SweptGeneration = [j \in Jobs |-> Queue!SweptGeneration[j]]
    /\ Queue!SweptOwner = [j \in Jobs |-> Queue!SweptOwner[j]]
BY DEF Queue!SweptStatus, Queue!SweptGeneration, Queue!SweptOwner

LEMMA SweepInQueue ==
    ASSUME MemoryInv, NEW kinds, Sweep(kinds)
    PROVE  Queue!Sweep
<1>1. job' = Swept /\ now' = now /\ Exhausted # {}
    BY DEF Sweep
<1>2. \A i \in Jobs : /\ RowStatus'[i] = Queue!SweptStatus[i]
                      /\ RowGeneration'[i] = Queue!SweptGeneration[i]
                      /\ RowOwner'[i] = Queue!SweptOwner[i]
                      /\ RowAttempts'[i] = RowAttempts[i]
                      /\ RowLease'[i] = RowLease[i]
                      /\ RowDue'[i] = RowDue[i]
    BY <1>1, SweptInQueue
<1>3. RowStatus' = Queue!SweptStatus
    BY <1>2, SameOnJobs, RowsAreFunctionsNext, SweptAreFunctions
<1>4. RowGeneration' = Queue!SweptGeneration
    BY <1>2, SameOnJobs, RowsAreFunctionsNext, SweptAreFunctions
<1>5. RowOwner' = Queue!SweptOwner
    BY <1>2, SameOnJobs, RowsAreFunctionsNext, SweptAreFunctions
<1>6. RowAttempts' = RowAttempts
    BY <1>2, SameOnJobs, RowsAreFunctionsNext, RowsAreFunctions
<1>7. RowLease' = RowLease
    BY <1>2, SameOnJobs, RowsAreFunctionsNext, RowsAreFunctions
<1>8. RowDue' = RowDue
    BY <1>2, SameOnJobs, RowsAreFunctionsNext, RowsAreFunctions
<1> QED BY <1>1, <1>3, <1>4, <1>5, <1>6, <1>7, <1>8, ExhaustedInQueue, NoGates
        DEF Queue!Sweep, Queue!sourceVars

LEMMA LeaseInQueue ==
    ASSUME MemoryInv, NEW w \in Workers, NEW kinds, Lease(w, kinds)
    PROVE  \E j \in Jobs : Queue!Claim(w, j)
<1>1. PICK j \in Jobs :
          /\ PendingDue(j) \/ LeaseExpired(j)
          /\ job[j].attempts < MaxAttempts /\ job[j].generation < MaxGeneration
          /\ job' = [Swept EXCEPT ![j] = Leased(job[j], w)]
          /\ now' = now
    BY LeaseWrites
<1> DEFINE r == Leased(job[j], w)
<1>2. job[j] \in Record /\ MatchesStatus(job[j]) /\ now \in Nat /\ LeaseFor \in Nat
    BY MemoryAssumption DEF MemoryInv, MemoryTypeOK, RecordsMatchStatus
<1>3. /\ r.status = "running" /\ r.attempts = job[j].attempts + 1
      /\ r.generation = job[j].generation + 1 /\ r.leased_by = w
      /\ r.expires = now + LeaseFor /\ r.available = job[j].available
    BY <1>1, <1>2, LeasedRecord
<1>4. job'[j] = r /\ \A i \in Jobs \ {j} : job'[i] = Swept[i]
    BY <1>1, SweptKeepsInv
<1> HIDE DEF r
<1>5. \A i \in Jobs \ {j} : /\ RowStatus'[i] = Queue!SweptStatus[i]
                            /\ RowGeneration'[i] = Queue!SweptGeneration[i]
                            /\ RowOwner'[i] = Queue!SweptOwner[i]
                            /\ RowAttempts'[i] = RowAttempts[i]
                            /\ RowLease'[i] = RowLease[i]
                            /\ RowDue'[i] = RowDue[i]
    BY <1>1, <1>4, SweptInQueue
<1>6. /\ RowStatus'[j] = "running" /\ RowGeneration'[j] = RowGeneration[j] + 1
      /\ RowOwner'[j] = w /\ RowAttempts'[j] = RowAttempts[j] + 1
    BY <1>3, <1>4, RowOf DEF RowStatus, RowGeneration, RowOwner, RowAttempts
<1>7. RowLease'[j] = LeaseFor
    <2>1. RowLease'[j] = TicksLeft(r.expires)
        BY <1>1, <1>4 DEF RowLease, TicksLeft
    <2> QED BY <1>2, <1>3, <2>1, TicksLeftOfFuture
<1>8. RowDue'[j] = RowDue[j]
    <2>1. RowDue'[j] = TicksLeft(r.available)
        BY <1>1, <1>4 DEF RowDue, TicksLeft
    <2> QED BY <1>3, <2>1, RowOf
<1>9. RowStatus' = [Queue!SweptStatus EXCEPT ![j] = "running"]
    BY <1>5, <1>6, RowsAreFunctionsNext, SweptAreFunctions
<1>10. RowGeneration' = [Queue!SweptGeneration EXCEPT ![j] = Queue!IssuedGeneration(j)]
    BY <1>5, <1>6, RowsAreFunctionsNext, SweptAreFunctions DEF Queue!IssuedGeneration
<1>11. RowOwner' = [Queue!SweptOwner EXCEPT ![j] = w]
    BY <1>5, <1>6, RowsAreFunctionsNext, SweptAreFunctions
<1>12. RowAttempts' = [RowAttempts EXCEPT ![j] = RowAttempts[j] + 1]
    BY <1>5, <1>6, RowsAreFunctionsNext, RowsAreFunctions
<1>13. RowLease' = [RowLease EXCEPT ![j] = LeaseFor]
    BY <1>5, <1>7, RowsAreFunctionsNext, RowsAreFunctions
<1>14. RowDue' = RowDue
    BY <1>5, <1>8, RowsAreFunctionsNext, RowsAreFunctions
<1>15. Queue!Claimable(j) /\ RowGeneration[j] < MaxGeneration
    BY <1>1, AvailableInQueue, RowOf DEF Queue!Claimable
<1> QED BY <1>9, <1>10, <1>11, <1>12, <1>13, <1>14, <1>15, NoGates
        DEF Queue!Claim, Queue!sourceVars

LEMMA TickInQueue ==
    ASSUME MemoryInv, Tick
    PROVE  Queue!Tick
<1>1. now \in Nat /\ now' = now + 1 /\ job' = job
    BY DEF Tick, MemoryInv, MemoryTypeOK
<1>2. ASSUME NEW t \in Nat PROVE (TicksLeft(t))' = Queue!Elapse(TicksLeft(t))
    BY <1>1 DEF TicksLeft, Queue!Elapse
<1>3. \A j \in Jobs : job[j].expires \in Nat /\ job[j].available \in Nat
    BY DEF MemoryInv, MemoryTypeOK, Record, Existing
<1>4. ASSUME NEW j \in Jobs
      PROVE  /\ RowLease'[j] = Queue!Elapse(RowLease[j])
             /\ RowDue'[j] = Queue!Elapse(RowDue[j])
    <2>1. RowLease'[j] = IF job[j].expires > now' THEN job[j].expires - now' ELSE 0
        BY <1>1 DEF RowLease, TicksLeft
    <2>2. RowDue'[j] = IF job[j].available > now' THEN job[j].available - now' ELSE 0
        BY <1>1 DEF RowDue, TicksLeft
    <2> QED BY <1>1, <1>3, <2>1, <2>2, RowOf DEF TicksLeft, Queue!Elapse
<1>5. RowLease' = [j \in Jobs |-> Queue!Elapse(RowLease[j])]
      /\ RowDue' = [j \in Jobs |-> Queue!Elapse(RowDue[j])]
    BY <1>4, RowsAreFunctionsNext
<1>6. UNCHANGED <<RowStatus, RowAttempts, RowGeneration, RowOwner>>
    BY <1>1 DEF RowStatus, RowAttempts, RowGeneration, RowOwner
<1> QED BY <1>5, <1>6, NoGates DEF Queue!Tick

LEMMA NextInQueue ==
    ASSUME MemoryInv, CarefulNext
    PROVE  Queue!QueueNext \/ UNCHANGED Queue!queueVars
<1> USE MemoryAssumption
<1>1. ASSUME NEW j \in Jobs, NEW d \in 0..MaxDelay, Enqueue(j, d)
      PROVE  Queue!QueueNext
    <2> d \in Nat
        OBVIOUS
    <2>1. Queue!Enqueue(j, d)
        BY <1>1, EnqueueInQueue DEF Enqueue
    <2> QED BY <2>1 DEF Queue!QueueNext
<1>2. ASSUME NEW j \in Jobs, EnqueueScheduled(j)
      PROVE  Queue!QueueNext \/ UNCHANGED Queue!queueVars
    <2>1. CASE Twins(j) = {}
        <3>1. Queue!Enqueue(j, 0)
            BY <1>2, <2>1, EnqueueInQueue DEF EnqueueScheduled
        <3> QED BY <3>1 DEF Queue!QueueNext
    <2>2. CASE Twins(j) # {}
        <3>1. job' = job /\ now' = now
            BY <1>2, <2>2 DEF EnqueueScheduled
        <3>2. UNCHANGED <<RowStatus, RowAttempts, RowGeneration, RowOwner, RowLease, RowDue>>
            BY <3>1 DEF RowStatus, RowAttempts, RowGeneration, RowOwner, RowLease, RowDue,
                        TicksLeft
        <3> QED BY <3>2, NoGates DEF Queue!queueVars
    <2> QED BY <2>1, <2>2
<1>3. ASSUME NEW kinds, Sweep(kinds) PROVE Queue!QueueNext
    BY <1>3, SweepInQueue DEF Queue!QueueNext
<1>4. ASSUME NEW w \in Workers, NEW kinds, Lease(w, kinds) PROVE Queue!QueueNext
    BY <1>4, LeaseInQueue DEF Queue!QueueNext
<1>5. ASSUME NEW j \in Jobs, NEW w \in Workers, NEW g \in 1..MaxGeneration,
             Call(j, w, g, 1..MaxDelay)
      PROVE  Queue!QueueNext
    <2>1. CASE Heartbeat(j, w, g)
        BY <2>1, HeartbeatInQueue DEF Queue!QueueNext, Queue!Call
    <2>2. CASE Complete(j, w, g)
        <3>1. Queue!Finalize(j, w, g, 0)
            BY <2>2, CompleteInQueue
        <3>2. Cardinality(Jobs) \in Nat
            BY FS_CardinalityType
        <3>3. 0 \in 0..Cardinality(Jobs)
            BY <3>2
        <3>4. Queue!Call(j, w, g)
            <4>0. Queue!Cardinality(Jobs) = Cardinality(Jobs)
                BY DEF Queue!Cardinality, Cardinality
            <4>1. \E base \in 0..Queue!Cardinality(Jobs) : Queue!Finalize(j, w, g, base)
                BY <3>1, <3>3, <4>0
            <4> QED BY <4>1, Zenon DEF Queue!Call
        <3> QED BY <3>4 DEF Queue!QueueNext
    <2>3. ASSUME NEW d \in 1..MaxDelay, Pause(j, w, g, d) PROVE Queue!QueueNext
        <3>1. d \in Nat \ {0}
            OBVIOUS
        <3> QED BY <2>3, <3>1, PauseInQueue DEF Queue!QueueNext, Queue!Call
    <2>4. ASSUME NEW retryable \in BOOLEAN, Fail(j, w, g, retryable) PROVE Queue!QueueNext
        BY <2>4, FailInQueue DEF Queue!QueueNext, Queue!Call
    <2> QED BY <1>5, <2>1, <2>2, <2>3, <2>4 DEF Call
<1>6. ASSUME NEW j \in Jobs, job[j].status \in {"pending"}, Cancel(j) PROVE Queue!QueueNext
    BY <1>6, CancelInQueue DEF Queue!QueueNext
<1>7. Tick => Queue!QueueNext
    BY TickInQueue DEF Queue!QueueNext
<1> QED BY <1>1, <1>2, <1>3, <1>4, <1>5, <1>6, <1>7 DEF CarefulNext, NextOf

LEMMA CarefulIsMemory == CarefulNext => MemoryNext
<1>1. 1..MaxDelay \subseteq 0..MaxDelay /\ {"pending"} \subseteq Existing
    BY MemoryAssumption DEF Existing
<1> QED BY <1>1 DEF CarefulNext, MemoryNext, NextOf, Call

LEMMA InitInQueue == MemoryInit => Queue!QueueInit
<1> SUFFICES ASSUME MemoryInit PROVE Queue!QueueInit
    OBVIOUS
<1>1. now = 0 /\ \A j \in Jobs : job[j] = NoRecord
    BY DEF MemoryInit
<1>2. \A j \in Jobs : /\ RowStatus[j] = "absent" /\ RowAttempts[j] = 0
                      /\ RowGeneration[j] = 0 /\ RowOwner[j] = NoWorker
                      /\ RowLease[j] = 0 /\ RowDue[j] = 0
    BY <1>1, RowOf DEF NoRecord, TicksLeft
<1> QED BY <1>2, RowsAreFunctions, NoGates DEF Queue!QueueInit

LEMMA StutterInQueue ==
    ASSUME UNCHANGED memoryVars
    PROVE  UNCHANGED Queue!queueVars
<1>1. UNCHANGED <<RowStatus, RowAttempts, RowGeneration, RowOwner, RowLease, RowDue>>
    BY DEF memoryVars, RowStatus, RowAttempts, RowGeneration, RowOwner,
           RowLease, RowDue, TicksLeft
<1> QED BY <1>1, NoGates DEF Queue!queueVars

(* Whatever was called before, with care or not, a call that pauses until  *)
(* a later instant, or cancels a job only while it is not leased, is a     *)
(* step of the database queue.                                             *)
THEOREM CareSuffices == MemorySpec => CareIsEnough
<1>1. ASSUME MemoryInv, [MemoryNext]_memoryVars
      PROVE  [CarefulNext => [Queue!QueueNext]_(Queue!queueVars)]_memoryVars
    BY <1>1, NextInQueue
<1> QED BY <1>1, InvAlways, InitInQueue, PTL DEF MemorySpec, CareIsEnough

(* For callers that pause until a later instant and leave the cancelling of*)
(* leased jobs to their holders, the repository is a database queue without*)
(* sources: its leasing semantics are those of production.                 *)
THEOREM ImplementsProduction == CarefulSpec => ProductionEquivalent
<1>1. ASSUME MemoryInv, [CarefulNext]_memoryVars
      PROVE  MemoryInv' /\ [Queue!QueueNext]_(Queue!queueVars)
    <2>1. CASE CarefulNext
        BY <1>1, <2>1, CarefulIsMemory, NextKeepsInv, NextInQueue
    <2>2. CASE UNCHANGED memoryVars
        <3>1. MemoryInv'
            BY <1>1, <2>2 DEF memoryVars, MemoryInv, MemoryTypeOK, RecordsMatchStatus,
                              MatchesStatus
        <3> QED BY <3>1, <2>2, StutterInQueue
    <2> QED BY <1>1, <2>1, <2>2
<1> QED BY <1>1, InitInQueue, InitInv, PTL DEF CarefulSpec, ProductionEquivalent, Queue!QueueSpec
=============================================================================
