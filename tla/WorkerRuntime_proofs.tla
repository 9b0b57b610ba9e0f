------------------------- MODULE WorkerRuntime_proofs --------------------------
(***************************************************************************)
(* Proofs about WorkerRuntime, for every value of its constants.  Whatever *)
(* the processes do is a step of the queue, so what JobQueue_proofs shows  *)
(* of any clients holds of these.  What the clients add is that a process  *)
(* still has what it had when its request began: the inductive invariant   *)
(* ties its lease, its gate, the checkpoint it read and the deadline of    *)
(* its transport together.                                                 *)
(***************************************************************************)
EXTENDS WorkerRuntime, JobQueue_proofs

\* A process that is at work on a job.
AtWork(w) == pc[w] \notin {"down", "idle"}
SourceAt(w) == source_of[held[w].job]

\* Its lease was issued, and what it passes to the queue is within the bounds
\* of the calls the queue admits.
ProcessInv(w) ==
    /\ IF AtWork(w) THEN held[w].job \in Jobs /\ held[w].gen \in 1..generation[held[w].job]
                    ELSE held[w] = NoLease
    /\ InHandler(w) => SourceAt(w) \in Sources
    /\ base[w] <= Cardinality(Jobs) /\ retry_in[w] <= MaxDelay /\ budget[w] <= RequestBudget

\* From begin to the finalizer, as long as the lease is live the gate is its
\* own and nobody else has persisted a result.
Fenced(w) ==
    (pc[w] \in {"request", "finalize"} /\ SourceAt(w) \in Sources /\ Live(w)) =>
        /\ OwnsGate(SourceAt(w), held[w].job, held[w].gen)
        /\ base[w] = revision[SourceAt(w)]

\* An open request always has a live lease and a gate that outlives it.
Covered(w) == pc[w] = "request" => Live(w) /\ gate[SourceAt(w)].left > budget[w]

\* Bounds of what the queue hands out.
QueueBounds ==
    /\ \A j \in Jobs : status[j] = "running" => generation[j] \in 1..MaxGeneration
    /\ \A s \in Sources : cooldown[s] <= MinDelay

WorkersInv == /\ TypeOK /\ QueueInv /\ ResultsPersistedOnce /\ QueueBounds /\ LeaseHeldOnce
              /\ \A w \in Workers : ProcessInv(w) /\ Fenced(w) /\ Covered(w)
-------------------------------------------------------------------------------
(* What a process may store about itself.                                  *)

ProcessTypeOK ==
    /\ pc \in [Workers -> Phases] /\ held \in [Workers -> Lease]
    /\ beat \in [Workers -> {"ok", "lost", "error"}]
    /\ base \in [Workers -> Nat] /\ budget \in [Workers -> Nat]
    /\ retry_in \in [Workers -> Nat] /\ retryable \in [Workers -> BOOLEAN]

\* The variables of process w stay as they are.
SameProcess(w) ==
    /\ pc'[w] = pc[w] /\ held'[w] = held[w] /\ base'[w] = base[w]
    /\ budget'[w] = budget[w] /\ retry_in'[w] = retry_in[w]

\* Process w has forgotten its job.
Forgotten(w) ==
    /\ pc'[w] \in {"down", "idle"} /\ held'[w] = NoLease
    /\ base'[w] = 0 /\ budget'[w] = 0 /\ retry_in'[w] = 0

\* Process w keeps its lease for something that needs no gate.
GivingUp(w) ==
    /\ pc'[w] \in {"fail", "pause"} /\ held'[w] = held[w]
    /\ base'[w] \in {0, base[w]} /\ budget'[w] \in {0, budget[w]}

LEMMA LeaveForgets ==
    ASSUME ProcessTypeOK, NEW w \in Workers, NEW phase \in {"down", "idle"}, Leave(w, phase)
    PROVE  /\ ProcessTypeOK' /\ Forgotten(w)
           /\ \A v \in Workers \ {w} : SameProcess(v)
BY DEF ProcessTypeOK, Leave, Forgotten, SameProcess, NoLease, Lease, Phases

LEMMA ReportKeepsLease ==
    ASSUME ProcessTypeOK, NEW w \in Workers, NEW again \in BOOLEAN, ReportFailure(w, again)
    PROVE  /\ ProcessTypeOK' /\ GivingUp(w) /\ retry_in'[w] = 0
           /\ \A v \in Workers \ {w} : SameProcess(v)
BY DEF ProcessTypeOK, ReportFailure, GivingUp, SameProcess, Phases

LEMMA RaisedGivesUp ==
    ASSUME ProcessTypeOK, NEW w \in Workers, NEW again \in BOOLEAN, HandlerRaised(w, again)
    PROVE  /\ ProcessTypeOK' /\ (Forgotten(w) \/ GivingUp(w)) /\ retry_in'[w] = 0
           /\ \A v \in Workers \ {w} : SameProcess(v)
<1>1. beat[w] \in {"ok", "lost", "error"}
    BY DEF ProcessTypeOK
<1>2. ReportFailure(w, again) \/ ReportFailure(w, TRUE) \/ Leave(w, "idle")
    BY <1>1 DEF HandlerRaised
<1> QED BY <1>2, LeaveForgets, ReportKeepsLease DEF Forgotten

LEMMA DeferredGivesUp ==
    ASSUME ProcessTypeOK, NEW w \in Workers, NEW r \in 0..MaxDelay, HandlerDeferred(w, r),
           MaxDelay \in Nat
    PROVE  /\ ProcessTypeOK' /\ (Forgotten(w) \/ GivingUp(w)) /\ retry_in'[w] <= MaxDelay
           /\ \A v \in Workers \ {w} : SameProcess(v)
<1>1. CASE beat[w] = "ok"
    BY <1>1 DEF HandlerDeferred, ProcessTypeOK, GivingUp, SameProcess, Phases
<1>2. CASE beat[w] # "ok"
    <2>1. HandlerRaised(w, TRUE)
        BY <1>2 DEF HandlerDeferred
    <2>2. /\ ProcessTypeOK' /\ (Forgotten(w) \/ GivingUp(w)) /\ retry_in'[w] = 0
          /\ \A v \in Workers \ {w} : SameProcess(v)
        BY <2>1, RaisedGivesUp
    <2> QED BY <2>2
<1> QED BY <1>1, <1>2
-------------------------------------------------------------------------------
(* Every step of the processes is a step of the queue.                     *)

LEMMA InvGivesTypes ==
    ASSUME WorkersInv
    PROVE  /\ QueueTypeOK /\ ProcessTypeOK /\ QueueInv /\ ResultsPersistedOnce
           /\ Cardinality(Jobs) \in Nat
BY ConstantsAssumption, FS_CardinalityType DEF WorkersInv, TypeOK, ProcessTypeOK

\* At most as many results as jobs.
LEMMA RevisionBounded ==
    ASSUME WorkersInv, NEW s \in Sources
    PROVE  revision[s] \in 0..Cardinality(Jobs)
<1>1. CompletedJobs(s) \subseteq Jobs /\ IsFiniteSet(Jobs)
    BY ConstantsAssumption DEF CompletedJobs
<1>2. Cardinality(CompletedJobs(s)) <= Cardinality(Jobs)
    BY <1>1, FS_Subset
<1> QED BY <1>2, InvGivesTypes DEF ResultsPersistedOnce, QueueTypeOK

LEMMA DeferralBounded ==
    ASSUME WorkersInv, NEW s \in Sources
    PROVE  DeferFor(s) \in 0..MaxDelay
BY InvGivesTypes, ConstantsAssumption, BudgetAssumption
DEF WorkersInv, QueueBounds, QueueTypeOK, DeferFor, Gate, Max2, Min2

\* A call that takes effect is one that the queue admits.
LEMMA CallIsQueueStep ==
    ASSUME WorkersInv, NEW w \in Workers, AtWork(w), NEW op, TakesEffect(w, op)
    PROVE  \E g \in 1..MaxGeneration : g = held[w].gen /\ Call(held[w].job, w, g)
<1>1. held[w].job \in Jobs
    BY DEF WorkersInv, ProcessInv
<1>2. NamesLease(held[w].job, w, held[w].gen)
    BY DEF TakesEffect, Begin, Finalize, Fail, Pause, Heartbeat, LeaseLive, NamesLease
<1>3. held[w].gen \in 1..MaxGeneration
    BY <1>1, <1>2 DEF NamesLease, WorkersInv, QueueBounds
<1>4. base[w] \in 0..Cardinality(Jobs) /\ retryable[w] \in BOOLEAN /\ retry_in[w] \in 0..MaxDelay
    BY InvGivesTypes, ConstantsAssumption DEF WorkersInv, ProcessInv, ProcessTypeOK
<1> QED BY <1>3, <1>4 DEF TakesEffect, Call

\* What one process does to the queue.
QueueStepOf(w) ==
    \/ UNCHANGED queueVars
    \/ Sweep
    \/ \E j \in Jobs : Claim(w, j)
    \/ AtWork(w) /\ \E op \in {"begin", "finalize", "fail", "pause", "heartbeat"} :
                        TakesEffect(w, op)

LEMMA StepOfIsQueueStep ==
    ASSUME WorkersInv, NEW w \in Workers, QueueStepOf(w)
    PROVE  [QueueNext]_queueVars
<1>1. ASSUME AtWork(w), NEW op, TakesEffect(w, op) PROVE QueueNext
    BY <1>1, CallIsQueueStep DEF WorkersInv, ProcessInv, QueueNext
<1> QED BY <1>1 DEF QueueStepOf, QueueNext

LEMMA WorkerMovesQueue ==
    ASSUME ProcessTypeOK, NEW w \in Workers,
           Work(w) \/ SendHeartbeat(w) \/ CallRaises(w) \/ Crash(w)
    PROVE  QueueStepOf(w)
<1>1. CASE Restart(w) \/ EndRequest(w)
    BY <1>1 DEF Restart, EndRequest, QueueStepOf
<1>2. CASE Poll(w) \/ \E j \in Jobs : Lease1(w, j)
    BY <1>2 DEF Poll, Lease1, QueueStepOf
<1>3. CASE CallBegin(w)
    BY <1>3 DEF CallBegin, QueueStepOf, AtWork, TakesEffect
<1>4. CASE CallFinalize(w)
    BY <1>4 DEF CallFinalize, QueueStepOf, AtWork, TakesEffect
<1>5. CASE CallFail(w) \/ CallPause(w)
    BY <1>5 DEF CallFail, CallPause, QueueStepOf, AtWork, TakesEffect
<1>6. CASE SendHeartbeat(w)
    BY <1>6 DEF SendHeartbeat, InHandler, QueueStepOf, AtWork, TakesEffect
<1>7. ASSUME AtWork(w), NEW op \in {"begin", "finalize", "fail", "pause", "heartbeat"},
             LoseAnswer(w, op)
      PROVE  QueueStepOf(w)
    BY <1>7 DEF LoseAnswer, QueueStepOf
<1>8. CASE CallRaises(w)
    BY <1>7, <1>8 DEF CallRaises, InHandler, AtWork
<1>9. CASE Crash(w)
    <2>1. AtWork(w) /\ LoseAnswer(w, IF pc[w] = "request" THEN "heartbeat" ELSE pc[w])
        BY <1>9 DEF Crash, AtWork
    <2>2. (IF pc[w] = "request" THEN "heartbeat" ELSE pc[w])
              \in {"begin", "finalize", "fail", "pause", "heartbeat"}
        BY <1>9 DEF Crash, Phases, ProcessTypeOK
    <2> QED BY <1>7, <2>1, <2>2
<1> QED BY <1>1, <1>2, <1>3, <1>4, <1>5, <1>6, <1>8, <1>9 DEF Work

LEMMA NextIsQueueStep == WorkersInv /\ [Next]_vars => [QueueNext]_queueVars
<1> SUFFICES ASSUME WorkersInv, [Next]_vars PROVE [QueueNext]_queueVars
    OBVIOUS
<1>1. ASSUME NEW w \in Workers, Work(w) \/ SendHeartbeat(w) \/ CallRaises(w) \/ Crash(w)
      PROVE  [QueueNext]_queueVars
    BY <1>1, InvGivesTypes, WorkerMovesQueue, StepOfIsQueueStep
<1>2. CASE Environment
    BY <1>2 DEF Environment, QueueNext
<1>3. CASE Advance
    BY <1>3 DEF Advance, QueueNext
<1>4. CASE UNCHANGED vars
    BY <1>4 DEF vars, queueVars
<1> QED BY <1>1, <1>2, <1>3, <1>4 DEF Next
-------------------------------------------------------------------------------
(* What a step of the queue means for a lease that some process holds.     *)

LEMMA GenerationGrows ==
    ASSUME QueueTypeOK, [QueueNext]_queueVars, NEW j \in Jobs
    PROVE  generation'[j] >= generation[j]
<1>1. SweptGeneration \in [Jobs -> Nat] /\ SweptGeneration[j] >= generation[j]
    BY SweptType DEF SweptGeneration, IssuedGeneration, QueueTypeOK
<1>2. ASSUME NEW w \in Workers, NEW k \in Jobs, Claim(w, k)
      PROVE  generation'[j] >= generation[j]
    BY <1>1, <1>2 DEF Claim, IssuedGeneration, QueueTypeOK
<1>3. CASE Sweep
    BY <1>1, <1>3 DEF Sweep
<1>4. CASE generation' = generation
    BY <1>4 DEF QueueTypeOK
<1> QED BY <1>2, <1>3, <1>4
    DEF QueueNext, Call, Enqueue, Heartbeat, Begin, Finalize, Fail, Pause, Cancel, Disable,
        Tick, jobVars, queueVars

LEMMA BoundsKept ==
    ASSUME QueueTypeOK, RowConstraints, QueueBounds, [QueueNext]_queueVars
    PROVE  QueueBounds'
<1> USE ConstantsAssumption
<1> DEFINE Running(j) == status'[j] = "running" => generation'[j] \in 1..MaxGeneration
           Paced(s) == cooldown'[s] <= MinDelay
<1>1. ASSUME status' = status, generation' = generation PROVE \A j \in Jobs : Running(j)
    BY <1>1 DEF QueueBounds
<1>2. ASSUME cooldown' = cooldown PROVE \A s \in Sources : Paced(s)
    BY <1>2 DEF QueueBounds
<1>3. ASSUME NEW j \in Jobs, NEW newStatus, newStatus # "running", Unlock(j, newStatus),
             generation' = generation
      PROVE  \A k \in Jobs : Running(k)
    BY <1>3 DEF Unlock, QueueBounds, QueueTypeOK
<1>4. CASE Sweep
    <2>1. \A k \in Jobs : Running(k)
        BY <1>4 DEF Sweep, SweptStatus, SweptGeneration, QueueBounds, QueueTypeOK
    <2> QED BY <1>2, <1>4, <2>1 DEF Sweep, sourceVars, QueueBounds
<1>5. ASSUME NEW w \in Workers, NEW j \in Jobs, Claim(w, j) PROVE QueueBounds'
    <2>1. ASSUME NEW k \in Jobs PROVE Running(k)
        <3>1. CASE k = j
            BY <1>5, <3>1, SweptType DEF Claim, IssuedGeneration, QueueTypeOK
        <3>2. CASE k # j
            <4>1. status'[k] = SweptStatus[k] /\ generation'[k] = SweptGeneration[k]
                BY <1>5, <3>2, SweptType DEF Claim
            <4> QED BY <4>1 DEF SweptStatus, SweptGeneration, QueueBounds
        <3> QED BY <3>1, <3>2
    <2> QED BY <1>2, <1>5, <2>1 DEF Claim, sourceVars, QueueBounds
<1>6. ASSUME NEW j \in Jobs, NEW d \in 0..MaxDelay, Enqueue(j, d) PROVE QueueBounds'
    <2>1. \A k \in Jobs : Running(k)
        BY <1>6 DEF Enqueue, QueueBounds, QueueTypeOK
    <2> QED BY <1>2, <1>6, <2>1 DEF Enqueue, sourceVars, QueueBounds
<1>7. ASSUME NEW j \in Jobs, NEW w \in Workers, NEW g \in 1..MaxGeneration, Call(j, w, g)
      PROVE  QueueBounds'
    <2>1. CASE Heartbeat(j, w, g)
        BY <1>1, <1>2, <2>1 DEF Heartbeat, QueueBounds
    <2>2. CASE Begin(j, w, g)
        <3>1. \A s \in Sources : Paced(s)
            BY <2>2 DEF Begin, QueueBounds, QueueTypeOK
        <3> QED BY <1>1, <2>2, <3>1 DEF Begin, QueueBounds
    <2>3. ASSUME NEW b \in 0..Cardinality(Jobs), Finalize(j, w, g, b) PROVE QueueBounds'
        <3>1. \/ cooldown' = cooldown
              \/ cooldown' = [cooldown EXCEPT ![source_of[j]] = MinDelay]
            BY <2>3 DEF Finalize
        <3>2. \A s \in Sources : Paced(s)
            <4>1. CASE cooldown' = [cooldown EXCEPT ![source_of[j]] = MinDelay]
                BY <4>1 DEF QueueBounds, QueueTypeOK
            <4> QED BY <1>2, <3>1, <4>1
        <3> QED BY <1>3, <2>3, <3>2 DEF Finalize, QueueBounds
    <2>4. ASSUME NEW r \in BOOLEAN, Fail(j, w, g, r) PROVE QueueBounds'
        <3>1. \A s \in Sources : Paced(s)
            BY <2>4 DEF Fail, QueueBounds, QueueTypeOK
        <3>2. \A k \in Jobs : Running(k)
            BY <1>3, <2>4 DEF Fail
        <3> QED BY <3>1, <3>2 DEF QueueBounds
    <2>5. ASSUME NEW r \in 0..MaxDelay, Pause(j, w, g, r) PROVE QueueBounds'
        BY <1>2, <1>3, <2>5 DEF Pause, sourceVars, QueueBounds
    <2> QED BY <1>7, <2>1, <2>2, <2>3, <2>4, <2>5 DEF Call
<1>8. ASSUME NEW j \in Jobs, Cancel(j) PROVE QueueBounds'
    BY <1>2, <1>3, <1>8 DEF Cancel, sourceVars, QueueBounds
<1>9. CASE Tick
    <2>1. \A s \in Sources : Paced(s)
        BY <1>9 DEF Tick, Elapse, QueueBounds, QueueTypeOK
    <2> QED BY <1>1, <1>9, <2>1 DEF Tick, QueueBounds
<1>10. CASE (\E s \in Sources : Disable(s)) \/ UNCHANGED queueVars
    BY <1>1, <1>2, <1>10 DEF Disable, jobVars, queueVars, QueueBounds
<1> QED BY <1>4, <1>5, <1>6, <1>7, <1>8, <1>9, <1>10 DEF QueueNext

\* Nothing revives a lease that is gone.
LEMMA LostStaysLost ==
    ASSUME QueueInv, [QueueNext]_queueVars, NEW j \in Jobs, NEW w \in Workers,
           NEW g \in 1..generation[j], LeaseLive(j, w, g)'
    PROVE  LeaseLive(j, w, g)
<1>1. /\ lease_left[j] = 0 => generation'[j] > generation[j]
      /\ lease_left[j] > 0 => /\ generation'[j] = generation[j]
                              /\ locked_by'[j] \in {locked_by[j], NoWorker}
    BY StepGuardsLease DEF QueueInv, LeaseLive
<1>2. lease_left[j] \in Nat /\ generation[j] \in Nat /\ NoWorker # w
    BY ConstantsAssumption DEF QueueInv, QueueTypeOK
<1>3. lease_left[j] > 0
    BY <1>1, <1>2 DEF LeaseLive
<1> QED BY <1>1, <1>2, <1>3 DEF LeaseLive, QueueInv, RowConstraints

\* The row of a lease, its gate and its source's results are as before.
Undisturbed(j, g) ==
    /\ status'[j] = status[j] /\ locked_by'[j] = locked_by[j]
    /\ generation'[j] = generation[j] /\ lease_left'[j] = lease_left[j]
    /\ \A s \in Sources : OwnsGate(s, j, g) => gate'[s] = gate[s] /\ revision'[s] = revision[s]

\* Other processes cannot disturb a live lease.
LEMMA OthersCannotDisturb ==
    ASSUME QueueInv, NEW j \in Jobs, NEW w \in Workers, NEW g, LeaseLive(j, w, g),
           NEW v \in Workers \ {w}, NEW k \in Jobs, NEW h,
           \/ Claim(v, k) \/ Begin(k, v, h) \/ Heartbeat(k, v, h)
           \/ \E b \in Nat : Finalize(k, v, h, b)
           \/ \E r \in BOOLEAN : Fail(k, v, h, r)
           \/ \E r \in Nat : Pause(k, v, h, r)
    PROVE  Undisturbed(j, g)
<1> USE ConstantsAssumption DEF QueueInv
<1>1. j \notin Exhausted /\ ~Available(j)
    BY DEF LeaseLive, Exhausted, Available
<1>2. k # j
    BY <1>1 DEF Claim, Claimable, Begin, Heartbeat, Finalize, Fail, Pause, NamesLease, LeaseLive
<1>3. ASSUME NEW s \in Sources, OwnsGate(s, j, g) PROVE GateBusy(s) /\ gate[s].gen = g
    BY <1>3 DEF OwnsGate, GateBusy, GatesFollowLeases, LeaseLive
<1>4. CASE Claim(v, k)
    BY <1>1, <1>2, <1>4, SweptType
    DEF Claim, SweptStatus, SweptGeneration, SweptOwner, sourceVars, Undisturbed, QueueTypeOK
<1>5. CASE Begin(k, v, h)
    <2>1. ASSUME NEW s \in Sources, OwnsGate(s, j, g) PROVE gate'[s] = gate[s]
        BY <1>3, <1>5, <2>1 DEF Begin, MayBegin, QueueTypeOK
    <2> QED BY <1>2, <1>5, <2>1 DEF Begin, Undisturbed, QueueTypeOK
<1>6. CASE Heartbeat(k, v, h)
    BY <1>2, <1>6 DEF Heartbeat, RenewedGates, OwnsGate, Undisturbed, QueueTypeOK
<1>7. ASSUME NEW b \in Nat, Finalize(k, v, h, b) PROVE Undisturbed(j, g)
    <2>1. ASSUME NEW s \in Sources, OwnsGate(s, j, g)
          PROVE  gate'[s] = gate[s] /\ revision'[s] = revision[s]
        <3>1. source_of[k] # s
            BY <1>2, <1>7, <2>1 DEF Finalize, MayPersist, OwnsGate
        <3> QED BY <1>7, <3>1 DEF Finalize, QueueTypeOK
    <2> QED BY <1>2, <1>7, <2>1 DEF Finalize, Unlock, Undisturbed, QueueTypeOK
<1>8. ASSUME NEW r \in BOOLEAN, Fail(k, v, h, r) PROVE Undisturbed(j, g)
    <2>1. \E newStatus : Unlock(k, newStatus)
        BY <1>8 DEF Fail
    <2>2. ASSUME NEW s \in Sources, OwnsGate(s, j, g) PROVE gate'[s] = gate[s]
        BY <1>2, <1>8, <2>2 DEF Fail, ReleasedGates, OwnsGate
    <2> QED BY <1>2, <1>8, <2>1, <2>2 DEF Fail, Unlock, Undisturbed, QueueTypeOK
<1>9. ASSUME NEW r \in Nat, Pause(k, v, h, r) PROVE Undisturbed(j, g)
    BY <1>2, <1>9 DEF Pause, Unlock, sourceVars, Undisturbed, QueueTypeOK
<1> QED BY <1>4, <1>5, <1>6, <1>7, <1>8, <1>9

LEMMA SweepDoesNotDisturb ==
    ASSUME QueueInv, NEW j \in Jobs, NEW w, NEW g, LeaseLive(j, w, g),
           Sweep \/ UNCHANGED queueVars \/ Environment
    PROVE  Undisturbed(j, g)
<1>1. CASE Sweep
    BY <1>1 DEF LeaseLive, Sweep, SweptStatus, SweptGeneration, SweptOwner, Exhausted, Available,
                sourceVars, Undisturbed, QueueInv, QueueTypeOK
<1>2. CASE UNCHANGED queueVars
    BY <1>2 DEF queueVars, Undisturbed
<1>3. ASSUME NEW k \in Jobs, NEW d \in 0..MaxDelay, Enqueue(k, d) PROVE Undisturbed(j, g)
    BY <1>3 DEF LeaseLive, Enqueue, sourceVars, Undisturbed, QueueInv, QueueTypeOK
<1>4. ASSUME NEW k \in Jobs, Cancel(k) PROVE Undisturbed(j, g)
    BY <1>4 DEF LeaseLive, Cancel, Unlock, sourceVars, Undisturbed, QueueInv, QueueTypeOK
<1>5. ASSUME NEW s \in Sources, Disable(s) PROVE Undisturbed(j, g)
    BY <1>5 DEF Disable, jobVars, Undisturbed
<1> QED BY <1>1, <1>2, <1>3, <1>4, <1>5 DEF Environment
-------------------------------------------------------------------------------
(* The inductive step, for a process that does not move and for one that   *)
(* does.                                                                   *)

Sound(w) == ProcessInv(w) /\ Fenced(w) /\ Covered(w)

\* A process without a request and without a result to finalize only has to
\* keep a lease that was issued.
LEMMA SoundWithoutGate ==
    ASSUME WorkersInv, [QueueNext]_queueVars, NEW w \in Workers,
           Forgotten(w) \/ (AtWork(w) /\ GivingUp(w)), retry_in'[w] <= MaxDelay
    PROVE  Sound(w)'
<1> USE InvGivesTypes, ConstantsAssumption, BudgetAssumption
<1>1. Fenced(w)' /\ Covered(w)'
    BY DEF Forgotten, GivingUp, Fenced, Covered
<1>2. ~InHandler(w)'
    BY DEF Forgotten, GivingUp, InHandler
<1>3. base'[w] <= Cardinality(Jobs) /\ budget'[w] <= RequestBudget
    BY DEF WorkersInv, ProcessInv, Forgotten, GivingUp
<1>4. CASE Forgotten(w)
    <2>1. ~AtWork(w)' /\ held'[w] = NoLease
        BY <1>4 DEF Forgotten, AtWork
    <2> QED BY <1>1, <1>2, <1>3, <2>1 DEF Sound, ProcessInv
<1>5. CASE AtWork(w) /\ GivingUp(w)
    <2>1. held[w].job \in Jobs /\ held[w].gen \in 1..generation[held[w].job]
        BY <1>5 DEF WorkersInv, ProcessInv
    <2>2. generation'[held[w].job] >= generation[held[w].job]
        BY <2>1, GenerationGrows
    <2>3. generation'[held[w].job] \in Nat /\ generation[held[w].job] \in Nat
        BY <2>1, NextType DEF QueueInv, QueueTypeOK
    <2>4. AtWork(w)' /\ held'[w] = held[w]
        BY <1>5 DEF GivingUp, AtWork
    <2>5. held'[w].job \in Jobs /\ held'[w].gen \in 1..generation'[held'[w].job]
        BY <2>1, <2>2, <2>3, <2>4
    <2> QED BY <1>1, <1>2, <1>3, <2>4, <2>5 DEF Sound, ProcessInv
<1> QED BY <1>4, <1>5

\* A process that does not move keeps all it has, if its lease, while it is
\* live, is left alone.
LEMMA SoundBystander ==
    ASSUME WorkersInv, [QueueNext]_queueVars, NEW w \in Workers, SameProcess(w),
           AtWork(w) /\ Live(w) => Undisturbed(held[w].job, held[w].gen)
    PROVE  Sound(w)'
<1> USE InvGivesTypes, ConstantsAssumption
<1> DEFINE j == held[w].job
           g == held[w].gen
           s == source_of[j]
<1>1. pc'[w] = pc[w] /\ held'[w] = held[w] /\ base'[w] = base[w] /\ budget'[w] = budget[w]
    BY DEF SameProcess
<1>2. CASE ~AtWork(w)
    BY <1>1, <1>2 DEF WorkersInv, SameProcess, Sound, ProcessInv, Fenced, Covered, AtWork, InHandler
<1>3. CASE AtWork(w)
    <2>1. j \in Jobs /\ g \in 1..generation[j]
        BY <1>3 DEF WorkersInv, ProcessInv
    <2>2. generation'[j] >= generation[j] /\ generation'[j] \in Nat /\ generation[j] \in Nat
        BY <2>1, GenerationGrows, NextType DEF QueueInv, QueueTypeOK
    <2>3. g \in 1..generation'[j]
        BY <2>1, <2>2
    <2>4. ProcessInv(w)'
        BY <1>1, <1>3, <2>1, <2>3
        DEF WorkersInv, SameProcess, ProcessInv, AtWork, InHandler, SourceAt
    <2>5. Live(w)' => Live(w)
        BY <1>1, <2>1, LostStaysLost DEF Live
    <2>6. Fenced(w)'
        <3> SUFFICES ASSUME pc[w] \in {"request", "finalize"}, s \in Sources, Live(w)
                     PROVE  gate'[s] = gate[s] /\ revision'[s] = revision[s]
                            /\ OwnsGate(s, j, g) /\ base[w] = revision[s]
            BY <1>1, <2>5 DEF Fenced, SourceAt, OwnsGate
        <3>1. OwnsGate(s, j, g) /\ base[w] = revision[s]
            BY DEF WorkersInv, Fenced, SourceAt
        <3> QED BY <1>3, <3>1 DEF Undisturbed
    <2>7. Covered(w)'
        <3> SUFFICES ASSUME pc[w] = "request"
                     PROVE  Live(w)' /\ gate'[s].left > budget[w]
            BY <1>1 DEF Covered, SourceAt
        <3>1. s \in Sources /\ Live(w) /\ gate[s].left > budget[w]
            BY DEF WorkersInv, ProcessInv, InHandler, Covered, SourceAt
        <3>2. OwnsGate(s, j, g)
            BY <3>1 DEF WorkersInv, Fenced, SourceAt
        <3>3. Undisturbed(j, g)
            BY <1>3, <3>1
        <3> QED BY <1>1, <3>1, <3>2, <3>3 DEF Undisturbed, Live, LeaseLive
    <2> QED BY <2>4, <2>6, <2>7 DEF Sound
<1> QED BY <1>2, <1>3

\* A lease that somebody already had is the only thing a process can be left
\* with, unless it was issued in this very step.
HeldAgainOrFresh(v) ==
    \/ held'[v] \in {held[v], NoLease}
    \/ held'[v].job \in Jobs /\ held'[v].gen > generation[held'[v].job]

LEMMA BystandersSound ==
    ASSUME WorkersInv, NEW v \in Workers, QueueStepOf(v),
           NEW w \in Workers \ {v}, SameProcess(w)
    PROVE  Sound(w)'
<1>1. [QueueNext]_queueVars
    BY StepOfIsQueueStep
<1>2. ASSUME AtWork(w), Live(w) PROVE Undisturbed(held[w].job, held[w].gen)
    <2>1. held[w].job \in Jobs /\ LeaseLive(held[w].job, w, held[w].gen) /\ QueueInv
        BY <1>2 DEF WorkersInv, ProcessInv, Live
    <2>2. CASE Sweep \/ UNCHANGED queueVars
        BY <2>1, <2>2, SweepDoesNotDisturb
    <2>3. CASE \E j \in Jobs : Claim(v, j)
        BY <2>1, <2>3, OthersCannotDisturb
    <2>4. ASSUME AtWork(v), NEW op, TakesEffect(v, op)
          PROVE  Undisturbed(held[w].job, held[w].gen)
        <3>1. held[v].job \in Jobs /\ base[v] \in Nat /\ retry_in[v] \in Nat
              /\ retryable[v] \in BOOLEAN
            BY <2>4, InvGivesTypes DEF WorkersInv, ProcessInv, ProcessTypeOK
        <3> QED BY <2>1, <2>4, <3>1, OthersCannotDisturb DEF TakesEffect
    <2> QED BY <2>2, <2>3, <2>4 DEF QueueStepOf
<1> QED BY <1>1, <1>2, SoundBystander
-------------------------------------------------------------------------------
(* The inductive step, for the process that moves: one lemma per action.   *)

\* Process v moves into a sound state, and no other process does.
MovesSoundly(v) ==
    /\ ProcessTypeOK' /\ faults' \in Nat
    /\ Sound(v)' /\ HeldAgainOrFresh(v)
    /\ \A w \in Workers \ {v} : SameProcess(w)

LEMMA GivesUpSoundly ==
    ASSUME WorkersInv, [QueueNext]_queueVars, NEW v \in Workers,
           Forgotten(v) \/ (AtWork(v) /\ GivingUp(v)), retry_in'[v] <= MaxDelay,
           ProcessTypeOK', faults' \in Nat,
           \A w \in Workers \ {v} : SameProcess(w)
    PROVE  MovesSoundly(v)
BY SoundWithoutGate DEF MovesSoundly, HeldAgainOrFresh, Forgotten, GivingUp

LEMMA LeavesSoundly ==
    ASSUME WorkersInv, [QueueNext]_queueVars, NEW v \in Workers,
           NEW phase \in {"down", "idle"}, Leave(v, phase), faults' \in Nat
    PROVE  MovesSoundly(v)
<1>1. ProcessTypeOK' /\ Forgotten(v) /\ \A w \in Workers \ {v} : SameProcess(w)
    BY InvGivesTypes, LeaveForgets
<1>2. retry_in'[v] <= MaxDelay
    BY <1>1, ConstantsAssumption DEF Forgotten
<1> QED BY <1>1, <1>2, GivesUpSoundly

LEMMA RaisesSoundly ==
    ASSUME WorkersInv, [QueueNext]_queueVars, NEW v \in Workers, AtWork(v),
           NEW again \in BOOLEAN, HandlerRaised(v, again) \/ ReportFailure(v, again),
           faults' \in Nat
    PROVE  MovesSoundly(v)
<1>1. /\ ProcessTypeOK' /\ (Forgotten(v) \/ GivingUp(v)) /\ retry_in'[v] = 0
      /\ \A w \in Workers \ {v} : SameProcess(w)
    BY InvGivesTypes, RaisedGivesUp, ReportKeepsLease
<1>2. retry_in'[v] <= MaxDelay
    BY <1>1, ConstantsAssumption
<1> QED BY <1>1, <1>2, GivesUpSoundly

\* The lease is fresh, and what needs a gate has none yet.
LEMMA LeaseSound ==
    ASSUME WorkersInv, NEW v \in Workers, NEW j \in Jobs, Lease1(v, j)
    PROVE  MovesSoundly(v)
<1> USE InvGivesTypes, ConstantsAssumption, BudgetAssumption
<1>1. generation'[j] = generation[j] + 1 /\ generation[j] \in Nat
    BY SweptType DEF Lease1, Claim, IssuedGeneration, QueueTypeOK
<1>2. held'[v] = [job |-> j, gen |-> generation'[j]]
    BY DEF Lease1, ProcessTypeOK
<1>3. pc'[v] = IF source_of[j] \in Sources THEN "begin" ELSE "finalize"
    BY DEF Lease1, ProcessTypeOK
<1>4. ProcessTypeOK'
    BY <1>1 DEF Lease1, ProcessTypeOK, Lease, Phases
<1>5. Sound(v)'
    <2>1. Fenced(v)' /\ Covered(v)'
        BY <1>2, <1>3 DEF Fenced, Covered, SourceAt
    <2>2. held'[v].job \in Jobs /\ held'[v].gen \in 1..generation'[held'[v].job]
        BY <1>1, <1>2
    <2>3. AtWork(v)' /\ (InHandler(v)' => SourceAt(v)' \in Sources)
        BY <1>2, <1>3 DEF AtWork, InHandler, SourceAt
    <2>4. base'[v] <= Cardinality(Jobs) /\ retry_in'[v] <= MaxDelay /\ budget'[v] <= RequestBudget
        BY DEF WorkersInv, ProcessInv, Lease1
    <2> QED BY <2>1, <2>2, <2>3, <2>4 DEF Sound, ProcessInv
<1>6. \A w \in Workers \ {v} : SameProcess(w)
    BY DEF Lease1, SameProcess, ProcessTypeOK
<1>7. HeldAgainOrFresh(v)
    BY <1>1, <1>2 DEF HeldAgainOrFresh
<1>8. faults' \in Nat
    BY DEF Lease1, WorkersInv, TypeOK
<1> QED BY <1>4, <1>5, <1>6, <1>7, <1>8 DEF MovesSoundly

\* A heartbeat that takes effect extends what the process has, and the gate of
\* an open request again outlives it.
LEMMA RenewalSound ==
    ASSUME WorkersInv, NEW v \in Workers, InHandler(v),
           Heartbeat(held[v].job, v, held[v].gen), SameProcess(v)
    PROVE  Sound(v)'
<1> USE InvGivesTypes, ConstantsAssumption, BudgetAssumption
<1> DEFINE j == held[v].job
           g == held[v].gen
           s == source_of[j]
<1>1. AtWork(v) /\ j \in Jobs /\ g \in 1..generation[j] /\ s \in Sources
    BY DEF InHandler, AtWork, WorkersInv, ProcessInv, SourceAt
<1>2. pc'[v] = pc[v] /\ held'[v] = held[v] /\ base'[v] = base[v] /\ budget'[v] = budget[v]
    BY DEF SameProcess
<1>3. /\ generation' = generation /\ revision' = revision
      /\ lease_left'[j] = LeaseFor /\ gate' = RenewedGates(j, g, LeaseFor)
    BY <1>1 DEF Heartbeat, QueueTypeOK
<1>4. ProcessInv(v)'
    BY <1>1, <1>2, <1>3 DEF WorkersInv, SameProcess, ProcessInv, AtWork, InHandler, SourceAt
<1>5. Live(v) /\ Live(v)'
    BY <1>1, <1>2, <1>3 DEF Heartbeat, Live, LeaseLive
<1>6. ASSUME OwnsGate(s, j, g)
      PROVE  gate'[s].job = j /\ gate'[s].gen = g /\ gate'[s].left = LeaseFor
    <2>1. gate[s] \in Gate
        BY <1>1 DEF QueueTypeOK
    <2>2. gate'[s] = [gate[s] EXCEPT !.left = LeaseFor]
        BY <1>1, <1>3, <1>6 DEF RenewedGates
    <2> QED BY <1>6, <2>1, <2>2 DEF Gate, OwnsGate
<1>7. pc[v] = "request" => OwnsGate(s, j, g) /\ base[v] = revision[s]
    BY <1>1, <1>5 DEF WorkersInv, Fenced, SourceAt
<1>8. pc[v] # "finalize"
    BY DEF InHandler
<1>9. Fenced(v)'
    BY <1>2, <1>3, <1>6, <1>7, <1>8 DEF Fenced, SourceAt, OwnsGate
<1>10. Covered(v)'
    <2>1. budget[v] \in Nat /\ budget[v] <= RequestBudget
        BY DEF WorkersInv, ProcessInv, ProcessTypeOK
    <2> QED BY <1>2, <1>5, <1>6, <1>7, <2>1 DEF Covered, SourceAt
<1> QED BY <1>4, <1>9, <1>10 DEF Sound

LEMMA HeartbeatSound ==
    ASSUME WorkersInv, NEW v \in Workers, SendHeartbeat(v), [QueueNext]_queueVars
    PROVE  MovesSoundly(v)
<1>1. ProcessTypeOK' /\ faults' \in Nat
    BY DEF SendHeartbeat, WorkersInv, TypeOK, ProcessTypeOK
<1>2. \A w \in Workers : SameProcess(w)
    BY DEF SendHeartbeat, SameProcess
<1>3. HeldAgainOrFresh(v)
    BY DEF SendHeartbeat, HeldAgainOrFresh
<1>4. CASE Heartbeat(held[v].job, v, held[v].gen)
    BY <1>1, <1>2, <1>3, <1>4, RenewalSound DEF SendHeartbeat, MovesSoundly
<1>5. CASE ~Live(v)
    BY <1>1, <1>2, <1>3, <1>5, SoundBystander DEF MovesSoundly
<1> QED BY <1>4, <1>5 DEF SendHeartbeat

\* The gate that begin grants outlives the transport's deadline, and the
\* checkpoint is the one it read.
LEMMA BegunSound ==
    ASSUME WorkersInv, NEW v \in Workers, pc[v] = "begin",
           Begin(held[v].job, v, held[v].gen),
           pc' = [pc EXCEPT ![v] = "request"],
           base' = [base EXCEPT ![v] = revision[SourceAt(v)]],
           budget' = [budget EXCEPT ![v] = RequestBudget],
           UNCHANGED <<held, beat, retry_in, retryable, faults>>
    PROVE  MovesSoundly(v)
<1> USE InvGivesTypes, ConstantsAssumption, BudgetAssumption
<1> DEFINE j == held[v].job
           g == held[v].gen
           s == source_of[j]
<1>1. j \in Jobs /\ g \in 1..generation[j] /\ s \in Sources
    BY DEF InHandler, AtWork, WorkersInv, ProcessInv, SourceAt
<1>2. revision[s] \in 0..Cardinality(Jobs)
    BY <1>1, RevisionBounded
<1>3. /\ pc'[v] = "request" /\ held'[v] = held[v] /\ base'[v] = revision[s]
      /\ budget'[v] = RequestBudget /\ retry_in'[v] = retry_in[v]
    BY DEF ProcessTypeOK, SourceAt
<1>4. ProcessTypeOK'
    BY <1>1, <1>2 DEF ProcessTypeOK, SourceAt, Phases
<1>5. ProcessInv(v)'
    <2>1. generation' = generation
        BY DEF Begin
    <2> QED BY <1>1, <1>2, <1>3, <2>1 DEF WorkersInv, ProcessInv, AtWork, InHandler, SourceAt
<1>6. /\ gate'[s].job = j /\ gate'[s].gen = g /\ gate'[s].left >= BeginLease
      /\ lease_left'[j] > 0 /\ revision' = revision
    BY <1>1 DEF Begin, QueueTypeOK, Max2
<1>7. Live(v)'
    BY <1>3, <1>6 DEF Begin, Live, LeaseLive
<1>8. Fenced(v)'
    BY <1>3, <1>6 DEF Fenced, SourceAt, OwnsGate
<1>9. Covered(v)'
    <2>1. gate'[s].left \in Nat
        BY <1>1 DEF Begin, QueueTypeOK, Max2
    <2> QED BY <1>3, <1>6, <1>7, <2>1 DEF Covered, SourceAt
<1>10. \A w \in Workers \ {v} : SameProcess(w)
    BY DEF SameProcess, ProcessTypeOK
<1> QED BY <1>3, <1>4, <1>5, <1>8, <1>9, <1>10
        DEF MovesSoundly, Sound, HeldAgainOrFresh, WorkersInv, TypeOK

LEMMA BeginSound ==
    ASSUME WorkersInv, [QueueNext]_queueVars, NEW v \in Workers, CallBegin(v)
    PROVE  MovesSoundly(v)
<1>1. faults' \in Nat /\ AtWork(v) /\ pc[v] = "begin"
    BY DEF CallBegin, WorkersInv, TypeOK, AtWork
<1>2. SourceAt(v) \in Sources
    BY <1>1 DEF WorkersInv, ProcessInv, InHandler
<1>3. CASE /\ Begin(held[v].job, v, held[v].gen)
           /\ pc' = [pc EXCEPT ![v] = "request"]
           /\ base' = [base EXCEPT ![v] = revision[SourceAt(v)]]
           /\ budget' = [budget EXCEPT ![v] = RequestBudget]
           /\ UNCHANGED <<held, beat, retry_in, retryable, faults>>
    BY <1>1, <1>3, BegunSound
<1>4. CASE HandlerDeferred(v, DeferFor(SourceAt(v)))
    <2>1. DeferFor(SourceAt(v)) \in 0..MaxDelay
        BY <1>2, DeferralBounded
    <2>2. /\ ProcessTypeOK' /\ (Forgotten(v) \/ GivingUp(v)) /\ retry_in'[v] <= MaxDelay
          /\ \A w \in Workers \ {v} : SameProcess(w)
        BY <1>4, <2>1, InvGivesTypes, DeferredGivesUp, ConstantsAssumption
    <2> QED BY <1>1, <2>2, GivesUpSoundly
<1>5. CASE HandlerRaised(v, TRUE)
    BY <1>1, <1>5, RaisesSoundly
<1>6. CASE Leave(v, "idle")
    BY <1>1, <1>6, LeavesSoundly
<1> QED BY <1>3, <1>4, <1>5, <1>6 DEF CallBegin, SourceAt

\* The result that the request returned is finalized with what begin read.
LEMMA RequestEndSound ==
    ASSUME WorkersInv, [QueueNext]_queueVars, NEW v \in Workers, EndRequest(v)
    PROVE  MovesSoundly(v)
<1>a. ProcessTypeOK
    BY InvGivesTypes
<1>1. faults' \in Nat /\ AtWork(v) /\ pc[v] = "request" /\ UNCHANGED queueVars
    BY DEF EndRequest, WorkersInv, TypeOK, AtWork
<1>2. ASSUME NEW again \in BOOLEAN, HandlerRaised(v, again) PROVE MovesSoundly(v)
    BY <1>1, <1>2, RaisesSoundly
<1>3. CASE beat[v] = "ok" /\ HandlerReturned(v)
    <2>1. /\ pc'[v] = "finalize" /\ held'[v] = held[v] /\ base'[v] = base[v]
          /\ retry_in'[v] = retry_in[v] /\ budget'[v] = 0
        BY <1>a, <1>3 DEF HandlerReturned, ProcessTypeOK
    <2>2. ProcessTypeOK'
        BY <1>a, <1>3 DEF HandlerReturned, ProcessTypeOK, Phases
    <2>a. /\ generation' = generation /\ gate' = gate /\ revision' = revision
          /\ status' = status /\ locked_by' = locked_by /\ lease_left' = lease_left
        BY <1>1 DEF queueVars
    <2>b. AtWork(v)' /\ ~InHandler(v)' /\ SourceAt(v)' = SourceAt(v)
        BY <2>1 DEF AtWork, InHandler, SourceAt
    <2>3. ProcessInv(v)'
        <3>1. /\ held[v].job \in Jobs /\ held[v].gen \in 1..generation[held[v].job]
              /\ base[v] <= Cardinality(Jobs) /\ retry_in[v] <= MaxDelay
            BY <1>1 DEF WorkersInv, ProcessInv
        <3>2. budget'[v] <= RequestBudget
            BY <2>1, BudgetAssumption
        <3> QED BY <2>1, <2>a, <2>b, <3>1, <3>2 DEF ProcessInv
    <2>4. Fenced(v)'
        BY <1>1, <2>1, <2>a, <2>b DEF WorkersInv, Fenced, Live, LeaseLive, OwnsGate
    <2>5. Covered(v)'
        BY <2>1 DEF Covered
    <2>6. \A w \in Workers \ {v} : SameProcess(w)
        BY <1>a, <1>3 DEF HandlerReturned, SameProcess, ProcessTypeOK
    <2> QED BY <1>1, <2>1, <2>2, <2>3, <2>4, <2>5, <2>6
            DEF MovesSoundly, Sound, HeldAgainOrFresh
<1>4. CASE beat[v] # "ok" /\ HandlerReturned(v)
    BY <1>2, <1>4 DEF HandlerReturned
<1> QED BY <1>2, <1>3, <1>4 DEF EndRequest

\* An answer that never comes, to a call of the handler thread, of the main
\* thread, or to a heartbeat.
LEMMA RaiseSound ==
    ASSUME WorkersInv, [QueueNext]_queueVars, NEW v \in Workers, CallRaises(v)
    PROVE  MovesSoundly(v)
<1>1. faults' \in Nat /\ AtWork(v)
    <2>1. faults \in Nat
        BY DEF WorkersInv, TypeOK
    <2>2. \E op : LoseAnswer(v, op)
        BY DEF CallRaises
    <2>3. faults' \in Nat
        BY <2>1, <2>2 DEF LoseAnswer
    <2>4. AtWork(v)
        BY DEF CallRaises, InHandler, AtWork
    <2> QED BY <2>3, <2>4
<1>2. CASE HandlerRaised(v, TRUE) \/ ReportFailure(v, TRUE)
    BY <1>1, <1>2, RaisesSoundly
<1>3. CASE Leave(v, "down")
    BY <1>1, <1>3, LeavesSoundly
<1>4. CASE /\ InHandler(v) /\ LoseAnswer(v, "heartbeat")
           /\ beat' = [beat EXCEPT ![v] = "error"]
           /\ UNCHANGED <<pc, held, base, budget, retry_in, retryable>>
    <2>1. ProcessTypeOK' /\ HeldAgainOrFresh(v)
        BY <1>4, InvGivesTypes DEF ProcessTypeOK, HeldAgainOrFresh
    <2>2. \A w \in Workers : SameProcess(w)
        BY <1>4 DEF SameProcess
    <2>3. CASE Heartbeat(held[v].job, v, held[v].gen)
        BY <1>1, <1>4, <2>1, <2>2, <2>3, RenewalSound DEF MovesSoundly
    <2>4. CASE UNCHANGED queueVars
        <3>1. AtWork(v) => Undisturbed(held[v].job, held[v].gen)
            BY <2>4 DEF queueVars, Undisturbed
        <3> QED BY <1>1, <2>1, <2>2, <3>1, SoundBystander DEF MovesSoundly
    <2> QED BY <1>4, <2>3, <2>4 DEF LoseAnswer, TakesEffect
<1> QED BY <1>2, <1>3, <1>4 DEF CallRaises

LEMMA WorkerSound ==
    ASSUME WorkersInv, [QueueNext]_queueVars, NEW v \in Workers,
           Work(v) \/ SendHeartbeat(v) \/ CallRaises(v) \/ Crash(v)
    PROVE  MovesSoundly(v)
<1>1. faults \in Nat
    BY DEF WorkersInv, TypeOK
<1>2. CASE Restart(v)
    BY <1>1, <1>2, LeavesSoundly DEF Restart
<1>3. CASE \E j \in Jobs : Lease1(v, j)
    BY <1>3, LeaseSound
<1>4. CASE Poll(v)
    <2>1. ProcessTypeOK' /\ HeldAgainOrFresh(v) /\ faults' \in Nat
        BY <1>1, <1>4, InvGivesTypes DEF Poll, workerVars, ProcessTypeOK, HeldAgainOrFresh
    <2>2. \A w \in Workers : SameProcess(w)
        BY <1>4 DEF Poll, workerVars, SameProcess
    <2>3. ~AtWork(v)
        BY <1>4 DEF Poll, AtWork
    <2> QED BY <2>1, <2>2, <2>3, SoundBystander DEF MovesSoundly
<1>5. CASE CallBegin(v) \/ EndRequest(v) \/ CallRaises(v) \/ SendHeartbeat(v)
    BY <1>5, BeginSound, RequestEndSound, RaiseSound, HeartbeatSound
<1>6. CASE CallFinalize(v)
    <2>1. AtWork(v) /\ faults' \in Nat /\ (Leave(v, "idle") \/ ReportFailure(v, TRUE))
        BY <1>1, <1>6 DEF CallFinalize, AtWork
    <2> QED BY <2>1, LeavesSoundly, RaisesSoundly
<1>7. CASE CallFail(v) \/ CallPause(v) \/ Crash(v)
    <2>1. faults' \in Nat /\ (Leave(v, "idle") \/ Leave(v, "down"))
        BY <1>1, <1>7 DEF CallFail, CallPause, Crash, LoseAnswer
    <2> QED BY <2>1, LeavesSoundly
<1> QED BY <1>2, <1>3, <1>4, <1>5, <1>6, <1>7 DEF Work

\* Time takes as much from the lease as from its gate, and from a gate as much
\* as from the deadline of the request it protects.
LEMMA AdvanceSound ==
    ASSUME WorkersInv, [QueueNext]_queueVars, NEW w \in Workers, Advance
    PROVE  Sound(w)'
<1> DEFINE j == held[w].job
           g == held[w].gen
           s == source_of[j]
<1>a. QueueTypeOK /\ ProcessTypeOK /\ GatesFollowLeases /\ QueueInv
    BY InvGivesTypes DEF QueueInv
<1>1. /\ pc' = pc /\ held' = held /\ base' = base
      /\ budget'[w] = Elapse(budget[w]) /\ retry_in'[w] = Elapse(retry_in[w])
      /\ generation' = generation /\ revision' = revision
      /\ status' = status /\ locked_by' = locked_by
    BY DEF Advance, Tick
<1>2. ProcessInv(w)'
    <2>1. retry_in'[w] <= retry_in[w] /\ budget'[w] <= budget[w]
        BY <1>a, <1>1 DEF Elapse, ProcessTypeOK
    <2>2. retry_in'[w] <= MaxDelay /\ budget'[w] <= RequestBudget
        BY <1>a, <1>1, <2>1, ConstantsAssumption, BudgetAssumption
        DEF WorkersInv, ProcessInv, ProcessTypeOK, Elapse
    <2> QED BY <1>1, <2>2 DEF WorkersInv, ProcessInv, AtWork, InHandler, SourceAt
<1>3. CASE s \notin Sources
    <2>1. pc[w] # "request"
        BY <1>3 DEF WorkersInv, ProcessInv, InHandler, SourceAt
    <2> QED BY <1>1, <1>2, <1>3, <2>1 DEF Sound, Fenced, Covered, SourceAt
<1>4. CASE pc[w] \in {"request", "finalize"} /\ s \in Sources
    <2>1. j \in Jobs
        BY <1>4 DEF WorkersInv, ProcessInv, AtWork
    <2>2. /\ lease_left[j] \in Nat /\ lease_left'[j] = Elapse(lease_left[j])
          /\ gate[s] \in Gate /\ gate'[s] = [gate[s] EXCEPT !.left = Elapse(@)]
        BY <1>a, <1>4, <2>1 DEF Advance, Tick, QueueTypeOK
    <2>3. /\ gate[s].left \in Nat /\ gate'[s].left = Elapse(gate[s].left)
          /\ gate'[s].job = gate[s].job /\ gate'[s].gen = gate[s].gen
        BY <2>2 DEF Gate
    <2>4. Live(w)' => Live(w)
        BY <1>1, <2>2 DEF Live, LeaseLive, Elapse
    <2>5. Fenced(w)'
        BY <1>1, <1>4, <2>3, <2>4 DEF WorkersInv, Fenced, SourceAt, OwnsGate
    <2>6. ASSUME pc[w] = "request" PROVE Live(w)' /\ gate'[s].left > budget'[w]
        <3>1. Live(w) /\ gate[s].left > budget[w] /\ budget[w] > 0 /\ budget[w] \in Nat
            BY <1>a, <2>6 DEF WorkersInv, Covered, SourceAt, Advance, ProcessTypeOK
        <3>2. gate[s].left = lease_left[j]
            <4>1. gate[s].job = j /\ gate[s].gen = g
                BY <1>4, <3>1 DEF WorkersInv, Fenced, SourceAt, OwnsGate
            <4> QED BY <1>a, <1>4, <2>1, <3>1, <4>1, ConstantsAssumption
                    DEF GatesFollowLeases, Live, LeaseLive
        <3>3. gate'[s].left > budget'[w] /\ lease_left'[j] > 0
            BY <1>1, <2>2, <2>3, <3>1, <3>2 DEF Elapse
        <3> QED BY <1>1, <3>1, <3>3 DEF Live, LeaseLive
    <2>7. Covered(w)'
        BY <1>1, <2>6 DEF Covered, SourceAt
    <2> QED BY <1>2, <2>5, <2>7 DEF Sound
<1>5. CASE pc[w] \notin {"request", "finalize"}
    BY <1>1, <1>2, <1>5 DEF Sound, Fenced, Covered
<1> QED BY <1>3, <1>4, <1>5
-------------------------------------------------------------------------------
(* The inductive invariant holds of every reachable state.                 *)

LEMMA ProcessesKept ==
    ASSUME WorkersInv, [Next]_vars
    PROVE  /\ ProcessTypeOK' /\ faults' \in Nat /\ LeaseHeldOnce'
           /\ \A w \in Workers : Sound(w)'
<1>a. [QueueNext]_queueVars
    BY NextIsQueueStep
<1>b. ProcessTypeOK /\ faults \in Nat /\ LeaseHeldOnce
    BY InvGivesTypes DEF WorkersInv, TypeOK
<1>1. ASSUME held' = held PROVE LeaseHeldOnce'
    BY <1>b, <1>1 DEF LeaseHeldOnce
<1>2. ASSUME NEW v \in Workers,
             Work(v) \/ SendHeartbeat(v) \/ CallRaises(v) \/ Crash(v)
      PROVE  /\ ProcessTypeOK' /\ faults' \in Nat /\ LeaseHeldOnce'
             /\ \A w \in Workers : Sound(w)'
    <2>1. MovesSoundly(v)
        BY <1>a, <1>2, WorkerSound
    <2>2. QueueStepOf(v)
        BY <1>b, <1>2, WorkerMovesQueue
    <2>3. \A w \in Workers : Sound(w)'
        BY <2>1, <2>2, BystandersSound DEF MovesSoundly
    <2>4. ASSUME NEW w \in Workers \ {v}, held'[w] = held'[v] PROVE held'[v] = NoLease
        <3>1. held'[w] = held[w]
            BY <2>1 DEF MovesSoundly, SameProcess
        <3>2. CASE held'[v] \in {held[v], NoLease}
            BY <1>b, <2>4, <3>1, <3>2 DEF LeaseHeldOnce
        <3>3. CASE held'[v].job \in Jobs /\ held'[v].gen > generation[held'[v].job]
            <4>1. held[w] # NoLease => held[w].gen \in 1..generation[held[w].job]
                BY DEF WorkersInv, ProcessInv
            <4>2. generation[held[w].job] \in Nat
                BY <2>4, <3>1, <3>3, InvGivesTypes DEF QueueTypeOK
            <4> QED BY <2>4, <3>1, <3>3, <4>1, <4>2
        <3> QED BY <2>1, <3>2, <3>3 DEF MovesSoundly, HeldAgainOrFresh
    <2>5. ASSUME NEW w \in Workers \ {v}, NEW u \in Workers \ {v},
                 held'[w] # NoLease, held'[w] = held'[u]
          PROVE  w = u
        BY <1>b, <2>1, <2>5 DEF MovesSoundly, SameProcess, LeaseHeldOnce
    <2>6. LeaseHeldOnce'
        BY <2>4, <2>5 DEF LeaseHeldOnce
    <2> QED BY <2>1, <2>3, <2>6 DEF MovesSoundly
<1>3. CASE Environment \/ UNCHANGED vars
    <2>1. UNCHANGED workerVars
        BY <1>3 DEF Environment, vars, workerVars
    <2>2. ProcessTypeOK' /\ faults' \in Nat
        BY <1>b, <2>1 DEF workerVars, ProcessTypeOK
    <2>3. \A w \in Workers : SameProcess(w)
        BY <2>1 DEF workerVars, SameProcess
    <2>4. ASSUME NEW w \in Workers, AtWork(w), Live(w)
          PROVE  Undisturbed(held[w].job, held[w].gen)
        <3>1. held[w].job \in Jobs /\ LeaseLive(held[w].job, w, held[w].gen) /\ QueueInv
            BY <2>4 DEF WorkersInv, ProcessInv, Live
        <3>2. Environment \/ UNCHANGED queueVars
            BY <1>3 DEF vars, queueVars
        <3> QED BY <3>1, <3>2, SweepDoesNotDisturb
    <2>5. \A w \in Workers : Sound(w)'
        BY <1>a, <2>3, <2>4, SoundBystander
    <2> QED BY <1>1, <2>1, <2>2, <2>5 DEF workerVars
<1>4. CASE Advance
    <2>1. \A w \in Workers : Sound(w)'
        BY <1>a, <1>4, AdvanceSound
    <2>2. ProcessTypeOK' /\ faults' \in Nat /\ held' = held
        BY <1>b, <1>4 DEF Advance, Elapse, ProcessTypeOK
    <2> QED BY <1>1, <2>1, <2>2
<1> QED BY <1>2, <1>3, <1>4 DEF Next

LEMMA WorkersInvariant == Spec => []WorkersInv
<1>1. Init => WorkersInv
    <2> SUFFICES ASSUME Init PROVE WorkersInv
        OBVIOUS
    <2> USE ConstantsAssumption, BudgetAssumption
    <2>1. QueueInv /\ QueueTypeOK
        BY InitInv DEF Init, QueueInv
    <2>2. TypeOK
        <3>1. NoLease \in Lease
            BY DEF NoLease, Lease
        <3> QED BY <2>1, <3>1 DEF Init, TypeOK, Phases
    <2>3. ResultsPersistedOnce
        BY InitResults DEF Init
    <2>4. QueueBounds
        BY DEF Init, QueueInit, QueueBounds
    <2>5. LeaseHeldOnce
        BY DEF Init, LeaseHeldOnce
    <2>6. Cardinality(Jobs) \in Nat
        BY FS_CardinalityType
    <2>7. \A w \in Workers : ProcessInv(w) /\ Fenced(w) /\ Covered(w)
        BY <2>6 DEF Init, ProcessInv, Fenced, Covered, AtWork, InHandler
    <2> QED BY <2>1, <2>2, <2>3, <2>4, <2>5, <2>7 DEF WorkersInv
<1>2. WorkersInv /\ [Next]_vars => WorkersInv'
    <2> SUFFICES ASSUME WorkersInv, [Next]_vars PROVE WorkersInv'
        OBVIOUS
    <2>1. [QueueNext]_queueVars
        BY NextIsQueueStep
    <2>2. QueueInv' /\ ResultsPersistedOnce'
        BY <2>1, InvGivesTypes, NextInv, NextResults
    <2>3. QueueBounds'
        BY <2>1, InvGivesTypes, BoundsKept DEF WorkersInv, QueueInv
    <2>4. /\ ProcessTypeOK' /\ faults' \in Nat /\ LeaseHeldOnce'
          /\ \A w \in Workers : Sound(w)'
        BY ProcessesKept
    <2>5. TypeOK'
        BY <2>2, <2>4 DEF TypeOK, QueueInv, ProcessTypeOK
    <2> QED BY <2>2, <2>3, <2>4, <2>5 DEF WorkersInv, Sound
<1> QED BY <1>1, <1>2, PTL DEF Spec

(* Whatever workers, schedulers, administrators, crashes and unanswered    *)
(* calls do, the queue only ever sees calls that its own model admits: all *)
(* that is proved of the queue for any clients holds of the whole system.  *)
THEOREM RuntimeUsesQueue == Spec => QueueSpec
<1>1. Init => QueueInit
    BY DEF Init
<1> QED BY <1>1, NextIsQueueStep, WorkersInvariant, PTL DEF Spec, QueueSpec

(* So the whole system keeps the promises of the ledger of jobs.           *)
THEOREM RuntimeKeepsLedger == Spec => KeepsLedger
BY RuntimeUsesQueue, QueueImplementsLedger, PTL

(* Processes are in the states that run_once and the handlers can be in,   *)
(* and one lease is never in two processes, also after a restart under the *)
(* same worker name.                                                       *)
THEOREM LeasesAreHeldOnce == Spec => []RuntimeInv
<1>1. WorkersInv => RuntimeInv
    BY DEF WorkersInv, RuntimeInv
<1> QED BY <1>1, WorkersInvariant, PTL

(* At most one request to a source is open at any instant: two holders of  *)
(* an open request would both own the gate of the source, which names one  *)
(* job and one generation, and a live lease has one owner.                 *)
THEOREM RequestsNeverOverlap == Spec => []NoOverlap
<1>1. WorkersInv => NoOverlap
    <2> SUFFICES ASSUME WorkersInv, NEW s \in Sources,
                        NEW v \in Requesting(s), NEW w \in Requesting(s)
                 PROVE  v = w
        BY DEF NoOverlap
    <2>1. /\ v \in Workers /\ pc[v] = "request" /\ SourceAt(v) = s
          /\ w \in Workers /\ pc[w] = "request" /\ SourceAt(w) = s
        BY DEF Requesting, SourceAt
    <2>2. Live(v) /\ Live(w)
        BY <2>1 DEF WorkersInv, Covered
    <2>3. OwnsGate(s, held[v].job, held[v].gen) /\ OwnsGate(s, held[w].job, held[w].gen)
        BY <2>1, <2>2 DEF WorkersInv, Fenced
    <2> QED BY <2>2, <2>3 DEF Live, LeaseLive, OwnsGate
<1> QED BY <1>1, WorkersInvariant, PTL

(* A finalizer under a live lease is refused by nothing but the kill       *)
(* switch: since begin its gate was renewed with its lease and nobody else *)
(* could persist a result of the source.                                   *)
THEOREM ResultsAreNotStale == Spec => []OnlyKillSwitchRefuses
<1>1. WorkersInv => OnlyKillSwitchRefuses
    <2> SUFFICES ASSUME WorkersInv, NEW w \in Workers, pc[w] = "finalize", Live(w),
                        SourceAt(w) \in Sources, enabled[SourceAt(w)]
                 PROVE  MayPersist(held[w].job, held[w].gen, base[w])
        BY DEF OnlyKillSwitchRefuses, MayPersist, SourceAt
    <2> DEFINE s == SourceAt(w)
    <2>1. OwnsGate(s, held[w].job, held[w].gen) /\ base[w] = revision[s]
        BY DEF WorkersInv, Fenced
    <2>2. held[w].job \in Jobs
        BY DEF WorkersInv, ProcessInv, AtWork
    <2>3. gate[s].left = lease_left[held[w].job] /\ lease_left[held[w].job] > 0
        BY <2>1, <2>2, ConstantsAssumption, InvGivesTypes
        DEF QueueInv, GatesFollowLeases, OwnsGate, Live, LeaseLive
    <2> QED BY <2>1, <2>3 DEF MayPersist, SourceAt
<1> QED BY <1>1, WorkersInvariant, PTL
===============================================================================
