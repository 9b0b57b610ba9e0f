--------------------------- MODULE MemoryRepository ---------------------------
(***************************************************************************)
(* InMemoryJobRepository: the queue of the worker's tests and of the       *)
(* scheduler's dry run, "with production-equivalent leasing semantics".    *)
(* Every method holds one lock from its first line to its return, so each  *)
(* is one action.  Callers pass the instant they read from the clock of    *)
(* the process; instants are absolute here, as they are in the records.    *)
(*                                                                         *)
(* The arguments of enqueue that a job keeps for good (kind, priority,     *)
(* dedupe key) are constants of its identity.  retry_failed has no action: *)
(* it rewrites failed jobs, and no method leaves a job failed.             *)
(***************************************************************************)
EXTENDS Integers, FiniteSets

CONSTANTS
    Jobs,           \* identities of records
    Kinds,          \* job kinds
    Keys,           \* dedupe keys
    Slots,          \* the keys that name a schedule and one of its slots
    Workers,        \* worker_id values
    NoJob, NoKey, NoWorker, NoSource,
    kind_of, key_of, priority_of,
    MaxAttempts,    \* Job.max_attempts
    LeaseFor,       \* lease_for of a lease or a heartbeat
    Backoff,        \* ticks before the retry that follows attempt n
    MaxDelay,       \* bound: largest delay a caller asks for
    MaxGeneration,  \* bound: leases issued per job
    MaxTime         \* bound: last instant

ASSUME MemoryAssumption ==
    /\ IsFiniteSet(Jobs) /\ NoJob \notin Jobs
    /\ NoWorker \notin Workers
    /\ Slots \subseteq Keys /\ NoKey \notin Keys
    /\ kind_of \in [Jobs -> Kinds]
    /\ key_of \in [Jobs -> Keys \cup {NoKey}]
    /\ priority_of \in [Jobs -> Int]
    /\ MaxAttempts \in Nat \ {0} /\ LeaseFor \in Nat \ {0}
    /\ Backoff \in [1..MaxAttempts -> Nat \ {0}]
    /\ MaxDelay \in Nat \ {0} /\ MaxGeneration \in Nat \ {0} /\ MaxTime \in Nat

VARIABLES
    job,    \* _jobs: the record of every identity, "absent" before it exists
    slots,  \* _scheduled_slots: the job each slot was reserved for
    now     \* the clock of the process

memoryVars == <<job, slots, now>>

Existing == {"pending", "running", "completed", "dead", "cancelled"}

Record ==
    [status : {"absent"} \cup Existing,
     attempts : Nat, generation : Nat, leased_by : Workers \cup {NoWorker},
     expires : Nat, available : Nat]

MemoryTypeOK ==
    /\ job \in [Jobs -> Record]
    /\ slots \in [Slots -> Jobs \cup {NoJob}]
    /\ now \in Nat

NoRecord ==
    [status |-> "absent", attempts |-> 0, generation |-> 0, leased_by |-> NoWorker,
     expires |-> 0, available |-> 0]

MemoryInit ==
    /\ job = [j \in Jobs |-> NoRecord]
    /\ slots = [s \in Slots |-> NoJob]
    /\ now = 0

Active(j) == job[j].status \in {"pending", "running"}
-------------------------------------------------------------------------------
(* Bodies with one plausible mistake each; no action uses them.            *)

ActiveLeaseExpired(j, w, g) ==
    job[j].status = "running" /\ job[j].leased_by = w /\ job[j].generation = g

-------------------------------------------------------------------------------
\* The record of a job that leaves status running, or never was in it.
Unleased(r, status) ==
    [r EXCEPT !.status = status, !.leased_by = NoWorker, !.expires = 0]

\* Active jobs with the kind and the dedupe key of j.
Twins(j) ==
    {i \in Jobs : /\ Active(i) /\ key_of[j] # NoKey
                  /\ kind_of[i] = kind_of[j] /\ key_of[i] = key_of[j]}

\* enqueue: the record job j gets when it is available d ticks from now.
Created(d) == [NoRecord EXCEPT !.status = "pending", !.available = now + d]

\* enqueue that finds no twin; with a twin it returns that and changes nothing.
Enqueue(j, d) ==
    /\ job[j].status = "absent"
    /\ Twins(j) = {}
    /\ job' = [job EXCEPT ![j] = Created(d)]
    /\ UNCHANGED <<slots, now>>

SlotFree(s) == slots[s] = NoJob

\* enqueue_scheduled of a slot not reserved before: enqueue, which returns an
\* active twin if there is one, and a reservation for the job it returned.
EnqueueScheduled(j) ==
    LET s == key_of[j]
    IN  /\ s \in Slots
        /\ SlotFree(s)
        /\ IF Twins(j) = {}
           THEN /\ job[j].status = "absent"
                /\ job' = [job EXCEPT ![j] = Created(0)]
                /\ slots' = [slots EXCEPT ![s] = j]
           ELSE /\ \E i \in Twins(j) : slots' = [slots EXCEPT ![s] = i]
                /\ UNCHANGED job
        /\ UNCHANGED now

PendingDue(j) == job[j].status = "pending" /\ job[j].available <= now
LeaseExpired(j) == job[j].status = "running" /\ job[j].expires <= now

Exhausted ==
    {j \in Jobs : (PendingDue(j) \/ LeaseExpired(j)) /\ job[j].attempts >= MaxAttempts}

\* The first loop of lease: exhausted jobs become dead letters, and a running
\* one is fenced off from its worker by a new generation.
Swept ==
    [j \in Jobs |-> IF j \notin Exhausted THEN job[j]
                    ELSE [Unleased(job[j], "dead") EXCEPT
                             !.generation = IF LeaseExpired(j) THEN @ + 1 ELSE @]]

Due(kinds) ==
    {j \in Jobs : /\ PendingDue(j) \/ LeaseExpired(j)
                  /\ job[j].attempts < MaxAttempts
                  /\ kind_of[j] \in kinds}

\* The order of lease.  Which of two jobs it leaves equal goes first depends
\* on the instants of their creation and on random ids: either may.
Before(i, j) ==
    \/ priority_of[i] > priority_of[j]
    \/ priority_of[i] = priority_of[j] /\ job[i].available < job[j].available

Leased(r, w) ==
    [r EXCEPT !.status = "running", !.attempts = @ + 1, !.generation = @ + 1,
              !.leased_by = w, !.expires = now + LeaseFor]

\* lease that finds nothing due.
Sweep(kinds) ==
    /\ Due(kinds) = {}
    /\ Exhausted # {}
    /\ job' = Swept
    /\ UNCHANGED <<slots, now>>

Lease(w, kinds) ==
    \E j \in Due(kinds) :
        /\ \A i \in Due(kinds) : ~Before(i, j)
        /\ job[j].generation < MaxGeneration
        /\ job' = [Swept EXCEPT ![j] = Leased(@, w)]
        /\ UNCHANGED <<slots, now>>

\* _active_lease: the fence of every method of a lease holder.
ActiveLease(j, w, g) ==
    /\ job[j].status = "running"
    /\ job[j].leased_by = w
    /\ job[j].generation = g
    /\ job[j].expires > now

\* What a method of the lease holder does to its record.
Update(j, w, g, r) ==
    /\ ActiveLease(j, w, g)
    /\ job' = [job EXCEPT ![j] = r]
    /\ UNCHANGED <<slots, now>>

Heartbeat(j, w, g) == Update(j, w, g, [job[j] EXCEPT !.expires = now + LeaseFor])

\* complete without an effect; with one it raises.
Complete(j, w, g) == Update(j, w, g, Unleased(job[j], "completed"))

\* pause_for_budget: the attempt is given back.  Any retry instant is taken.
Pause(j, w, g, d) ==
    Update(j, w, g,
           [Unleased(job[j], "pending") EXCEPT
               !.attempts = IF @ = 0 THEN 0 ELSE @ - 1, !.available = now + d])

Fail(j, w, g, retryable) ==
    Update(j, w, g,
           IF ~retryable \/ job[j].attempts >= MaxAttempts
           THEN Unleased(job[j], "dead")
           ELSE [Unleased(job[j], "pending") EXCEPT
                    !.available = now + Backoff[job[j].attempts]])

Cancellable(j) == Active(j)

\* cancel: any caller, without a fence.
Cancel(j) ==
    /\ Cancellable(j)
    /\ job' = [job EXCEPT ![j] = Unleased(@, "cancelled")]
    /\ UNCHANGED <<slots, now>>

Tick ==
    /\ now < MaxTime
    /\ now' = now + 1
    /\ UNCHANGED <<job, slots>>
-------------------------------------------------------------------------------
\* A lease holder, or somebody who once was or never has been one, calls.
Call(j, w, g, delays) ==
    \/ Heartbeat(j, w, g)
    \/ Complete(j, w, g)
    \/ \E d \in delays : Pause(j, w, g, d)
    \/ \E retryable \in BOOLEAN : Fail(j, w, g, retryable)

\* Callers that pause for one of delays and try to cancel jobs in one of statuses.
NextOf(delays, statuses) ==
    \/ \E j \in Jobs, d \in 0..MaxDelay : Enqueue(j, d)
    \/ \E j \in Jobs : EnqueueScheduled(j)
    \/ \E kinds \in SUBSET Kinds : Sweep(kinds)
    \/ \E w \in Workers, kinds \in SUBSET Kinds : Lease(w, kinds)
    \/ \E j \in Jobs, w \in Workers, g \in 1..MaxGeneration : Call(j, w, g, delays)
    \/ \E j \in Jobs : job[j].status \in statuses /\ Cancel(j)
    \/ Tick

\* Every caller; and those that pause until a later instant only and leave
\* the cancelling of a leased job to its holder.
MemoryNext == NextOf(0..MaxDelay, Existing)
CarefulNext == NextOf(1..MaxDelay, {"pending"})

MemorySpec == MemoryInit /\ [][MemoryNext]_memoryVars
CarefulSpec == MemoryInit /\ [][CarefulNext]_memoryVars
-------------------------------------------------------------------------------
(* Two active jobs never share kind and dedupe key, by whichever of the    *)
(* two ways they were enqueued: what jobs_active_dedupe_uidx enforces in   *)
(* the database, and what only the search of enqueue does here.            *)
ActiveKeysUnique ==
    \A i, j \in Jobs :
        /\ Active(i) /\ Active(j) /\ kind_of[i] = kind_of[j]
        /\ key_of[i] = key_of[j] /\ key_of[i] # NoKey
        => i = j

(* A slot stays reserved for the job it was reserved for, also when that   *)
(* job is settled, and that is a job with the slot's key: a scheduler that *)
(* runs again in the same slot enqueues nothing.                           *)
SlotStays ==
    [][\A s \in Slots :
          /\ slots[s] # NoJob => slots'[s] = slots[s]
          /\ slots'[s] # NoJob => /\ key_of[slots'[s]] = s
                                  /\ job'[slots'[s]].status # "absent"]_memoryVars

(* What the CHECK constraints of ingest.jobs demand of a row holds of a    *)
(* record: exactly the running jobs carry a lease, within their attempts.  *)
MatchesStatus(r) ==
    /\ r.status = "absent" => r = NoRecord
    /\ r.status = "running" => r.attempts > 0 /\ r.leased_by \in Workers
    /\ r.status # "running" => r.expires = 0 /\ r.leased_by = NoWorker
    /\ r.attempts <= MaxAttempts

RecordsMatchStatus == \A j \in Jobs : MatchesStatus(job[j])
-------------------------------------------------------------------------------
(* The queue of the database, without sources.                             *)
TicksLeft(t) == IF t > now THEN t - now ELSE 0

RowStatus == [j \in Jobs |-> job[j].status]
RowAttempts == [j \in Jobs |-> job[j].attempts]
RowGeneration == [j \in Jobs |-> job[j].generation]
RowOwner == [j \in Jobs |-> job[j].leased_by]
RowLease == [j \in Jobs |-> TicksLeft(job[j].expires)]
RowDue == [j \in Jobs |-> TicksLeft(job[j].available)]
OfNoSource == [s \in {} |-> NoSource]

Queue == INSTANCE JobQueue WITH
    Sources <- {}, Catalog <- {}, source_of <- [j \in Jobs |-> NoSource],
    BeginLease <- 1, MinDelay <- 1,
    status <- RowStatus, attempts <- RowAttempts, generation <- RowGeneration,
    locked_by <- RowOwner, lease_left <- RowLease, due_in <- RowDue,
    gate <- OfNoSource, cooldown <- OfNoSource, enabled <- OfNoSource,
    revision <- OfNoSource

(* Seen as ticks left, every method is a step of the database queue: the   *)
(* leasing semantics are those of production.                              *)
ProductionEquivalent == Queue!QueueSpec

(* Also after careless calls, a method that is called with care is a step  *)
(* of the database queue: they take the repository to no state from which  *)
(* its later leasing differs from production's.                            *)
CareIsEnough ==
    Queue!QueueInit /\ [][CarefulNext => [Queue!QueueNext]_(Queue!queueVars)]_memoryVars

===============================================================================
