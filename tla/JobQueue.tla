------------------------------- MODULE JobQueue -------------------------------
(***************************************************************************)
(* The durable PostgreSQL job queue of the worker: table ingest.jobs, the  *)
(* request gates and policies of the collected sources, and the SQL        *)
(* functions that change them.  Every function runs in one transaction     *)
(* that holds the row lock of its job, so each is one action here.         *)
(*                                                                         *)
(* The clients are unconstrained: any worker name may call any function    *)
(* for any job with any generation that was ever issued, at any time.      *)
(* What holds here holds whatever the workers do.                          *)
(*                                                                         *)
(* Instants are kept relative to the database clock, the only clock these  *)
(* functions read: a timer counts the ticks left until the stored          *)
(* timestamp and rests at 0 once that timestamp is in the past.            *)
(***************************************************************************)
EXTENDS Integers, FiniteSets

CONSTANTS
    Jobs,           \* identities a row of ingest.jobs may have
    Workers,        \* worker_id values
    Sources,        \* rows of source_request_gates that jobs may need
    Catalog,        \* the sources whose results replace a revisioned checkpoint
    NoJob, NoWorker, NoSource,
    source_of,      \* the source a job collects, or NoSource (cleanup)
    MaxAttempts,    \* jobs.max_attempts
    LeaseFor,       \* lease_seconds of a claim or a heartbeat
    BeginLease,     \* lease that begin guarantees (45 s TCGdex, 75 s YouTube)
    MinDelay,       \* policies.min_delay_seconds
    Backoff,        \* ticks before the retry that follows attempt n
    MaxDelay,       \* bound: largest delay a caller asks for
    MaxGeneration   \* bound: leases issued per job

Max2(a, b) == IF a >= b THEN a ELSE b
Min2(a, b) == IF a <= b THEN a ELSE b

ASSUME ConstantsAssumption ==
    /\ IsFiniteSet(Jobs)
    /\ NoJob \notin Jobs /\ NoWorker \notin Workers /\ NoSource \notin Sources
    /\ Catalog \subseteq Sources
    /\ source_of \in [Jobs -> Sources \cup {NoSource}]
    /\ MaxAttempts \in Nat \ {0}
    /\ LeaseFor \in Nat \ {0} /\ BeginLease \in Nat \ {0} /\ MinDelay \in Nat \ {0}
    /\ Backoff \in [1..MaxAttempts -> Nat \ {0}]
    /\ MaxDelay \in Nat \ {0} /\ MaxGeneration \in Nat \ {0}

VARIABLES
    status,      \* jobs.status, "absent" before the row exists
    attempts,    \* jobs.attempts
    generation,  \* jobs.lease_generation
    locked_by,   \* jobs.locked_by
    lease_left,  \* ticks until jobs.lock_expires_at
    due_in,      \* ticks until jobs.available_at
    gate,        \* source_request_gates: owner job, its generation, ticks left
    cooldown,    \* ticks until policies.last_attempt_at + min_delay
    enabled,     \* the exact policy is present and enabled
    revision     \* results persisted per source (catalog.sync_state.revision)

jobVars == <<status, attempts, generation, locked_by, lease_left, due_in>>
sourceVars == <<gate, cooldown, enabled, revision>>
queueVars == <<status, attempts, generation, locked_by, lease_left, due_in,
               gate, cooldown, enabled, revision>>

Terminal == {"completed", "dead", "cancelled"}
Status == {"absent", "pending", "running"} \cup Terminal

FreeGate == [job |-> NoJob, gen |-> 0, left |-> 0]
Gate == [job : Jobs \cup {NoJob}, gen : Nat, left : Nat]

QueueTypeOK ==
    /\ status \in [Jobs -> Status]
    /\ attempts \in [Jobs -> Nat]
    /\ generation \in [Jobs -> Nat]
    /\ locked_by \in [Jobs -> Workers \cup {NoWorker}]
    /\ lease_left \in [Jobs -> Nat]
    /\ due_in \in [Jobs -> Nat]
    /\ gate \in [Sources -> Gate]
    /\ cooldown \in [Sources -> Nat]
    /\ enabled \in [Sources -> BOOLEAN]
    /\ revision \in [Sources -> Nat]

QueueInit ==
    /\ status = [j \in Jobs |-> "absent"]
    /\ attempts = [j \in Jobs |-> 0]
    /\ generation = [j \in Jobs |-> 0]
    /\ locked_by = [j \in Jobs |-> NoWorker]
    /\ lease_left = [j \in Jobs |-> 0]
    /\ due_in = [j \in Jobs |-> 0]
    /\ gate = [s \in Sources |-> FreeGate]
    /\ cooldown = [s \in Sources |-> 0]
    /\ enabled = [s \in Sources |-> TRUE]
    /\ revision = [s \in Sources |-> 0]
-------------------------------------------------------------------------------
(* Bodies with one plausible mistake each; no action uses them.            *)

LeaseLiveAnyStatus(j, w, g) ==
    generation[j] = g /\ attempts[j] > 0

AvailableBusy(j) ==
    (status[j] = "pending" /\ due_in[j] = 0) \/ status[j] = "running"

IssuedGenerationKept(j) == Max2(generation[j], 1)

RenewedGatesForgotten(j, g, left) == gate

ReleasedGatesOfAnyone(j, g) ==
    [s \in Sources |-> IF s = source_of[j] THEN FreeGate ELSE gate[s]]

GateBusyUntilReleased(s) == gate[s].job # NoJob

ExhaustedPendingOnly ==
    {j \in Jobs : status[j] = "pending" /\ due_in[j] = 0 /\ attempts[j] >= MaxAttempts}
-------------------------------------------------------------------------------
(* The row still names this lease, which may have run out.                  *)
NamesLease(j, w, g) ==
    status[j] = "running" /\ locked_by[j] = w /\ generation[j] = g

(* The fence that every function of a lease holder starts with.            *)
LeaseLive(j, w, g) ==
    /\ status[j] = "running"
    /\ locked_by[j] = w
    /\ generation[j] = g
    /\ lease_left[j] > 0

\* A row that a claim may take, unless its attempts are used up.
Available(j) ==
    \/ status[j] = "pending" /\ due_in[j] = 0
    \/ status[j] = "running" /\ lease_left[j] = 0

\* A claim that tries an exhausted row again.
ClaimableExhausted(j) == Available(j)

Claimable(j) == Available(j) /\ attempts[j] < MaxAttempts

Exhausted == {j \in Jobs : Available(j) /\ attempts[j] >= MaxAttempts}

\* The generation a row is left with when its current lease is revoked.
IssuedGeneration(j) == generation[j] + 1

\* The gate is held by a lease that has not run out.
GateBusy(s) == gate[s].job # NoJob /\ gate[s].left > 0

OwnsGate(s, j, g) == gate[s].job = j /\ gate[s].gen = g

\* Time a contended job is told to wait.
DeferFor(s) ==
    Max2(cooldown[s], IF GateBusy(s) THEN Min2(gate[s].left, MinDelay) ELSE 0)

RenewedGates(j, g, left) ==
    [s \in Sources |-> IF OwnsGate(s, j, g) THEN [gate[s] EXCEPT !.left = left]
                                            ELSE gate[s]]

ReleasedGates(j, g) ==
    [s \in Sources |-> IF OwnsGate(s, j, g) THEN FreeGate ELSE gate[s]]

\* The row leaves status running: every lock column is cleared.
Unlock(j, newStatus) ==
    /\ status' = [status EXCEPT ![j] = newStatus]
    /\ locked_by' = [locked_by EXCEPT ![j] = NoWorker]
    /\ lease_left' = [lease_left EXCEPT ![j] = 0]
-------------------------------------------------------------------------------
\* enqueue_job_v1: a new row, due at once or after d ticks.
Enqueue(j, d) ==
    /\ status[j] = "absent"
    /\ status' = [status EXCEPT ![j] = "pending"]
    /\ due_in' = [due_in EXCEPT ![j] = d]
    /\ UNCHANGED <<attempts, generation, locked_by, lease_left, sourceVars>>

\* The sweep that opens every claim: exhausted rows become dead letters, and
\* a running one is fenced off from the worker that still believes to hold it.
SweptStatus == [j \in Jobs |-> IF j \in Exhausted THEN "dead" ELSE status[j]]
SweptGeneration ==
    [j \in Jobs |-> IF j \in Exhausted /\ status[j] = "running"
                    THEN IssuedGeneration(j) ELSE generation[j]]
SweptOwner == [j \in Jobs |-> IF j \in Exhausted THEN NoWorker ELSE locked_by[j]]

\* claim_jobs_v2 that finds no row to lease (or only rows locked by others).
Sweep ==
    /\ Exhausted # {}
    /\ status' = SweptStatus
    /\ generation' = SweptGeneration
    /\ locked_by' = SweptOwner
    /\ UNCHANGED <<attempts, lease_left, due_in, sourceVars>>

\* claim_jobs_v2 that leases row j to worker w.  Which row is first in the
\* claim order is left open: rows locked by another transaction are skipped.
Claim(w, j) ==
    /\ Claimable(j)
    /\ generation[j] < MaxGeneration
    /\ status' = [SweptStatus EXCEPT ![j] = "running"]
    /\ generation' = [SweptGeneration EXCEPT ![j] = IssuedGeneration(j)]
    /\ locked_by' = [SweptOwner EXCEPT ![j] = w]
    /\ lease_left' = [lease_left EXCEPT ![j] = LeaseFor]
    /\ attempts' = [attempts EXCEPT ![j] = @ + 1]
    /\ UNCHANGED <<due_in, sourceVars>>

\* heartbeat_job_v2: the lease and every gate of this generation are renewed.
Heartbeat(j, w, g) ==
    /\ LeaseLive(j, w, g)
    /\ lease_left' = [lease_left EXCEPT ![j] = LeaseFor]
    /\ gate' = RenewedGates(j, g, LeaseFor)
    /\ UNCHANGED <<status, attempts, generation, locked_by, due_in,
                   cooldown, enabled, revision>>

\* begin_..._job may grant the request gate of source s.
MayBegin(s) == enabled[s] /\ ~GateBusy(s) /\ cooldown[s] = 0

\* A begin that leaves the lease as the claim made it.
BeginUnstretched(j, w, g) ==
    LET s == source_of[j]
    IN  /\ s \in Sources
        /\ LeaseLive(j, w, g)
        /\ MayBegin(s)
        /\ gate' = [gate EXCEPT ![s] = [job |-> j, gen |-> g, left |-> lease_left[j]]]
        /\ cooldown' = [cooldown EXCEPT ![s] = MinDelay]
        /\ UNCHANGED <<status, attempts, generation, locked_by, lease_left, due_in,
                       enabled, revision>>

\* A begin that stretches the lease but lets the gate expire as before.
BeginGateUnstretched(j, w, g) ==
    LET s == source_of[j]
    IN  /\ s \in Sources
        /\ LeaseLive(j, w, g)
        /\ MayBegin(s)
        /\ lease_left' = [lease_left EXCEPT ![j] = Max2(@, BeginLease)]
        /\ gate' = [gate EXCEPT ![s] = [job |-> j, gen |-> g, left |-> lease_left[j]]]
        /\ cooldown' = [cooldown EXCEPT ![s] = MinDelay]
        /\ UNCHANGED <<status, attempts, generation, locked_by, due_in,
                       enabled, revision>>

\* begin_..._job that grants the gate: the lease is stretched to cover the
\* request, the gate expires with it, and the pacing clock restarts.
Begin(j, w, g) ==
    LET s == source_of[j]
        left == Max2(lease_left[j], BeginLease)
    IN  /\ s \in Sources
        /\ LeaseLive(j, w, g)
        /\ MayBegin(s)
        /\ lease_left' = [lease_left EXCEPT ![j] = left]
        /\ gate' = [gate EXCEPT ![s] = [job |-> j, gen |-> g, left |-> left]]
        /\ cooldown' = [cooldown EXCEPT ![s] = MinDelay]
        /\ UNCHANGED <<status, attempts, generation, locked_by, due_in,
                       enabled, revision>>

\* A finalizer that trusts the lease alone.
MayPersistUnfenced(j, g, base) ==
    source_of[j] \in Sources => enabled[source_of[j]]

\* The checks a finalizer makes behind the fence.  A failed one raises.
MayPersist(j, g, base) ==
    LET s == source_of[j]
    IN  s \in Sources =>
            /\ enabled[s]
            /\ OwnsGate(s, j, g) /\ gate[s].left > 0
            /\ s \in Catalog => base = revision[s]

\* finalize_cleanup_job and finalize_..._job: persist the result, complete the
\* job and release the gate in one transaction.
Finalize(j, w, g, base) ==
    LET s == source_of[j]
    IN  /\ LeaseLive(j, w, g)
        /\ MayPersist(j, g, base)
        /\ Unlock(j, "completed")
        /\ IF s \in Sources
           THEN /\ revision' = [revision EXCEPT ![s] = @ + 1]
                /\ gate' = [gate EXCEPT ![s] = FreeGate]
                /\ cooldown' = IF s \in Catalog THEN cooldown
                               ELSE [cooldown EXCEPT ![s] = MinDelay]
           ELSE UNCHANGED <<revision, gate, cooldown>>
        /\ UNCHANGED <<attempts, generation, due_in, enabled>>

\* fail_job_v2: dead letter or delayed retry; only gates of this generation
\* are released, and their sources are paced from the failure on.
Fail(j, w, g, retryable) ==
    LET dead == ~retryable \/ attempts[j] >= MaxAttempts
    IN  /\ LeaseLive(j, w, g)
        /\ Unlock(j, IF dead THEN "dead" ELSE "pending")
        /\ due_in' = IF dead THEN due_in
                     ELSE [due_in EXCEPT ![j] = Backoff[attempts[j]]]
        /\ cooldown' = [s \in Sources |-> IF OwnsGate(s, j, g) THEN MinDelay
                                                               ELSE cooldown[s]]
        /\ gate' = ReleasedGates(j, g)
        /\ UNCHANGED <<attempts, generation, enabled, revision>>

\* pause_job_for_budget_v2: the attempt is given back.  It judges the retry
\* instant and the lease by a clock that it reads before it waits for the row:
\* by the time it writes, either may have passed.  Gates stay.
Pause(j, w, g, r) ==
    /\ NamesLease(j, w, g)
    /\ Unlock(j, "pending")
    /\ attempts' = [attempts EXCEPT ![j] = Max2(0, @ - 1)]
    /\ due_in' = [due_in EXCEPT ![j] = r]
    /\ UNCHANGED <<generation, sourceVars>>

\* admin job.cancel: never a leased job.
Cancel(j) ==
    /\ status[j] = "pending"
    /\ Unlock(j, "cancelled")
    /\ UNCHANGED <<attempts, generation, due_in, sourceVars>>

\* admin source.disable: the kill switch.
Disable(s) ==
    /\ enabled[s]
    /\ enabled' = [enabled EXCEPT ![s] = FALSE]
    /\ UNCHANGED <<jobVars, gate, cooldown, revision>>

Elapse(t) == IF t > 0 THEN t - 1 ELSE 0

\* The database clock advances.
Tick ==
    /\ lease_left' = [j \in Jobs |-> Elapse(lease_left[j])]
    /\ due_in' = [j \in Jobs |-> Elapse(due_in[j])]
    /\ gate' = [s \in Sources |-> [gate[s] EXCEPT !.left = Elapse(@)]]
    /\ cooldown' = [s \in Sources |-> Elapse(cooldown[s])]
    /\ UNCHANGED <<status, attempts, generation, locked_by, enabled, revision>>
-------------------------------------------------------------------------------
\* A lease holder, or somebody who once was or never has been one, calls.
Call(j, w, g) ==
    \/ Heartbeat(j, w, g)
    \/ Begin(j, w, g)
    \/ \E base \in 0..Cardinality(Jobs) : Finalize(j, w, g, base)
    \/ \E retryable \in BOOLEAN : Fail(j, w, g, retryable)
    \/ \E r \in 0..MaxDelay : Pause(j, w, g, r)

QueueNext ==
    \/ \E j \in Jobs, d \in 0..MaxDelay : Enqueue(j, d)
    \/ Sweep
    \/ \E w \in Workers, j \in Jobs : Claim(w, j)
    \/ \E w \in Workers, j \in Jobs : \E g \in 1..MaxGeneration : Call(j, w, g)
    \/ \E j \in Jobs : Cancel(j)
    \/ \E s \in Sources : Disable(s)
    \/ Tick

QueueSpec == QueueInit /\ [][QueueNext]_queueVars
-------------------------------------------------------------------------------
(* No transaction leaves a row that the CHECK constraints of ingest.jobs   *)
(* refuse (which would make a function raise in mid flight): exactly the   *)
(* running rows carry a lock, and attempts never exceed max_attempts nor   *)
(* the number of leases ever issued.                                       *)
RowConstraints ==
    \A j \in Jobs :
        /\ status[j] = "running" <=> locked_by[j] # NoWorker
        /\ status[j] # "running" => lease_left[j] = 0
        /\ status[j] = "running" => attempts[j] > 0
        /\ attempts[j] <= Min2(MaxAttempts, generation[j])

(* Every column keeps its type and every row its constraints, whatever the *)
(* clients call late, twice or for a row that is not theirs: claims, the   *)
(* sweep of exhausted rows, pauses that give an attempt back and failures  *)
(* that requeue together never take a row past its last attempt.           *)
RowsAreSound == QueueTypeOK /\ RowConstraints

(* A gate only ever names a generation that was issued for a job of that   *)
(* source, and while that very lease lasts the gate runs out exactly when  *)
(* the lease does: begin copies the expiry and every heartbeat renews both.*)
(* So a holder that passes the lease check never finds its gate expired.   *)
GatesFollowLeases ==
    \A s \in Sources :
        LET j == gate[s].job
        IN  j # NoJob =>
              /\ source_of[j] = s
              /\ gate[s].gen \in 1..generation[j]
              /\ gate[s].gen = generation[j] /\ status[j] = "running"
                     => gate[s].left = lease_left[j]

(* Every completed job of a source has persisted its result exactly once,  *)
(* and no job that did not complete has persisted anything: retries, late  *)
(* finalizers of revoked leases and repeated calls add nothing.            *)
CompletedJobs(s) == {j \in Jobs : source_of[j] = s /\ status[j] = "completed"}
ResultsPersistedOnce == \A s \in Sources : revision[s] = Cardinality(CompletedJobs(s))

(* A terminal row is never written again.  This is what makes an ambiguous *)
(* commit harmless: the failure reported after a finalizer whose answer    *)
(* was lost cannot requeue the job it completed.                           *)
TerminalStays ==
    [][\A j \in Jobs : status[j] \in Terminal => status'[j] = status[j]]_queueVars

(* A lease becomes live only together with a generation never issued       *)
(* before: nothing revives an expired lease, and a worker that reclaims    *)
(* its own job cannot be confused with its earlier self.                   *)
NewLeaseNewGeneration ==
    [][\A j \in Jobs :
          (lease_left[j] = 0 /\ lease_left'[j] > 0) => generation'[j] > generation[j]]_queueVars

(* While a lease is live its row is not handed to anybody else.            *)
LiveLeaseNotStolen ==
    [][\A j \in Jobs :
          lease_left[j] > 0 =>
              /\ generation'[j] = generation[j]
              /\ locked_by'[j] \in {locked_by[j], NoWorker}]_queueVars

(* A busy gate is never taken over, and nobody frees it for its owner: the *)
(* only calls that move it are those of the lease it was granted to, while *)
(* that lease is live.  The owner frees it by ending its lease in the same *)
(* transaction (finalize, fail) and renews it together with the lease.     *)
(* Otherwise the gate only runs out with the time.  A finalizer or failure *)
(* of another job of the source, or of an earlier lease of the same job,   *)
(* leaves it alone.                                                        *)
OwnerLive(s) ==
    LET j == gate[s].job
    IN  status[j] = "running" /\ generation[j] = gate[s].gen /\ lease_left[j] > 0

FreedByOwner(s) ==
    gate'[s] = FreeGate /\ OwnerLive(s) /\ status'[gate[s].job] # "running"
RenewedByOwner(s) ==
    /\ gate'[s] = [gate[s] EXCEPT !.left = lease_left'[gate[s].job]]
    /\ OwnerLive(s) /\ OwnerLive(s)'
RunsOut(s) == gate'[s] = [gate[s] EXCEPT !.left = @ - 1]

BusyGateNotStolen ==
    [][\A s \in Sources :
          GateBusy(s) /\ gate'[s] # gate[s] =>
              FreedByOwner(s) \/ RenewedByOwner(s) \/ RunsOut(s)]_queueVars
-------------------------------------------------------------------------------
(* The queue keeps the promises of JobLedger: a row whose lease ran out is *)
(* waiting again, although nothing was written, and a source is used as    *)
(* long as its gate is busy.                                               *)
LedgerPhase ==
    [j \in Jobs |-> CASE status[j] = "pending" -> "waiting"
                      [] status[j] = "running" /\ lease_left[j] > 0 -> "leased"
                      [] status[j] = "running" /\ lease_left[j] = 0 -> "waiting"
                      [] OTHER -> status[j]]

LedgerUser == [s \in Sources |-> IF GateBusy(s) THEN gate[s].job ELSE NoJob]

Ledger == INSTANCE JobLedger WITH phase <- LedgerPhase, user <- LedgerUser,
                                  results <- revision

(* Seen through that mapping, every transaction of the queue, whoever      *)
(* calls it, is a step of the ledger or changes nothing there.             *)
KeepsLedger == Ledger!Spec
===============================================================================
