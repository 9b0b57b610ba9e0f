---------------------------- MODULE WorkerRuntime -----------------------------
(***************************************************************************)
(* The worker processes on top of the queue: WorkerRuntime.run_once and    *)
(* run, the handlers that collect a source, the heartbeats that the main   *)
(* thread sends while the handler thread works, and what goes wrong        *)
(* between a worker and the database.                                      *)
(*                                                                         *)
(* A database call that is never answered raises in the worker, although   *)
(* it may have taken effect.  The client commits only after it has read    *)
(* the result, so a call that was not executed by then never will be; one  *)
(* whose COMMIT is on its way keeps its row locks and counts as done.      *)
(***************************************************************************)
EXTENDS JobQueue

CONSTANTS
    RequestBudget,  \* ticks from begin until the transport's deadline has hit
    MaxFaults       \* bound: crashes and unanswered calls per behaviour

ASSUME BudgetAssumption ==
    /\ RequestBudget \in Nat \ {0} /\ MaxFaults \in Nat
    \* begin stretches the lease beyond the transport deadline (45 s and 75 s
    \* against 30 s), and worker_lease_seconds is at least 60
    /\ RequestBudget < BeginLease /\ RequestBudget < LeaseFor
    \* the bound on delays admits the one a deferred handler asks for
    /\ MinDelay <= MaxDelay

VARIABLES
    pc,          \* what the process is doing, see Phases
    held,        \* the job it claimed and the generation it was given
    beat,        \* outcome of the heartbeats of this job so far
    base,        \* the checkpoint revision that begin returned
    budget,      \* ticks until the transport gives up on the open request
    retry_in,    \* ticks until the retry_at of a deferred job
    retryable,   \* disposition of the failure about to be reported
    faults       \* crashes and unanswered calls so far

workerVars == <<pc, held, beat, base, budget, retry_in, retryable, faults>>
vars == <<status, attempts, generation, locked_by, lease_left, due_in,
          gate, cooldown, enabled, revision,
          pc, held, beat, base, budget, retry_in, retryable, faults>>

Phases == {"down",      \* the container restarts the process
           "idle",      \* top of run_once
           "begin",     \* handler thread: begin_..._job is called
           "request",   \* handler thread: the network request is open
           "finalize",  \* main thread: repository.complete is called
           "fail",      \* main thread: repository.fail is called
           "pause"}     \* main thread: repository.pause_for_budget is called

NoLease == [job |-> NoJob, gen |-> 0]
Lease == [job : Jobs \cup {NoJob}, gen : Nat]

TypeOK ==
    /\ QueueTypeOK
    /\ pc \in [Workers -> Phases]
    /\ held \in [Workers -> Lease]
    /\ beat \in [Workers -> {"ok", "lost", "error"}]
    /\ base \in [Workers -> Nat]
    /\ budget \in [Workers -> Nat]
    /\ retry_in \in [Workers -> Nat]
    /\ retryable \in [Workers -> BOOLEAN]
    /\ faults \in Nat

Init ==
    /\ QueueInit
    /\ pc = [w \in Workers |-> "down"]
    /\ held = [w \in Workers |-> NoLease]
    /\ beat = [w \in Workers |-> "ok"]
    /\ base = [w \in Workers |-> 0]
    /\ budget = [w \in Workers |-> 0]
    /\ retry_in = [w \in Workers |-> 0]
    /\ retryable = [w \in Workers |-> FALSE]
    /\ faults = 0
-------------------------------------------------------------------------------
InHandler(w) == pc[w] \in {"begin", "request"}
Live(w) == LeaseLive(held[w].job, w, held[w].gen)

\* The worker forgets the job: run_once returned, or the process ended.
Leave(w, phase) ==
    /\ pc' = [pc EXCEPT ![w] = phase]
    /\ held' = [held EXCEPT ![w] = NoLease]
    /\ beat' = [beat EXCEPT ![w] = "ok"]
    /\ base' = [base EXCEPT ![w] = 0]
    /\ budget' = [budget EXCEPT ![w] = 0]
    /\ retry_in' = [retry_in EXCEPT ![w] = 0]
    /\ retryable' = [retryable EXCEPT ![w] = FALSE]

\* repository.fail is next, with this disposition.
ReportFailure(w, again) ==
    /\ pc' = [pc EXCEPT ![w] = "fail"]
    /\ retryable' = [retryable EXCEPT ![w] = again]
    /\ base' = [base EXCEPT ![w] = 0]
    /\ budget' = [budget EXCEPT ![w] = 0]
    /\ retry_in' = [retry_in EXCEPT ![w] = 0]
    /\ UNCHANGED <<held, beat>>

\* The handler thread ended; what the main thread does with its exception or
\* its result depends on the heartbeats first: with a lost lease it returns,
\* and an exception raised by a heartbeat replaces the handler's outcome.
HandlerRaised(w, again) ==
    CASE beat[w] = "ok" -> ReportFailure(w, again)
      [] beat[w] = "lost" -> Leave(w, "idle")
      [] beat[w] = "error" -> ReportFailure(w, TRUE)

HandlerDeferred(w, r) ==
    IF beat[w] = "ok"
    THEN /\ pc' = [pc EXCEPT ![w] = "pause"]
         /\ retry_in' = [retry_in EXCEPT ![w] = r]
         /\ UNCHANGED <<held, beat, base, budget, retryable>>
    ELSE HandlerRaised(w, TRUE)

HandlerReturned(w) ==
    IF beat[w] = "ok"
    THEN /\ pc' = [pc EXCEPT ![w] = "finalize"]
         /\ budget' = [budget EXCEPT ![w] = 0]
         /\ UNCHANGED <<held, beat, base, retry_in, retryable>>
    ELSE HandlerRaised(w, TRUE)

\* What the call that worker w is waiting for does, if it is not refused.
TakesEffect(w, op) ==
    LET j == held[w].job
        g == held[w].gen
    IN  \/ op = "begin" /\ Begin(j, w, g)
        \/ op = "finalize" /\ Finalize(j, w, g, base[w])
        \/ op = "fail" /\ Fail(j, w, g, retryable[w])
        \/ op = "pause" /\ Pause(j, w, g, retry_in[w])
        \/ op = "heartbeat" /\ Heartbeat(j, w, g)
-------------------------------------------------------------------------------
\* restart: unless-stopped
Restart(w) ==
    /\ pc[w] = "down"
    /\ Leave(w, "idle")
    /\ UNCHANGED <<queueVars, faults>>

\* repository.lease; a cleanup handler returns its effect without any call.
Lease1(w, j) ==
    /\ pc[w] = "idle"
    /\ Claim(w, j)
    /\ held' = [held EXCEPT ![w] = [job |-> j, gen |-> generation'[j]]]
    /\ pc' = [pc EXCEPT ![w] = IF source_of[j] \in Sources THEN "begin" ELSE "finalize"]
    /\ UNCHANGED <<beat, base, budget, retry_in, retryable, faults>>

\* A poll that leases nothing still buries exhausted rows.
Poll(w) ==
    /\ pc[w] = "idle"
    /\ \A j \in Jobs : ~Claimable(j)
    /\ Sweep
    /\ UNCHANGED workerVars

\* Main thread, while the handler runs: the lease is renewed, or found lost.
SendHeartbeat(w) ==
    /\ InHandler(w) /\ beat[w] = "ok"
    /\ \/ /\ Heartbeat(held[w].job, w, held[w].gen)
          /\ UNCHANGED beat
       \/ /\ ~Live(w)
          /\ beat' = [beat EXCEPT ![w] = "lost"]
          /\ UNCHANGED queueVars
    /\ UNCHANGED <<pc, held, base, budget, retry_in, retryable, faults>>

\* Handler thread: begin is answered.
CallBegin(w) ==
    LET j == held[w].job
        g == held[w].gen
        s == source_of[j]
    IN  /\ pc[w] = "begin"
        /\ \/ /\ Begin(j, w, g)
              /\ pc' = [pc EXCEPT ![w] = "request"]
              /\ base' = [base EXCEPT ![w] = revision[s]]
              /\ budget' = [budget EXCEPT ![w] = RequestBudget]
              /\ UNCHANGED <<held, beat, retry_in, retryable>>
           \/ /\ Live(w) /\ enabled[s] /\ ~MayBegin(s)
              /\ HandlerDeferred(w, DeferFor(s))
              /\ UNCHANGED queueVars
           \/ /\ Live(w) /\ ~enabled[s]
              /\ HandlerRaised(w, TRUE)
              /\ UNCHANGED queueVars
           \/ /\ ~Live(w)
              /\ Leave(w, "idle")
              /\ UNCHANGED queueVars
        /\ UNCHANGED faults

\* Handler thread: the request ends, within its deadline, one way or another.
EndRequest(w) ==
    /\ pc[w] = "request"
    /\ \/ HandlerReturned(w)
       \/ \E again \in BOOLEAN : HandlerRaised(w, again)
    /\ UNCHANGED <<queueVars, faults>>

\* repository.complete: completed, refused as stale, or raised.
CallFinalize(w) ==
    LET j == held[w].job
        g == held[w].gen
    IN  /\ pc[w] = "finalize"
        /\ \/ Finalize(j, w, g, base[w]) /\ Leave(w, "idle")
           \/ ~Live(w) /\ Leave(w, "idle") /\ UNCHANGED queueVars
           \/ /\ Live(w) /\ ~MayPersist(j, g, base[w])
              /\ ReportFailure(w, TRUE)
              /\ UNCHANGED queueVars
        /\ UNCHANGED faults

CallFail(w) ==
    /\ pc[w] = "fail"
    /\ \/ Fail(held[w].job, w, held[w].gen, retryable[w])
       \/ ~Live(w) /\ UNCHANGED queueVars
    /\ Leave(w, "idle")
    /\ UNCHANGED faults

\* repository.pause_for_budget: a lease or a retry instant that has passed may
\* have done so while the call waited for its row; if it had before, the call
\* has no effect, or raises out of run_once and of run, and the process exits.
CallPause(w) ==
    /\ pc[w] = "pause"
    /\ \/ Pause(held[w].job, w, held[w].gen, retry_in[w]) /\ Leave(w, "idle")
       \/ retry_in[w] > 0 /\ ~Live(w) /\ Leave(w, "idle") /\ UNCHANGED queueVars
       \/ retry_in[w] = 0 /\ Leave(w, "down") /\ UNCHANGED queueVars
    /\ UNCHANGED faults
-------------------------------------------------------------------------------
\* An unanswered call has taken effect, or never will.
LoseAnswer(w, op) ==
    /\ faults < MaxFaults
    /\ faults' = faults + 1
    /\ TakesEffect(w, op) \/ UNCHANGED queueVars

\* No answer to a call: the exception counts as a failure of the handler, of
\* the finalizer, or of the heartbeat; out of fail and pause it ends the process.
CallRaises(w) ==
    \/ pc[w] = "begin" /\ LoseAnswer(w, "begin") /\ HandlerRaised(w, TRUE)
    \/ pc[w] = "finalize" /\ LoseAnswer(w, "finalize") /\ ReportFailure(w, TRUE)
    \/ pc[w] \in {"fail", "pause"} /\ LoseAnswer(w, pc[w]) /\ Leave(w, "down")
    \/ /\ InHandler(w) /\ beat[w] = "ok" /\ LoseAnswer(w, "heartbeat")
       /\ beat' = [beat EXCEPT ![w] = "error"]
       /\ UNCHANGED <<pc, held, base, budget, retry_in, retryable>>

\* A process that gives its job back on the way out, without the fence.
CrashReleasing(w) ==
    /\ pc[w] \notin {"down", "idle"} /\ faults < MaxFaults
    /\ faults' = faults + 1
    /\ status' = [status EXCEPT ![held[w].job] = "pending"]
    /\ locked_by' = [locked_by EXCEPT ![held[w].job] = NoWorker]
    /\ lease_left' = [lease_left EXCEPT ![held[w].job] = 0]
    /\ UNCHANGED <<attempts, generation, due_in, sourceVars>>
    /\ Leave(w, "down")

\* The process dies, an open network request with it.
Crash(w) ==
    /\ pc[w] \notin {"down", "idle"}
    /\ LoseAnswer(w, IF pc[w] = "request" THEN "heartbeat" ELSE pc[w])
    /\ Leave(w, "down")

\* Time passes, but never beyond the deadline of an open request.
Advance ==
    /\ \A w \in Workers : pc[w] = "request" => budget[w] > 0
    /\ Tick
    /\ budget' = [w \in Workers |-> Elapse(budget[w])]
    /\ retry_in' = [w \in Workers |-> Elapse(retry_in[w])]
    /\ UNCHANGED <<pc, held, beat, base, retryable, faults>>

\* The scheduler and the administrator.
Environment ==
    /\ \/ \E j \in Jobs, d \in 0..MaxDelay : Enqueue(j, d)
       \/ \E j \in Jobs : Cancel(j)
       \/ \E s \in Sources : Disable(s)
    /\ UNCHANGED workerVars

Work(w) ==
    \/ Restart(w)
    \/ \E j \in Jobs : Lease1(w, j)
    \/ Poll(w)
    \/ CallBegin(w)
    \/ EndRequest(w)
    \/ CallFinalize(w)
    \/ CallFail(w)
    \/ CallPause(w)

Next ==
    \/ \E w \in Workers : Work(w) \/ SendHeartbeat(w) \/ CallRaises(w) \/ Crash(w)
    \/ Environment
    \/ Advance

Spec == Init /\ [][Next]_vars

\* Processes are scheduled, containers restart, and time passes.  Nothing makes
\* a heartbeat, an administrator or a fault happen.
Fairness == WF_vars(Advance) /\ \A w \in Workers : WF_vars(Work(w))
FairSpec == Spec /\ Fairness
-------------------------------------------------------------------------------
(* At most one request to a source is open at any instant, whatever was     *)
(* lost, expired or restarted: the lease and the gate that begin   *)
(* and the heartbeats leave behind outlive the transport's deadline.        *)
Requesting(s) == {w \in Workers : pc[w] = "request" /\ source_of[held[w].job] = s}
NoOverlap == \A s \in Sources : \A v, w \in Requesting(s) : v = w

(* The finalizer of a live lease is refused only by the kill switch: its    *)
(* gate is still its own and the checkpoint it read at begin is still the   *)
(* current one, so no collected result is thrown away as stale.             *)
OnlyKillSwitchRefuses ==
    \A w \in Workers :
        (pc[w] = "finalize" /\ Live(w) /\ ~MayPersist(held[w].job, held[w].gen, base[w]))
            => ~enabled[source_of[held[w].job]]

(* Two processes never believe to hold the same lease.                      *)
LeaseHeldOnce ==
    \A v, w \in Workers :
        held[v] # NoLease /\ held[v] = held[w] => v = w

(* A process and the queue are in states they can be in together, and one   *)
(* lease is never in two processes.                                        *)
RuntimeInv == TypeOK /\ LeaseHeldOnce

(* Every queued job reaches a terminal state: it is completed, cancelled or *)
(* dead-lettered, through crashes, lost answers, contention for its source  *)
(* and a kill switch; no retry, deferral or reclaim loop goes on for ever.  *)
EventuallyTerminal ==
    \A j \in Jobs : status[j] # "absent" ~> status[j] \in Terminal

(* A source never stays blocked: its gate is released or runs out.          *)
GateEventuallyFree == \A s \in Sources : []<>(~GateBusy(s))
===============================================================================
