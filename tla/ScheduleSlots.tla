----------------------------- MODULE ScheduleSlots -----------------------------
(***************************************************************************)
(* Scheduler processes that enqueue the due entries of every cycle, and    *)
(* the durable slots of ingest.schedule_slots that make this happen once   *)
(* per entry and slot.                                                     *)
(*                                                                         *)
(* A scheduled enqueue is one transaction, but not one step: it looks the  *)
(* slot's key up among the jobs first and reserves the slot afterwards,    *)
(* and another transaction may commit in between.  From the reservation on *)
(* it is atomic, because a second insert of the same slot waits for it.    *)
(*                                                                         *)
(* The process that is stopped forever in the middle of a cycle also       *)
(* stands for a transaction that outlives its client.                      *)
(***************************************************************************)
EXTENDS CronSlots, Sequences, FiniteSets

CONSTANTS
    Schedulers,     \* processes; two of them overlap during a deployment
    EntryOrder,     \* the entries of live_schedule_entries, in their order
    cron,           \* [entries -> parsed cron], for entries without interval
    civil,          \* [minutes -> the datetime fields of that minute]
    interval,       \* [entries -> minutes between slots, for the hourly source
                    \* family; 0 for a cron entry]
    window,         \* [entries -> catch_up_within, 0 without catch-up]
    check,          \* [entries -> catch_up_check_interval, 1 without catch-up]
    Gated,          \* entries whose enqueue requires an enabled policy
    max_age,        \* [entries -> minutes after which a slot is refused]
    TicksPerMinute, \* grain of the clock
    LoopSleep,      \* ticks between two cycles, SCHEDULER_LOOP_SECONDS
    MaxCycle,       \* bound: ticks that a cycle takes at most
    MaxRestart,     \* bound: ticks until a failed scheduler runs again
    LastMinute,     \* bound: the minute the calendar ends with
    LegacyKeys,     \* slots for which an older scheduler may still enqueue jobs
    MaxLegacy,      \* bound: jobs it enqueues per slot
    MaxFaults       \* bound: crashes per behaviour

Entries == {EntryOrder[i] : i \in DOMAIN EntryOrder}
Minutes == 0..LastMinute
SlotKeys == Entries \X Minutes

ASSUME ScheduleAssumption ==
    /\ EntryOrder \in Seq(Entries)
    /\ \A i, k \in DOMAIN EntryOrder : EntryOrder[i] = EntryOrder[k] => i = k
    /\ window \in [Entries -> Nat] /\ interval \in [Entries -> Nat]
    /\ check \in [Entries -> Nat \ {0}]
    \* __post_init__
    /\ \A e \in Entries : window[e] > 0 => check[e] <= window[e] /\ window[e] <= max_age[e]
    /\ Gated \subseteq Entries
    /\ LegacyKeys \subseteq SlotKeys /\ \A k \in LegacyKeys : interval[k[1]] = 0
    /\ max_age \in [Entries -> Nat \ {0}] /\ TicksPerMinute \in Nat \ {0} /\ LoopSleep \in Nat
    /\ MaxCycle \in Nat /\ MaxRestart \in Nat /\ LastMinute \in Nat
    /\ MaxLegacy \in Nat /\ MaxFaults \in Nat

VARIABLES
    ticks,      \* the clock
    jobs,       \* [SlotKeys -> the jobs with the key's dedupe key, oldest first]
    slot_job,   \* [SlotKeys -> which of them the slot refers to, 0 without slot]
    enabled,    \* [Entries -> the policy of a gated entry is enabled]
    pc,         \* [Schedulers -> what the process is doing]
    moment,     \* [Schedulers -> the tick at which its cycle began]
    entry,      \* [Schedulers -> position in EntryOrder]
    wake,       \* [Schedulers -> tick at which it has to go on]
    faults      \* crashes so far

vars == <<ticks, jobs, slot_job, enabled, pc, moment, entry, wake, faults>>

JobRow == [by : {"slot", "legacy"}, active : BOOLEAN]
Done == Len(EntryOrder) + 1

ScheduleTypeOK ==
    /\ ticks \in 0..((LastMinute + 1) * TicksPerMinute)
    /\ jobs \in [SlotKeys -> Seq(JobRow)]
    /\ slot_job \in [SlotKeys -> Nat]
    /\ \A k \in SlotKeys : slot_job[k] <= Len(jobs[k])
    /\ enabled \in [Entries -> BOOLEAN]
    /\ pc \in [Schedulers -> {"asleep", "lookup", "reserve", "finish", "down"}]
    /\ moment \in [Schedulers -> Nat]
    /\ entry \in [Schedulers -> 1..Done]
    /\ wake \in [Schedulers -> Nat]
    /\ faults \in Nat

Init ==
    /\ ticks = 0
    /\ jobs = [k \in SlotKeys |-> << >>]
    /\ slot_job = [k \in SlotKeys |-> 0]
    /\ enabled = [e \in Entries |-> TRUE]
    /\ pc = [p \in Schedulers |-> "asleep"]
    /\ moment = [p \in Schedulers |-> 0]
    /\ entry = [p \in Schedulers |-> Done]
    /\ wake = [p \in Schedulers |-> 0]
    /\ faults = 0
-------------------------------------------------------------------------------
MinuteOf(tick) == tick \div TicksPerMinute

Matches == [e \in Entries |-> {m \in Minutes : CronMatches(cron[e], civil[m])}]

\* ScheduleEntry.slot
SlotAt(e, minute) ==
    IF interval[e] > 0 THEN IntervalSlot(minute, interval[e])
    ELSE CronSlot(Matches[e], minute, window[e], check[e])

\* The next entry that was due when the cycle began, from position i on.
NextDue(tick, i) ==
    LET due == {k \in i..Len(EntryOrder) : SlotAt(EntryOrder[k], MinuteOf(tick)) # NoSlot}
    IN  IF due = {} THEN Done ELSE CHOOSE k \in due : \A n \in due : k <= n

\* The slot that process p is enqueueing.
KeyOf(p) == LET e == EntryOrder[entry[p]] IN <<e, SlotAt(e, MinuteOf(moment[p]))>>

\* Arguments and policy are checked before anything is looked up.  A source
\* family that is disabled is not an error: it enqueues nothing.
TooOld(k) == k[2] * TicksPerMinute < ticks - max_age[k[1]] * TicksPerMinute
Available(e) == e \in Gated => enabled[e]
Refused(k) ==
    \/ interval[k[1]] = 0 /\ (TooOld(k) \/ ~Available(k[1]))
    \/ interval[k[1]] > 0 /\ TooOld(k) /\ Available(k[1])

ActiveJob(k) == \E i \in DOMAIN jobs[k] : jobs[k][i].active

\* Process p goes on with the due entry i, if there is one.
GoOn(p, i) ==
    /\ entry' = [entry EXCEPT ![p] = i]
    /\ pc' = [pc EXCEPT ![p] = IF i = Done THEN "finish" ELSE "lookup"]

Proceed(p) == GoOn(p, NextDue(moment[p], entry[p] + 1)) /\ UNCHANGED <<moment, wake>>

\* An exception ends the cycle and, in the entrypoint, the container.
Fall(p) ==
    /\ pc' = [pc EXCEPT ![p] = "down"]
    /\ entry' = [entry EXCEPT ![p] = Done]
    /\ moment' = [moment EXCEPT ![p] = 0]
    /\ wake' = [wake EXCEPT ![p] = ticks + MaxRestart]
-------------------------------------------------------------------------------
\* Bodies with one plausible mistake each; no action uses them.

\* A reservation that replaces the slot's row instead of respecting it.
ReserveAgain(p) ==
    LET k == KeyOf(p)
    IN  /\ pc[p] = "reserve"
        /\ ~ActiveJob(k)
        /\ jobs' = [jobs EXCEPT ![k] = Append(@, [by |-> "slot", active |-> TRUE])]
        /\ slot_job' = [slot_job EXCEPT ![k] = Len(jobs[k]) + 1]
        /\ Proceed(p)
        /\ UNCHANGED <<ticks, enabled, faults>>

-------------------------------------------------------------------------------
\* One scheduler command: the due entries are computed once, from one clock
\* reading.
StartCycle(p) ==
    /\ pc[p] = "asleep" /\ wake[p] <= ticks
    /\ moment' = [moment EXCEPT ![p] = ticks]
    /\ wake' = [wake EXCEPT ![p] = ticks + MaxCycle]
    /\ GoOn(p, NextDue(ticks, 1))
    /\ UNCHANGED <<ticks, jobs, slot_job, enabled, faults>>

\* The command and what the entrypoint runs after it are done; it sleeps.
EndCycle(p) ==
    /\ pc[p] = "finish"
    /\ pc' = [pc EXCEPT ![p] = "asleep"]
    /\ wake' = [wake EXCEPT ![p] = ticks + LoopSleep]
    /\ UNCHANGED <<ticks, jobs, slot_job, enabled, moment, entry, faults>>

\* The first statement that counts: is there a job with the slot's key?  If
\* so its slot is recorded, unless there is one already.
Lookup(p) ==
    LET k == KeyOf(p)
    IN  /\ pc[p] = "lookup" /\ interval[k[1]] = 0
        /\ ~Refused(k)
        /\ IF jobs[k] = << >>
           THEN /\ pc' = [pc EXCEPT ![p] = "reserve"]
                /\ UNCHANGED <<slot_job, moment, entry, wake>>
           ELSE /\ slot_job' = [slot_job EXCEPT ![k] = IF @ = 0 THEN 1 ELSE @]
                /\ Proceed(p)
        /\ UNCHANGED <<ticks, jobs, enabled, faults>>

\* insert ... on conflict do nothing: the slot and its job, or neither.
Reserve(p) ==
    LET k == KeyOf(p)
    IN  /\ pc[p] = "reserve"
        /\ \/ slot_job[k] # 0 /\ UNCHANGED <<jobs, slot_job>>
           \/ /\ slot_job[k] = 0 /\ ~ActiveJob(k)
              /\ jobs' = [jobs EXCEPT ![k] = Append(@, [by |-> "slot", active |-> TRUE])]
              /\ slot_job' = [slot_job EXCEPT ![k] = Len(jobs[k]) + 1]
        /\ Proceed(p)
        /\ UNCHANGED <<ticks, enabled, faults>>

\* enqueue_source_family_v1 has no slots: an advisory lock makes its lookup and
\* its insert one step.
EnqueueFamily(p) ==
    LET k == KeyOf(p)
    IN  /\ pc[p] = "lookup" /\ interval[k[1]] > 0
        /\ ~Refused(k)
        /\ jobs' = IF Available(k[1]) /\ jobs[k] = << >>
                   THEN [jobs EXCEPT ![k] = << [by |-> "slot", active |-> TRUE] >>]
                   ELSE jobs
        /\ Proceed(p)
        /\ UNCHANGED <<ticks, slot_job, enabled, faults>>

\* jobs_active_dedupe_uidx: the key is taken by an active job without slot.
Collide(p) ==
    /\ pc[p] = "reserve"
    /\ slot_job[KeyOf(p)] = 0 /\ ActiveJob(KeyOf(p))
    /\ Fall(p)
    /\ UNCHANGED <<ticks, jobs, slot_job, enabled, faults>>

\* The database refuses the slot; the entries behind it are not tried.
Refuse(p) ==
    /\ pc[p] = "lookup"
    /\ Refused(KeyOf(p))
    /\ Fall(p)
    /\ UNCHANGED <<ticks, jobs, slot_job, enabled, faults>>

Crash(p) ==
    /\ pc[p] \notin {"asleep", "down"}
    /\ faults < MaxFaults
    /\ faults' = faults + 1
    /\ Fall(p)
    /\ UNCHANGED <<ticks, jobs, slot_job, enabled>>

\* restart: unless-stopped
Restart(p) ==
    /\ pc[p] = "down"
    /\ pc' = [pc EXCEPT ![p] = "asleep"]
    /\ wake' = [wake EXCEPT ![p] = ticks]
    /\ UNCHANGED <<ticks, jobs, slot_job, enabled, moment, entry, faults>>

\* An older scheduler wrote the key with enqueue_job_v1, which returns the
\* active job of that key if there is one.
LegacyEnqueue(k) ==
    /\ k[2] * TicksPerMinute <= ticks
    /\ ~ActiveJob(k)
    /\ Cardinality({i \in DOMAIN jobs[k] : jobs[k][i].by = "legacy"}) < MaxLegacy
    /\ jobs' = [jobs EXCEPT ![k] = Append(@, [by |-> "legacy", active |-> TRUE])]
    /\ UNCHANGED <<ticks, slot_job, enabled, pc, moment, entry, wake, faults>>

\* A worker settles the job.  Only then may its key be used by another job, so
\* this matters for the keys that older schedulers use.
JobEnds(k) ==
    /\ \E i \in DOMAIN jobs[k] :
          /\ jobs[k][i].active
          /\ jobs' = [jobs EXCEPT ![k][i].active = FALSE]
    /\ UNCHANGED <<ticks, slot_job, enabled, pc, moment, entry, wake, faults>>

\* admin source.disable
Disable(e) ==
    /\ enabled[e]
    /\ enabled' = [enabled EXCEPT ![e] = FALSE]
    /\ UNCHANGED <<ticks, jobs, slot_job, pc, moment, entry, wake, faults>>

\* Time passes until some process has to go on.
Advance ==
    /\ ticks < (LastMinute + 1) * TicksPerMinute - 1
    /\ \A p \in Schedulers : ticks < wake[p]
    /\ ticks' = ticks + 1
    /\ UNCHANGED <<jobs, slot_job, enabled, pc, moment, entry, wake, faults>>

Next ==
    \/ \E p \in Schedulers :
          \/ StartCycle(p) \/ EndCycle(p) \/ Lookup(p) \/ Reserve(p)
          \/ EnqueueFamily(p) \/ Collide(p) \/ Refuse(p) \/ Crash(p) \/ Restart(p)
    \/ \E k \in LegacyKeys : LegacyEnqueue(k) \/ JobEnds(k)
    \/ \E e \in Gated : Disable(e)
    \/ Advance

Spec == Init /\ [][Next]_vars
-------------------------------------------------------------------------------
(* However many schedulers look, race, crash and run again: a slot has at   *)
(* most one scheduled job, and it has none that the slot does not refer to. *)
ScheduledJobs(k) == {i \in DOMAIN jobs[k] : jobs[k][i].by = "slot"}
OneJobPerSlot ==
    \A k \in SlotKeys :
        IF interval[k[1]] = 0 THEN ScheduledJobs(k) \subseteq {slot_job[k]}
                              ELSE Len(jobs[k]) <= 1

(* The job that a slot was reserved for, or that it adopted, stays its job  *)
(* also after it was settled: the slot is not enqueued again.               *)
SlotKeepsJob ==
    [][\A k \in SlotKeys : slot_job[k] # 0 => slot_job'[k] = slot_job[k]]_vars

(* Minutes at which some cycle can deliver slot m of entry e: from the      *)
(* first check that sees it to the end of its window or its successor.      *)
FirstCheck(e, m) == IF m % check[e] = 0 THEN m ELSE FloorTo(m, check[e]) + check[e]
LastCheck(e, m) ==
    LET later == {n \in Matches[e] : m < n /\ n <= m + window[e]}
    IN  IF later = {} THEN m + window[e]
        ELSE (CHOOSE n \in later : \A i \in later : n <= i) - 1

(* Catch-up: no slot of an entry with catch-up is lost whose window leaves  *)
(* the loop time for one undisturbed cycle, whatever the phase of the loop, *)
(* although a crash, or the kill switch of another entry, fails cycles.     *)
CatchUpServes ==
    \A e \in Entries : \A m \in Matches[e] :
        LET last == LastCheck(e, m)
        IN  (/\ interval[e] = 0 /\ window[e] > 0 /\ enabled[e]
             /\ (last - FirstCheck(e, m)) * TicksPerMinute > LoopSleep + MaxCycle + MaxRestart
             /\ ticks > (last + 1) * TicksPerMinute)
                => slot_job[<<e, m>>] # 0

(* A scheduler only fails for a reason outside of its calendar: a crash, a  *)
(* kill switch, or the job of an older scheduler that holds the slot's key. *)
(* In particular no slot it computes is too old to be taken by the time it  *)
(* is enqueued.                                                             *)
HeldByLegacy(k) == \E i \in DOMAIN jobs[k] : jobs[k][i].by = "legacy" /\ jobs[k][i].active
OnlyKillSwitchFails ==
    [][\A p \in Schedulers :
          (pc'[p] = "down" /\ pc[p] # "down" /\ faults' = faults) =>
              ~enabled[EntryOrder[entry[p]]] \/ HeldByLegacy(KeyOf(p))]_vars

===============================================================================
