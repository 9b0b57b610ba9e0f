------------------------------ MODULE AdapterSlot ------------------------------
(***************************************************************************)
(* Running an OpenCLI adapter: the one execution slot (a flock), the time    *)
(* each adapter last ran (opencli-schedule.json), the bounded version and   *)
(* command processes, and a runner that is killed on the way                *)
(* (services/auth-browser: runner.py, adapters.py).                         *)
(*                                                                         *)
(* A process has a session of its own: it outlives a killed runner, while   *)
(* the runner's lock is gone with its descriptors.                          *)
(***************************************************************************)
EXTENDS Integers, FiniteSets

CONSTANTS
    SlotRunners,        \* run-opencli commands
    Adapters,       \* allowlisted adapters
    Browserless,    \* the adapters that need no browser
    SlotInterval,   \* min_interval_seconds of every adapter
    SlotTimeout,    \* timeout_seconds of every adapter
    SlotEnd,        \* bound of the clock
    MaxKills        \* bound of the runners killed

NoRunner == "nobody"

ASSUME SlotAssumption ==
    /\ NoRunner \notin SlotRunners
    /\ {SlotInterval, SlotTimeout, SlotEnd} \subseteq Nat

VARIABLES
    slotClock,
    slotLock,       \* the runner that holds opencli.lock, or NoRunner
    schedule,       \* opencli-schedule.json: [Adapters -> time of the last run, or Never]
    running,           \* [SlotRunners -> the run it is in]
    orphans,        \* adapters whose process lost its runner
    ended,          \* [Adapters -> when a run of it last ended in an orderly way]
    kills

slotVars == <<slotClock, slotLock, schedule, running, orphans, ended, kills>>

Never == -1
NoAdapterRun == [at |-> "none"]

SlotInit ==
    /\ slotClock = 0
    /\ slotLock = NoRunner
    /\ schedule = [a \in Adapters |-> Never]
    /\ running = [r \in SlotRunners |-> NoAdapterRun]
    /\ orphans = {}
    /\ ended = [a \in Adapters |-> Never]
    /\ kills = 0

(* The argv is rendered from a valid descriptor, the query fits it, and the *)
(* adapter's own profile is the active one.                                *)
Renders(a) == a \in Adapters
BrowserReady(a, active) == a \in Browserless \/ active = a

Rested(a) == schedule[a] = Never \/ slotClock - schedule[a] >= SlotInterval

Free(a) == slotLock = NoRunner

(* The lock is tried once; the schedule is read under it.                  *)
Enter(r, a, active) ==
    /\ running[r] = NoAdapterRun /\ Renders(a) /\ BrowserReady(a, active)
    /\ Free(a) /\ Rested(a)
    /\ slotLock' = r
    /\ running' = [running EXCEPT ![r] = [at |-> "version", adapter |-> a, read |-> schedule, since |-> slotClock]]
    /\ UNCHANGED <<slotClock, schedule, orphans, ended, kills>>

(* One bounded process ends: well, badly, or killed at its limits.  The     *)
(* command follows a version that was printed.                             *)
VersionPrinted(r) ==
    /\ running[r].at = "version"
    /\ running' = [running EXCEPT ![r].at = "command", ![r].since = slotClock]
    /\ UNCHANGED <<slotClock, slotLock, schedule, orphans, ended, kills>>

EndsWell(r) == running[r].at = "command"
EndsBadly(r) == running[r].at \in {"version", "command"}

ProcessEnds(r) ==
    /\ EndsWell(r) \/ EndsBadly(r)
    /\ running' = [running EXCEPT ![r].at = "done"]
    /\ ended' = [ended EXCEPT ![running[r].adapter] = slotClock]
    /\ UNCHANGED <<slotClock, slotLock, schedule, orphans, kills>>

(* Whatever became of the run, its end is the adapter's new time; the file  *)
(* is what was read under the lock, with this one entry changed.           *)
RescheduledAlone(r) == [[a \in Adapters |-> Never] EXCEPT ![running[r].adapter] = slotClock]
Rescheduled(r) == [running[r].read EXCEPT ![running[r].adapter] = slotClock]

FinishRun(r) ==
    /\ running[r].at = "done"
    /\ schedule' = Rescheduled(r)
    /\ slotLock' = NoRunner
    /\ running' = [running EXCEPT ![r] = NoAdapterRun]
    /\ UNCHANGED <<slotClock, orphans, ended, kills>>

RunnerKilled(r) ==
    /\ running[r] # NoAdapterRun /\ kills < MaxKills
    /\ kills' = kills + 1
    /\ slotLock' = NoRunner
    /\ orphans' = IF running[r].at = "done" THEN orphans ELSE orphans \cup {running[r].adapter}
    /\ ended' = [ended EXCEPT ![running[r].adapter] = Never]
    /\ running' = [running EXCEPT ![r] = NoAdapterRun]
    /\ UNCHANGED <<slotClock, schedule>>

OrphanEnds(a) ==
    /\ a \in orphans /\ orphans' = orphans \ {a}
    /\ UNCHANGED <<slotClock, slotLock, schedule, running, ended, kills>>

(* A process is cut off at its timeout.                                    *)
Overdue(r) == running[r].at \in {"version", "command"} /\ slotClock - running[r].since >= SlotTimeout

SlotTick ==
    /\ slotClock < SlotEnd /\ \A r \in SlotRunners : ~Overdue(r)
    /\ slotClock' = slotClock + 1
    /\ UNCHANGED <<slotLock, schedule, running, orphans, ended, kills>>

SlotNext ==
    \/ SlotTick
    \/ \E r \in SlotRunners :
       \/ \E a \in Adapters : \E active \in Adapters : Enter(r, a, active)
       \/ VersionPrinted(r) \/ ProcessEnds(r) \/ FinishRun(r) \/ RunnerKilled(r)
    \/ \E a \in Adapters : OrphanEnds(a)

SlotSpec == SlotInit /\ [][SlotNext]_slotVars

----------------------------------------------------------------------------
(* Types: no time is of the future, and no process outlives its timeout    *)
(* under a living runner.                                                  *)
SlotTypeOK ==
    /\ slotClock \in 0 .. SlotEnd /\ slotLock \in SlotRunners \cup {NoRunner}
    /\ \A a \in Adapters : schedule[a] \in {Never} \cup 0 .. slotClock
    /\ \A r \in SlotRunners : Overdue(r) => slotClock - running[r].since = SlotTimeout
    /\ orphans \subseteq Adapters

(* Adapters run one at a time: no two living runners have a process.       *)
OneAdapterAtATime == Cardinality({r \in SlotRunners : running[r].at \in {"version", "command"}}) <= 1

(* An adapter never starts within its minimum interval after its last run   *)
(* ended, failed ones included, whatever other adapters did in between; a   *)
(* runner that was killed left no time behind.                             *)
Spaced ==
    \A r \in SlotRunners : running[r].at = "version" =>
        LET last == ended[running[r].adapter]
        IN  last = Never \/ running[r].since - last >= SlotInterval

(* Adapters take turns, and each keeps its interval.                        *)
SlotInv == SlotTypeOK /\ OneAdapterAtATime /\ Spaced
===============================================================================
