---------------------------- MODULE BrowserProfile -----------------------------
(***************************************************************************)
(* The one persistent browser of the authenticated browser service: the     *)
(* commands start-profile and stop-profile, the container's supervisor, the *)
(* lifetime flock a browser inherits, and the state file that names the     *)
(* running process by pid and boot-scoped start time                        *)
(* (services/auth-browser: manager.py, runtime.py, container_browser.py).    *)
(*                                                                         *)
(* Commands are processes of their own.  Only the flock is atomic: the      *)
(* state file is read, judged and removed in separate steps.  The kernel    *)
(* gives the pid of an exited process to any later one, a browser or not.   *)
(*                                                                         *)
(* A process is stopped through a pidfd where the platform has them, and    *)
(* otherwise by its bare pid, some time after its identity was checked.     *)
(* Neither waits for the end of a process that it kills, and a signal may   *)
(* be refused; a start that fails gives the lock up all the same.           *)
(***************************************************************************)
EXTENDS Integers, FiniteSets

CONSTANTS
    Managers,       \* processes that run a command of the service
    ProfileNames,       \* allowed profile names
    Pids,           \* process ids
    MaxProcs,       \* bound of the processes ever started
    MaxDeaths       \* bound of the managers killed

ASSUME ProfileAssumption ==
    /\ MaxProcs \in Nat
    \* both are names of open copies of the lock's descriptor
    /\ Managers \cap 0 .. MaxProcs = {}

VARIABLES
    procs,          \* [1 .. MaxProcs -> process], numbered in start order
    record,         \* state.json
    flockHeld,      \* open copies of the lock's descriptor, {} when unlocked
    manager,        \* [Managers -> the command it is in]
    strays,         \* browsers of failed starts that outlived their lock
    pidfds,         \* the platform has pidfd_open and pidfd_send_signal
    deaths

profileVars == <<procs, record, flockHeld, manager, strays, pidfds, deaths>>

\* signalled: how a program that is no browser was signalled, "checked" when it
\* existed when the signalled process was identified, "late" when not.
Unborn == [kind |-> "none", pid |-> 0, alive |-> FALSE, signalled |-> "no"]
NothingRecorded == [profile |-> "none", pid |-> 0, identity |-> 0]
\* What a stopper works on (the process it saw, whether it has to kill it, the
\* programs there were when it was identified) and what follows.
Resting == [at |-> "rest", profile |-> "none", seen |-> NothingRecorded, child |-> 0,
            supervises |-> FALSE, force |-> FALSE, since |-> 0, then |-> "erase"]

ProfileInit ==
    /\ procs = [i \in 1 .. MaxProcs |-> Unborn]
    /\ record = NothingRecorded
    /\ flockHeld = {}
    /\ manager = [m \in Managers |-> Resting]
    /\ strays = {} /\ pidfds \in BOOLEAN
    /\ deaths = 0

At(m, where) == manager[m].at = where
Goes(m, where) == manager' = [manager EXCEPT ![m].at = where]
Rests(m) == manager' = [manager EXCEPT ![m] = Resting]

(* The process that has the pid now.                                       *)
Under(pid) == {i \in 1 .. MaxProcs : procs[i].alive /\ procs[i].pid = pid}

(* A recorded process is identified by its pid and its start time.         *)
SameProcess(rec) == rec.identity \in Under(rec.pid)

(* The processes of S are signalled, identified when there were n of them. *)
Signalled(S, n) ==
    [i \in 1 .. MaxProcs |->
        IF i \in S /\ procs[i].kind # "browser"
            THEN [procs[i] EXCEPT !.signalled = IF i <= n THEN "checked" ELSE "late"]
            ELSE procs[i]]

----------------------------------------------------------------------------
(* start-profile, and the supervisor that calls it.                        *)

(* A live recorded process refuses the start; a stale record is removed in  *)
(* a later step.                                                           *)
StartReads(m, p, supervises) ==
    /\ At(m, "rest")
    /\ ~(record # NothingRecorded /\ SameProcess(record))
    /\ manager' = [manager EXCEPT ![m] =
          [Resting EXCEPT !.at = IF record = NothingRecorded THEN "acquire" ELSE "unrecord",
                          !.profile = p, !.supervises = supervises]]
    /\ UNCHANGED <<procs, record, flockHeld, strays, pidfds, deaths>>

Unrecord(m) ==
    /\ At(m, "unrecord")
    /\ record' = NothingRecorded /\ Goes(m, "acquire")
    /\ UNCHANGED <<procs, flockHeld, strays, pidfds, deaths>>

Acquire(m) ==
    /\ At(m, "acquire")
    /\ \/ flockHeld = {} /\ flockHeld' = {m} /\ Goes(m, "spawn")
       \/ flockHeld # {} /\ UNCHANGED flockHeld /\ Rests(m)
    /\ UNCHANGED <<procs, record, strays, pidfds, deaths>>

HowMany == Cardinality({j \in 1 .. MaxProcs : procs[j] # Unborn})

Born(i, kind, pid) ==
    /\ i = HowMany + 1 /\ Under(pid) = {}
    /\ procs' = [procs EXCEPT ![i] = [kind |-> kind, pid |-> pid, alive |-> TRUE, signalled |-> "no"]]

(* The child inherits the lock's descriptor.                               *)
Spawn(m, i, pid) ==
    /\ At(m, "spawn") /\ Born(i, "browser", pid)
    /\ flockHeld' = flockHeld \cup {i}
    /\ manager' = [manager EXCEPT ![m].at = "write", ![m].child = i]
    /\ UNCHANGED <<record, strays, pidfds, deaths>>

StateOf(m) ==
    [profile |-> manager[m].profile, pid |-> procs[manager[m].child].pid, identity |-> manager[m].child]

WriteState(m) ==
    /\ At(m, "write") /\ procs[manager[m].child].alive
    /\ record' = StateOf(m)
    /\ Goes(m, "transfer")
    /\ UNCHANGED <<procs, flockHeld, strays, pidfds, deaths>>

(* The parent closes its copy without unlocking.                           *)
ClosedUnlocking(m) == {}
Closed(m) == flockHeld \ {m}

Transfer(m) ==
    /\ At(m, "transfer")
    /\ flockHeld' = Closed(m)
    /\ IF manager[m].supervises THEN Goes(m, "watch") ELSE Rests(m)
    /\ UNCHANGED <<procs, record, strays, pidfds, deaths>>

(* A start fails when there is no child, when the child has no identity or  *)
(* while the record is written, before or after it is in its place.  Then   *)
(* the child is stopped like any recorded process; one without an identity  *)
(* (it may have gone) is killed and not waited for.                         *)
SpawnFails(m) ==
    /\ At(m, "spawn") /\ Goes(m, "unlock")
    /\ UNCHANGED <<procs, record, flockHeld, strays, pidfds, deaths>>

StartFails(m) ==
    /\ At(m, "write")
    /\ record' \in {record, StateOf(m)}
    /\ LET child == manager[m].child IN
       \/ /\ procs[child].alive /\ UNCHANGED procs
          /\ manager' = [manager EXCEPT ![m].at = "signal", ![m].seen = StateOf(m), ![m].then = "unlock"]
       \/ UNCHANGED procs /\ Goes(m, "unlock")
    /\ UNCHANGED <<flockHeld, strays, pidfds, deaths>>

(* Whatever the stopper came to, the lock is given up, for the child's copy *)
(* of the descriptor as well.                                              *)
Unlock_(m) ==
    /\ At(m, "unlock")
    /\ flockHeld' = {} /\ strays' = strays \cup {i \in {manager[m].child} \ {0} : procs[i].alive}
    /\ Rests(m)
    /\ UNCHANGED <<procs, record, pidfds, deaths>>

----------------------------------------------------------------------------
(* stop-profile: the record is judged, the process signalled and awaited,   *)
(* and the record removed.                                                 *)
Stops(m) ==
    manager' = [manager EXCEPT ![m] =
        IF SameProcess(record) THEN [Resting EXCEPT !.at = "signal", !.seen = record]
        ELSE [Resting EXCEPT !.at = "erase"]]

StopReads(m, p) ==
    /\ At(m, "rest") /\ record.profile = p /\ Stops(m)
    /\ UNCHANGED <<procs, record, flockHeld, strays, pidfds, deaths>>

Done(m) ==
    manager' = [manager EXCEPT ![m].at = manager[m].then, ![m].seen = NothingRecorded,
                               ![m].force = FALSE, ![m].since = 0]
AfterSignal(m) ==
    IF manager[m].force THEN Done(m)
    ELSE manager' = [manager EXCEPT ![m].at = "await", ![m].since = 0]

(* The pidfd pins whatever has the pid, so that the process it signals is   *)
(* the one that it checks.  Without it the check comes first.               *)
Signal(m) ==
    /\ At(m, "signal")
    /\ LET seen == manager[m].seen IN
       \/ /\ SameProcess(seen) => pidfds
          /\ UNCHANGED procs /\ Done(m)
       \/ /\ pidfds /\ SameProcess(seen)
          /\ procs' = Signalled(Under(seen.pid), HowMany) /\ AfterSignal(m)
       \/ /\ ~pidfds /\ SameProcess(seen)
          /\ UNCHANGED procs
          /\ manager' = [manager EXCEPT ![m].at = "strike", ![m].since = HowMany]
    /\ UNCHANGED <<record, flockHeld, strays, pidfds, deaths>>

(* os.kill signals whatever has the pid by now, if anything has and the     *)
(* kernel lets it.                                                         *)
Strike(m) ==
    /\ At(m, "strike")
    /\ \/ UNCHANGED procs /\ Done(m)
       \/ /\ Under(manager[m].seen.pid) # {}
          /\ procs' = Signalled(Under(manager[m].seen.pid), manager[m].since)
          /\ AfterSignal(m)
    /\ UNCHANGED <<record, flockHeld, strays, pidfds, deaths>>

(* The process has gone, or is to be killed when the wait is over.          *)
Await(m) ==
    /\ At(m, "await")
    /\ \/ /\ ~SameProcess(manager[m].seen) /\ Done(m)
       \/ /\ SameProcess(manager[m].seen)
          /\ manager' = [manager EXCEPT ![m].at = "signal", ![m].force = TRUE]
    /\ UNCHANGED <<procs, record, flockHeld, strays, pidfds, deaths>>

EraseState(m) ==
    /\ At(m, "erase")
    /\ record' = NothingRecorded /\ Rests(m)
    /\ UNCHANGED <<procs, flockHeld, strays, pidfds, deaths>>

----------------------------------------------------------------------------
(* The supervisor polls until it is told to stop or its child is no longer  *)
(* the recorded, running process; then it stops the recorded profile if     *)
(* that has its own name.                                                  *)
Watched(m) == record = StateOf(m) /\ SameProcess(record)

StopsWatching(m) ==
    manager' = [manager EXCEPT ![m] =
        [Resting EXCEPT !.at = "leave", !.profile = manager[m].profile]]

PollFails(m) ==
    /\ At(m, "watch") /\ ~Watched(m) /\ StopsWatching(m)
    /\ UNCHANGED <<procs, record, flockHeld, strays, pidfds, deaths>>

StopAsked(m) ==
    /\ At(m, "watch") /\ StopsWatching(m)
    /\ UNCHANGED <<procs, record, flockHeld, strays, pidfds, deaths>>

SupervisorLeaves(m) ==
    /\ At(m, "leave")
    /\ IF record.profile = manager[m].profile THEN Stops(m) ELSE Rests(m)
    /\ UNCHANGED <<procs, record, flockHeld, strays, pidfds, deaths>>

----------------------------------------------------------------------------
(* A process ends when it is told to, a while after it was killed, or on    *)
(* its own; other programs start; a manager is killed between any two       *)
(* steps.                                                                  *)
Exits(i) ==
    /\ procs[i].alive
    /\ procs' = [procs EXCEPT ![i].alive = FALSE]
    /\ flockHeld' = flockHeld \ {i} /\ strays' = strays \ {i}
    /\ UNCHANGED <<record, manager, pidfds, deaths>>

OtherStarts(i, pid) ==
    /\ Born(i, "other", pid)
    /\ UNCHANGED <<record, flockHeld, manager, strays, pidfds, deaths>>

Killed(m) ==
    /\ ~At(m, "rest") /\ deaths < MaxDeaths
    /\ deaths' = deaths + 1 /\ Rests(m)
    /\ flockHeld' = flockHeld \ {m}
    /\ UNCHANGED <<procs, record, strays, pidfds>>

ProfileNext ==
    \/ \E m \in Managers :
       \/ \E p \in ProfileNames : (\E s \in BOOLEAN : StartReads(m, p, s)) \/ StopReads(m, p)
       \/ Unrecord(m) \/ Acquire(m) \/ WriteState(m) \/ Transfer(m) \/ SpawnFails(m) \/ StartFails(m)
       \/ Unlock_(m)
       \/ \E i \in 1 .. MaxProcs, pid \in Pids : Spawn(m, i, pid)
       \/ Signal(m) \/ Strike(m) \/ Await(m) \/ EraseState(m)
       \/ PollFails(m) \/ StopAsked(m) \/ SupervisorLeaves(m)
       \/ Killed(m)
    \/ \E i \in 1 .. MaxProcs : Exits(i) \/ \E pid \in Pids : OtherStarts(i, pid)

ProfileSpec == ProfileInit /\ [][ProfileNext]_profileVars

----------------------------------------------------------------------------
(* Types: the record names a profile and a browser that was really started  *)
(* for it under that pid.                                                  *)
ProfileTypeOK ==
    /\ \A i \in 1 .. MaxProcs : procs[i].kind \in {"none", "browser", "other"}
    /\ flockHeld \subseteq Managers \cup 1 .. MaxProcs
    /\ strays \subseteq {i \in 1 .. MaxProcs : procs[i].kind = "browser"}
    /\ record # NothingRecorded =>
          /\ record.profile \in ProfileNames
          /\ procs[record.identity].kind = "browser" /\ procs[record.identity].pid = record.pid
    /\ \A m \in Managers : manager[m].profile \in ProfileNames \cup {"none"}

(* At most one browser is running, whichever managers start, stop, fail or  *)
(* are killed, whatever happens to the state file and however long a killed *)
(* browser takes to end: the lock outlives the manager that took it, and    *)
(* stop-profile never gives it up.  The one exception: a start that failed  *)
(* unlocks for its child too, which may not have ended.                     *)
OneBrowser ==
    Cardinality({i \in 1 .. MaxProcs : procs[i].kind = "browser" /\ procs[i].alive} \ strays) <= 1

(* No manager signals a program that is not a browser of its own service,   *)
(* although the pid it recorded may have been given away long ago.  Only    *)
(* where there are no pidfds may the pid change hands between the check and *)
(* the kill, and then to a program that did not exist at the check.         *)
OnlyBrowsersSignalled ==
    \A i \in 1 .. MaxProcs :
        /\ procs[i].signalled # "checked"
        /\ procs[i].signalled = "late" => ~pidfds

(* One browser at a time, and no signal to anything else.                   *)
ProfileInv == ProfileTypeOK /\ OneBrowser /\ OnlyBrowsersSignalled
===============================================================================
