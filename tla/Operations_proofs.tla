---------------------------- MODULE Operations_proofs ---------------------------
(***************************************************************************)
(* Proofs about the parts that keep the system running, for every value of *)
(* their constants: the one slot of the adapter runners, the one browser   *)
(* of the profile managers, the runner of database migrations with the     *)
(* scanners it reads them with, and the backups with their marker.  The    *)
(* parts share nothing, so each has an inductive invariant of its own: its *)
(* lock, file or ledger, related to what the processes are at.             *)
(***************************************************************************)
EXTENDS AdapterSlot, BackupRun, BrowserProfile, MigrationRunner, MigrationText,
        FiniteSetTheorems, WellFoundedInduction, TLAPS
-------------------------------------------------------------------------------
(* Adapter slot.  A run is the lock holder's, what it read is still the    *)
(* schedule, and the schedule knows every end but that of the run itself.  *)

SlotTimes == {Never} \cup 0..slotClock
AdapterRun ==
    [at : {"version", "command", "done"}, adapter : Adapters,
     read : [Adapters -> SlotTimes], since : 0..slotClock]

SlotTypes ==
    /\ slotClock \in 0..SlotEnd /\ slotLock \in SlotRunners \cup {NoRunner}
    /\ schedule \in [Adapters -> SlotTimes] /\ ended \in [Adapters -> SlotTimes]
    /\ orphans \subseteq Adapters
    /\ running \in [SlotRunners -> AdapterRun \cup {NoAdapterRun}]

InProcess(r) == running[r].at \in {"version", "command"}

RunsUnderLock ==
    \A r \in SlotRunners : running[r] # NoAdapterRun =>
        /\ slotLock = r /\ running[r].read = schedule
        /\ InProcess(r) => slotClock - running[r].since <= SlotTimeout

EndsAreScheduled ==
    \A a \in Adapters : ended[a] # Never =>
        \/ ended[a] <= schedule[a]
        \/ \E r \in SlotRunners : running[r].at = "done" /\ running[r].adapter = a

SlotIInv == SlotTypes /\ RunsUnderLock /\ EndsAreScheduled /\ Spaced

LEMMA RunAtLeast ==
    ASSUME SlotTypes, NEW r \in SlotRunners
    PROVE  /\ running[r] = NoAdapterRun <=> running[r].at = "none"
           /\ running[r] # NoAdapterRun => running[r] \in AdapterRun
<1>1. running[r] \in AdapterRun \cup {NoAdapterRun}
    BY DEF SlotTypes
<1>2. NoAdapterRun.at = "none"
    BY DEF NoAdapterRun
<1> QED BY <1>1, <1>2 DEF AdapterRun

\* While a runner runs, no other does.
LEMMA OthersAreOut ==
    ASSUME SlotIInv, NEW r \in SlotRunners, running[r] # NoAdapterRun
    PROVE  \A q \in SlotRunners \ {r} : running[q] = NoAdapterRun
BY DEF SlotIInv, RunsUnderLock

LEMMA SlotInitial == SlotInit => SlotIInv
<1> SUFFICES ASSUME SlotInit PROVE SlotIInv
    OBVIOUS
<1>1. SlotTypes
    BY SlotAssumption DEF SlotInit, SlotTypes, SlotTimes
<1>2. RunsUnderLock /\ EndsAreScheduled
    BY DEF SlotInit, RunsUnderLock, EndsAreScheduled
<1>3. Spaced
    BY DEF SlotInit, Spaced, NoAdapterRun
<1> QED BY <1>1, <1>2, <1>3 DEF SlotIInv

\* The lock is free only if nobody runs, and otherwise one runner does.
LEMMA EnterKeeps ==
    ASSUME SlotIInv, NEW r \in SlotRunners, NEW a \in Adapters, NEW active, Enter(r, a, active)
    PROVE  SlotIInv'
<1> USE SlotAssumption
<1>1. \A q \in SlotRunners : running[q] = NoAdapterRun
    BY DEF SlotIInv, RunsUnderLock, Enter, Free
<1> DEFINE run == [at |-> "version", adapter |-> a, read |-> schedule, since |-> slotClock]
<1>2. run \in AdapterRun
    BY DEF SlotIInv, SlotTypes, AdapterRun
<1>3. running' = [running EXCEPT ![r] = run] /\ running \in [SlotRunners -> AdapterRun \cup {NoAdapterRun}]
    BY DEF Enter, SlotIInv, SlotTypes
<1>4. running'[r] = run /\ \A q \in SlotRunners \ {r} : running'[q] = NoAdapterRun
    BY <1>1, <1>3
<1>5. SlotTypes'
    BY <1>2, <1>3 DEF Enter, SlotIInv, SlotTypes, AdapterRun, SlotTimes
<1>6. RunsUnderLock'
    BY <1>4 DEF Enter, SlotIInv, SlotTypes, RunsUnderLock
<1>7. NoAdapterRun.at = "none"
    BY DEF NoAdapterRun
<1>8. \A b \in Adapters : ended[b] # Never => ended[b] <= schedule[b]
    BY <1>1, <1>7 DEF SlotIInv, EndsAreScheduled
<1>9. EndsAreScheduled'
    BY <1>8 DEF Enter, EndsAreScheduled
<1>10. Spaced'
    <2>1. ended'[a] = Never \/ slotClock - ended'[a] >= SlotInterval
        BY <1>8 DEF Enter, Rested, SlotIInv, SlotTypes, SlotTimes, Never
    <2> QED BY <1>4, <1>7, <2>1 DEF Spaced
<1> QED BY <1>5, <1>6, <1>9, <1>10 DEF SlotIInv

LEMMA VersionPrintedKeeps ==
    ASSUME SlotIInv, NEW r \in SlotRunners, VersionPrinted(r)
    PROVE  SlotIInv'
<1> USE SlotAssumption
<1>1. running[r] \in AdapterRun /\ running[r] # NoAdapterRun
    BY RunAtLeast DEF VersionPrinted, SlotIInv
<1> DEFINE run == [running[r] EXCEPT !.at = "command", !.since = slotClock]
<1>2. /\ run \in AdapterRun /\ run.at = "command" /\ run.since = slotClock
      /\ run.adapter = running[r].adapter /\ run.read = running[r].read
    <2>1. slotClock \in 0..slotClock
        BY DEF SlotIInv, SlotTypes
    <2> QED BY <1>1, <2>1 DEF AdapterRun
<1>3. running' = [running EXCEPT ![r] = run] /\ running \in [SlotRunners -> AdapterRun \cup {NoAdapterRun}]
    BY DEF VersionPrinted, SlotIInv, SlotTypes
<1>4. running'[r] = run /\ \A q \in SlotRunners \ {r} : running'[q] = NoAdapterRun
    BY <1>1, <1>3, OthersAreOut
<1>5. SlotTypes'
    BY <1>2, <1>3 DEF VersionPrinted, SlotIInv, SlotTypes, AdapterRun, SlotTimes
<1>6. RunsUnderLock'
    BY <1>1, <1>2, <1>4 DEF VersionPrinted, SlotIInv, SlotTypes, RunsUnderLock
<1>7. NoAdapterRun.at = "none"
    BY DEF NoAdapterRun
<1>8. EndsAreScheduled'
    <2>1. \A b \in Adapters : ended[b] # Never => ended[b] <= schedule[b]
        BY <1>1, <1>7, OthersAreOut DEF SlotIInv, EndsAreScheduled, VersionPrinted
    <2> QED BY <2>1 DEF VersionPrinted, EndsAreScheduled
<1>9. Spaced'
    BY <1>2, <1>4, <1>7 DEF Spaced
<1> QED BY <1>5, <1>6, <1>8, <1>9 DEF SlotIInv

LEMMA ProcessEndsKeeps ==
    ASSUME SlotIInv, NEW r \in SlotRunners, ProcessEnds(r)
    PROVE  SlotIInv'
<1> USE SlotAssumption
<1>1. running[r] \in AdapterRun /\ running[r] # NoAdapterRun
    BY RunAtLeast DEF ProcessEnds, EndsWell, EndsBadly, SlotIInv
<1> DEFINE run == [running[r] EXCEPT !.at = "done"]
           a == running[r].adapter
<1>2. /\ run \in AdapterRun /\ run.at = "done" /\ a \in Adapters
      /\ run.adapter = a /\ run.read = running[r].read
    BY <1>1 DEF AdapterRun
<1>3. running' = [running EXCEPT ![r] = run] /\ running \in [SlotRunners -> AdapterRun \cup {NoAdapterRun}]
    BY DEF ProcessEnds, SlotIInv, SlotTypes
<1>4. running'[r] = run /\ \A q \in SlotRunners \ {r} : running'[q] = NoAdapterRun
    BY <1>1, <1>3, OthersAreOut
<1>5. SlotTypes'
    BY <1>2, <1>3 DEF ProcessEnds, SlotIInv, SlotTypes, AdapterRun, SlotTimes
<1>6. RunsUnderLock'
    BY <1>1, <1>2, <1>4 DEF ProcessEnds, SlotIInv, SlotTypes, RunsUnderLock, InProcess
<1>7. NoAdapterRun.at = "none"
    BY DEF NoAdapterRun
<1>8. EndsAreScheduled'
    <2>1. \A b \in Adapters : ended[b] # Never => ended[b] <= schedule[b]
        BY <1>1, <1>7, OthersAreOut
        DEF SlotIInv, EndsAreScheduled, ProcessEnds, EndsWell, EndsBadly
    <2>2. \A b \in Adapters \ {a} : ended'[b] = ended[b]
        BY DEF ProcessEnds, SlotIInv, SlotTypes
    <2> QED BY <1>2, <1>4, <2>1, <2>2 DEF ProcessEnds, EndsAreScheduled
<1>9. Spaced'
    BY <1>2, <1>4, <1>7 DEF Spaced
<1> QED BY <1>5, <1>6, <1>8, <1>9 DEF SlotIInv

\* What a finished run writes is the schedule with this one entry changed.
LEMMA FinishRunKeeps ==
    ASSUME SlotIInv, NEW r \in SlotRunners, FinishRun(r)
    PROVE  SlotIInv'
<1> USE SlotAssumption
<1>1. running[r] \in AdapterRun /\ running[r] # NoAdapterRun
    BY RunAtLeast DEF FinishRun, SlotIInv
<1> DEFINE a == running[r].adapter
<1>2. a \in Adapters /\ schedule' = [schedule EXCEPT ![a] = slotClock]
    BY <1>1 DEF AdapterRun, FinishRun, Rescheduled, SlotIInv, RunsUnderLock
<1>3. running' = [running EXCEPT ![r] = NoAdapterRun]
    BY DEF FinishRun
<1>4. \A q \in SlotRunners : running'[q] = NoAdapterRun
    BY <1>1, <1>3, OthersAreOut DEF SlotIInv, SlotTypes
<1>5. SlotTypes'
    BY <1>2, <1>3 DEF FinishRun, SlotIInv, SlotTypes, AdapterRun, SlotTimes
<1>6. NoAdapterRun.at = "none"
    BY DEF NoAdapterRun
<1>7. RunsUnderLock' /\ Spaced'
    BY <1>4, <1>6 DEF RunsUnderLock, Spaced
<1>8. EndsAreScheduled'
    <2>1. ASSUME NEW b \in Adapters, ended[b] # Never PROVE ended[b] <= schedule'[b]
        <3>1. CASE b = a
            BY <1>2, <2>1, <3>1 DEF SlotIInv, SlotTypes, SlotTimes, Never
        <3>2. CASE b # a
            <4>1. ended[b] <= schedule[b]
                BY <1>1, <1>6, <2>1, <3>2, OthersAreOut DEF SlotIInv, EndsAreScheduled
            <4> QED BY <1>2, <3>2, <4>1 DEF SlotIInv, SlotTypes
        <3> QED BY <3>1, <3>2
    <2> QED BY <2>1 DEF FinishRun, EndsAreScheduled
<1> QED BY <1>5, <1>7, <1>8 DEF SlotIInv

\* A killed run leaves no end behind, so nothing has to be scheduled.
LEMMA RunnerKilledKeeps ==
    ASSUME SlotIInv, NEW r \in SlotRunners, RunnerKilled(r)
    PROVE  SlotIInv'
<1> USE SlotAssumption
<1>1. running[r] \in AdapterRun /\ running[r] # NoAdapterRun
    BY RunAtLeast DEF RunnerKilled, SlotIInv
<1> DEFINE a == running[r].adapter
<1>2. a \in Adapters /\ ended' = [ended EXCEPT ![a] = Never]
    BY <1>1 DEF AdapterRun, RunnerKilled
<1>3. running' = [running EXCEPT ![r] = NoAdapterRun]
    BY DEF RunnerKilled
<1>4. \A q \in SlotRunners : running'[q] = NoAdapterRun
    BY <1>1, <1>3, OthersAreOut DEF SlotIInv, SlotTypes
<1>5. SlotTypes'
    BY <1>2, <1>3 DEF RunnerKilled, SlotIInv, SlotTypes, AdapterRun, SlotTimes
<1>6. NoAdapterRun.at = "none"
    BY DEF NoAdapterRun
<1>7. RunsUnderLock' /\ Spaced'
    BY <1>4, <1>6 DEF RunsUnderLock, Spaced
<1>8. EndsAreScheduled'
    <2>1. ASSUME NEW b \in Adapters, ended'[b] # Never PROVE ended'[b] <= schedule[b]
        <3>1. b # a /\ ended'[b] = ended[b]
            BY <1>2, <2>1 DEF SlotIInv, SlotTypes
        <3> QED BY <1>1, <1>6, <2>1, <3>1, OthersAreOut DEF SlotIInv, EndsAreScheduled
    <2> QED BY <2>1 DEF RunnerKilled, EndsAreScheduled
<1> QED BY <1>5, <1>7, <1>8 DEF SlotIInv

LEMMA SlotTickKeeps ==
    ASSUME SlotIInv, SlotTick
    PROVE  SlotIInv'
<1> USE SlotAssumption
<1>1. slotClock \in 0..SlotEnd /\ slotClock' = slotClock + 1 /\ slotClock' \in 0..SlotEnd
    BY DEF SlotTick, SlotIInv, SlotTypes
<1>2. SlotTimes \subseteq SlotTimes' /\ 0..slotClock \subseteq 0..slotClock'
    BY <1>1 DEF SlotTimes
<1>3. AdapterRun \subseteq AdapterRun'
    BY <1>2 DEF AdapterRun
<1>4. SlotTypes'
    BY <1>1, <1>2, <1>3 DEF SlotTick, SlotIInv, SlotTypes
<1>5. RunsUnderLock'
    <2> SUFFICES ASSUME NEW r \in SlotRunners, running[r] # NoAdapterRun, InProcess(r)
                 PROVE  slotClock' - running[r].since <= SlotTimeout
        BY DEF SlotTick, SlotIInv, RunsUnderLock, InProcess
    <2>1. slotClock - running[r].since < SlotTimeout /\ running[r].since \in Nat
        BY <1>1, RunAtLeast
        DEF SlotTick, Overdue, InProcess, SlotIInv, AdapterRun
    <2> QED BY <1>1, <2>1
<1>6. EndsAreScheduled' /\ Spaced'
    BY DEF SlotTick, SlotIInv, EndsAreScheduled, Spaced
<1> QED BY <1>4, <1>5, <1>6 DEF SlotIInv

(* Adapters run one at a time, an adapter that ran keeps its distance from *)
(* its own last end whatever the others wrote to the schedule in between,  *)
(* and no process outlives its timeout under a living runner.              *)
THEOREM AdaptersTakeTurns == SlotSpec => []SlotInv
<1>1. SlotInit => SlotIInv
    BY SlotInitial
<1>2. SlotIInv /\ [SlotNext]_slotVars => SlotIInv'
    <2> SUFFICES ASSUME SlotIInv, [SlotNext]_slotVars PROVE SlotIInv'
        OBVIOUS
    <2>1. ASSUME NEW a \in Adapters, OrphanEnds(a) PROVE SlotIInv'
        BY <2>1 DEF OrphanEnds, SlotIInv, SlotTypes, SlotTimes, AdapterRun, RunsUnderLock,
                    InProcess, EndsAreScheduled, Spaced
    <2>2. CASE UNCHANGED slotVars
        BY <2>2 DEF slotVars, SlotIInv, SlotTypes, SlotTimes, AdapterRun, RunsUnderLock,
                    InProcess, EndsAreScheduled, Spaced
    <2> QED BY <2>1, <2>2, EnterKeeps, VersionPrintedKeeps, ProcessEndsKeeps, FinishRunKeeps,
               RunnerKilledKeeps, SlotTickKeeps DEF SlotNext
<1>3. SlotIInv => SlotInv
    <2> SUFFICES ASSUME SlotIInv PROVE SlotInv
        OBVIOUS
    <2>1. SlotTypeOK
        <3>1. ASSUME NEW r \in SlotRunners, Overdue(r)
              PROVE  slotClock - running[r].since = SlotTimeout
            <4>1. running[r] # NoAdapterRun /\ running[r].since \in Nat
                BY <3>1, RunAtLeast DEF Overdue, SlotIInv, AdapterRun
            <4> QED BY <3>1, <4>1, SlotAssumption
                    DEF Overdue, SlotIInv, RunsUnderLock, InProcess, SlotTypes
        <3> QED BY <3>1 DEF SlotIInv, SlotTypes, SlotTimes, SlotTypeOK
    <2>2. OneAdapterAtATime
        <3> DEFINE busy == {r \in SlotRunners : running[r].at \in {"version", "command"}}
        <3>1. busy \subseteq {slotLock}
            BY RunAtLeast DEF SlotIInv, RunsUnderLock
        <3>2. IsFiniteSet({slotLock}) /\ Cardinality({slotLock}) = 1
            BY FS_Singleton
        <3> QED BY <3>1, <3>2, FS_Subset DEF OneAdapterAtATime
    <2> QED BY <2>1, <2>2 DEF SlotInv, SlotIInv
<1> QED BY <1>1, <1>2, <1>3, PTL DEF SlotSpec
-------------------------------------------------------------------------------
(* Browser profile.  Whoever may still have a browser holds a copy of the  *)
(* lock's descriptor, unless a failed start gave the lock up for it, and   *)
(* there is at most one browser among the holders; a recorded process is   *)
(* or was a browser, and keeps its pid to itself while it is alive.        *)

Program == [kind : {"none", "browser", "other"}, pid : Pids \cup {0},
            alive : BOOLEAN, signalled : {"no", "checked", "late"}]
Record == [profile : ProfileNames \cup {"none"}, pid : Pids \cup {0},
           identity : 0..MaxProcs]
Places == {"rest", "unrecord", "acquire", "spawn", "write", "transfer", "watch", "leave",
           "signal", "strike", "await", "erase", "unlock"}
Command == [at : Places, profile : ProfileNames \cup {"none"}, seen : Record,
            child : 0..MaxProcs, supervises : BOOLEAN, force : BOOLEAN,
            since : 0..MaxProcs, then : {"erase", "unlock"}]

ProfileTypes ==
    /\ procs \in [1..MaxProcs -> Program] /\ record \in Record
    /\ flockHeld \subseteq Managers \cup 1..MaxProcs
    /\ manager \in [Managers -> Command]
    /\ strays \subseteq {i \in 1..MaxProcs : procs[i].kind = "browser"}

\* Programs are numbered in the order they started, and one that has not
\* started is nothing yet.
BornInOrder ==
    /\ \E n \in 0..MaxProcs : \A i \in 1..MaxProcs : procs[i] # Unborn <=> i <= n
    /\ \A i \in 1..MaxProcs : procs[i].kind = "none" => procs[i] = Unborn

OnePerPid ==
    \A i, j \in 1..MaxProcs :
        procs[i].alive /\ procs[j].alive /\ procs[i].pid = procs[j].pid => i = j

\* The record, or what a manager has read of it.
NamesBrowser(rec) ==
    \/ rec = NothingRecorded
    \/ /\ rec.profile \in ProfileNames /\ rec.identity \in 1..MaxProcs
       /\ procs[rec.identity].kind = "browser" /\ procs[rec.identity].pid = rec.pid

LockCoversBrowser ==
    /\ \A i \in 1..MaxProcs :
          procs[i].kind = "browser" /\ procs[i].alive => i \in flockHeld \cup strays
    /\ \A i, j \in 1..MaxProcs : i \in flockHeld /\ j \in flockHeld => i = j

\* A command between the lock and its handing over, or giving up.
Locking(c) ==
    \/ c.at \in {"write", "transfer", "unlock"}
    \/ c.at \in {"signal", "strike", "await"} /\ c.then = "unlock"

\* What holds of a manager m in command c: the last, that no program there was
\* when it identified the one to stop can have its pid, but a browser.
Fits(m, c) ==
    /\ NamesBrowser(c.seen)
    /\ c.child # 0 => procs[c.child].kind = "browser"
    /\ c.at \in {"unrecord", "acquire", "spawn", "write"} => c.profile \in ProfileNames
    /\ c.at = "spawn" => flockHeld = {m}
    /\ c.at = "write" => c.child # 0
    /\ Locking(c) => m \in flockHeld /\ flockHeld \subseteq {m, c.child}
    /\ c.at = "strike" =>
          /\ ~pidfds
          /\ \A i \in 1..MaxProcs : i <= c.since =>
                procs[i] # Unborn
                /\ (procs[i].alive /\ procs[i].pid = c.seen.pid => procs[i].kind = "browser")

ProfileIInv ==
    /\ ProfileTypes /\ BornInOrder /\ OnePerPid /\ NamesBrowser(record)
    /\ LockCoversBrowser /\ OnlyBrowsersSignalled
    /\ \A m \in Managers : Fits(m, manager[m])

\* What a program is does not change once it has started, and it ends once.
Persist ==
    \A i \in 1..MaxProcs : procs[i] # Unborn =>
        /\ procs'[i] # Unborn /\ procs'[i].kind = procs[i].kind
        /\ procs'[i].pid = procs[i].pid /\ (procs'[i].alive => procs[i].alive)

LEMMA RestingIsCommand ==
    /\ Resting \in Command /\ NothingRecorded \in Record
    /\ Resting.at = "rest" /\ Resting.seen = NothingRecorded /\ Resting.child = 0
<1>1. NothingRecorded \in Record
    BY ProfileAssumption DEF NothingRecorded, Record
<1>2. 0 \in 0..MaxProcs
    BY ProfileAssumption
<1> QED BY <1>1, <1>2 DEF Resting, Command, Places

\* Nothing is asked of a manager at rest.
LEMMA RestingFits ==
    ASSUME NEW m \in Managers
    PROVE  Fits(m, Resting)
BY RestingIsCommand DEF Fits, Locking, NamesBrowser

LEMMA ProfileInitial == ProfileInit => ProfileIInv
<1> SUFFICES ASSUME ProfileInit PROVE ProfileIInv
    OBVIOUS
<1> USE ProfileAssumption
<1>1. Unborn \in Program
    BY DEF Unborn, Program
<1>2. ProfileTypes
    BY <1>1, RestingIsCommand DEF ProfileInit, ProfileTypes
<1>3. \A i \in 1..MaxProcs : procs[i] = Unborn
    BY DEF ProfileInit
<1>4. BornInOrder
    BY <1>3 DEF BornInOrder
<1>5. ~Unborn.alive /\ Unborn.signalled = "no"
    BY DEF Unborn
<1>6. OnePerPid /\ LockCoversBrowser /\ OnlyBrowsersSignalled /\ NamesBrowser(record)
    BY <1>3, <1>5
    DEF ProfileInit, OnePerPid, LockCoversBrowser, OnlyBrowsersSignalled, NamesBrowser
<1>7. \A m \in Managers : Fits(m, manager[m])
    BY RestingFits DEF ProfileInit
<1> QED BY <1>2, <1>4, <1>6, <1>7 DEF ProfileIInv

\* A command that touches neither programs nor the lock goes on to c.
LEMMA MovesOn ==
    ASSUME ProfileIInv, NEW m \in Managers, NEW c \in Command,
           UNCHANGED <<procs, flockHeld, strays, pidfds>>,
           record' \in Record, NamesBrowser(record'),
           manager' = [manager EXCEPT ![m] = c], Fits(m, c)
    PROVE  ProfileIInv'
<1>1. /\ manager' \in [Managers -> Command] /\ manager'[m] = c
      /\ \A n \in Managers \ {m} : manager'[n] = manager[n]
    BY DEF ProfileIInv, ProfileTypes
<1>2. /\ ProfileTypes' /\ BornInOrder' /\ OnePerPid' /\ OnlyBrowsersSignalled'
      /\ LockCoversBrowser' /\ NamesBrowser(record)'
    BY <1>1 DEF ProfileIInv, ProfileTypes, BornInOrder, OnePerPid, OnlyBrowsersSignalled,
                LockCoversBrowser, NamesBrowser
<1>3. ASSUME NEW n \in Managers PROVE Fits(n, manager[n])'
    <2>1. Fits(n, manager'[n])
        BY <1>1 DEF ProfileIInv
    <2> QED BY <2>1 DEF Fits, NamesBrowser
<1> QED BY <1>2, <1>3 DEF ProfileIInv

\* Nor does one that is over.
LEMMA RestsKeeps ==
    ASSUME ProfileIInv, NEW m \in Managers, UNCHANGED <<procs, flockHeld, strays, pidfds>>,
           record' \in {record, NothingRecorded}, Rests(m)
    PROVE  ProfileIInv'
<1>1. record' \in Record /\ NamesBrowser(record')
    BY RestingIsCommand DEF ProfileIInv, ProfileTypes, NamesBrowser
<1> QED BY <1>1, RestingIsCommand, RestingFits, MovesOn DEF Rests

\* A command that goes on to another place has all else as it was.
LEMMA GoesTo ==
    ASSUME ProfileIInv, NEW m \in Managers, NEW where \in Places, Goes(m, where)
    PROVE  LET c == manager[m]  d == [manager[m] EXCEPT !.at = where]
           IN  /\ c \in Command /\ d \in Command /\ manager' = [manager EXCEPT ![m] = d]
               /\ d.at = where /\ d.profile = c.profile /\ d.seen = c.seen /\ d.child = c.child
               /\ d.then = c.then
<1>1. manager[m] \in Command
    BY DEF ProfileIInv, ProfileTypes
<1> QED BY <1>1 DEF Goes, Command

LEMMA GoesOn ==
    ASSUME ProfileIInv, NEW m \in Managers, NEW where \in Places, Goes(m, where),
           UNCHANGED <<procs, flockHeld, strays, pidfds>>,
           record' \in Record, NamesBrowser(record'),
           where \notin {"spawn", "write", "signal", "strike", "await"},
           where \in {"unrecord", "acquire"} => manager[m].profile \in ProfileNames,
           where \in {"transfer", "unlock"} =>
               m \in flockHeld /\ flockHeld \subseteq {m, manager[m].child}
    PROVE  ProfileIInv'
<1> DEFINE d == [manager[m] EXCEPT !.at = where]
<1>1. /\ d \in Command /\ manager' = [manager EXCEPT ![m] = d]
      /\ d.at = where /\ d.profile = manager[m].profile /\ d.seen = manager[m].seen
      /\ d.child = manager[m].child
    BY GoesTo
<1> HIDE DEF d
<1>2. Fits(m, manager[m])
    BY DEF ProfileIInv
<1>3. Fits(m, d)
    BY <1>1, <1>2 DEF Fits, Locking
<1> QED BY <1>1, <1>3, MovesOn

LEMMA StartReadsKeeps ==
    ASSUME ProfileIInv, NEW m \in Managers, NEW p \in ProfileNames, NEW s \in BOOLEAN,
           StartReads(m, p, s)
    PROVE  ProfileIInv'
<1> DEFINE where == IF record = NothingRecorded THEN "acquire" ELSE "unrecord"
           c == [Resting EXCEPT !.at = where, !.profile = p, !.supervises = s]
<1>1. /\ c \in Command /\ c.at \in {"acquire", "unrecord"} /\ c.profile = p
      /\ c.seen = NothingRecorded /\ c.child = 0
    <2>1. where \in {"acquire", "unrecord"} /\ where \in Places
        BY DEF Places
    <2> QED BY <2>1, RestingIsCommand DEF Command
<1>2. manager' = [manager EXCEPT ![m] = c]
    BY DEF StartReads
<1> HIDE DEF c
<1>3. Fits(m, c)
    BY <1>1 DEF Fits, Locking, NamesBrowser
<1>4. record' = record /\ record \in Record /\ NamesBrowser(record)
    BY DEF StartReads, ProfileIInv, ProfileTypes
<1> QED BY <1>1, <1>2, <1>3, <1>4, MovesOn DEF StartReads

\* stop-profile, or a supervisor that leaves: the record that it judges names
\* a browser.
LEMMA StopsKeeps ==
    ASSUME ProfileIInv, NEW m \in Managers, UNCHANGED <<procs, record, flockHeld, strays, pidfds>>,
           Stops(m)
    PROVE  ProfileIInv'
<1>0. record' = record /\ record \in Record /\ NamesBrowser(record)
    BY DEF ProfileIInv, ProfileTypes
<1> DEFINE signal == [Resting EXCEPT !.at = "signal", !.seen = record]
           erase == [Resting EXCEPT !.at = "erase"]
<1>1. signal \in Command /\ signal.at = "signal" /\ signal.seen = record /\ signal.child = 0
      /\ signal.then = "erase"
    BY <1>0, RestingIsCommand DEF Command, Places, Resting
<1>2. erase \in Command /\ erase.at = "erase" /\ erase.seen = NothingRecorded /\ erase.child = 0
    BY RestingIsCommand DEF Command, Places
<1>3. \/ manager' = [manager EXCEPT ![m] = signal]
      \/ manager' = [manager EXCEPT ![m] = erase]
    BY DEF Stops
<1> HIDE DEF signal, erase
<1>4. Fits(m, signal) /\ Fits(m, erase)
    BY <1>0, <1>1, <1>2 DEF Fits, Locking, NamesBrowser
<1> QED BY <1>0, <1>1, <1>2, <1>3, <1>4, MovesOn

\* The record, or what is to be stopped, is the child, under the lock.
LEMMA WriteStateKeeps ==
    ASSUME ProfileIInv, NEW m \in Managers, WriteState(m) \/ StartFails(m)
    PROVE  ProfileIInv'
<1> DEFINE i == manager[m].child
           c == [manager[m] EXCEPT !.at = "signal", !.seen = StateOf(m), !.then = "unlock"]
<1>1. /\ manager[m] \in Command /\ Fits(m, manager[m]) /\ manager[m].at = "write"
      /\ UNCHANGED <<procs, flockHeld, strays, pidfds>>
    BY DEF WriteState, StartFails, At, ProfileIInv, ProfileTypes
<1>2. /\ i \in 1..MaxProcs /\ procs[i].kind = "browser" /\ manager[m].profile \in ProfileNames
      /\ m \in flockHeld /\ flockHeld \subseteq {m, i}
    BY <1>1, ProfileAssumption DEF Fits, Locking, Command
<1>3. StateOf(m) \in Record /\ NamesBrowser(StateOf(m))
    <2>1. procs[i].pid \in Pids \cup {0}
        BY <1>2 DEF ProfileIInv, ProfileTypes, Program
    <2> QED BY <1>2, <2>1, ProfileAssumption DEF StateOf, Record, NamesBrowser
<1>4. record' \in Record /\ NamesBrowser(record')
    BY <1>3 DEF WriteState, StartFails, ProfileIInv, ProfileTypes
<1>5. \/ Goes(m, "transfer") \/ Goes(m, "unlock")
      \/ manager' = [manager EXCEPT ![m] = c]
    BY <1>1 DEF WriteState, StartFails, ProfileIInv, ProfileTypes
<1>6. c \in Command /\ c.at = "signal" /\ c.seen = StateOf(m) /\ c.child = i /\ c.then = "unlock"
    BY <1>1, <1>3 DEF Command, Places
<1> HIDE DEF c
<1>7. Fits(m, c)
    BY <1>2, <1>3, <1>6 DEF Fits, Locking
<1>8. CASE manager' = [manager EXCEPT ![m] = c]
    BY <1>1, <1>4, <1>6, <1>7, <1>8, MovesOn
<1>9. CASE Goes(m, "transfer") \/ Goes(m, "unlock")
    BY <1>1, <1>2, <1>4, <1>9, GoesOn DEF Places
<1> QED BY <1>5, <1>8, <1>9

\* Programs are numbered from 1, and all that ever started are counted.
LEMMA HowManyCounts ==
    ASSUME ProfileIInv
    PROVE  HowMany \in 0..MaxProcs /\ \A i \in 1..MaxProcs : procs[i] # Unborn <=> i <= HowMany
<1>1. PICK n \in 0..MaxProcs : \A j \in 1..MaxProcs : procs[j] # Unborn <=> j <= n
    BY DEF ProfileIInv, BornInOrder
<1>2. {j \in 1..MaxProcs : procs[j] # Unborn} = 1..n
    BY <1>1, ProfileAssumption
<1>3. Cardinality(1..n) = n
    BY <1>1, FS_Interval, ProfileAssumption
<1>4. HowMany = Cardinality(1..n)
    BY <1>2 DEF HowMany
<1> QED BY <1>1, <1>3, <1>4

\* A process that is still the one a manager has read of is a browser, and no
\* other program has its pid then.
LEMMA SeenIsBrowser ==
    ASSUME ProfileIInv, NEW m \in Managers, SameProcess(manager[m].seen)
    PROVE  LET seen == manager[m].seen
           IN  /\ seen.identity \in 1..MaxProcs /\ procs[seen.identity].kind = "browser"
               /\ Under(seen.pid) = {seen.identity}
<1> DEFINE seen == manager[m].seen
<1>1. seen.identity \in 1..MaxProcs /\ procs[seen.identity].alive
      /\ procs[seen.identity].pid = seen.pid
    BY DEF SameProcess, Under
<1>2. seen # NothingRecorded
    BY <1>1 DEF NothingRecorded
<1>3. procs[seen.identity].kind = "browser"
    BY <1>2 DEF ProfileIInv, Fits, NamesBrowser
<1>4. Under(seen.pid) = {seen.identity}
    BY <1>1 DEF ProfileIInv, OnePerPid, Under
<1> QED BY <1>1, <1>3, <1>4

\* What follows on a stopper: what comes next in the command, or the wait for
\* the signalled process.
LEMMA AfterSignalFits ==
    ASSUME ProfileIInv, NEW m \in Managers, manager[m].at \in {"signal", "strike", "await"},
           Done(m) \/ AfterSignal(m)
    PROVE  \E c \in Command : manager' = [manager EXCEPT ![m] = c] /\ Fits(m, c) /\ c.at # "strike"
<1> DEFINE done == [manager[m] EXCEPT !.at = manager[m].then, !.seen = NothingRecorded,
                                      !.force = FALSE, !.since = 0]
           wait == [manager[m] EXCEPT !.at = "await", !.since = 0]
<1>1. manager[m] \in Command /\ Fits(m, manager[m])
    BY DEF ProfileIInv, ProfileTypes
<1>2. /\ done \in Command /\ done.at = manager[m].then /\ done.seen = NothingRecorded
      /\ done.child = manager[m].child
    BY <1>1, RestingIsCommand, ProfileAssumption DEF Command, Places
<1>3. /\ wait \in Command /\ wait.at = "await" /\ wait.seen = manager[m].seen
      /\ wait.child = manager[m].child /\ wait.then = manager[m].then
    <2>1. "await" \in Places /\ 0 \in 0..MaxProcs
        BY ProfileAssumption DEF Places
    <2> QED BY <1>1, <2>1 DEF Command
<1>4. manager' = [manager EXCEPT ![m] = done] \/ manager' = [manager EXCEPT ![m] = wait]
    BY <1>1 DEF Done, AfterSignal, ProfileIInv, ProfileTypes
<1>5. manager[m].then \in {"erase", "unlock"}
    BY <1>1 DEF Command
<1> HIDE DEF done, wait
<1>6. Fits(m, done) /\ done.at # "strike"
    BY <1>1, <1>2, <1>5 DEF Fits, Locking, NamesBrowser
<1>7. Fits(m, wait)
    BY <1>1, <1>3 DEF Fits, Locking
<1> QED BY <1>2, <1>3, <1>4, <1>6, <1>7

LEMMA StopperKeeps ==
    ASSUME ProfileIInv, NEW m \in Managers, manager[m].at \in {"signal", "strike", "await"},
           UNCHANGED <<procs, record, flockHeld, strays, pidfds>>, Done(m) \/ AfterSignal(m)
    PROVE  ProfileIInv'
<1>1. record' = record /\ record \in Record /\ NamesBrowser(record)
    BY DEF ProfileIInv, ProfileTypes
<1> QED BY <1>1, AfterSignalFits, MovesOn

\* What it finds under the pid at the check is the browser, whether it has a
\* pidfd of it or not.
LEMMA SignalKeeps ==
    ASSUME ProfileIInv, NEW m \in Managers, Signal(m)
    PROVE  ProfileIInv'
<1>1. record' = record /\ record \in Record /\ NamesBrowser(record)
    BY DEF Signal, ProfileIInv, ProfileTypes
<1>2. SameProcess(manager[m].seen) => Signalled(Under(manager[m].seen.pid), HowMany) = procs
    <2> SUFFICES ASSUME SameProcess(manager[m].seen)
                 PROVE  Signalled(Under(manager[m].seen.pid), HowMany) = procs
        OBVIOUS
    <2>1. \A i \in 1..MaxProcs : i \in Under(manager[m].seen.pid) => procs[i].kind = "browser"
        BY SeenIsBrowser
    <2>2. procs = [i \in 1..MaxProcs |-> procs[i]]
        BY DEF ProfileIInv, ProfileTypes
    <2> QED BY <2>1, <2>2 DEF Signalled
<1>3. CASE Done(m) \/ AfterSignal(m)
    BY <1>2, <1>3, StopperKeeps DEF Signal, At
<1>4. CASE /\ ~pidfds /\ SameProcess(manager[m].seen) /\ UNCHANGED procs
           /\ manager' = [manager EXCEPT ![m].at = "strike", ![m].since = HowMany]
    <2> DEFINE c == [manager[m] EXCEPT !.at = "strike", !.since = HowMany]
    <2>1. manager[m] \in Command /\ Fits(m, manager[m]) /\ manager[m].at = "signal"
        BY DEF Signal, At, ProfileIInv, ProfileTypes
    <2>2. manager' = [manager EXCEPT ![m] = c]
        BY <1>4 DEF ProfileIInv, ProfileTypes
    <2>3. /\ c \in Command /\ c.at = "strike" /\ c.seen = manager[m].seen
          /\ c.child = manager[m].child /\ c.then = manager[m].then /\ c.since = HowMany
        BY <2>1, HowManyCounts DEF Command, Places
    <2> HIDE DEF c
    <2>4. \A i \in 1..MaxProcs :
             procs[i].alive /\ procs[i].pid = manager[m].seen.pid => procs[i].kind = "browser"
        <3>1. \A i \in 1..MaxProcs : i \in Under(manager[m].seen.pid) => procs[i].kind = "browser"
            BY <1>4, SeenIsBrowser
        <3> QED BY <3>1 DEF Under
    <2>5. Fits(m, c)
        BY <1>4, <2>1, <2>3, <2>4, HowManyCounts DEF Fits, Locking
    <2> QED BY <1>1, <1>4, <2>2, <2>3, <2>5, MovesOn DEF Signal
<1> QED BY <1>3, <1>4 DEF Signal

LEMMA AwaitKeeps ==
    ASSUME ProfileIInv, NEW m \in Managers, Await(m)
    PROVE  ProfileIInv'
<1>1. CASE Done(m)
    BY <1>1, StopperKeeps DEF Await, At
<1>2. CASE manager' = [manager EXCEPT ![m].at = "signal", ![m].force = TRUE]
    <2> DEFINE c == [manager[m] EXCEPT !.at = "signal", !.force = TRUE]
    <2>1. manager[m] \in Command /\ Fits(m, manager[m]) /\ manager[m].at = "await"
        BY DEF Await, At, ProfileIInv, ProfileTypes
    <2>2. manager' = [manager EXCEPT ![m] = c]
        BY <1>2 DEF ProfileIInv, ProfileTypes
    <2>3. /\ c \in Command /\ c.at = "signal" /\ c.seen = manager[m].seen
          /\ c.child = manager[m].child /\ c.then = manager[m].then
        BY <2>1 DEF Command, Places
    <2> HIDE DEF c
    <2>4. Fits(m, c)
        BY <2>1, <2>3 DEF Fits, Locking
    <2>5. record' = record /\ record \in Record /\ NamesBrowser(record)
        BY DEF Await, ProfileIInv, ProfileTypes
    <2> QED BY <2>2, <2>3, <2>4, <2>5, MovesOn DEF Await
<1> QED BY <1>1, <1>2 DEF Await

\* The lock is free, or one command at most is between taking it and handing
\* it over.
LEMMA OneHasLock ==
    ASSUME ProfileIInv, NEW m \in Managers, m \in flockHeld \/ flockHeld = {},
           NEW n \in Managers \ {m}
    PROVE  manager[n].at # "spawn" /\ ~Locking(manager[n])
<1>1. Fits(n, manager[n]) /\ manager[n].child \in 0..MaxProcs /\ m \notin 0..MaxProcs
    BY ProfileAssumption DEF ProfileIInv, ProfileTypes, Command
<1> QED BY <1>1 DEF Fits

\* What another command knows of programs stays so while they start and end.
LEMMA OthersFit ==
    ASSUME ProfileIInv, Persist, NEW n \in Managers, manager'[n] = manager[n], pidfds' = pidfds,
           manager[n].at = "spawn" => flockHeld' = {n},
           Locking(manager[n]) => n \in flockHeld' /\ flockHeld' \subseteq {n, manager[n].child}
    PROVE  Fits(n, manager[n])'
<1> DEFINE c == manager[n]
<1>1. c \in Command /\ Fits(n, c)
    BY DEF ProfileIInv, ProfileTypes
<1>2. \A i \in 1..MaxProcs : procs[i].kind = "browser" => procs'[i].kind = "browser"
                                                          /\ procs'[i].pid = procs[i].pid
    BY DEF Persist, Unborn
<1>3. NamesBrowser(c.seen)'
    BY <1>1, <1>2 DEF Fits, NamesBrowser
<1>4. c.child # 0 => procs'[c.child].kind = "browser"
    BY <1>1, <1>2, ProfileAssumption DEF Fits, Command
<1>5. ASSUME c.at = "strike", NEW i \in 1..MaxProcs, i <= c.since
      PROVE  procs'[i] # Unborn
             /\ (procs'[i].alive /\ procs'[i].pid = c.seen.pid => procs'[i].kind = "browser")
    BY <1>1, <1>5 DEF Fits, Persist
<1>6. c.at = "strike" => ~pidfds
    BY <1>1 DEF Fits
<1>7. manager[n]' = c
    OBVIOUS
<1> QED BY <1>1, <1>3, <1>4, <1>5, <1>6, <1>7 DEF Fits, Locking

LEMMA RecordPersists ==
    ASSUME ProfileIInv, Persist, record' = record
    PROVE  NamesBrowser(record)'
BY DEF ProfileIInv, Persist, Unborn, NamesBrowser

\* The one that may take the lock or give it up does so.
LEMMA LockStep ==
    ASSUME ProfileIInv, NEW m \in Managers, m \in flockHeld \/ flockHeld = {}, NEW c \in Command,
           UNCHANGED <<procs, record, pidfds>>, manager' = [manager EXCEPT ![m] = c],
           flockHeld' \subseteq Managers \cup 1..MaxProcs,
           strays' \subseteq {i \in 1..MaxProcs : procs[i].kind = "browser"},
           LockCoversBrowser', Fits(m, manager[m])'
    PROVE  ProfileIInv'
<1>1. /\ manager' \in [Managers -> Command] /\ manager'[m] = c
      /\ \A n \in Managers \ {m} : manager'[n] = manager[n]
    BY DEF ProfileIInv, ProfileTypes
<1>2. /\ ProfileTypes' /\ BornInOrder' /\ OnePerPid' /\ OnlyBrowsersSignalled' /\ Persist
    BY <1>1
    DEF ProfileIInv, ProfileTypes, BornInOrder, OnePerPid, OnlyBrowsersSignalled, Persist
<1>3. \A n \in Managers \ {m} : Fits(n, manager[n])'
    BY <1>1, <1>2, OneHasLock, OthersFit
<1> QED BY <1>2, <1>3, RecordPersists DEF ProfileIInv

LEMMA AcquireKeeps ==
    ASSUME ProfileIInv, NEW m \in Managers, Acquire(m)
    PROVE  ProfileIInv'
<1>1. CASE flockHeld = {} /\ flockHeld' = {m} /\ Goes(m, "spawn")
    <2> DEFINE c == [manager[m] EXCEPT !.at = "spawn"]
    <2>1. /\ c \in Command /\ manager' = [manager EXCEPT ![m] = c] /\ c.at = "spawn"
          /\ c.profile = manager[m].profile /\ c.seen = manager[m].seen
          /\ c.child = manager[m].child
        BY <1>1, GoesTo DEF Places
    <2> HIDE DEF c
    <2>2. manager'[m] = c /\ Fits(m, manager[m]) /\ manager[m].at = "acquire"
        BY <2>1 DEF ProfileIInv, ProfileTypes, Acquire, At
    <2>3. UNCHANGED <<procs, record, strays, pidfds>>
        BY DEF Acquire
    <2>4. Fits(m, manager[m])'
        BY <1>1, <2>1, <2>2, <2>3 DEF Fits, Locking, NamesBrowser
    <2>5. LockCoversBrowser'
        BY <1>1, <2>3, ProfileAssumption DEF ProfileIInv, LockCoversBrowser
    <2> QED BY <1>1, <2>1, <2>3, <2>4, <2>5, LockStep DEF ProfileIInv, ProfileTypes
<1>2. CASE UNCHANGED flockHeld /\ Rests(m)
    BY <1>2, RestsKeeps DEF Acquire
<1> QED BY <1>1, <1>2 DEF Acquire

\* The parent's copy goes, the browser's stays.
LEMMA TransferKeeps ==
    ASSUME ProfileIInv, NEW m \in Managers, Transfer(m)
    PROVE  ProfileIInv'
<1>1. /\ flockHeld' = flockHeld \ {m} /\ UNCHANGED <<procs, record, strays, pidfds>>
      /\ m \in flockHeld /\ manager[m].at = "transfer" /\ Fits(m, manager[m])
      /\ m \notin 0..MaxProcs
    BY ProfileAssumption DEF Transfer, Closed, At, ProfileIInv, Fits, Locking
<1>2. PICK c \in Command : /\ manager' = [manager EXCEPT ![m] = c] /\ c.at \in {"watch", "rest"}
                           /\ NamesBrowser(c.seen)
                           /\ (c.child # 0 => procs[c.child].kind = "browser")
    <2>1. CASE Rests(m)
        BY <2>1, RestingIsCommand DEF Rests, NamesBrowser
    <2>2. CASE Goes(m, "watch")
        <3> DEFINE d == [manager[m] EXCEPT !.at = "watch"]
        <3>1. /\ d \in Command /\ manager' = [manager EXCEPT ![m] = d] /\ d.at = "watch"
              /\ d.seen = manager[m].seen /\ d.child = manager[m].child
            BY <2>2, GoesTo DEF Places
        <3> HIDE DEF d
        <3> QED BY <1>1, <3>1 DEF Fits
    <2> QED BY <2>1, <2>2 DEF Transfer
<1>3. manager'[m] = c
    BY <1>2 DEF ProfileIInv, ProfileTypes
<1>4. Fits(m, manager[m])'
    BY <1>1, <1>2, <1>3 DEF Fits, Locking, NamesBrowser
<1>5. LockCoversBrowser'
    BY <1>1 DEF ProfileIInv, LockCoversBrowser
<1> QED BY <1>1, <1>2, <1>4, <1>5, LockStep DEF ProfileIInv, ProfileTypes

\* A command that rests again without its copy of the lock.
LEMMA LetsGo ==
    ASSUME ProfileIInv, NEW m \in Managers, m \in flockHeld, Rests(m),
           UNCHANGED <<procs, record, pidfds>>, flockHeld' \subseteq flockHeld \ {m},
           strays' \subseteq {i \in 1..MaxProcs : procs[i].kind = "browser"},
           \A i \in 1..MaxProcs :
              procs[i].kind = "browser" /\ procs[i].alive => i \in flockHeld' \cup strays'
    PROVE  ProfileIInv'
<1>1. manager'[m] = Resting
    BY DEF Rests, ProfileIInv, ProfileTypes
<1>2. Fits(m, manager[m])'
    BY <1>1, RestingIsCommand DEF Fits, Locking, NamesBrowser
<1>3. LockCoversBrowser'
    BY DEF ProfileIInv, LockCoversBrowser
<1> QED BY <1>2, <1>3, RestingIsCommand, LockStep DEF ProfileIInv, ProfileTypes, Rests

\* The child's copy goes with the parent's, and the child is a stray if it is
\* still there.
LEMMA UnlockKeeps ==
    ASSUME ProfileIInv, NEW m \in Managers, Unlock_(m)
    PROVE  ProfileIInv'
<1> DEFINE i == manager[m].child
<1>1. /\ m \in flockHeld /\ flockHeld \subseteq {m, i} /\ i \in 0..MaxProcs
      /\ (i # 0 => procs[i].kind = "browser") /\ m \notin 0..MaxProcs
    BY ProfileAssumption DEF Unlock_, At, ProfileIInv, ProfileTypes, Fits, Locking, Command
<1>2. strays' = strays \cup {j \in {i} \ {0} : procs[j].alive}
    BY DEF Unlock_
<1>3. strays' \subseteq {j \in 1..MaxProcs : procs[j].kind = "browser"}
    <2>1. \A j \in {i} \ {0} : j \in 1..MaxProcs /\ procs[j].kind = "browser"
        BY <1>1, ProfileAssumption
    <2>2. strays \subseteq {j \in 1..MaxProcs : procs[j].kind = "browser"}
        BY DEF ProfileIInv, ProfileTypes
    <2> QED BY <1>2, <2>1, <2>2
<1>4. \A j \in 1..MaxProcs : procs[j].kind = "browser" /\ procs[j].alive => j \in strays'
    BY <1>1, <1>2, ProfileAssumption DEF ProfileIInv, LockCoversBrowser
<1>5. Rests(m) /\ UNCHANGED <<procs, record, pidfds>> /\ flockHeld' \subseteq flockHeld \ {m}
    BY DEF Unlock_
<1> QED BY <1>1, <1>3, <1>4, <1>5, LetsGo

\* A browser whose manager is killed keeps its own copy of the lock.
LEMMA KilledKeeps ==
    ASSUME ProfileIInv, NEW m \in Managers, Killed(m)
    PROVE  ProfileIInv'
<1>1. /\ UNCHANGED <<procs, record, strays, pidfds>> /\ flockHeld' = flockHeld \ {m} /\ Rests(m)
      /\ m \notin 0..MaxProcs
    BY ProfileAssumption DEF Killed
<1>2. CASE m \in flockHeld
    <2>1. \A i \in 1..MaxProcs :
             procs[i].kind = "browser" /\ procs[i].alive => i \in flockHeld' \cup strays'
        BY <1>1 DEF ProfileIInv, LockCoversBrowser
    <2> QED BY <1>1, <1>2, <2>1, LetsGo DEF ProfileIInv, ProfileTypes
<1>3. CASE m \notin flockHeld
    BY <1>1, <1>3, RestsKeeps
<1> QED BY <1>2, <1>3

\* The next program is none that ever was, and its pid is free.
LEMMA BornKeepsPrograms ==
    ASSUME ProfileIInv, NEW i \in 1..MaxProcs, NEW kind \in {"browser", "other"},
           NEW pid \in Pids, Born(i, kind, pid), pidfds' = pidfds
    PROVE  /\ procs' \in [1..MaxProcs -> Program] /\ BornInOrder' /\ OnePerPid'
           /\ OnlyBrowsersSignalled' /\ Persist
           /\ procs[i] = Unborn /\ procs'[i].kind = kind
           /\ \A j \in 1..MaxProcs \ {i} : procs'[j] = procs[j]
<1> USE ProfileAssumption
<1> DEFINE new == [kind |-> kind, pid |-> pid, alive |-> TRUE, signalled |-> "no"]
           n == HowMany
<1>1. n \in 0..MaxProcs /\ \A j \in 1..MaxProcs : procs[j] # Unborn <=> j <= n
    BY HowManyCounts
<1>2. i = n + 1
    BY DEF Born
<1> HIDE DEF n
<1>3. procs[i] = Unborn
    BY <1>1, <1>2
<1>4. /\ procs' = [procs EXCEPT ![i] = new] /\ procs \in [1..MaxProcs -> Program]
      /\ new \in Program /\ new # Unborn
    BY DEF Born, ProfileIInv, ProfileTypes, Program, Unborn
<1>5. procs'[i] = new /\ \A j \in 1..MaxProcs \ {i} : procs'[j] = procs[j]
    BY <1>4
<1>6. BornInOrder'
    <2>1. n + 1 \in 0..MaxProcs /\ \A j \in 1..MaxProcs : procs'[j] # Unborn <=> j <= n + 1
        BY <1>1, <1>2, <1>4, <1>5
    <2>2. \A j \in 1..MaxProcs : procs'[j].kind = "none" => procs'[j] = Unborn
        BY <1>5 DEF ProfileIInv, BornInOrder
    <2> QED BY <2>1, <2>2 DEF BornInOrder
<1>7. OnePerPid'
    <2>1. \A j \in 1..MaxProcs : procs[j].alive => procs[j].pid # pid
        BY DEF Born, Under
    <2> QED BY <1>5, <2>1 DEF ProfileIInv, OnePerPid
<1>8. OnlyBrowsersSignalled' /\ Persist
    BY <1>3, <1>5 DEF ProfileIInv, OnlyBrowsersSignalled, Persist
<1> QED BY <1>3, <1>4, <1>5, <1>6, <1>7, <1>8

LEMMA SpawnKeeps ==
    ASSUME ProfileIInv, NEW m \in Managers, NEW i \in 1..MaxProcs, NEW pid \in Pids,
           Spawn(m, i, pid)
    PROVE  ProfileIInv'
<1> DEFINE c == [manager[m] EXCEPT !.at = "write", !.child = i]
<1>1. /\ procs' \in [1..MaxProcs -> Program] /\ BornInOrder' /\ OnePerPid'
      /\ OnlyBrowsersSignalled' /\ Persist
      /\ procs[i] = Unborn /\ procs'[i].kind = "browser"
      /\ \A j \in 1..MaxProcs \ {i} : procs'[j] = procs[j]
    BY BornKeepsPrograms DEF Spawn
<1>2. /\ manager[m] \in Command /\ Fits(m, manager[m]) /\ manager[m].at = "spawn"
      /\ UNCHANGED <<record, strays, pidfds>> /\ m \notin 0..MaxProcs
      /\ flockHeld = {m} /\ flockHeld' = {m, i}
    BY ProfileAssumption DEF Spawn, At, ProfileIInv, ProfileTypes, Fits
<1>3. manager' = [manager EXCEPT ![m] = c]
    BY DEF Spawn, ProfileIInv, ProfileTypes
<1>4. /\ c \in Command /\ c.at = "write" /\ c.child = i
      /\ c.seen = manager[m].seen /\ c.profile = manager[m].profile
    <2>1. i \in 0..MaxProcs /\ "write" \in Places
        BY ProfileAssumption DEF Places
    <2> QED BY <1>2, <2>1 DEF Command
<1> HIDE DEF c
<1>5. /\ manager' \in [Managers -> Command] /\ manager'[m] = c
      /\ \A n \in Managers \ {m} : manager'[n] = manager[n]
    BY <1>3, <1>4 DEF ProfileIInv, ProfileTypes
<1>6. Fits(m, manager[m])'
    <2>1. NamesBrowser(c.seen) /\ c.profile \in ProfileNames
        BY <1>2, <1>4 DEF Fits
    <2>2. NamesBrowser(manager[m].seen)'
        BY <1>1, <1>5, <2>1 DEF NamesBrowser, Persist, Unborn
    <2> QED BY <1>1, <1>2, <1>4, <1>5, <2>1, <2>2 DEF Fits, Locking
<1>7. \A n \in Managers \ {m} : Fits(n, manager[n])'
    BY <1>1, <1>2, <1>5, OneHasLock, OthersFit
<1>8. LockCoversBrowser'
    <2>1. \A j \in 1..MaxProcs : procs[j].kind = "browser" /\ procs[j].alive => j \in strays
        BY <1>2, ProfileAssumption DEF ProfileIInv, LockCoversBrowser
    <2>2. \A j \in 1..MaxProcs : j \in flockHeld' => j = i
        BY <1>2, ProfileAssumption
    <2> QED BY <1>1, <1>2, <2>1, <2>2 DEF LockCoversBrowser
<1>9. ProfileTypes'
    <2>1. strays' \subseteq {j \in 1..MaxProcs : procs'[j].kind = "browser"}
        BY <1>1, <1>2 DEF ProfileIInv, ProfileTypes
    <2> QED BY <1>1, <1>2, <1>5, <2>1 DEF ProfileIInv, ProfileTypes
<1> QED BY <1>1, <1>2, <1>6, <1>7, <1>8, <1>9, RecordPersists DEF ProfileIInv

\* Programs end or are signalled; no new one starts.
LEMMA ProgramsChange ==
    ASSUME ProfileIInv, UNCHANGED <<record, pidfds>>,
           procs' \in [1..MaxProcs -> Program],
           \A j \in 1..MaxProcs :
              /\ procs[j] = Unborn <=> procs'[j] = Unborn
              /\ procs'[j].kind = procs[j].kind /\ procs'[j].pid = procs[j].pid
              /\ (procs'[j].alive => procs[j].alive),
           OnlyBrowsersSignalled', LockCoversBrowser',
           manager' \in [Managers -> Command],
           flockHeld' \subseteq flockHeld, strays' \subseteq strays,
           \A n \in Managers : n \in flockHeld => n \in flockHeld',
           NEW m \in Managers,
           manager'[m] # manager[m] => Fits(m, manager[m])',
           \A n \in Managers \ {m} : manager'[n] = manager[n]
    PROVE  ProfileIInv'
<1>1. Persist /\ BornInOrder' /\ OnePerPid'
    BY DEF ProfileIInv, Persist, BornInOrder, OnePerPid
<1>2. ProfileTypes'
    BY DEF ProfileIInv, ProfileTypes
<1>3. ASSUME NEW n \in Managers, manager'[n] = manager[n] PROVE Fits(n, manager[n])'
    <2>1. Fits(n, manager[n])
        BY DEF ProfileIInv
    <2>2. manager[n].at = "spawn" => flockHeld' = {n}
        BY <2>1 DEF Fits
    <2>3. Locking(manager[n]) => n \in flockHeld' /\ flockHeld' \subseteq {n, manager[n].child}
        BY <2>1 DEF Fits
    <2> QED BY <1>1, <1>3, <2>2, <2>3, OthersFit
<1>4. \A n \in Managers : Fits(n, manager[n])'
    BY <1>3
<1> QED BY <1>1, <1>2, <1>4, RecordPersists DEF ProfileIInv

\* The program that has ended has taken its copy of the descriptor with it.
LEMMA ExitsKeeps ==
    ASSUME ProfileIInv, NEW i \in 1..MaxProcs, Exits(i)
    PROVE  ProfileIInv'
<1> DEFINE gone == [procs[i] EXCEPT !.alive = FALSE]
<1>1. procs \in [1..MaxProcs -> Program] /\ procs[i] \in Program /\ procs[i].alive
    BY DEF Exits, ProfileIInv, ProfileTypes
<1>2. /\ gone \in Program /\ gone.kind = procs[i].kind /\ gone.pid = procs[i].pid
      /\ gone.signalled = procs[i].signalled /\ gone.alive = FALSE
    BY <1>1 DEF Program
<1>3. procs' = [procs EXCEPT ![i] = gone]
    BY DEF Exits
<1> HIDE DEF gone
<1>4. procs' \in [1..MaxProcs -> Program] /\ procs'[i] = gone
      /\ \A j \in 1..MaxProcs \ {i} : procs'[j] = procs[j]
    BY <1>1, <1>2, <1>3
<1>5. gone # Unborn /\ procs[i] # Unborn
    BY <1>1, <1>2 DEF ProfileIInv, BornInOrder, Unborn
<1>6. \A j \in 1..MaxProcs :
         /\ procs[j] = Unborn <=> procs'[j] = Unborn
         /\ procs'[j].kind = procs[j].kind /\ procs'[j].pid = procs[j].pid
         /\ procs'[j].signalled = procs[j].signalled
         /\ (procs'[j].alive => procs[j].alive /\ j # i)
    BY <1>2, <1>4, <1>5
<1>7. /\ UNCHANGED <<record, manager, pidfds>> /\ flockHeld' = flockHeld \ {i}
      /\ strays' = strays \ {i}
    BY DEF Exits
<1>8. OnlyBrowsersSignalled' /\ LockCoversBrowser'
    BY <1>6, <1>7 DEF ProfileIInv, OnlyBrowsersSignalled, LockCoversBrowser
<1>9. \A n \in Managers : n \in flockHeld => n \in flockHeld'
    BY <1>7, ProfileAssumption
<1>10. manager' \in [Managers -> Command] /\ \A n \in Managers : manager'[n] = manager[n]
    BY <1>7 DEF ProfileIInv, ProfileTypes
<1>11. CASE Managers = {}
    <2>1. ProfileTypes' /\ BornInOrder' /\ OnePerPid' /\ Persist
        BY <1>4, <1>6, <1>7 DEF ProfileIInv, ProfileTypes, BornInOrder, OnePerPid, Persist
    <2> QED BY <1>7, <1>8, <1>11, <2>1, RecordPersists DEF ProfileIInv
<1>12. CASE Managers # {}
    <2>1. PICK m \in Managers : TRUE
        BY <1>12
    <2> QED BY <1>4, <1>6, <1>7, <1>8, <1>9, <1>10, ProgramsChange
<1> QED BY <1>11, <1>12

\* A bare pid names a browser, or a program that started after the check.
LEMMA StrikeKeeps ==
    ASSUME ProfileIInv, NEW m \in Managers, Strike(m)
    PROVE  ProfileIInv'
<1> DEFINE pid == manager[m].seen.pid
           n == manager[m].since
           struck(j) == j \in Under(pid) /\ procs[j].kind # "browser"
<1>1. CASE UNCHANGED procs /\ Done(m)
    BY <1>1, StopperKeeps DEF Strike, At
<1>2. CASE procs' = Signalled(Under(pid), n) /\ AfterSignal(m)
    <2>1. PICK c \in Command : manager' = [manager EXCEPT ![m] = c] /\ Fits(m, c) /\ c.at # "strike"
        BY <1>2, AfterSignalFits DEF Strike, At
    <2>2. /\ manager' \in [Managers -> Command] /\ manager'[m] = c
          /\ \A k \in Managers \ {m} : manager'[k] = manager[k]
          /\ UNCHANGED <<record, flockHeld, strays, pidfds>>
          /\ Fits(m, manager[m]) /\ manager[m].at = "strike" /\ manager[m] \in Command
          /\ procs \in [1..MaxProcs -> Program]
        BY <2>1 DEF Strike, At, ProfileIInv, ProfileTypes
    <2>3. ASSUME NEW j \in 1..MaxProcs
          PROVE  /\ procs'[j] \in Program
                 /\ procs[j] = Unborn <=> procs'[j] = Unborn
                 /\ procs'[j].kind = procs[j].kind /\ procs'[j].pid = procs[j].pid
                 /\ procs'[j].alive = procs[j].alive
                 /\ procs'[j].signalled \in {procs[j].signalled, "late"}
        <3>1. CASE ~struck(j)
            <4>1. procs'[j] = procs[j]
                BY <1>2, <3>1 DEF Signalled
            <4> QED BY <2>2, <4>1
        <3>2. CASE struck(j)
            <4>1. ~(j <= n) /\ procs[j].alive
                BY <2>2, <3>2 DEF Fits, Under
            <4>2. procs'[j] = [procs[j] EXCEPT !.signalled = "late"]
                BY <1>2, <3>2, <4>1 DEF Signalled
            <4>3. procs[j] \in Program
                BY <2>2
            <4>4. /\ procs'[j] \in Program
                  /\ procs'[j].kind = procs[j].kind /\ procs'[j].pid = procs[j].pid
                  /\ procs'[j].alive = procs[j].alive /\ procs'[j].signalled = "late"
                BY <4>2, <4>3 DEF Program
            <4> QED BY <4>1, <4>4 DEF Unborn
        <3> QED BY <3>1, <3>2
    <2>4. procs' \in [1..MaxProcs -> Program]
        BY <1>2, <2>3 DEF Signalled
    <2>5. ~pidfds
        BY <2>2 DEF Fits
    <2>6. OnlyBrowsersSignalled' /\ LockCoversBrowser'
        BY <2>2, <2>3, <2>5 DEF ProfileIInv, OnlyBrowsersSignalled, LockCoversBrowser
    <2>7. Fits(m, manager[m])'
        <3>1. NamesBrowser(c.seen) /\ Fits(m, c)
            BY <2>1 DEF Fits
        <3>2. \A j \in 1..MaxProcs : procs'[j].kind = procs[j].kind /\ procs'[j].pid = procs[j].pid
            BY <2>3
        <3>3. NamesBrowser(manager[m].seen)'
            BY <2>2, <3>1, <3>2 DEF NamesBrowser
        <3>4. c.child # 0 => procs'[c.child].kind = "browser"
            BY <3>1, <3>2, ProfileAssumption DEF Fits, Command
        <3> QED BY <2>1, <2>2, <3>1, <3>3, <3>4 DEF Fits, Locking
    <2> QED BY <2>2, <2>3, <2>4, <2>6, <2>7, ProgramsChange
<1> QED BY <1>1, <1>2 DEF Strike

\* Whatever starts beside the browsers gets a pid nobody has, perhaps one
\* that a record still names.
LEMMA OtherStartsKeeps ==
    ASSUME ProfileIInv, NEW i \in 1..MaxProcs, NEW pid \in Pids, OtherStarts(i, pid)
    PROVE  ProfileIInv'
<1>1. /\ procs' \in [1..MaxProcs -> Program] /\ BornInOrder' /\ OnePerPid'
      /\ OnlyBrowsersSignalled' /\ Persist
      /\ procs[i] = Unborn /\ procs'[i].kind = "other"
      /\ \A j \in 1..MaxProcs \ {i} : procs'[j] = procs[j]
    BY BornKeepsPrograms DEF OtherStarts
<1>2. UNCHANGED <<record, flockHeld, manager, strays, pidfds>>
    BY DEF OtherStarts
<1>3. /\ procs[i].kind # "browser"
      /\ \A j \in 1..MaxProcs : procs'[j].kind = "browser" => procs'[j] = procs[j]
    BY <1>1 DEF Unborn
<1>4. LockCoversBrowser' /\ ProfileTypes'
    BY <1>1, <1>2, <1>3 DEF ProfileIInv, LockCoversBrowser, ProfileTypes
<1>5. ASSUME NEW n \in Managers PROVE Fits(n, manager[n])'
    <2>1. Fits(n, manager[n])
        BY DEF ProfileIInv
    <2> QED BY <1>1, <1>2, <2>1, OthersFit DEF Fits
<1> QED BY <1>1, <1>2, <1>4, <1>5, RecordPersists DEF ProfileIInv

LEMMA ProfileIdle == ProfileIInv /\ UNCHANGED profileVars => ProfileIInv'
<1> SUFFICES ASSUME ProfileIInv, UNCHANGED profileVars PROVE ProfileIInv'
    OBVIOUS
<1>1. UNCHANGED <<procs, record, flockHeld, manager, strays, pidfds>>
    BY DEF profileVars
<1>2. /\ ProfileTypes' /\ BornInOrder' /\ OnePerPid' /\ OnlyBrowsersSignalled'
      /\ NamesBrowser(record)' /\ LockCoversBrowser'
    BY <1>1 DEF ProfileIInv, ProfileTypes, BornInOrder, OnePerPid, OnlyBrowsersSignalled,
                NamesBrowser, LockCoversBrowser
<1>3. \A m \in Managers : Fits(m, manager[m])'
    BY <1>1 DEF ProfileIInv, Fits, Locking, NamesBrowser
<1> QED BY <1>2, <1>3 DEF ProfileIInv

LEMMA ProfileStep == ProfileIInv /\ [ProfileNext]_profileVars => ProfileIInv'
<1> SUFFICES ASSUME ProfileIInv, [ProfileNext]_profileVars PROVE ProfileIInv'
    OBVIOUS
<1>a. record \in Record /\ NamesBrowser(record)
    BY DEF ProfileIInv, ProfileTypes
<1>1. ASSUME NEW m \in Managers, Unrecord(m) \/ SpawnFails(m) PROVE ProfileIInv'
    <2>1. Fits(m, manager[m])
        BY DEF ProfileIInv
    <2>2. CASE Unrecord(m)
        <3>1. Goes(m, "acquire") /\ manager[m].profile \in ProfileNames
            BY <2>1, <2>2 DEF Unrecord, At, Fits
        <3>2. record' \in Record /\ NamesBrowser(record')
            BY <2>2, RestingIsCommand DEF Unrecord, NamesBrowser
        <3> QED BY <2>2, <3>1, <3>2, GoesOn DEF Unrecord, Places
    <2>3. CASE SpawnFails(m)
        <3>1. Goes(m, "unlock") /\ flockHeld = {m}
            BY <2>1, <2>3 DEF SpawnFails, At, Fits
        <3>2. record' = record
            BY <2>3 DEF SpawnFails
        <3> QED BY <1>a, <2>3, <3>1, <3>2, GoesOn DEF SpawnFails, Places
    <2> QED BY <1>1, <2>2, <2>3
<1>2. ASSUME NEW m \in Managers, EraseState(m) PROVE ProfileIInv'
    BY <1>2, RestsKeeps DEF EraseState
<1>3. ASSUME NEW m \in Managers, PollFails(m) \/ StopAsked(m) PROVE ProfileIInv'
    <2> DEFINE c == [Resting EXCEPT !.at = "leave", !.profile = manager[m].profile]
    <2>1. manager[m] \in Command
        BY DEF ProfileIInv, ProfileTypes
    <2>2. c \in Command /\ c.at = "leave" /\ c.seen = NothingRecorded /\ c.child = 0
        BY <2>1, RestingIsCommand DEF Command, Places
    <2>3. manager' = [manager EXCEPT ![m] = c]
        BY <1>3 DEF PollFails, StopAsked, StopsWatching
    <2> HIDE DEF c
    <2>4. Fits(m, c)
        BY <2>2 DEF Fits, Locking, NamesBrowser
    <2>5. UNCHANGED <<procs, record, flockHeld, strays, pidfds>>
        BY <1>3 DEF PollFails, StopAsked
    <2> QED BY <1>a, <2>2, <2>3, <2>4, <2>5, MovesOn
<1>4. ASSUME NEW m \in Managers, SupervisorLeaves(m) PROVE ProfileIInv'
    BY <1>4, StopsKeeps, RestsKeeps DEF SupervisorLeaves
<1>5. ASSUME NEW m \in Managers, NEW p \in ProfileNames, NEW s \in BOOLEAN, StartReads(m, p, s)
      PROVE  ProfileIInv'
    BY <1>5, StartReadsKeeps
<1>6. ASSUME NEW m \in Managers, NEW p \in ProfileNames, StopReads(m, p)
      PROVE  ProfileIInv'
    BY <1>6, StopsKeeps DEF StopReads
<1>7. ASSUME NEW m \in Managers, NEW i \in 1..MaxProcs, NEW pid \in Pids, Spawn(m, i, pid)
      PROVE  ProfileIInv'
    BY <1>7, SpawnKeeps
<1>8. ASSUME NEW m \in Managers,
             \/ Acquire(m) \/ WriteState(m) \/ Transfer(m) \/ StartFails(m) \/ Unlock_(m)
             \/ Signal(m) \/ Strike(m) \/ Await(m) \/ Killed(m)
      PROVE  ProfileIInv'
    BY <1>8, AcquireKeeps, WriteStateKeeps, TransferKeeps, UnlockKeeps, SignalKeeps,
       StrikeKeeps, AwaitKeeps, KilledKeeps
<1>9. ASSUME NEW i \in 1..MaxProcs, NEW pid \in Pids, OtherStarts(i, pid) PROVE ProfileIInv'
    BY <1>9, OtherStartsKeeps
<1> QED BY <1>1, <1>2, <1>3, <1>4, <1>5, <1>6, <1>7, <1>8, <1>9, ExitsKeeps, ProfileIdle
        DEF ProfileNext

(* However many managers start, stop, supervise, fail or are killed        *)
(* between two steps, and whatever becomes of the state file and of the    *)
(* pids in it, one browser at most is running beside those of failed       *)
(* starts.  Nothing but a browser of the service is ever signalled through *)
(* a pidfd, and without pidfds only a program that took the pid over after *)
(* the check can be.                                                       *)
THEOREM OneBrowserRuns == ProfileSpec => []ProfileInv
<1>1. ProfileIInv => ProfileInv
    <2> SUFFICES ASSUME ProfileIInv PROVE ProfileInv
        OBVIOUS
    <2>1. ProfileTypeOK
        BY DEF ProfileIInv, ProfileTypes, Program, Command, NamesBrowser, ProfileTypeOK
    <2>2. OneBrowser
        <3> DEFINE alive == {i \in 1..MaxProcs : procs[i].kind = "browser" /\ procs[i].alive}
                   browsers == alive \ strays
        <3>1. CASE browsers = {}
            BY <3>1, FS_EmptySet DEF OneBrowser
        <3>2. ASSUME NEW i \in browsers PROVE OneBrowser
            <4>1. browsers \subseteq {i}
                BY <3>2 DEF ProfileIInv, LockCoversBrowser
            <4>2. IsFiniteSet({i}) /\ Cardinality({i}) = 1
                BY FS_Singleton
            <4> QED BY <4>1, <4>2, FS_Subset DEF OneBrowser
        <3> QED BY <3>1, <3>2
    <2> QED BY <2>1, <2>2 DEF ProfileInv, ProfileIInv
<1>2. ProfileInit => ProfileIInv
    BY ProfileInitial
<1>3. ProfileIInv /\ [ProfileNext]_profileVars => ProfileIInv'
    BY ProfileStep
<1> QED BY <1>1, <1>2, <1>3, PTL DEF ProfileSpec
-------------------------------------------------------------------------------
(* Migrations.  The versions a run may still send have passed its audit:   *)
(* the hosted ledger only grows, so what is missing later was missing when *)
(* the audited list was made.                                              *)

Request == [id : 1..MaxRequests, version : Versions, checkout : SUBSET Versions]
Release ==
    [at : {"rest", "audit", "read", "send", "await", "confirm", "failed", "verify", "current"},
     checkout : SUBSET Versions, pending : SUBSET Versions, request : 0..MaxRequests]

MigrationTypes ==
    /\ ledger \subseteq Versions /\ effects \in [Versions -> Nat] /\ sent \in 0..MaxRequests
    /\ requests \subseteq Request /\ release \in [Releases -> Release]

Applies(run) == run.at \in {"send", "await", "confirm", "failed"}

\* What a run holds in its hands, against the ledger the database has.
Cleared(run) ==
    /\ run.pending \subseteq run.checkout
    /\ run.at = "audit" => run.checkout \ ledger \subseteq run.pending
    /\ run.at = "read" => \A v \in run.checkout \ ledger : WithinAllowlist(v)
    /\ Applies(run) => run.pending # {} /\ \A v \in run.pending : WithinAllowlist(v)
    /\ run.at = "current" => run.checkout \subseteq ledger

MigrationIInv ==
    /\ MigrationTypes
    /\ \A r \in Releases : Cleared(release[r])
    /\ \A q \in requests : q.version \in q.checkout /\ WithinAllowlist(q.version)
    /\ \A v \in ledger \ Preapplied : WithinAllowlist(v)
    /\ MigratedOnce

\* The next version to send is one of those that are left.
LEMMA NextIsPending ==
    ASSUME NEW S \in SUBSET Nat, S # {}
    PROVE  Min(S) \in S
<1>1. PICK x \in S : \A y \in S : ~ (<<y, x>> \in OpToRel(<, Nat))
    BY NatLessThanWellFounded, WFMin
<1>2. \A y \in S : x <= y
    <2> SUFFICES ASSUME NEW y \in S PROVE x <= y
        OBVIOUS
    <2>1. x \in Nat /\ y \in Nat
        OBVIOUS
    <2>2. ~(y < x)
        BY <1>1, <2>1 DEF OpToRel
    <2> QED BY <2>1, <2>2
<1> QED BY <1>2 DEF Min

LEMMA MigrationInitial == MigrationInit => MigrationIInv
<1> SUFFICES ASSUME MigrationInit PROVE MigrationIInv
    OBVIOUS
<1> USE MigrationAssumption
<1>1. Waiting \in Release /\ Cleared(Waiting)
    BY DEF Waiting, Release, Cleared, Applies
<1>2. MigrationTypes
    BY <1>1 DEF MigrationInit, MigrationTypes
<1> QED BY <1>1, <1>2 DEF MigrationInit, MigrationIInv, MigratedOnce

\* A run moves by itself: nothing of the database changes.
LEMMA MoveKeeps ==
    ASSUME MigrationIInv, NEW r \in Releases, NEW run \in Release, Cleared(run),
           release' = [release EXCEPT ![r] = run],
           UNCHANGED <<ledger, effects, requests, sent>>
    PROVE  MigrationIInv'
<1>1. release' \in [Releases -> Release]
    BY DEF MigrationIInv, MigrationTypes
<1>2. ledger' = ledger /\ effects' = effects /\ requests' = requests /\ sent' = sent
    OBVIOUS
<1>3. MigrationTypes'
    BY <1>1, <1>2 DEF MigrationIInv, MigrationTypes
<1>4. \A s \in Releases : release'[s] = IF s = r THEN run ELSE release[s]
    BY DEF MigrationIInv, MigrationTypes
<1>5. \A s \in Releases : Cleared(release'[s])
    BY <1>4 DEF MigrationIInv
<1>6. \A s \in Releases : Cleared(release[s])'
    BY <1>2, <1>5 DEF Cleared
<1> QED BY <1>2, <1>3, <1>6 DEF MigrationIInv, MigratedOnce

LEMMA StopKeeps ==
    ASSUME MigrationIInv, NEW r \in Releases, RunStops(r),
           UNCHANGED <<ledger, effects, requests, sent>>
    PROVE  MigrationIInv'
<1>1. Waiting \in Release /\ Cleared(Waiting)
    BY MigrationAssumption DEF Waiting, Release, Cleared, Applies
<1> QED BY <1>1, MoveKeeps DEF RunStops

\* A run goes on with its own checkout.
LEMMA GoesOnKeeps ==
    ASSUME MigrationIInv, NEW r \in Releases, NEW pending \in SUBSET release[r].checkout,
           NEW where \in {"read", "send", "verify", "current"}, Moves(r, where, pending),
           where = "read" => \A v \in release[r].checkout \ ledger : WithinAllowlist(v),
           where = "send" => pending # {} /\ \A v \in pending : WithinAllowlist(v),
           where = "current" => release[r].checkout \subseteq ledger,
           UNCHANGED <<ledger, effects, requests, sent>>
    PROVE  MigrationIInv'
<1> DEFINE run == [release[r] EXCEPT !.at = where, !.pending = pending]
<1>1. release[r] \in Release /\ release \in [Releases -> Release]
    BY DEF MigrationIInv, MigrationTypes
<1>2. run \in Release
    BY <1>1 DEF Release
<1>3. run.at = where /\ run.pending = pending /\ run.checkout = release[r].checkout
    BY <1>1 DEF Release
<1>4. release' = [release EXCEPT ![r] = run]
    BY <1>1 DEF Moves
<1> HIDE DEF run
<1>5. Cleared(run)
    BY <1>3 DEF Cleared, Applies
<1> QED BY <1>2, <1>4, <1>5, MoveKeeps

LEMMA ListKeeps ==
    ASSUME MigrationIInv, NEW r \in Releases, NEW c \in Checkouts, List(r, c)
    PROVE  MigrationIInv'
<1> DEFINE run == [Waiting EXCEPT !.at = "audit", !.checkout = c, !.pending = c \ ledger]
<1>1. c \subseteq Versions
    BY DEF Versions
<1>2. run \in Release /\ run.at = "audit" /\ run.checkout = c /\ run.pending = c \ ledger
    <2>1. 0 \in 0..MaxRequests
        BY MigrationAssumption
    <2>2. c \in SUBSET Versions /\ c \ ledger \in SUBSET Versions
        BY <1>1
    <2> QED BY <2>1, <2>2 DEF Waiting, Release
<1>3. release' = [release EXCEPT ![r] = run] /\ UNCHANGED <<ledger, effects, requests, sent>>
    BY DEF List
<1> HIDE DEF run
<1>4. Cleared(run)
    BY <1>2 DEF Cleared, Applies
<1> QED BY <1>2, <1>3, <1>4, MoveKeeps

\* The audited list covers whatever the ledger still lacks.
LEMMA AuditKeeps ==
    ASSUME MigrationIInv, NEW r \in Releases, Audit(r)
    PROVE  MigrationIInv'
<1>1. CASE RunStops(r)
    BY <1>1, StopKeeps DEF Audit
<1>2. CASE Moves(r, "read", {}) /\ \A v \in release[r].pending : WithinAllowlist(v)
    <2>1. release[r].checkout \ ledger \subseteq release[r].pending
        BY DEF Audit, MigrationIInv, Cleared
    <2> QED BY <1>2, <2>1, GoesOnKeeps DEF Audit
<1> QED BY <1>1, <1>2 DEF Audit

LEMMA ReadLedgerKeeps ==
    ASSUME MigrationIInv, NEW r \in Releases, ReadLedger(r)
    PROVE  MigrationIInv'
<1>1. CASE RunStops(r)
    BY <1>1, StopKeeps DEF ReadLedger
<1>2. CASE Moves(r, IF Missing(r) = {} THEN "verify" ELSE "send", Missing(r))
    <2>1. \A v \in Missing(r) : WithinAllowlist(v)
        BY DEF ReadLedger, MigrationIInv, Cleared, Missing
    <2>2. Missing(r) \in SUBSET release[r].checkout
        BY DEF Missing
    <2>3. CASE Missing(r) = {}
        BY <1>2, <2>2, <2>3, GoesOnKeeps DEF ReadLedger
    <2>4. CASE Missing(r) # {}
        BY <1>2, <2>1, <2>2, <2>4, GoesOnKeeps DEF ReadLedger
    <2> QED BY <2>3, <2>4
<1> QED BY <1>1, <1>2 DEF ReadLedger

LEMMA ConfirmKeeps ==
    ASSUME MigrationIInv, NEW r \in Releases, Confirm(r)
    PROVE  MigrationIInv'
<1> DEFINE left == release[r].pending \ {Min(release[r].pending)}
<1>1. CASE RunStops(r)
    BY <1>1, StopKeeps DEF Confirm
<1>2. CASE Moves(r, IF left = {} THEN "verify" ELSE "send", left)
    <2>1. left \in SUBSET release[r].checkout /\ \A v \in left : WithinAllowlist(v)
        BY DEF Confirm, MigrationIInv, Cleared, Applies
    <2>2. UNCHANGED <<ledger, effects, requests, sent>>
        BY DEF Confirm
    <2> HIDE DEF left
    <2>3. CASE left = {}
        BY <1>2, <2>1, <2>2, <2>3, GoesOnKeeps
    <2>4. CASE left # {}
        BY <1>2, <2>1, <2>2, <2>4, GoesOnKeeps
    <2> QED BY <2>3, <2>4
<1> QED BY <1>1, <1>2 DEF Confirm

LEMMA VerifyKeeps ==
    ASSUME MigrationIInv, NEW r \in Releases, Verify(r)
    PROVE  MigrationIInv'
<1>1. CASE RunStops(r)
    BY <1>1, StopKeeps DEF Verify
<1>2. CASE Moves(r, "current", {}) /\ IsCurrent(r)
    <2>1. release[r].checkout \subseteq ledger
        BY <1>2 DEF IsCurrent, Missing
    <2> QED BY <1>2, <2>1, GoesOnKeeps DEF Verify
<1> QED BY <1>1, <1>2 DEF Verify

LEMMA SendKeeps ==
    ASSUME MigrationIInv, NEW r \in Releases, Send(r)
    PROVE  MigrationIInv'
<1> USE MigrationAssumption
<1> DEFINE v == Min(release[r].pending)
           request == [id |-> sent + 1, version |-> v, checkout |-> release[r].checkout]
           run == [release[r] EXCEPT !.at = "await", !.request = sent + 1]
<1>1. /\ release[r] \in Release /\ release \in [Releases -> Release]
      /\ sent \in 0..MaxRequests /\ sent + 1 \in 1..MaxRequests /\ sent + 1 \in 0..MaxRequests
    BY DEF Send, MigrationIInv, MigrationTypes
<1>2. v \in release[r].pending /\ v \in release[r].checkout /\ WithinAllowlist(v)
    <2>1. release[r].pending \in SUBSET Nat /\ release[r].pending # {}
        BY <1>1 DEF Send, MigrationIInv, Cleared, Applies, Release
    <2>2. v \in release[r].pending
        BY <2>1, NextIsPending
    <2> QED BY <2>2 DEF Send, MigrationIInv, Cleared, Applies
<1>3. request \in Request /\ request.version = v /\ request.checkout = release[r].checkout
    BY <1>1, <1>2 DEF Release, Request
<1>4. /\ run \in Release /\ run.at = "await" /\ run.pending = release[r].pending
      /\ run.checkout = release[r].checkout
    <2> HIDE MigrationAssumption
    <2> QED BY <1>1 DEF Release
<1>5. /\ requests' = requests \cup {request} /\ release' = [release EXCEPT ![r] = run]
      /\ sent' = sent + 1 /\ ledger' = ledger /\ effects' = effects
    BY <1>1 DEF Send
<1> HIDE DEF v, request, run
<1>6. MigrationTypes'
    BY <1>1, <1>3, <1>4, <1>5 DEF MigrationIInv, MigrationTypes
<1>7. \A s \in Releases : Cleared(release[s])'
    <2>1. Cleared(run)
        BY <1>4 DEF Send, MigrationIInv, Cleared, Applies
    <2>2. \A s \in Releases : Cleared(release'[s])
        BY <1>1, <1>5, <2>1 DEF MigrationIInv
    <2> QED BY <1>5, <2>2 DEF Cleared
<1> QED BY <1>2, <1>3, <1>5, <1>6, <1>7 DEF MigrationIInv, MigratedOnce

\* Whoever awaits the request is told how it ended, and keeps its checkout
\* and its list.  The ledger has not lost a version meanwhile.
LEMMA AnswerKeeps ==
    ASSUME MigrationIInv, NEW q \in requests, NEW where \in {"confirm", "failed"},
           Answers(q, where), ledger \subseteq ledger'
    PROVE  release' \in [Releases -> Release] /\ \A r \in Releases : Cleared(release[r])'
<1> DEFINE told(r) == [release[r] EXCEPT !.at = where, !.request = 0]
           next(r) == IF release[r].at = "await" /\ release[r].request = q.id
                      THEN told(r) ELSE release[r]
<1>1. ASSUME NEW r \in Releases
      PROVE  /\ next(r) \in Release /\ next(r).checkout = release[r].checkout
             /\ next(r).pending = release[r].pending
             /\ \/ next(r).at = release[r].at
                \/ release[r].at = "await" /\ next(r).at = where
    <2>1. release[r] \in Release /\ 0 \in 0..MaxRequests
        BY MigrationAssumption DEF MigrationIInv, MigrationTypes
    <2>2. told(r) \in Release
        BY <2>1 DEF Release
    <2>3. /\ told(r).at = where /\ told(r).checkout = release[r].checkout
          /\ told(r).pending = release[r].pending
        BY <2>1 DEF Release
    <2> HIDE DEF told
    <2> QED BY <2>1, <2>2, <2>3
<1>2. release' = [r \in Releases |-> next(r)]
    BY DEF Answers
<1> HIDE DEF next
<1>3. release' \in [Releases -> Release]
    BY <1>1, <1>2
<1>4. ASSUME NEW r \in Releases PROVE Cleared(release[r])'
    <2>1. release'[r] = next(r) /\ Cleared(release[r])
        BY <1>2 DEF MigrationIInv
    <2> QED BY <1>1, <2>1 DEF Cleared, Applies
<1> QED BY <1>3, <1>4

\* The primary key lets a version in once.
LEMMA CommitKeeps ==
    ASSUME MigrationIInv, NEW q \in requests, Commit(q)
    PROVE  MigrationIInv'
<1> DEFINE v == q.version
<1>1. /\ v \in Versions /\ v \notin ledger /\ WithinAllowlist(v)
      /\ effects \in [Versions -> Nat] /\ ledger \subseteq Versions
    BY DEF Commit, RowFits, MigrationIInv, MigrationTypes, Request
<1>2. /\ ledger' = ledger \cup {v} /\ effects' = [effects EXCEPT ![v] = effects[v] + 1]
      /\ requests' = requests \ {q} /\ sent' = sent
    BY DEF Commit
<1>3. release' \in [Releases -> Release] /\ \A r \in Releases : Cleared(release[r])'
    BY <1>2, AnswerKeeps DEF Commit
<1>4. MigrationTypes'
    BY <1>1, <1>2, <1>3 DEF MigrationIInv, MigrationTypes
<1>5. MigratedOnce'
    BY <1>1, <1>2 DEF MigrationIInv, MigratedOnce
<1> QED BY <1>1, <1>2, <1>3, <1>4, <1>5 DEF MigrationIInv

LEMMA RollBackKeeps ==
    ASSUME MigrationIInv, NEW q \in requests, RollBack(q)
    PROVE  MigrationIInv'
<1>1. ledger' = ledger /\ effects' = effects /\ sent' = sent /\ requests' = requests \ {q}
    BY DEF RollBack
<1>2. release' \in [Releases -> Release] /\ \A r \in Releases : Cleared(release[r])'
    BY <1>1, AnswerKeeps DEF RollBack
<1>3. MigrationTypes'
    BY <1>1, <1>2 DEF MigrationIInv, MigrationTypes
<1> QED BY <1>1, <1>2, <1>3 DEF MigrationIInv, MigratedOnce

(* However many runs overlap, from whatever revisions, and however late    *)
(* the database commits what a run has given up: each migration takes      *)
(* effect once and with its row, only migrations the audit allowed are     *)
(* applied, and a run that reports a current ledger is right.              *)
THEOREM MigrationsApplyOnce == MigrationSpec => []MigrationInv
<1>1. MigrationIInv /\ [MigrationNext]_migrationVars => MigrationIInv'
    <2> SUFFICES ASSUME MigrationIInv, [MigrationNext]_migrationVars PROVE MigrationIInv'
        OBVIOUS
    <2>1. ASSUME NEW r \in Releases, LoseAnswer(r) \/ Leaves(r) PROVE MigrationIInv'
        BY <2>1, StopKeeps DEF LoseAnswer, Leaves, GivesUp
    <2>2. CASE UNCHANGED migrationVars
        BY <2>2 DEF migrationVars, MigrationIInv, MigrationTypes, MigratedOnce, Cleared
    <2> QED BY <2>1, <2>2, ListKeeps, AuditKeeps, ReadLedgerKeeps, SendKeeps, ConfirmKeeps,
               VerifyKeeps, CommitKeeps, RollBackKeeps DEF MigrationNext
<1>2. MigrationIInv => MigrationInv
    <2> SUFFICES ASSUME MigrationIInv PROVE MigrationInv
        OBVIOUS
    <2>1. MigrationTypeOK
        BY DEF MigrationIInv, MigrationTypes, MigrationTypeOK, Release, Cleared, Applies
    <2>2. AppliedWasAllowed /\ CurrentIsComplete
        BY DEF MigrationIInv, AppliedWasAllowed, CurrentIsComplete, WithinAllowlist, Cleared
    <2> QED BY <2>1, <2>2 DEF MigrationIInv, MigrationInv
<1> QED BY <1>1, <1>2, MigrationInitial, PTL DEF MigrationSpec
-------------------------------------------------------------------------------
(* Migration text.  The runner's scanners and PostgreSQL's are in one mode *)
(* after every token, and so what they know of the file is the same; the   *)
(* audit's is in the corresponding one until it has lost its way.          *)

Modes ==
    [in : {"code", "quote", "quote?", "equote", "equote?", "taken", "line"} \cup Tags, depth : {0}]
        \cup [in : {"block"}, depth : 1..MaxDepth]
AuditModes == {m \in Modes : m.in \notin {"quote", "quote?"}}
StatementKinds == ControlWords \cup {"blank", "spoiled", "other"}

ScriptTypes ==
    /\ scans = [strip |-> scans.strip, top |-> scans.top, audit |-> scans.audit, pg |-> scans.pg]
    /\ scans.top \in Modes /\ scans.strip = scans.top
    /\ scans.pg \in Modes /\ scans.audit \in AuditModes
    /\ piece \in StatementKinds /\ pgPiece \in StatementKinds
    /\ file \in FileStates /\ ran \in RunStates
    /\ hid \in BOOLEAN /\ excused \in BOOLEAN /\ misread \in BOOLEAN /\ over \in BOOLEAN

\* One text, one reading: the same statements, and the same file of them.
ReadAlike ==
    /\ scans.top = scans.pg /\ piece = pgPiece
    /\ file = "empty" <=> ran = "before"
    /\ file = "open" <=> ran = "begun"
    /\ file = "filled" <=> ran = "inside"
    /\ file = "closed" <=> ran = "after"

\* What the audit takes a mode of PostgreSQL's for.  The quote that ended a
\* string may be any code to it, and so may a body be anything.
Follows(audit, pg) ==
    CASE IsCode(pg) -> IsCode(audit)
      [] pg.in \in {"quote", "equote"} -> audit.in = "equote"
      [] pg.in \in {"taken", "line", "block"} -> audit = pg
      [] OTHER -> TRUE

ScriptIInv ==
    /\ ScriptTypes /\ NothingHidden
    /\ ~misread => ReadAlike
    /\ ~excused => Follows(scans.audit, scans.pg)

LEMMA TagsAreApart ==
    /\ MaxDepth \in Nat
    /\ \A m \in Tags : m \notin {"begin", "commit", "'", "E'", "\\", "--", "nl", "/*", "*/", "semicolon",
                                 "delete", "word", "code", "quote", "quote?", "equote", "equote?",
                                 "taken", "line", "block"}
    /\ \A t \in DOMAIN Glued :
          /\ Glued[t] \in Tags
          /\ t \notin Tags \cup {"begin", "commit", "'", "E'", "\\", "--", "nl", "/*", "*/", "semicolon",
                              "delete", "word"}
BY ScriptAssumption

\* What a scanner finds is a token too, and only a delimiter is found in another.
LEMMA FoundIs ==
    ASSUME NEW m, NEW t \in Tokens
    PROVE  /\ Found(t) \in Tokens /\ PgFound(m, t) \in Tokens
           /\ t \notin DOMAIN Glued => Found(t) = t /\ PgFound(m, t) = t
           /\ t \in DOMAIN Glued => Found(t) = Glued[t] /\ PgFound(m, t) \in {"word", Glued[t]}
           /\ ~ (t \in DOMAIN Glued /\ IsCode(m)) => PgFound(m, t) = Found(t)
BY TagsAreApart DEF Found, PgFound, Tokens

\* What opens in code.
LEMMA OpensIs ==
    ASSUME NEW t, NEW escaping, NEW tags \in SUBSET Tags
    PROVE  /\ t \in {"'", "E'"} =>
                  Opened(t, escaping, tags) = Mode(IF t \in escaping THEN "equote" ELSE "quote", 0)
           /\ t = "--" => Opened(t, escaping, tags) = Mode("line", 0)
           /\ t = "/*" => Opened(t, escaping, tags) = Mode("block", 1)
           /\ t \in tags => Opened(t, escaping, tags) = Mode(t, 0)
           /\ t \notin {"'", "E'", "--", "/*"} \cup tags => Opened(t, escaping, tags) = Outside
<1>1. t \in tags => t \notin {"'", "E'", "--", "/*"}
    BY TagsAreApart
<1>2. t \in {"'", "E'"} =>
          Opened(t, escaping, tags) = Mode(IF t \in escaping THEN "equote" ELSE "quote", 0)
    BY <1>1 DEF Opened
<1>3. t = "--" => Opened(t, escaping, tags) = Mode("line", 0)
    BY <1>1 DEF Opened
<1>4. t = "/*" => Opened(t, escaping, tags) = Mode("block", 1)
    BY <1>1 DEF Opened
<1>5. t \in tags => Opened(t, escaping, tags) = Mode(t, 0)
    BY <1>1 DEF Opened
<1>6. t \notin {"'", "E'", "--", "/*"} \cup tags => Opened(t, escaping, tags) = Outside
    BY DEF Opened
<1> QED
    BY <1>2, <1>3, <1>4, <1>5, <1>6

LEMMA ModeIs ==
    /\ \A w \in {"code", "quote", "quote?", "equote", "equote?", "taken", "line"} \cup Tags :
          Mode(w, 0) \in Modes
    /\ \A n \in 1..MaxDepth : Mode("block", n) \in Modes
    /\ Outside \in Modes
<1>1. \A w \in {"code", "quote", "quote?", "equote", "equote?", "taken", "line"} \cup Tags :
          Mode(w, 0) \in Modes
    BY DEF Mode, Modes
<1>2. \A n \in 1..MaxDepth : Mode("block", n) \in Modes
    BY DEF Mode, Modes
<1> QED
    BY <1>1, <1>2 DEF Outside

LEMMA OpenedIs ==
    ASSUME NEW t \in Tokens, NEW escaping, NEW tags \in SUBSET Tags, MaxDepth > 0 \/ t # "/*"
    PROVE  Opened(t, escaping, tags) \in Modes
<1>1. CASE t \in {"'", "E'"}
    <2>1. Mode(IF t \in escaping THEN "equote" ELSE "quote", 0) \in Modes
        BY ModeIs
    <2> QED
        BY <1>1, <2>1, OpensIs
<1>2. CASE t = "--"
    BY <1>2, OpensIs, ModeIs
<1>3. CASE t = "/*"
    <2>1. 1 \in 1..MaxDepth
        BY <1>3, TagsAreApart
    <2> QED
        BY <1>3, <2>1, OpensIs, ModeIs
<1>4. CASE t \in tags
    <2>1. t \in Tags
        BY <1>4
    <2>2. Mode(t, 0) \in Modes
        BY <2>1, ModeIs
    <2>3. Opened(t, escaping, tags) = Mode(t, 0)
        BY <1>4, OpensIs
    <2> QED
        BY <2>2, <2>3
<1>5. CASE t \notin {"'", "E'", "--", "/*"} \cup tags
    BY <1>5, OpensIs, ModeIs
<1> QED
    BY <1>1, <1>2, <1>3, <1>4, <1>5

LEMMA ModeOfToken ==
    ASSUME NEW m \in Modes, NEW t \in Tokens, NEW escaping, NEW tags \in SUBSET Tags,
           m.depth = MaxDepth => t # "/*"
    PROVE  Scanned(m, t, escaping, tags) \in Modes
<1> USE TagsAreApart
<1>1. CASE m.in = "block"
    <2>1. m \in [in : {"block"}, depth : 1..MaxDepth]
        BY <1>1 DEF Modes
    <2>2. m.depth \in 1..MaxDepth
        BY <2>1
    <2>3. CASE t = "/*"
        <3>1. Scanned(m, t, escaping, tags) = Mode("block", m.depth + 1)
            BY <1>1, <2>3 DEF Scanned
        <3>2. m.depth + 1 \in 1..MaxDepth
            BY <2>2, <2>3
        <3> QED
            BY <3>1, <3>2, ModeIs
    <2>4. CASE t = "*/"
        <3>1. Scanned(m, t, escaping, tags) = IF m.depth = 1 THEN Outside ELSE Mode("block", m.depth - 1)
            BY <1>1, <2>4 DEF Scanned
        <3>2. m.depth # 1 => m.depth - 1 \in 1..MaxDepth
            BY <2>2
        <3> QED
            BY <3>1, <3>2, ModeIs
    <2>5. CASE t \notin {"/*", "*/"}
        <3>1. Scanned(m, t, escaping, tags) = m
            BY <1>1, <2>5 DEF Scanned
        <3> QED
            BY <3>1
    <2> QED
        BY <2>3, <2>4, <2>5
<1>2. CASE m.in # "block"
    <2>1. /\ m.depth = 0
          /\ m.in \in {"code", "quote", "quote?", "equote", "equote?", "taken", "line"} \cup Tags
        BY <1>2 DEF Modes
    <2>2. MaxDepth > 0 \/ t # "/*"
        BY <2>1
    <2>3. Opened(t, escaping, tags) \in Modes
        BY <2>2, OpenedIs
    <2>4. CASE m.in \in tags
        <3>1. Scanned(m, t, escaping, tags) = IF t = m.in THEN Outside ELSE m
            BY <2>4 DEF Scanned
        <3> QED
            BY <3>1, ModeIs
    <2>5. CASE m.in \in {"quote", "equote", "taken"}
        <3>1. Scanned(m, t, escaping, tags) \in
                  {m, Mode("quote?", 0), Mode("equote?", 0), Mode("equote", 0), Mode("taken", 0)}
            BY <2>5 DEF Scanned
        <3> QED
            BY <3>1, ModeIs
    <2>6. CASE m.in \in {"quote?", "equote?"}
        <3>1. Scanned(m, t, escaping, tags) \in
                  {Opened(t, escaping, tags), Mode("quote", 0), Mode("equote", 0)}
            BY <2>6 DEF Scanned
        <3> QED
            BY <2>3, <3>1, ModeIs
    <2>7. CASE m.in = "line"
        <3>1. Scanned(m, t, escaping, tags) \in {m, Outside}
            BY <2>7 DEF Scanned
        <3> QED
            BY <3>1, ModeIs
    <2>8. CASE m.in \in {"code"} \cup (Tags \ tags)
        <3>1. Scanned(m, t, escaping, tags) = Opened(t, escaping, tags)
            BY <2>8 DEF Scanned
        <3> QED
            BY <2>3, <3>1
    <2> QED
        BY <2>1, <2>4, <2>5, <2>6, <2>7, <2>8
<1> QED
    BY <1>1, <1>2

\* To the audit a backslash takes the next character in every string.
LEMMA AuditModeOfToken ==
    ASSUME NEW m \in AuditModes, NEW t \in Tokens, m.depth = MaxDepth => t # "/*"
    PROVE  AuditRead(m, t) \in AuditModes
<1>1. m \in Modes /\ m.in \notin {"quote", "quote?"}
    BY DEF AuditModes
<1>2. AuditRead(m, t) \in Modes
    BY <1>1, ModeOfToken DEF AuditRead
<1>3. Opened(t, {"'", "E'"}, {}).in \notin {"quote", "quote?"}
    <2>1. Opened(t, {"'", "E'"}, {}) \in {Mode("equote", 0), Mode("line", 0), Mode("block", 1), Outside}
        BY OpensIs
    <2> QED
        BY <2>1 DEF Mode, Outside
<1>4. \/ AuditRead(m, t) = m \/ AuditRead(m, t) = Opened(t, {"'", "E'"}, {})
      \/ AuditRead(m, t) \in {Mode("equote?", 0), Mode("taken", 0), Mode("equote", 0), Outside}
      \/ AuditRead(m, t) \in {Mode("block", m.depth + 1), Mode("block", m.depth - 1)}
    BY <1>1 DEF AuditRead, Scanned
<1>5. AuditRead(m, t).in \notin {"quote", "quote?"}
    BY <1>1, <1>3, <1>4 DEF Mode, Outside
<1> QED
    BY <1>2, <1>5 DEF AuditModes

\* A scanner that knows the dollar quotes is outside of everything after a
\* semicolon in code.
LEMMA EndsOutside ==
    ASSUME NEW m \in Modes, NEW t \in Tokens, Ends(m, t)
    PROVE  Scanned(m, t, {"E'"}, Tags) = Outside
BY TagsAreApart DEF Ends, IsCode, Scanned, Opened, Outside, Mode

\* When the audit is where it should be, mode by mode.
LEMMA FollowsWhen ==
    ASSUME NEW audit, NEW pg
    PROVE  /\ IsCode(pg) /\ IsCode(audit) => Follows(audit, pg)
           /\ pg.in \in {"quote", "equote"} /\ audit.in = "equote" => Follows(audit, pg)
           /\ pg.in \in {"taken", "line", "block"} /\ audit = pg => Follows(audit, pg)
           /\ pg.in \in Tags => Follows(audit, pg)
<1>1. IsCode(pg) /\ IsCode(audit) => Follows(audit, pg)
    BY DEF Follows, IsCode
<1>2. pg.in \in {"quote", "equote"} /\ audit.in = "equote" => Follows(audit, pg)
    BY DEF Follows, IsCode
<1>3. pg.in \in {"taken", "line", "block"} /\ audit = pg => Follows(audit, pg)
    BY DEF Follows, IsCode
<1>4. pg.in \in Tags => Follows(audit, pg)
    BY TagsAreApart DEF Follows, IsCode
<1> QED
    BY <1>1, <1>2, <1>3, <1>4

\* The audit goes on in the mode that it takes PostgreSQL's for, until one of
\* the two things happens that it does not know.  First without identifiers
\* that end in a delimiter.
PlainRead(m, t) == Scanned(m, t, {"E'"}, Tags)

LEMMA AuditFollowsPlain ==
    ASSUME NEW audit \in AuditModes, NEW pg \in Modes, NEW t \in Tokens, Follows(audit, pg),
           ~ (pg.in = "quote" /\ t = "\\"), ~ (pg.in \in Tags /\ t = pg.in /\ ~ IsCode(audit))
    PROVE  Follows(AuditRead(audit, t), PlainRead(pg, t))
<1> USE TagsAreApart
<1>2. ASSUME IsCode(pg), IsCode(audit) PROVE Follows(AuditRead(audit, t), PlainRead(pg, t))
    <2>1. pg.in \in {"code", "quote?", "equote?"} /\ audit.in \in {"code", "equote?"}
        BY <1>2 DEF IsCode, AuditModes
    <2>2. CASE t = "'"
        <3>1. AuditRead(audit, t).in = "equote"
            <4>1. CASE audit.in = "code"
                <5>1. AuditRead(audit, t) = Opened(t, {"'", "E'"}, {})
                    BY <2>2, <4>1 DEF AuditRead, Scanned
                <5> QED
                    BY <2>2, <5>1, OpensIs DEF Mode
            <4>2. CASE audit.in = "equote?"
                BY <2>2, <4>2 DEF AuditRead, Scanned, Mode
            <4> QED
                BY <2>1, <4>1, <4>2
        <3>2. PlainRead(pg, t).in \in {"quote", "equote"}
            BY <2>1, <2>2 DEF PlainRead, Scanned, Opened, Mode
        <3> QED
            BY <3>1, <3>2, FollowsWhen
    <2>3. CASE t # "'"
        <3>1. AuditRead(audit, t) = Opened(t, {"'", "E'"}, {})
            BY <2>1, <2>3 DEF AuditRead, Scanned
        <3>2. PlainRead(pg, t) = Opened(t, {"E'"}, Tags)
            BY <2>1, <2>3 DEF PlainRead, Scanned
        <3>3. CASE t = "E'"
            <4>1. Opened(t, {"'", "E'"}, {}).in = "equote" /\ Opened(t, {"E'"}, Tags).in = "equote"
                BY <3>3, OpensIs DEF Mode
            <4> QED
                BY <3>1, <3>2, <4>1, FollowsWhen
        <3>4. CASE t \in {"--", "/*"}
            <4>1. /\ AuditRead(audit, t) = PlainRead(pg, t)
                  /\ PlainRead(pg, t) = Mode("line", 0) \/ PlainRead(pg, t) = Mode("block", 1)
                BY <3>1, <3>2, <3>4, OpensIs
            <4>2. PlainRead(pg, t).in \in {"line", "block"}
                BY <4>1 DEF Mode, Outside, IsCode
            <4> QED
                BY <4>1, <4>2, FollowsWhen
        <3>5. CASE t \in Tags
            <4>1. PlainRead(pg, t) = Mode(t, 0)
                BY <3>2, <3>5, OpensIs
            <4>2. PlainRead(pg, t).in \in Tags
                BY <3>5, <4>1 DEF Mode, Outside, IsCode
            <4> QED
                BY <4>2, FollowsWhen
        <3>6. CASE t \notin {"'", "E'", "--", "/*"} \cup Tags
            <4>1. AuditRead(audit, t) = Outside /\ PlainRead(pg, t) = Outside
                BY <3>1, <3>2, <3>6, OpensIs
            <4> QED
                BY <4>1, FollowsWhen DEF Mode, Outside, IsCode
        <3> QED
            BY <2>3, <3>3, <3>4, <3>5, <3>6
    <2> QED
        BY <2>2, <2>3
<1>3. ASSUME pg.in \in {"quote", "equote"}, audit.in = "equote"
      PROVE  Follows(AuditRead(audit, t), PlainRead(pg, t))
    <2>1. CASE t \in {"'", "E'"}
        <3>1. AuditRead(audit, t) = Mode("equote?", 0)
            BY <1>3, <2>1 DEF AuditRead, Scanned
        <3>2. PlainRead(pg, t) = Mode("equote?", 0) \/ PlainRead(pg, t) = Mode("quote?", 0)
            BY <1>3, <2>1 DEF PlainRead, Scanned
        <3> QED
            BY <3>1, <3>2, FollowsWhen DEF Mode, Outside, IsCode
    <2>2. CASE t = "\\"
        <3>1. AuditRead(audit, t) = Mode("taken", 0)
            BY <1>3, <2>2 DEF AuditRead, Scanned
        <3>2. PlainRead(pg, t) = Mode("taken", 0)
            BY <1>3, <2>2 DEF PlainRead, Scanned
        <3>3. Mode("taken", 0).in = "taken"
            BY DEF Mode
        <3> QED
            BY <3>1, <3>2, <3>3, FollowsWhen
    <2>3. CASE t \notin {"'", "E'", "\\"}
        <3>1. AuditRead(audit, t) = audit
            BY <1>3, <2>3 DEF AuditRead, Scanned
        <3>2. PlainRead(pg, t) = pg
            BY <1>3, <2>3 DEF PlainRead, Scanned
        <3> QED
            BY <1>3, <3>1, <3>2, FollowsWhen
    <2> QED
        BY <2>1, <2>2, <2>3
<1>4. ASSUME pg.in \in {"taken", "line", "block"}, audit = pg
      PROVE  Follows(AuditRead(audit, t), PlainRead(pg, t))
    <2>1. AuditRead(pg, t) = PlainRead(pg, t)
        <3>1. CASE pg.in = "taken"
            BY <3>1 DEF AuditRead, PlainRead, Scanned
        <3>2. CASE pg.in = "line"
            BY <3>2 DEF AuditRead, PlainRead, Scanned
        <3>3. CASE pg.in = "block"
            BY <3>3 DEF AuditRead, PlainRead, Scanned
        <3> QED
            BY <1>4, <3>1, <3>2, <3>3
    <2>2. \/ IsCode(PlainRead(pg, t))
          \/ PlainRead(pg, t).in \in {"quote", "equote"} \cup {"taken", "line", "block"}
        <3>1. CASE pg.in = "taken"
            <4>1. PlainRead(pg, t) = Mode("equote?", 0) \/ PlainRead(pg, t) = Mode("equote", 0)
                BY <3>1 DEF PlainRead, Scanned
            <4> QED
                BY <4>1 DEF Mode, Outside, IsCode
        <3>2. CASE pg.in = "line"
            <4>1. PlainRead(pg, t) = Outside \/ PlainRead(pg, t) = pg
                BY <3>2 DEF PlainRead, Scanned
            <4> QED
                BY <3>2, <4>1 DEF Mode, Outside, IsCode
        <3>3. CASE pg.in = "block"
            <4>1. \/ PlainRead(pg, t) = Outside \/ PlainRead(pg, t) = pg
                  \/ PlainRead(pg, t) = Mode("block", pg.depth + 1)
                  \/ PlainRead(pg, t) = Mode("block", pg.depth - 1)
                BY <3>3 DEF PlainRead, Scanned
            <4> QED
                BY <3>3, <4>1 DEF Mode, Outside, IsCode
        <3> QED
            BY <1>4, <3>1, <3>2, <3>3
    <2>3. PlainRead(pg, t).in = "quote" => FALSE
        <3>1. CASE pg.in = "taken"
            <4>1. PlainRead(pg, t) = Mode("equote?", 0) \/ PlainRead(pg, t) = Mode("equote", 0)
                BY <3>1 DEF PlainRead, Scanned
            <4> QED
                BY <4>1 DEF Mode, Outside, IsCode
        <3>2. CASE pg.in # "taken"
            <4>1. IsCode(PlainRead(pg, t)) \/ PlainRead(pg, t).in \in {"line", "block"}
                <5>1. \/ PlainRead(pg, t) = Outside \/ PlainRead(pg, t) = pg
                      \/ PlainRead(pg, t) = Mode("block", pg.depth + 1)
                      \/ PlainRead(pg, t) = Mode("block", pg.depth - 1)
                    BY <1>4, <3>2 DEF PlainRead, Scanned
                <5> QED
                    BY <1>4, <3>2, <5>1 DEF Mode, Outside, IsCode
            <4> QED
                BY <4>1 DEF IsCode
        <3> QED
            BY <3>1, <3>2
    <2> QED
        BY <1>4, <2>1, <2>2, <2>3, FollowsWhen
<1>5. ASSUME pg.in \in Tags PROVE Follows(AuditRead(audit, t), PlainRead(pg, t))
    <2>1. CASE t # pg.in
        <3>1. PlainRead(pg, t) = pg
            BY <1>5, <2>1 DEF PlainRead, Scanned
        <3> QED
            BY <1>5, <3>1, FollowsWhen
    <2>2. CASE t = pg.in
        <3>1. PlainRead(pg, t) = Outside
            BY <1>5, <2>2 DEF PlainRead, Scanned
        <3>2. IsCode(audit) /\ t \notin {"'", "E'", "--", "/*"}
            BY <1>5, <2>2
        <3>3. AuditRead(audit, t) = Opened(t, {"'", "E'"}, {})
            BY <3>2 DEF IsCode, AuditRead, Scanned
        <3>4. AuditRead(audit, t) = Outside
            BY <3>2, <3>3, OpensIs
        <3> QED
            BY <3>1, <3>4, FollowsWhen DEF Mode, Outside, IsCode
    <2> QED
        BY <2>1, <2>2
<1>6. pg.in \in {"code", "quote", "quote?", "equote", "equote?", "taken", "line", "block"} \cup Tags
    BY DEF Modes
<1>7. /\ IsCode(pg) => IsCode(audit)
      /\ pg.in \in {"quote", "equote"} => audit.in = "equote"
      /\ pg.in \in {"taken", "line", "block"} => audit = pg
    BY DEF Follows, IsCode
<1>8. IsCode(pg) <=> pg.in \in {"code", "quote?", "equote?"}
    BY DEF IsCode
<1> QED
    BY <1>2, <1>3, <1>4, <1>5, <1>6, <1>7, <1>8

\* No delimiter means anything to the audit, wherever it is.
LEMMA AuditSeesNoTags ==
    ASSUME NEW m, NEW t, NEW u,
           t \notin {"'", "E'", "\\", "--", "nl", "/*", "*/"},
           u \notin {"'", "E'", "\\", "--", "nl", "/*", "*/"}
    PROVE  AuditRead(m, t) = AuditRead(m, u)
<1>1. Opened(t, {"'", "E'"}, {}) = Opened(u, {"'", "E'"}, {})
    BY OpensIs
<1> QED
    BY <1>1 DEF AuditRead, Scanned

LEMMA AuditFollows ==
    ASSUME NEW audit \in AuditModes, NEW pg \in Modes, NEW t \in Tokens, Follows(audit, pg),
           ~ (pg.in = "quote" /\ t = "\\"),
           ~ (pg.in \in Tags /\ Found(t) = pg.in /\ ~ IsCode(audit))
    PROVE  Follows(AuditRead(audit, t), PgRead(pg, t))
<1>1. PICK u : u = PgFound(pg, t)
    OBVIOUS
<1>2. PgRead(pg, t) = PlainRead(pg, u) /\ u \in Tokens
    BY <1>1, FoundIs DEF PgRead, PlainRead
<1>3. CASE t \notin DOMAIN Glued
    <2>1. u = t /\ Found(t) = t
        BY <1>1, <1>3, FoundIs
    <2> QED
        BY <1>2, <2>1, AuditFollowsPlain
<1>4. CASE t \in DOMAIN Glued
    <2>1. u \in {"word", Glued[t]} /\ Found(t) = Glued[t]
        BY <1>1, <1>4, FoundIs
    <2>2. /\ t \notin {"'", "E'", "\\", "--", "nl", "/*", "*/"}
          /\ u \notin {"'", "E'", "\\", "--", "nl", "/*", "*/"}
        BY <1>4, <2>1, TagsAreApart
    <2>3. AuditRead(audit, t) = AuditRead(audit, u)
        BY <2>2, AuditSeesNoTags
    <2>4. ~ (pg.in = "quote" /\ u = "\\")
        BY <2>2
    <2>5. ~ (pg.in \in Tags /\ u = pg.in /\ ~ IsCode(audit))
        BY <2>1, TagsAreApart
    <2> QED
        BY <1>2, <2>3, <2>4, <2>5, AuditFollowsPlain
<1> QED
    BY <1>3, <1>4

\* The two lists of statements go on alike.
LEMMA FilesGoOnAlike ==
    ASSUME NEW f \in FileStates, NEW r \in RunStates, NEW p \in StatementKinds,
           f = "empty" <=> r = "before", f = "open" <=> r = "begun",
           f = "filled" <=> r = "inside", f = "closed" <=> r = "after"
    PROVE  /\ Filed(f, p) \in FileStates /\ Ran(r, p) \in RunStates
           /\ Filed(f, p) = "empty" <=> Ran(r, p) = "before"
           /\ Filed(f, p) = "open" <=> Ran(r, p) = "begun"
           /\ Filed(f, p) = "filled" <=> Ran(r, p) = "inside"
           /\ Filed(f, p) = "closed" <=> Ran(r, p) = "after"
<1>1. CASE f = "empty" /\ r = "before"
    BY <1>1 DEF Filed, Ran, FileStates, RunStates
<1>2. CASE f = "open" /\ r = "begun"
    BY <1>2 DEF Filed, Ran, FileStates, RunStates
<1>3. CASE f = "filled" /\ r = "inside"
    BY <1>3 DEF Filed, Ran, FileStates, RunStates
<1>4. CASE (f = "closed" /\ r = "after") \/ (f = "bad" /\ r = "outside")
    BY <1>4 DEF Filed, Ran, FileStates, RunStates
<1> QED
    BY <1>1, <1>2, <1>3, <1>4 DEF FileStates, RunStates

LEMMA PiecesAre ==
    ASSUME NEW p \in StatementKinds, NEW t \in Tokens
    PROVE  /\ Pieced(p, t) \in StatementKinds
           /\ WholePiece(p) \in StatementKinds /\ "blank" \in StatementKinds
<1>1. Pieced(p, t) \in {p, "other", "spoiled"} \cup ControlWords
    BY DEF Pieced, StatementKinds
<1> QED
    BY <1>1 DEF StatementKinds, WholePiece

LEMMA ReadTokenKeeps ==
    ASSUME ScriptIInv, NEW t \in Tokens, ReadToken(t)
    PROVE  ScriptIInv'
<1>1. /\ scans.pg \in Modes /\ scans.top \in Modes /\ scans.audit \in AuditModes
      /\ scans.strip = scans.top
      /\ piece \in StatementKinds /\ pgPiece \in StatementKinds
      /\ file \in FileStates /\ ran \in RunStates
      /\ hid \in BOOLEAN /\ excused \in BOOLEAN /\ misread \in BOOLEAN /\ over \in BOOLEAN
      /\ DOMAIN scans = {"strip", "top", "audit", "pg"}
    <2>1. scans = [strip |-> scans.strip, top |-> scans.top, audit |-> scans.audit, pg |-> scans.pg]
        BY DEF ScriptIInv, ScriptTypes
    <2>2. DOMAIN scans = {"strip", "top", "audit", "pg"}
        BY <2>1
    <2> QED
        BY <2>2 DEF ScriptIInv, ScriptTypes
<1>2. PICK m, n, a : m = scans.pg /\ n = scans.top /\ a = scans.audit
    OBVIOUS
<1>3. /\ m \in Modes /\ n \in Modes /\ a \in AuditModes
      /\ m.depth = MaxDepth => t # "/*"
      /\ n.depth = MaxDepth => t # "/*"
      /\ a.depth = MaxDepth => t # "/*"
    BY <1>1, <1>2 DEF ReadToken
<1>4. scans' = [strip |-> IF Ends(n, t) THEN Outside ELSE StripRead(n, t), top |-> TopRead(n, t),
                audit |-> AuditRead(a, t), pg |-> PgRead(m, t)]
    BY <1>1, <1>2 DEF ReadToken
<1>5. PICK next, own, after : next = PgRead(m, t) /\ own = TopRead(n, t) /\ after = AuditRead(a, t)
    OBVIOUS
<1>6. scans' = [strip |-> own, top |-> own, audit |-> after, pg |-> next]
    <2>1. CASE Ends(n, t)
        <3>1. t \notin DOMAIN Glued
            BY <2>1, TagsAreApart DEF Ends
        <3>2. own = Outside
            BY <1>3, <1>5, <2>1, <3>1, FoundIs, EndsOutside DEF TopRead
        <3> QED
            BY <1>4, <1>5, <2>1, <3>2
    <2>2. CASE ~ Ends(n, t)
        BY <1>4, <1>5, <2>2 DEF StripRead, TopRead
    <2> QED
        BY <2>1, <2>2
<1>7. next \in Modes /\ own \in Modes /\ after \in AuditModes
    <2>0. "/*" \notin DOMAIN Glued /\ "/*" \notin Tags /\ "/*" # "word"
        BY TagsAreApart
    <2>a. /\ Found(t) \in Tokens /\ PgFound(m, t) \in Tokens
          /\ Found(t) = "/*" => t = "/*"
          /\ PgFound(m, t) = "/*" => t = "/*"
        BY <2>0, FoundIs, TagsAreApart
    <2>1. next \in Modes
        BY <1>3, <1>5, <2>a, ModeOfToken DEF PgRead
    <2>2. own \in Modes
        BY <1>3, <1>5, <2>a, ModeOfToken DEF TopRead
    <2>3. after \in AuditModes
        BY <1>3, <1>5, AuditModeOfToken
    <2> QED
        BY <2>1, <2>2, <2>3
<1>8. /\ piece' = IF Ends(n, t) THEN "blank" ELSE IF Shown(n, t) THEN Pieced(piece, t) ELSE piece
      /\ file' = IF Ends(n, t) THEN Filed(file, WholePiece(piece)) ELSE file
      /\ pgPiece' = IF Ends(m, t) THEN "blank" ELSE IF Shown(m, t) THEN Pieced(pgPiece, t) ELSE pgPiece
      /\ ran' = IF Ends(m, t) THEN Ran(ran, WholePiece(pgPiece)) ELSE ran
    <2>1. Ends(n, t) => IsCode(n)
        BY DEF Ends
    <2>2. /\ piece' = IF Ends(n, t) THEN "blank" ELSE IF Shown(n, t) THEN Pieced(piece, t) ELSE piece
          /\ file' = IF Ends(n, t) THEN Filed(file, WholePiece(piece)) ELSE file
        BY <1>1, <1>2, <2>1 DEF ReadToken
    <2>3. /\ pgPiece' = IF Ends(m, t) THEN "blank" ELSE IF Shown(m, t) THEN Pieced(pgPiece, t) ELSE pgPiece
          /\ ran' = IF Ends(m, t) THEN Ran(ran, WholePiece(pgPiece)) ELSE ran
        BY <1>2 DEF ReadToken
    <2> QED
        BY <2>2, <2>3
<1>9. /\ piece' \in StatementKinds /\ pgPiece' \in StatementKinds
      /\ file' \in FileStates /\ ran' \in RunStates
    <2>1. /\ Filed(file, WholePiece(piece)) \in FileStates
          /\ Ran(ran, WholePiece(pgPiece)) \in RunStates
        BY <1>1 DEF Filed, Ran, FileStates, RunStates
    <2> QED
        BY <1>1, <1>8, <2>1, PiecesAre
<1>10. /\ hid' = (hid \/ (t = "delete" /\ IsCode(m) /\ ~ Shown(a, t)))
       /\ excused' = (excused \/ (m.in = "quote" /\ t = "\\")
                             \/ (m.in \in Tags /\ Found(t) = m.in /\ ~ IsCode(a)))
       /\ misread' = (misread \/ (t \in DOMAIN Glued /\ IsCode(m)))
       /\ over' = over
    BY <1>2 DEF ReadToken, Lost
<1>11. hid' \in BOOLEAN /\ excused' \in BOOLEAN /\ misread' \in BOOLEAN
    BY <1>10
<1>12. ~ excused => Follows(a, m)
    BY <1>2 DEF ScriptIInv
<1>13. hid' => excused'
    <2>1. ASSUME ~ excused', t = "delete", IsCode(m) PROVE Shown(a, t)
        <3>1. IsCode(a)
            BY <1>10, <1>12, <2>1 DEF Follows, IsCode
        <3> QED
            BY <2>1, <3>1 DEF Shown, IsComment, IsCode
    <2>2. hid => excused
        BY DEF ScriptIInv, NothingHidden
    <2> QED
        BY <1>10, <2>1, <2>2
<1>14. ~ excused' => Follows(after, next)
    <2> SUFFICES ASSUME ~ excused' PROVE Follows(after, next)
        OBVIOUS
    <2>1. /\ Follows(a, m) /\ ~ (m.in = "quote" /\ t = "\\")
          /\ ~ (m.in \in Tags /\ Found(t) = m.in /\ ~ IsCode(a))
        BY <1>10, <1>12
    <2> QED
        BY <1>3, <1>5, <2>1, AuditFollows
<1>15. scans'.pg = next /\ scans'.top = own /\ scans'.strip = own /\ scans'.audit = after
    BY <1>6
<1>16. ScriptTypes'
    BY <1>1, <1>6, <1>7, <1>9, <1>10, <1>11, <1>15 DEF ScriptTypes
<1>17. ~ misread' => ReadAlike'
    <2> SUFFICES ASSUME ~ misread' PROVE ReadAlike'
        OBVIOUS
    <2>1. /\ n = m /\ piece = pgPiece
          /\ file = "empty" <=> ran = "before"
          /\ file = "open" <=> ran = "begun"
          /\ file = "filled" <=> ran = "inside"
          /\ file = "closed" <=> ran = "after"
        BY <1>2, <1>10 DEF ScriptIInv, ReadAlike
    <2>2. own = next
        BY <1>5, <1>10, <2>1, FoundIs DEF TopRead, PgRead
    <2>3. piece' = pgPiece'
        BY <1>8, <2>1
    <2>4. /\ file' = "empty" <=> ran' = "before"
          /\ file' = "open" <=> ran' = "begun"
          /\ file' = "filled" <=> ran' = "inside"
          /\ file' = "closed" <=> ran' = "after"
        <3>1. CASE Ends(m, t)
            <4>1. file' = Filed(file, WholePiece(piece)) /\ ran' = Ran(ran, WholePiece(piece))
                BY <1>8, <2>1, <3>1
            <4>2. WholePiece(piece) \in StatementKinds
                BY <1>1, PiecesAre
            <4> QED
                BY <1>1, <2>1, <4>1, <4>2, FilesGoOnAlike
        <3>2. CASE ~ Ends(m, t)
            BY <1>8, <2>1, <3>2
        <3> QED
            BY <3>1, <3>2
    <2> QED
        BY <1>15, <2>2, <2>3, <2>4 DEF ReadAlike
<1> QED
    BY <1>13, <1>14, <1>15, <1>16, <1>17 DEF ScriptIInv, NothingHidden

LEMMA EndTextKeeps ==
    ASSUME ScriptIInv, EndText
    PROVE  ScriptIInv'
<1>1. /\ over' = TRUE /\ scans' = scans /\ piece' = piece /\ pgPiece' = pgPiece
      /\ hid' = hid /\ excused' = excused /\ misread' = misread
    BY DEF EndText
<1>2. /\ file' \in {file, "bad"} /\ ran' \in {ran, "outside"}
    BY DEF EndText
<1>3. ScriptTypes'
    BY <1>1, <1>2 DEF ScriptIInv, ScriptTypes, FileStates, RunStates
<1>4. ~ misread' => ReadAlike'
    <2> SUFFICES ASSUME ~ misread' PROVE ReadAlike'
        OBVIOUS
    <2>1. ReadAlike /\ scans.strip = scans.top
        BY <1>1 DEF ScriptIInv, ScriptTypes
    <2>2. \/ file' = file /\ ran' = ran
          \/ file' = "bad" /\ ran' = "outside"
        BY <2>1 DEF EndText, ReadAlike
    <2> QED
        BY <1>1, <2>1, <2>2 DEF ReadAlike
<1> QED
    BY <1>1, <1>3, <1>4 DEF ScriptIInv, NothingHidden

(* A file that the runner accepts is one transaction to PostgreSQL unless a *)
(* dollar-quote delimiter ends an identifier of its code, which only the   *)
(* runner takes for a quote; and nothing that PostgreSQL would run is a    *)
(* comment to the audit but after the quotes it cannot follow.  For files  *)
(* of any length and comments nested to any depth                          *)
(* (run_supabase_migrations.py, check_migration_safety.py).                *)
THEOREM FilesAreReadAlike == ScriptSpec => []ScriptInv
<1>1. ScriptInit => ScriptIInv
    <2> SUFFICES ASSUME ScriptInit PROVE ScriptIInv
        OBVIOUS
    <2>1. scans = [strip |-> Outside, top |-> Outside, audit |-> Outside, pg |-> Outside]
        BY DEF ScriptInit
    <2>2. Outside \in Modes /\ Outside \in AuditModes /\ IsCode(Outside)
        BY ModeIs DEF Outside, Mode, IsCode, AuditModes
    <2>3. ScriptTypes
        BY <2>1, <2>2 DEF ScriptInit, ScriptTypes, StatementKinds, FileStates, RunStates
    <2>4. ReadAlike
        BY <2>1 DEF ScriptInit, ReadAlike
    <2>5. Follows(scans.audit, scans.pg)
        BY <2>1, <2>2, FollowsWhen
    <2> QED
        BY <2>3, <2>4, <2>5 DEF ScriptInit, ScriptIInv, NothingHidden
<1>2. ScriptIInv /\ [ScriptNext]_scriptVars => ScriptIInv'
    <2>1. ASSUME ScriptIInv, UNCHANGED scriptVars PROVE ScriptIInv'
        BY <2>1 DEF scriptVars, ScriptIInv, ScriptTypes, ReadAlike, NothingHidden
    <2> QED
        BY <2>1, ReadTokenKeeps, EndTextKeeps DEF ScriptNext
<1>3. ScriptIInv => ScriptInv
    <2> SUFFICES ASSUME ScriptIInv PROVE ScriptInv
        OBVIOUS
    <2>0. scans = [strip |-> scans.strip, top |-> scans.top, audit |-> scans.audit, pg |-> scans.pg]
        BY DEF ScriptIInv, ScriptTypes
    <2>1. /\ scans.pg \in Modes /\ scans.audit \in Modes
          /\ scans.top \in Modes /\ scans.strip = scans.top
          /\ ~ misread => scans.top = scans.pg
        BY DEF ScriptIInv, ScriptTypes, ReadAlike, AuditModes
    <2>2. \A m \in Modes : m.depth \in 0 .. MaxDepth /\ (m.depth > 0 <=> m.in = "block")
        <3> SUFFICES ASSUME NEW m \in Modes
                     PROVE  m.depth \in 0 .. MaxDepth /\ (m.depth > 0 <=> m.in = "block")
            OBVIOUS
        <3>1. CASE m \in [in : {"block"}, depth : 1..MaxDepth]
            BY <3>1, TagsAreApart
        <3>2. CASE m.depth = 0 /\ m.in # "block"
            BY <3>2, TagsAreApart
        <3> QED
            BY <3>1, <3>2, TagsAreApart DEF Modes
    <2>3. DOMAIN scans = {"strip", "top", "audit", "pg"}
        BY <2>0
    <2>4. ScriptTypeOK
        <3>1. \A s \in {"strip", "top", "audit", "pg"} : scans[s] \in Modes
            BY <2>1
        <3>2. \A s \in DOMAIN scans :
                  scans[s].depth \in 0 .. MaxDepth /\ (scans[s].depth > 0 <=> scans[s].in = "block")
            BY <2>2, <2>3, <3>1
        <3>3. {piece, pgPiece} \subseteq ControlWords \cup {"blank", "spoiled", "other"}
            BY DEF ScriptIInv, ScriptTypes, StatementKinds
        <3>4. {hid, excused, misread, over} \subseteq BOOLEAN
            BY DEF ScriptIInv, ScriptTypes
        <3>5. file \in FileStates /\ ran \in RunStates
            BY DEF ScriptIInv, ScriptTypes
        <3> QED
            BY <2>1, <3>2, <3>3, <3>4, <3>5 DEF ScriptTypeOK
    <2>5. AcceptedIsOneTransaction
        BY DEF ScriptIInv, ReadAlike, AcceptedIsOneTransaction
    <2> QED
        BY <2>4, <2>5 DEF ScriptInv, ScriptIInv
<1> QED
    BY <1>1, <1>2, <1>3, PTL DEF ScriptSpec
-------------------------------------------------------------------------------
(* Backups.  A run goes from its two looks at the database to a file and   *)
(* to the marker, under the timestamp of a backup that was started.        *)

BackupRunOK(q, last) ==
    \/ q = Idle
    \/ \E present : q = [phase |-> "tables", present |-> present]
    \/ \E ts \in 1..last : \E pf : q = [phase |-> "ready", ts |-> ts, pf |-> pf]
    \/ \E ts \in 1..last : \E pf, content, edit, out :
          q = [phase |-> "temporary", ts |-> ts, pf |-> pf, content |-> content,
               edit |-> edit, out |-> out]
    \/ \E ts \in 1..last : \E phase \in {"promoted", "marked"} :
          q = [phase |-> phase, ts |-> ts]

BackupShape ==
    /\ db \in [schema : 1..Len(Schemas), on : BOOLEAN, covered : SUBSET CoverageSources]
    /\ runs = [r \in Runners |-> runs[r]] /\ \A r \in Runners : BackupRunOK(runs[r], lastStart)
    /\ lastStart \in 0..LastBackup /\ files \subseteq 1..lastStart /\ marker \in 0..lastStart

LEMMA BackupRunFields ==
    ASSUME NEW last, NEW q, BackupRunOK(q, last)
    PROVE  /\ q.phase \in {"idle", "tables", "ready", "temporary", "promoted", "marked"}
           /\ q.phase \in {"ready", "temporary", "promoted", "marked"} => q.ts \in 1..last
           /\ q.phase \in {"promoted", "marked"} => q = [phase |-> q.phase, ts |-> q.ts]
           /\ q = Idle <=> q.phase = "idle"
<1>1. CASE q = Idle
    BY <1>1 DEF Idle
<1>2. CASE \E present : q = [phase |-> "tables", present |-> present]
    BY <1>2 DEF Idle
<1>3. CASE \E ts \in 1..last : \E pf : q = [phase |-> "ready", ts |-> ts, pf |-> pf]
    BY <1>3 DEF Idle
<1>4. CASE \E ts \in 1..last : \E pf, content, edit, out :
          q = [phase |-> "temporary", ts |-> ts, pf |-> pf, content |-> content,
               edit |-> edit, out |-> out]
    BY <1>4 DEF Idle
<1>5. CASE \E ts \in 1..last : \E phase \in {"promoted", "marked"} :
          q = [phase |-> phase, ts |-> ts]
    BY <1>5 DEF Idle
<1> QED
    BY <1>1, <1>2, <1>3, <1>4, <1>5 DEF BackupRunOK

\* A later start leaves the other runs as they should be.
LEMMA RunsStayOK ==
    ASSUME NEW q, NEW last \in Nat, NEW later \in Nat, later >= last, BackupRunOK(q, last)
    PROVE  BackupRunOK(q, later)
<1>1. 1..last \subseteq 1..later
    OBVIOUS
<1>2. CASE q = Idle
    BY <1>2 DEF BackupRunOK
<1>3. CASE \E present : q = [phase |-> "tables", present |-> present]
    BY <1>3 DEF BackupRunOK
<1>4. CASE \E ts \in 1..last : \E pf : q = [phase |-> "ready", ts |-> ts, pf |-> pf]
    BY <1>1, <1>4 DEF BackupRunOK
<1>5. CASE \E ts \in 1..last : \E pf, content, edit, out :
          q = [phase |-> "temporary", ts |-> ts, pf |-> pf, content |-> content,
               edit |-> edit, out |-> out]
    BY <1>1, <1>5 DEF BackupRunOK
<1>6. CASE \E ts \in 1..last : \E phase \in {"promoted", "marked"} :
          q = [phase |-> phase, ts |-> ts]
    BY <1>1, <1>6 DEF BackupRunOK
<1> QED
    BY <1>2, <1>3, <1>4, <1>5, <1>6 DEF BackupRunOK

\* One run moves on; the database is left alone.
LEMMA OneRunMoves ==
    ASSUME BackupShape, NEW r \in Runners, NEW q, runs' = [runs EXCEPT ![r] = q],
           BackupRunOK(q, lastStart'), lastStart' \in lastStart..LastBackup, db' = db,
           files' \subseteq 1..lastStart', marker' \in 0..lastStart'
    PROVE  BackupShape'
<1>1. lastStart \in Nat /\ lastStart' \in Nat /\ lastStart' >= lastStart /\ lastStart' \in 0..LastBackup
    BY BackupAssumption DEF BackupShape
<1>2. /\ \A p \in Runners : runs'[p] = IF p = r THEN q ELSE runs[p]
      /\ runs' = [p \in Runners |-> runs'[p]]
    BY DEF BackupShape
<1>3. ASSUME NEW p \in Runners PROVE BackupRunOK(runs'[p], lastStart')
    <2>1. BackupRunOK(runs[p], lastStart)
        BY DEF BackupShape
    <2>2. BackupRunOK(runs[p], lastStart')
        BY <1>1, <2>1, RunsStayOK
    <2> QED
        BY <1>2, <2>2
<1> QED
    BY <1>1, <1>2, <1>3 DEF BackupShape

LEMMA BackupInitial == ASSUME BackupInit PROVE BackupShape
<1>1. Len(Schemas) \in Nat \ {0} /\ 0 \in 0..LastBackup
    BY BackupAssumption
<1> QED
    BY <1>1 DEF BackupInit, BackupShape, BackupRunOK

LEMMA LookAtTablesShape ==
    ASSUME BackupShape, NEW r \in Runners, LookAtTables(r)
    PROVE  BackupShape'
<1> DEFINE q == [phase |-> "tables", present |-> Schemas[db.schema].groups]
<1>1. runs' = [runs EXCEPT ![r] = q] /\ UNCHANGED <<db, lastStart, files, marker>>
    BY DEF LookAtTables
<1>2. BackupRunOK(q, lastStart')
    BY DEF BackupRunOK
<1>3. lastStart' \in lastStart..LastBackup /\ files' \subseteq 1..lastStart' /\ marker' \in 0..lastStart'
    BY <1>1, BackupAssumption DEF BackupShape
<1> HIDE DEF q
<1> QED
    BY <1>1, <1>2, <1>3, OneRunMoves

LEMMA LookAtPoliciesShape ==
    ASSUME BackupShape, NEW r \in Runners, LookAtPolicies(r)
    PROVE  BackupShape'
<1> DEFINE same == PreflightSources(Schemas[db.schema].groups) = PreflightSources(runs[r].present)
           ts == lastStart + 1
           pf == [present |-> runs[r].present, id |-> Ids(runs[r].present)]
           ready == [phase |-> "ready", ts |-> ts, pf |-> pf]
           q == IF same THEN ready ELSE Idle
<1>1. /\ runs' = [runs EXCEPT ![r] = q] /\ UNCHANGED <<db, files, marker>>
      /\ lastStart' = IF runs'[r] = Idle THEN lastStart ELSE ts
      /\ lastStart < LastBackup
    BY DEF LookAtPolicies
<1>2. /\ lastStart \in Nat /\ LastBackup \in Nat /\ ts = lastStart + 1 /\ lastStart <= LastBackup
      /\ r \in DOMAIN runs
    BY BackupAssumption DEF BackupShape
<1>3. ready # Idle /\ \A n \in Nat : ts \in 1..n => BackupRunOK(ready, n)
    BY DEF BackupRunOK, Idle
<1> HIDE DEF same, ts, pf, ready
<1>4. runs'[r] = q
    BY <1>1, <1>2
<1>5. lastStart' = IF same THEN ts ELSE lastStart
    BY <1>1, <1>3, <1>4
<1>6. BackupRunOK(q, lastStart')
    <2>1. CASE same
        BY <1>2, <1>3, <1>5, <2>1
    <2>2. CASE ~ same
        BY <2>2 DEF BackupRunOK
    <2> QED
        BY <2>1, <2>2
<1> HIDE DEF q
<1>7. /\ lastStart' \in lastStart..LastBackup
      /\ files' \subseteq 1..lastStart' /\ marker' \in 0..lastStart'
    BY <1>1, <1>2, <1>5 DEF BackupShape
<1> QED
    BY <1>1, <1>6, <1>7, OneRunMoves

\* Steps that start no backup.
LEMMA SameStartMoves ==
    ASSUME BackupShape, NEW r \in Runners, NEW q, runs' = [runs EXCEPT ![r] = q],
           BackupRunOK(q, lastStart), UNCHANGED <<db, lastStart>>,
           files' \subseteq 1..lastStart, marker' \in 0..lastStart
    PROVE  BackupShape'
<1>1. lastStart' \in lastStart..LastBackup
    BY BackupAssumption DEF BackupShape
<1> QED
    BY <1>1, OneRunMoves

LEMMA IdleIsOK == \A last : BackupRunOK(Idle, last)
BY DEF BackupRunOK

LEMMA DumpAndSanitizeShape ==
    ASSUME BackupShape, NEW r \in Runners, DumpAndSanitize(r)
    PROVE  BackupShape'
<1>1. /\ UNCHANGED <<db, lastStart, files, marker>> /\ runs[r].phase = "ready"
      /\ \E e, clean : runs' = [runs EXCEPT ![r] =
             IF clean.ok /\ runs[r].ts \notin files
             THEN [phase |-> "temporary", ts |-> runs[r].ts, pf |-> runs[r].pf,
                   content |-> Content(db), edit |-> e, out |-> clean.out]
             ELSE Idle]
    BY DEF DumpAndSanitize
<1>2. PICK e, clean : runs' = [runs EXCEPT ![r] =
             IF clean.ok /\ runs[r].ts \notin files
             THEN [phase |-> "temporary", ts |-> runs[r].ts, pf |-> runs[r].pf,
                   content |-> Content(db), edit |-> e, out |-> clean.out]
             ELSE Idle]
    BY <1>1
<1> DEFINE temporary == [phase |-> "temporary", ts |-> runs[r].ts, pf |-> runs[r].pf,
                         content |-> Content(db), edit |-> e, out |-> clean.out]
           q == IF clean.ok /\ runs[r].ts \notin files THEN temporary ELSE Idle
<1>3. runs[r].ts \in 1..lastStart
    BY <1>1, BackupRunFields DEF BackupShape
<1>4. BackupRunOK(temporary, lastStart)
    BY <1>3 DEF BackupRunOK
<1>5. BackupRunOK(q, lastStart) /\ runs' = [runs EXCEPT ![r] = q]
    BY <1>2, <1>4, IdleIsOK
<1> HIDE DEF q
<1> QED
    BY <1>1, <1>5, SameStartMoves DEF BackupShape

LEMMA PromoteShape ==
    ASSUME BackupShape, NEW r \in Runners, Promote(r)
    PROVE  BackupShape'
<1> DEFINE q == [phase |-> "promoted", ts |-> runs[r].ts]
<1>1. /\ runs[r].phase = "temporary" /\ files' = files \cup {runs[r].ts}
      /\ runs' = [runs EXCEPT ![r] = q] /\ UNCHANGED <<db, lastStart, marker>>
    BY DEF Promote
<1>2. runs[r].ts \in 1..lastStart
    BY <1>1, BackupRunFields DEF BackupShape
<1>3. BackupRunOK(q, lastStart)
    BY <1>2 DEF BackupRunOK
<1> HIDE DEF q
<1> QED
    BY <1>1, <1>2, <1>3, SameStartMoves DEF BackupShape

LEMMA MoveMarkerShape ==
    ASSUME BackupShape, NEW r \in Runners, MoveMarker(r)
    PROVE  BackupShape'
<1> DEFINE q == [phase |-> "marked", ts |-> runs[r].ts]
<1>1. /\ runs[r].phase = "promoted" /\ marker' = runs[r].ts
      /\ runs' = [runs EXCEPT ![r].phase = "marked"] /\ UNCHANGED <<db, lastStart, files>>
    BY DEF MoveMarker
<1>2. runs[r].ts \in 1..lastStart /\ runs[r] = [phase |-> "promoted", ts |-> runs[r].ts]
    BY <1>1, BackupRunFields DEF BackupShape
<1>3. BackupRunOK(q, lastStart)
    BY <1>2 DEF BackupRunOK
<1>4. runs' = [runs EXCEPT ![r] = q]
    <2>1. [runs[r] EXCEPT !.phase = "marked"] = q
        BY <1>2
    <2> QED
        BY <1>1, <2>1
<1> HIDE DEF q
<1> QED
    BY <1>1, <1>2, <1>3, <1>4, SameStartMoves DEF BackupShape

LEMMA RunsEnd ==
    ASSUME BackupShape, NEW r \in Runners, Finish(r) \/ Die(r)
    PROVE  BackupShape'
<1>1. runs' = [runs EXCEPT ![r] = Idle] /\ UNCHANGED <<db, lastStart, files, marker>>
    BY DEF Finish, Die
<1> QED
    BY <1>1, IdleIsOK, SameStartMoves DEF BackupShape

LEMMA PruneShape ==
    ASSUME BackupShape, NEW r \in Runners, Prune(r)
    PROVE  BackupShape'
BY DEF Prune, BackupShape

LEMMA DatabaseShape ==
    ASSUME BackupShape, Migrate \/ SwitchControls \/ CollectAwaited
    PROVE  BackupShape'
<1>1. UNCHANGED <<runs, lastStart, files, marker>>
    BY DEF Migrate, SwitchControls, CollectAwaited
<1>2. /\ db \in [schema : 1..Len(Schemas), on : BOOLEAN, covered : SUBSET CoverageSources]
      /\ Len(Schemas) \in Nat
    BY BackupAssumption DEF BackupShape
<1>3. CASE Migrate
    <2>1. Seeded(db.schema + 1) \subseteq CoverageSources
        BY DEF Seeded
    <2>2. /\ db' = [db EXCEPT !.schema = @ + 1, !.covered = @ \cup Seeded(db.schema + 1)]
          /\ db.schema < Len(Schemas)
        BY <1>3 DEF Migrate
    <2>3. db.covered \cup Seeded(db.schema + 1) \subseteq CoverageSources /\ db.schema + 1 \in 1..Len(Schemas)
        BY <1>2, <2>1, <2>2
    <2>4. db' = [schema |-> db.schema + 1, on |-> db.on, covered |-> db.covered \cup Seeded(db.schema + 1)]
        BY <1>2, <2>2
    <2> QED
        BY <1>1, <1>2, <2>3, <2>4 DEF BackupShape
<1>4. CASE SwitchControls
    BY <1>1, <1>2, <1>4 DEF SwitchControls, BackupShape
<1>5. CASE CollectAwaited
    <2>1. PICK src \in CoverageSources : db' = [db EXCEPT !.covered = @ \cup {src}]
        BY <1>5 DEF CollectAwaited
    <2> QED
        BY <1>1, <1>2, <2>1 DEF BackupShape
<1> QED
    BY <1>3, <1>4, <1>5

LEMMA BackupShapeKept ==
    ASSUME BackupShape, [BackupNext]_backupVars
    PROVE  BackupShape'
<1>1. CASE UNCHANGED backupVars
    BY <1>1 DEF backupVars, BackupShape
<1>2. CASE BackupNext
    BY <1>2, LookAtTablesShape, LookAtPoliciesShape, DumpAndSanitizeShape, PromoteShape,
       MoveMarkerShape, PruneShape, RunsEnd, DatabaseShape DEF BackupNext
<1> QED
    BY <1>1, <1>2

(* Backups keep to their kinds, whichever of them run at once and wherever *)
(* they die: a file and the marker name a backup that was started, and so  *)
(* does whatever a run has in hand.                                        *)
THEOREM BackupTypes == BackupSpec => []BackupTypeOK
<1>1. BackupShape => BackupTypeOK
    BY BackupRunFields DEF BackupShape, BackupTypeOK
<1> QED
    BY <1>1, BackupInitial, BackupShapeKept, PTL DEF BackupSpec

-------------------------------------------------------------------------------
(* The marker.  Where backups do not overlap, retention runs for the one   *)
(* the marker names, and that one is protected.                            *)

MarkedIsProtected ==
    \A r \in Runners :
        /\ runs[r].phase \in {"promoted", "marked"} => runs[r].ts \in files
        /\ runs[r].phase = "marked" => marker = runs[r].ts

MarkerIInv == BackupShape /\ MarkedIsProtected /\ MarkerNamesBackup

\* A bounded set of naturals has a greatest element.
LEMMA NewestExists ==
    ASSUME NEW S \in SUBSET Nat, S # {}, NEW n \in Nat, \A x \in S : x <= n
    PROVE  \E g \in S : \A x \in S : x <= g
<1> DEFINE above(k) == {i \in S : i > k}
           family == {above(k) : k \in S}
<1>1. IsFiniteSet(S)
    BY FS_BoundedSetOfNaturals
<1>2. family \subseteq FiniteSubsetsOf(S) /\ family # {}
    <2>1. ASSUME NEW k \in S PROVE above(k) \in SUBSET S /\ IsFiniteSet(above(k))
        <3>1. above(k) \in SUBSET S
            OBVIOUS
        <3> QED
            BY <1>1, <3>1, FS_Subset
    <2> QED
        BY <2>1 DEF FiniteSubsetsOf
<1>3. PICK T \in family : \A U \in family : <<U, T>> \notin StrictSubsetOrdering(S)
    BY <1>2, FS_StrictSubsetOrderingWellFounded, WFMin
<1>4. PICK g \in S : T = above(g)
    OBVIOUS
<1>5. ASSUME NEW x \in S, x > g PROVE FALSE
    <2>1. above(x) \in family
        OBVIOUS
    <2>2. x \in Nat /\ g \in Nat /\ x \in T /\ x \notin above(x)
        BY <1>4, <1>5
    <2>3. \A i \in S : i > x => i > g
        BY <1>5, <2>2
    <2>4. above(x) \subseteq T
        BY <1>4, <2>3
    <2>5. <<above(x), T>> \in StrictSubsetOrdering(S)
        BY <1>4, <2>2, <2>4 DEF StrictSubsetOrdering
    <2> QED
        BY <1>3, <2>1, <2>5
<1>6. \A x \in S : x <= g
    BY <1>5
<1> QED
    BY <1>6
\* What retention removes is not the backup it protects.
LEMMA PruneSpares ==
    ASSUME BackupShape, NEW r \in Runners, Prune(r)
    PROVE  /\ runs[r].phase = "marked" /\ UNCHANGED <<db, runs, lastStart, marker>>
           /\ files' \subseteq files /\ (runs[r].ts \in files => runs[r].ts \in files')
<1> DEFINE doomed == SelectBackupsToDelete(files, runs[r].ts)
           x == CHOOSE t \in doomed : \A u \in doomed : u <= t
<1>1. runs[r].ts \notin doomed /\ doomed \subseteq files
    BY DEF SelectBackupsToDelete
<1>2. doomed # {} /\ files' = files \ {x} /\ runs[r].phase = "marked"
      /\ UNCHANGED <<db, runs, lastStart, marker>>
    BY DEF Prune
<1>3. doomed \in SUBSET Nat /\ lastStart \in Nat /\ \A t \in doomed : t <= lastStart
    BY <1>1, BackupAssumption DEF BackupShape
<1> HIDE DEF doomed
<1>4. \E t \in doomed : \A u \in doomed : u <= t
    BY <1>2, <1>3, NewestExists
<1>5. x \in doomed
    BY <1>4
<1> HIDE DEF x
<1> QED
    BY <1>1, <1>2, <1>5

\* The only runner moves on, with the marker and the files as they were.
LEMMA MarkerLeftAlone ==
    ASSUME MarkerIInv, NEW r \in Runners, \A p \in Runners : p = r, BackupShape',
           runs'[r].phase \notin {"promoted", "marked"}, UNCHANGED <<files, marker>>
    PROVE  MarkerIInv'
BY DEF MarkerIInv, MarkedIsProtected, MarkerNamesBackup

LEMMA MarkerKept ==
    ASSUME MarkerIInv, [BackupNext]_backupVars, \A p, q \in Runners : p = q
    PROVE  MarkerIInv'
<1>1. BackupShape'
    BY BackupShapeKept DEF MarkerIInv
<1>2. \A r \in Runners : \A q : runs' = [runs EXCEPT ![r] = q] => runs'[r] = q
    BY DEF MarkerIInv, BackupShape
<1>3. CASE UNCHANGED <<runs, files, marker>>
    BY <1>1, <1>3 DEF MarkerIInv, MarkedIsProtected, MarkerNamesBackup
<1>4. ASSUME NEW r \in Runners, LookAtTables(r)
      PROVE  MarkerIInv'
    <2>1. /\ UNCHANGED <<files, marker>>
          /\ \E q : q.phase = "tables" /\ runs' = [runs EXCEPT ![r] = q]
        BY <1>4 DEF LookAtTables
    <2> QED
        BY <1>1, <1>2, <2>1, MarkerLeftAlone
<1>5. ASSUME NEW r \in Runners, LookAtPolicies(r)
      PROVE  MarkerIInv'
    <2>1. /\ UNCHANGED <<files, marker>>
          /\ runs'[r].phase \in {"ready", "idle"}
        <3> DEFINE same == PreflightSources(Schemas[db.schema].groups)
                                = PreflightSources(runs[r].present)
                   pf == [present |-> runs[r].present, id |-> Ids(runs[r].present)]
                   q == IF same THEN [phase |-> "ready", ts |-> lastStart + 1, pf |-> pf] ELSE Idle
        <3>1. UNCHANGED <<files, marker>> /\ runs' = [runs EXCEPT ![r] = q]
            BY <1>5 DEF LookAtPolicies
        <3>2. q.phase \in {"ready", "idle"}
            BY DEF Idle
        <3> HIDE DEF q
        <3> QED
            BY <1>2, <3>1, <3>2
    <2> QED
        BY <1>1, <2>1, MarkerLeftAlone
<1>6. ASSUME NEW r \in Runners, DumpAndSanitize(r)
      PROVE  MarkerIInv'
    <2>1. /\ UNCHANGED <<files, marker>>
          /\ runs'[r].phase \in {"temporary", "idle"}
        <3>1. UNCHANGED <<files, marker>>
            BY <1>6 DEF DumpAndSanitize
        <3>2. PICK e, clean : runs' = [runs EXCEPT ![r] =
                  IF clean.ok /\ runs[r].ts \notin files
                  THEN [phase |-> "temporary", ts |-> runs[r].ts, pf |-> runs[r].pf,
                        content |-> Content(db), edit |-> e, out |-> clean.out]
                  ELSE Idle]
            BY <1>6 DEF DumpAndSanitize
        <3> DEFINE q == IF clean.ok /\ runs[r].ts \notin files
                        THEN [phase |-> "temporary", ts |-> runs[r].ts, pf |-> runs[r].pf,
                              content |-> Content(db), edit |-> e, out |-> clean.out]
                        ELSE Idle
        <3>3. q.phase \in {"temporary", "idle"}
            BY DEF Idle
        <3>4. runs' = [runs EXCEPT ![r] = q]
            BY <3>2
        <3> HIDE DEF q
        <3> QED
            BY <1>2, <3>1, <3>3, <3>4
    <2> QED
        BY <1>1, <2>1, MarkerLeftAlone
<1>7. ASSUME NEW r \in Runners, Finish(r) \/ Die(r)
      PROVE  MarkerIInv'
    <2>1. UNCHANGED <<files, marker>> /\ runs' = [runs EXCEPT ![r] = Idle]
        BY <1>7 DEF Finish, Die
    <2>2. runs'[r] = Idle
        BY <1>2, <2>1
    <2>3. runs'[r].phase \notin {"promoted", "marked"}
        BY <2>2 DEF Idle
    <2> QED
        BY <1>1, <2>1, <2>3, MarkerLeftAlone
<1>8. ASSUME NEW r \in Runners, Promote(r)
      PROVE  MarkerIInv'
    <2>1. /\ files' = files \cup {runs[r].ts} /\ marker' = marker
          /\ runs' = [runs EXCEPT ![r] = [phase |-> "promoted", ts |-> runs[r].ts]]
        BY <1>8 DEF Promote
    <2>2. runs'[r] = [phase |-> "promoted", ts |-> runs[r].ts]
        BY <1>2, <2>1
    <2>3. runs'[r].phase = "promoted" /\ runs'[r].ts \in files'
        BY <2>1, <2>2
    <2> QED
        BY <1>1, <2>1, <2>3 DEF MarkerIInv, MarkedIsProtected, MarkerNamesBackup
<1>9. ASSUME NEW r \in Runners, MoveMarker(r)
      PROVE  MarkerIInv'
    <2>1. /\ files' = files /\ marker' = runs[r].ts /\ runs[r].phase = "promoted"
          /\ runs' = [runs EXCEPT ![r] = [runs[r] EXCEPT !.phase = "marked"]]
        BY <1>9 DEF MoveMarker
    <2>2. runs'[r] = [runs[r] EXCEPT !.phase = "marked"]
        BY <1>2, <2>1
    <2>3. runs[r] = [phase |-> "promoted", ts |-> runs[r].ts] /\ runs[r].ts \in files
        BY <2>1, BackupRunFields DEF MarkerIInv, BackupShape, MarkedIsProtected
    <2>4. runs'[r].phase = "marked" /\ runs'[r].ts = runs[r].ts
        BY <2>2, <2>3
    <2> QED
        BY <1>1, <2>1, <2>3, <2>4 DEF MarkerIInv, MarkedIsProtected, MarkerNamesBackup
<1>10. ASSUME NEW r \in Runners, Prune(r)
       PROVE  MarkerIInv'
    <2>1. /\ runs[r].phase = "marked" /\ UNCHANGED <<runs, marker>>
          /\ runs[r].ts \in files => runs[r].ts \in files'
        BY <1>10, PruneSpares DEF MarkerIInv
    <2>2. runs[r].ts \in files /\ marker = runs[r].ts
        BY <2>1 DEF MarkerIInv, MarkedIsProtected
    <2> QED
        BY <1>1, <2>1, <2>2 DEF MarkerIInv, MarkedIsProtected, MarkerNamesBackup
<1> QED
    BY <1>3, <1>4, <1>5, <1>6, <1>7, <1>8, <1>9, <1>10
    DEF BackupNext, backupVars, Migrate, SwitchControls, CollectAwaited

(* Where backups do not overlap, the success marker names a file that is   *)
(* on disk: a run that dies between promoting and marking leaves the older *)
(* name and the older file, and retention runs for the file just marked.   *)
THEOREM MarkerNamesAFile ==
    ASSUME \A p, q \in Runners : p = q
    PROVE  BackupSpec => []MarkerNamesBackup
<1>1. BackupInit => MarkerIInv
    BY BackupInitial DEF MarkerIInv, MarkedIsProtected, MarkerNamesBackup, BackupInit, Idle
<1>2. MarkerIInv /\ [BackupNext]_backupVars => MarkerIInv'
    BY MarkerKept
<1>3. MarkerIInv => MarkerNamesBackup
    BY DEF MarkerIInv
<1> QED
    BY <1>1, <1>2, <1>3, PTL DEF BackupSpec
===============================================================================
