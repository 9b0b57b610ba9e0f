----------------------------- MODULE PublicStudies -----------------------------
(***************************************************************************)
(* The reviewed public studies: one page each, read again once a day.  A   *)
(* reading is two requests, robots.txt and the page, under one request     *)
(* gate; what it finds must still be what was reviewed, and the finalizer  *)
(* writes the study's observation and its country's map cell in one        *)
(* transaction.                                                            *)
(*                                                                         *)
(* A study's job and its lease are one here: claiming a study is claiming  *)
(* its job, and run numbers are lease generations.                         *)
(***************************************************************************)
EXTENDS Integers, FiniteSets, FiniteSetsExt

CONSTANTS
    StudyWorkers,   \* worker processes
    Articles,       \* studies read by ReviewedPublicStudyAdapter ...
    Videos,         \* ... and by YouTubeWatchCoverageAdapter
    CoverageStudies,\* PUBLIC_STUDY_COVERAGE_KEYS: no cell, no title is kept
    Country,        \* country of a study
    Domain,         \* domain of a study
    StudyPacks,          \* its pack_count
    ObservedOn,     \* its observed_at, as a day; today may be later
    FetchTime,      \* timeout of a request
    FollowUp,       \* followup_delay_seconds
    GateFence,          \* what begin leaves of a lease at least (150 s)
    Spacing,        \* min_delay_seconds of the policy
    ClaimFor,       \* worker_lease_seconds
    DayLength,      \* time units of a day
    Period,         \* days of a map period (365)
    EnoughPacks, EnoughSources, \* what an aggregate publisher takes over at
    StudyRuns,      \* bound: leases of one study
    StudyClaims,    \* bound: leases of all studies
    StudyEnd        \* bound: last instant

Studies == Articles \cup Videos

ASSUME StudyAssumption ==
    /\ Videos \subseteq CoverageStudies /\ CoverageStudies \subseteq Studies
    /\ IsFiniteSet(Studies) /\ StudyPacks \in [Studies -> Nat]
    /\ "none" \notin StudyWorkers
    /\ {FetchTime, FollowUp, GateFence, Spacing, ClaimFor, DayLength, Period, StudyRuns}
           \subseteq Nat \ {0}
    /\ StudyEnd \in Nat /\ StudyClaims \in Nat
    /\ GateFence > 2 * FetchTime + FollowUp

VARIABLES
    studyNow,  \* the clock
    lease,     \* a study's job: its run, when the lease ends, who writes under its lock
    gate,      \* a study's request gate: the run that owns it (0 none) and until when
    attempted, \* last_attempt_at of a study's policy, -1 before the first
    reader,    \* what a worker process is at
    cohortLedger,    \* the committed observation of a study
    cell       \* a country's committed map cell of a day

studyVars == <<studyNow, lease, gate, attempted, reader, cohortLedger, cell>>

\* Titles: "reviewed" is the one that was reviewed, "edited" is another that
\* holds its tokens.  sound: every other fact the adapter looks for is there.
StudyPages == [title : {"reviewed", "edited", "other"}, sound : BOOLEAN]

Idler == [stage |-> "idle"]
Unrecorded == [title |-> "none"]
NoCell == [packs |-> 0, openings |-> 0, sources |-> 0]
Days == 0..(StudyEnd \div DayLength)
Today == studyNow \div DayLength
Countries == {Country[s] : s \in Studies}

StudyTypeOK ==
    /\ studyNow \in 0..StudyEnd
    /\ lease \in [Studies -> [run : 0..StudyRuns, until : Nat, lock : StudyWorkers \cup {"none"}]]
    /\ gate \in [Studies -> [run : 0..StudyRuns, until : Nat]]
    /\ attempted \in [Studies -> -1..StudyEnd]
    /\ \A w \in StudyWorkers : reader[w].stage \in
           {"idle", "claimed", "granted", "robots", "waiting", "page", "read", "locked", "writing"}
    /\ \A s \in Studies : \/ cohortLedger[s] = Unrecorded
                          \/ /\ cohortLedger[s].title \in {"reviewed", "edited"}
                             /\ cohortLedger[s].first \in 0..cohortLedger[s].last
                             /\ cohortLedger[s].last <= studyNow
    /\ \A c \in Countries, d \in Days : cell[c][d] \in
           [packs : Nat, openings : Nat, sources : Nat]
-------------------------------------------------------------------------------
(* Bodies with one plausible mistake each; no action uses them.            *)

CountryUnlocked(s) ==
    \A v \in StudyWorkers : reader[v].stage = "writing" => reader[v].study # s
-------------------------------------------------------------------------------
\* The page proves what was reviewed.  An article's adapter asks for tokens of
\* the title and literal sentences, so its excerpt is always the reviewed one;
ArticleAccepts(p) == p.sound /\ p.title \in {"reviewed", "edited"}

\* a watch page's asks for the very title, video, channel and dates.
VideoAccepts(p) == p.sound /\ p.title = "reviewed"

\* The contracts the factories build.
ArticleContract == [s \in Articles |-> {p \in StudyPages : ArticleAccepts(p)}]
VideoContract == [s \in Videos |-> {p \in StudyPages : VideoAccepts(p)}]

Accepts(s, p) == p \in (IF s \in Videos THEN VideoContract[s] ELSE ArticleContract[s])

StudyInit ==
    /\ studyNow = 0
    /\ lease = [s \in Studies |-> [run |-> 0, until |-> 0, lock |-> "none"]]
    /\ gate = [s \in Studies |-> [run |-> 0, until |-> 0]]
    /\ attempted = [s \in Studies |-> -1]
    /\ reader = [w \in StudyWorkers |-> Idler]
    /\ cohortLedger = [s \in Studies |-> Unrecorded]
    /\ cell = [c \in Countries |-> [d \in Days |-> NoCell]]

Live(s, run) == lease[s].run = run /\ lease[s].until > studyNow
OwnsGate(s, run) == gate[s].run = run /\ gate[s].until > studyNow

\* The lease that begin leaves.
Fenced(until) == IF until > studyNow + GateFence THEN until ELSE studyNow + GateFence

\* The job's row is not locked by a transaction.
Unlocked(s) == lease[s].lock = "none"

\* claim_jobs_v2: the job is free, or its lease is over.
ClaimStudy(w, s) ==
    /\ reader[w] = Idler
    /\ lease[s].until <= studyNow /\ Unlocked(s)
    /\ lease[s].run < StudyRuns
    /\ FoldFunctionOnSet(+, 0, [q \in Studies |-> lease[q].run], Studies) < StudyClaims
    /\ lease' = [lease EXCEPT ![s].run = @ + 1, ![s].until = studyNow + ClaimFor]
    /\ reader' = [reader EXCEPT ![w] =
          [stage |-> "claimed", study |-> s, run |-> lease[s].run + 1]]
    /\ UNCHANGED <<studyNow, gate, attempted, cohortLedger, cell>>

\* heartbeat_job: the lease and the gate it owns move on together.
StudyHeartbeat(w) ==
    LET s == reader[w].study
        run == reader[w].run
    IN  /\ reader[w] # Idler
        /\ Unlocked(s) /\ Live(s, run)
        /\ lease[s].until < studyNow + ClaimFor
        /\ lease' = [lease EXCEPT ![s].until = studyNow + ClaimFor]
        /\ gate' = IF OwnsGate(s, run) THEN [gate EXCEPT ![s].until = studyNow + ClaimFor]
                                       ELSE gate
        /\ UNCHANGED <<studyNow, attempted, reader, cohortLedger, cell>>

\* begin_public_study_job_v2: a lost lease ends the handler, a busy gate or a
\* recent attempt pauses the job, else the gate is the run's.
BeginStudy(w) ==
    LET s == reader[w].study
        run == reader[w].run
        busy == gate[s].run # 0 /\ gate[s].until > studyNow
        recent == attempted[s] >= 0 /\ studyNow < attempted[s] + Spacing
    IN  /\ reader[w].stage = "claimed"
        /\ Unlocked(s)
        /\ \/ /\ Live(s, run) /\ ~busy /\ ~recent
              /\ lease' = [lease EXCEPT ![s].until = Fenced(@)]
              /\ gate' = [gate EXCEPT ![s] = [run |-> run, until |-> lease'[s].until]]
              /\ attempted' = [attempted EXCEPT ![s] = studyNow]
              /\ reader' = [reader EXCEPT ![w] =
                    [stage |-> "granted", study |-> s, run |-> run, since |-> studyNow,
                     prompt |-> TRUE]]
           \/ /\ Live(s, run) /\ (busy \/ recent)
              /\ lease' = [lease EXCEPT ![s].until = 0]
              /\ reader' = [reader EXCEPT ![w] = Idler]
              /\ UNCHANGED <<gate, attempted>>
           \/ /\ ~Live(s, run)
              /\ reader' = [reader EXCEPT ![w] = Idler]
              /\ UNCHANGED <<lease, gate, attempted>>
        /\ UNCHANGED <<studyNow, cohortLedger, cell>>

\* The next stage of a reading, begun on time or late.
Proceeds(w, stage, due) ==
    reader' = [reader EXCEPT ![w].stage = stage, ![w].since = studyNow,
                             ![w].prompt = @ /\ studyNow <= due]

\* CollectionService.collect_url: robots.txt is asked for,
AskRobots(w) ==
    /\ reader[w].stage = "granted"
    /\ Proceeds(w, "robots", reader[w].since)
    /\ UNCHANGED <<studyNow, lease, gate, attempted, cohortLedger, cell>>

\* and if it allows the page the checker sleeps.  (Anything else fails: Fails.)
RobotsAllow(w) ==
    /\ reader[w].stage = "robots"
    /\ Proceeds(w, "waiting", studyNow)
    /\ UNCHANGED <<studyNow, lease, gate, attempted, cohortLedger, cell>>

\* CollectionGuard and the adapter: the page is asked for.  The guard's interval
\* is the follow-up delay, so it never waits longer.
AskPage(w) ==
    /\ reader[w].stage = "waiting"
    /\ studyNow >= reader[w].since + FollowUp
    /\ Proceeds(w, "page", reader[w].since + FollowUp)
    /\ UNCHANGED <<studyNow, lease, gate, attempted, cohortLedger, cell>>

\* The answer is whatever the site serves by now; PublicStudyCompletion carries
\* what the adapter accepts of it.
ReadPage(w) ==
    /\ reader[w].stage = "page"
    /\ \E p \in StudyPages :
          /\ Accepts(reader[w].study, p)
          /\ reader' = [reader EXCEPT ![w] =
                [stage |-> "read", study |-> @.study, run |-> @.run, since |-> studyNow,
                 prompt |-> @.prompt, title |-> p.title, refused |-> FALSE]]
    /\ UNCHANGED <<studyNow, lease, gate, attempted, cohortLedger, cell>>

\* The end of a run that is still current: the job is over, its gate free.
Released(s, run) ==
    /\ lease' = [lease EXCEPT ![s] = [@ EXCEPT !.until = 0, !.lock = "none"]]
    /\ gate' = IF gate[s].run = run THEN [gate EXCEPT ![s] = [run |-> 0, until |-> 0]]
                                    ELSE gate

\* A request fails, robots.txt denies, the page does not match its review, or
\* the finalizer refused: fail_job_v2, which a stale run cannot call.
FailStudy(w) ==
    LET s == reader[w].study
    IN  /\ \/ reader[w].stage \in {"robots", "page"}
           \/ reader[w].stage = "read" /\ reader[w].refused
        /\ Unlocked(s)
        /\ IF Live(s, reader[w].run) THEN Released(s, reader[w].run)
                                     ELSE UNCHANGED <<lease, gate>>
        /\ reader' = [reader EXCEPT ![w] = Idler]
        /\ UNCHANGED <<studyNow, attempted, cohortLedger, cell>>

\* What a finalizer's transaction asks of its lease and its gate.
Holds(s, run) == Live(s, run) /\ OwnsGate(s, run)

\* The recorded observation contradicts the reading: only plain studies keep
\* the title.
Conflicts(s, found) ==
    /\ s \notin CoverageStudies
    /\ cohortLedger[s] # Unrecorded /\ cohortLedger[s].title # found

\* The finalizer locks the row of its job and checks the lease and the gate.
LockStudy(w) ==
    LET s == reader[w].study
        run == reader[w].run
    IN  /\ reader[w].stage = "read" /\ ~reader[w].refused
        /\ Unlocked(s)
        /\ \/ /\ Holds(s, run)
              /\ lease' = [lease EXCEPT ![s].lock = w]
              /\ reader' = [reader EXCEPT ![w].stage = "locked"]
           \/ /\ ~Live(s, run)
              /\ reader' = [reader EXCEPT ![w] = Idler]
              /\ UNCHANGED lease
           \/ /\ Live(s, run) /\ ~OwnsGate(s, run)
              /\ reader' = [reader EXCEPT ![w].refused = TRUE]
              /\ UNCHANGED lease
        /\ UNCHANGED <<studyNow, gate, attempted, cohortLedger, cell>>

\* pg_advisory_xact_lock of the country, which only plain studies take.
CountryFree(s) ==
    s \notin CoverageStudies =>
        \A v \in StudyWorkers : reader[v].stage = "writing" =>
            \/ reader[v].study \in CoverageStudies
            \/ Country[reader[v].study] # Country[s]

\* The observations a country's cohort is made of on a day, as the transaction
\* of study s sees them: the committed ones and its own.
Cohort(s, day) ==
    {q \in Studies \ CoverageStudies :
        /\ q = s \/ cohortLedger[q] # Unrecorded
        /\ Country[q] = Country[s]
        /\ ObservedOn[q] \in (day - Period + 1)..day}

\* A cohort's cell: withheld when it is empty, and when it is large enough for
\* the aggregate publisher.
Published(cohort) ==
    LET packs == FoldFunctionOnSet(+, 0, StudyPacks, cohort)
        sources == Cardinality({Domain[q] : q \in cohort})
    IN  IF cohort = {} \/ (packs >= EnoughPacks /\ sources >= EnoughSources) THEN NoCell
        ELSE [packs |-> packs, openings |-> Cardinality(cohort), sources |-> sources]

\* The transaction ends without effect.
Aborted(w) ==
    /\ lease' = [lease EXCEPT ![reader[w].study].lock = "none"]
    /\ reader' = [reader EXCEPT ![w].stage = "read", ![w].refused = TRUE]

\* The rest of the transaction, up to its commit: the completion time is read
\* after the locks.  It fails when the lease is over by then, when the study's
\* set is not in the catalog, or when the observation conflicts.
WriteStudy(w) ==
    LET s == reader[w].study
    IN  /\ reader[w].stage = "locked"
        /\ CountryFree(s)
        /\ \/ Aborted(w)
           \/ /\ Live(s, reader[w].run)
              /\ ~Conflicts(s, reader[w].title)
              /\ reader' = [reader EXCEPT ![w] =
                    [stage |-> "writing", study |-> s, run |-> @.run, title |-> @.title,
                     at |-> studyNow, cell |-> Published(Cohort(s, Today))]]
              /\ UNCHANGED lease
        /\ UNCHANGED <<studyNow, gate, attempted, cohortLedger, cell>>

CommitStudy(w) ==
    LET s == reader[w].study
        day == reader[w].at \div DayLength
    IN  /\ reader[w].stage = "writing"
        /\ cohortLedger' = [cohortLedger EXCEPT ![s] =
              IF @ # Unrecorded THEN [@ EXCEPT !.last = reader[w].at]
              ELSE [title |-> reader[w].title, first |-> reader[w].at, last |-> reader[w].at]]
        /\ cell' = IF s \in CoverageStudies THEN cell
                   ELSE [cell EXCEPT ![Country[s]][day] = reader[w].cell]
        /\ Released(s, reader[w].run)
        /\ reader' = [reader EXCEPT ![w] = Idler]
        /\ UNCHANGED <<studyNow, attempted>>

\* The process dies, or its answer is lost; an open transaction is undone.
ReaderDies(w) ==
    /\ reader[w] # Idler
    /\ lease' = IF reader[w].stage \in {"locked", "writing"}
                THEN [lease EXCEPT ![reader[w].study].lock = "none"] ELSE lease
    /\ reader' = [reader EXCEPT ![w] = Idler]
    /\ UNCHANGED <<studyNow, gate, attempted, cohortLedger, cell>>

\* Time passes; a request does not outrun its timeout.
StudyTick ==
    /\ studyNow < StudyEnd
    /\ \A w \in StudyWorkers : reader[w].stage \in {"robots", "page"} =>
          studyNow < reader[w].since + FetchTime
    /\ studyNow' = studyNow + 1
    /\ UNCHANGED <<lease, gate, attempted, reader, cohortLedger, cell>>

StudyNext ==
    \/ \E w \in StudyWorkers :
          \/ \E s \in Studies : ClaimStudy(w, s)
          \/ StudyHeartbeat(w) \/ BeginStudy(w)
          \/ AskRobots(w) \/ RobotsAllow(w) \/ AskPage(w) \/ ReadPage(w)
          \/ FailStudy(w) \/ LockStudy(w) \/ WriteStudy(w) \/ CommitStudy(w)
          \/ ReaderDies(w)
    \/ StudyTick

StudySpec == StudyInit /\ [][StudyNext]_studyVars
-------------------------------------------------------------------------------
(* Both requests of a reading fit under what begin left, without a single  *)
(* heartbeat: unless the process itself was delayed, it holds its lease    *)
(* and its gate from the first request to the answer.                      *)
PromptReaderHoldsGate ==
    \A w \in StudyWorkers :
        LET r == reader[w]
        IN  /\ r.stage \in {"granted", "robots", "waiting", "page", "read"}
            /\ r.prompt
            /\ r.stage \in {"granted", "read"} => studyNow = r.since
            /\ r.stage = "waiting" => studyNow <= r.since + FollowUp
            => Holds(r.study, r.run)

(* No finalizer publishes a count that omits an observation committed      *)
(* before: a country's cell of a day is that of all its observations of    *)
(* the period, recorded on that day or earlier, whichever of them was      *)
(* verified last.                                                          *)
CellCountsCohort ==
    \A c \in Countries, d \in Days :
        LET rows == {s \in Studies \ CoverageStudies :
                        /\ Country[s] = c /\ cohortLedger[s] # Unrecorded
                        /\ cohortLedger[s].first \div DayLength <= d}
            fit == {s \in rows : ObservedOn[s] \in (d - Period + 1)..d}
        IN  \/ cell[c][d] = Published(fit)
            \/ cell[c][d] = NoCell /\ \A s \in rows : cohortLedger[s].last \div DayLength # d

(* A reading keeps its fences to its answer, and what is published of it   *)
(* is the whole cohort.                                                    *)
StudyInv == StudyTypeOK /\ PromptReaderHoldsGate /\ CellCountsCohort
===============================================================================
