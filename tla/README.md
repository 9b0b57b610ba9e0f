# Pokecrack: a verification development for the worker and its job queue

Pokecrack collects public data about trading-card openings from a few fixed
sources and publishes aggregates.  A scheduler and several worker processes
share one PostgreSQL database; all coordination between them goes through
database functions that lease jobs, grant request gates and persist results in
one transaction.  Around them are a private review of submitted openings, an AI
evidence pipeline, a browser service, and the backup and migration tools.

This directory models these parts in TLA+, model-checks them on small instances
with TLC, and proves most of their safety properties for all values of the constants
with TLAPS (section 4 says which, and which are only model-checked).

All paths below are relative to the repository; migrations are in
`supabase/migrations/`, the worker in `services/worker/pokecrack_worker/`.

## 1. Inventory

### Components

| Component | State | Operations | Interaction | Module |
|---|---|---|---|---|
| Durable job queue (`20260825000200_ingest.sql`, `20260827…job_lease_fencing`, `20260828…tcgdex`, `20260829…youtube`) | `ingest.jobs`: status, attempts, `lease_generation`, `locked_by`, `lock_expires_at`, `available_at` | enqueue, claim (with a sweep of exhausted rows), heartbeat, typed finalizers, fail, budget pause, admin cancel | called by scheduler, workers and administrators, one transaction per call | `JobQueue`, `JobLedger` |
| Request gates and policies | `ingest.source_request_gates` (owner, generation, expiry), `collection_policies` (`enabled`, `last_attempt_at`, `min_delay_seconds`) | `begin_…_job`, renewal by the heartbeat, release by finalizer and failure, kill switch | one gate per source; guards a worker's network request | `JobQueue`, the pipelines |
| Worker runtime (`runtime.py`, `composition.py`, `jobs/postgres.py`, `db/postgres.py`) | per process: the claimed job, the outcome of heartbeats, the open request | lease – run handler in a thread – heartbeat from the main thread – complete / fail / pause; restart by the container | calls the queue over a connection whose answers may be lost | `WorkerRuntime` |
| Schedule slots and scheduler (`scheduler.py`, `20260828…`–`20260831…`) | `ingest.schedule_slots` and the job each reserves; the container's loop | compute the due slots, look a key up, reserve it and enqueue, adopt a legacy job | several schedulers may run; older ones enqueue the same keys directly | `CronSlots`, `ScheduleSlots` |
| In-memory repository (`jobs/repository.py`) | jobs and reserved slots under one lock | the queue's and the scheduler's operations, for tests and the dry run | stands in for the database | `MemoryRepository` |
| Bluesky pipeline (`bluesky.py`, `20260903…`, `20260914…`) | stream cursor, observations, candidates, gate | begin, collect a slice, finalize, recover a cursor that is too old | external stream with a replay window | `BlueskyStream` |
| Nostr pipeline (`nostr.py`, `20260906…`) | checkpoint and gate per relay, observations, candidates | begin with overlap, collect, finalize, defer | external relays that deliver late, twice, in any order | `NostrRelay` |
| Mastodon pipeline (`mastodon.py`, `20260912…`) | cursor per tag, gate and cooldown per instance, candidates | begin, page, finalize, record a 429 | external instance; tags share one gate | `MastodonTags` |
| YouTube request (`youtube.py`) | a curl child per request | start, drain, kill, reap, complete | runs under the queue's grant | `YouTubeRequest` |
| Public studies (`public_studies.py`, `20260831…`, `20260902…`) | gate per study, observations, a country's cohort cell | robots, page, finalize under a country lock | page and text parser | `PublicStudies`, `StudyText` |
| Source families (`source_families.py`, `numbered_families.py`, `20261018…`, `20261024…`) | run and control rows, candidates, admissions, identity keys | begin, authorize each request, stage, defer, finalize, retract, kill switch | one outstanding cycle per publisher | `SourceFamilies` |
| Reported volume (`global_volume.py`, `social_volume.py`, `20261029…`–`20261031…`) | candidate rows with state, lock and tries | import two manifests, claim a batch, verify, finalize | host processes with one worker id | `ReportedVolume` |
| Authorized opening review (`authorized_opening_operator.py`, `20260918…`–`20260928…`) | submissions with revision, history, observations, retractions | submit, review, retract | operator commands, one connection each | `AuthorizedOpening` |
| AI extraction, validation, budget (`extraction/`, `validation/`) | budget ledger, decision of one text | reserve, dispatch, charge; extract, validate, escalate | no live handler calls it | `EvidencePipeline`, `AIBudget` |
| Authenticated browser (`services/auth-browser/`) | lifetime flock, state file, adapter slot and its clock | start, stop, supervise; run an adapter | separate processes | `BrowserProfile`, `AdapterSlot` |
| Backup (`deploy/scripts/backup.sh`, `deploy/lib/`) | managed files, success marker | preflights, dump, sanitize, promote, mark, prune | live database that is migrated meanwhile | `BackupRun`, `BackupSanitizer` |
| Migrations (`scripts/run_supabase_migrations.py`, `check_migration_safety.py`) | `schema_migrations` | list, audit, apply, verify | HTTP API that may answer late or never | `MigrationRunner`, `MigrationText` |
| Admin control (`20260825000600_admin_control.sql`) | sessions, audit log | `job.cancel`, `source.disable`, … | writes queue and policies | in `JobQueue` |
| Deduplication, statistics, aggregation | none | pure functions | read models | – |
| Release evidence, public schema, web application, packages | projections | queries | readers | – |

### What is hard, and what makes each part correct

* **Queue.**  A lease expires while its holder works; the row is reclaimed, by
  another worker or by the same `worker_id` after a restart; calls of the old
  lease come after it.  Correct: a lease becomes live only with a fresh
  generation, a live lease is not stolen, a terminal row is never rewritten,
  every result is persisted exactly once.
* **Gates.**  The gate's expiry is a copy of the lease's, renewed by another
  statement; owners crash, pause or are cancelled while they own it.  Correct:
  a busy gate is never taken over, gate and lease run out together, a source is
  never blocked for ever.
* **Runtime.**  Handler thread, heartbeat and finalizer interleave; an answer is
  lost after its commit; an exception in a heartbeat discards a good result;
  processes die anywhere.  Correct: at most one request per source is open, a
  collected result is refused only after the kill switch, every job settles.
* **Scheduler.**  Two processes reserve the same slot; an older one takes its key
  between two statements; a slot is missed, or too old when it is enqueued; one
  refused entry ends the cycle.  Correct: one job per slot, which it keeps, and
  no slot lost that catch-up promises.
* **In-memory repository.**  What the tests show of a worker on it holds in
  production only as far as both implementations agree.
* **Feeds.**  A cursor or checkpoint moves past events that were not persisted;
  events come late, twice or after their deletion; a recovery drops a cursor; a
  429 of one tag concerns all.  Correct: nothing timely is lost, what was deleted
  stays deleted, only a forgotten cursor is dropped, a back-off is kept.
* **Requests.**  A child process outlives its deadline or is reaped by an
  interrupted call.  Correct: what may still run holds the gate, no signal goes
  to another process.
* **Publications.**  Pages are edited, reposted, retracted or moved between two
  readings; finalizers of one country race.  Correct: each pack counts once, as
  last read, and a cell counts its whole cohort.
* **Reviews and answers.**  Stale decisions, lost replies, several hands; models
  that disagree; calls that are judged against a budget before they are charged.
  Correct: an opening counts once and not after its retraction, what counts
  rests on two answers, no limit is exceeded by promises.
* **Operations.**  A database migrated during a backup, a pid given away, a runner
  killed in its slot, a migration that commits after its client gave up.

`PROJECT.json` names every hazard at its line, with the properties that cover it.

## 2. The modules

| Module | Models |
|---|---|
| `JobLedger` | abstract specification: a job waits, is leased and is settled once; one user per source; one result per completed job |
| `JobQueue` | the SQL functions of queue, gates and policies, with unconstrained clients |
| `WorkerRuntime` | worker processes, unanswered calls, crashes, on top of `JobQueue` |
| `CronSlots`, `ScheduleSlots` | the slot of an entry at a minute, as pure operators; scheduler processes and the durable slots they reserve |
| `MemoryRepository` | the in-memory repository |
| `NostrRelay`, `BlueskyStream`, `MastodonTags` | the social feeds |
| `YouTubeRequest` | a search request and its child process |
| `SourceFamilies`, `ReportedVolume`, `PublicStudies`, `StudyText` | what public pages tell |
| `AuthorizedOpening`, `EvidencePipeline`, `AIBudget` | reviews by people and by models |
| `BackupSanitizer`, `BackupRun`, `MigrationText`, `MigrationRunner`, `BrowserProfile`, `AdapterSlot` | operations |
| `MCJobQueue`, `MCWorkerRuntime`, `MCScheduleCalendar`, `MCBlueskyStream` | small instances of one module |
| `MCFeeds`, `MCPublications`, `MCAnswers`, `MCOperations` | small instances of several modules at once |
| `JobQueue_proofs`, `WorkerRuntime_proofs`, `ScheduleSlots_proofs`, `MemoryRepository_proofs` | theorems about queue, runtime, scheduler and repository, section 4 |
| `Feeds_proofs`, `Answers_proofs`, `Totals_proofs`, `Operations_proofs` | theorems about the feeds; requests, reviews, answers and families; budget, study cells and texts, reported volume; operations with backups |

The four combined instances hold parts that share no state.  A behaviour is one
part's: the variable `part` (or `feed`) is chosen initially, the chosen part takes
its steps and the others stay in an initial state.  Every property is about one
part, so the states of a combined run are the sum of its parts' and not their
product.

### JobQueue

Every SQL function runs in one transaction that first locks its job row and, for
gates, the gate and policy rows, so a function is one action.

| Variable | Code |
|---|---|
| `status`, `attempts`, `generation`, `locked_by` | columns of `ingest.jobs` |
| `lease_left`, `due_in` | `lock_expires_at` and `available_at`, as the ticks left on the database clock; 0 once they are past |
| `gate[s]` | `source_request_gates`: owner job, owner generation, ticks until `lock_expires_at` |
| `cooldown[s]` | ticks until `collection_policies.last_attempt_at + min_delay_seconds` |
| `enabled[s]` | the exact policy row exists and is enabled |
| `revision[s]` | results persisted; for the catalogue this is `catalog.sync_state.revision` |

| Action | Code |
|---|---|
| `Enqueue` | `enqueue_job_v1` |
| `Sweep`, `Claim` | `claim_jobs_v2`; its first statement buries every exhausted row and gives a running one a new generation, also when no row is then leased |
| `Heartbeat` | `heartbeat_job_v2`: renews the lease and the gates of this generation |
| `Begin` | `begin_tcgdex_sets_job`, `begin_youtube_discovery_job` where they grant the gate; the answers that change nothing (not leased, disabled, deferred) are read by the caller in `WorkerRuntime` |
| `Finalize` | `finalize_cleanup_job`, `finalize_tcgdex_sets_job`, `finalize_youtube_discovery_job` |
| `Fail` | `fail_job_v2`: dead letter or delayed retry |
| `Pause` | `pause_job_for_budget_v2` |
| `Cancel`, `Disable` | the admin commands `job.cancel` and `source.disable` |
| `Tick` | the database clock |

Clients are *unconstrained*: any worker name may call any function for any job
with any generation up to the bound, at any time.  A property that holds here
holds whatever the workers do, so it needs no assumption about the runtime.

`Pause` is guarded by `NamesLease`, not by the live lease: the function compares the
lease with a clock that it reads before it waits for the row, so the lease may
have run out, though not been reissued, when it writes.

Time is relative.  All comparisons in the code are between a stored timestamp and
`clock_timestamp()` of the one database, so the ticks left are all that the
functions can observe.  Strict and non-strict comparisons matter only at
equality, which 0 stands for: a lease is live while `lock_expires_at > now`
(`lease_left > 0`) and claimable once `lock_expires_at <= now`.

### WorkerRuntime

One `pc` per process follows `run_once`; `Phases` names what each value stands
for.  `beat` is what the main thread has seen of its heartbeats while the
handler runs (`_run_handler_with_heartbeats`): a lost lease makes `run_once`
return, an exception replaces the handler's outcome.  `base` is the checkpoint
revision that `begin` returned and the finalizer is given.

Faults: a call that is not answered raises in the worker, although it may have
taken effect.  It cannot take effect *later*: `db/postgres.py` sends `COMMIT` only
after it has read the statement's result, so a statement that was not executed
when its client gave up is rolled back, and a transaction whose `COMMIT` is on its
way holds its row locks, which orders it before everything else that happens to
its job.  A process may die in any phase, also between a claim and its first
step, which stands for a claim whose answer was lost.  `MaxFaults` bounds both.

`QueueSpec` is a property of this module: the runtime is one particular client of
the queue, so everything checked and proved about `JobQueue` applies to it.

### ScheduleSlots

One `pc` per scheduler process.  `StartCycle` is `pokecrack-worker scheduler`: it
reads the clock once and computes the due entries in the order of
`live_schedule_entries`.  Each due entry is then one call of `enqueue_scheduled`,
and between two calls anything may happen.

| Action | Code |
|---|---|
| `StartCycle`, `EndCycle` | the command and the entrypoint's loop around it, which sleeps after it |
| `Refuse` | the argument and policy checks of `enqueue_scheduled_job_v1` |
| `Lookup` | its `select … for share` by dedupe key, and the adoption if it finds a job |
| `Reserve` | its `insert … on conflict do nothing` with the insert of the job |
| `Collide` | the same insert meeting `jobs_active_dedupe_uidx` |
| `EnqueueFamily` | `enqueue_source_family_v1`, serialised by an advisory lock |
| `Crash`, `Restart` | any failure ends the container, which is restarted |
| `LegacyEnqueue`, `JobEnds` | a scheduler of an older release and a worker |
| `Disable` | `source.disable` |
| `Advance` | time; no process passes its `wake` tick |

`Lookup` and `Reserve` are two actions although they are one transaction: under
READ COMMITTED each statement has its own snapshot, and a lookup that finds
nothing locks nothing.  From the insert of the slot on the transaction is atomic,
since another insert of that slot waits for it.

`CronSlots` holds the computation of one slot.  `Missed` is what the loop of
`ScheduleEntry.slot` looks through, stated as a set; `Latest` is its result.

### MemoryRepository

Every method holds one lock throughout, so a method is an action.  A job is a
record, `job[j]`, of which `status = "absent"` means that its identity is not in
`_jobs` yet; what a job keeps for good (kind, priority, dedupe key) is a constant
of its identity.  Instants are absolute, as the code keeps them, up to `MaxTime`.

| Action | Code |
|---|---|
| `Enqueue`, `EnqueueScheduled` | `enqueue`, `enqueue_scheduled`; a call that only returns an existing job changes nothing |
| `Sweep`, `Lease` | `lease`: the loop that buries exhausted jobs, the filter by kinds and the order of the remaining ones |
| `Heartbeat`, `Complete`, `Pause`, `Fail` | the methods behind `_active_lease` |
| `Cancel` | `cancel` |
| `Tick` | the clock of the process |

`complete` refuses an effect, so only completion without one is an action, and
`retry_failed` has none: it rewrites failed jobs, and nothing makes a job failed.
`MemorySpec` has every caller.  The refinement to `JobQueue` (the `Row…` functions
turn instants into ticks left; there are no sources) does not hold for all of
them: `CarefulNext` leaves out pauses that end at once, which the database
refuses, and the cancelling of leased jobs.

### The social feeds

The three modules keep their source's own protocol and abstract the queue's to
what it promises: a lease that may run out at any time and comes back with a new
generation.  The source is external; it is given what the code relies on.

* **`NostrRelay`**.  `arrived` is what a relay has, `checkpoint` and `stream` the
  relay's row and gate, `kept` and `candidate` the tables.  `NostrBegin` hands out
  the slice from the checkpoint less the overlap, `NostrCollect` is the websocket
  session with its event limits, `NostrFinalize` the transaction that writes
  observations, merges candidates, applies deletions of the same author and moves
  the checkpoint.  `NostrDefer`, `NostrHeartbeat`, `HandBack` and `NostrCrash` are
  the other ends of an attempt.  `NostrInv`: a post or deletion that reached a
  relay no later than the overlap is stored or applied once the checkpoint has
  passed it, unless an answer was cut.  `DeletedStays`: also when another relay
  delivers the post again.
* **`BlueskyStream`**.  `stream_log` and `floor` are the stream, `cursor` and `stale`
  the checkpoint, `events` and `post` the tables.  `BlueskyCollect` keeps the
  longest prefix the completion can hold (`PrefixEnd`); `BlueskyFinalize` checks
  and applies it (`ValidSlice`, `Applied`); `BlueskyTooOld` and `BlueskyRecover` are
  the refused handshake and the fenced recovery.  `BlueskyInv`: every relevant
  event up to the cursor is stored unless a slice started without a cursor, a
  candidate is what its last event made it, and a collected slice is one the
  database takes.  `RewindsOnlyForgotten`, and `TooOldIsDropped` (liveness).
* **`MastodonTags`**.  `last_status_id` per tag, one `gate` and one `cooldown` for the
  instance.  `MastodonPage` reads one page forward, `MastodonLimited` and
  `MastodonRecord` are a 429 and its record, which puts the job off in the same
  transaction.  `MastodonInv`: behind a tag's cursor every well formed status that
  always had the tag was observed, a candidate is the union of what the tags'
  jobs stored, and a current slice is refused only for an announced reset that has
  passed or unusable ids.  `BackedOff`: no tag's job is granted a request before
  the instant the instance asked for.

### Requests and public pages

* **`YouTubeRequest`**.  A grant (lease and gate in one), the worker that uses it and
  its curl child.  `Drained` and `Overstepped` are `_bounded_exchange`; `ReapRound`
  is one round of `_reap_process_group_guarded`, in which any call may be
  interrupted after the kernel collected the child.  `YouTubeInv`: a curl that may
  still run holds the gate unless its worker slept before starting it, a collected
  child's number is never signalled, and an accepted answer can be completed.
* **`SourceFamilies`**.  Both publishers with one set of actions: `FamilyBegin`
  acquires, `FamilyAuthorize` asks the database for the next request, `FamilySend`
  is the request itself, whenever the process comes to it, with its answer,
  `FamilyDefer` tells the database of a wait, `FamilyStage` stages, and
  `FamilyFinalize` alone decides.  They differ in where they pace, who releases the
  acquisition and what a refusal does; `family` selects.  A page is the identities
  it shows and how (`Figure`, `Caption` in `MCPublications`).  `FamilyInv`: no pack
  counts twice, a numbered article counts only packs it showed first, what was
  retracted stays out, and an article counts what its page showed last.
  `PublisherPaced` is about the requests as they are sent and the waits as they are
  answered (`sent`, `announced`): no request within the pace of the last used
  authorization, nor before an instant that any cycle of any worker was asked to wait
  for.  Two exceptions are the code's: a process held up between authorization and
  request until its acquisition is over sends nevertheless, and a wait whose cycle ends,
  or loses lease or acquisition, before the record is lost (`lost`).
* **`ReportedVolume`**.  Two manifests, one table.  `Fairly` takes turns between feeds,
  `ImportLedger` and `ImportSocial` upsert, `ClaimBatch` … `FinalizeCandidate` are the
  check under a lock that may run out.  The turns are stated by places, not by a loop:
  a post is ahead of another if its `Turn` among the posts that name a number comes
  first.  `VolumeInv`: a page is read at most as often as it may be tried, and no
  feed crowds the other out.
* **`PublicStudies`**.  A reading is robots, pause, page; `LockStudy`, `WriteStudy` and
  `CommitStudy` are one transaction, split where it takes the country's advisory
  lock, so that two finalizers interleave.  `StudyInv`: a reader that is not delayed
  holds lease and gate throughout, and a cell is the whole cohort of its period.
* **`StudyText`**.  `_VisibleTextParser` fed token by token, beside the elements that are
  open for a reader.  Any stream of tags occurs: an end tag ends the innermost open
  element of its name and all that is open in it (`CloseTag`), one that fits nothing
  ends nothing (`StrayTag`), an element may never end.  `unclosed` and `crossed` record the
  page's mistakes, and `StudyTextInv` says what each may cost: hidden text is
  evidence only after a stray hidden end tag within another hidden element; what is
  visible is missed, and the words before and after an element's own end tag are
  adjacent (those of nested content elements too), only after a hidden element was left
  open; and a page that closes what counts is read exactly.

### Reviews, answers and budget

* **`AuthorizedOpening`**.  Each operator command is a connection; `Submit` and `Retract`
  are one step, a review is `BeginReview` (it reads a row and a clock) and `Review`
  (under the row's lock, behind `Fence`).  After a commit the reply may be lost and
  the command run again.  `OpeningInv` has six parts: an opening counts once, a
  retraction stands for every later submission of the same fact, the history
  explains the row, a late decision is an expiry, a confirmed submission is the
  stored one, and submitters never decide.
* **`EvidencePipeline`**.  The models answer anything their schemas allow; an answer is
  its set, product, tier, verdict and whether it was sure, fits the catalog and is
  otherwise eligible.  `EvidenceInv`: what reaches the rates was seen alike by two
  answers, nobody consulted was unsure, and a pause, a misfit or an unresolved
  disagreement leaves nothing behind.
* **`AIBudget`**.  Threads read the clock, reserve under the ledger's lock, dispatch once,
  and are charged what they used or, without an answer, the whole bound.
  `BudgetInv`: neither a day nor a month is promised more than its limit, and what
  the provider may bill is covered.  It assumes, as the code does, that usage stays
  within the estimated bound.

### Operations

* **`BackupSanitizer`** holds the two passes of `sanitize_plain_backup.py` as operators:
  a dump is a sequence of lines reduced to what the sanitizer tells apart, the scan
  (`Listed` …) refuses at the first deviation, the second pass rewrites.  **`BackupRun`**
  composes it with `backup.sh`: preflights and dump are steps between which the
  database may be migrated, the dump may deviate from the reviewed shape in one
  place, and a run may die anywhere.  `BackupInv`: what is promoted is of the
  reviewed shape, is the dump line by line apart from seeded gates, disposable
  rows and switched-off controls, restores idle, and the marker names a file that
  is there.
* **`MigrationText`** reads a migration token by token with four scanners: the runner's
  splitter and comment stripper, the audit's, and PostgreSQL's.  `ScriptInv`: a file
  is accepted exactly when PostgreSQL would begin once, work, and commit last; a
  destructive statement is never hidden from the audit unless a plain string holds
  a backslash or a dollar-quoted body a quote.  PostgreSQL reads `$` after an
  identifier character as part of the identifier (`PgFound`), where the runner finds a
  delimiter (`Found`); from such an `x$a$` in code on (`misread`) the two disagree, and
  only the statement about the audit is made.  **`MigrationRunner`** has overlapping
  runs from several checkouts and an API that loses answers and commits later.
  `MigrationInv`: each version takes effect once, within its audited allowlist, and
  a run that reported a current ledger was right.
* **`BrowserProfile`**.  Managers are commands and the supervisor; only the flock is
  atomic, the state file is read, judged and removed in separate steps; the kernel
  reuses pids.  With pidfds `Signal` checks and signals the process that the descriptor
  pins; without them it checks, and `Strike` is the `os.kill` that follows.  A process
  that was signalled or killed ends some time later, if at all.  A start that fails
  runs the stopper, whatever that comes to (`StartFails`), and unlocks (`Unlock_`) for its
  child too.  `ProfileInv`: one browser at a time, except for those that outlived the
  unlocking of their own failed start (`strays`); and no signal to anything else, except
  that by bare pid a program may be hit that started after the check.
* **`AdapterSlot`**.  The slot's flock, the schedule file, version and command
  processes, killed runners.  `SlotInv`: no two living runners have a process, and
  an adapter keeps its interval after an orderly end.

### JobLedger

The queue's promise without leases, timers, gates or generations: `phase`,
`user` and `results`.  The refinement mapping is `LedgerPhase` (a running row
whose lease has run out is waiting again, although nothing was written),
`LedgerUser` (the owner of a busy gate) and `revision`.  Under it expiry by the
clock is a step of the ledger, and a heartbeat or a stale call is a stutter.

## 3. The runs

| Run | Instance | Shows |
|---|---|---|
| `queue` | 2 jobs of one catalogue source, 2 workers, every caller and generation | the queue's invariants and action properties, and that it implements `JobLedger` |
| `runtime` | 2 jobs, 2 workers, 2 faults | `NoOverlap`, `OnlyKillSwitchRefuses`, `RuntimeInv`, `QueueSpec` |
| `liveness` | 2 jobs competing for one source, one attempt each, 2 faults | `EventuallyTerminal`, `GateEventuallyFree` |
| `retries` | one discovery job and one cleanup job, two attempts, 1 fault | `EventuallyTerminal` through retries and backoff |
| `calendar` | 1 scheduler, three daily entries of the default configuration and the hourly source family, 40 hours in quarters, 1 crash, a kill switch and one late job of an older scheduler | `CatchUpServes`, `OnlyKillSwitchFails` |
| `weekly` | the calendar with a weekly catalogue | a *violation*, see the findings |
| `feeds` | 2 workers per feed; 2 relays with a post and its deletion; 3 frames; 2 tags with 2 statuses | `NostrInv`, `BlueskyInv`, `MastodonInv`, `DeletedStays`, `RewindsOnlyForgotten`, `BackedOff` |
| `bluesky` | 1 fair worker, 3 frames | `TooOldIsDropped` |
| `publications` | 2 processes; 3 articles and 3 packs; 1 report and 3 posts; 3 studies; 7 tokens | `FamilyInv`, `VolumeInv`, `StudyInv`, `StudyTextInv`, `PublisherPaced` |
| `answers` | 2 schedulers and an older one, 5 minutes; 2 YouTube workers; 4 operators, 2 keys; every answer of three models; 2 callers, 4 days | `OneJobPerSlot`, `SlotKeepsJob`, `YouTubeInv`, `OpeningInv`, `EvidenceInv`, `BudgetInv` |
| `operations` | 4 backups over 6 schemas; 2 commands, 3 processes, 2 pids; 2 runners, 2 adapters; any file; 2 releases, 5 versions; 2 jobs of one slot | `BackupInv`, `ProfileInv`, `SlotInv`, `ScriptInv`, `MigrationInv`, `CareIsEnough` |
| `evidence` | every answer of three models | a *violation*, see the findings |

Section 2 says what the invariants of the newer modules consist of.  The others:

* `GatesFollowLeases` — a gate names an issued generation, and runs out exactly
  with its lease while that lasts; a finalizer that passes the lease check never
  finds its gate expired.
* `ResultsPersistedOnce` — as many results of a source as completed jobs.
* `RowsAreSound` — the types and the table's CHECK constraints, with attempts and lease
  of a running row.
* `NewLeaseNewGeneration`, `LiveLeaseNotStolen`.
* `BusyGateNotStolen` — a busy gate is freed only by the transaction that ends the live
  lease it was granted to, is renewed only together with that lease, and otherwise
  just runs out; a stale or foreign call leaves it alone.
* `KeepsLedger` — the refinement; among others it makes the failure harmless that a
  worker reports after a finalizer whose answer was lost.
* `NoOverlap` — at most one request per source is open *in the processes*, not
  only in the tables.  It rests on the transport's deadline being shorter than
  the lease that `begin` leaves.
* `OnlyKillSwitchRefuses` — the result of a live lease is refused only because
  the policy was disabled, never because its gate was lost or the checkpoint moved.
* `RuntimeInv` — the types, and that two processes never believe to hold one lease.
* `EventuallyTerminal`, `GateEventuallyFree` — every queued job is settled and no
  source stays blocked, under the fairness below.
* `OneJobPerSlot` — a slot has at most one scheduled job, and none that its row
  does not refer to; a family's hour has one job.
* `SlotKeepsJob` — the job a slot reserved or adopted stays its job.
* `CatchUpServes` — a slot is served if its window leaves the loop time for one
  cycle after a crash and a restart, although another entry's disabled policy
  fails every cycle in which that entry is due.
* `OnlyKillSwitchFails` — no slot is computed that the database refuses as too old: a
  cycle fails only at a disabled entry, or where a job of an older scheduler holds the key.
* `CareIsEnough` — after any calls to the repository, a careful one is a step of
  `JobQueue`.

Every property has a mutant in `PROJECT.json`: a definition replaced by a body
with one plausible mistake, under which TLC finds the property violated.  The
mutant bodies stand in the modules next to the definitions they change.

### Bounds

* Two jobs, two workers and one source are the fewest with which a reclaim, a
  takeover of a gate and a conflict of checkpoints happen.  `MaxAttempts = 2`
  separates a retry from a dead letter and lets a pause give back an attempt that
  is not the last one.
* `LeaseFor`, `BeginLease`, `MinDelay` are 1 to 3 ticks; what matters is their
  order.  With `LeaseFor < BeginLease` begin stretches and a later heartbeat
  shortens the lease: `queue`, `runtime` and `retries`; in `liveness` both are equal.
* `MaxGeneration` bounds leases per job.  In the runs for liveness it could
  hide a loop, but reaching it would leave a job that can no longer be claimed
  and so violate `EventuallyTerminal`: the passing runs show it is not reached
  in a way that matters.
* `MaxFaults = 2` lets a lost answer be followed by a crash, or happen to the
  second life of a process; `retries` has one fault.
* `calendar` keeps the default windows and check intervals but counts a quarter
  of an hour as a minute, to which all its slots are aligned; 160 quarters pass
  the end of the longest window.
* `feeds`: Nostr runs over the seconds 3 to 5 with an overlap of 2, so that an event
  may arrive after a slice of its second was stored and before the overlap forgets
  it; one relay gets two attempts.  Three frames are a post, a deletion and one
  that does not fit, in every order; one item per slice makes every slice stop at
  its limit.  Pages of one status and two pages per slice make the two statuses
  cross a page boundary; one tag has two attempts, and one edit takes a tag away.
* `publications`: three packs and two packs per article make a repost of a repost
  possible; three cycles of the numbered family read each of two articles and one of
  them again; its `Pace`, `ServerPause` and the acquisition differ so that each can
  be the one that matters, and a process may send after its acquisition ran out.
  Two checkers with batches of two overlap on every row.
  Two studies of one country and a coverage study, two days and a period of two.  Seven tokens
  with four elements open leave one hidden or content element unclosed within another
  and still bring text, an end tag and text after it.
* `answers`: a cycle may take three ticks and the schedulers overlap anywhere in it;
  two legacy jobs of one key are needed for a second job after the adopted one
  ended.  Three grants of three ticks, one tick for transfer and reaping.  Four
  envelopes are two submissions of one fact, a changed payload under a used key and
  an ineligible one; one operator has both roles.  Estimates 1 and 2 against limits
  3 and 5 over two months of two days make both limits bite.
* `operations`: a backup is dumped from any of six schemas and the next one may see
  the following schema; one deviation per dump; two backups per day, three days a
  week for retention.  Three processes and two pids are the fewest with which a pid
  is given away.  `MaxRequests` = 4 apply requests from two runs.  The repository's
  two jobs have one slot as their key, two workers, and instants up to 6, which lets
  both attempts run out and the other job be leased after it.
* Processes that differ in name only are interchangeable, and symmetry is used for
  them in the runs without liveness properties.
* The clocks of these instances stop at a last instant, and finite inputs run out, so
  deadlock is not checked in them; it is in `queue`, `runtime`, `liveness` and `retries`.

### Fairness

`FairSpec` (`WorkerRuntime`) asks for weak fairness of `Advance` (time passes) and of
`Work(w)` (a process that can take its next step takes it; a dead one is restarted,
which `restart: unless-stopped` in `deploy/compose.prod.yml` justifies).  No fairness
is asked for a heartbeat, an administrator or a fault: none is
needed and none is guaranteed.  `Advance` does not pass the deadline of an open
request, which is the transport's own guarantee; `EndRequest` stays enabled, so
fairness of `Work` moves on.

`FairBlueskySpec` asks for weak fairness of the claim and of the clock that makes a
checkpoint old, and strong fairness of begin, of the refused handshake and of the
recovery: an attempt may lose its lease again and again, but not for ever, since
the lease of 55 seconds covers a window of 10.  The property is checked for one
worker, which is what the deployment runs for this source; two workers that fence each
other off for ever would violate it.

### Findings

`weekly` shows that the catch-up window of 36 hours, which `scheduler.py:172`
accepts as its maximum, is one minute too long for the database: the slot that is
exactly 36 hours old is refused when it is enqueued.  The default schedule never
computes such a slot (`calendar`); an override with more than 36 hours between
slots does, and the scheduler then fails until the minute is over.

`evidence` shows that what counts may be filed under a set that nobody who counted
named.  `validation/service.py:47` copies the catalog's match of the *extraction's*
set name into the validator's answer, so the comparison at
`validation/pipeline.py:188` cannot fail; when the validator names another set and
the escalation confirms it, the facts of the two are accepted and `catalog_set_id`
is still that of the outvoted extraction.  `docs/AI_VALIDATION.md:9` says "extractor
values are never copied into validator facts".

### Observations that no run states

Queue and scheduler:

* `runtime.py:110` promises to retry a contended job "without consuming its claimed
  attempt".  When the instant `begin` computed passes before
  `pause_job_for_budget_v2` is called, that function raises, the error leaves
  `run_once`, and the process exits with lease and attempt still taken.  The job
  survives by expiry; the liveness runs include this path.
* Cron entries without catch-up, which the Mastodon entries are, are due only in a
  cycle that starts within their minute, while the loop's period is a minute *plus*
  the length of a cycle; `docs/ARCHITECTURE.md:41` says the schedulers do not depend
  "on an exact loop phase".
* The adoption of an older scheduler's job (`20260831…:1558`) still races between
  lookup and insert: the collision fails one cycle, the next one adopts.
* `cancel` of the in-memory repository takes a job from a live lease
  (`jobs/repository.py:287`), which `job.cancel` never does, and its
  `pause_for_budget` takes an instant that has passed.  `CareIsEnough` says
  that nothing else differs.
* `docs/IMPLEMENTATION_NOTES.md:185` gives the cleanup a 12-hour catch-up where
  `composition.py` has 36 hours; and while the policy of a public study is disabled,
  every cycle of the 12 hours in which its slot is caught up fails at its entry.

Feeds and pages:

* A replay that contradicts a stored Nostr event raises in the finalizer, although
  `nostr.py` says that untrusted ordering must not dead-letter the job.
* With two workers that fence each other off, a Bluesky cursor that is too old may
  stay; one worker is deployed.
* The run row of `pokesup` paces within one cycle only, and `fail_job_v2` frees its
  gate early.  A sitemap that keeps failing starves the verification of articles.
  Identities of a `pokesup` duplicate that are new are not reserved.
* The docstring of `global_volume.py` keeps a reported quantity "quantity-visible" and
  "deduplicated by report group"; a row is invisible while it is checked, and a later
  alias changes a group's representative.  A batch of eight is locked for five minutes
  while each page may take about one; a row whose third check crashes stays
  `checking`; an edited post is in conflict for good.
* Gates are per study, so studies of one domain are not paced together; a reading's
  robots request is not spaced from the page of the one before; a changed title
  blocks the re-verification for good.
* Start tags add no break to a study's text: `a<p>b</p>` reads "ab".  A content
  element that a page leaves open makes all that follows content, and an open `h1`
  makes it heading; a hidden element left open hides the rest of the page;
  a stray `</noscript>` within another hidden element shows hidden text.
* The wait of a 429 is recorded by a later call (`numbered_families.py:75`), whose comment
  says that another job "must not bypass" it; a process that dies, stalls or loses its lease
  in between loses the wait, and one that stalls between authorization and request
  may send after another worker has acquired the publisher.

Reviews, answers, operations:

* A review's clock is read before the row lock.  A retracted fact blocks a corrected
  resubmission for good.  A review that is retried after a lost reply fails as stale,
  where submission and retraction are idempotent.  An unreviewed submission never
  expires by itself.
* `BudgetGate.execute` checks without reserving (nothing uses it); the ledger is in
  memory, so a restart forgets its reservations; a job paused at validation pays for
  its extraction again.
* The sanitizer's second pass ignores quoting; a row-level-security statement on
  several lines passes the scan and fails the second pass after output was written.
  Overlapping backups may leave the marker naming a pruned file
  (`operations` has one runner).  A profile migrated before its
  predecessor's awaited row was collected makes every backup refuse.
* Without pidfds (`runtime.py:206`) a pid that changes hands between the check and
  `os.kill` is signalled all the same.  A start that fails unlocks (`manager.py:158`) though
  its child may still run, and the next start is then a second browser.
* A browser's state file that another start judged stale may be the new one by the
  time it is removed, and a supervisor that leaves does not stop its child; the
  lock, not the file, keeps browsers apart.
* An adapter whose runner was killed overlaps the next one: the lock ends with the
  runner.  `auth-state.json` is rewritten without a lock.
* The audit takes a backslash in a plain string for an escape and does not know
  dollar quotes; `ScriptInv` excuses scripts with either.
* The runner opens a dollar quote within an identifier, as in `x$a$`
  (`run_supabase_migrations.py:270` and `:336`), where PostgreSQL reads on: a `commit`
  behind it is hidden from the runner and ends the transaction for PostgreSQL.  No
  migration of the repository has one outside a comment or a body.
* The migration client gives up after 60 seconds, the statement after 180; what is
  pending is computed once.

## 4. The proofs

Every theorem holds for all values of the constants under the assumptions its
module declares.  Those that state a property of a run say in general what the run
shows on an instance; `PROJECT.json` lists them.

### Queue, runtime, scheduler and repository

`JobQueue_proofs`:

| Theorem | Statement |
|---|---|
| `RowsKeepConstraints` | `QueueSpec => []RowsAreSound` |
| `GatesKeepFollowing` | `QueueSpec => []GatesFollowLeases` |
| `ResultsOncePerJob` | `QueueSpec => []ResultsPersistedOnce` |
| `TerminalRowsStay`, `LeasesAreFresh`, `LiveLeasesRespected`, `BusyGatesRespected` | the action properties |
| `QueueImplementsLedger` | `QueueSpec => KeepsLedger` |

`TerminalStays` (a terminal row is never rewritten) is proved and no run's own:
`KeepsLedger` breaks wherever TLC can break it.

`WorkerRuntime_proofs`:

| Theorem | Statement |
|---|---|
| `RuntimeUsesQueue` | `Spec => QueueSpec`: every step of the workers is a step of the queue or none |
| `RuntimeKeepsLedger` | `Spec => KeepsLedger` |
| `LeasesAreHeldOnce` | `Spec => []RuntimeInv` |
| `RequestsNeverOverlap` | `Spec => []NoOverlap` |
| `ResultsAreNotStale` | `Spec => []OnlyKillSwitchRefuses` |

`ScheduleSlots_proofs`:

| Theorem | Statement |
|---|---|
| `CronSlotSound` | the slot computed is one the cron selects, not in the future and within the window |
| `CronSlotCatchesUp` | the latest selected minute is the slot computed, from the next check boundary to the end of the window |
| `ScheduleTypes` | `Spec => []ScheduleTypeOK` |
| `SlotsAreEnqueuedOnce` | `Spec => []OneJobPerSlot` |
| `SlotsKeepTheirJobs` | `Spec => SlotKeepsJob` |
| `FreshSlotsAreAccepted` | `SlotsStayFresh => (Spec => OnlyKillSwitchFails)` |
| `ShorterWindowsSuffice` | windows and intervals that leave a minute and a cycle below the admission imply `SlotsStayFresh` |
| `CatchUpIsEnough` | `Spec => []CatchUpServes`, under the hypotheses below |

`MemoryRepository_proofs`:

| Theorem | Statement |
|---|---|
| `RecordsKeepShape` | `MemorySpec => [](MemoryTypeOK /\ RecordsMatchStatus)` |
| `KeysStayUnique` | `MemorySpec => []ActiveKeysUnique` |
| `SlotsStay` | `MemorySpec => SlotStays` |
| `CareSuffices` | `MemorySpec => CareIsEnough` |
| `ImplementsProduction` | `CarefulSpec => ProductionEquivalent` |

**The queue.**  `QueueInv` is the conjunction of the type invariant,
`RowConstraints` and `GatesFollowLeases`, and none of the three is inductive
alone.  The types need `RowConstraints`: a failure looks up `Backoff[attempts]`,
defined from 1 to `MaxAttempts` only.  `GatesFollowLeases` needs `RowConstraints`
for a gate whose job is reclaimed: its generation is then smaller than the new
one, because generations only grow.  `ResultsPersistedOnce` is inductive on top of
`QueueInv`: only `Finalize` enters `completed`, and no action leaves it.

**The ledger.**  Initial states map to initial states; each action maps to a
ledger step or a stutter under `QueueInv`.  The interesting cases are `Tick`,
which may let several leases and gates run out at once, and `Begin`, where the
gate that is granted must be the gate of a job that is leased.

**The runtime.**  `WorkersInv` joins `QueueInv` with what ties a process to the tables.
`ProcessInv` says what a process in each phase knows of the job it claimed,
`LeaseHeldOnce` that no two processes carry one generation, `Fenced` that
a process whose generation is the row's own and still live owns the gate it was
granted and that nobody persisted a result since it began, and `Covered` that
an open request ends before the lease and the gate do.  `Covered` is where
`BudgetAssumption` comes in: `begin` leaves more lease than the transport may take,
and a heartbeat renews lease and gate together.  `NoOverlap` follows since two open
requests of one source would both own its only gate.  With `WorkersInv` each
action of the runtime is the queue action it calls, so `RuntimeUsesQueue` needs no
refinement mapping.

**The slots.**  `SlotInv` adds to the types that the clock, and with it the instant
a cycle began, is within the calendar, that a process which is enqueueing holds an
entry and one of its slots, and that only cron entries are reserved.  It is what
makes `KeyOf` a key, for which `CronSlotSound` is needed.  On top of it
`OneJobPerSlot` is inductive: a slot without a row has no scheduled job, so the one
that `Reserve` inserts is the only one.  That a scheduler only fails for a reason
outside its calendar also needs `InTime` (a cycle does not outlast `MaxCycle`), and
that an active job which blocks a reservation can only be an older scheduler's,
which is `OneJobPerSlot`.  It is conditional, and must be: `SlotsStayFresh` says that
the slots which the calendar really computes are younger than the admission.  TLC
finds it true of the instance of `calendar` and false of `weekly`, whose violation
is a finding.

**Catch-up.**  `CatchUpServes` is about every slot at once, its proof is about one slot
and one process: `Comes(p, i, m)` says that the slot `m` of the `i`-th entry is served,
or that `p` is in time to serve it.  In time is a deadline on the clock.  A process
between two cycles wakes no later than `Opens + Delay(n)`, where `n` counts the crashes
so far: the loop's sleep and the cycle before it, and for each crash a cycle cut off
and a restart.  A process in a cycle either began it before the slot's window, or
began it by that deadline, is due for the slot and has not passed entry `i`.  What crashes may
cost is then bounded by `MaxFaults`, and `WindowIsLong` turns the window's length into
a last moment at which a cycle can still begin and end.  `AllCome` is this for all
slots that can be served at all; `FirstCheckSees` and `LastCheckSees` are the
arithmetic of check boundaries, windows and successors.  With an overlapping
scheduler another process may serve the slot first, which ends the obligation.

Its hypotheses are there because the property is false without them.  *Fresh slots*
and *no kill switch*: the refusal of an entry ends the cycle before the entries
behind it, in every cycle for as long as that entry is due.  *No older scheduler*: a
job of an older release blocks the key for as long as it is active.  *Few
crashes*: the property promises a slot whose window leaves the time of one crash, so
`MaxFaults * (MaxCycle + MaxRestart) + MaxCycle <= MaxRestart + TicksPerMinute`; that
admits no crash where a cycle takes at most a restart and a minute, and one crash
where two cycles take at most a minute.  TLC finds both instances true with
slots that catch up; `calendar`, with a kill switch, an older scheduler and a
crash, satisfies the property for its own entries.

**The repository.**  `MemoryInv` is the type invariant with `RecordsMatchStatus`,
neither of which is inductive alone: a retry looks up `Backoff[attempts]`, and a
pause gives back an attempt that must have been counted.  Its first lemmas say of
each record a method writes what its fields are, so that no later step expands a
method again.  `ActiveKeysUnique` follows since every step but an enqueue is
`Quiet`: it makes no job active.  In the refinement each method is the action of
`JobQueue` of the same name; `Tick` lowers every row's ticks by one.  With
`QueueImplementsLedger` the repository of careful callers implements the ledger.

### The other modules

Each module's invariant, whose parts section 2 names, is implied by an inductive
one.  The parts that had to be added say what a process in the middle of an attempt
still knows.

| Theorem | Statement | What the inductive invariant adds |
|---|---|---|
| `CheckpointLosesNothing` (`Feeds_proofs`) | `NostrSpec => []NostrInv` | `NostrIInv`: `SlicesAreRead`, an attempt's slice holds what had arrived in it when it was read, and what it deletes |
| `DeletionsAreFinal` (`Feeds_proofs`) | `NostrSpec => DeletedStays` | the same |
| `CursorSkipsNothing` (`Feeds_proofs`) | `BlueskySpec => []BlueskyInv` | `BlueskyIInv`: `SlicesFit`, the holder's slice starts at the cursor and skips nothing behind it; `PostsAreLatest`, a candidate is its last stored frame |
| `OnlyForgottenIsRewound` (`Feeds_proofs`) | `BlueskySpec => RewindsOnlyForgotten` | the same |
| `TagsAreRead` (`Feeds_proofs`) | `MastodonSpec => []MastodonInv` | `MastodonIInv`: `ReadingsAreWhole`, the pages read so far are the tag's statuses up to where they stop |
| `CooldownIsKept` (`Feeds_proofs`) | `MastodonSpec => BackedOff` | `Cooled`, the stored cooldown is no earlier than any announced one |
| `RequestsAreContained` (`Answers_proofs`) | `YouTubeSpec => []YouTubeInv` | `YouTubeIInv`: `GrantsAreHeldOnce`; `RunsInTime`, a child that was started in time still has its grant and ends before it |
| `OpeningsCountOnce` (`Answers_proofs`) | `OpeningSpec => []OpeningInv` | `OpeningIInv`: `RowsAreSound`, `TrailsAreAttested`; `CallsAreFenced`, the trail of a row that a review read, and nobody wrote since, ends no later than that review's clock |
| `TwoAnswersCount` (`Answers_proofs`) | `EvidenceSpec => []EvidenceInv` | `EvidenceIInv`: `ChecksPassed`, what each stage behind a check may rely on |
| `PacksCountOnce` (`Answers_proofs`) | `FamilySpec => []FamilyInv` | `FamilyIInv`: `CyclesAreOwn`; `IdentitiesAreKept`, an identity stays reserved for the article admitted with it; `WaitsAreKept`, a wait that is not lost is with the process it was told to, or kept by the gate of a cycle that is over; `PaceIsKept`, authorizations are a pace apart |
| `PublisherIsPaced` (`Answers_proofs`) | `FamilySpec => PublisherPaced` | the same |
| `BudgetHolds` (`Totals_proofs`) | `BudgetSpec => []BudgetInv` | `BudgetIInv`: `BilledIsHeld`, day by day what was billed is within what is charged or still reserved |
| `CellsCountAll` (`Totals_proofs`) | `StudySpec => []StudyInv` | `StudyIInv`: `RunsAreOwn`, `LocksAreHeld`, `FencesHold`, `RecordsArePast`, `WritersTakeTurns`: see below |
| `TextIsShown` (`Totals_proofs`) | `TextSpec => []StudyTextInv` | `TextIInv`: `CountersFit`, the counters are as deep as the elements open, or deeper where one was left open; `TextsAreTold`, each text as far as its counters are right |
| `ReadsAndSharesAreBounded` (`Totals_proofs`) | `VolumeSpec => []VolumeInv` | `VolumeIInv`: `RowsOK`, `BatchesOK`; `TriesOK`, every read and every read to come is paid for by a try |
| `ConflictsAreForGood` (`Totals_proofs`) | no step of `VolumeSpec` replaces a row's facts, or takes a row out of conflict | the same |
| `OneBrowserRuns` (`Operations_proofs`) | `ProfileSpec => []ProfileInv` | `ProfileIInv`: `LockCoversBrowser`, a running browser holds the lock or is a stray; `OnePerPid`; `Fits`, what each command knows of the lock, its child and the process it is about to signal |
| `AdaptersTakeTurns` (`Operations_proofs`) | `SlotSpec => []SlotInv` | `SlotIInv`: `RunsUnderLock`, `EndsAreScheduled` |
| `MigrationsApplyOnce` (`Operations_proofs`) | `MigrationSpec => []MigrationInv` | `MigrationIInv`: `Cleared`, what a run has left to apply passed the audit against all of its checkout |
| `FilesAreReadAlike` (`Operations_proofs`) | `ScriptSpec => []ScriptInv` | `ScriptIInv`: `ReadAlike`, runner and PostgreSQL are in one mode of one statement unless `misread`; `Follows`, so is the audit, unless excused |
| `BackupTypes` (`Operations_proofs`) | `BackupSpec => []BackupTypeOK` | `BackupShape`: what a run in each phase carries |
| `MarkerNamesAFile` (`Operations_proofs`) | for one runner, `BackupSpec => []MarkerNamesBackup` | `MarkerIInv`: `MarkedIsProtected`, the file of a run behind its promotion is there, and the marker is its own |

**The argument that most of them share.**  A worker acts on what it read some steps
ago.  The invariant records what is still true of that while the worker's
generation is current, and says nothing of a worker that has been fenced off; the
step that writes checks the generation, so only the first case matters.  What
time may do to it is bounded by the deadlines: a reader of a study that was not
delayed keeps lease and gate because the request times out within the margin
(`FencesHold`), and a curl is over before its grant unless the worker slept.

**Counting.**  Totals over unbounded sets are sums of a function over a set
(`SumFunctionOnSet`) or of the community folds; what they do when one summand
changes is stated once, as lemmas, and proved by the smallest counterexample, a set
of least size for which the fact fails, since induction theorems are out of reach.
`BudgetHolds` needs them for days and months, `CellsCountAll` for a country's cohort
(two finalizers take turns under the country's lock, so the second one counts what
the first one wrote), and `PacksCountOnce` for the packs of an article.

**The text of a study.**  The parser keeps four counters and no stack.  The elements that
should count are those a reader would count (`Noted`), and the invariant compares
each counter with their number (`Depth`): equal while the page has made no mistake,
at least as large while only elements of other kinds were left open.  Since an
unclosed element is counted for too long and never for too short, nothing visible is
missed, and since a hidden depth of zero means that nothing hidden is open,
nothing hidden is shown; an end tag ends the innermost element of its name and
so lowers the depth by what the parser lowers its counter.  `Told` says of each text
what its counters allow, and `Sealed` that its last piece comes after every
end tag, or white space does, which keeps the words apart.

**The tries of a report.**  `ReadsAreBounded` compares a history with a constant; the
invariant compares it with the row.  A claim counts a try for each row it takes, and
a batch may be claimed again while an older one that held the same row is still
reading, so the reads to come are counted per process: the reads so far
and the processes whose batch still awaits the row are together at most its tries.
The share of a feed is a count as well: the first half of the turns of a feed
has fewer than `ManifestLimit` posts ahead of it.

**The marker.**  Retention removes whatever is neither the newest of a kept day or
week nor protected, and the protected file is the one of the run that prunes.  With
one runner that is the one the marker names; a run that dies between promoting
and marking leaves an older name and, since only a marked run prunes, the older file.
With two runners `MarkerNamesBackup` fails: the theorem has the hypothesis that any two
runners are one, which `backup.sh` takes no lock to ensure and leaves to its caller.

All inductive invariants were checked by TLC on the instances of section 3 before
they were proved.  `CatchUpInv` was checked with constants that satisfy its theorem's hypotheses.

### Assumptions

* `ConstantsAssumption` (`JobQueue`) holds types and positivity: `max_attempts`, lease
  durations and delays are positive by CHECK constraints and argument validation.
  `MemoryAssumption` is the same without sources, and that a slot is named by a
  dedupe key.
* `BudgetAssumption` (`WorkerRuntime`): the transports have an absolute deadline of
  30 seconds, `begin` guarantees 45 (TCGdex) or 75 (YouTube) seconds of lease, and
  `worker_lease_seconds` is at least 60 (`settings.py`).  `NoOverlap` and
  `OnlyKillSwitchRefuses` rest on it.
* `ScheduleAssumption` is what `ScheduleEntry.__post_init__` checks, and that an older
  scheduler enqueues cron entries only.
* `NostrAssumption`, `BlueskyAssumption`, `MastodonAssumption`: the
  types of what the source delivers, and limits that are positive where the code's are.
* `StudyAssumption`: a gate outlasts two fetches and the pause between them, as the settings
  and the SQL function fix it.  `YouTubeAssumption`: a grant outlasts one transfer and its
  reaping.
* `FamilyAssumption`: a finite set of articles, and the rows a publisher starts with are rows
  that an earlier cycle could have left.
* `LimitsAssumption` (`AIBudget`): finitely many callers, limits and estimates that are
  not negative.  `OpeningAssumption`: an envelope's key is a key.
* `VolumeAssumption`: each feed lists a post once, posts and the ledger's addresses are
  different pages, finitely many of both, and limits that are positive.
  `StudyTextAssumption`: the tags that the parser knows by name, `script`, `noscript`, `title`,
  `h1` and `br`, are neither content tags nor other ones.
* `BackupAssumption`: the migration history has a schema, and each is one of the reviewed
  shapes.  `MarkerNamesAFile` assumes one runner, `CatchUpIsEnough` what is said above.
* `ProfileAssumption`, `SlotAssumption`, `MigrationAssumption`: names of different things
  differ.  `ScriptAssumption`: a dollar tag is no other token.

### Only model-checked

* All liveness (`EventuallyTerminal`, `GateEventuallyFree`, `TooOldIsDropped`): fairness and
  ENABLED are out of the prover's reach.
* `CatchUpServes` beyond the hypotheses of `CatchUpIsEnough`: with kill switches, an older
  scheduler or more crashes it depends on the order and the windows of the entries, and
  `calendar` checks it for those of the default configuration.
* `OnlyReviewedPromoted`, `LosesNothing` and `RestoresIdle` of `BackupInv`: the sanitizer is
  two folds over a dump, and what they keep of every dump is induction over data.
  `BackupTypeOK` and `MarkerNamesBackup`, its other parts, are proved.
* The two violations, which are findings.


## 5. What the models leave out

* In `JobQueue`: dedupe keys, priorities, the claim order among available rows and the bulk
  size of a claim (workers run with `worker_max_concurrency = 1`): the choice of
  row is open in `Claim`.
* The payload validation of the catalogue's and the studies' finalizers beyond what
  section 2 names; a payload that fails it raises and changes nothing, like the
  refusals that are modelled.
* A policy is enabled again only by a migration; there is no such action.
* `job.retry` requires status `failed`, which no function sets: unreachable.
* The AI budget pause and `handler_unavailable` of the runtime: no registered live
  handler takes these branches.
* A request that outlives its transport's deadline, and a worker clock that runs
  slower than the database's by more than the margin of 15 seconds.
* The parsing of cron text: an entry's fields are sets.  Seconds: a cycle reads a
  tick and its minute.  A scheduler that dies in the middle of an enqueue leaves a
  transaction that commits or not; the process that is stopped forever in the
  middle of a cycle stands for it.
* In the feeds: signatures, hashes, the cleanup of expired rows, and the database
  roles that keep the generic queue functions from typed jobs.
* In the families and studies: the HTML and caption grammars, reduced to what they
  accept, and each study's sentences.  `LockStudy` has the code's refusal of a live
  lease whose gate was lost; no behaviour of `publications` reaches it.
* In the review: the attestation of the connection is one condition, and the bridge
  into the aggregate cohort is left out.
* In `MigrationText`: quoted names, `U&` strings, literals continued on a later line, and
  dollar quotes whose names go beyond ASCII.
* In `StudyText`: pieces of text that are blank, ends that HTML implies (a `p` or an `h1` that a
  start tag ends), `template` as a scope of its own, and several content tags at once,
  which no study configures.
* In `BrowserProfile`: a dead child stays a zombie, and keeps its pid, while its manager
  lives; the model gives the pid away at once, which only adds behaviours.
* In `ReportedVolume`: the feeds are what the queries return, which read the newest 1000 rows
  (`social_volume.py:30`).
* Restore, deployment scripts, the browser's HTTP facade, the country research intake,
  admin sessions and audit log.
* **Not modelled**: deduplication, statistics and aggregation compute over floats and
  strings without state of their own; release evidence, the public schema and the
  web application only read.

## 6. Plan

What is left, by importance:

1. An abstract specification of a fenced attempt (begin under a generation, act,
   finalize or be refused) that the three feeds and the studies refine, so that their
   common argument is proved once.
2. `CatchUpIsEnough` with kill switches, for entries that are taken before every entry
   that may be disabled.
3. Models of the country research intake and of the cohort bridge.
