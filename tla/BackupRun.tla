----------------------------- MODULE BackupRun -----------------------------
(***************************************************************************)
(* One managed backup after another (deploy/scripts/backup.sh, started by  *)
(* deploy/lib/run_backup_from_env.py): look at the live database, dump it, *)
(* sanitize the dump, promote the file, move the success marker, prune old *)
(* files.  The database is migrated meanwhile, a dump may deviate from the *)
(* reviewed shape, and a run may die between any two steps.                *)
(***************************************************************************)
EXTENDS BackupSanitizer

CONSTANTS Runners,      \* the backup processes
          Schemas,      \* the migration history: what the database can hold
          Deviates,     \* the first Deviates backups may see a deviating dump
          LastBackup,   \* bound: how many backups are started
          PerDay, PerWeek,  \* backups started in one day, in one week
          Daily, Weekly     \* retention: newest days and newest weeks kept

ASSUME BackupAssumption ==
    /\ Schemas # <<>>
    /\ \A n \in DOMAIN Schemas :
          Schemas[n].groups \subseteq Groups /\ Schemas[n].profile \in DOMAIN Profiles
    /\ LastBackup \in Nat

VARIABLES db,        \* the live database: its schema, and whether controls run
          runs,      \* each runner's process
          lastStart, \* timestamp of the newest backup started
          files,     \* timestamps of the managed backups on disk
          marker     \* timestamp in the success marker, 0 when there is none

backupVars == <<db, runs, lastStart, files, marker>>

(***************************************************************************)
(* What pg_dump writes (external): definitions, then one block per table,  *)
(* then keys and indexes, then row security.                               *)
(***************************************************************************)
Row(t, key, owner, ref, also, on) ==
    [k |-> "row", of |-> t, key |-> key, owner |-> owner, ref |-> ref,
     also |-> also, on |-> on, fit |-> TRUE]
Keyed(t, key, owner) == Row(t, key, owner, Nothing, {}, FALSE)

Header(t) == [k |-> "copy", of |-> t, fit |-> TRUE, qualified |-> TRUE]
End == [k |-> "end"]
Stmt(verb, t, shape, whole) ==
    [k |-> "stmt", verb |-> verb, of |-> t, shape |-> shape, whole |-> whole,
     fit |-> TRUE]
Whole(verb, t, shape) == <<Stmt(verb, t, shape, TRUE)>>
Long(verb, t, shape) == <<Stmt(verb, t, shape, FALSE), [k |-> "close"]>>
Quoted(l) == <<[k |-> "quote"], l, [k |-> "quote"]>>

Rows(S, Make(_)) == LET q == Listed(S) IN [i \in 1..Len(q) |-> Make(q[i])]
Lines(S, Make(_)) == FlattenSeq(Rows(S, Make))
When(present, lines) == IF present THEN lines ELSE <<>>
Block(t, rows) == <<Header(t)>> \o rows \o <<End>>

PolicyKeys(d) ==
    {"tcgdex", "reddit"} \cup PreflightSources(d.groups)
        \cup (IF "studies" \in d.groups THEN Profiles[d.profile] ELSE {})

Definitions(d) ==
    LET bridge(t) == Long("create", t, Nothing)
        ddl(b) == Lines(IF b = "family" THEN {"tables", d.ledgers} ELSE {"tables"},
                        LAMBDA part : Whole("ddl", b, part))
    IN  When("youtube" \in d.groups, Whole("create", "youtube_discoveries", Nothing))
        \o Long("create", "source_request_gates",
                IF {"youtube", "mastodon"} \cap d.groups # {} THEN "broad" ELSE "narrow")
        \o When("studies" \in d.groups,
                Long("create", "study_observations", StudyShape[d.profile])
                \o Long("create", "study_coverage", CoverageShape[d.profile]))
        \o When("bridge" \in d.groups, Lines(BridgeTables, bridge))
        \o When(d.ledgers # Nothing, Lines(Bundles, ddl))
        \o Quoted(Stmt("insert", "source_policies", Nothing, TRUE))
        \o Whole("force", "source_request_gates", Nothing)

Blocks(d) ==
    LET policy(key)  == Keyed("source_policies", key, key)
        control(t)   == Block(t, <<Row(t, "control", Nothing, Nothing, {}, d.on)>>)
        study(src)   == Keyed("study_observations", src, src)
        covered(src) == Keyed("study_coverage", src, src)
        relay(r)     == Keyed("nostr_checkpoints", r, r)
        tag(k)       == Keyed("mastodon_checkpoints", k, "mastodon")
        source(k)    == Row("independent_sources", k, Nothing, Nothing, {k}, FALSE)
    IN  Block("source_policies", Rows(PolicyKeys(d), policy))
        \o Block("source_items", <<Keyed("source_items", "i", "reddit")>>)
        \o When("youtube" \in d.groups,
                Block("youtube_discoveries", <<Keyed("youtube_discoveries", "v", "youtube")>>))
        \o When("studies" \in d.groups,
                Block("study_observations", Rows(Profiles[d.profile] \ CoverageSources, study))
                \o Block("study_coverage", Rows(d.covered, covered)))
        \o When("bluesky" \in d.groups,
                Block("bluesky_checkpoints", <<Keyed("bluesky_checkpoints", "c", "bluesky")>>))
        \o When("nostr" \in d.groups, Block("nostr_checkpoints", Rows(Relays, relay)))
        \o When("mastodon" \in d.groups,
                Block("mastodon_checkpoints", Rows(TagKeys, tag))
                \o Block("mastodon_cooldowns", <<Keyed("mastodon_cooldowns", "c", "mastodon")>>))
        \o When("bridge" \in d.groups,
                Block("independent_sources", Rows(SeedSources, source))
                \o Block("authorized_source_bindings",
                         Rows(SeedSources, LAMBDA k : Row("authorized_source_bindings", k,
                                                          Nothing, k, {k}, FALSE)))
                \o Block("input_admissions",
                         <<Row("input_admissions", "a", Nothing, "study", {"a"}, FALSE)>>
                         \o Rows(SeedSources, LAMBDA k : Row("input_admissions", k, Nothing,
                                                             k, {k}, FALSE))))
        \o When(d.ledgers # Nothing,
                Lines(Controls \cup {"source_family_clock"}, control)
                \o Block("source_family_admissions",
                         <<Row("source_family_admissions", "f", Nothing, d.ledgers, {}, FALSE)>>)
                \o Block("numbered_family_admissions",
                         <<Keyed("numbered_family_admissions", "n", Nothing)>>)
                \o Block("research_references", <<Keyed("research_references", "u", Nothing)>>))

Security(d) ==
    LET bridge(t) ==
            Lines(BridgeKeys[t], LAMBDA name : Long("key", t, name))
            \o Lines(BridgeIndexes[t], LAMBDA name : Whole("index", t, name))
            \o Whole("force", t, Nothing) \o Whole("enable", t, Nothing)
    IN  Long("key", "source_request_gates", "primary")
        \o When("bridge" \in d.groups, Lines(BridgeTables, bridge))
        \o Whole("enable", "source_request_gates", Nothing)

PgDump(d) == Definitions(d) \o Blocks(d) \o Security(d)

(***************************************************************************)
(* One deviation of a dump: the kinds the repository's own tests try.      *)
(***************************************************************************)
Strays == {Stmt("insert", "youtube_discoveries", Nothing, TRUE),
           Stmt("do", Nothing, Nothing, TRUE),
           Stmt("policy", "source_request_gates", Nothing, TRUE),
           Stmt("policy", "independent_sources", Nothing, TRUE),
           Stmt("index", "input_admissions", "extra", TRUE),
           Header("source_request_gates"), Header("source_family_runs"),
           Header("nostr_candidates"), Header("source_policies"),
           [Header("study_coverage") EXCEPT !.qualified = FALSE]}

Unedited == [what |-> "none", at |-> 0]

\* Strays are set where a statement may start.
Boundary(dump, i) ==
    \/ i = 0
    \/ dump[i].k = "end"
    \/ dump[i].k = "stmt" /\ dump[i].whole /\ dump[i].verb # "insert"

\* Rows that refer to another row: the id of a policy, or a key of the bridge.
Refers(l) == l.k = "row" /\ (l.owner # Nothing \/ l.ref \in SeedSources)

Edits(dump) ==
    LET N == Len(dump)
        has(i, f) == f \in DOMAIN dump[i]
    IN  {Unedited}
        \cup [what : {"drop", "twice", "cut"}, at : 1..N]
        \cup {[what |-> "misfit", at |-> i] : i \in {j \in 1..N : has(j, "fit")}}
        \cup {[what |-> "stranger", at |-> i] : i \in {j \in 1..N : Refers(dump[j])}}
        \cup {[what |-> "stray", at |-> i, line |-> l] :
                  i \in {j \in 0..N : Boundary(dump, j)}, l \in Strays}

Edited(dump, e) ==
    CASE e.what = "none"     -> dump
      [] e.what = "drop"     -> RemoveAt(dump, e.at)
      [] e.what = "twice"    -> InsertAt(dump, e.at, dump[e.at])
      [] e.what = "cut"      -> SubSeq(dump, 1, e.at - 1)
      [] e.what = "misfit"   -> [dump EXCEPT ![e.at].fit = FALSE]
      [] e.what = "stranger" ->
             IF dump[e.at].owner # Nothing THEN [dump EXCEPT ![e.at].owner = "stranger"]
                                           ELSE [dump EXCEPT ![e.at].ref = "stranger"]
      [] e.what = "stray"    -> InsertAt(dump, e.at + 1, e.line)

(***************************************************************************)
(* The run.                                                                *)
(***************************************************************************)
Idle == [phase |-> "idle"]

BackupInit ==
    /\ db = [schema |-> 1, on |-> FALSE, covered |-> {}]
    /\ runs = [r \in Runners |-> Idle]
    /\ lastStart = 0
    /\ files = {}
    /\ marker = 0

\* The database as pg_dump sees it.
Content(d) == [groups |-> Schemas[d.schema].groups, ledgers |-> Schemas[d.schema].ledgers,
               profile |-> Schemas[d.schema].profile, on |-> d.on,
               covered |-> d.covered]

Ids(present) == [s \in PreflightSources(present) |-> s]

\* The first look: which optional tables the live database has.
LookAtTables(r) ==
    /\ runs[r] = Idle
    /\ lastStart < LastBackup
    /\ runs' = [runs EXCEPT ![r] = [phase |-> "tables", present |-> Schemas[db.schema].groups]]
    /\ UNCHANGED <<db, lastStart, files, marker>>

\* The second look, in sessions of their own: the policies.  A policy that
\* does not match the tables ends the run.
LookAtPolicies(r) ==
    /\ runs[r].phase = "tables"
    /\ lastStart < LastBackup
    /\ runs' = [runs EXCEPT ![r] =
           IF PreflightSources(Schemas[db.schema].groups) = PreflightSources(@.present)
           THEN [phase |-> "ready", ts |-> lastStart + 1,
                 pf |-> [present |-> @.present, id |-> Ids(@.present)]]
           ELSE Idle]
    /\ lastStart' = IF runs'[r] = Idle THEN lastStart ELSE lastStart + 1
    /\ UNCHANGED <<db, files, marker>>

\* pg_dump, the sanitizer and gzip in one pipeline: either the temporary file
\* is complete, or it is removed and the run ends.
DumpAndSanitize(r) ==
    /\ runs[r].phase = "ready"
    /\ LET dump == PgDump(Content(db))
           moved == runs[r].pf.present # Schemas[db.schema].groups
       IN  \E e \in IF runs[r].ts <= Deviates /\ ~moved THEN Edits(dump) ELSE {Unedited} :
               LET clean == Sanitized(runs[r].pf, Edited(dump, e))
               IN  runs' = [runs EXCEPT ![r] =
                       IF clean.ok /\ @.ts \notin files
                       THEN [phase |-> "temporary", ts |-> @.ts, pf |-> @.pf,
                             content |-> Content(db), edit |-> e, out |-> clean.out]
                       ELSE Idle]
    /\ UNCHANGED <<db, lastStart, files, marker>>

Promote(r) ==
    /\ runs[r].phase = "temporary"
    /\ files' = files \cup {runs[r].ts}
    /\ runs' = [runs EXCEPT ![r] = [phase |-> "promoted", ts |-> @.ts]]
    /\ UNCHANGED <<db, lastStart, marker>>

MoveMarker(r) ==
    /\ runs[r].phase = "promoted"
    /\ marker' = runs[r].ts
    /\ runs' = [runs EXCEPT ![r].phase = "marked"]
    /\ UNCHANGED <<db, lastStart, files>>

\* Retention: the newest backup of each of the newest days and weeks, and the
\* one this run has just made.
NewestOf(S, Period(_), n) ==
    LET periods == {Period(t) : t \in S}
    IN  {t \in S : /\ \A u \in S : Period(u) = Period(t) => u <= t
                   /\ Cardinality({p \in periods : p > Period(t)}) < n}

SelectBackupsToDelete(S, protected) ==
    S \ ({protected} \cup NewestOf(S, LAMBDA t : t \div PerDay, Daily)
                     \cup NewestOf(S, LAMBDA t : t \div PerWeek, Weekly))

\* One file after another, the newest of the selection first.
Prune(r) ==
    /\ runs[r].phase = "marked"
    /\ LET doomed == SelectBackupsToDelete(files, runs[r].ts)
       IN  /\ doomed # {}
           /\ files' = files \ {CHOOSE t \in doomed : \A u \in doomed : u <= t}
    /\ UNCHANGED <<db, runs, lastStart, marker>>

\* The caller reads the marker back and opens the file it names.
Finish(r) ==
    /\ runs[r].phase = "marked"
    /\ SelectBackupsToDelete(files, runs[r].ts) = {}
    /\ runs' = [runs EXCEPT ![r] = Idle]
    /\ UNCHANGED <<db, lastStart, files, marker>>

\* The process dies; its temporary file is nobody's backup.
Die(r) ==
    /\ runs[r] # Idle
    /\ runs' = [runs EXCEPT ![r] = Idle]
    /\ UNCHANGED <<db, lastStart, files, marker>>

\* A migration may add a study profile; of its coverage rows all but the
\* awaited ones are seeded.
Seeded(n) ==
    IF "studies" \in Schemas[n].groups
    THEN (Profiles[Schemas[n].profile] \cap CoverageSources)
             \ UNION {Awaited[p] : p \in 1..Len(Profiles)}
    ELSE {}

Migrate ==
    /\ db.schema < Len(Schemas)
    /\ db' = [db EXCEPT !.schema = @ + 1, !.covered = @ \cup Seeded(db.schema + 1)]
    /\ UNCHANGED <<runs, lastStart, files, marker>>

SwitchControls ==
    /\ Schemas[db.schema].ledgers # Nothing /\ ~db.on
    /\ db' = [db EXCEPT !.on = TRUE]
    /\ UNCHANGED <<runs, lastStart, files, marker>>

CollectAwaited ==
    /\ "studies" \in Schemas[db.schema].groups
    /\ \E src \in (Profiles[Schemas[db.schema].profile] \cap CoverageSources) \ db.covered :
           db' = [db EXCEPT !.covered = @ \cup {src}]
    /\ UNCHANGED <<runs, lastStart, files, marker>>

BackupNext ==
    \/ \E r \in Runners : \/ LookAtTables(r) \/ LookAtPolicies(r) \/ DumpAndSanitize(r)
                          \/ Promote(r) \/ MoveMarker(r) \/ Prune(r) \/ Finish(r) \/ Die(r)
    \/ Migrate \/ SwitchControls \/ CollectAwaited

BackupSpec == BackupInit /\ [][BackupNext]_backupVars

-----------------------------------------------------------------------------
\* Every value is of its kind; a temporary file is that of a started backup.
BackupTypeOK ==
    /\ db \in [schema : 1..Len(Schemas), on : BOOLEAN, covered : SUBSET CoverageSources]
    /\ \A r \in Runners :
           runs[r].phase \in {"idle", "tables", "ready", "temporary", "promoted", "marked"}
    /\ \A r \in Runners :
           runs[r].phase \in {"ready", "temporary", "promoted", "marked"} =>
               runs[r].ts \in 1..lastStart
    /\ lastStart \in 0..LastBackup
    /\ files \subseteq 1..lastStart
    /\ marker \in 0..lastStart

\* What one reviewed database may hold and another may not: the bodies of
\* functions, unreviewed tables, the id of a policy nothing refers to, and rows
\* of the ledgers that grow.  A doubled terminator is left to the restore.
MayVary(d, l, what) ==
    \/ l.k = "stmt" /\ l.verb = "insert"
    \/ l.k \in {"end", "close"} /\ what = "twice"
    \/ l.k \in {"row", "copy"} /\ l.of = "source_items"
    \/ l.k = "row" /\ l.of = "source_policies" /\ l.key = "reddit"
    \/ /\ l.k = "row" /\ l.of = "source_policies" /\ what = "stranger"
       /\ l.key \in {"tcgdex"} \cup (CoverageSources \ d.covered)
    \/ /\ l.k = "row"
       /\ what \in {"drop", "twice"}
       /\ l.of \in {"youtube_discoveries", "source_family_admissions",
                    "numbered_family_admissions"}
    \/ /\ l.k = "row"
       /\ what = "drop"
       /\ \/ l.of \in {"study_observations", "input_admissions", "research_references"}
          \/ l.of = "study_coverage" /\ l.key \in Awaited[d.profile]

\* A dump is promoted only when its tables are those of the preflight and it
\* deviates from the reviewed shape in nothing but what may vary: no missing,
\* doubled, foreign or hidden structure gets through the scan.
OnlyReviewedPromoted ==
    \A r \in Runners : runs[r].phase = "temporary" =>
        LET d == runs[r].content
            e == runs[r].edit
        IN  /\ runs[r].pf.present = d.groups
            /\ \/ e = Unedited
               \/ e.what \in {"drop", "twice", "misfit", "stranger"}
                      /\ MayVary(d, PgDump(d)[e.at], e.what)

\* What a promoted file restores is idle: its gates are exactly those of the
\* source policies it restores, each once and unowned, its controls are off,
\* and no disposable row comes back.
RestoresIdle ==
    \A r \in Runners : runs[r].phase = "temporary" =>
        LET out == runs[r].out
            gates == SelectSeq(out, LAMBDA l : l.k = "gate")
            rows == {l \in ToSet(out) : l.k = "row"}
        IN  /\ {g.key : g \in ToSet(gates)} =
                   {l.key : l \in {q \in rows : q.of = "source_policies"}} \ {"reddit"}
            /\ Len(gates) = Cardinality(ToSet(gates))
            /\ \A l \in rows : ~l.on \/ l.of = "source_family_clock"
            /\ \A l \in rows : l.of # "youtube_discoveries"

\* Apart from the seeded gates, the disposable rows and the switched-off
\* controls, a promoted file is the dump, line by line.
LosesNothing ==
    \A r \in Runners : runs[r].phase = "temporary" =>
        LET dump == Edited(PgDump(runs[r].content), runs[r].edit)
            kept == SelectSeq(dump, LAMBDA l : ~(l.k = "row" /\ l.of = "youtube_discoveries"))
            off(l) == IF l.k = "row" /\ l.of \in BundleTables.family \cup BundleTables.numbered
                                                   \cup BundleTables.intake
                         /\ l.of # "source_family_clock"
                      THEN [l EXCEPT !.on = FALSE] ELSE l
        IN  SelectSeq(runs[r].out, LAMBDA l : l.k # "gate") = [i \in DOMAIN kept |-> off(kept[i])]

\* The success marker names a backup that is on disk, whatever step a run
\* dies at and whatever retention removes.
MarkerNamesBackup == marker # 0 => marker \in files

\* A backup is of the reviewed shape, complete, idle when it is restored,
\* and there when its marker names it.
BackupInv ==
    /\ BackupTypeOK /\ OnlyReviewedPromoted /\ LosesNothing /\ RestoresIdle
    /\ MarkerNamesBackup
=============================================================================
