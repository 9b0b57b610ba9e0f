SPECIFICATION OperationSpec
CONSTANTS
    Relays = {"r1", "r2"}
    TagKeys = {"t1", "t2"}
    CoverageSources = {"c1", "c2", "c3"}
    Profiles <- MCProfiles
    Awaited <- MCAwaited
    StudyShape <- MCStudyShape
    CoverageShape <- MCCoverageShape
    SeedSources = {"k1"}
    Runners = {"a"}
    Schemas <- MCSchemas
    Deviates = 1
    LastBackup = 4
    PerDay = 2
    PerWeek = 3
    Daily = 1
    Weekly = 1
    p1 = p1
    p2 = p2
    pid1 = pid1
    pid2 = pid2
    Managers = {p1, p2}
    ProfileNames = {"western"}
    Pids = {pid1, pid2}
    MaxProcs = 3
    MaxDeaths = 1
    SlotRunners = {p1, p2}
    Adapters = {"western", "fixture"}
    Browserless = {"fixture"}
    SlotInterval = 2
    SlotTimeout = 2
    SlotEnd = 8
    MaxKills = 1
    Tags = {"$$", "$a$"}
    Glued <- MCGlued
    MaxDepth = 2
    Releases = {p1, p2}
    Checkouts <- MCCheckouts
    Deletes <- MCDeletes
    ReviewedDeletes <- MCReviewed
    Preapplied = {1, 2}
    Forbidden = {}
    MaxRequests = 4
    j1 = j1
    j2 = j2
    slot = slot
    Jobs = {j1, j2}
    Kinds = {"aggregate", "cleanup"}
    Keys = {slot}
    Slots = {slot}
    Workers = {p1, p2}
    NoJob = NoJob
    NoKey = NoKey
    NoWorker = NoWorker
    NoSource = NoSource
    kind_of <- MCKindOf
    key_of <- MCKeyOf
    priority_of <- MCPriorityOf
    MaxAttempts = 2
    LeaseFor = 2
    Backoff <- MCBackoff
    MaxDelay = 1
    MaxGeneration = 2
    MaxTime = 6
SYMMETRY OperationSymmetry
CHECK_DEADLOCK FALSE
INVARIANTS
    BackupInv
    ProfileInv
    SlotInv
    ScriptInv
    MigrationInv
PROPERTIES
    CareIsEnough
