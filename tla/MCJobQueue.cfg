SPECIFICATION QueueSpec
CONSTANTS
    j1 = j1
    j2 = j2
    src = src
    w1 = w1
    w2 = w2
    Jobs = {j1, j2}
    Workers = {w1, w2}
    Sources = {src}
    Catalog = {src}
    NoJob = NoJob
    NoWorker = NoWorker
    NoSource = NoSource
    source_of <- MCSourceOf
    MaxAttempts = 2
    LeaseFor = 2
    BeginLease = 3
    MinDelay = 2
    Backoff <- MCBackoff
    MaxDelay = 2
    MaxGeneration = 4
SYMMETRY MCSymmetry
INVARIANTS
    RowsAreSound
    GatesFollowLeases
    ResultsPersistedOnce
PROPERTIES
    NewLeaseNewGeneration
    LiveLeaseNotStolen
    BusyGateNotStolen
    KeepsLedger
