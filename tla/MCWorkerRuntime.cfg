SPECIFICATION Spec
CONSTANTS
    j1 = j1
    j2 = j2
    src = src
    w1 = w1
    w2 = w2
    Jobs = {j1, j2}
    Workers = {w1, w2}
    Sources = {src}
    Catalog = {src}
    NoJob = NoJob
    NoWorker = NoWorker
    NoSource = NoSource
    source_of <- MCSourceOf
    MaxAttempts = 2
    LeaseFor = 2
    BeginLease = 3
    MinDelay = 1
    Backoff <- MCBackoff
    MaxDelay = 1
    MaxGeneration = 3
    RequestBudget = 1
    MaxFaults = 2
SYMMETRY MCSymmetry
INVARIANTS
    NoOverlap
    OnlyKillSwitchRefuses
    RuntimeInv
PROPERTIES
    QueueSpec
