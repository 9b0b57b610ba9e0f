SPECIFICATION FairSpec
CONSTANTS
    j1 = j1
    j2 = j2
    src = src
    w1 = w1
    w2 = w2
    Jobs = {j1, j2}
    Workers = {w1, w2}
    Sources = {src}
    Catalog = {src}
    NoJob = NoJob
    NoWorker = NoWorker
    NoSource = NoSource
    source_of <- MCSourceOf
    MaxAttempts = 1
    LeaseFor = 2
    BeginLease = 2
    MinDelay = 1
    Backoff <- MCBackoff
    MaxDelay = 1
    MaxGeneration = 5
    RequestBudget = 1
    MaxFaults = 2
PROPERTIES
    EventuallyTerminal
    GateEventuallyFree
