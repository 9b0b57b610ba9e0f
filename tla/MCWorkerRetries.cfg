SPECIFICATION FairSpec
CONSTANTS
    j1 = j1
    j2 = j2
    src = src
    w1 = w1
    w2 = w2
    Jobs = {j1, j2}
    Workers = {w1, w2}
    Sources = {src}
    Catalog = {}
    NoJob = NoJob
    NoWorker = NoWorker
    NoSource = NoSource
    source_of <- MCMixedSourceOf
    MaxAttempts = 2
    LeaseFor = 2
    BeginLease = 3
    MinDelay = 2
    Backoff <- MCBackoff
    MaxDelay = 2
    MaxGeneration = 5
    RequestBudget = 1
    MaxFaults = 1
PROPERTIES
    EventuallyTerminal
