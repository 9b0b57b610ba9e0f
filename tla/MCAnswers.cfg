SPECIFICATION AnswerSpec
CONSTANTS
    catalog = catalog
    numbered = numbered
    w1 = w1
    w2 = w2
    k1 = k1
    k2 = k2
    submits = submits
    reviews = reviews
    reviews_too = reviews_too
    does_both = does_both
    Schedulers = {w1, w2}
    EntryOrder <- MCOrder
    cron <- MCCron
    civil <- MCCivil
    interval <- MCInterval
    window <- MCWindow
    check <- MCCheck
    Gated = {numbered}
    max_age <- MCMaxAge
    TicksPerMinute = 1
    LoopSleep = 1
    MaxCycle = 3
    MaxRestart = 1
    LastMinute = 4
    LegacyKeys <- MCLegacyKeys
    MaxLegacy = 2
    MaxFaults = 1
    YouTubeWorkers = {w1, w2}
    Items <- MCItems
    MaxItems = 2
    GrantFor = 3
    Transfer = 1
    Reap = 1
    ReapAttempts = 2
    MaxGrants = 3
    YouTubeEnd = 5
    OpeningKeys = {k1, k2}
    Logins = {submits, reviews, reviews_too, does_both}
    HeldBy <- MCHeldBy
    Envelopes <- MCEnvelopes
    Reasons = {"revoked"}
    Asked = {"in_review", "accepted_statistics"}
    ExpireAfter = 2
    OpeningEnd = 2
    SetNames = {"jungle", "fossil"}
    Catalogued = {"jungle"}
    NoSet = "unnamed"
    Products = {"box", "other"}
    Callers = {w1, w2}
    Estimates = {1, 2}
    DailyLimit = 3
    MonthlyLimit = 5
    MonthLength = 2
    LastDay = 3
SYMMETRY AnswerSymmetry
CHECK_DEADLOCK FALSE
INVARIANTS
    OneJobPerSlot
    YouTubeInv
    OpeningInv
    EvidenceInv
    BudgetInv
PROPERTIES
    SlotKeepsJob
