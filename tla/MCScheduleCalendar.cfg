SPECIFICATION Spec
CONSTANTS
    catalog_sync = catalog_sync
    public_study = public_study
    cleanup = cleanup
    source_family = source_family
    scheduler = scheduler
    Schedulers = {scheduler}
    EntryOrder <- MCOrder
    cron <- MCCron
    civil <- MCCivil
    interval <- MCInterval
    window <- MCWindow
    check <- MCCheck
    Gated = {public_study}
    max_age <- MCMaxAge
    TicksPerMinute = 1
    LoopSleep = 1
    MaxCycle = 1
    MaxRestart = 1
    LastMinute = 160
    LegacyKeys <- MCLegacyKeys
    MaxLegacy = 1
    MaxFaults = 1
INVARIANTS
    CatchUpServes
PROPERTIES
    OnlyKillSwitchFails
CHECK_DEADLOCK FALSE
