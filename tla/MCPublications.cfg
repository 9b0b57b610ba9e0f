SPECIFICATION PublicationSpec
CONSTANTS
    r1 = r1
    w1 = w1
    w2 = w2
    study1 = study1
    study2 = study2
    video = video
    us = us
    gb = gb
    site1 = site1
    site2 = site2
    Families = {"kozaru", "pokesup"}
    URLs = {1, 2, 3}
    Fixed = {3}
    Pages <- MCPages
    Earlier <- MCEarlier
    Contents <- MCContents
    Retractable = {1}
    PackCount = 2
    Collectors = {w1, w2}
    Pace = 1
    AcquireFor = 2
    CycleLease = 2
    ServerPause = 3
    Daily = 4
    MaxCycles <- MCMaxCycles
    FamilyEnd = 10
    Reports = {r1}
    Addresses = {1, 2}
    VideoTimes <- MCVideos
    Skeets <- MCSkeets
    Texts <- MCTexts
    Packs = {36}
    Checkers = {w1, w2}
    BatchLimit = 2
    ManifestLimit = 2
    LockFor = 1
    CheckAttempts = 2
    VolumeEnd = 4
    Manifests <- MCManifests
    StudyWorkers = {w1, w2}
    Articles = {study1, study2}
    Videos = {video}
    CoverageStudies = {video}
    Country <- MCCountry
    Domain <- MCDomain
    StudyPacks <- MCStudyPacks
    ObservedOn <- MCObservedOn
    FetchTime = 1
    FollowUp = 1
    GateFence = 5
    Spacing = 1
    ClaimFor = 2
    DayLength = 4
    Period = 2
    EnoughPacks = 30
    EnoughSources = 3
    StudyRuns = 2
    StudyClaims = 2
    StudyEnd = 5
    ContentTags = {"article"}
    OtherTags = {"p"}
    MaxTokens = 7
    MaxOpen = 4
SYMMETRY PublicationSymmetry
CHECK_DEADLOCK FALSE
INVARIANTS
    FamilyInv
    VolumeInv
    StudyInv
    StudyTextInv
PROPERTIES
    PublisherPaced
