SPECIFICATION FeedSpec
CONSTANTS
    p1 = p1
    d1 = d1
    alice = alice
    r1 = r1
    r2 = r2
    u1 = u1
    u2 = u2
    tag1 = tag1
    tag2 = tag2
    w1 = w1
    w2 = w2
    Relays = {r1, r2}
    NostrWorkers = {w1, w2}
    Posts = {p1}
    Deletions = {d1}
    sound = {p1, d1}
    author <- MCAuthor
    at <- MCAt
    named <- MCNamed
    Overlap = 2
    Limit = 2
    KnownLimit = 2
    MaxTargets = 2
    NostrLease = 1
    NostrBeginLease = 2
    NostrStart = 3
    NostrEnd = 5
    MaxClaims <- MCClaims
    MaxLate = 1
    BlueskyWorkers = {w1, w2}
    Nobody = Nobody
    Uris = {u1, u2}
    Frames <- MCFrames
    MaxItems = 1
    MaxFrames = 3
    Tags = {tag1, tag2}
    MastodonWorkers = {w1, w2}
    NoWorker = NoWorker
    NoTag = NoTag
    Statuses <- MCStatuses
    EditedTags = {{tag1}}
    PageSize = 1
    MaxPages = 2
    MaxStatuses = 2
    MastodonEnd = 1
    MaxAttempts <- MCAttempts
SYMMETRY FeedSymmetry
CHECK_DEADLOCK FALSE
INVARIANTS
    NostrInv
    BlueskyInv
    MastodonInv
PROPERTIES
    DeletedStays
    RewindsOnlyForgotten
    BackedOff
