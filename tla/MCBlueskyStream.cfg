SPECIFICATION FairBlueskySpec
CONSTANTS
    Nobody = Nobody
    u1 = u1
    u2 = u2
    BlueskyWorkers = {w1}
    Uris = {u1, u2}
    Frames <- MCFrames
    MaxItems = 1
    MaxFrames = 3
CHECK_DEADLOCK FALSE
PROPERTIES
    TooOldIsDropped
