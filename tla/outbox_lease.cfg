SPECIFICATION FairSpec
CONSTANTS
    p1 = p1  p2 = p2  w1 = w1  w2 = w2
    NoEvent = NoEvent  Nobody = Nobody  NoObject = NoObject
    Event = {1}
    Publisher = {p1}
    Worker = {w1, w2}
    BatchSize = 1
    MaxAttempts = 2
    MaxCrashes = 1
    MaxRepeats = 1
PROPERTIES ClaimsExpire
CHECK_DEADLOCK FALSE
