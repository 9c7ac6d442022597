SPECIFICATION FairSpec
CONSTANTS
    p1 = p1  p2 = p2  w1 = w1  w2 = w2
    NoEvent = NoEvent  Nobody = Nobody  NoObject = NoObject
    Event = {1, 2}
    Publisher = {p1, p2}
    Worker = {w1, w2}
    BatchSize = 2
    MaxAttempts = 2
    MaxCrashes = 1
    MaxRepeats = 2
INVARIANTS TypeOK ExclusiveClaim AttemptsAccounted DeathsStrandOneBatch
PROPERTIES SettledForGood EventuallySettled
CHECK_DEADLOCK FALSE
