SPECIFICATION Spec
CONSTANTS
    s1 = s1  s2 = s2  i1 = i1  i2 = i2
    Seed = Seed  NoRow = NoRow  NoItem = NoItem
    Session = {s1}
    Item = {i1}
    Limits <- TwoLimits
    DefaultLimits <- ThreeOne
    Units = {1, 2}
    HourLength = 2
    DayLength = 3
    MaxNow = 5
    MaxFailures = 1
INVARIANTS DayWithinLimit HourWithinTwice
CHECK_DEADLOCK FALSE
