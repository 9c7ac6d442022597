SPECIFICATION Spec
CONSTANTS
    s1 = s1  s2 = s2  i1 = i1  i2 = i2
    Seed = Seed  NoRow = NoRow  NoItem = NoItem
    Session = {s1, s2}
    Item = {i1, i2}
    Limits <- LowerToo
    DefaultLimits <- TwoOne
    Units = {1}
    HourLength = 1
    DayLength = 1
    MaxNow = 1
    MaxFailures = 1
SYMMETRY Symmetry
INVARIANTS LostOnlyByFailure
PROPERTIES SettingsSurvive
CHECK_DEADLOCK FALSE
