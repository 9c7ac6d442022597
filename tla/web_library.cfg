CONSTANTS
    MaxVersion = 3
    None = None
    Values = {"a", "b"}
    Versions <- MCVersions
    Matching <- MCMatching
    Text = TRUE
    PageSize = 2
    MaxQueue = 5
    Widths = {1, 2, 3}
SPECIFICATION Spec
INVARIANTS
    TypeOK
    OwnWritesNotForgotten
    NoEditLostOnUnload
    PageExists
    OneChartAtMost
    ChartAsTable
PROPERTIES
    FetchesEnd
    ChartFits
