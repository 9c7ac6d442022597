CONSTANTS
    Nothing = Nothing
    Entrances <- MCEntrances
    Earlier <- MCEarlier
    Toggled <- MCToggled
    ClassFilters <- MCClassFilters
    SnoozeOptions <- MCSnoozeOptions
    MaxBody = 3
    Validity = 5
    Refresh = 2
    Lateness = 1
    Limits = {"0"}
    Integrations = {"aws"}
    PolicyNames = {"policy"}
    MaxPolicies = 1
    MaxInvites = 3
SPECIFICATION Spec
INVARIANTS
    TypeOK
    OnlyHistoryStrays
    PickIsKept
    OpensAsListed
    InvitedAsEntered
PROPERTIES
    TagsSpareTheText
