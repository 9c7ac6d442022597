SPECIFICATION FairSpec
CONSTANTS
    a1 = a1  a2 = a2  pilot = pilot  pro = pro
    Account = {a1, a2}
    Plan = {pilot, pro}
    Recurring = {pro}
    MaxCheckouts = 2
    Copies = {1, 2}
INVARIANTS WorkspaceOncePaid ActivatedPerEvent LedgerAgrees
PROPERTIES PaidGetsWorkspace
CHECK_DEADLOCK FALSE
