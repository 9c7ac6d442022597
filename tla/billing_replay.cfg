SPECIFICATION Spec
CONSTANTS
    a1 = a1  a2 = a2  pilot = pilot  pro = pro
    Account = {a1}
    Plan = {pro}
    Recurring = {pro}
    MaxCheckouts = 2
    Copies = {1}
INVARIANTS ChargedOnce
CHECK_DEADLOCK FALSE
