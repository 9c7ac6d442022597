SPECIFICATION Spec
CONSTANTS
    a1 = a1  a2 = a2  pilot = pilot  pro = pro
    Account = {a1}
    Plan = {pro}
    Recurring = {pro}
    MaxCheckouts = 1
    Copies = {1, 2}
INVARIANTS ActivatedExactlyOnce
CHECK_DEADLOCK FALSE
