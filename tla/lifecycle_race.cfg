SPECIFICATION FairSpec
CONSTANTS
    NoKey = NoKey
    Account = {a1, a2}
    Session = {s1, s2}
    Key = {k1}
    MaxAudit = 3
INVARIANTS TypeOK AuditedStepsAreLegal KeyCommitsOnce
PROPERTIES RetiredForGood EveryRequestEnds ImplementsStaleFunnel
CHECK_DEADLOCK FALSE
