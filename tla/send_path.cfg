SPECIFICATION Spec
CONSTANTS
    p1 = p1  p2 = p2  d1 = d1  d2 = d2  acc = acc
    Person = {p1, p2}
    Domain = {d1, d2}
    AccountId = {acc}
    DomainOf <- TwoDomains
    AccountOf <- OneAccount
    Mailbox <- Pool
    MailboxDomain <- Senders
    HourlyCap = 1
    DailyCap = 2
    Scope <- Scopes
    Watched <- FirstAndAll
    System = System
    Batches <- OddAndPlain
    Admin <- Operators
    MaxTasks = 2
    MaxMails = 2
INVARIANTS CapsHold LeftOverOnlyWhenFull
PROPERTIES NoMailAfterStop BreachStopsApproval
CHECK_DEADLOCK FALSE
