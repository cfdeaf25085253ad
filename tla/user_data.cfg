SPECIFICATION FairSpec
CONSTANTS
    None = None
    ann = ann
    bob = bob
    RateUnit = 4
    Stored <- Rows
    Sessions = {5, 6, 7}
    Requests <- SomeRequests
CHECK_DEADLOCK FALSE
INVARIANTS
    TypeOK
    OneRowPerKey
    AuditExplains
    InflationCountsEachMonth
PROPERTIES
    EveryRequestAnswered
