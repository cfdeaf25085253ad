SPECIFICATION Spec
CONSTANTS
    None = None
    Now = 2
    Precision = 8
    Fiat <- NoFiat
    Accounts = {a1, a2}
    Assets = {gold}
    Days = {1, 2}
    RequestTypes = {"deposit", "withdrawal", "transfer"}
    Amounts = {4, 8}
    UnitPrices = {None}
    TwoLegBodies <- TransferBodies
    PriceHistories <- DailyPrices
    MaxCommands = 4
    MaxClosed = 0
SYMMETRY AccountSymmetry
INVARIANTS
    TypeOK
    LotsReconcile
    LotProvenance
    CostConserved
    ReversalPairing
    AuditTrail
    RefusalsAreExact
PROPERTIES
    HistoryKept
    ImplementsBook
