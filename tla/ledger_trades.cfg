SPECIFICATION PricedSpec
CONSTANTS
    None = None
    Now = 2
    Precision = 8
    Accounts = {a1, a2}
    gold = gold
    irr = irr
    Fiat = {irr}
    Assets = {gold, irr}
    ClassOf <- Classes
    Days = {1, 2}
    RequestTypes = {"deposit", "fee", "trade", "transfer"}
    Amounts = {2}
    UnitPrices = {None}
    TwoLegBodies <- Bodies
    PriceHistories <- FirstPrice
    PriceEntries <- LaterPrices
    MaxCommands = 3
    MaxClosed = 1
SYMMETRY AccountSymmetry
INVARIANTS
    HoldingsNonNegative
    FifoRespected
    SalesRealized
    GainsAddUp
    ViewsAgree
