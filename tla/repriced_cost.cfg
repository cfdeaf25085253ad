SPECIFICATION PricedSpec
CONSTANTS
    None = None
    Now = 2
    Precision = 8
    Accounts = {a1}
    gold = gold
    irr = irr
    Fiat = {irr}
    Assets = {gold, irr}
    ClassOf <- Classes
    Days = {1, 2}
    RequestTypes = {"deposit"}
    Amounts = {2}
    UnitPrices = {None}
    TwoLegBodies <- Bodies
    PriceHistories <- FirstPrice
    PriceEntries <- LaterPrices
    MaxCommands = 2
    MaxClosed = 1
PROPERTY
    CostsAreSnapshots
