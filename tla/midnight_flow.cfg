SPECIFICATION Spec
CONSTANTS
    Precision = 4
    acc = acc
    usd = usd
    eur = eur
    btc = btc
    my_usd = my_usd
    None = None
    Absent = None
    Raised = Raised
    Accounts = {acc}
    Assets = {usd, eur, btc, my_usd}
    Fiat = {usd, eur, my_usd}
    Own = {my_usd}
    Days <- TwoDays
    Now = 5
    Symbol <- Symbols
    QuoteOf <- Quotes
    PriceBodies <- Bodies
    PriceBatches <- Batches
    Heaps <- BothHeaps
    DebtCurrencies = {"EUR", "USD"}
    EventBodies <- DebtEvents
    MaxLiabilities = 1
    MaxEvents = 3
    Postings <- PostedRows
    MaxEntries = 4
    RateUnit = 4
    ClassOf <- Classes
    Goals <- SomeGoals
    Rates <- MonthlyRates
    DateOf <- Dates
    AnnualGrowths <- SomeGrowths
    Growth <- TwelfthRoots
    Contributions = {2}
    Horizon = 2
INVARIANT
    FlowsNeverReturn
CHECK_DEADLOCK FALSE
