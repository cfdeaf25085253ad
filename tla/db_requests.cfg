SPECIFICATION FairSpec
CONSTANTS
    None = None
    Now = 2
    Precision = 1
    Fiat <- NoFiat
    Accounts = {a1}
    Assets = {gold, irr}
    Days = {1, 2}
    Opening <- Traded
    Prices <- NoPrices
    Sessions = {4, 5, 6}
    Requests <- TradeRequests
CHECK_DEADLOCK FALSE
INVARIANTS
    TypeOK
    NoLotLost
    HealedAlone
    PairsNeverOverdraw
PROPERTIES
    EveryRequestAnswered
