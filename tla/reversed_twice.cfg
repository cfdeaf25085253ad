SPECIFICATION Spec
CONSTANTS
    None = None
    Now = 2
    Precision = 1
    Fiat <- NoFiat
    Accounts = {a1}
    Assets = {gold}
    Days = {1, 2}
    Opening <- TwoDeposits
    Prices <- NoPrices
    Sessions = {3, 4}
    Requests <- CashRequests
CHECK_DEADLOCK FALSE
INVARIANTS
    ReversedOnce
