SPECIFICATION Spec
CONSTANTS
    None = None
    Now = 2
    Precision = 1
    Fiat <- NoFiat
    Accounts = {a1}
    Assets = {gold}
    Days = {1, 2}
    Opening <- OneDeposit
    Prices <- NoPrices
    Sessions = {2, 3, 4}
    Requests <- OneOfAKind
CHECK_DEADLOCK FALSE
INVARIANTS
    NeverOverdrawn
