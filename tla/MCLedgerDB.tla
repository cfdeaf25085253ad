----------------------------- MODULE MCLedgerDB -----------------------------
(***************************************************************************)
(* Instances of LedgerDB for TLC.                                          *)
(***************************************************************************)
EXTENDS LedgerDB

NoPrices == [s \in Assets |-> {}]
NoFiat == {}
TheAccount == CHOOSE a \in Accounts : TRUE

ALeg(asset, quantity) ==
    [account |-> TheAccount, asset |-> asset, quantity |-> quantity, unit_price |-> None]

Create(type, day, legs) == [op |-> "create", type |-> type, day |-> day, legs |-> legs]
ReverseRequest(id) == [op |-> "reverse", target |-> id]
DeleteRequest(id) == [op |-> "delete", target |-> id]

Deposit(day, s, q) == Row("deposit", day, <<ALeg(s, q)>>)
Trade(s, p, t, q) == <<ALeg(s, -p), ALeg(t, q)>>
AnAsset == CHOOSE s \in Assets : TRUE

(* What is on hand when the requests begin: two units of one asset; a      *)
(* third, deposited later; two of every asset, one traded for the other.   *)
OneDeposit == <<Deposit(1, AnAsset, 2)>>
TwoDeposits == <<Deposit(1, AnAsset, 2), Deposit(2, AnAsset, 1)>>
Traded ==
    LET other == CHOOSE s \in Assets : s # AnAsset
    IN  <<Deposit(1, AnAsset, 2), Deposit(1, other, 2),
          Row("trade", 1, Trade(AnAsset, 1, other, 1))>>

(* All that may be asked about one asset, dated before or after the rest.  *)
CashRequests ==
    {Create("deposit", day, <<ALeg(s, 1)>>) : s \in Assets, day \in Days}
    \cup {Create("withdrawal", day, <<ALeg(s, -q)>>) : s \in Assets, day \in Days, q \in {1, 2}}
    \cup {ReverseRequest(1), ReverseRequest(2), DeleteRequest(1)}

(* One request of a kind, for more requests at a time.                     *)
OneOfAKind ==
    {Create("deposit", 2, <<ALeg(AnAsset, 1)>>), Create("withdrawal", 2, <<ALeg(AnAsset, -2)>>),
     ReverseRequest(1)}

(* Trades either way, the reversal and the deletion of the deposit that    *)
(* the trade already made rests on, and deposits.                          *)
TradeRequests ==
    {Create("trade", 2, Trade(p[1], 2, p[2], 1)) :
        p \in {p \in Assets \X Assets : p[1] # p[2]}}
    \cup {ReverseRequest(1), DeleteRequest(1)}
    \cup {Create("deposit", 1, <<ALeg(s, 1)>>) : s \in Assets}
=============================================================================
