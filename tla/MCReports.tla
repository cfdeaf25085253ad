----------------------------- MODULE MCReports ------------------------------
(***************************************************************************)
(* An instance of Planning for TLC: two days, each with its midnight and a *)
(* moment later; the system's USD, EUR and BTC, and a USD of the user's    *)
(* own.  Prices are powers of two, so that every quotient is exact.        *)
(***************************************************************************)
EXTENDS Planning

CONSTANTS acc, usd, eur, btc, my_usd

TwoDays == 2..5
Symbols == [s \in Assets |-> CASE s \in {usd, my_usd} -> "USD" [] s = eur -> "EUR" [] s = btc -> "BTC"]
Quotes == [s \in Assets |-> IF s = btc THEN "USD" ELSE "IRR"]

Quote(asset, quote, price, day) ==
    [asset |-> asset, quote |-> quote, price |-> price * Precision, as_of |-> day]

(* An FX rate that doubles, one that is corrected on its day, one of zero. *)
UsdPrices == {Quote(usd, "IRR", 2, 1), Quote(usd, "IRR", 4, 2), Quote(usd, "IRR", 4, 1),
              Quote(usd, "IRR", 0, 2)}
(* EUR quoted either way, BTC in its currency, in another, in EUR.         *)
OtherPrices == {Quote(eur, "IRR", 8, 1), Quote(eur, "USD", 2, 2), Quote(btc, "USD", 2, 1),
                Quote(btc, "USD", 4, 2), Quote(btc, "IRR", 8, 1), Quote(btc, "EUR", 1, 2),
                Quote(my_usd, "IRR", 8, 1)}
Bodies == UsdPrices \cup OtherPrices
Batches ==
    {{Quote(usd, "IRR", 2, 1), Quote(btc, "USD", 2, 1)}, {Quote(usd, "IRR", 4, 2)},
     {Quote(usd, "IRR", 0, 2)}, {Quote(usd, "IRR", 4, 1), Quote(my_usd, "IRR", 8, 1)},
     {Quote(eur, "IRR", 8, 1)}, {Quote(eur, "USD", 2, 2)},
     {Quote(btc, "USD", 4, 2), Quote(btc, "EUR", 1, 2)}, {Quote(btc, "IRR", 8, 1)},
     {Quote(btc, "EUR", 1, 2)}}

(* Among rows of one date the cheapest first, or the dearest.              *)
BothHeaps == {[p \in Bodies |-> p.price], [p \in Bodies |-> 100 - p.price]}

Single(type, day, asset, quantity) ==
    Row(type, day, <<[account |-> acc, asset |-> asset, quantity |-> quantity, unit_price |-> None]>>)
Deposits == {Single("deposit", 3, btc, 2), Single("deposit", 4, btc, 2),
             Single("deposit", 2, eur, 1), Single("deposit", 3, my_usd, 1)}
OtherRows == {Single("withdrawal", 5, btc, -1), Single("income", 5, btc, 1)}
PostedRows == Deposits \cup OtherRows

Event(type, currency, amount, at, principal, interest) ==
    [type |-> type, currency |-> currency, amount |-> amount, occurred_at |-> at,
     principal |-> principal, interest |-> interest]
DebtEvents == {Event("disbursement", "EUR", 8, 2, None, None), Event("interest", "EUR", 4, 3, None, 4),
               Event("repayment", "EUR", 8, 4, None, None), Event("repayment", "EUR", 8, 5, 4, 4),
               Event("repayment", "EUR", 8, 4, None, 4), Event("interest", "USD", 4, 3, None, None)}

-----------------------------------------------------------------------------
Classes == [s \in Assets |-> IF s = btc THEN "crypto" ELSE "fiat"]

Goal(type, status, currency, target, target_value) ==
    [type |-> type, status |-> status, currency |-> currency, target |-> target,
     target_value |-> target_value]

(* Targets that include what may be held, leave some of it out, ask for    *)
(* what is never held, and share out less than the whole.                  *)
SomeGoals ==
    <<Goal("target_allocation", "active", "IRR", [crypto |-> 1, fiat |-> 3], None),
      Goal("target_allocation", "active", "USD", [crypto |-> 2, gold |-> 2], None),
      Goal("target_allocation", "archived", "EUR", [fiat |-> 4], None),
      Goal("target_allocation", "active", "IRR", [fiat |-> 1], None),
      Goal("target_net_worth", "active", "USD", NoValues, 8),
      Goal("target_net_worth", "active", "IRR", NoValues, None),
      Goal("target_net_worth", "active", "IRR", NoValues, 128)>>

(* The two days are the last of a year and the first of the next.          *)
Dates == [day \in {1, 2} |-> IF day = 1 THEN <<1, 12, 31>> ELSE <<2, 1, 1>>]
MonthlyRates == <<1, 12>> :> 2 @@ <<2, 1>> :> -1

(* Annual growths of nothing, of all and of minus all, in three scenarios. *)
SomeGrowths == {-4, 0, 4}
TwelfthRoots == 8 :> 4 @@ 12 :> 5 @@ 16 :> 6 @@ 20 :> 7 @@ 4 :> 3
=============================================================================
