----------------------------- MODULE Valuation ------------------------------
(***************************************************************************)
(* Price rows and what the reports compute from them                       *)
(* (src/app/services/prices.py, valuation.py): the nearest price, the FX   *)
(* rate, conversion on the IRR/USD axis, the value of one unit.            *)
(*                                                                         *)
(* An amount is an integer number of 1/Precision; a computation ends in an *)
(* amount, in None (not valued) or in Raised (the request ends in a 500).  *)
(* A moment is a half day: moment 2 * d is the midnight that day d starts  *)
(* with, 2 * d + 1 a time during day d.  Price rows carry a day.           *)
(***************************************************************************)
EXTENDS Transactions

CONSTANTS
    Symbol,       \* the symbol of an asset
    Own,          \* the user's own assets; the others are shared system ones
    QuoteOf,      \* the quote_currency an asset prefers
    PriceBodies,  \* the price rows a client may enter
    Heaps,        \* the orders in which the database may meet the price rows
    Raised        \* the outcome of a division by zero

ASSUME ValuationAssumption ==
    /\ Own \subseteq Assets
    /\ PriceBodies \subseteq [asset : Assets, quote : STRING, price : Nat, as_of : Int]
    /\ Heaps \subseteq [PriceBodies -> Nat]
    /\ Raised \notin Int \cup {None}

VARIABLES
    price_rows,   \* the price rows of the user
    heap          \* the rank of a row where ORDER BY leaves the order open

priceVars == <<price_rows, heap>>

IRR == "IRR"
USD == "USD"
One == Precision

Day(at) == at \div 2

-----------------------------------------------------------------------------
(* Decimal arithmetic on outcomes.                                         *)
Times(amount, rate) ==
    IF None \in {amount, rate} THEN None
    ELSE IF Raised \in {amount, rate} THEN Raised ELSE RoundDiv(amount * rate, Precision)

Reciprocal(rate) == IF rate = 0 THEN Raised ELSE RoundDiv(One * One, rate)

OrElse(outcome, other) == IF outcome = None THEN other ELSE outcome

-----------------------------------------------------------------------------
(* Fault: a price is taken from the future.                                *)
KnownLater(asset, quotes, day) ==
    {p \in price_rows : p.asset = asset /\ p.quote \in quotes /\ p.as_of <= day + 1}

Known(asset, quotes, day) ==
    {p \in price_rows : p.asset = asset /\ p.quote \in quotes /\ p.as_of <= day}

(* Of the rows with the latest as_of, the one the database meets first.    *)
First(rows) ==
    CHOOSE p \in rows : \A q \in rows :
        p.as_of > q.as_of \/ (p.as_of = q.as_of /\ heap[p] <= heap[q])

PriceOf(rows) == IF rows = {} THEN None ELSE First(rows).price

PriceAt(asset, quote, day) == PriceOf(Known(asset, {quote}, day))

(* The asset a currency code names, the shared one before the user's own.  *)
ResolveCurrencyAsset(symbol) ==
    LET named  == {a \in Assets : Symbol[a] = symbol}
        shared == named \ Own
    IN  CASE named = {}                 -> None
          [] shared # {}                -> CHOOSE a \in shared : TRUE
          [] named # {} /\ shared = {}  -> CHOOSE a \in named : TRUE

(* A code that names no asset has no price.                                *)
FxUsdIrr(day) == PriceAt(ResolveCurrencyAsset(USD), IRR, day)

(* The FX rate as a rate from one of the two currencies to the other.      *)
RateFrom(from, fx) == IF fx = None \/ from = USD THEN fx ELSE Reciprocal(fx)

(* Fault: the rate from IRR to USD is applied without being inverted.      *)
UnitRateUninverted(from, to, day) ==
    IF from = to THEN One
    ELSE IF {from, to} = {USD, IRR} THEN FxUsdIrr(day) ELSE None

(* Fault: a missing FX rate counts as zero.                                *)
UnitRateOfNothing(from, to, day) ==
    IF from = to THEN One
    ELSE IF {from, to} = {USD, IRR} THEN RateFrom(from, OrElse(FxUsdIrr(day), 0)) ELSE None

UnitRate(from, to, day) ==
    IF from = to THEN One
    ELSE IF {from, to} = {USD, IRR} THEN RateFrom(from, FxUsdIrr(day)) ELSE None

(* One unit of a currency by its own price rows: a direct quote, else      *)
(* through the other reporting currency.                                   *)
PriceViaCurrencyAsset(ccy, target, day) ==
    LET asset  == ResolveCurrencyAsset(ccy)
        bridge == IF target = IRR THEN USD ELSE IRR
    IN  OrElse(PriceAt(asset, target, day),
               Times(PriceAt(asset, bridge, day), UnitRate(bridge, target, day)))

Convert(amount, ccy, target, day) ==
    IF amount = None \/ ccy = target THEN amount
    ELSE Times(amount, OrElse(UnitRate(ccy, target, day),
                              PriceViaCurrencyAsset(ccy, target, day)))

(* The rows a price is taken from: those in the quote_currency of the      *)
(* asset, else those in any.                                               *)
Nearest(asset, day) ==
    LET preferred == Known(asset, {QuoteOf[asset]}, day)
    IN  IF preferred # {} THEN preferred
        ELSE Known(asset, {p.quote : p \in price_rows}, day)

ConvertPrice(row, target, day) == Convert(row.price, row.quote, target, day)

(* The value of one unit; a fiat asset is its currency.                    *)
MarketUnitValue(asset, target, day) ==
    IF asset \in Fiat THEN Convert(One, Symbol[asset], target, day)
    ELSE IF Nearest(asset, day) = {} THEN None
         ELSE ConvertPrice(First(Nearest(asset, day)), target, day)

-----------------------------------------------------------------------------
PricesInit == price_rows = {} /\ heap \in Heaps

(* create_price and create_prices_bulk: all of the rows or, when one of    *)
(* them names an asset the user does not see, none (which is no step).     *)
(* Where ORDER BY leaves the order open, it may be another one from then   *)
(* on.                                                                     *)
EnterPrices(bodies) ==
    /\ \A p \in bodies : p.asset \in Assets
    /\ price_rows' = price_rows \cup bodies
    /\ heap' \in Heaps
=============================================================================
