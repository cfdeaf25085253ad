------------------------------ MODULE Reports -------------------------------
(***************************************************************************)
(* What the program derives from its tables: valued holdings, net worth    *)
(* and performance (src/app/services/holdings.py, net_worth.py,            *)
(* performance.py), over the price rows of Valuation, the debts of         *)
(* Liabilities and the transaction rows that Ledger commits.               *)
(*                                                                         *)
(* Only rows that count, active and not deleted, reach a report; they are  *)
(* kept as a set, since the order of their creation does not matter here.  *)
(***************************************************************************)
EXTENDS Valuation, Liabilities

CONSTANTS
    Postings,      \* the transaction rows that may be committed
    PriceBatches,  \* the price rows that may be entered together
    MaxEntries     \* bound: requests carried out

ASSUME ReportsAssumption ==
    /\ Postings \subseteq Transaction
    /\ PriceBatches \subseteq SUBSET PriceBodies
    /\ \A batch \in PriceBatches : IsFiniteSet(batch)
    /\ MaxEntries \in Nat
    /\ Absent = None

VARIABLES
    posted,        \* the transaction rows that count
    entries        \* how many requests have been carried out

vars == <<priceVars, debtVars, posted, entries>>

-----------------------------------------------------------------------------
(* Holdings at a moment, summed from the legs of the rows up to it.        *)
Rows == [row \in posted |-> row]

RowsUpto(at) == {row \in posted : row.occurred_at <= at}

HoldingAt(pair, at) == LegSum(Rows, pair, RowsUpto(at))

Held(at) == {pair \in Accounts \X Assets : HoldingAt(pair, at) # 0}

(* Values by key and currency; the sum is over those that are present, and *)
(* one that raises ends it all.                                            *)
Currencies == {IRR, USD}

Raises(values) == \E k \in DOMAIN values, ccy \in Currencies : values[k][ccy] = Raised

SumIn(values, ccy) ==
    MapThenSumSet(LAMBDA k : values[k][ccy], {k \in DOMAIN values : values[k][ccy] # None})

Unvalued(values) == {k \in DOMAIN values : \A ccy \in Currencies : values[k][ccy] = None}

(* A quantity at a unit value.                                             *)
Worth(quantity, unit) == IF unit \in {None, Raised} THEN unit ELSE quantity * unit

ValueAt(pair, ccy, at) == Worth(HoldingAt(pair, at), MarketUnitValue(pair[2], ccy, Day(at)))

ValuedHoldings(at) == [pair \in Held(at) |-> [ccy \in Currencies |-> ValueAt(pair, ccy, at)]]

Debts(at) ==
    [l \in DOMAIN liabilities |->
        [ccy \in Currencies |-> Convert(TotalOutstanding(l, at), liabilities[l], ccy, Day(at))]]

(* compute_live: net worth in both currencies and what has no value.       *)
NetWorth(assets, debts) ==
    IF Raises(assets) \/ Raises(debts) THEN Raised
    ELSE [net_worth            |-> [c \in Currencies |-> SumIn(assets, c) - SumIn(debts, c)],
          unvalued_assets      |-> Unvalued(assets),
          unvalued_liabilities |-> Unvalued(debts)]

ComputeLive(at) == NetWorth(ValuedHoldings(at), Debts(at))

-----------------------------------------------------------------------------
(* Performance.  Only deposits and withdrawals are external flows.         *)
ExternalFlowTypes == {"deposit", "withdrawal"}

(* Fault: a flow at the start of a window counts as in it.                 *)
FlowRowsFrom(from, to) ==
    {row \in posted : /\ row.type \in ExternalFlowTypes
                      /\ from <= row.occurred_at /\ row.occurred_at <= to}

FlowRows(from, to) ==
    {row \in posted : /\ row.type \in ExternalFlowTypes
                      /\ from < row.occurred_at /\ row.occurred_at <= to}

FlowTimes(from, to) == {row.occurred_at : row \in FlowRows(from, to)}

SumUnlessRaised(f) ==
    IF Raised \in Range(f) THEN Raised
    ELSE MapThenSumSet(LAMBDA k : f[k], {k \in DOMAIN f : f[k] # None})

(* The portfolio side of the flows of one moment: a deposit is positive.   *)
FlowAt(t, ccy) ==
    LET legs == UNION {{<<row, l>> : l \in DOMAIN row.legs} : row \in FlowRows(t - 1, t)}
    IN  SumUnlessRaised(
            [k \in legs |-> Worth(k[1].legs[k[2]].quantity,
                                  MarketUnitValue(k[1].legs[k[2]].asset, ccy, Day(t)))])

(* The report of holdings behind it values each in both currencies.        *)
TotalIn(values, ccy) == IF Raises(values) THEN Raised ELSE SumIn(values, ccy)

AssetsValue(at, ccy) == TotalIn(ValuedHoldings(at), ccy)

(* Every figure that a return over a window reads: the flows, and the      *)
(* value of the assets at both ends and just before each flow.             *)
Window(from, to, ccy) ==
    [from |-> from, to |-> to,
     flow  |-> [t \in FlowTimes(from, to) |-> FlowAt(t, ccy)],
     value |-> [t \in {from, to} \cup {f - 1 : f \in FlowTimes(from, to)} |->
                   AssetsValue(t, ccy)]]

Computed(w) == Raised \notin Range(w.flow) \cup Range(w.value)

(* A window is cut at its start and at every flow.  A period ends just     *)
(* before the next cut, and starts with the value just before its own flow *)
(* and the flow.                                                           *)
Cuts(w) == {w.from} \cup DOMAIN w.flow

(* Fault: the flow is left out of the value the period starts with.        *)
StartWithoutFlow(w, cut) == w.value[IF cut = w.from THEN w.from ELSE cut - 1]

StartOf(w, cut) == IF cut = w.from THEN w.value[cut] ELSE w.value[cut - 1] + w.flow[cut]

EndOf(w, cut) ==
    LET later == {t \in DOMAIN w.flow : cut < t}
    IN  w.value[IF later = {} THEN w.to ELSE Min(later) - 1]

(* Fractions <<num, den>> with den > 0; TLC needs them in lowest terms.    *)
Fraction(num, den) ==
    LET sign == IF den < 0 THEN -1 ELSE 1
        gcd  == Max({d \in 1..Max({num, -num}) : num % d = 0 /\ den % d = 0})
    IN  IF num = 0 THEN <<0, 1>> ELSE <<(sign * num) \div gcd, (sign * den) \div gcd>>

Product(f) == FoldFunction( *, 1, f)

(* One plus the return: the periods that start with something, chained.    *)
Twr(w) ==
    LET growth == [c \in {c \in Cuts(w) : StartOf(w, c) # 0} |->
                      Fraction(EndOf(w, c), StartOf(w, c))]
    IN  <<Product([c \in DOMAIN growth |-> growth[c][1]]),
          Product([c \in DOMAIN growth |-> growth[c][2]])>>

(* What the money-weighted return solves for: the value at the start paid  *)
(* in, every flow at its moment, the value at the end paid out.            *)
BuildFlows(w) ==
    {<<w.from, "start", -w.value[w.from]>>, <<w.to, "end", w.value[w.to]>>}
        \cup {<<t, "flow", -w.flow[t]>> : t \in DOMAIN w.flow}

-----------------------------------------------------------------------------
Init == PricesInit /\ DebtsInit /\ posted = {} /\ entries = 0

Another == entries < MaxEntries /\ entries' = entries + 1

EnterPrice ==
    /\ Another
    /\ \E batch \in PriceBatches : EnterPrices(batch)
    /\ UNCHANGED <<debtVars, posted>>

Borrow ==
    /\ Another
    /\ \E currency \in DebtCurrencies : CreateLiability(currency)
    /\ UNCHANGED <<priceVars, posted>>

RecordEvent ==
    /\ Another
    /\ \E liability \in DOMAIN liabilities, body \in EventBodies : AddEvent(liability, body)
    /\ UNCHANGED <<priceVars, posted>>

(* What Ledger keeps whatever is posted, reversed or deleted: no holding   *)
(* is negative at any row (Transactions!NeverNegative).                    *)
Covered(rows) ==
    \A pair \in Accounts \X Assets, row \in rows :
        LegSum([r \in rows |-> r], pair, {r \in rows : r.occurred_at <= row.occurred_at}) >= 0

Post ==
    /\ Another
    /\ \E row \in Postings \ posted :
           Covered(posted \cup {row}) /\ posted' = posted \cup {row}
    /\ UNCHANGED <<priceVars, debtVars>>

(* A row is reversed or deleted and no longer counts.                      *)
Undo ==
    /\ Another
    /\ \E row \in posted : Covered(posted \ {row}) /\ posted' = posted \ {row}
    /\ UNCHANGED <<priceVars, debtVars>>

Next == EnterPrice \/ Borrow \/ RecordEvent \/ Post \/ Undo

Spec == Init /\ [][Next]_vars

-----------------------------------------------------------------------------
TypeOK ==
    /\ price_rows \subseteq {p \in PriceBodies : p.asset \in Assets} /\ heap \in Heaps
    /\ liabilities \in Seq(DebtCurrencies)
    /\ \A e \in DOMAIN events :
           /\ events[e].liability \in DOMAIN liabilities
           /\ events[e].type = "repayment" <=> Absent \notin {events[e].principal, events[e].interest}
    /\ Len(debt_audit) = Len(liabilities) + Len(events)
    /\ posted \subseteq Postings
    /\ entries \in 0..MaxEntries

Spans == {s \in Days \X Days : s[1] < s[2]}
Equal(f, g) == f[1] * g[2] = g[1] * f[2]
Chained(f, g) == <<f[1] * g[1], f[2] * g[2]>>

(* Everything the reports say of the time up to a moment.                  *)
Performance(w) == IF Computed(w) THEN <<Twr(w), BuildFlows(w)>> ELSE Raised
Report(at) ==
    <<ComputeLive(at), [from \in {d \in Days : d < at} |->
                            [ccy \in Currencies |-> Performance(Window(from, at, ccy))]]>>

(* A currency other than the two with a quote of its own in each of them.  *)
QuotedTwice(day) ==
    \E p \in price_rows :
        /\ p.asset \in Fiat /\ Symbol[p.asset] \notin Currencies
        /\ \A ccy \in Currencies : PriceAt(p.asset, ccy, day) # None

(* The two columns of every report tell one story: where the FX rate is    *)
(* known, a holding has a value in one currency exactly when it has one in *)
(* the other, at that rate, and so has net worth, whichever way of quotes  *)
(* and bridges led to each (valuation.py:68-84, 142-172).                  *)
AtOneRate(value, fx) == value[IRR] = Times(value[USD], fx)

CurrenciesAgree ==
    \A at \in Days :
        FxUsdIrr(Day(at)) \notin {None, 0} /\ ~QuotedTwice(Day(at)) =>
            /\ \A pair \in Held(at) : AtOneRate(ValuedHoldings(at)[pair], FxUsdIrr(Day(at)))
            /\ AtOneRate(ComputeLive(at).net_worth, FxUsdIrr(Day(at)))

(* No state of the tables makes a report fail, except a rate of zero in    *)
(* force at its date: absent prices, rates and currencies are not valued.  *)
FailsOnlyAtZeroRate ==
    \A at \in Days :
        Raises(ValuedHoldings(at)) \/ Raises(Debts(at)) => FxUsdIrr(Day(at)) = 0

(* A module doc says that a value that cannot be resolved is None and that *)
(* valuation never raises (valuation.py:4).                                *)
NeverRaises == \A at \in Days : ComputeLive(at) # Raised

(* One asset is held, at every moment that a return looks at it is priced  *)
(* and held, and in the window money only comes and goes.                  *)
MoneyOnlyComesAndGoes(w, s, ccy) ==
    /\ \A row \in RowsUpto(w.to) :
           /\ \A l \in DOMAIN row.legs : row.legs[l].asset = s
           /\ row.occurred_at > w.from => row.type \in ExternalFlowTypes
    /\ Computed(w) /\ 0 \notin Range(w.value)
    /\ \A t \in DOMAIN w.flow : AssetsValue(t, ccy) \notin {0, Raised}

ReturnIsPriceGrowth(w, s, ccy) ==
    Equal(Twr(w), <<MarketUnitValue(s, ccy, Day(w.to)), MarketUnitValue(s, ccy, Day(w.from))>>)

RepricedAt(t, s, ccy) ==
    MarketUnitValue(s, ccy, Day(t)) # MarketUnitValue(s, ccy, Day(t - 1))

(* A deposit or a withdrawal is no return: however much comes and goes, an *)
(* asset returns what its price gains, provided no flow falls on the       *)
(* midnight at which the price changes (performance.py:152-175).           *)
FlowsAreNotReturn ==
    \A d \in Spans, s \in Assets, ccy \in Currencies :
        LET w == Window(d[1], d[2], ccy)
        IN  MoneyOnlyComesAndGoes(w, s, ccy) /\ (\A t \in DOMAIN w.flow : ~RepricedAt(t, s, ccy))
                => ReturnIsPriceGrowth(w, s, ccy)

(* The same of any flow: twr is documented as a chain of sub-periods that  *)
(* breaks the window at each external flow (performance.py:159-160).       *)
FlowsNeverReturn ==
    \A d \in Spans, s \in Assets, ccy \in Currencies :
        LET w == Window(d[1], d[2], ccy)
        IN  MoneyOnlyComesAndGoes(w, s, ccy) => ReturnIsPriceGrowth(w, s, ccy)

Gain(w) == MapThenSumSet(LAMBDA flow : flow[3], BuildFlows(w))

(* Something is invested in the last period of a window and at its end.    *)
Invested(w) == StartOf(w, Max(Cuts(w))) # 0 /\ w.value[w.to] # 0

Composed(whole, first, second) ==
    Computed(whole) /\ Computed(first) /\ Computed(second) =>
        /\ Gain(whole) = Gain(first) + Gain(second)
        /\ Invested(first) => Equal(Twr(whole), Chained(Twr(first), Twr(second)))

(* Two windows that meet say together what the window over both says: no   *)
(* flow is counted twice or in neither, so the gains add up, and where     *)
(* something is invested the returns multiply (performance.py:54-55).      *)
WindowsCompose ==
    \A from, mid, to \in Days, ccy \in Currencies :
        from < mid /\ mid < to =>
            Composed(Window(from, to, ccy), Window(from, mid, ccy), Window(mid, to, ccy))
=============================================================================
