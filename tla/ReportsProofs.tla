--------------------------- MODULE ReportsProofs ---------------------------
(***************************************************************************)
(* What is proved of the tables behind the reports and of the reports:     *)
(* their types, what a debt amounts to, when a report can fail, that the   *)
(* reports of the past stay as they were, and what is said of windows,     *)
(* returns, plans and projections.                                         *)
(***************************************************************************)
EXTENDS Planning, LotsProofs

-----------------------------------------------------------------------------
(* The tables.                                                             *)
EventRows ==
    [liability : Nat, type : EventTypes, amount : Nat \ {0}, occurred_at : Int,
     principal : Nat \cup {Absent}, interest : Nat \cup {Absent}]

AuditRows == [entity : {"liability", "liability_event"}, id : Nat]

(* A repayment is split without remainder.                                 *)
Split(event) ==
    event.type = "repayment" =>
        /\ event.principal \in Nat /\ event.interest \in Nat
        /\ event.principal + event.interest = event.amount

IInv ==
    /\ TypeOK
    /\ IsFiniteSet(price_rows) /\ IsFiniteSet(posted)
    /\ events \in Seq(EventRows) /\ debt_audit \in Seq(AuditRows)
    /\ \A e \in DOMAIN events : Split(events[e])

(* The row of an event that passed the checks of a request.                *)
LEMMA EventRowSplit ==
    ASSUME NEW liability \in Nat, NEW body \in EventBodies, ComponentsAgree(body)
    PROVE  /\ EventRow(liability, body) \in EventRows
           /\ EventRow(liability, body).liability = liability
           /\ Split(EventRow(liability, body))
           /\ EventRow(liability, body).type = "repayment"
                  <=> Absent \notin {EventRow(liability, body).principal,
                                     EventRow(liability, body).interest}
<1>1. /\ Absent \notin Int
      /\ body.type \in EventTypes /\ body.amount \in Nat \ {0} /\ body.occurred_at \in Int
      /\ body.principal \in Nat \cup {Absent} /\ body.interest \in Nat \cup {Absent}
    BY LiabilitiesAssumption
<1>2. Given(body.principal) \in Nat /\ Given(body.interest) \in Nat
    BY <1>1 DEF Given
<1>3. CASE body.type # "repayment"
    BY <1>1, <1>3 DEF EventRow, EventRows, Split
<1>4. CASE body.type = "repayment" /\ Unsplit(body)
    <2>1. Given(body.interest) = 0
        BY <1>4 DEF Unsplit, Given
    <2> QED BY <1>1, <1>4, <2>1 DEF EventRow, EventRows, Split
<1>5. CASE body.type = "repayment" /\ ~Unsplit(body)
    <2>1. Given(body.principal) + Given(body.interest) = body.amount
        BY <1>5 DEF ComponentsAgree
    <2> QED BY <1>1, <1>2, <1>5, <2>1 DEF EventRow, EventRows, Split
<1> QED BY <1>3, <1>4, <1>5

LEMMA InvInit == Init => IInv
<1> SUFFICES ASSUME Init PROVE IInv
    OBVIOUS
<1>1. TypeOK
    BY ReportsAssumption DEF Init, TypeOK, PricesInit, DebtsInit
<1>2. IsFiniteSet({})
    BY FS_EmptySet
<1> QED BY <1>1, <1>2 DEF Init, IInv, PricesInit, DebtsInit

LEMMA AnotherEntry ==
    ASSUME TypeOK, Another PROVE entries' \in 0..MaxEntries
BY ReportsAssumption DEF TypeOK, Another

LEMMA InvStep == IInv /\ [Next]_vars => IInv'
<1> SUFFICES ASSUME IInv, [Next]_vars PROVE IInv'
    OBVIOUS
<1>1. CASE EnterPrice
    <2>1. PICK batch \in PriceBatches : EnterPrices(batch)
        BY <1>1 DEF EnterPrice
    <2>2. /\ batch \subseteq {p \in PriceBodies : p.asset \in Assets} /\ IsFiniteSet(batch)
        BY <2>1, ReportsAssumption DEF EnterPrices
    <2>3. price_rows' = price_rows \cup batch /\ heap' \in Heaps
        BY <2>1 DEF EnterPrices
    <2>4. IsFiniteSet(price_rows')
        BY <2>2, <2>3, FS_Union DEF IInv
    <2>5. /\ UNCHANGED <<liabilities, events, debt_audit, posted>>
          /\ entries' \in 0..MaxEntries
        BY <1>1, AnotherEntry DEF EnterPrice, debtVars, IInv
    <2>6. TypeOK'
        BY <2>2, <2>3, <2>5 DEF IInv, TypeOK
    <2> QED BY <2>4, <2>5, <2>6 DEF IInv
<1>2. CASE Borrow
    <2>1. PICK currency \in DebtCurrencies : CreateLiability(currency)
        BY <1>2 DEF Borrow
    <2>2. /\ UNCHANGED <<price_rows, heap, posted, events>>
          /\ entries' \in 0..MaxEntries
        BY <1>2, <2>1, AnotherEntry DEF Borrow, priceVars, IInv, CreateLiability
    <2>3. /\ liabilities \in Seq(DebtCurrencies) /\ debt_audit \in Seq(AuditRows)
          /\ liabilities' = Append(liabilities, currency)
          /\ debt_audit' = Append(debt_audit, [entity |-> "liability", id |-> Len(liabilities) + 1])
        BY <2>1 DEF CreateLiability, IInv, TypeOK
    <2>4. [entity |-> "liability", id |-> Len(liabilities) + 1] \in AuditRows
        BY <2>3 DEF AuditRows
    <2>5. /\ liabilities' \in Seq(DebtCurrencies) /\ debt_audit' \in Seq(AuditRows)
          /\ DOMAIN liabilities \subseteq DOMAIN liabilities'
          /\ Len(liabilities') = Len(liabilities) + 1 /\ Len(debt_audit') = Len(debt_audit) + 1
        BY <2>3, <2>4
    <2>6. Len(events) \in Nat
        BY DEF IInv
    <2>7. TypeOK'
        BY <2>2, <2>3, <2>5, <2>6 DEF IInv, TypeOK
    <2> QED BY <2>2, <2>5, <2>7 DEF IInv
<1>3. CASE RecordEvent
    <2>1. PICK liability \in DOMAIN liabilities, body \in EventBodies : AddEvent(liability, body)
        BY <1>3 DEF RecordEvent
    <2> DEFINE row == EventRow(liability, body)
    <2>2. /\ UNCHANGED <<price_rows, heap, posted, liabilities>>
          /\ entries' \in 0..MaxEntries
        BY <1>3, <2>1, AnotherEntry DEF RecordEvent, priceVars, IInv, AddEvent
    <2>3. /\ liabilities \in Seq(DebtCurrencies) /\ liability \in Nat
          /\ events \in Seq(EventRows) /\ debt_audit \in Seq(AuditRows)
        BY DEF IInv, TypeOK
    <2>4. /\ row \in EventRows /\ row.liability = liability /\ Split(row)
          /\ row.type = "repayment" <=> Absent \notin {row.principal, row.interest}
        BY <2>1, <2>3, EventRowSplit DEF AddEvent
    <2>5. /\ events' = Append(events, row)
          /\ debt_audit' = Append(debt_audit,
                                  [entity |-> "liability_event", id |-> Len(events) + 1])
        BY <2>1 DEF AddEvent
    <2> HIDE DEF row
    <2>6. [entity |-> "liability_event", id |-> Len(events) + 1] \in AuditRows
        BY <2>3 DEF AuditRows
    <2>7. /\ events' \in Seq(EventRows) /\ debt_audit' \in Seq(AuditRows)
          /\ Len(events') = Len(events) + 1 /\ Len(debt_audit') = Len(debt_audit) + 1
          /\ \A e \in DOMAIN events' : events'[e] = row \/ (e \in DOMAIN events /\ events'[e] = events[e])
        BY <2>3, <2>4, <2>5, <2>6
    <2>8. \A e \in DOMAIN events' :
              /\ events'[e].liability \in DOMAIN liabilities
              /\ events'[e].type = "repayment"
                     <=> Absent \notin {events'[e].principal, events'[e].interest}
              /\ Split(events'[e])
        BY <2>4, <2>7 DEF IInv, TypeOK
    <2>9. TypeOK'
        BY <2>2, <2>3, <2>7, <2>8 DEF IInv, TypeOK
    <2> QED BY <2>2, <2>7, <2>8, <2>9 DEF IInv
<1>4. CASE Post
    <2>1. PICK row \in Postings \ posted : posted' = posted \cup {row}
        BY <1>4 DEF Post
    <2>2. UNCHANGED <<price_rows, heap, liabilities, events, debt_audit>> /\ entries' \in 0..MaxEntries
        BY <1>4, AnotherEntry DEF Post, priceVars, debtVars, IInv
    <2>3. IsFiniteSet(posted')
        BY <2>1, FS_AddElement DEF IInv
    <2> QED BY <2>1, <2>2, <2>3 DEF IInv, TypeOK
<1>5. CASE Undo
    <2>1. PICK row \in posted : posted' = posted \ {row}
        BY <1>5 DEF Undo
    <2>2. UNCHANGED <<price_rows, heap, liabilities, events, debt_audit>> /\ entries' \in 0..MaxEntries
        BY <1>5, AnotherEntry DEF Undo, priceVars, debtVars, IInv
    <2>3. IsFiniteSet(posted')
        BY <2>1, FS_Subset DEF IInv
    <2> QED BY <2>1, <2>2, <2>3 DEF IInv, TypeOK
<1>6. CASE UNCHANGED vars
    BY <1>6 DEF vars, priceVars, debtVars, IInv, TypeOK
<1> QED BY <1>1, <1>2, <1>3, <1>4, <1>5, <1>6 DEF Next

LEMMA InvHolds == Spec => []IInv
BY InvInit, InvStep, PTL DEF Spec

(* The tables keep their types: an event belongs to a liability that       *)
(* exists, only repayments are split, every liability and event has its    *)
(* audit entry (liabilities.py:96-137).                                    *)
THEOREM TypeCorrect == Spec => []TypeOK
<1>1. IInv => TypeOK
    BY DEF IInv
<1> QED BY <1>1, InvHolds, PTL

-----------------------------------------------------------------------------
(* Debts.                                                                  *)

(* The sums of a balance as sums of a column of the events.                *)
AmountOf    == [e \in DOMAIN events |-> events[e].amount]
PrincipalOf == [e \in DOMAIN events |-> events[e].principal]
InterestOf  == [e \in DOMAIN events |-> events[e].interest]

Typed(es, type) == {e \in es : events[e].type = type}

LEMMA DebtSums ==
    ASSUME NEW es \in SUBSET DOMAIN events
    PROVE  /\ \A type : Amount(es, type) = SumOver(AmountOf, Typed(es, type))
           /\ Settled(es, LAMBDA e : e.principal) = SumOver(PrincipalOf, Typed(es, "repayment"))
           /\ Settled(es, LAMBDA e : e.interest) = SumOver(InterestOf, Typed(es, "repayment"))
<1>1. ASSUME NEW type PROVE Amount(es, type) = SumOver(AmountOf, Typed(es, type))
    BY DEF Amount, AmountOf, SumOver, MapThenSumSet, MapThenFoldSet, Typed
<1>2. Settled(es, LAMBDA e : e.principal) = SumOver(PrincipalOf, Typed(es, "repayment"))
    BY DEF Settled, PrincipalOf, SumOver, MapThenSumSet, MapThenFoldSet, Typed
<1>3. Settled(es, LAMBDA e : e.interest) = SumOver(InterestOf, Typed(es, "repayment"))
    BY DEF Settled, InterestOf, SumOver, MapThenSumSet, MapThenFoldSet, Typed
<1> QED BY <1>1, <1>2, <1>3

(* What the sums of a balance are over, and of what.                       *)
LEMMA DebtTypes ==
    ASSUME IInv, NEW es \in SUBSET DOMAIN events, NEW type
    PROVE  /\ IsFiniteSet(Typed(es, type))
           /\ \A e \in Typed(es, type) : AmountOf[e] \in Int
           /\ type = "repayment" =>
                  \A e \in Typed(es, type) :
                      /\ PrincipalOf[e] \in Int /\ InterestOf[e] \in Int
                      /\ AmountOf[e] = PrincipalOf[e] + InterestOf[e]
<1>1. events \in Seq(EventRows) /\ \A e \in DOMAIN events : Split(events[e])
    BY DEF IInv
<1>2. DOMAIN events = 1..Len(events) /\ Len(events) \in Nat
    BY <1>1
<1>3. IsFiniteSet(Typed(es, type))
    <2>1. IsFiniteSet(1..Len(events)) /\ Typed(es, type) \subseteq 1..Len(events)
        BY <1>2, FS_Interval DEF Typed
    <2> QED BY <2>1, FS_Subset
<1>4. ASSUME NEW e \in Typed(es, type)
      PROVE  /\ AmountOf[e] \in Int
             /\ type = "repayment" =>
                   /\ PrincipalOf[e] \in Int /\ InterestOf[e] \in Int
                   /\ AmountOf[e] = PrincipalOf[e] + InterestOf[e]
    <2>1. e \in DOMAIN events /\ events[e] \in EventRows /\ events[e].type = type
          /\ Split(events[e])
        BY <1>1 DEF Typed
    <2>2. /\ AmountOf[e] = events[e].amount /\ PrincipalOf[e] = events[e].principal
          /\ InterestOf[e] = events[e].interest
        BY <2>1 DEF AmountOf, PrincipalOf, InterestOf
    <2> QED BY <2>1, <2>2 DEF EventRows, Split
<1> QED BY <1>3, <1>4

LEMMA Balances == IInv => BalanceAgrees
<1> SUFFICES ASSUME IInv, NEW liability \in DOMAIN liabilities,
                    NEW at \in {events[e].occurred_at : e \in DOMAIN events}
             PROVE  LET es == Upto(liability, at)
                    IN  TotalOutstanding(liability, at) =
                            Amount(es, "disbursement") + Amount(es, "interest")
                                - Amount(es, "repayment")
    BY DEF BalanceAgrees
<1> DEFINE es == Upto(liability, at)
           paid == Typed(es, "repayment")
<1>1. es \in SUBSET DOMAIN events
    BY DEF Upto
<1> HIDE DEF es
<1>2. IsFiniteSet(paid) /\ \A e \in paid :
          /\ PrincipalOf[e] \in Int /\ InterestOf[e] \in Int
          /\ AmountOf[e] = PrincipalOf[e] + InterestOf[e]
    BY <1>1, DebtTypes
<1>3. SumOver(AmountOf, paid) = SumOver(PrincipalOf, paid) + SumOver(InterestOf, paid)
    <2> HIDE DEF paid
    <2> QED BY <1>2, SumOfSums
<1>4. SumOver(PrincipalOf, paid) \in Int /\ SumOver(InterestOf, paid) \in Int
    <2> HIDE DEF paid
    <2> QED BY <1>2, SumIsInt
<1>5. Amount(es, "disbursement") \in Int /\ Amount(es, "interest") \in Int
    <2>1. ASSUME NEW type PROVE SumOver(AmountOf, Typed(es, type)) \in Int
        BY <1>1, DebtTypes, SumIsInt
    <2> QED BY <1>1, <2>1, DebtSums
<1>6. /\ Amount(es, "repayment") = SumOver(AmountOf, paid)
      /\ Settled(es, LAMBDA e : e.principal) = SumOver(PrincipalOf, paid)
      /\ Settled(es, LAMBDA e : e.interest) = SumOver(InterestOf, paid)
    BY <1>1, DebtSums
<1>7. TotalOutstanding(liability, at) =
          (Amount(es, "disbursement") - SumOver(PrincipalOf, paid))
              + (Amount(es, "interest") - SumOver(InterestOf, paid))
    BY <1>6 DEF TotalOutstanding, PrincipalOutstanding, InterestUnpaid, es
<1>8. TotalOutstanding(liability, at) =
          Amount(es, "disbursement") + Amount(es, "interest") - Amount(es, "repayment")
    <2> HIDE DEF paid
    <2> QED BY <1>3, <1>4, <1>5, <1>6, <1>7
<1> QED BY <1>8 DEF es

(* What is owed on a debt is what was lent and the interest recognised,    *)
(* less every payment once, however many events of whatever kind and split *)
(* were recorded, in whatever order (liabilities.py:44-93).                *)
THEOREM BalancesAgree == Spec => []BalanceAgrees
BY InvHolds, Balances, PTL

-----------------------------------------------------------------------------
(* When a report can fail.                                                 *)

(* Of finitely many price rows one comes first: there is a latest one, and *)
(* among those of its date one the database meets first.                   *)
Before(p, q) == p.as_of > q.as_of \/ (p.as_of = q.as_of /\ heap[p] <= heap[q])

LEMMA OneIsFirst ==
    ASSUME IInv, NEW S \in SUBSET price_rows, S # {}
    PROVE  First(S) \in S
<1>1. ASSUME NEW p \in price_rows PROVE p.as_of \in Int /\ heap[p] \in Nat /\ p.price \in Nat
    <2>1. p \in PriceBodies /\ heap \in [PriceBodies -> Nat]
        BY ValuationAssumption DEF IInv, TypeOK
    <2> QED BY <2>1, ValuationAssumption
<1>2. IsFiniteSet(S)
    BY FS_Subset DEF IInv
<1> DEFINE Good == {T \in SUBSET S : T # {} => \E p \in T : \A q \in T : Before(p, q)}
<1>3. {} \in Good
    OBVIOUS
<1>4. ASSUME NEW T \in SUBSET S, NEW x \in S, T \in Good, x \notin T
      PROVE  T \cup {x} \in Good
    <2>1. \A p, q \in S : Before(p, q) \/ Before(q, p)
        BY <1>1 DEF Before
    <2>2. \A p, q, r \in S : Before(p, q) /\ Before(q, r) => Before(p, r)
        BY <1>1 DEF Before
    <2>3. T # {} => \E p \in T : \A q \in T : Before(p, q)
        BY <1>4
    <2>4. \E p \in T \cup {x} : \A q \in T \cup {x} : Before(p, q)
        <3> HIDE DEF Before
        <3>1. CASE T = {}
            BY <2>1, <3>1
        <3>2. CASE T # {}
            <4>1. PICK p \in T : \A q \in T : Before(p, q)
                BY <2>3, <3>2
            <4>2. CASE Before(p, x)
                BY <4>1, <4>2
            <4>3. CASE Before(x, p)
                <5>1. \A q \in T \cup {x} : Before(x, q)
                    BY <2>1, <2>2, <4>1, <4>3
                <5> QED BY <5>1
            <4> QED BY <2>1, <4>1, <4>2, <4>3
        <3> QED BY <3>1, <3>2
    <2> QED BY <2>4
<1>5. S \in Good
    <2> HIDE DEF Good
    <2> QED BY <1>2, <1>3, <1>4, FiniteSetInduction
<1>6. \E p \in S : \A q \in S : Before(p, q)
    BY <1>5
<1>7. First(S) = CHOOSE p \in S : \A q \in S : Before(p, q)
    BY DEF First, Before
<1> QED BY <1>6, <1>7

LEMMA PriceTypes ==
    ASSUME IInv, NEW asset, NEW quotes, NEW day
    PROVE  /\ PriceOf(Known(asset, quotes, day)) \in Nat \cup {None}
           /\ Known(asset, quotes, day) # {} =>
                  First(Known(asset, quotes, day)).price \in Nat
<1>1. ASSUME NEW p \in price_rows PROVE p.price \in Nat
    <2>1. p \in PriceBodies
        BY DEF IInv, TypeOK
    <2> QED BY <2>1, ValuationAssumption
<1>2. Known(asset, quotes, day) \in SUBSET price_rows
    BY DEF Known
<1>3. Known(asset, quotes, day) # {} => First(Known(asset, quotes, day)) \in price_rows
    BY <1>2, OneIsFirst
<1> QED BY <1>1, <1>3 DEF PriceOf

(* Rounding keeps numbers numbers, and so do the operations on outcomes.   *)
LEMMA RoundDivInt ==
    ASSUME NEW a \in Int, NEW b \in Nat \ {0} PROVE RoundDiv(a, b) \in Int
BY DEF RoundDiv

Optional == Int \cup {None}

(* With a rate that is not zero no conversion divides by zero.             *)
LEMMA RatesKnown ==
    ASSUME IInv, NEW day, FxUsdIrr(day) # 0, NEW from, NEW to
    PROVE  UnitRate(from, to, day) \in Nat \cup {None}
<1>1. FxUsdIrr(day) \in Nat \cup {None}
    BY PriceTypes DEF FxUsdIrr, PriceAt
<1>2. Precision \in Nat \ {0} /\ One * One \in Nat
    BY PrecisionAssumption DEF One
<1>3. CASE FxUsdIrr(day) = None
    BY <1>2, <1>3 DEF UnitRate, RateFrom, One
<1>4. CASE FxUsdIrr(day) # None
    <2>1. FxUsdIrr(day) \in Nat \ {0}
        BY <1>1, <1>4
    <2>2. Reciprocal(FxUsdIrr(day)) \in Nat
        <3> DEFINE fx == FxUsdIrr(day)
                   sq == One * One
        <3>1. RoundDiv(sq, fx) \in Nat
            <4>1. sq \in Nat /\ fx \in Nat \ {0}
                BY <1>2, <2>1
            <4> HIDE DEF fx, sq
            <4> QED BY <4>1, RoundDivNat
        <3> QED BY <2>1, <3>1 DEF Reciprocal
    <2>3. RateFrom(from, FxUsdIrr(day)) \in Nat
        BY <2>1, <2>2 DEF RateFrom
    <2> QED BY <1>2, <2>3 DEF UnitRate, One
<1> QED BY <1>3, <1>4

LEMMA TimesKnown ==
    ASSUME NEW amount \in Optional, NEW rate \in Optional
    PROVE  Times(amount, rate) \in Optional
<1>1. CASE None \in {amount, rate}
    BY <1>1 DEF Times, Optional
<1>2. CASE None \notin {amount, rate}
    <2>1. amount \in Int /\ rate \in Int /\ Raised \notin {amount, rate}
        BY <1>2, ValuationAssumption DEF Optional
    <2>2. Times(amount, rate) = RoundDiv(amount * rate, Precision)
        BY <1>2, <2>1 DEF Times
    <2>3. amount * rate \in Int
        BY <2>1
    <2>4. RoundDiv(amount * rate, Precision) \in Int
        BY <2>3, RoundDivInt, PrecisionAssumption
    <2> QED BY <2>2, <2>4 DEF Optional
<1> QED BY <1>1, <1>2

LEMMA ConvertKnown ==
    ASSUME IInv, NEW day, FxUsdIrr(day) # 0, NEW ccy, NEW target, NEW amount \in Optional
    PROVE  Convert(amount, ccy, target, day) \in Optional
<1>1. UnitRate(ccy, target, day) \in Optional
    BY RatesKnown DEF Optional
<1>2. PriceViaCurrencyAsset(ccy, target, day) \in Optional
    <2> DEFINE asset  == ResolveCurrencyAsset(ccy)
               bridge == IF target = IRR THEN USD ELSE IRR
    <2> HIDE DEF asset, bridge
    <2>1. PriceAt(asset, target, day) \in Optional /\ PriceAt(asset, bridge, day) \in Optional
        BY PriceTypes DEF PriceAt, Optional
    <2>2. UnitRate(bridge, target, day) \in Optional
        BY RatesKnown DEF Optional
    <2>3. Times(PriceAt(asset, bridge, day), UnitRate(bridge, target, day)) \in Optional
        BY <2>1, <2>2, TimesKnown
    <2> QED BY <2>1, <2>3 DEF PriceViaCurrencyAsset, OrElse, asset, bridge
<1>3. OrElse(UnitRate(ccy, target, day), PriceViaCurrencyAsset(ccy, target, day)) \in Optional
    BY <1>1, <1>2 DEF OrElse
<1>4. Times(amount, OrElse(UnitRate(ccy, target, day), PriceViaCurrencyAsset(ccy, target, day)))
          \in Optional
    BY <1>3, TimesKnown
<1> QED BY <1>4 DEF Convert

LEMMA MarketKnown ==
    ASSUME IInv, NEW day, FxUsdIrr(day) # 0, NEW asset, NEW target
    PROVE  MarketUnitValue(asset, target, day) \in Optional
<1>1. Convert(One, Symbol[asset], target, day) \in Optional
    BY ConvertKnown, PrecisionAssumption DEF One, Optional
<1>2. ASSUME Nearest(asset, day) # {}
      PROVE  ConvertPrice(First(Nearest(asset, day)), target, day) \in Optional
    <2>1. \E quotes : Nearest(asset, day) = Known(asset, quotes, day)
        BY DEF Nearest
    <2>2. First(Nearest(asset, day)).price \in Optional
        BY <1>2, <2>1, PriceTypes DEF Optional
    <2> QED BY <2>2, ConvertKnown DEF ConvertPrice
<1> QED BY <1>1, <1>2 DEF MarketUnitValue, Optional

(* A holding is a number.                                                  *)
LEMMA HoldingIsInt ==
    ASSUME IInv, NEW pair, NEW at
    PROVE  HoldingAt(pair, at) \in Int
<1> DEFINE legs == PairLegs(Rows, pair, RowsUpto(at))
           quantity == [e \in legs |-> e.quantity]
<1>1. RowsUpto(at) \in SUBSET DOMAIN Rows /\ IsFiniteSet(RowsUpto(at))
    BY FS_Subset DEF RowsUpto, Rows, IInv
<1>2. \A i \in RowsUpto(at) : Rows[i] \in Transaction
    BY ReportsAssumption DEF RowsUpto, Rows, IInv, TypeOK
<1>3. IsFiniteSet(legs) /\ \A e \in legs : e.quantity \in Int
    BY <1>1, <1>2, PairLegsFinite
<1>4. HoldingAt(pair, at) = SumOver(quantity, legs)
    <2> HIDE DEF legs
    <2>1. Total(legs) = SumOver(quantity, legs)
        BY DEF Total, SumOver, MapThenSumSet, MapThenFoldSet
    <2> QED BY <2>1 DEF HoldingAt, LegSum, legs
<1>5. \A e \in legs : quantity[e] \in Int
    BY <1>3
<1> HIDE DEF legs, quantity
<1> QED BY <1>3, <1>4, <1>5, SumIsInt

LEMMA DebtIsInt ==
    ASSUME IInv, NEW liability, NEW at
    PROVE  TotalOutstanding(liability, at) \in Int
<1> DEFINE es == Upto(liability, at)
<1>1. es \in SUBSET DOMAIN events
    BY DEF Upto
<1> HIDE DEF es
<1>2. ASSUME NEW type PROVE SumOver(AmountOf, Typed(es, type)) \in Int
    BY <1>1, DebtTypes, SumIsInt
<1>3. /\ SumOver(PrincipalOf, Typed(es, "repayment")) \in Int
      /\ SumOver(InterestOf, Typed(es, "repayment")) \in Int
    <2> DEFINE paid == Typed(es, "repayment")
    <2>1. IsFiniteSet(paid) /\ \A e \in paid : PrincipalOf[e] \in Int /\ InterestOf[e] \in Int
        BY <1>1, DebtTypes
    <2> HIDE DEF paid
    <2>2. SumOver(PrincipalOf, paid) \in Int /\ SumOver(InterestOf, paid) \in Int
        BY <2>1, SumIsInt
    <2> QED BY <2>2 DEF paid
<1>4. PrincipalOutstanding(liability, at) \in Int
    <2>1. PrincipalOutstanding(liability, at) =
              Amount(es, "disbursement") - SumOver(PrincipalOf, Typed(es, "repayment"))
        BY <1>1, DebtSums DEF PrincipalOutstanding, es
    <2>2. Amount(es, "disbursement") \in Int
        BY <1>1, <1>2, DebtSums
    <2> QED BY <1>3, <2>1, <2>2
<1>5. InterestUnpaid(liability, at) \in Int
    <2>1. InterestUnpaid(liability, at) =
              Amount(es, "interest") - SumOver(InterestOf, Typed(es, "repayment"))
        BY <1>1, DebtSums DEF InterestUnpaid, es
    <2>2. Amount(es, "interest") \in Int
        BY <1>1, <1>2, DebtSums
    <2> QED BY <1>3, <2>1, <2>2
<1> QED BY <1>4, <1>5 DEF TotalOutstanding

LEMMA Reportable == IInv => FailsOnlyAtZeroRate
<1> SUFFICES ASSUME IInv, NEW at \in Days, FxUsdIrr(Day(at)) # 0
             PROVE  ~Raises(ValuedHoldings(at)) /\ ~Raises(Debts(at))
    BY DEF FailsOnlyAtZeroRate
<1>1. ASSUME NEW pair, NEW ccy PROVE ValueAt(pair, ccy, at) # Raised
    <2> DEFINE unit == MarketUnitValue(pair[2], ccy, Day(at))
               held == HoldingAt(pair, at)
    <2>1. unit \in Int \cup {None} /\ held \in Int
        BY MarketKnown, HoldingIsInt DEF Optional
    <2>2. ValueAt(pair, ccy, at) = IF unit \in {None, Raised} THEN unit ELSE held * unit
        BY DEF ValueAt, Worth
    <2>3. Raised \notin Int /\ Raised # None
        BY ValuationAssumption
    <2> HIDE DEF unit, held
    <2> QED BY <2>1, <2>2, <2>3
<1>2. ASSUME NEW l, NEW ccy
      PROVE  Convert(TotalOutstanding(l, at), liabilities[l], ccy, Day(at)) # Raised
    <2>1. TotalOutstanding(l, at) \in Optional
        BY DebtIsInt DEF Optional
    <2>2. Convert(TotalOutstanding(l, at), liabilities[l], ccy, Day(at)) \in Optional
        BY <2>1, ConvertKnown
    <2> QED BY <2>2, ValuationAssumption DEF Optional
<1> QED BY <1>1, <1>2 DEF Raises, ValuedHoldings, Debts

(* A report on net worth ends in an error in no state of the tables,       *)
(* unless the USD rate in force at its date is zero: whatever prices,      *)
(* rates and currencies are missing, a value is left out of the report     *)
(* (valuation.py:57-172, net_worth.py).                                    *)
THEOREM ReportsFailOnlyAtZeroRate == Spec => []FailsOnlyAtZeroRate
BY InvHolds, Reportable, PTL

-----------------------------------------------------------------------------
(* The past.                                                               *)

EventsUpto(at) == {e \in DOMAIN events : events[e].occurred_at <= at}

(* A step that changes the tables only after a moment: what is dated up to *)
(* it is as it was, and the database meets prices of one date as before.   *)
OnlyLater(at) ==
    /\ liabilities' = liabilities /\ heap' = heap
    /\ {p \in price_rows : p.as_of <= Day(at)}' = {p \in price_rows : p.as_of <= Day(at)}
    /\ {row \in posted : row.occurred_at <= at}' = {row \in posted : row.occurred_at <= at}
    /\ EventsUpto(at)' = EventsUpto(at)
    /\ \A e \in EventsUpto(at) : events'[e] = events[e]

(* What is kept up to a moment is kept up to every earlier one.            *)
LEMMA EarlierKept ==
    ASSUME NEW at \in Days, OnlyLater(at), IInv, IInv', NEW t \in Int, t <= at
    PROVE  OnlyLater(t)
<1>1. at \in Int /\ Day(t) \in Int /\ Day(at) \in Int /\ Day(t) <= Day(at)
    BY TransactionsAssumption DEF Day
<1>2. \A p \in price_rows \cup price_rows' : p.as_of \in Int
    BY ValuationAssumption DEF IInv, TypeOK
<1>3. \A row \in posted \cup posted' : row.occurred_at \in Int
    BY ReportsAssumption, TransactionsAssumption DEF IInv, TypeOK, Transaction
<1>4. /\ \A e \in DOMAIN events : events[e].occurred_at \in Int
      /\ \A e \in DOMAIN events' : events'[e].occurred_at \in Int
    <2>1. /\ \A e \in DOMAIN events : events[e] \in EventRows
          /\ \A e \in DOMAIN events' : events'[e] \in EventRows
        BY DEF IInv
    <2> QED BY <2>1 DEF EventRows
<1>5. {p \in price_rows : p.as_of <= Day(t)}' = {p \in price_rows : p.as_of <= Day(t)}
    <2>1. ASSUME NEW p, p.as_of \in Int, p.as_of <= Day(t) PROVE p.as_of <= Day(at)
        BY <1>1, <2>1
    <2>2. {p \in price_rows' : p.as_of <= Day(at)} = {p \in price_rows : p.as_of <= Day(at)}
        BY DEF OnlyLater
    <2> QED BY <1>2, <2>1, <2>2
<1>6. {row \in posted : row.occurred_at <= t}' = {row \in posted : row.occurred_at <= t}
    <2>1. {row \in posted' : row.occurred_at <= at} = {row \in posted : row.occurred_at <= at}
        BY DEF OnlyLater
    <2> QED BY <1>1, <1>3, <2>1
<1>7. /\ EventsUpto(t)' = EventsUpto(t)
      /\ \A e \in EventsUpto(t) : events'[e] = events[e]
    <2>1. /\ EventsUpto(at)' = EventsUpto(at)
          /\ \A e \in EventsUpto(at) : events'[e] = events[e]
        BY DEF OnlyLater
    <2>2. EventsUpto(t) \subseteq EventsUpto(at) /\ EventsUpto(t)' \subseteq EventsUpto(at)'
        BY <1>1, <1>4 DEF EventsUpto
    <2> QED BY <2>1, <2>2 DEF EventsUpto
<1> QED BY <1>5, <1>6, <1>7 DEF OnlyLater

(* Prices and what is computed from them at a moment.                      *)
LEMMA KnownKept ==
    ASSUME NEW at, OnlyLater(at), IInv, IInv', NEW asset, NEW quotes
    PROVE  Known(asset, quotes, Day(at))' = Known(asset, quotes, Day(at))
BY DEF OnlyLater, Known

LEMMA PriceKept ==
    ASSUME NEW at, OnlyLater(at), IInv, IInv'
    PROVE  /\ \A rows : First(rows)' = First(rows)
           /\ \A asset, quotes :
                  PriceOf(Known(asset, quotes, Day(at)))' = PriceOf(Known(asset, quotes, Day(at)))
<1>1. ASSUME NEW rows PROVE First(rows)' = First(rows)
    BY DEF OnlyLater, First
<1>2. ASSUME NEW asset, NEW quotes
      PROVE  PriceOf(Known(asset, quotes, Day(at)))' = PriceOf(Known(asset, quotes, Day(at)))
    BY <1>1, KnownKept DEF PriceOf
<1> QED BY <1>1, <1>2

LEMMA RateKept ==
    ASSUME NEW at, OnlyLater(at), IInv, IInv', NEW from, NEW to
    PROVE  UnitRate(from, to, Day(at))' = UnitRate(from, to, Day(at))
<1>1. FxUsdIrr(Day(at))' = FxUsdIrr(Day(at))
    BY PriceKept DEF FxUsdIrr, PriceAt
<1> QED BY <1>1 DEF UnitRate

LEMMA ConvertKept ==
    ASSUME NEW at, OnlyLater(at), IInv, IInv', NEW amount, NEW ccy, NEW target
    PROVE  Convert(amount, ccy, target, Day(at))' = Convert(amount, ccy, target, Day(at))
<1>1. PriceViaCurrencyAsset(ccy, target, Day(at))' = PriceViaCurrencyAsset(ccy, target, Day(at))
    BY PriceKept, RateKept DEF PriceViaCurrencyAsset, PriceAt
<1> QED BY <1>1, RateKept DEF Convert

LEMMA MarketKept ==
    ASSUME NEW at, OnlyLater(at), IInv, IInv', NEW asset, NEW target
    PROVE  MarketUnitValue(asset, target, Day(at))' = MarketUnitValue(asset, target, Day(at))
<1>1. Nearest(asset, Day(at))' = Nearest(asset, Day(at))
    <2>1. Known(asset, {p.quote : p \in price_rows}, Day(at))
              = {p \in price_rows : p.asset = asset /\ p.as_of <= Day(at)}
        BY DEF Known
    <2>2. Known(asset, {p.quote : p \in price_rows}, Day(at))'
              = {p \in price_rows' : p.asset = asset /\ p.as_of <= Day(at)}
        BY DEF Known
    <2>3. Known(asset, {p.quote : p \in price_rows}, Day(at))'
              = Known(asset, {p.quote : p \in price_rows}, Day(at))
        BY <2>1, <2>2 DEF OnlyLater
    <2>4. Known(asset, {QuoteOf[asset]}, Day(at))' = Known(asset, {QuoteOf[asset]}, Day(at))
        BY KnownKept
    <2> QED BY <2>3, <2>4 DEF Nearest
<1>2. First(Nearest(asset, Day(at)))' = First(Nearest(asset, Day(at)))
    BY <1>1, PriceKept DEF First
<1>3. ConvertPrice(First(Nearest(asset, Day(at))), target, Day(at))'
          = ConvertPrice(First(Nearest(asset, Day(at))), target, Day(at))
    BY <1>2, ConvertKept DEF ConvertPrice
<1>4. Convert(One, Symbol[asset], target, Day(at))' = Convert(One, Symbol[asset], target, Day(at))
    BY ConvertKept
<1> QED BY <1>1, <1>3, <1>4 DEF MarketUnitValue

(* Holdings and debts at a moment.                                         *)
LegsOfRows(pair, rows) ==
    UNION {{[row |-> i, leg |-> l, quantity |-> i.legs[l].quantity] :
               l \in {k \in DOMAIN i.legs : <<i.legs[k].account, i.legs[k].asset>> = pair}} : i \in rows}

LEMMA HoldingKept ==
    ASSUME NEW at, OnlyLater(at), NEW pair
    PROVE  HoldingAt(pair, at)' = HoldingAt(pair, at)
<1>1. RowsUpto(at)' = RowsUpto(at)
    BY DEF OnlyLater, RowsUpto
<1>2. PairLegs(Rows, pair, RowsUpto(at)) = LegsOfRows(pair, RowsUpto(at))
    <2>1. \A i \in RowsUpto(at) : Rows[i] = i
        BY DEF Rows, RowsUpto
    <2> QED BY <2>1 DEF PairLegs, LegsOfRows
<1>3. PairLegs(Rows, pair, RowsUpto(at))' = LegsOfRows(pair, RowsUpto(at)')
    <2>1. \A i \in RowsUpto(at)' : Rows'[i] = i
        BY DEF Rows, RowsUpto
    <2> QED BY <2>1 DEF PairLegs, LegsOfRows
<1>4. PairLegs(Rows, pair, RowsUpto(at))' = PairLegs(Rows, pair, RowsUpto(at))
    BY <1>1, <1>2, <1>3
<1> QED BY <1>4 DEF HoldingAt, LegSum

LEMMA DebtKept ==
    ASSUME NEW at, OnlyLater(at), NEW liability
    PROVE  TotalOutstanding(liability, at)' = TotalOutstanding(liability, at)
<1> DEFINE es == Upto(liability, at)
<1>1. es' = es /\ \A e \in es : events'[e] = events[e]
    BY DEF OnlyLater, EventsUpto, Upto
<1>2. ASSUME NEW type PROVE Amount(es, type)' = Amount(es, type)
    <2> HIDE DEF es
    <2> DEFINE w == [e \in es |-> events[e].amount]
    <2>1. Amount(es, type) = SumOver(w, Typed(es, type))
        BY DEF Amount, SumOver, MapThenSumSet, MapThenFoldSet, Typed
    <2>2. Amount(es, type)' = SumOver(w, Typed(es, type))'
        BY DEF Amount, SumOver, MapThenSumSet, MapThenFoldSet, Typed
    <2>3. w' = w /\ Typed(es, type)' = Typed(es, type)
        BY <1>1 DEF Typed
    <2>4. SumOver(w, Typed(es, type))' = SumOver(w', Typed(es, type)')
        BY DEF SumOver, MapThenSumSet, MapThenFoldSet
    <2> QED BY <2>1, <2>2, <2>3, <2>4
<1>3. Settled(es, LAMBDA e : e.principal)' = Settled(es, LAMBDA e : e.principal)
    <2> HIDE DEF es
    <2> DEFINE w == [e \in es |-> events[e].principal]
    <2>1. Settled(es, LAMBDA e : e.principal) = SumOver(w, Typed(es, "repayment"))
        BY DEF Settled, SumOver, MapThenSumSet, MapThenFoldSet, Typed
    <2>2. Settled(es, LAMBDA e : e.principal)' = SumOver(w, Typed(es, "repayment"))'
        BY DEF Settled, SumOver, MapThenSumSet, MapThenFoldSet, Typed
    <2>3. w' = w /\ Typed(es, "repayment")' = Typed(es, "repayment")
        BY <1>1 DEF Typed
    <2>4. SumOver(w, Typed(es, "repayment"))' = SumOver(w', Typed(es, "repayment")')
        BY DEF SumOver, MapThenSumSet, MapThenFoldSet
    <2> QED BY <2>1, <2>2, <2>3, <2>4
<1>4. Settled(es, LAMBDA e : e.interest)' = Settled(es, LAMBDA e : e.interest)
    <2> HIDE DEF es
    <2> DEFINE w == [e \in es |-> events[e].interest]
    <2>1. Settled(es, LAMBDA e : e.interest) = SumOver(w, Typed(es, "repayment"))
        BY DEF Settled, SumOver, MapThenSumSet, MapThenFoldSet, Typed
    <2>2. Settled(es, LAMBDA e : e.interest)' = SumOver(w, Typed(es, "repayment"))'
        BY DEF Settled, SumOver, MapThenSumSet, MapThenFoldSet, Typed
    <2>3. w' = w /\ Typed(es, "repayment")' = Typed(es, "repayment")
        BY <1>1 DEF Typed
    <2>4. SumOver(w, Typed(es, "repayment"))' = SumOver(w', Typed(es, "repayment")')
        BY DEF SumOver, MapThenSumSet, MapThenFoldSet
    <2> QED BY <2>1, <2>2, <2>3, <2>4
<1> QED BY <1>2, <1>3, <1>4 DEF TotalOutstanding, PrincipalOutstanding, InterestUnpaid

LEMMA ValuedKept ==
    ASSUME NEW at, OnlyLater(at), IInv, IInv'
    PROVE  ValuedHoldings(at)' = ValuedHoldings(at) /\ Debts(at)' = Debts(at)
<1>1. Held(at)' = Held(at)
    BY HoldingKept DEF Held
<1>2. \A pair, ccy : ValueAt(pair, ccy, at)' = ValueAt(pair, ccy, at)
    BY HoldingKept, MarketKept DEF ValueAt
<1>3. ValuedHoldings(at)' = ValuedHoldings(at)
    BY <1>1, <1>2 DEF ValuedHoldings
<1>4. \A l, ccy :
          Convert(TotalOutstanding(l, at), liabilities[l], ccy, Day(at))'
              = Convert(TotalOutstanding(l, at), liabilities[l], ccy, Day(at))
    <2> TAKE l, ccy
    <2>1. TotalOutstanding(l, at)' = TotalOutstanding(l, at) /\ liabilities' = liabilities
        BY DebtKept DEF OnlyLater
    <2> DEFINE owed == TotalOutstanding(l, at)
               kind == liabilities[l]
    <2>2. ASSUME NEW amount, NEW k
          PROVE  Convert(amount, k, ccy, Day(at))' = Convert(amount, k, ccy, Day(at))
        BY ConvertKept
    <2> QED BY <2>1, <2>2
<1>5. Debts(at)' = Debts(at)
    BY <1>4 DEF Debts, OnlyLater
<1> QED BY <1>3, <1>5

(* Flows and windows that end by the moment.                               *)
LEMMA FlowKept ==
    ASSUME NEW at \in Days, OnlyLater(at), IInv, IInv', NEW from, NEW to \in Int, to <= at
    PROVE  FlowRows(from, to)' = FlowRows(from, to)
<1>1. \A row \in posted \cup posted' : row.occurred_at \in Int
    BY ReportsAssumption, TransactionsAssumption DEF IInv, TypeOK, Transaction
<1>2. {row \in posted' : row.occurred_at <= to} = {row \in posted : row.occurred_at <= to}
    BY EarlierKept DEF OnlyLater
<1> QED BY <1>1, <1>2 DEF FlowRows
LEMMA FlowTimesType ==
    ASSUME IInv, NEW from, NEW to, NEW t \in FlowTimes(from, to)
    PROVE  t \in Int /\ t <= to
<1>1. PICK row \in FlowRows(from, to) : t = row.occurred_at
    BY DEF FlowTimes
<1>2. row \in posted /\ t <= to
    BY <1>1 DEF FlowRows
<1> QED BY <1>1, <1>2, ReportsAssumption, TransactionsAssumption DEF IInv, TypeOK, Transaction

LEMMA FlowAtKept ==
    ASSUME NEW at \in Days, OnlyLater(at), IInv, IInv', NEW t \in Int, t <= at, NEW ccy
    PROVE  FlowAt(t, ccy)' = FlowAt(t, ccy)
<1>1. OnlyLater(t)
    BY EarlierKept
<1>2. FlowRows(t - 1, t)' = FlowRows(t - 1, t)
    BY FlowKept
<1>3. \A asset : MarketUnitValue(asset, ccy, Day(t))' = MarketUnitValue(asset, ccy, Day(t))
    BY <1>1, MarketKept
<1> DEFINE legs == UNION {{<<row, l>> : l \in DOMAIN row.legs} : row \in FlowRows(t - 1, t)}
           worth == [k \in legs |-> Worth(k[1].legs[k[2]].quantity,
                                          MarketUnitValue(k[1].legs[k[2]].asset, ccy, Day(t)))]
<1>4. worth' = worth
    BY <1>2, <1>3
<1>5. FlowAt(t, ccy) = SumUnlessRaised(worth) /\ FlowAt(t, ccy)' = SumUnlessRaised(worth')
    BY DEF FlowAt
<1> HIDE DEF worth
<1> QED BY <1>4, <1>5

LEMMA ValueKept ==
    ASSUME NEW at \in Days, OnlyLater(at), IInv, IInv', NEW t \in Int, t <= at, NEW ccy
    PROVE  AssetsValue(t, ccy)' = AssetsValue(t, ccy)
<1>1. ValuedHoldings(t)' = ValuedHoldings(t)
    BY EarlierKept, ValuedKept
<1> QED BY <1>1 DEF AssetsValue

LEMMA WindowKept ==
    ASSUME NEW at \in Days, OnlyLater(at), IInv, IInv', NEW from \in Days, from < at, NEW ccy
    PROVE  Window(from, at, ccy)' = Window(from, at, ccy)
<1>1. at \in Int /\ from \in Int
    BY TransactionsAssumption
<1>2. FlowTimes(from, at)' = FlowTimes(from, at)
    <2>1. FlowRows(from, at)' = FlowRows(from, at)
        BY <1>1, FlowKept
    <2> QED BY <2>1 DEF FlowTimes
<1>3. \A t \in FlowTimes(from, at) : t \in Int /\ t - 1 \in Int /\ t <= at /\ t - 1 <= at
    BY <1>1, FlowTimesType
<1>4. [t \in FlowTimes(from, at) |-> FlowAt(t, ccy)]'
          = [t \in FlowTimes(from, at) |-> FlowAt(t, ccy)]
    BY <1>2, <1>3, FlowAtKept
<1>5. [t \in {from, at} \cup {f - 1 : f \in FlowTimes(from, at)} |-> AssetsValue(t, ccy)]'
          = [t \in {from, at} \cup {f - 1 : f \in FlowTimes(from, at)} |-> AssetsValue(t, ccy)]
    BY <1>1, <1>2, <1>3, ValueKept
<1> QED BY <1>4, <1>5 DEF Window

(* No report on a moment changes through a step that changes the tables    *)
(* only after it: a price, a transaction, its undoing or a debt event of a *)
(* later date leaves net worth and performance up to it as they were       *)
(* (valuation.py:38, holdings.py:30, liabilities.py:52, performance.py:55). *)
THEOREM PastIsKept ==
    Spec => [][\A at \in Days : OnlyLater(at) => Report(at)' = Report(at)]_vars
<1>1. ASSUME IInv, IInv', NEW at \in Days, OnlyLater(at)
      PROVE  Report(at)' = Report(at)
    <2>1. ComputeLive(at)' = ComputeLive(at)
        BY <1>1, ValuedKept DEF ComputeLive
    <2>2. \A from \in {d \in Days : d < at}, ccy \in Currencies :
              Performance(Window(from, at, ccy))' = Performance(Window(from, at, ccy))
        <3> TAKE from \in {d \in Days : d < at}, ccy \in Currencies
        <3>1. Window(from, at, ccy)' = Window(from, at, ccy)
            BY <1>1, WindowKept
        <3> QED BY <3>1
    <2> QED BY <2>1, <2>2 DEF Report
<1>2. IInv /\ IInv' =>
          (\A at \in Days : OnlyLater(at) => Report(at)' = Report(at))
    BY <1>1
<1> QED BY <1>2, InvHolds, PTL

-----------------------------------------------------------------------------
(* The reports of the tables without what is dated after a moment.         *)

(* Prices: those of a day that is not after the moment's are all there.    *)
LEMMA PastKnown ==
    ASSUME IInv, NEW at \in Days, NEW day \in Int, day <= Day(at), NEW asset, NEW quotes
    PROVE  Past(at)!Known(asset, quotes, day) = Known(asset, quotes, day)
<1>1. \A p \in price_rows : p.as_of \in Int
    BY ValuationAssumption DEF IInv, TypeOK
<1>2. Day(at) \in Int
    BY TransactionsAssumption DEF Day
<1>3. Past(at)!Known(asset, quotes, day) =
         {p \in {p \in price_rows : p.as_of <= Day(at)} : p.asset = asset /\ p.quote \in quotes /\ p.as_of <= day}
    BY DEF Past!Known
<1> QED BY <1>1, <1>2, <1>3 DEF Known

LEMMA PastPrice ==
    ASSUME IInv, NEW at \in Days, NEW day \in Int, day <= Day(at)
    PROVE  /\ \A rows : Past(at)!First(rows) = First(rows)
           /\ \A asset, quotes :
                  Past(at)!PriceOf(Past(at)!Known(asset, quotes, day)) = PriceOf(Known(asset, quotes, day))
<1>1. ASSUME NEW rows PROVE Past(at)!First(rows) = First(rows)
    BY DEF Past!First, First
<1>2. ASSUME NEW rows PROVE Past(at)!PriceOf(rows) = PriceOf(rows)
    BY <1>1 DEF Past!PriceOf, PriceOf
<1> QED BY <1>1, <1>2, PastKnown

(* What is computed from amounts alone.                                    *)
LEMMA PastArithmetic ==
    ASSUME NEW at
    PROVE  /\ Past(at)!IRR = IRR /\ Past(at)!USD = USD /\ Past(at)!One = One
           /\ \A t : Past(at)!Day(t) = Day(t)
           /\ \A a, b : Past(at)!RoundDiv(a, b) = RoundDiv(a, b)
           /\ \A a, b : Past(at)!OrElse(a, b) = OrElse(a, b)
           /\ \A a, b : Past(at)!Worth(a, b) = Worth(a, b)
           /\ \A a : Past(at)!ResolveCurrencyAsset(a) = ResolveCurrencyAsset(a)
BY DEF Past!IRR, Past!USD, Past!One, Past!Day, Past!RoundDiv, Past!OrElse, Past!Worth,
       Past!ResolveCurrencyAsset, IRR, USD, One, Day, RoundDiv, OrElse, Worth, ResolveCurrencyAsset

LEMMA PastTimes ==
    ASSUME NEW at
    PROVE  /\ \A a, b : Past(at)!Times(a, b) = Times(a, b)
           /\ \A a, b : Past(at)!RateFrom(a, b) = RateFrom(a, b)
<1>1. \A a, b : Past(at)!Times(a, b) = Times(a, b)
    BY PastArithmetic DEF Past!Times, Times
<1>2. \A a : Past(at)!Reciprocal(a) = Reciprocal(a)
    BY PastArithmetic DEF Past!Reciprocal, Reciprocal
<1>3. \A a, b : Past(at)!RateFrom(a, b) = RateFrom(a, b)
    BY <1>2, PastArithmetic DEF Past!RateFrom, RateFrom
<1> QED BY <1>1, <1>3

LEMMA PastRate ==
    ASSUME IInv, NEW at \in Days, NEW day \in Int, day <= Day(at), NEW from, NEW to
    PROVE  Past(at)!UnitRate(from, to, day) = UnitRate(from, to, day)
<1>1. Past(at)!FxUsdIrr(day) = FxUsdIrr(day)
    BY PastPrice, PastArithmetic
    DEF Past!FxUsdIrr, Past!PriceAt, FxUsdIrr, PriceAt
<1> QED BY <1>1, PastArithmetic, PastTimes DEF Past!UnitRate, UnitRate

LEMMA PastConvert ==
    ASSUME IInv, NEW at \in Days, NEW day \in Int, day <= Day(at), NEW amount, NEW ccy, NEW target
    PROVE  Past(at)!Convert(amount, ccy, target, day) = Convert(amount, ccy, target, day)
<1>1. Past(at)!PriceViaCurrencyAsset(ccy, target, day) = PriceViaCurrencyAsset(ccy, target, day)
    BY PastPrice, PastRate, PastArithmetic, PastTimes
    DEF Past!PriceViaCurrencyAsset, Past!PriceAt, PriceViaCurrencyAsset, PriceAt
<1> QED BY <1>1, PastRate, PastArithmetic, PastTimes DEF Past!Convert, Convert

LEMMA PastMarket ==
    ASSUME IInv, NEW at \in Days, NEW day \in Int, day <= Day(at), NEW asset, NEW target
    PROVE  Past(at)!MarketUnitValue(asset, target, day) = MarketUnitValue(asset, target, day)
<1>1. Past(at)!Nearest(asset, day) = Nearest(asset, day)
    <2>1. \A quotes : Known(asset, quotes, day) =
              {p \in price_rows : p.asset = asset /\ p.quote \in quotes /\ p.as_of <= day}
        BY DEF Known
    <2>2. \A p \in price_rows : p.as_of \in Int
        BY ValuationAssumption DEF IInv, TypeOK
    <2>3. Day(at) \in Int
        BY TransactionsAssumption DEF Day
    <2> DEFINE past == {p \in price_rows : p.as_of <= Day(at)}
               quotes == {p.quote : p \in past}
    <2>4. Known(asset, quotes, day) = Known(asset, {p.quote : p \in price_rows}, day)
        <3>1. \A p \in price_rows : p.as_of <= day => p.quote \in quotes
            BY <2>2, <2>3
        <3>2. \A p \in price_rows : p.quote \in {q.quote : q \in price_rows}
            OBVIOUS
        <3> HIDE DEF quotes, past
        <3> QED BY <2>1, <3>1, <3>2
    <2>5. Past(at)!Nearest(asset, day) =
              LET preferred == Past(at)!Known(asset, {QuoteOf[asset]}, day)
              IN  IF preferred # {} THEN preferred ELSE Past(at)!Known(asset, quotes, day)
        BY DEF Past!Nearest
    <2> HIDE DEF quotes
    <2> QED BY <2>4, <2>5, PastKnown DEF Nearest
<1>2. Past(at)!First(Nearest(asset, day)) = First(Nearest(asset, day))
    BY PastPrice
<1>3. \A row : Past(at)!ConvertPrice(row, target, day) = ConvertPrice(row, target, day)
    BY PastConvert DEF Past!ConvertPrice, ConvertPrice
<1> QED BY <1>1, <1>2, <1>3, PastConvert, PastArithmetic DEF Past!MarketUnitValue, MarketUnitValue

LEMMA PastHolding ==
    ASSUME IInv, NEW at \in Days, NEW t \in Int, t <= at, NEW pair
    PROVE  Past(at)!HoldingAt(pair, t) = HoldingAt(pair, t)
<1>1. Past(at)!RowsUpto(t) = RowsUpto(t)
    <2>1. \A row \in posted : row.occurred_at \in Int
        BY ReportsAssumption, TransactionsAssumption DEF IInv, TypeOK, Transaction
    <2> QED BY <2>1, TransactionsAssumption DEF Past!RowsUpto, RowsUpto
<1>2. PairLegs(Rows, pair, RowsUpto(t)) = LegsOfRows(pair, RowsUpto(t))
    <2>1. \A i \in RowsUpto(t) : Rows[i] = i
        BY DEF Rows, RowsUpto
    <2> QED BY <2>1 DEF PairLegs, LegsOfRows
<1>3. Past(at)!PairLegs(Past(at)!Rows, pair, RowsUpto(t)) = LegsOfRows(pair, RowsUpto(t))
    <2>1. \A i \in RowsUpto(t) : Past(at)!Rows[i] = i
        BY <1>1 DEF Past!Rows, Past!RowsUpto
    <2> QED BY <2>1 DEF Past!PairLegs, LegsOfRows
<1>4. \A entries_ : Past(at)!Total(entries_) = Total(entries_)
    BY DEF Past!Total, Total, Past!MapThenSumSet, Past!MapThenFoldSet, MapThenSumSet, MapThenFoldSet
<1> QED BY <1>1, <1>2, <1>3, <1>4 DEF Past!HoldingAt, Past!LegSum, HoldingAt, LegSum

LEMMA PastDebt ==
    ASSUME IInv, NEW at \in Days, NEW t \in Int, t <= at, NEW liability
    PROVE  Past(at)!TotalOutstanding(liability, t) = TotalOutstanding(liability, t)
<1> DEFINE es   == Upto(liability, t)
           past == [e \in {e \in DOMAIN events : events[e].occurred_at <= at} |-> events[e]]
<1>1. es \subseteq DOMAIN past /\ Past(at)!Upto(liability, t) = es
    <2>1. \A e \in DOMAIN events : events[e].occurred_at \in Int
        <3>1. \A e \in DOMAIN events : events[e] \in EventRows
            BY DEF IInv
        <3> QED BY <3>1 DEF EventRows
    <2> QED BY <2>1, TransactionsAssumption DEF Past!Upto, Upto
<1>2. \A e \in es : past[e] = events[e]
    BY <1>1
<1>3. ASSUME NEW type PROVE Past(at)!Amount(es, type) = Amount(es, type)
    <2> HIDE DEF es, past
    <2> DEFINE w == [e \in es |-> events[e].amount]
               v == [e \in es |-> past[e].amount]
    <2>1. Amount(es, type) = SumOver(w, Typed(es, type))
        BY DEF Amount, SumOver, MapThenSumSet, MapThenFoldSet, Typed
    <2>2. Past(at)!Amount(es, type) = SumOver(v, {e \in es : past[e].type = type})
        BY DEF Past!Amount, Past!MapThenSumSet, Past!MapThenFoldSet, past,
               SumOver, MapThenSumSet, MapThenFoldSet
    <2>3. v = w /\ {e \in es : past[e].type = type} = Typed(es, type)
        BY <1>2 DEF Typed
    <2> QED BY <2>1, <2>2, <2>3
<1>4. Past(at)!Settled(es, LAMBDA e : e.principal) = Settled(es, LAMBDA e : e.principal)
    <2> HIDE DEF es, past
    <2> DEFINE w == [e \in es |-> events[e].principal]
               v == [e \in es |-> past[e].principal]
    <2>1. Settled(es, LAMBDA e : e.principal) = SumOver(w, Typed(es, "repayment"))
        BY DEF Settled, SumOver, MapThenSumSet, MapThenFoldSet, Typed
    <2>2. Past(at)!Settled(es, LAMBDA e : e.principal) = SumOver(v, {e \in es : past[e].type = "repayment"})
        BY DEF Past!Settled, Past!MapThenSumSet, Past!MapThenFoldSet, past,
               SumOver, MapThenSumSet, MapThenFoldSet
    <2>3. v = w /\ {e \in es : past[e].type = "repayment"} = Typed(es, "repayment")
        BY <1>2 DEF Typed
    <2> QED BY <2>1, <2>2, <2>3
<1>5. Past(at)!Settled(es, LAMBDA e : e.interest) = Settled(es, LAMBDA e : e.interest)
    <2> HIDE DEF es, past
    <2> DEFINE w == [e \in es |-> events[e].interest]
               v == [e \in es |-> past[e].interest]
    <2>1. Settled(es, LAMBDA e : e.interest) = SumOver(w, Typed(es, "repayment"))
        BY DEF Settled, SumOver, MapThenSumSet, MapThenFoldSet, Typed
    <2>2. Past(at)!Settled(es, LAMBDA e : e.interest) = SumOver(v, {e \in es : past[e].type = "repayment"})
        BY DEF Past!Settled, Past!MapThenSumSet, Past!MapThenFoldSet, past,
               SumOver, MapThenSumSet, MapThenFoldSet
    <2>3. v = w /\ {e \in es : past[e].type = "repayment"} = Typed(es, "repayment")
        BY <1>2 DEF Typed
    <2> QED BY <2>1, <2>2, <2>3
<1> QED
    BY <1>1, <1>3, <1>4, <1>5
    DEF Past!TotalOutstanding, Past!PrincipalOutstanding, Past!InterestUnpaid,
        TotalOutstanding, PrincipalOutstanding, InterestUnpaid

LEMMA PastValued ==
    ASSUME IInv, NEW at \in Days, NEW t \in Int, t <= at
    PROVE  /\ Past(at)!ValuedHoldings(t) = ValuedHoldings(t)
           /\ Past(at)!Debts(t) = Debts(t)
<1>1. Day(t) \in Int /\ Day(t) <= Day(at) /\ Past(at)!Day(t) = Day(t)
    BY TransactionsAssumption DEF Day, Past!Day
<1>2. Past(at)!Held(t) = Held(t)
    BY PastHolding DEF Past!Held, Held
<1>3. \A pair, ccy : Past(at)!ValueAt(pair, ccy, t) = ValueAt(pair, ccy, t)
    BY <1>1, PastHolding, PastMarket, PastArithmetic DEF Past!ValueAt, ValueAt
<1>4. Past(at)!Currencies = Currencies
    BY PastArithmetic DEF Past!Currencies, Currencies
<1>5. Past(at)!ValuedHoldings(t) = ValuedHoldings(t)
    BY <1>2, <1>3, <1>4 DEF Past!ValuedHoldings, ValuedHoldings
<1>6. \A l, ccy : Past(at)!Convert(Past(at)!TotalOutstanding(l, t), liabilities[l], ccy, Day(t))
                     = Convert(TotalOutstanding(l, t), liabilities[l], ccy, Day(t))
    <2> TAKE l, ccy
    <2>1. Past(at)!TotalOutstanding(l, t) = TotalOutstanding(l, t)
        BY PastDebt
    <2> DEFINE owed == TotalOutstanding(l, t)
    <2>2. Past(at)!Convert(owed, liabilities[l], ccy, Day(t)) = Convert(owed, liabilities[l], ccy, Day(t))
        <3> HIDE DEF owed
        <3> QED BY <1>1, PastConvert
    <2> QED BY <2>1, <2>2
<1>7. Past(at)!Debts(t) = Debts(t)
    BY <1>1, <1>4, <1>6 DEF Past!Debts, Debts
<1> QED BY <1>5, <1>7

(* What is made of values and windows of values.                           *)
LEMMA PastTotals ==
    ASSUME NEW at
    PROVE  /\ Past(at)!Currencies = Currencies
           /\ \A values : Past(at)!Raises(values) = Raises(values)
           /\ \A values, ccy : Past(at)!SumIn(values, ccy) = SumIn(values, ccy)
           /\ \A values : Past(at)!Unvalued(values) = Unvalued(values)
           /\ \A values, ccy : Past(at)!TotalIn(values, ccy) = TotalIn(values, ccy)
           /\ \A values, debts : Past(at)!NetWorth(values, debts) = NetWorth(values, debts)
<1>1. Past(at)!Currencies = Currencies
    BY PastArithmetic DEF Past!Currencies, Currencies
<1>2. \A values : Past(at)!Raises(values) = Raises(values)
    BY <1>1 DEF Past!Raises, Raises
<1>3. \A values, ccy : Past(at)!SumIn(values, ccy) = SumIn(values, ccy)
    BY DEF Past!SumIn, SumIn, Past!MapThenSumSet, Past!MapThenFoldSet, MapThenSumSet, MapThenFoldSet
<1>4. \A values : Past(at)!Unvalued(values) = Unvalued(values)
    BY <1>1 DEF Past!Unvalued, Unvalued
<1>5. \A values, ccy : Past(at)!TotalIn(values, ccy) = TotalIn(values, ccy)
    BY <1>2, <1>3 DEF Past!TotalIn, TotalIn
<1>6. \A values, debts : Past(at)!NetWorth(values, debts) = NetWorth(values, debts)
    BY <1>1, <1>2, <1>3, <1>4 DEF Past!NetWorth, NetWorth
<1> QED BY <1>1, <1>2, <1>3, <1>4, <1>5, <1>6

LEMMA PastReturns ==
    ASSUME NEW at, NEW w
    PROVE  Past(at)!Performance(w) = Performance(w)
<1>1. /\ \A f : Past(at)!Range(f) = Range(f)
      /\ \A c : Past(at)!StartOf(w, c) = StartOf(w, c)
      /\ \A n, d : Past(at)!Fraction(n, d) = Fraction(n, d)
      /\ \A f : Past(at)!Product(f) = Product(f)
      /\ Past(at)!Cuts(w) = Cuts(w)
      /\ Past(at)!BuildFlows(w) = BuildFlows(w)
    BY DEF Past!Range, Range, Past!StartOf, StartOf, Past!Fraction, Fraction, Past!Product, Product,
           Past!Max, Max, Past!Cuts, Cuts, Past!BuildFlows, BuildFlows, Past!FoldFunction, FoldFunction,
           Past!FoldFunctionOnSet, FoldFunctionOnSet, Past!MapThenFoldSet, MapThenFoldSet
<1>2. \A c : Past(at)!EndOf(w, c) = EndOf(w, c)
    BY DEF Past!EndOf, EndOf, Past!Min, Min
<1>3. Past(at)!Twr(w) = Twr(w)
    BY <1>1, <1>2 DEF Past!Twr, Twr
<1>4. Past(at)!Computed(w) = Computed(w)
    BY <1>1 DEF Past!Computed, Computed
<1> QED BY <1>1, <1>3, <1>4 DEF Past!Performance, Performance

LEMMA PastFlow ==
    ASSUME IInv, NEW at \in Days, NEW to \in Int, to <= at
    PROVE  /\ \A from : Past(at)!FlowRows(from, to) = FlowRows(from, to)
           /\ \A from : Past(at)!FlowTimes(from, to) = FlowTimes(from, to)
           /\ \A ccy : Past(at)!FlowAt(to, ccy) = FlowAt(to, ccy)
           /\ \A ccy : Past(at)!AssetsValue(to, ccy) = AssetsValue(to, ccy)
<1>1. ASSUME NEW from PROVE Past(at)!FlowRows(from, to) = FlowRows(from, to)
    <2>1. \A row \in posted : row.occurred_at \in Int
        BY ReportsAssumption, TransactionsAssumption DEF IInv, TypeOK, Transaction
    <2> QED BY <2>1, TransactionsAssumption
            DEF Past!FlowRows, FlowRows, Past!ExternalFlowTypes, ExternalFlowTypes
<1>2. \A from : Past(at)!FlowTimes(from, to) = FlowTimes(from, to)
    BY <1>1 DEF Past!FlowTimes, FlowTimes
<1>3. ASSUME NEW ccy PROVE Past(at)!FlowAt(to, ccy) = FlowAt(to, ccy)
    <2> DEFINE legs == UNION {{<<row, l>> : l \in DOMAIN row.legs} : row \in FlowRows(to - 1, to)}
               worth == [k \in legs |-> Worth(k[1].legs[k[2]].quantity,
                                              MarketUnitValue(k[1].legs[k[2]].asset, ccy, Day(to)))]
    <2>1. \A asset : Past(at)!MarketUnitValue(asset, ccy, Past(at)!Day(to))
                         = MarketUnitValue(asset, ccy, Day(to))
        <3>1. Day(to) \in Int /\ Day(to) <= Day(at)
            BY TransactionsAssumption DEF Day
        <3> QED BY <3>1, PastMarket, PastArithmetic
    <2> DEFINE past == [k \in legs |-> Past(at)!Worth(k[1].legs[k[2]].quantity,
                           Past(at)!MarketUnitValue(k[1].legs[k[2]].asset, ccy, Past(at)!Day(to)))]
    <2>2. Past(at)!FlowAt(to, ccy) = Past(at)!SumUnlessRaised(worth)
        <3>1. past = worth
            <4> HIDE DEF legs
            <4> QED BY <2>1, PastArithmetic
        <3>2. Past(at)!FlowRows(to - 1, to) = FlowRows(to - 1, to)
            BY <1>1
        <3>3. Past(at)!FlowAt(to, ccy) = Past(at)!SumUnlessRaised(past)
            BY <3>2 DEF Past!FlowAt
        <3> HIDE DEF past, worth
        <3> QED BY <3>1, <3>3
    <2>3. FlowAt(to, ccy) = SumUnlessRaised(worth)
        BY DEF FlowAt
    <2>4. \A f : Past(at)!SumUnlessRaised(f) = SumUnlessRaised(f)
        BY DEF Past!SumUnlessRaised, SumUnlessRaised, Past!Range, Range,
               Past!MapThenSumSet, Past!MapThenFoldSet, MapThenSumSet, MapThenFoldSet
    <2> HIDE DEF worth
    <2> QED BY <2>2, <2>3, <2>4
<1>4. \A ccy : Past(at)!AssetsValue(to, ccy) = AssetsValue(to, ccy)
    BY PastValued, PastTotals DEF Past!AssetsValue, AssetsValue
<1> QED BY <1>1, <1>2, <1>3, <1>4

LEMMA PastWindow ==
    ASSUME IInv, NEW at \in Days, NEW from \in Int, from < at, NEW ccy
    PROVE  Past(at)!Window(from, at, ccy) = Window(from, at, ccy)
<1>1. at \in Int
    BY TransactionsAssumption
<1>2. Past(at)!FlowTimes(from, at) = FlowTimes(from, at)
    BY <1>1, PastFlow
<1>3. \A t \in FlowTimes(from, at) : t \in Int /\ t - 1 \in Int /\ t <= at /\ t - 1 <= at
    BY <1>1, FlowTimesType
<1>4. \A t \in FlowTimes(from, at) : Past(at)!FlowAt(t, ccy) = FlowAt(t, ccy)
    BY <1>3, PastFlow
<1>5. \A t \in {from, at} \cup {f - 1 : f \in FlowTimes(from, at)} :
          Past(at)!AssetsValue(t, ccy) = AssetsValue(t, ccy)
    BY <1>1, <1>3, PastFlow
<1> QED BY <1>2, <1>4, <1>5 DEF Past!Window, Window

LEMMA PastReport ==
    ASSUME IInv, NEW at \in Days
    PROVE  Past(at)!Report(at) = Report(at)
<1>1. at \in Int /\ Days \subseteq Int
    BY TransactionsAssumption
<1>2. Past(at)!ComputeLive(at) = ComputeLive(at)
    BY <1>1, PastValued, PastTotals DEF Past!ComputeLive, ComputeLive
<1>3. \A from \in {d \in Days : d < at}, ccy \in Currencies :
          Past(at)!Performance(Past(at)!Window(from, at, ccy)) = Performance(Window(from, at, ccy))
    BY <1>1, PastWindow, PastReturns
<1>4. Past(at)!Currencies = Currencies
    BY PastTotals
<1> QED BY <1>2, <1>3, <1>4 DEF Past!Report, Report

(* Net worth and performance up to any moment are computed from what is    *)
(* dated up to it: without every later price, transaction and debt event   *)
(* they would be the same (valuation.py:38, holdings.py:30,                *)
(* liabilities.py:52, performance.py:55).                                  *)
THEOREM ReportsIgnoreTheFuture == Spec => []PastIsFixed
<1>1. IInv => PastIsFixed
    BY PastReport DEF PastIsFixed
<1> QED BY <1>1, InvHolds, PTL

-----------------------------------------------------------------------------
(* Values are not negative: no holding is, and no price.                   *)

(* No step leaves a holding negative at a row.                             *)
LEMMA CoverHolds == Spec => []Covered(posted)
<1>1. Init => Covered(posted)
    BY DEF Init, Covered
<1>2. Covered(posted) /\ [Next]_vars => Covered(posted)'
    <2> SUFFICES ASSUME Covered(posted), [Next]_vars PROVE Covered(posted)'
        OBVIOUS
    <2>1. CASE posted' = posted
        BY <2>1 DEF Covered, LegSum, PairLegs
    <2>2. CASE Post \/ Undo
        <3>1. PICK rows : Covered(rows) /\ posted' = rows
            BY <2>2 DEF Post, Undo
        <3> QED BY <3>1 DEF Covered, LegSum, PairLegs
    <2> QED BY <2>1, <2>2
            DEF Next, vars, EnterPrice, Borrow, RecordEvent
<1> QED BY <1>1, <1>2, PTL DEF Spec

(* Between two rows holdings do not change, so none is ever negative.      *)
LEMMA HoldingIsNat ==
    ASSUME IInv, Covered(posted), NEW pair \in Accounts \X Assets, NEW at \in Int
    PROVE  HoldingAt(pair, at) \in Nat
<1>1. HoldingAt(pair, at) \in Int
    BY HoldingIsInt
<1>2. \A row \in posted : row.occurred_at \in Int
    BY ReportsAssumption, TransactionsAssumption DEF IInv, TypeOK, Transaction
<1>3. CASE RowsUpto(at) = {}
    <2>1. PairLegs(Rows, pair, {}) = {}
        BY DEF PairLegs
    <2>2. SumOver([e \in {} |-> 0], {}) = 0
        BY SumOfNone
    <2>3. Total({}) = SumOver([e \in {} |-> e.quantity], {})
        BY DEF Total, SumOver, MapThenSumSet, MapThenFoldSet
    <2>4. Total({}) = 0
        BY <2>3, SumOfNone
    <2> QED BY <1>3, <2>1, <2>4 DEF HoldingAt, LegSum
<1>4. CASE RowsUpto(at) # {}
    <2> DEFINE times == {row.occurred_at : row \in RowsUpto(at)}
               when  == [row \in RowsUpto(at) |-> row.occurred_at]
    <2>1. IsFiniteSet(times)
        <3>1. IsFiniteSet(RowsUpto(at))
            BY FS_Subset DEF RowsUpto, IInv
        <3>2. IsFiniteSet({when[row] : row \in RowsUpto(at)})
            BY <3>1, ImageIsFinite
        <3> QED BY <3>2
    <2>2. times \in SUBSET Int /\ times # {}
        BY <1>2, <1>4 DEF RowsUpto
    <2>3. Max(times) \in times /\ \A t \in times : t <= Max(times)
        <3> HIDE DEF times
        <3> QED BY <2>1, <2>2, Extremes
    <2>4. PICK row \in RowsUpto(at) : row.occurred_at = Max(times)
        BY <2>3
    <2>5. RowsUpto(at) = {r \in posted : r.occurred_at <= row.occurred_at}
        <3>1. \A r \in RowsUpto(at) : r.occurred_at <= row.occurred_at
            BY <2>3, <2>4
        <3>2. row.occurred_at <= at /\ row \in posted
            BY DEF RowsUpto
        <3> HIDE DEF times
        <3> QED BY <1>2, <3>1, <3>2 DEF RowsUpto
    <2>6. LegSum([r \in posted |-> r], pair, {r \in posted : r.occurred_at <= row.occurred_at}) >= 0
        BY DEF Covered, RowsUpto
    <2> QED BY <1>1, <2>5, <2>6 DEF HoldingAt, Rows
<1> QED BY <1>3, <1>4

(* What has legs in no row is not held; only finitely many pairs are.      *)
LEMMA HeldIsFinite ==
    ASSUME IInv, NEW at
    PROVE  IsFiniteSet(Held(at))
<1> DEFINE pairs == [row \in posted |-> PairsOf(row.legs)]
<1>1. \A row \in posted : IsFiniteSet(pairs[row])
    <2> TAKE row \in posted
    <2>1. row.legs \in Seq(Leg)
        BY ReportsAssumption DEF IInv, TypeOK, Transaction
    <2> DEFINE n == Len(row.legs)
               pair == [l \in 1..n |-> <<row.legs[l].account, row.legs[l].asset>>]
    <2>2. DOMAIN row.legs = 1..n /\ n \in Nat
        BY <2>1
    <2>3. IsFiniteSet(1..n)
        BY <2>2, FS_Interval
    <2>4. IsFiniteSet({pair[l] : l \in 1..n})
        BY <2>3, ImageIsFinite
    <2>5. pairs[row] = {pair[l] : l \in 1..n}
        BY <2>2 DEF PairsOf
    <2> QED BY <2>4, <2>5
<1>2. IsFiniteSet({pairs[row] : row \in posted})
    BY ImageIsFinite DEF IInv
<1>3. IsFiniteSet(UNION {pairs[row] : row \in posted})
    BY <1>1, <1>2, FS_UNION
<1>4. ASSUME NEW pair, pair \notin UNION {pairs[row] : row \in posted}
      PROVE  HoldingAt(pair, at) = 0
    <2>1. PairLegs(Rows, pair, RowsUpto(at)) = {}
        <3>1. \A row \in posted : \A l \in DOMAIN row.legs :
                  <<row.legs[l].account, row.legs[l].asset>> # pair
            BY <1>4 DEF PairsOf
        <3>2. \A row \in RowsUpto(at) : Rows[row] = row /\ row \in posted
            BY DEF Rows, RowsUpto
        <3> QED BY <3>1, <3>2 DEF PairLegs
    <2>2. Total({}) = SumOver([e \in {} |-> e.quantity], {})
        BY DEF Total, SumOver, MapThenSumSet, MapThenFoldSet
    <2> QED BY <2>1, <2>2, SumOfNone DEF HoldingAt, LegSum
<1>5. Held(at) \subseteq UNION {pairs[row] : row \in posted}
    BY <1>4 DEF Held
<1> QED BY <1>3, <1>5, FS_Subset

(* An amount that is not negative, or none, or a failure.                  *)
Outcome == Nat \cup {None, Raised}

LEMMA TimesOutcome ==
    ASSUME NEW amount \in Outcome, NEW rate \in Outcome
    PROVE  Times(amount, rate) \in Outcome
<1>1. CASE amount \in Nat /\ rate \in Nat
    <2>1. None \notin {amount, rate} /\ Raised \notin {amount, rate}
        BY <1>1, NoneAssumption, ValuationAssumption
    <2>2. Times(amount, rate) = RoundDiv(amount * rate, Precision)
        BY <2>1 DEF Times
    <2>3. amount * rate \in Nat
        BY <1>1
    <2>4. RoundDiv(amount * rate, Precision) \in Nat
        BY <2>3, RoundDivNat, PrecisionAssumption
    <2> QED BY <2>2, <2>4 DEF Outcome
<1>2. CASE ~(amount \in Nat /\ rate \in Nat)
    BY <1>2 DEF Times, Outcome
<1> QED BY <1>1, <1>2

LEMMA RateOutcome ==
    ASSUME IInv, NEW day, NEW from, NEW to
    PROVE  UnitRate(from, to, day) \in Outcome
<1>1. FxUsdIrr(day) \in Nat \cup {None}
    BY PriceTypes DEF FxUsdIrr, PriceAt
<1>2. Precision \in Nat \ {0} /\ One * One \in Nat
    BY PrecisionAssumption DEF One
<1>3. ASSUME NEW fx \in Nat PROVE Reciprocal(fx) \in Outcome
    <2> DEFINE sq == One * One
    <2>1. fx # 0 => RoundDiv(sq, fx) \in Nat
        <3>1. sq \in Nat
            BY <1>2
        <3> HIDE DEF sq
        <3> QED BY <3>1, RoundDivNat
    <2> QED BY <2>1 DEF Reciprocal, Outcome
<1>4. RateFrom(from, FxUsdIrr(day)) \in Outcome
    BY <1>1, <1>3 DEF RateFrom, Outcome
<1> QED BY <1>2, <1>4 DEF UnitRate, One, Outcome

LEMMA RatesOutcome ==
    ASSUME IInv, NEW day, NEW ccy, NEW target
    PROVE  OrElse(UnitRate(ccy, target, day), PriceViaCurrencyAsset(ccy, target, day)) \in Outcome
<1>1. UnitRate(ccy, target, day) \in Outcome
    BY RateOutcome
<1>2. PriceViaCurrencyAsset(ccy, target, day) \in Outcome
    <2> DEFINE asset  == ResolveCurrencyAsset(ccy)
               bridge == IF target = IRR THEN USD ELSE IRR
    <2> HIDE DEF asset, bridge
    <2>1. PriceAt(asset, target, day) \in Outcome /\ PriceAt(asset, bridge, day) \in Outcome
        BY PriceTypes DEF PriceAt, Outcome
    <2>2. Times(PriceAt(asset, bridge, day), UnitRate(bridge, target, day)) \in Outcome
        BY <2>1, RateOutcome, TimesOutcome
    <2> QED BY <2>1, <2>2 DEF PriceViaCurrencyAsset, OrElse, asset, bridge
<1> QED BY <1>1, <1>2 DEF OrElse

LEMMA ConvertOutcome ==
    ASSUME IInv, NEW day, NEW ccy, NEW target, NEW amount \in Outcome
    PROVE  Convert(amount, ccy, target, day) \in Outcome
<1> DEFINE rate == OrElse(UnitRate(ccy, target, day), PriceViaCurrencyAsset(ccy, target, day))
<1>1. Times(amount, rate) \in Outcome
    BY RatesOutcome, TimesOutcome
<1> QED BY <1>1 DEF Convert

LEMMA MarketOutcome ==
    ASSUME IInv, NEW day, NEW asset, NEW target
    PROVE  MarketUnitValue(asset, target, day) \in Outcome
<1>1. Convert(One, Symbol[asset], target, day) \in Outcome
    BY ConvertOutcome, PrecisionAssumption DEF One, Outcome
<1>2. ASSUME Nearest(asset, day) # {}
      PROVE  ConvertPrice(First(Nearest(asset, day)), target, day) \in Outcome
    <2>1. \E quotes : Nearest(asset, day) = Known(asset, quotes, day)
        BY DEF Nearest
    <2>2. First(Nearest(asset, day)).price \in Outcome
        BY <1>2, <2>1, PriceTypes DEF Outcome
    <2> QED BY <2>2, ConvertOutcome DEF ConvertPrice
<1> QED BY <1>1, <1>2 DEF MarketUnitValue, Outcome

-----------------------------------------------------------------------------
(* Rebalancing.                                                            *)

LEMMA SumOfIs == ASSUME NEW values PROVE SumOf(values) = SumOver(values, DOMAIN values)
BY DEF SumOf, SumOver, MapThenSumSet, MapThenFoldSet

(* Of extends values with zeros, which no sum sees.                        *)
LEMMA SumExtended ==
    ASSUME NEW values, IsFiniteSet(DOMAIN values), \A k \in DOMAIN values : values[k] \in Int,
           NEW keys, IsFiniteSet(keys), DOMAIN values \subseteq keys,
           NEW all, \A k \in keys : all[k] = Of(values, k)
    PROVE  SumOver(all, keys) = SumOf(values) /\ SumOf(values) \in Int
<1>1. \A k \in DOMAIN values : all[k] = values[k] /\ all[k] \in Int
    BY DEF Of
<1>2. \A k \in keys \ DOMAIN values : all[k] = 0
    BY DEF Of
<1>3. SumOver(all, keys) = SumOver(all, DOMAIN values)
    BY <1>1, <1>2, SumWithoutZeros
<1>4. SumOver(all, DOMAIN values) = SumOver(values, DOMAIN values)
    BY <1>1, SumAgrees
<1>5. SumOver(values, DOMAIN values) \in Int
    BY SumIsInt
<1> QED BY <1>3, <1>4, <1>5, SumOfIs

LEMMA MagnitudeIs ==
    ASSUME NEW n \in Int
    PROVE  /\ Magnitude(n) \in Nat /\ (Magnitude(n) = 0 <=> n = 0)
           /\ \A a, b \in Nat : n = a - b => Magnitude(n) <= a + b
BY DEF Magnitude

(* A sum of magnitudes is zero when they all are, and is at most any sum   *)
(* of what bounds them.                                                    *)
LEMMA SumOfMagnitudes ==
    ASSUME NEW S, IsFiniteSet(S), NEW d, \A k \in S : d[k] \in Int,
           NEW w, \A k \in S : w[k] = Magnitude(d[k])
    PROVE  /\ SumOver(w, S) \in Nat
           /\ SumOver(w, S) = 0 <=> \A k \in S : d[k] = 0
           /\ \A u : (\A k \in S : u[k] \in Nat /\ w[k] <= u[k]) => SumOver(w, S) <= SumOver(u, S)
<1>1. \A k \in S : w[k] \in Nat /\ w[k] \in Int /\ (w[k] = 0 <=> d[k] = 0)
    BY MagnitudeIs
<1>2. SumOver(w, S) \in Nat
    BY <1>1, SumIsNat
<1>3. ASSUME NEW k \in S PROVE w[k] <= SumOver(w, S)
    <2>1. SumOver(w, {k}) <= SumOver(w, S)
        BY <1>1, SumOfPart
    <2>2. SumOver(w, {k}) = w[k]
        BY <1>1, SumOfOne
    <2> QED BY <2>1, <2>2
<1>4. SumOver(w, S) = 0 => \A k \in S : d[k] = 0
    BY <1>1, <1>3
<1>5. ASSUME \A k \in S : d[k] = 0 PROVE SumOver(w, S) = 0
    <2>1. \A k \in S \ {} : w[k] = 0
        BY <1>1, <1>5
    <2>2. SumOver(w, S) = SumOver(w, {})
        BY <2>1, SumWithoutZeros
    <2> QED BY <2>2, SumOfNone
<1>6. ASSUME NEW u, \A k \in S : u[k] \in Nat /\ w[k] <= u[k]
      PROVE  SumOver(w, S) <= SumOver(u, S)
    <2> DEFINE rest == [k \in S |-> u[k] - w[k]]
    <2>1. \A k \in S : rest[k] \in Nat /\ u[k] \in Int /\ w[k] \in Int /\ rest[k] = u[k] - w[k]
        BY <1>1, <1>6
    <2> HIDE DEF rest
    <2>2. SumOver(rest, S) = SumOver(u, S) - SumOver(w, S)
        BY <2>1, SumOfDifferences
    <2>3. SumOver(rest, S) \in Nat /\ SumOver(u, S) \in Int
        BY <2>1, SumIsNat, SumIsInt
    <2> QED BY <1>2, <2>2, <2>3
<1> QED BY <1>2, <1>4, <1>5, <1>6

LEMMA Rebalancing ==
    ASSUME NEW values, IsFiniteSet(DOMAIN values), \A k \in DOMAIN values : values[k] \in Nat,
           NEW goal, IsFiniteSet(DOMAIN goal.target),
           \A k \in DOMAIN goal.target : goal.target[k] \in Int
    PROVE  TargetReached(values, goal, AllocationReport(values, goal.target),
                         ProgressAllocation(values, goal))
<1> DEFINE target   == goal.target
           keys     == DOMAIN values \cup DOMAIN target
           total    == SumOf(values)
           base     == Base(values)
           v        == [k \in keys |-> Of(values, k)]
           t        == [k \in keys |-> Of(target, k)]
           report   == AllocationReport(values, target)
           progress == ProgressAllocation(values, goal)
<1>1. IsFiniteSet(keys) /\ RateUnit \in Nat \ {0}
    BY FS_Union, InflationAssumption
<1>2. \A k \in keys : v[k] \in Nat /\ t[k] \in Int /\ v[k] = Of(values, k) /\ t[k] = Of(target, k)
    BY DEF Of
<1>3. SumOver(v, keys) = total /\ total \in Nat
    <2>1. SumOver(v, keys) = total
        <3> HIDE DEF v, t
        <3> QED BY <1>1, <1>2, SumExtended
    <2>2. SumOver(v, keys) \in Nat
        <3> HIDE DEF v, t, keys
        <3> QED BY <1>1, <1>2, SumIsNat
    <2> QED BY <2>1, <2>2
<1>4. SumOver(t, keys) = SumOf(target)
    <2> HIDE DEF v, t
    <2> QED BY <1>1, <1>2, SumExtended
<1>5. report.total = total /\ report.drift = Drift(values, target, keys)
      /\ report.amount = [k \in keys |-> t[k] * total - v[k] * RateUnit]
    BY <1>2 DEF AllocationReport, AllClasses
<1>6. \A k \in DOMAIN report.drift : Of(progress.drift, k) = report.drift[k]
    <2> DEFINE some == DOMAIN target \cup DOMAIN Shares(values)
    <2>1. progress.drift = Drift(values, target, some)
        BY DEF ProgressAllocation
    <2>2. some \subseteq keys
        BY DEF Shares, NoValues
    <2>3. ASSUME NEW k \in keys \ some PROVE Drift(values, target, keys)[k] = 0
        <3>1. Of(Shares(values), k) = 0 /\ Of(target, k) = 0
            BY <2>3 DEF Of
        <3>2. base \in Nat
            BY <1>3 DEF Base
        <3>3. Drift(values, target, keys)[k] = 0 * RateUnit - 0 * base
            BY <3>1, <2>3 DEF Drift
        <3> HIDE DEF base
        <3> QED BY <1>1, <3>2, <3>3
    <2>4. ASSUME NEW k \in some PROVE Drift(values, target, keys)[k] = Drift(values, target, some)[k]
        BY <2>2, <2>4 DEF Drift
    <2>5. DOMAIN Drift(values, target, some) = some /\ DOMAIN report.drift = keys
        BY <1>5 DEF Drift
    <2> HIDE DEF some, keys, report, progress
    <2> QED BY <1>5, <2>1, <2>3, <2>4, <2>5 DEF Of
<1>7. ASSUME SharesOutAll(target), total # 0
      PROVE  LET after == Rebalanced(values, report)
             IN  /\ SumOf(after) = report.total * RateUnit
                 /\ Full(ProgressAllocation(after, goal))
                 /\ progress.percent[1] >= 0
                 /\ Full(progress) <=> \A k \in DOMAIN report.amount : report.amount[k] = 0
    <2> DEFINE after == Rebalanced(values, report)
               whole == total * RateUnit
    <2>1. SumOver(t, keys) = RateUnit /\ \A k \in keys : t[k] \in Nat
        BY <1>2, <1>4, <1>7 DEF SharesOutAll, Of
    <2>2. after = [k \in keys |-> total * t[k]]
        <3>1. \A k \in keys : Of(report.amount, k) = t[k] * total - v[k] * RateUnit
            BY <1>5 DEF Of
        <3>2. after = [k \in keys |-> v[k] * RateUnit + Of(report.amount, k)]
            <4>1. DOMAIN values \cup DOMAIN report.amount = keys
                BY <1>5
            <4> HIDE DEF report, keys
            <4>2. after = [k \in keys |-> Of(values, k) * RateUnit + Of(report.amount, k)]
                BY <4>1 DEF Rebalanced
            <4> QED BY <1>2, <4>2
        <3>3. ASSUME NEW a \in Nat, NEW b \in Int, NEW c \in Nat, NEW r \in Nat
              PROVE  a * r + (b * c - a * r) = c * b
            OBVIOUS
        <3> HIDE DEF after, v, t, keys, total, report
        <3>4. \A k \in keys : v[k] * RateUnit + (t[k] * total - v[k] * RateUnit) = total * t[k]
            BY <1>1, <1>2, <1>3, <3>3
        <3> QED BY <3>1, <3>2, <3>4
    <2>3. whole \in Nat \ {0}
        BY <1>1, <1>3, <1>7
    <2>4. SumOf(after) = whole
        <3>1. SumOf(after) = SumOver(after, keys)
            <4>1. DOMAIN after = keys
                BY <2>2
            <4> HIDE DEF after, keys
            <4> QED BY <4>1, SumOfIs
        <3>2. SumOver(after, keys) = total * SumOver(t, keys)
            <4>1. \A k \in keys : after[k] = total * t[k]
                BY <2>2
            <4> HIDE DEF after, keys, t, v, total
            <4> QED BY <1>1, <1>2, <1>3, <4>1, SumScaled
        <3> QED BY <2>1, <3>1, <3>2
    <2>5. Full(ProgressAllocation(after, goal))
        <3>1. Base(after) = whole /\ Shares(after) = after
            BY <2>3, <2>4 DEF Base, Shares
        <3> DEFINE drift == Drift(after, target, keys)
                   m == [k \in keys |-> Magnitude(drift[k])]
        <3>2. \A k \in keys : drift[k] = 0
            <4>1. \A k \in keys : Of(after, k) = total * t[k]
                BY <2>2 DEF Of
            <4>2. \A k \in keys : drift[k] = Of(after, k) * RateUnit - t[k] * whole
                <5>1. drift = [k \in keys |-> Of(after, k) * RateUnit - Of(target, k) * whole]
                    BY <3>1 DEF Drift
                <5> QED BY <1>2, <5>1
            <4>3. ASSUME NEW a \in Int, NEW b \in Int, NEW c \in Int
                  PROVE  (a * b) * c - b * (a * c) = 0
                OBVIOUS
            <4> HIDE DEF drift, after, t, v, keys, total
            <4> QED BY <1>1, <1>2, <1>3, <4>1, <4>2, <4>3
        <3>3. SumOf(m) = 0
            <4>1. \A k \in keys : drift[k] \in Int /\ m[k] = Magnitude(drift[k])
                BY <3>2
            <4>2. DOMAIN m = keys
                OBVIOUS
            <4> HIDE DEF m, drift, keys
            <4>3. SumOver(m, keys) = 0
                BY <1>1, <3>2, <4>1, SumOfMagnitudes
            <4> QED BY <4>2, <4>3, SumOfIs
        <3>4. DOMAIN target \cup DOMAIN Shares(after) = keys
            BY <2>2, <3>1
        <3>5. ProgressAllocation(after, goal).percent
                  = <<100 * (2 * RateUnit * whole - SumOf(m)), 2 * RateUnit * whole>>
            <4>1. [k \in DOMAIN drift |-> Magnitude(drift[k])] = m
                BY DEF Drift
            <4> HIDE DEF m, after, keys
            <4> QED BY <3>1, <3>4, <4>1 DEF ProgressAllocation
        <3> HIDE DEF m, after, whole
        <3> QED BY <1>1, <2>3, <3>3, <3>5 DEF Full
    <2> DEFINE drift == Drift(values, target, keys)
               m == [k \in keys |-> Magnitude(drift[k])]
               bound == [k \in keys |-> RateUnit * v[k] + total * t[k]]
    <2>6. base = total /\ Shares(values) = values
        BY <1>7 DEF Base, Shares
    <2>7. \A k \in keys : drift[k] = v[k] * RateUnit - t[k] * total
        <3>1. drift = [k \in keys |-> Of(values, k) * RateUnit - Of(target, k) * total]
            BY <2>6 DEF Drift
        <3> HIDE DEF drift
        <3> QED BY <1>2, <3>1
    <2>8. \A k \in keys : /\ drift[k] \in Int /\ m[k] = Magnitude(drift[k])
                          /\ bound[k] \in Nat /\ m[k] <= bound[k]
                          /\ report.amount[k] = 0 <=> drift[k] = 0
        <3> TAKE k \in keys
        <3>1. v[k] * RateUnit \in Nat /\ t[k] * total \in Nat
            <4>1. ASSUME NEW a \in Nat, NEW b \in Nat PROVE a * b \in Nat
                OBVIOUS
            <4> HIDE DEF v, t, total, keys
            <4> QED BY <1>1, <1>2, <1>3, <2>1, <4>1
        <3>2. bound[k] = v[k] * RateUnit + t[k] * total
            <4>1. ASSUME NEW a \in Nat, NEW b \in Nat, NEW c \in Nat, NEW r \in Nat
                  PROVE  r * a + c * b = a * r + b * c
                OBVIOUS
            <4>2. bound[k] = RateUnit * v[k] + total * t[k]
                OBVIOUS
            <4> HIDE DEF bound, v, t, total, keys
            <4> QED BY <1>1, <1>2, <1>3, <2>1, <4>1, <4>2
        <3>3. m[k] = Magnitude(drift[k])
            OBVIOUS
        <3>4. report.amount[k] = t[k] * total - v[k] * RateUnit
            BY <1>5
        <3>5. drift[k] = v[k] * RateUnit - t[k] * total
            BY <2>7
        <3> DEFINE a == v[k] * RateUnit
                   b == t[k] * total
        <3> HIDE DEF a, b, bound, m, drift, report, v, t, total, keys
        <3>6. /\ a \in Nat /\ b \in Nat /\ bound[k] = a + b /\ drift[k] = a - b
              /\ report.amount[k] = b - a
            BY <3>1, <3>2, <3>4, <3>5 DEF a, b
        <3>7. Magnitude(drift[k]) <= a + b
            BY <3>6, MagnitudeIs
        <3> QED BY <3>3, <3>6, <3>7
    <2>9. SumOver(bound, keys) = 2 * RateUnit * total
        <3> DEFINE bv == [k \in keys |-> RateUnit * v[k]]
                   bt == [k \in keys |-> total * t[k]]
        <3>1. \A k \in keys : bv[k] = RateUnit * v[k] /\ bt[k] = total * t[k]
                              /\ bv[k] \in Int /\ bt[k] \in Int /\ bound[k] = bv[k] + bt[k]
            <4>1. \A k \in keys : /\ bv[k] = RateUnit * v[k] /\ bt[k] = total * t[k]
                                  /\ bound[k] = RateUnit * v[k] + total * t[k]
                OBVIOUS
            <4>2. ASSUME NEW a \in Int, NEW b \in Int PROVE a * b \in Int
                OBVIOUS
            <4> HIDE DEF bv, bt, bound, v, t, total, keys
            <4> QED BY <1>1, <1>2, <1>3, <4>1, <4>2
        <3> HIDE DEF bv, bt, bound, v, t, total, keys
        <3>2. SumOver(bound, keys) = SumOver(bv, keys) + SumOver(bt, keys)
            BY <1>1, <3>1, SumOfSums
        <3>3. SumOver(bv, keys) = RateUnit * total
            <4>1. SumOver(bv, keys) = RateUnit * SumOver(v, keys)
                BY <1>1, <1>2, <3>1, SumScaled
            <4> QED BY <1>3, <4>1
        <3>4. SumOver(bt, keys) = total * RateUnit
            <4>1. SumOver(bt, keys) = total * SumOver(t, keys)
                BY <1>1, <1>2, <1>3, <3>1, SumScaled
            <4> QED BY <2>1, <4>1
        <3> QED BY <1>1, <1>3, <3>2, <3>3, <3>4
    <2>10. /\ SumOf(m) \in Nat /\ SumOf(m) <= 2 * RateUnit * total
           /\ SumOf(m) = 0 <=> \A k \in keys : drift[k] = 0
        <3>1. DOMAIN m = keys
            OBVIOUS
        <3> HIDE DEF m, drift, keys, bound
        <3>2. SumOf(m) = SumOver(m, keys)
            BY <3>1, SumOfIs
        <3>3. \A k \in keys : drift[k] \in Int /\ m[k] = Magnitude(drift[k])
            BY <2>8
        <3>4. \A k \in keys : bound[k] \in Nat /\ m[k] <= bound[k]
            BY <2>8
        <3>5. /\ SumOver(m, keys) \in Nat
              /\ SumOver(m, keys) = 0 <=> \A k \in keys : drift[k] = 0
              /\ \A u : (\A k \in keys : u[k] \in Nat /\ m[k] <= u[k])
                            => SumOver(m, keys) <= SumOver(u, keys)
            BY <1>1, <3>3, SumOfMagnitudes
        <3>6. SumOver(m, keys) <= SumOver(bound, keys)
            BY <3>4, <3>5
        <3> QED BY <2>9, <3>2, <3>5, <3>6
    <2>11. progress.percent = <<100 * (2 * RateUnit * total - SumOf(m)), 2 * RateUnit * total>>
        <3>1. [k \in DOMAIN drift |-> Magnitude(drift[k])] = m
            BY DEF Drift
        <3>2. DOMAIN target \cup DOMAIN Shares(values) = keys
            BY <2>6
        <3> HIDE DEF m, keys
        <3> QED BY <2>6, <3>1, <3>2 DEF ProgressAllocation
    <2>12. progress.percent[1] >= 0 /\ (Full(progress) <=> SumOf(m) = 0)
        <3> DEFINE most == 2 * RateUnit * total
                   far == SumOf(m)
        <3>1. most \in Nat /\ far \in Nat /\ far <= most
            BY <1>1, <1>3, <2>10
        <3>2. progress.percent = <<100 * (most - far), most>>
            BY <2>11
        <3> HIDE DEF most, far, progress
        <3>3. progress.percent[1] >= 0 /\ (Full(progress) <=> far = 0)
            BY <3>1, <3>2 DEF Full
        <3> QED BY <3>3 DEF far
    <2>13. DOMAIN report.amount = keys
        BY <1>5
    <2> HIDE DEF after, m, drift, keys, report, progress
    <2>14. Full(progress) <=> \A k \in DOMAIN report.amount : report.amount[k] = 0
        BY <2>8, <2>10, <2>12, <2>13
    <2>15. SumOf(after) = report.total * RateUnit
        BY <1>5, <2>4
    <2> QED BY <2>5, <2>12, <2>14, <2>15 DEF after
<1> HIDE DEF report, progress, total, keys
<1> QED BY <1>5, <1>6, <1>7 DEF TargetReached, report, progress

(* What a holding is worth, where nothing fails: not negative.             *)
LEMMA WorthOutcome ==
    ASSUME IInv, Covered(posted), NEW at \in Int, NEW pair \in Held(at), NEW ccy \in Currencies
    PROVE  ValuedHoldings(at)[pair][ccy] \in Outcome
<1>1. HoldingAt(pair, at) \in Nat
    BY HoldingIsNat DEF Held
<1>2. MarketUnitValue(pair[2], ccy, Day(at)) \in Outcome
    BY MarketOutcome
<1>3. ValueAt(pair, ccy, at) \in Outcome
    <2> DEFINE q == HoldingAt(pair, at)
               unit == MarketUnitValue(pair[2], ccy, Day(at))
    <2> HIDE DEF q, unit
    <2>1. q \in Nat /\ unit \in Outcome
        BY <1>1, <1>2 DEF q, unit
    <2>2. Worth(q, unit) \in Outcome
        BY <2>1 DEF Worth, Outcome
    <2> QED BY <2>2 DEF ValueAt, q, unit
<1> QED BY <1>3 DEF ValuedHoldings

LEMMA ClassValuesAreNat ==
    ASSUME IInv, Covered(posted), NEW at \in Days, ~Raises(ValuedHoldings(at)),
           NEW ccy \in Currencies
    PROVE  LET values == ClassValues(ValuedHoldings(at), ccy)
           IN  IsFiniteSet(DOMAIN values) /\ \A k \in DOMAIN values : values[k] \in Nat
<1> DEFINE holdings == ValuedHoldings(at)
           class_of == [pair \in Held(at) |-> ClassOf[pair[2]]]
           of_class(class) == {p \in DOMAIN holdings : ClassOf[p[2]] = class}
           values == ClassValues(holdings, ccy)
<1>1. DOMAIN holdings = Held(at) /\ IsFiniteSet(Held(at))
    BY HeldIsFinite DEF ValuedHoldings
<1>2. IsFiniteSet({class_of[pair] : pair \in Held(at)})
    BY <1>1, ImageIsFinite
<1>3. DOMAIN values = {class_of[pair] : pair \in Held(at)}
    BY <1>1 DEF ClassValues
<1>4. \A pair \in Held(at) : holdings[pair][ccy] \in Nat \cup {None}
    BY <1>1, WorthOutcome, TransactionsAssumption DEF Outcome, Raises
<1>5. ASSUME NEW class \in DOMAIN values PROVE values[class] \in Nat
    <2> DEFINE part == [pair \in of_class(class) |-> holdings[pair]]
               known == {k \in DOMAIN part : part[k][ccy] # None}
               worth == [k \in known |-> part[k][ccy]]
    <2>1. values[class] = SumIn(part, ccy)
        BY <1>5 DEF ClassValues
    <2>2. \A k \in known : worth[k] \in Nat
        BY <1>1, <1>4
    <2>3. IsFiniteSet(known)
        BY <1>1, FS_Subset
    <2>4. SumIn(part, ccy) = SumOver(worth, known)
        <3> HIDE DEF part
        <3> QED BY DEF SumIn, SumOver, MapThenSumSet, MapThenFoldSet
    <2> HIDE DEF known, worth
    <2>5. SumOver(worth, known) \in Nat
        BY <2>2, <2>3, SumIsNat
    <2> QED BY <2>1, <2>4, <2>5
<1> QED BY <1>2, <1>3, <1>5

LEMMA NamedTarget ==
    ASSUME NEW g \in GoalsOf("target_allocation")
    PROVE  TargetFromGoal(g) = Goals[g].target
<1>1. g \in DOMAIN Goals /\ g \in Int /\ g # None
    BY PlanningAssumption, NoneAssumption DEF GoalsOf
<1>2. {h \in DOMAIN Goals : /\ Goals[h].type = "target_allocation"
                            /\ IF g # None THEN h = g ELSE Goals[h].status = "active"} = {g}
    BY <1>1 DEF GoalsOf
<1>3. Max({g}) = g
    BY <1>1 DEF Max
<1> QED BY <1>2, <1>3 DEF TargetFromGoal

(* Whoever buys and sells what the allocation report of a goal says has    *)
(* reached it, with nothing added or left over, whatever is held, in       *)
(* whatever classes and at whatever prices, and whatever the target asks   *)
(* for that is not held; and the progress of the goal, which another       *)
(* service computes, says so (allocation.py:53-72, goals.py:187-196).      *)
THEOREM RebalancingReachesTargets == Spec => []RebalanceReachesTarget
<1>1. ASSUME IInv, Covered(posted) PROVE RebalanceReachesTarget
    <2> SUFFICES ASSUME ~Raises(ValuedHoldings(Now)), NEW g \in GoalsOf("target_allocation")
                 PROVE  LET values == ClassValues(ValuedHoldings(Now), CurrencyOf(Goals[g]))
                        IN  TargetReached(values, Goals[g],
                                          AllocationReport(values, TargetFromGoal(g)),
                                          ProgressAllocation(values, Goals[g]))
        BY DEF RebalanceReachesTarget
    <2> DEFINE values == ClassValues(ValuedHoldings(Now), CurrencyOf(Goals[g]))
    <2>1. Now \in Days /\ CurrencyOf(Goals[g]) \in Currencies
        BY TransactionsAssumption DEF CurrencyOf, Currencies
    <2>2. IsFiniteSet(DOMAIN values) /\ \A k \in DOMAIN values : values[k] \in Nat
        BY <1>1, <2>1, ClassValuesAreNat
    <2>3. /\ IsFiniteSet(DOMAIN Goals[g].target)
          /\ \A k \in DOMAIN Goals[g].target : Goals[g].target[k] \in Int
        BY PlanningAssumption DEF GoalsOf
    <2> HIDE DEF values
    <2>4. TargetReached(values, Goals[g], AllocationReport(values, Goals[g].target),
                        ProgressAllocation(values, Goals[g]))
        BY <2>2, <2>3, Rebalancing
    <2> QED BY <2>4, NamedTarget DEF values
<1> QED BY <1>1, InvHolds, CoverHolds, PTL

LEMMA Divided ==
    ASSUME NEW g \in Nat \ {0}, NEW a \in Int, a % g = 0
    PROVE  \E q \in Int : a = g * q /\ a \div g = q /\ (-a) \div g = -q
<1> DEFINE q == a \div g
<1>1. q \in Int
    OBVIOUS
<1>2. a = g * q
    OBVIOUS
<1>3. -a = g * (-q)
    BY <1>1, <1>2
<1>4. (-a) \div g = -q
    <2>1. ASSUME NEW p \in Int, NEW r \in Int, r = g * p PROVE r \div g = p
        BY <2>1
    <2> HIDE DEF q
    <2> QED BY <1>1, <1>3, <2>1
<1> QED BY <1>1, <1>2, <1>4

LEMMA FractionIs ==
    ASSUME NEW n \in Int, NEW d \in Int \ {0}
    PROVE  /\ Fraction(n, d)[1] \in Int /\ Fraction(n, d)[2] \in Int \ {0}
           /\ Fraction(n, d)[1] * d = n * Fraction(n, d)[2]
<1>1. CASE n = 0
    BY <1>1 DEF Fraction
<1>2. CASE n # 0
    <2> DEFINE sign == IF d < 0 THEN -1 ELSE 1
               largest == Max({n, -n})
               common == {k \in 1..largest : n % k = 0 /\ d % k = 0}
               gcd == Max(common)
    <2>1. largest \in Nat \ {0}
        <3>1. largest = IF n >= -n THEN n ELSE -n
            BY MinMaxOfTwo
        <3> QED BY <1>2, <3>1
    <2>2. gcd \in Nat \ {0} /\ n % gcd = 0 /\ d % gcd = 0
        <3>1. 1 \in common /\ common \in SUBSET Int /\ common \subseteq 1..largest
            BY <2>1
        <3>2. IsFiniteSet(common)
            <4>1. IsFiniteSet(1..largest)
                <5> HIDE DEF largest
                <5> QED BY <2>1, FS_Interval
            <4> HIDE DEF common
            <4> QED BY <3>1, <4>1, FS_Subset
        <3>3. gcd \in common
            <4> HIDE DEF common
            <4> QED BY <3>1, <3>2, Extremes
        <3> QED BY <2>1, <3>3
    <2>3. Fraction(n, d) = <<(sign * n) \div gcd, (sign * d) \div gcd>>
        BY <1>2 DEF Fraction
    <2> HIDE DEF gcd
    <2>4. PICK p \in Int : n = gcd * p /\ n \div gcd = p /\ (-n) \div gcd = -p
        BY <2>2, Divided
    <2>5. PICK q \in Int : d = gcd * q /\ d \div gcd = q /\ (-d) \div gcd = -q
        BY <2>2, Divided
    <2>6. Fraction(n, d) = <<sign * p, sign * q>>
        <3>1. CASE d < 0
            BY <2>3, <2>4, <2>5, <3>1
        <3>2. CASE ~(d < 0)
            BY <2>3, <2>4, <2>5, <3>2
        <3> QED BY <3>1, <3>2
    <2>7. q # 0
        BY <2>2, <2>5
    <2>8. ASSUME NEW s \in Int, NEW g \in Int PROVE (s * p) * (g * q) = (g * p) * (s * q)
        OBVIOUS
    <2>9. sign \in {-1, 1}
        OBVIOUS
    <2> HIDE DEF sign
    <2>10. sign * p \in Int /\ sign * q \in Int \ {0}
        BY <2>7, <2>9
    <2>11. (sign * p) * d = n * (sign * q)
        BY <2>2, <2>4, <2>5, <2>8, <2>9
    <2> QED BY <2>6, <2>10, <2>11
<1> QED BY <1>1, <1>2

-----------------------------------------------------------------------------
(* Windows.                                                                *)

(* What the window from one moment to another is made of: the flows in it, *)
(* and what is taken from the values and flows of all moments.             *)
IsWindow(w, from, to, times, value, flow) ==
    /\ w.from = from /\ w.to = to
    /\ DOMAIN w.flow = times
    /\ \A t \in {from, to} : w.value[t] = value[t] /\ value[t] \in Int
    /\ \A t \in times : /\ w.flow[t] = flow[t] /\ flow[t] \in Int
                        /\ w.value[t - 1] = value[t - 1] /\ value[t - 1] \in Int

(* Moments after one and up to another.                                    *)
AreWithin(times, from, to) ==
    /\ times \in SUBSET Int /\ IsFiniteSet(times)
    /\ \A t \in times : from < t /\ t <= to

(* The cuts at which a period starts with something, and the growth of the *)
(* periods.                                                                *)
Starting(w) == {c \in Cuts(w) : StartOf(w, c) # 0}

PeriodGrowth(w, c) == Fraction(EndOf(w, c), StartOf(w, c))

Numerators(w) == [c \in Starting(w) |-> PeriodGrowth(w, c)[1]]

Denominators(w) == [c \in Starting(w) |-> PeriodGrowth(w, c)[2]]

LEMMA TwrIs ==
    ASSUME NEW w
    PROVE  Twr(w) = <<ProductOver(Numerators(w), Starting(w)),
                      ProductOver(Denominators(w), Starting(w))>>
<1> DEFINE growth == [c \in {c \in Cuts(w) : StartOf(w, c) # 0} |->
                         Fraction(EndOf(w, c), StartOf(w, c))]
<1>1. growth = [c \in Starting(w) |-> PeriodGrowth(w, c)]
    BY DEF Starting, PeriodGrowth
<1>2. Twr(w) = <<Product([c \in DOMAIN growth |-> growth[c][1]]),
                 Product([c \in DOMAIN growth |-> growth[c][2]])>>
    BY DEF Twr
<1>3. \A f : Product(f) = ProductOver(f, DOMAIN f)
    BY DEF Product, ProductOver, FoldFunction
<1>4. [c \in DOMAIN growth |-> growth[c][1]] = Numerators(w)
    BY <1>1 DEF Numerators
<1>5. [c \in DOMAIN growth |-> growth[c][2]] = Denominators(w)
    BY <1>1 DEF Denominators
<1>6. DOMAIN Numerators(w) = Starting(w) /\ DOMAIN Denominators(w) = Starting(w)
    BY DEF Numerators, Denominators
<1> HIDE DEF growth
<1> QED BY <1>2, <1>3, <1>4, <1>5, <1>6

(* What a period starts and ends with.                                     *)
Later(times, c) == {t \in times : c < t}

Ending(value, times, to, c) ==
    value[IF Later(times, c) = {} THEN to ELSE Min(Later(times, c)) - 1]

LEMMA PeriodTypes ==
    ASSUME NEW from \in Int, NEW to \in Int, from < to, NEW times, AreWithin(times, from, to),
           NEW value, NEW flow, NEW w, IsWindow(w, from, to, times, value, flow)
    PROVE  /\ Cuts(w) = {from} \cup times /\ IsFiniteSet(Cuts(w)) /\ from \notin times
           /\ \A c \in Cuts(w) :
                  /\ StartOf(w, c) = IF c = from THEN value[from] ELSE value[c - 1] + flow[c]
                  /\ EndOf(w, c) = Ending(value, times, to, c)
                  /\ StartOf(w, c) \in Int /\ EndOf(w, c) \in Int
<1>1. Cuts(w) = {from} \cup times /\ from \notin times
    BY DEF Cuts, IsWindow, AreWithin
<1>2. IsFiniteSet(Cuts(w))
    <2>1. IsFiniteSet({from}) /\ IsFiniteSet(times)
        BY FS_Singleton DEF AreWithin
    <2>2. IsFiniteSet({from} \cup times)
        BY ONLY <2>1, FS_Union
    <2> QED BY <1>1, <2>2
<1>3. ASSUME NEW c \in Cuts(w)
      PROVE  /\ StartOf(w, c) = IF c = from THEN value[from] ELSE value[c - 1] + flow[c]
             /\ StartOf(w, c) \in Int
    <2>1. CASE c = from
        BY <2>1 DEF StartOf, IsWindow
    <2>2. CASE c # from
        <3>1. c \in times
            BY <1>1, <2>2
        <3>2. StartOf(w, c) = w.value[c - 1] + w.flow[c]
            BY <2>2 DEF StartOf, IsWindow
        <3> QED BY <2>2, <3>1, <3>2 DEF IsWindow
    <2> QED BY <2>1, <2>2
<1>4. ASSUME NEW c \in Cuts(w)
      PROVE  /\ EndOf(w, c) = Ending(value, times, to, c)
             /\ EndOf(w, c) \in Int
    <2> DEFINE later == {t \in times : c < t}
    <2>1. later # {} => Min(later) \in later
        <3>1. later \in SUBSET Int /\ IsFiniteSet(later)
            BY FS_Subset DEF AreWithin
        <3> HIDE DEF later
        <3> QED BY <3>1, Extremes
    <2>2. EndOf(w, c) = w.value[IF later = {} THEN w.to ELSE Min(later) - 1]
        BY DEF EndOf, IsWindow
    <2>3. later # {} => Min(later) \in times
        BY <2>1
    <2> HIDE DEF later
    <2>4. /\ EndOf(w, c) = value[IF later = {} THEN to ELSE Min(later) - 1]
          /\ EndOf(w, c) \in Int
        BY <2>2, <2>3 DEF IsWindow
    <2> QED BY <2>4 DEF later, Ending, Later
<1> QED BY <1>1, <1>2, <1>3, <1>4

LEMMA GrowthTypes ==
    ASSUME NEW from \in Int, NEW to \in Int, from < to, NEW times, AreWithin(times, from, to),
           NEW value, NEW flow, NEW w, IsWindow(w, from, to, times, value, flow)
    PROVE  /\ IsFiniteSet(Starting(w))
           /\ \A c \in Starting(w) :
                  /\ Numerators(w)[c] \in Int /\ Denominators(w)[c] \in Int \ {0}
                  /\ Numerators(w)[c] * StartOf(w, c) = EndOf(w, c) * Denominators(w)[c]
                  /\ StartOf(w, c) \in Int \ {0} /\ EndOf(w, c) \in Int
<1>1. IsFiniteSet(Starting(w))
    BY PeriodTypes, FS_Subset DEF Starting
<1>2. ASSUME NEW c \in Starting(w)
      PROVE  /\ Numerators(w)[c] \in Int /\ Denominators(w)[c] \in Int \ {0}
             /\ Numerators(w)[c] * StartOf(w, c) = EndOf(w, c) * Denominators(w)[c]
             /\ StartOf(w, c) \in Int \ {0} /\ EndOf(w, c) \in Int
    <2>1. StartOf(w, c) \in Int \ {0} /\ EndOf(w, c) \in Int
        BY PeriodTypes DEF Starting
    <2>2. /\ Numerators(w)[c] = Fraction(EndOf(w, c), StartOf(w, c))[1]
          /\ Denominators(w)[c] = Fraction(EndOf(w, c), StartOf(w, c))[2]
        BY DEF Numerators, Denominators, PeriodGrowth
    <2> QED BY <2>1, <2>2, FractionIs
<1> QED BY <1>1, <1>2

(* The arithmetic of two periods that are one: from s to v and from v to e *)
(* is from s to e, whatever else multiplies.                               *)
LEMMA ChainedGrowth ==
    ASSUME NEW s \in Int \ {0}, NEW v \in Int \ {0}, NEW e \in Int,
           NEW nw \in Int, NEW dw \in Int, NEW nx \in Int, NEW dx \in Int,
           NEW ny \in Int, NEW dy \in Int,
           nw * s = e * dw, nx * s = v * dx, ny * v = e * dy
    PROVE  (nw * dx) * dy = (nx * ny) * dw
<1>1. ((nw * dx) * dy) * (s * v) = ((nw * s) * dx) * (dy * v)
    OBVIOUS
<1>2. ((nw * s) * dx) * (dy * v) = ((e * dw) * dx) * (dy * v)
    OBVIOUS
<1>3. ((e * dw) * dx) * (dy * v) = ((e * dy) * dw) * (v * dx)
    OBVIOUS
<1>4. ((e * dy) * dw) * (v * dx) = ((ny * v) * dw) * (nx * s)
    OBVIOUS
<1>5. ((ny * v) * dw) * (nx * s) = ((nx * ny) * dw) * (s * v)
    OBVIOUS
<1>6. ((nw * dx) * dy) * (s * v) = ((nx * ny) * dw) * (s * v)
    BY <1>1, <1>2, <1>3, <1>4, <1>5
<1>7. ASSUME NEW a \in Int, NEW b \in Int, NEW c \in Int \ {0}, a * c = b * c PROVE a = b
    BY <1>7
<1>8. s * v \in Int \ {0} /\ (nw * dx) * dy \in Int /\ (nx * ny) * dw \in Int
    OBVIOUS
<1> QED BY <1>6, <1>7, <1>8

LEMMA ChainedProducts ==
    ASSUME NEW p \in Int, NEW q \in Int, NEW a \in Int, NEW b \in Int,
           NEW nw \in Int, NEW dw \in Int, NEW nx \in Int, NEW dx \in Int,
           NEW ny \in Int, NEW dy \in Int, (nw * dx) * dy = (nx * ny) * dw
    PROVE  ((p * nw) * q) * ((a * dx) * (dy * b)) = ((p * nx) * (ny * q)) * ((a * dw) * b)
<1>1. ((p * nw) * q) * ((a * dx) * (dy * b)) = ((nw * dx) * dy) * ((p * q) * (a * b))
    OBVIOUS
<1>2. ((p * nx) * (ny * q)) * ((a * dw) * b) = ((nx * ny) * dw) * ((p * q) * (a * b))
    OBVIOUS
<1> QED BY <1>1, <1>2

AreMeeting(whole, first, second, from, mid, to, F, G, value, flow) ==
    /\ from \in Int /\ mid \in Int /\ to \in Int /\ from < mid /\ mid < to
    /\ AreWithin(F, from, mid) /\ AreWithin(G, mid, to)
    /\ IsWindow(whole, from, to, F \cup G, value, flow)
    /\ IsWindow(first, from, mid, F, value, flow)
    /\ IsWindow(second, mid, to, G, value, flow)

(* Two windows that meet, and the window over both.  The last period of    *)
(* the first and the first of the second are one period of the whole; the  *)
(* others are periods of the whole as they are.                            *)
LEMMA PeriodsOfBoth ==
    ASSUME NEW from, NEW mid, NEW to, NEW F, NEW G, NEW value, NEW flow,
           NEW whole, NEW first, NEW second,
           AreMeeting(whole, first, second, from, mid, to, F, G, value, flow),
           NEW last, last = Max(Cuts(first))
    PROVE  /\ last \in Cuts(first) /\ last <= mid /\ mid \in Cuts(second)
           /\ Cuts(whole) = Cuts(first) \cup (Cuts(second) \ {mid})
           /\ \A c \in Cuts(first) \ {last} :
                  /\ c < last /\ StartOf(whole, c) = StartOf(first, c)
                  /\ EndOf(whole, c) = EndOf(first, c)
           /\ \A c \in Cuts(second) \ {mid} :
                  /\ mid < c /\ StartOf(whole, c) = StartOf(second, c)
                  /\ EndOf(whole, c) = EndOf(second, c)
           /\ StartOf(whole, last) = StartOf(first, last)
           /\ EndOf(first, last) = value[mid] /\ StartOf(second, mid) = value[mid]
           /\ EndOf(whole, last) = EndOf(second, mid)
<1>a. /\ from \in Int /\ mid \in Int /\ to \in Int /\ from < mid /\ mid < to
      /\ AreWithin(F, from, mid) /\ AreWithin(G, mid, to)
      /\ IsWindow(whole, from, to, F \cup G, value, flow)
      /\ IsWindow(first, from, mid, F, value, flow)
      /\ IsWindow(second, mid, to, G, value, flow)
    BY DEF AreMeeting
<1> USE <1>a
<1>1. AreWithin(F \cup G, from, to)
    <2>1. IsFiniteSet(F \cup G)
        BY FS_Union DEF AreWithin
    <2>2. \A t \in F \cup G : t \in Int /\ from < t /\ t <= to
        BY DEF AreWithin
    <2> QED BY <2>1, <2>2 DEF AreWithin
<1>2. /\ Cuts(whole) = {from} \cup (F \cup G)
      /\ Cuts(first) = {from} \cup F /\ IsFiniteSet(Cuts(first))
      /\ Cuts(second) = {mid} \cup G
    BY <1>1, PeriodTypes
<1>3. /\ \A c \in F : c \in Int /\ from < c /\ c <= mid
      /\ \A c \in G : c \in Int /\ mid < c /\ c <= to
    BY DEF AreWithin
<1>4. last \in Cuts(first) /\ \A c \in Cuts(first) : c <= last
    <2>1. Cuts(first) \in SUBSET Int /\ Cuts(first) # {}
        BY <1>2, <1>3
    <2> QED BY <1>2, <2>1, Extremes
<1>5. last \in Int /\ last <= mid /\ from <= last
    BY <1>2, <1>3, <1>4
<1>6. ASSUME NEW c \in Cuts(whole)
      PROVE  /\ StartOf(whole, c) = IF c = from THEN value[from] ELSE value[c - 1] + flow[c]
             /\ EndOf(whole, c) = Ending(value, F \cup G, to, c)
    BY <1>1, PeriodTypes
<1>7. ASSUME NEW c \in Cuts(first)
      PROVE  /\ StartOf(first, c) = IF c = from THEN value[from] ELSE value[c - 1] + flow[c]
             /\ EndOf(first, c) = Ending(value, F, mid, c)
    BY PeriodTypes
<1>8. ASSUME NEW c \in Cuts(second)
      PROVE  /\ StartOf(second, c) = IF c = mid THEN value[mid] ELSE value[c - 1] + flow[c]
             /\ EndOf(second, c) = Ending(value, G, to, c)
    BY PeriodTypes
<1>9. Cuts(whole) = Cuts(first) \cup (Cuts(second) \ {mid})
    BY <1>2, <1>3
<1>10. ASSUME NEW c \in Cuts(first) \ {last}
       PROVE  /\ c < last /\ StartOf(whole, c) = StartOf(first, c)
              /\ EndOf(whole, c) = EndOf(first, c)
    <2>1. c \in Int /\ c < last /\ last \in F
        BY <1>2, <1>3, <1>4, <1>5
    <2>2. StartOf(whole, c) = StartOf(first, c)
        BY <1>6, <1>7, <1>9
    <2> DEFINE inF == Later(F, c)
               inW == Later(F \cup G, c)
    <2> USE DEF Later
    <2>3. /\ inF = Later(F, c) /\ inW = Later(F \cup G, c)
          /\ inF \in SUBSET Int /\ IsFiniteSet(inF) /\ inF # {}
          /\ inW \in SUBSET Int /\ IsFiniteSet(inW) /\ inW # {}
        <3>1. IsFiniteSet(inF) /\ IsFiniteSet(inW)
            <4>1. inF \subseteq F /\ inW \subseteq F \cup G
                OBVIOUS
            <4> HIDE DEF inF, inW
            <4> QED BY <1>1, <4>1, FS_Subset DEF AreWithin
        <3> QED BY <1>3, <2>1, <3>1
    <2>4. inF \subseteq inW /\ \A t \in inW : t \in inF \/ (t \in G /\ last < t)
        BY <1>3, <1>5, <2>1
    <2>5. last \in inF
        BY <2>1
    <2>6. Min(inF) = Min(inW)
        <3> HIDE DEF inF, inW
        <3>1. Min(inF) \in inF /\ \A t \in inF : Min(inF) <= t
            BY <2>3, Extremes
        <3>2. Min(inW) \in inW /\ \A t \in inW : Min(inW) <= t
            BY <2>3, Extremes
        <3>3. Min(inF) \in Int /\ Min(inW) \in Int /\ Min(inF) <= last
            BY <2>3, <2>5, <3>1, <3>2
        <3>4. Min(inW) <= Min(inF)
            BY <2>4, <3>1, <3>2
        <3>5. Min(inF) <= Min(inW)
            BY <1>5, <2>4, <3>1, <3>2, <3>3
        <3> QED BY <3>3, <3>4, <3>5
    <2>7. Ending(value, F \cup G, to, c) = Ending(value, F, mid, c)
        BY <2>3, <2>6 DEF Ending
    <2>8. EndOf(whole, c) = EndOf(first, c)
        BY <1>6, <1>7, <1>9, <2>7
    <2> QED BY <2>1, <2>2, <2>8
<1>11. ASSUME NEW c \in Cuts(second) \ {mid}
       PROVE  /\ mid < c /\ StartOf(whole, c) = StartOf(second, c)
              /\ EndOf(whole, c) = EndOf(second, c)
    <2>1. c \in G /\ mid < c /\ c # from /\ c \in Cuts(whole)
        BY <1>2, <1>3
    <2>2. StartOf(whole, c) = StartOf(second, c)
        BY <1>6, <1>8, <2>1
    <2>3. Later(F \cup G, c) = Later(G, c)
        BY <1>3, <2>1 DEF Later
    <2>4. EndOf(whole, c) = EndOf(second, c)
        BY <1>6, <1>8, <2>1, <2>3 DEF Ending
    <2> QED BY <2>1, <2>2, <2>4
<1>12. StartOf(whole, last) = StartOf(first, last)
    BY <1>4, <1>6, <1>7, <1>9
<1>13. EndOf(first, last) = value[mid] /\ StartOf(second, mid) = value[mid]
    <2>1. Later(F, last) = {}
        BY <1>2, <1>3, <1>4, <1>5 DEF Later
    <2> QED BY <1>2, <1>4, <1>7, <1>8, <2>1 DEF Ending
<1>14. EndOf(whole, last) = EndOf(second, mid)
    <2>1. Later(F \cup G, last) = Later(G, mid)
        <3>1. \A t \in F : ~(last < t)
            BY <1>2, <1>3, <1>4, <1>5
        <3>2. \A t \in G : last < t /\ mid < t
            BY <1>3, <1>5
        <3> QED BY <3>1, <3>2 DEF Later
    <2> QED BY <1>2, <1>4, <1>6, <1>8, <1>9, <2>1 DEF Ending
<1> QED BY <1>2, <1>4, <1>5, <1>9, <1>10, <1>11, <1>12, <1>13, <1>14

LEMMA ReturnsCompose ==
    ASSUME NEW from, NEW mid, NEW to, NEW F, NEW G, NEW value, NEW flow,
           NEW whole, NEW first, NEW second,
           AreMeeting(whole, first, second, from, mid, to, F, G, value, flow),
           Invested(first)
    PROVE  Equal(Twr(whole), Chained(Twr(first), Twr(second)))
<1>0. PICK last : last = Max(Cuts(first))
    OBVIOUS
<1> DEFINE P == Starting(first) \ {last}
           Q == Starting(second) \ {mid}
<1>1. /\ last \in Cuts(first) /\ last <= mid /\ mid \in Cuts(second)
      /\ Cuts(whole) = Cuts(first) \cup (Cuts(second) \ {mid})
      /\ \A c \in Cuts(first) \ {last} :
             /\ c < last /\ StartOf(whole, c) = StartOf(first, c)
             /\ EndOf(whole, c) = EndOf(first, c)
      /\ \A c \in Cuts(second) \ {mid} :
             /\ mid < c /\ StartOf(whole, c) = StartOf(second, c)
             /\ EndOf(whole, c) = EndOf(second, c)
      /\ StartOf(whole, last) = StartOf(first, last)
      /\ EndOf(first, last) = value[mid] /\ StartOf(second, mid) = value[mid]
      /\ EndOf(whole, last) = EndOf(second, mid)
    BY <1>0, PeriodsOfBoth
<1>a. /\ from \in Int /\ mid \in Int /\ to \in Int /\ from < mid /\ mid < to
      /\ AreWithin(F, from, mid) /\ AreWithin(G, mid, to)
      /\ IsWindow(whole, from, to, F \cup G, value, flow)
      /\ IsWindow(first, from, mid, F, value, flow)
      /\ IsWindow(second, mid, to, G, value, flow)
    BY DEF AreMeeting
<1> USE <1>a
<1>2. StartOf(first, last) # 0 /\ value[mid] # 0
    BY <1>0 DEF Invested, IsWindow
<1>3. AreWithin(F \cup G, from, to)
    <2>1. IsFiniteSet(F \cup G)
        BY FS_Union DEF AreWithin
    <2>2. \A t \in F \cup G : t \in Int /\ from < t /\ t <= to
        BY DEF AreWithin
    <2> QED BY <2>1, <2>2 DEF AreWithin
<1>4. /\ Cuts(first) \subseteq Int /\ Cuts(second) \subseteq Int
    <2>1. Cuts(first) = {from} \cup F
        BY PeriodTypes
    <2>2. Cuts(second) = {mid} \cup G
        BY PeriodTypes
    <2> QED BY <2>1, <2>2 DEF AreWithin
<1>5. /\ Starting(first) = P \cup {last} /\ Starting(second) = Q \cup {mid}
      /\ Starting(whole) = P \cup {last} \cup Q
      /\ P \cap Q = {} /\ last \notin P /\ last \notin Q /\ mid \notin Q
    <2>1. Starting(first) = P \cup {last}
        BY <1>1, <1>2 DEF Starting
    <2>2. Starting(second) = Q \cup {mid}
        BY <1>1, <1>2 DEF Starting
    <2>3. Starting(whole) = P \cup {last} \cup Q
        <3>1. \A c \in Cuts(whole) : c \in Cuts(first) \ {last} \/ c = last \/ c \in Cuts(second) \ {mid}
            BY <1>1
        <3>2. Starting(whole) \subseteq P \cup {last} \cup Q
            BY <1>1, <3>1 DEF Starting
        <3>3. P \subseteq Starting(whole) /\ Q \subseteq Starting(whole)
            BY <1>1 DEF Starting
        <3>4. last \in Starting(whole)
            BY <1>1, <1>2 DEF Starting
        <3> QED BY <3>2, <3>3, <3>4
    <2>4. /\ \A c \in P : c \in Int /\ c < last
          /\ \A c \in Q : c \in Int /\ mid < c
        BY <1>1, <1>4 DEF Starting
    <2>5. last \in Int
        BY <1>1, <1>4
    <2> QED BY <1>1, <2>1, <2>2, <2>3, <2>4, <2>5
<1>6. /\ IsFiniteSet(Starting(whole))
      /\ \A c \in Starting(whole) :
             /\ Numerators(whole)[c] \in Int /\ Denominators(whole)[c] \in Int \ {0}
             /\ Numerators(whole)[c] * StartOf(whole, c) = EndOf(whole, c) * Denominators(whole)[c]
             /\ StartOf(whole, c) \in Int \ {0} /\ EndOf(whole, c) \in Int
    <2>1. from < to
        OBVIOUS
    <2> QED BY <1>3, <2>1, GrowthTypes
<1>7. /\ IsFiniteSet(Starting(first))
      /\ \A c \in Starting(first) :
             /\ Numerators(first)[c] \in Int /\ Denominators(first)[c] \in Int \ {0}
             /\ Numerators(first)[c] * StartOf(first, c) = EndOf(first, c) * Denominators(first)[c]
             /\ StartOf(first, c) \in Int \ {0} /\ EndOf(first, c) \in Int
    BY GrowthTypes
<1>8. /\ IsFiniteSet(Starting(second))
      /\ \A c \in Starting(second) :
             /\ Numerators(second)[c] \in Int /\ Denominators(second)[c] \in Int \ {0}
             /\ Numerators(second)[c] * StartOf(second, c) = EndOf(second, c) * Denominators(second)[c]
             /\ StartOf(second, c) \in Int \ {0} /\ EndOf(second, c) \in Int
    BY GrowthTypes
<1>9. /\ \A c \in P : /\ Numerators(whole)[c] = Numerators(first)[c]
                      /\ Denominators(whole)[c] = Denominators(first)[c]
      /\ \A c \in Q : /\ Numerators(whole)[c] = Numerators(second)[c]
                      /\ Denominators(whole)[c] = Denominators(second)[c]
    <2>1. \A c \in P : PeriodGrowth(whole, c) = PeriodGrowth(first, c)
        BY <1>1 DEF PeriodGrowth, Starting
    <2>2. \A c \in Q : PeriodGrowth(whole, c) = PeriodGrowth(second, c)
        BY <1>1 DEF PeriodGrowth, Starting
    <2> HIDE DEF P, Q
    <2> QED BY <1>5, <2>1, <2>2 DEF Numerators, Denominators
<1>10. IsFiniteSet(P) /\ IsFiniteSet(Q)
    BY <1>7, <1>8, FS_Subset
<1> HIDE DEF P, Q
<1> DEFINE nP == ProductOver(Numerators(whole), P)
           nQ == ProductOver(Numerators(whole), Q)
           dP == ProductOver(Denominators(whole), P)
           dQ == ProductOver(Denominators(whole), Q)
           nW == Numerators(whole)[last]
           dW == Denominators(whole)[last]
           nX == Numerators(first)[last]
           dX == Denominators(first)[last]
           nY == Numerators(second)[mid]
           dY == Denominators(second)[mid]
<1>11. /\ nP \in Int /\ nQ \in Int /\ dP \in Int /\ dQ \in Int
       /\ ProductOver(Numerators(whole), Starting(whole)) = (nP * nW) * nQ
       /\ ProductOver(Denominators(whole), Starting(whole)) = (dP * dW) * dQ
    <2>1. ASSUME NEW f, \A c \in P \cup {last} \cup Q : f[c] \in Int
          PROVE  /\ ProductOver(f, P) \in Int /\ ProductOver(f, Q) \in Int
                 /\ ProductOver(f, P \cup {last} \cup Q)
                        = (ProductOver(f, P) * f[last]) * ProductOver(f, Q)
        <3>1. ProductOver(f, P) \in Int /\ ProductOver(f, Q) \in Int
            BY <1>10, <2>1, ProductIsInt
        <3>2. ProductOver(f, P \cup {last}) = ProductOver(f, P) * f[last]
            BY <1>5, <1>10, <2>1, ProductWith
        <3>3. IsFiniteSet(P \cup {last}) /\ (P \cup {last}) \cap Q = {}
            BY <1>5, <1>10, FS_AddElement
        <3> DEFINE R == P \cup {last}
        <3> HIDE DEF R
        <3>4. IsFiniteSet(R) /\ R \cap Q = {} /\ \A c \in R \cup Q : f[c] \in Int
            BY <2>1, <3>3 DEF R
        <3>5. ProductOver(f, R \cup Q) = ProductOver(f, R) * ProductOver(f, Q)
            BY <1>10, <3>4, ProductOfBoth
        <3> QED BY <3>1, <3>2, <3>5 DEF R
    <2>2. /\ \A c \in P \cup {last} \cup Q : Numerators(whole)[c] \in Int
          /\ \A c \in P \cup {last} \cup Q : Denominators(whole)[c] \in Int
        BY <1>5, <1>6
    <2> QED BY <1>5, <2>1, <2>2
<1>12. /\ ProductOver(Numerators(first), Starting(first)) = nP * nX
       /\ ProductOver(Denominators(first), Starting(first)) = dP * dX
    <2>1. /\ ProductOver(Numerators(first), P) = nP
          /\ ProductOver(Denominators(first), P) = dP
        BY <1>9, <1>10, ProductAgrees
    <2>2. /\ ProductOver(Numerators(first), P \cup {last})
                 = ProductOver(Numerators(first), P) * Numerators(first)[last]
          /\ ProductOver(Denominators(first), P \cup {last})
                 = ProductOver(Denominators(first), P) * Denominators(first)[last]
        BY <1>5, <1>7, <1>10, ProductWith
    <2> QED BY <1>5, <2>1, <2>2
<1>13. /\ ProductOver(Numerators(second), Starting(second)) = nY * nQ
       /\ ProductOver(Denominators(second), Starting(second)) = dY * dQ
    <2>1. /\ ProductOver(Numerators(second), Q) = nQ
          /\ ProductOver(Denominators(second), Q) = dQ
        BY <1>9, <1>10, ProductAgrees
    <2>2. /\ ProductOver(Numerators(second), Q \cup {mid})
                 = ProductOver(Numerators(second), Q) * Numerators(second)[mid]
          /\ ProductOver(Denominators(second), Q \cup {mid})
                 = ProductOver(Denominators(second), Q) * Denominators(second)[mid]
        BY <1>5, <1>8, <1>10, ProductWith
    <2>3. nY \in Int /\ dY \in Int
        BY <1>5, <1>8
    <2>4. ASSUME NEW a \in Int, NEW b \in Int PROVE a * b = b * a
        OBVIOUS
    <2> HIDE DEF nP, nQ, dP, dQ, nY, dY
    <2>5. /\ ProductOver(Numerators(second), Starting(second)) = nQ * nY
          /\ ProductOver(Denominators(second), Starting(second)) = dQ * dY
        BY <1>5, <2>1, <2>2 DEF nY, dY
    <2> QED BY <1>11, <2>3, <2>4, <2>5
<1>14. (nW * dX) * dY = (nX * nY) * dW
    <2>1. last \in Starting(whole) /\ last \in Starting(first) /\ mid \in Starting(second)
        BY <1>5
    <2> DEFINE s == StartOf(first, last)
               v == value[mid]
               e == EndOf(second, mid)
    <2>2. /\ nW \in Int /\ dW \in Int /\ nX \in Int /\ dX \in Int /\ nY \in Int /\ dY \in Int
          /\ s \in Int \ {0} /\ v \in Int \ {0} /\ e \in Int
        BY <1>1, <1>2, <1>6, <1>7, <1>8, <2>1
    <2>3. nW * s = e * dW /\ nX * s = v * dX /\ nY * v = e * dY
        BY <1>1, <1>6, <1>7, <1>8, <2>1
    <2> HIDE DEF s, v, e, nW, dW, nX, dX, nY, dY
    <2> QED BY <2>2, <2>3, ChainedGrowth
<1>15. nW \in Int /\ dW \in Int /\ nX \in Int /\ dX \in Int /\ nY \in Int /\ dY \in Int
    BY <1>5, <1>6, <1>7, <1>8
<1>16. /\ Twr(whole) = <<(nP * nW) * nQ, (dP * dW) * dQ>>
       /\ Twr(first) = <<nP * nX, dP * dX>>
       /\ Twr(second) = <<nY * nQ, dY * dQ>>
    BY <1>11, <1>12, <1>13, TwrIs
<1> HIDE DEF nP, nQ, dP, dQ, nW, dW, nX, dX, nY, dY
<1>17. ((nP * nW) * nQ) * ((dP * dX) * (dY * dQ)) = ((nP * nX) * (nY * nQ)) * ((dP * dW) * dQ)
    BY <1>11, <1>14, <1>15, ChainedProducts
<1> QED BY <1>16, <1>17 DEF Equal, Chained

(* What has flown into the portfolio over a window, and the gain that is   *)
(* left of what its value grew by.                                         *)
LEMMA GainIs ==
    ASSUME NEW from \in Int, NEW to \in Int, from < to, NEW times, AreWithin(times, from, to),
           NEW value, NEW flow, NEW w, IsWindow(w, from, to, times, value, flow)
    PROVE  /\ SumOver(flow, times) \in Int
           /\ Gain(w) = value[to] - value[from] - SumOver(flow, times)
<1> DEFINE start == <<from, "start", -value[from]>>
           end   == <<to, "end", value[to]>>
           paid  == [t \in times |-> <<t, "flow", -flow[t]>>]
           flows == {paid[t] : t \in times}
           all   == ({start} \cup {end}) \cup flows
           third == [b \in all |-> b[3]]
           minus == [t \in times |-> -flow[t]]
<1>1. IsFiniteSet(times) /\ \A t \in times : flow[t] \in Int
    BY DEF AreWithin, IsWindow
<1>2. value[from] \in Int /\ value[to] \in Int
    BY DEF IsWindow
<1>3. BuildFlows(w) = all
    <2>1. w.from = from /\ w.to = to /\ w.value[from] = value[from] /\ w.value[to] = value[to]
        BY DEF IsWindow
    <2>2. DOMAIN w.flow = times /\ \A t \in times : w.flow[t] = flow[t]
        BY DEF IsWindow
    <2>3. {<<t, "flow", -w.flow[t]>> : t \in DOMAIN w.flow} = flows
        BY <2>2
    <2>4. BuildFlows(w) = {start, end} \cup flows
        BY <2>1, <2>3 DEF BuildFlows
    <2> HIDE DEF start, end, flows
    <2> QED BY <2>4
<1>4. Gain(w) = SumOver(third, all)
    <2>1. Gain(w) = MapThenSumSet(LAMBDA flown : flown[3], all)
        BY <1>3 DEF Gain
    <2> HIDE DEF all
    <2> QED BY <2>1 DEF SumOver, MapThenSumSet, MapThenFoldSet
<1>5. /\ third[start] = -value[from] /\ third[end] = value[to]
      /\ \A t \in times : paid[t] \in flows /\ third[paid[t]] = -flow[t]
    OBVIOUS
<1>6. start # end /\ start \notin flows /\ end \notin flows
    OBVIOUS
<1>7. \A b \in flows : \E t \in times : b = paid[t]
    OBVIOUS
<1>8. \A s, t \in times : paid[s] = paid[t] => s = t
    OBVIOUS
<1>9. IsFiniteSet(flows)
    <2> HIDE DEF paid
    <2> QED BY <1>1, ImageIsFinite
<1> HIDE DEF start, end, paid, flows, third
<1>10. \A b \in all : third[b] \in Int
    <2>1. \A b \in flows : third[b] \in Int
        BY <1>1, <1>5, <1>7
    <2> QED BY <1>2, <1>5, <2>1
<1>11. IsFiniteSet({start} \cup {end}) /\ ({start} \cup {end}) \cap flows = {}
    <2>1. IsFiniteSet({start}) /\ IsFiniteSet({end})
        BY FS_Singleton
    <2> QED BY <1>6, <2>1, FS_Union
<1>12. SumOver(third, all) = SumOver(third, {start} \cup {end}) + SumOver(third, flows)
    <2> DEFINE ends == {start} \cup {end}
    <2> HIDE DEF ends
    <2>1. /\ IsFiniteSet(ends) /\ ends \cap flows = {}
          /\ \A b \in ends \cup flows : third[b] \in Int
        BY <1>10, <1>11 DEF ends
    <2>2. SumOver(third, ends \cup flows) = SumOver(third, ends) + SumOver(third, flows)
        BY <1>9, <2>1, SumOfBoth
    <2> QED BY <2>2 DEF ends
<1>13. SumOver(third, {start} \cup {end}) = value[to] - value[from]
    <2>1. SumOver(third, {start}) = third[start]
        BY <1>2, <1>5, SumOfOne
    <2>2. IsFiniteSet({start}) /\ end \notin {start}
        BY <1>6, FS_Singleton
    <2>3. SumOver(third, {start} \cup {end}) = SumOver(third, {start}) + third[end]
        BY <1>10, <2>2, SumWith
    <2>4. SumOver(third, {start} \cup {end}) = -value[from] + value[to]
        BY <1>5, <2>1, <2>3
    <2>5. ASSUME NEW a \in Int, NEW b \in Int PROVE -a + b = b - a
        OBVIOUS
    <2> QED BY <1>2, <2>4, <2>5
<1>14. SumOver(third, flows) = SumOver(minus, times)
    <2>1. IsNaming(paid, times, flows)
        BY <1>5, <1>7, <1>8 DEF IsNaming
    <2>2. \A b \in flows : third[b] \in Int
        BY <1>10
    <2>3. SumOver(third, flows) = SumOver(Renamed(third, paid, times), times)
        BY <1>1, <2>1, <2>2, SumRenamed
    <2>4. Renamed(third, paid, times) = minus
        BY <1>5 DEF Renamed
    <2> QED BY <2>3, <2>4
<1>15. SumOver(flow, times) \in Int
    BY <1>1, SumIsInt
<1>16. SumOver(minus, times) = -1 * SumOver(flow, times)
    <2>1. PICK c \in Int : c = -1
        OBVIOUS
    <2>2. \A t \in times : minus[t] = c * flow[t]
        BY <1>1, <2>1
    <2> HIDE DEF minus
    <2>3. SumOver(minus, times) = c * SumOver(flow, times)
        BY <1>1, <2>2, SumScaled
    <2> QED BY <1>15, <2>1, <2>3
<1>17. SumOver(minus, times) = -SumOver(flow, times)
    BY <1>15, <1>16
<1> HIDE DEF all, minus
<1> QED BY <1>2, <1>4, <1>12, <1>13, <1>14, <1>15, <1>17

(* The gains of two windows that meet add up.                              *)
LEMMA GainsCompose ==
    ASSUME NEW from, NEW mid, NEW to, NEW F, NEW G, NEW value, NEW flow,
           NEW whole, NEW first, NEW second,
           AreMeeting(whole, first, second, from, mid, to, F, G, value, flow)
    PROVE  Gain(whole) = Gain(first) + Gain(second)
<1>1. /\ from \in Int /\ mid \in Int /\ to \in Int /\ from < mid /\ mid < to
      /\ AreWithin(F, from, mid) /\ AreWithin(G, mid, to)
      /\ IsWindow(whole, from, to, F \cup G, value, flow)
      /\ IsWindow(first, from, mid, F, value, flow)
      /\ IsWindow(second, mid, to, G, value, flow)
    BY DEF AreMeeting
<1>2. /\ IsFiniteSet(F) /\ IsFiniteSet(G) /\ F \cap G = {} /\ IsFiniteSet(F \cup G)
      /\ \A t \in F \cup G : flow[t] \in Int
    <2>1. IsFiniteSet(F) /\ IsFiniteSet(G)
        BY <1>1 DEF AreWithin
    <2>2. \A t \in F \cup G : flow[t] \in Int
        BY <1>1 DEF IsWindow
    <2>3. F \cap G = {}
        BY <1>1 DEF AreWithin
    <2> QED BY <2>1, <2>2, <2>3, FS_Union
<1>3. AreWithin(F \cup G, from, to) /\ from < to
    <2>1. \A t \in F \cup G : t \in Int /\ from < t /\ t <= to
        BY <1>1 DEF AreWithin
    <2> QED BY <1>1, <1>2, <2>1 DEF AreWithin
<1>4. /\ SumOver(flow, F \cup G) \in Int
      /\ Gain(whole) = value[to] - value[from] - SumOver(flow, F \cup G)
    BY <1>1, <1>3, GainIs
<1>5. SumOver(flow, F) \in Int /\ Gain(first) = value[mid] - value[from] - SumOver(flow, F)
    BY <1>1, GainIs
<1>6. SumOver(flow, G) \in Int /\ Gain(second) = value[to] - value[mid] - SumOver(flow, G)
    BY <1>1, GainIs
<1>7. SumOver(flow, F \cup G) = SumOver(flow, F) + SumOver(flow, G)
    BY <1>2, SumOfBoth
<1>8. value[from] \in Int /\ value[mid] \in Int /\ value[to] \in Int
    BY <1>1 DEF IsWindow
<1> QED BY <1>4, <1>5, <1>6, <1>7, <1>8

(* Where nothing fails, what a window reads are integers.                  *)
LEMMA ValueIsInt ==
    ASSUME IInv, Covered(posted), NEW t \in Int, NEW ccy \in Currencies,
           AssetsValue(t, ccy) # Raised
    PROVE  AssetsValue(t, ccy) \in Int
<1> DEFINE values == ValuedHoldings(t)
           known == {k \in DOMAIN values : values[k][ccy] # None}
           worth == [k \in known |-> values[k][ccy]]
<1>1. DOMAIN values = Held(t) /\ IsFiniteSet(Held(t))
    BY HeldIsFinite DEF ValuedHoldings
<1>2. ~Raises(values) /\ AssetsValue(t, ccy) = SumIn(values, ccy)
    BY DEF AssetsValue, TotalIn
<1>3. \A k \in known : worth[k] \in Int
    BY <1>1, <1>2, WorthOutcome DEF Outcome, Raises
<1>4. IsFiniteSet(known)
    BY <1>1, FS_Subset
<1>5. SumIn(values, ccy) = SumOver(worth, known)
    <2> HIDE DEF values
    <2> QED BY DEF SumIn, SumOver, MapThenSumSet, MapThenFoldSet
<1> HIDE DEF values, known, worth
<1> QED BY <1>2, <1>3, <1>4, <1>5, SumIsInt

LEMMA FlowIsInt ==
    ASSUME IInv, NEW t \in Int, NEW ccy \in Currencies, FlowAt(t, ccy) # Raised
    PROVE  FlowAt(t, ccy) \in Int
<1> DEFINE rows  == FlowRows(t - 1, t)
           pairs == [row \in rows |-> {<<row, l>> : l \in DOMAIN row.legs}]
           legs  == UNION {pairs[row] : row \in rows}
           unit(k) == MarketUnitValue(k[1].legs[k[2]].asset, ccy, Day(t))
           worth == [k \in legs |-> Worth(k[1].legs[k[2]].quantity, unit(k))]
           known == {k \in legs : worth[k] # None}
<1>1. rows \in SUBSET posted /\ IsFiniteSet(rows)
    BY FS_Subset DEF FlowRows, IInv
<1>2. \A row \in rows : row.legs \in Seq(Leg)
    BY <1>1, ReportsAssumption DEF IInv, TypeOK, Transaction
<1>3. ASSUME NEW row \in rows PROVE IsFiniteSet(pairs[row])
    <2> DEFINE n == Len(row.legs)
               pair == [l \in 1..n |-> <<row, l>>]
    <2>1. DOMAIN row.legs = 1..n /\ n \in Nat
        BY <1>2
    <2>2. IsFiniteSet({pair[l] : l \in 1..n})
        <3>1. IsFiniteSet(1..n)
            BY <2>1, FS_Interval
        <3> HIDE DEF pair
        <3> QED BY <3>1, ImageIsFinite
    <2>3. pairs[row] = {pair[l] : l \in 1..n}
        BY <2>1
    <2> QED BY <2>2, <2>3
<1>4. IsFiniteSet(legs)
    <2> HIDE DEF pairs
    <2>1. IsFiniteSet({pairs[row] : row \in rows})
        BY <1>1, ImageIsFinite
    <2> QED BY <1>3, <2>1, FS_UNION
<1>5. FlowAt(t, ccy) = SumUnlessRaised(worth)
    <2>1. legs = UNION {{<<row, l>> : l \in DOMAIN row.legs} : row \in rows}
        OBVIOUS
    <2> QED BY <2>1 DEF FlowAt
<1>6. \A k \in legs : k[1].legs[k[2]].quantity \in Int
    <2> TAKE k \in legs
    <2>1. PICK row \in rows : k \in pairs[row]
        OBVIOUS
    <2>2. PICK l \in DOMAIN row.legs : k = <<row, l>>
        BY <2>1
    <2>3. row.legs[l] \in Leg
        BY <1>2
    <2>4. row.legs[l].quantity \in Int
        BY <2>3, TransactionsAssumption DEF Leg
    <2> QED BY <2>2, <2>4
<1> HIDE DEF legs, pairs
<1>7. \A k \in legs : unit(k) \in Outcome
    BY MarketOutcome
<1>8. ASSUME NEW q \in Int, NEW u \in Outcome PROVE Worth(q, u) \in Int \cup {None, Raised}
    BY DEF Worth, Outcome
<1>9. \A k \in legs : worth[k] \in Int \cup {None, Raised}
    BY <1>6, <1>7, <1>8
<1> HIDE DEF worth
<1>10. DOMAIN worth = legs
    BY DEF worth
<1>11. /\ Raised \notin Range(worth)
       /\ FlowAt(t, ccy) = MapThenSumSet(LAMBDA k : worth[k], {k \in DOMAIN worth : worth[k] # None})
    BY <1>5 DEF SumUnlessRaised
<1>12. FlowAt(t, ccy) = SumOver(worth, known)
    BY <1>10, <1>11 DEF SumOver
<1>13. IsFiniteSet(known) /\ \A k \in known : worth[k] \in Int
    BY <1>4, <1>9, <1>10, <1>11, FS_Subset DEF Range
<1> HIDE DEF known
<1> QED BY <1>12, <1>13, SumIsInt

LEMMA FlowTimesWithin ==
    ASSUME IInv, NEW from \in Int, NEW to \in Int
    PROVE  AreWithin(FlowTimes(from, to), from, to)
<1> DEFINE when == [row \in FlowRows(from, to) |-> row.occurred_at]
<1>1. IsFiniteSet(FlowRows(from, to))
    BY FS_Subset DEF FlowRows, IInv
<1>2. IsFiniteSet({when[row] : row \in FlowRows(from, to)})
    BY <1>1, ImageIsFinite
<1>3. IsFiniteSet(FlowTimes(from, to))
    BY <1>2 DEF FlowTimes
<1>4. \A t \in FlowTimes(from, to) : t \in Int /\ from < t /\ t <= to
    <2> TAKE t \in FlowTimes(from, to)
    <2>1. t \in Int
        BY FlowTimesType
    <2>2. from < t /\ t <= to
        BY DEF FlowTimes, FlowRows
    <2> QED BY <2>1, <2>2
<1> QED BY <1>3, <1>4 DEF AreWithin

(* No flow is in two windows that meet, or in neither.                     *)
LEMMA FlowTimesOfBoth ==
    ASSUME IInv, NEW from \in Int, NEW mid \in Int, NEW to \in Int, from < mid, mid < to
    PROVE  FlowTimes(from, to) = FlowTimes(from, mid) \cup FlowTimes(mid, to)
<1>1. \A row \in posted : row.occurred_at \in Int
    BY ReportsAssumption, TransactionsAssumption DEF IInv, TypeOK, Transaction
<1>2. FlowRows(from, to) = FlowRows(from, mid) \cup FlowRows(mid, to)
    BY <1>1 DEF FlowRows
<1> QED BY <1>2 DEF FlowTimes

LEMMA WindowIs ==
    ASSUME IInv, Covered(posted), NEW from \in Int, NEW to \in Int, NEW ccy \in Currencies,
           Computed(Window(from, to, ccy))
    PROVE  IsWindow(Window(from, to, ccy), from, to, FlowTimes(from, to),
                    [t \in Int |-> AssetsValue(t, ccy)], [t \in Int |-> FlowAt(t, ccy)])
<1> DEFINE w == Window(from, to, ccy)
           times == FlowTimes(from, to)
           value == [t \in Int |-> AssetsValue(t, ccy)]
           flow  == [t \in Int |-> FlowAt(t, ccy)]
<1>1. \A t \in times : t \in Int /\ t - 1 \in Int
    BY FlowTimesWithin DEF AreWithin
<1>2. /\ w.from = from /\ w.to = to /\ DOMAIN w.flow = times
      /\ \A t \in times : w.flow[t] = FlowAt(t, ccy) /\ w.value[t - 1] = AssetsValue(t - 1, ccy)
      /\ \A t \in {from, to} : w.value[t] = AssetsValue(t, ccy)
      /\ DOMAIN w.value = {from, to} \cup {t - 1 : t \in times}
    BY DEF Window
<1>3. Raised \notin Range(w.flow) /\ Raised \notin Range(w.value)
    BY DEF Computed
<1> HIDE DEF w
<1>4. /\ \A t \in times : w.flow[t] # Raised /\ w.value[t - 1] # Raised
      /\ \A t \in {from, to} : w.value[t] # Raised
    BY <1>2, <1>3 DEF Range
<1>5. \A t \in times : AssetsValue(t - 1, ccy) \in Int /\ FlowAt(t, ccy) \in Int
    BY <1>1, <1>2, <1>4, ValueIsInt, FlowIsInt
<1>6. \A t \in {from, to} : AssetsValue(t, ccy) \in Int
    BY <1>2, <1>4, ValueIsInt
<1> QED BY <1>1, <1>2, <1>5, <1>6 DEF IsWindow, w

(* Two windows that meet say together what the window over both says: the  *)
(* gains add up, and where something is invested the returns multiply,     *)
(* whatever flows, quotes and rows there are (performance.py:54-55).       *)
THEOREM PerformanceComposes == Spec => []WindowsCompose
<1>1. IInv /\ Covered(posted) => WindowsCompose
    <2> SUFFICES ASSUME IInv, Covered(posted), NEW from \in Days, NEW mid \in Days, NEW to \in Days,
                        NEW ccy \in Currencies, from < mid, mid < to
                 PROVE  Composed(Window(from, to, ccy), Window(from, mid, ccy), Window(mid, to, ccy))
        BY DEF WindowsCompose
    <2> DEFINE whole  == Window(from, to, ccy)
               first  == Window(from, mid, ccy)
               second == Window(mid, to, ccy)
               F == FlowTimes(from, mid)
               G == FlowTimes(mid, to)
               value == [t \in Int |-> AssetsValue(t, ccy)]
               flow  == [t \in Int |-> FlowAt(t, ccy)]
    <2>1. from \in Int /\ mid \in Int /\ to \in Int
        BY TransactionsAssumption
    <2>2. ASSUME Computed(whole), Computed(first), Computed(second)
          PROVE  AreMeeting(whole, first, second, from, mid, to, F, G, value, flow)
        <3>1. AreWithin(F, from, mid) /\ AreWithin(G, mid, to)
            BY <2>1, FlowTimesWithin
        <3>2. FlowTimes(from, to) = F \cup G
            BY <2>1, FlowTimesOfBoth
        <3>3. IsWindow(whole, from, to, FlowTimes(from, to), value, flow)
            BY <2>1, <2>2, WindowIs
        <3>4. IsWindow(first, from, mid, F, value, flow)
            BY <2>1, <2>2, WindowIs
        <3>5. IsWindow(second, mid, to, G, value, flow)
            BY <2>1, <2>2, WindowIs
        <3> HIDE DEF whole, first, second, F, G, value, flow
        <3> QED BY <2>1, <3>1, <3>2, <3>3, <3>4, <3>5 DEF AreMeeting
    <2> HIDE DEF whole, first, second, F, G, value, flow
    <2>3. ASSUME Computed(whole), Computed(first), Computed(second)
          PROVE  Gain(whole) = Gain(first) + Gain(second)
        BY <2>2, <2>3, GainsCompose
    <2>4. ASSUME Computed(whole), Computed(first), Computed(second), Invested(first)
          PROVE  Equal(Twr(whole), Chained(Twr(first), Twr(second)))
        BY <2>2, <2>4, ReturnsCompose
    <2>5. Composed(whole, first, second)
        BY <2>3, <2>4 DEF Composed
    <2> QED BY <2>5 DEF whole, first, second
<1> QED BY <1>1, InvHolds, CoverHolds, PTL

-----------------------------------------------------------------------------
(* Deposits and withdrawals are no return.                                 *)

(* The moment at which the period of a cut ends and the next one starts.   *)
NextCut(times, to, c) == IF Later(times, c) = {} THEN to ELSE Min(Later(times, c))

IsLast(last, times, from, to) ==
    /\ from \in Int /\ to \in Int /\ from < to /\ AreWithin(times, from, to)
    /\ last = Max({from} \cup times)

NextOf(last, times, from, to) ==
    [c \in ({from} \cup times) \ {last} |-> NextCut(times, to, c)]

(* Every cut but the last has a next one, and every flow is the next cut   *)
(* of exactly one.                                                         *)
LEMMA NextCuts ==
    ASSUME NEW from, NEW to, NEW times, NEW last, IsLast(last, times, from, to)
    PROVE  /\ last \in {from} \cup times /\ Later(times, last) = {}
           /\ IsNaming(NextOf(last, times, from, to), ({from} \cup times) \ {last}, times)
<1> DEFINE C == {from} \cup times
           next == [c \in C \ {last} |-> NextCut(times, to, c)]
<1>0. from \in Int /\ to \in Int /\ from < to /\ last = Max(C)
    BY DEF IsLast
<1>1. times \in SUBSET Int /\ IsFiniteSet(times) /\ \A t \in times : from < t /\ t <= to
    BY DEF AreWithin, IsLast
<1>2. C \in SUBSET Int /\ IsFiniteSet(C) /\ C # {}
    <2>1. IsFiniteSet({from})
        BY FS_Singleton
    <2> QED BY <1>0, <1>1, <2>1, FS_Union
<1>3. last \in C /\ \A c \in C : c <= last
    <2> HIDE DEF C
    <2>1. Max(C) \in C /\ \A c \in C : c <= Max(C)
        BY <1>2, Extremes
    <2> QED BY <1>0, <2>1
<1>4. Later(times, last) = {}
    <2>1. \A t \in times : t <= last /\ t \in Int
        BY <1>1, <1>3
    <2>2. last \in Int
        BY <1>2, <1>3
    <2> QED BY <2>1, <2>2 DEF Later
<1>5. ASSUME NEW c \in C \ {last}
      PROVE  /\ next[c] \in times /\ c < next[c]
             /\ \A t \in times : c < t => next[c] <= t
    <2> DEFINE later == Later(times, c)
    <2>1. later \in SUBSET Int /\ IsFiniteSet(later)
        BY <1>1, FS_Subset DEF Later
    <2>2. last \in later
        BY <1>1, <1>2, <1>3, <1>5 DEF Later
    <2>3. Min(later) \in later /\ \A t \in later : Min(later) <= t
        <3> HIDE DEF later
        <3> QED BY <2>1, <2>2, Extremes
    <2>4. next[c] = Min(later)
        BY <2>2 DEF NextCut
    <2> QED BY <2>3, <2>4 DEF Later
<1>6. ASSUME NEW t \in times PROVE \E c \in C \ {last} : next[c] = t
    <2> DEFINE before == {c \in C : c < t}
    <2>1. before \in SUBSET Int /\ IsFiniteSet(before) /\ before # {}
        BY <1>0, <1>1, <1>2, FS_Subset
    <2>2. Max(before) \in before /\ \A c \in before : c <= Max(before)
        <3> HIDE DEF before
        <3> QED BY <2>1, Extremes
    <2>3. PICK c \in C : c < t /\ \A b \in C : b < t => b <= c
        BY <2>2
    <2>4. c # last
        BY <1>1, <1>2, <1>3, <2>3
    <2>5. next[c] \in times /\ c < next[c] /\ next[c] <= t
        BY <1>5, <2>3, <2>4
    <2> DEFINE n == next[c]
    <2>6. n \in C /\ n \in Int /\ c \in Int /\ t \in Int /\ c < n /\ n <= t
        BY <1>1, <1>2, <2>5
    <2> HIDE DEF n
    <2>7. n = t
        BY <2>3, <2>6
    <2>8. next[c] = t
        BY <2>7 DEF n
    <2> QED BY <2>4, <2>8
<1>7. ASSUME NEW a \in C \ {last}, NEW b \in C \ {last}, next[a] = next[b] PROVE a = b
    <2>1. ASSUME NEW x \in C \ {last}, NEW y \in C \ {last}, x < y PROVE next[x] < next[y]
        <3>1. y \in times
            BY <1>1, <1>2, <2>1
        <3>2. next[x] <= y /\ y < next[y] /\ next[x] \in Int /\ next[y] \in Int /\ y \in Int
            BY <1>1, <1>5, <2>1, <3>1
        <3> HIDE DEF next
        <3> QED BY <3>2
    <2>2. a \in Int /\ b \in Int /\ next[a] \in Int
        BY <1>1, <1>2, <1>5
    <2>3. ~(a < b) /\ ~(b < a)
        <3> HIDE DEF next
        <3> QED BY <1>7, <2>1, <2>2
    <2> QED BY <2>2, <2>3
<1>8. IsNaming(next, C \ {last}, times)
    <2> HIDE DEF next, C
    <2> QED BY <1>5, <1>6, <1>7 DEF IsNaming
<1> QED BY <1>3, <1>4, <1>8 DEF NextOf

(* A window in which what is held changes at the flows only, and at the    *)
(* price of that moment: its return is the growth of the price.            *)
LEMMA ReturnOfHolding ==
    ASSUME NEW from \in Int, NEW to \in Int, from < to, NEW times, AreWithin(times, from, to),
           NEW value, NEW flow, NEW w, IsWindow(w, from, to, times, value, flow),
           NEW held, NEW unit, unit[to] \in Int \ {0},
           \A c \in {from} \cup times :
               /\ held[c] \in Int \ {0} /\ unit[c] \in Int \ {0}
               /\ StartOf(w, c) = held[c] * unit[c]
               /\ EndOf(w, c) = held[c] * unit[NextCut(times, to, c)]
    PROVE  Equal(Twr(w), <<unit[to], unit[from]>>)
<1> DEFINE C == {from} \cup times
           num == Numerators(w)
           den == Denominators(w)
           after == [c \in C |-> unit[NextCut(times, to, c)]]
<1>1. IsFiniteSet(times) /\ from \notin times
    BY DEF AreWithin
<1>2. Cuts(w) = C /\ IsFiniteSet(C)
    <2>1. Cuts(w) = C
        BY PeriodTypes
    <2>2. IsFiniteSet(Cuts(w))
        BY PeriodTypes
    <2> QED BY <2>1, <2>2
<1>3. Starting(w) = C
    <2>1. ASSUME NEW a \in Int \ {0}, NEW b \in Int \ {0} PROVE a * b # 0
        OBVIOUS
    <2>2. \A c \in C : StartOf(w, c) # 0
        BY <2>1
    <2> QED BY <1>2, <2>2 DEF Starting
<1>4. \A c \in C : num[c] \in Int /\ den[c] \in Int \ {0}
    BY <1>3, GrowthTypes
<1>5. \A c \in C : num[c] * StartOf(w, c) = EndOf(w, c) * den[c]
    BY <1>3, GrowthTypes
<1>6. PICK last : IsLast(last, times, from, to)
    BY DEF IsLast
<1>7. last \in C /\ NextCut(times, to, last) = to
    <2>1. last \in C
        BY <1>6, NextCuts
    <2>2. Later(times, last) = {}
        BY <1>6, NextCuts
    <2> QED BY <2>1, <2>2 DEF NextCut
<1> DEFINE next == [c \in C \ {last} |-> NextCut(times, to, c)]
<1>8. IsNaming(next, C \ {last}, times)
    <2>1. IsNaming(NextOf(last, times, from, to), ({from} \cup times) \ {last}, times)
        BY <1>6, NextCuts
    <2> QED BY <2>1 DEF NextOf
<1>9. \A c \in C : after[c] \in Int
    <2>1. \A c \in C \ {last} : next[c] \in times
        BY <1>8 DEF IsNaming
    <2>2. \A c \in C \ {last} : after[c] = unit[next[c]]
        OBVIOUS
    <2>3. after[last] = unit[to]
        BY <1>7
    <2> HIDE DEF after, next
    <2>4. \A c \in C \ {last} : after[c] \in Int
        BY <2>1, <2>2
    <2> QED BY <2>3, <2>4
<1>10. \A c \in C : num[c] * unit[c] = after[c] * den[c]
    <2> TAKE c \in C
    <2>1. ASSUME NEW n \in Int, NEW d \in Int, NEW q \in Int \ {0}, NEW u \in Int, NEW v \in Int,
                 n * (q * u) = (q * v) * d
          PROVE  n * u = v * d
        <3>1. (n * u) * q = (v * d) * q
            BY <2>1
        <3>2. ASSUME NEW a \in Int, NEW b \in Int, a * q = b * q PROVE a = b
            BY <3>2
        <3> QED BY <3>1, <3>2
    <2>2. num[c] * (held[c] * unit[c]) = (held[c] * after[c]) * den[c]
        BY <1>5
    <2> HIDE DEF num, den, after
    <2> QED BY <1>4, <1>9, <2>1, <2>2
<1> DEFINE N == ProductOver(num, C)
           D == ProductOver(den, C)
           U == ProductOver(unit, times)
<1>11. Twr(w) = <<N, D>>
    BY <1>3, TwrIs
<1>12. ProductOver(unit, C) = U * unit[from]
    <2>1. ProductOver(unit, times \cup {from}) = ProductOver(unit, times) * unit[from]
        BY <1>1, ProductWith
    <2>2. times \cup {from} = C
        OBVIOUS
    <2> QED BY <2>1, <2>2
<1>13. ProductOver(after, C) = U * unit[to]
    <2> DEFINE R == C \ {last}
    <2>1. IsFiniteSet(R) /\ last \notin R /\ R \cup {last} = C
        BY <1>2, <1>7, FS_Subset
    <2>2. after[last] = unit[to]
        BY <1>7
    <2>3. ProductOver(unit, times) = ProductOver(Renamed(unit, next, R), R)
        <3>1. IsNaming(next, R, times) /\ \A t \in times : unit[t] \in Int
            BY <1>8
        <3> HIDE DEF next, R
        <3> QED BY <2>1, <3>1, ProductRenamed
    <2>4. \A c \in R : Renamed(unit, next, R)[c] = after[c]
        BY DEF Renamed
    <2> HIDE DEF after, R, next
    <2>5. ProductOver(Renamed(unit, next, R), R) = ProductOver(after, R)
        BY <2>1, <2>4, ProductAgrees
    <2>6. \A c \in R \cup {last} : after[c] \in Int
        BY <1>9, <2>1
    <2>7. ProductOver(after, R \cup {last}) = ProductOver(after, R) * after[last]
        BY <2>1, <2>6, ProductWith
    <2> QED BY <2>1, <2>2, <2>3, <2>5, <2>7
<1>14. N * (U * unit[from]) = (U * unit[to]) * D
    <2> DEFINE both == [c \in C |-> num[c] * unit[c]]
    <2>1. \A c \in C : /\ both[c] = num[c] * unit[c] /\ both[c] = after[c] * den[c]
                       /\ unit[c] \in Int
        BY <1>10
    <2> HIDE DEF both, num, den, after, C
    <2>2. ProductOver(both, C) = ProductOver(num, C) * ProductOver(unit, C)
        BY <1>2, <1>4, <2>1, ProductOfProducts
    <2>3. ProductOver(both, C) = ProductOver(after, C) * ProductOver(den, C)
        BY <1>2, <1>4, <1>9, <2>1, ProductOfProducts
    <2> QED BY <1>12, <1>13, <2>2, <2>3
<1>15. U \in Int \ {0}
    BY <1>1, ProductNotZero
<1>16. N \in Int /\ D \in Int
    <2> HIDE DEF num, den, C
    <2> QED BY <1>2, <1>4, ProductIsInt
<1>17. ASSUME NEW n \in Int, NEW d \in Int, NEW p \in Int \ {0}, NEW u \in Int, NEW v \in Int,
              n * (p * u) = (p * v) * d
       PROVE  n * u = v * d
    <2>1. (n * u) * p = (v * d) * p
        BY <1>17
    <2>2. ASSUME NEW a \in Int, NEW b \in Int, a * p = b * p PROVE a = b
        BY <2>2
    <2> QED BY <2>1, <2>2
<1>18. unit[from] \in Int /\ unit[to] \in Int
    OBVIOUS
<1> HIDE DEF N, D, U
<1>19. N * unit[from] = unit[to] * D
    BY <1>14, <1>15, <1>16, <1>17, <1>18
<1> QED BY <1>11, <1>19 DEF Equal

(* The legs of rows, each under the row and its place in it, and the units *)
(* that they move altogether.                                              *)
LegKeys(rows) == UNION {{<<row, l>> : l \in DOMAIN row.legs} : row \in rows}

UnitsOf(rows) == [k \in LegKeys(rows) |-> k[1].legs[k[2]].quantity]

UnitsMoved(rows) == SumOver(UnitsOf(rows), LegKeys(rows))

(* Rows of the tables all of whose legs are in one asset.                  *)
AllIn(rows, s) ==
    /\ rows \in SUBSET posted
    /\ \A row \in rows : \A l \in DOMAIN row.legs : row.legs[l].asset = s

LEMMA LegKeysType ==
    ASSUME IInv, NEW rows \in SUBSET posted
    PROVE  /\ IsFiniteSet(rows) /\ IsFiniteSet(LegKeys(rows))
           /\ \A k \in LegKeys(rows) :
                  /\ k[1] \in rows /\ k[2] \in DOMAIN k[1].legs /\ k = <<k[1], k[2]>>
                  /\ k[1].legs[k[2]] \in Leg
                  /\ k[1].legs[k[2]].quantity \in Int /\ UnitsOf(rows)[k] = k[1].legs[k[2]].quantity
<1> DEFINE pairs == [row \in rows |-> {<<row, l>> : l \in DOMAIN row.legs}]
<1>1. IsFiniteSet(rows)
    BY FS_Subset DEF IInv
<1>2. \A row \in rows : row.legs \in Seq(Leg)
    BY ReportsAssumption DEF IInv, TypeOK, Transaction
<1>3. ASSUME NEW row \in rows PROVE IsFiniteSet(pairs[row])
    <2> DEFINE n == Len(row.legs)
               pair == [l \in 1..n |-> <<row, l>>]
    <2>1. DOMAIN row.legs = 1..n /\ n \in Nat
        BY <1>2
    <2>2. IsFiniteSet({pair[l] : l \in 1..n})
        <3>1. IsFiniteSet(1..n)
            BY <2>1, FS_Interval
        <3> HIDE DEF pair
        <3> QED BY <3>1, ImageIsFinite
    <2>3. pairs[row] = {pair[l] : l \in 1..n}
        BY <2>1
    <2> QED BY <2>2, <2>3
<1>4. LegKeys(rows) = UNION {pairs[row] : row \in rows}
    BY DEF LegKeys
<1>5. IsFiniteSet(LegKeys(rows))
    <2> HIDE DEF pairs
    <2>1. IsFiniteSet({pairs[row] : row \in rows})
        BY <1>1, ImageIsFinite
    <2> QED BY <1>3, <1>4, <2>1, FS_UNION
<1>6. ASSUME NEW k \in LegKeys(rows)
      PROVE  /\ k[1] \in rows /\ k[2] \in DOMAIN k[1].legs /\ k = <<k[1], k[2]>>
             /\ k[1].legs[k[2]] \in Leg
             /\ k[1].legs[k[2]].quantity \in Int /\ UnitsOf(rows)[k] = k[1].legs[k[2]].quantity
    <2>1. PICK row \in rows : \E l \in DOMAIN row.legs : k = <<row, l>>
        BY DEF LegKeys
    <2>2. PICK l \in DOMAIN row.legs : k = <<row, l>>
        BY <2>1
    <2>3. row.legs[l] \in Leg
        BY <1>2
    <2>4. row.legs[l].quantity \in Int
        BY <2>3, TransactionsAssumption DEF Leg
    <2>5. UnitsOf(rows)[k] = k[1].legs[k[2]].quantity
        BY DEF UnitsOf
    <2> QED BY <2>2, <2>3, <2>4, <2>5
<1> QED BY <1>1, <1>5, <1>6

LEMMA MovedOfBoth ==
    ASSUME IInv, NEW A \in SUBSET posted, NEW B \in SUBSET posted, A \cap B = {}
    PROVE  /\ UnitsMoved(A) \in Int /\ UnitsMoved(B) \in Int
           /\ UnitsMoved(A \cup B) = UnitsMoved(A) + UnitsMoved(B)
<1> DEFINE S == LegKeys(A)
           T == LegKeys(B)
           w == UnitsOf(A \cup B)
<1>1. LegKeys(A \cup B) = S \cup T
    BY DEF LegKeys
<1>2. IsFiniteSet(S) /\ IsFiniteSet(T)
    BY LegKeysType
<1>3. S \cap T = {}
    BY DEF LegKeys
<1>4. A \cup B \in SUBSET posted
    OBVIOUS
<1>5. \A k \in S \cup T : w[k] \in Int /\ w[k] = k[1].legs[k[2]].quantity
    BY <1>1, <1>4, LegKeysType
<1>6. /\ \A k \in S : w[k] = UnitsOf(A)[k] /\ UnitsOf(A)[k] \in Int
      /\ \A k \in T : w[k] = UnitsOf(B)[k] /\ UnitsOf(B)[k] \in Int
    <2>1. \A k \in S : UnitsOf(A)[k] = k[1].legs[k[2]].quantity
        BY LegKeysType
    <2>2. \A k \in T : UnitsOf(B)[k] = k[1].legs[k[2]].quantity
        BY LegKeysType
    <2> HIDE DEF S, T, w
    <2> QED BY <1>5, <2>1, <2>2
<1> HIDE DEF S, T, w
<1>7. SumOver(w, S \cup T) = SumOver(w, S) + SumOver(w, T)
    BY <1>2, <1>3, <1>5, SumOfBoth
<1>8. SumOver(w, S) = SumOver(UnitsOf(A), S) /\ SumOver(w, T) = SumOver(UnitsOf(B), T)
    BY <1>2, <1>6, SumAgrees
<1>9. SumOver(UnitsOf(A), S) \in Int /\ SumOver(UnitsOf(B), T) \in Int
    BY <1>2, <1>6, SumIsInt
<1> QED BY <1>1, <1>7, <1>8, <1>9 DEF UnitsMoved, S, T, w

(* What all accounts hold of the only asset there is.                      *)
LEMMA HoldingsAreMoved ==
    ASSUME IInv, NEW at, NEW s, AllIn(RowsUpto(at), s)
    PROVE  /\ IsFiniteSet(Held(at)) /\ \A pair \in Held(at) : pair[2] = s
           /\ SumOver([pair \in Held(at) |-> HoldingAt(pair, at)], Held(at)) = UnitsMoved(RowsUpto(at))
<1> DEFINE rows == RowsUpto(at)
           keys == LegKeys(rows)
           units == UnitsOf(rows)
           pair_of == [k \in keys |-> <<k[1].legs[k[2]].account, k[1].legs[k[2]].asset>>]
           K == {pair_of[k] : k \in keys}
           holding == [pair \in K |-> HoldingAt(pair, at)]
           held == [pair \in Held(at) |-> HoldingAt(pair, at)]
<1>1. rows \in SUBSET posted
    BY DEF RowsUpto
<1>2. /\ IsFiniteSet(rows) /\ IsFiniteSet(keys)
      /\ \A k \in keys : /\ k[1] \in rows /\ k[2] \in DOMAIN k[1].legs /\ k = <<k[1], k[2]>>
                         /\ k[1].legs[k[2]] \in Leg
                         /\ k[1].legs[k[2]].quantity \in Int
                         /\ units[k] = k[1].legs[k[2]].quantity
    BY <1>1, LegKeysType
<1>3. IsFiniteSet(K)
    <2> HIDE DEF keys, pair_of
    <2> QED BY <1>2, ImageIsFinite
<1>4. \A row \in rows : Rows[row] = row
    BY <1>1 DEF Rows
<1>5. ASSUME NEW pair \in K
      PROVE  HoldingAt(pair, at) = SumOver(units, Fibre(pair_of, keys, pair))
    <2> DEFINE legs == PairLegs(Rows, pair, rows)
               fibre == Fibre(pair_of, keys, pair)
               quantity == [e \in legs |-> e.quantity]
               entry == [k \in fibre |-> [row |-> k[1], leg |-> k[2],
                                          quantity |-> k[1].legs[k[2]].quantity]]
    <2>1. IsFiniteSet(fibre)
        BY <1>2, FS_Subset DEF Fibre
    <2>2. \A k \in fibre : entry[k] \in legs
        <3> TAKE k \in fibre
        <3>1. k \in keys /\ pair_of[k] = pair
            BY DEF Fibre
        <3>2. <<Rows[k[1]].legs[k[2]].account, Rows[k[1]].legs[k[2]].asset>> = pair
            BY <1>2, <1>4, <3>1
        <3> QED BY <1>2, <1>4, <3>1, <3>2, PairLegsEntry
    <2>3. \A e \in legs : \E k \in fibre : entry[k] = e
        <3> TAKE e \in legs
        <3>0. PICK row \in rows : \E l \in DOMAIN row.legs :
                  /\ <<row.legs[l].account, row.legs[l].asset>> = pair
                  /\ e = [row |-> row, leg |-> l, quantity |-> row.legs[l].quantity]
            BY <1>4, PairLegsEntry
        <3>1. PICK l \in DOMAIN row.legs :
                  /\ <<row.legs[l].account, row.legs[l].asset>> = pair
                  /\ e = [row |-> row, leg |-> l, quantity |-> row.legs[l].quantity]
            BY <3>0
        <3>2. <<row, l>> \in keys
            BY DEF LegKeys
        <3>3. <<row, l>> \in fibre
            BY <3>1, <3>2 DEF Fibre
        <3>4. entry[<<row, l>>] = e
            BY <3>1, <3>3
        <3> QED BY <3>3, <3>4
    <2>4. \A j, k \in fibre : entry[j] = entry[k] => j = k
        BY <1>2 DEF Fibre
    <2>5. IsNaming(entry, fibre, legs)
        <3> HIDE DEF entry, fibre, legs
        <3> QED BY <2>2, <2>3, <2>4 DEF IsNaming
    <2>6. \A k \in fibre : quantity[entry[k]] = units[k] /\ units[k] \in Int
        <3>1. \A k \in fibre : entry[k].quantity = units[k] /\ units[k] \in Int
            BY <1>2 DEF Fibre
        <3> HIDE DEF entry, fibre, legs
        <3> QED BY <2>2, <3>1
    <2>7. \A e \in legs : quantity[e] \in Int
        <3> HIDE DEF entry, fibre, legs, quantity
        <3> QED BY <2>3, <2>6
    <2>8. HoldingAt(pair, at) = SumOver(quantity, legs)
        <3> HIDE DEF legs
        <3>1. Total(legs) = SumOver(quantity, legs)
            BY DEF Total, SumOver, MapThenSumSet, MapThenFoldSet
        <3> QED BY <3>1 DEF HoldingAt, LegSum, legs
    <2> HIDE DEF legs, fibre, quantity, entry, units, keys, pair_of
    <2>9. SumOver(quantity, legs) = SumOver(Renamed(quantity, entry, fibre), fibre)
        BY <2>1, <2>5, <2>7, SumRenamed
    <2>10. \A k \in fibre : Renamed(quantity, entry, fibre)[k] = units[k]
        BY <2>6 DEF Renamed
    <2>11. SumOver(Renamed(quantity, entry, fibre), fibre) = SumOver(units, fibre)
        BY <2>1, <2>10, SumAgrees
    <2> QED BY <2>8, <2>9, <2>11 DEF fibre
<1>6. \A pair \in K : holding[pair] = SumOver(units, Fibre(pair_of, keys, pair))
    BY <1>5
<1>7. \A k \in keys : units[k] \in Int /\ pair_of[k] \in K
    BY <1>2
<1>8. UnitsMoved(rows) = SumOver(holding, K) /\ \A pair \in K : holding[pair] \in Int
    <2>1. UnitsMoved(rows) = SumOver(units, keys)
        BY DEF UnitsMoved
    <2> HIDE DEF holding, units, keys, pair_of, K
    <2>2. SumOver(units, keys) = SumOver(holding, K) /\ \A pair \in K : holding[pair] \in Int
        BY <1>2, <1>3, <1>6, <1>7, SumByFibres
    <2> QED BY <2>1, <2>2
<1>9. \A pair \in K : pair[2] = s /\ pair \in Accounts \X Assets
    <2> TAKE pair \in K
    <2>1. PICK k \in keys : pair = <<k[1].legs[k[2]].account, k[1].legs[k[2]].asset>>
        OBVIOUS
    <2>2. k[1].legs[k[2]] \in Leg /\ k[1].legs[k[2]].asset = s
        BY <1>2 DEF AllIn
    <2>3. k[1].legs[k[2]].account \in Accounts /\ k[1].legs[k[2]].asset \in Assets
        BY <2>2 DEF Leg
    <2> QED BY <2>1, <2>2, <2>3
<1>10. ASSUME NEW pair, pair \notin K PROVE HoldingAt(pair, at) = 0
    <2>1. \A row \in rows : \A l \in DOMAIN row.legs :
              <<row.legs[l].account, row.legs[l].asset>> # pair
        <3> TAKE row \in rows
        <3> TAKE l \in DOMAIN row.legs
        <3>1. <<row, l>> \in keys
            BY DEF LegKeys
        <3>2. pair_of[<<row, l>>] \in K /\ pair_of[<<row, l>>] = <<row.legs[l].account, row.legs[l].asset>>
            BY <3>1
        <3> QED BY <1>10, <3>2
    <2>2. \A row \in rows : \A l \in DOMAIN Rows[row].legs :
              <<Rows[row].legs[l].account, Rows[row].legs[l].asset>> # pair
        BY <1>4, <2>1
    <2>3. LegSum(Rows, pair, rows) = 0
        BY <2>2, LegSumOfNone
    <2> QED BY <2>3 DEF HoldingAt
<1>11. Held(at) = {pair \in K : holding[pair] # 0}
    <2> HIDE DEF K
    <2>1. \A pair \in K : holding[pair] = HoldingAt(pair, at)
        OBVIOUS
    <2> QED BY <1>9, <1>10, <2>1 DEF Held
<1>12. SumOver(holding, K) = SumOver(holding, Held(at))
    <2>1. \A pair \in Held(at) : holding[pair] \in Int
        BY <1>8, <1>11
    <2>2. \A pair \in K \ Held(at) : holding[pair] = 0
        BY <1>11
    <2> HIDE DEF holding, K
    <2> QED BY <1>3, <1>11, <2>1, <2>2, SumWithoutZeros
<1>13. IsFiniteSet(Held(at)) /\ \A pair \in Held(at) : pair[2] = s
    <2> HIDE DEF K, holding
    <2> QED BY <1>3, <1>9, <1>11, FS_Subset
<1>14. SumOver(holding, Held(at)) = SumOver(held, Held(at))
    <2>1. \A pair \in Held(at) : holding[pair] = held[pair]
        BY <1>11
    <2> HIDE DEF holding, held
    <2> QED BY <1>13, <2>1, SumAgrees
<1> QED BY <1>8, <1>12, <1>13, <1>14

(* Where there is one asset only, what the portfolio is worth is what is   *)
(* held of it, altogether, at its price.                                   *)
LEMMA ValueOfOnly ==
    ASSUME IInv, NEW at \in Int, NEW s, AllIn(RowsUpto(at), s), NEW ccy \in Currencies,
           AssetsValue(at, ccy) \notin {0, Raised}
    PROVE  /\ MarketUnitValue(s, ccy, Day(at)) \in Nat \ {0}
           /\ UnitsMoved(RowsUpto(at)) \in Int \ {0}
           /\ AssetsValue(at, ccy) = UnitsMoved(RowsUpto(at)) * MarketUnitValue(s, ccy, Day(at))
<1> DEFINE values == ValuedHoldings(at)
           known == {k \in DOMAIN values : values[k][ccy] # None}
           worth == [k \in known |-> values[k][ccy]]
           held == [pair \in Held(at) |-> HoldingAt(pair, at)]
           unit == MarketUnitValue(s, ccy, Day(at))
<1>1. /\ IsFiniteSet(Held(at)) /\ \A pair \in Held(at) : pair[2] = s
      /\ SumOver(held, Held(at)) = UnitsMoved(RowsUpto(at))
    BY HoldingsAreMoved
<1>2. unit \in Outcome
    BY MarketOutcome
<1> HIDE DEF unit
<1>3. /\ DOMAIN values = Held(at)
      /\ \A pair \in Held(at) : values[pair][ccy] = Worth(HoldingAt(pair, at), unit)
    BY <1>1 DEF ValuedHoldings, ValueAt, unit
<1> HIDE DEF values
<1>4. ~Raises(values) /\ AssetsValue(at, ccy) = SumIn(values, ccy)
    BY DEF AssetsValue, TotalIn, values
<1>5. SumIn(values, ccy) = SumOver(worth, known)
    BY DEF SumIn, SumOver, MapThenSumSet, MapThenFoldSet
<1>6. known # {}
    <2>1. CASE known = {}
        <3> HIDE DEF known, worth
        <3>1. SumOver(worth, known) = 0
            BY <2>1, SumOfNone
        <3> QED BY <1>4, <1>5, <3>1
    <2> QED BY <2>1
<1>7. unit \in Nat
    <2>1. PICK pair \in Held(at) : values[pair][ccy] # None
        BY <1>3, <1>6
    <2>2. values[pair][ccy] # Raised
        BY <1>3, <1>4 DEF Raises
    <2> QED BY <1>2, <1>3, <2>1, <2>2 DEF Worth, Outcome
<1>8. /\ \A pair \in Held(at) : held[pair] \in Int /\ values[pair][ccy] = unit * held[pair]
      /\ known = Held(at)
    <2>1. unit \notin {None, Raised}
        BY <1>7, NoneAssumption, ValuationAssumption
    <2>2. \A pair \in Held(at) : held[pair] \in Int
        BY HoldingIsInt
    <2>3. \A pair \in Held(at) : values[pair][ccy] = held[pair] * unit
        BY <1>3, <2>1 DEF Worth
    <2>4. ASSUME NEW a \in Int, NEW b \in Nat PROVE a * b = b * a /\ a * b \in Int
        OBVIOUS
    <2> HIDE DEF held
    <2>5. \A pair \in Held(at) : values[pair][ccy] = unit * held[pair] /\ values[pair][ccy] \in Int
        BY <1>7, <2>2, <2>3, <2>4
    <2>6. \A pair \in Held(at) : values[pair][ccy] # None
        BY <2>5, NoneAssumption
    <2> QED BY <1>3, <2>2, <2>5, <2>6
<1>9. \A pair \in Held(at) : worth[pair] = unit * held[pair]
    BY <1>8
<1> HIDE DEF worth, held, known
<1>10. SumOver(held, Held(at)) \in Int /\ SumOver(worth, Held(at)) = unit * SumOver(held, Held(at))
    <2> DEFINE H == Held(at)
    <2>1. /\ IsFiniteSet(H) /\ unit \in Int
          /\ \A pair \in H : held[pair] \in Int /\ worth[pair] = unit * held[pair]
        BY <1>1, <1>7, <1>8, <1>9
    <2> HIDE DEF H
    <2>2. SumOver(held, H) \in Int
        BY <2>1, SumIsInt
    <2>3. SumOver(worth, H) = unit * SumOver(held, H)
        BY <2>1, SumScaled
    <2> QED BY <2>2, <2>3 DEF H
<1>11. /\ UnitsMoved(RowsUpto(at)) \in Int
       /\ AssetsValue(at, ccy) = unit * UnitsMoved(RowsUpto(at))
    BY <1>1, <1>4, <1>5, <1>8, <1>10
<1> QED BY <1>7, <1>11 DEF unit

(* The flows of a moment, at its price.                                    *)
LEMMA FlowOfOnly ==
    ASSUME IInv, NEW t \in Int, NEW s, AllIn(FlowRows(t - 1, t), s), NEW ccy \in Currencies,
           MarketUnitValue(s, ccy, Day(t)) \in Nat
    PROVE  FlowAt(t, ccy) = MarketUnitValue(s, ccy, Day(t)) * UnitsMoved(FlowRows(t - 1, t))
<1> DEFINE rows == FlowRows(t - 1, t)
           keys == LegKeys(rows)
           units == UnitsOf(rows)
           unit == MarketUnitValue(s, ccy, Day(t))
           worth == [k \in keys |-> Worth(k[1].legs[k[2]].quantity,
                                          MarketUnitValue(k[1].legs[k[2]].asset, ccy, Day(t)))]
<1>1. /\ IsFiniteSet(keys)
      /\ \A k \in keys : /\ k[1] \in rows /\ k[2] \in DOMAIN k[1].legs
                         /\ k[1].legs[k[2]].quantity \in Int
                         /\ units[k] = k[1].legs[k[2]].quantity
    <2>1. rows \in SUBSET posted
        BY DEF FlowRows
    <2> QED BY <2>1, LegKeysType
<1>2. FlowAt(t, ccy) = SumUnlessRaised(worth)
    BY DEF FlowAt, LegKeys
<1>3. \A k \in keys : k[1].legs[k[2]].asset = s
    BY <1>1 DEF AllIn
<1>4. \A k \in keys : worth[k] = Worth(units[k], unit)
    BY <1>1, <1>3
<1>5. DOMAIN worth = keys
    OBVIOUS
<1>6. unit \notin {None, Raised}
    BY NoneAssumption, ValuationAssumption
<1>7. \A k \in keys : units[k] \in Int
    BY <1>1
<1> HIDE DEF worth, keys, units, unit
<1>8. unit \in Nat
    BY DEF unit
<1>9. \A k \in keys : worth[k] = unit * units[k] /\ worth[k] \in Int
    <2>1. \A k \in keys : worth[k] = units[k] * unit
        BY <1>4, <1>6 DEF Worth
    <2>2. ASSUME NEW a \in Int, NEW b \in Nat PROVE a * b = b * a /\ a * b \in Int
        OBVIOUS
    <2> QED BY <1>7, <1>8, <2>1, <2>2
<1>10. Raised \notin Range(worth) /\ {k \in DOMAIN worth : worth[k] # None} = keys
    <2>1. \A k \in keys : worth[k] # None /\ worth[k] # Raised
        BY <1>9, NoneAssumption, ValuationAssumption
    <2> QED BY <1>5, <2>1 DEF Range
<1>11. FlowAt(t, ccy) = SumOver(worth, keys)
    BY <1>2, <1>10 DEF SumUnlessRaised, SumOver
<1>12. SumOver(worth, keys) = unit * SumOver(units, keys)
    BY <1>1, <1>7, <1>8, <1>9, SumScaled
<1> QED BY <1>11, <1>12 DEF UnitsMoved, unit, units, keys

(* The rows of a window in which money only comes and goes: what is held   *)
(* changes at its flows only, by what flows.                               *)
LEMMA RowsOfWindow ==
    ASSUME IInv, NEW from \in Int, NEW to \in Int,
           \A row \in RowsUpto(to) : row.occurred_at > from => row.type \in ExternalFlowTypes
    PROVE  /\ \A a \in Int, b \in Int :
                  /\ from <= a /\ a <= b /\ b <= to
                  /\ \A t \in FlowTimes(from, to) : ~(a < t /\ t <= b)
                  => RowsUpto(a) = RowsUpto(b)
           /\ \A t \in Int : from < t /\ t <= to =>
                  /\ RowsUpto(t) = RowsUpto(t - 1) \cup FlowRows(t - 1, t)
                  /\ RowsUpto(t - 1) \cap FlowRows(t - 1, t) = {}
<1>1. \A row \in posted : row.occurred_at \in Int
    BY ReportsAssumption, TransactionsAssumption DEF IInv, TypeOK, Transaction
<1>2. ASSUME NEW a \in Int, NEW b \in Int, from <= a, a <= b, b <= to,
             \A t \in FlowTimes(from, to) : ~(a < t /\ t <= b)
      PROVE  RowsUpto(a) = RowsUpto(b)
    <2>1. RowsUpto(a) \subseteq RowsUpto(b)
        BY <1>1, <1>2 DEF RowsUpto
    <2>2. ASSUME NEW row \in RowsUpto(b) PROVE row \in RowsUpto(a)
        <3>1. row \in posted /\ row.occurred_at \in Int /\ row.occurred_at <= b
            BY <1>1 DEF RowsUpto
        <3>2. CASE row.occurred_at > a
            <4>1. row \in FlowRows(from, to)
                BY <1>2, <3>1, <3>2 DEF RowsUpto, FlowRows
            <4>2. row.occurred_at \in FlowTimes(from, to)
                BY <4>1 DEF FlowTimes
            <4> QED BY <1>2, <3>1, <3>2, <4>2
        <3>3. CASE row.occurred_at <= a
            BY <3>1, <3>3 DEF RowsUpto
        <3> QED BY <3>1, <3>2, <3>3
    <2> QED BY <2>1, <2>2
<1>3. ASSUME NEW t \in Int, from < t, t <= to
      PROVE  /\ RowsUpto(t) = RowsUpto(t - 1) \cup FlowRows(t - 1, t)
             /\ RowsUpto(t - 1) \cap FlowRows(t - 1, t) = {}
    <2>1. RowsUpto(t - 1) \subseteq RowsUpto(t) /\ FlowRows(t - 1, t) \subseteq RowsUpto(t)
        BY <1>1 DEF RowsUpto, FlowRows
    <2>2. ASSUME NEW row \in RowsUpto(t) PROVE row \in RowsUpto(t - 1) \cup FlowRows(t - 1, t)
        <3>1. row \in posted /\ row.occurred_at \in Int /\ row.occurred_at <= t
            BY <1>1 DEF RowsUpto
        <3>2. CASE row.occurred_at <= t - 1
            BY <3>1, <3>2 DEF RowsUpto
        <3>3. CASE row.occurred_at > t - 1
            <4>1. row \in RowsUpto(to) /\ row.occurred_at > from
                BY <1>3, <3>1, <3>3 DEF RowsUpto
            <4> QED BY <3>1, <3>3, <4>1 DEF FlowRows
        <3> QED BY <3>1, <3>2, <3>3
    <2>3. RowsUpto(t - 1) \cap FlowRows(t - 1, t) = {}
        BY <1>1 DEF RowsUpto, FlowRows
    <2> QED BY <2>1, <2>2, <2>3
<1> QED BY <1>2, <1>3

LEMMA MoneyIsNoReturn ==
    ASSUME IInv, Covered(posted), NEW from \in Int, NEW to \in Int, from < to,
           NEW s, NEW ccy \in Currencies, NEW w, w = Window(from, to, ccy),
           MoneyOnlyComesAndGoes(w, s, ccy), \A t \in DOMAIN w.flow : ~RepricedAt(t, s, ccy)
    PROVE  ReturnIsPriceGrowth(w, s, ccy)
<1> DEFINE times == FlowTimes(from, to)
           value == [t \in Int |-> AssetsValue(t, ccy)]
           flow  == [t \in Int |-> FlowAt(t, ccy)]
           unit  == [t \in Int |-> MarketUnitValue(s, ccy, Day(t))]
           held  == [t \in Int |-> UnitsMoved(RowsUpto(t))]
           seen  == {from, to} \cup times \cup {t - 1 : t \in times}
<1>1. AreWithin(times, from, to)
    BY FlowTimesWithin
<1>2. IsWindow(w, from, to, times, value, flow)
    BY WindowIs DEF MoneyOnlyComesAndGoes
<1>3. /\ w.from = from /\ w.to = to /\ DOMAIN w.flow = times
      /\ DOMAIN w.value = {from, to} \cup {t - 1 : t \in times}
      /\ \A t \in DOMAIN w.value : w.value[t] = AssetsValue(t, ccy)
    BY DEF Window
<1>4. /\ \A row \in RowsUpto(to) : \A l \in DOMAIN row.legs : row.legs[l].asset = s
      /\ \A row \in RowsUpto(to) : row.occurred_at > from => row.type \in ExternalFlowTypes
      /\ Raised \notin Range(w.value) /\ 0 \notin Range(w.value)
      /\ \A t \in times : AssetsValue(t, ccy) \notin {0, Raised}
    BY <1>3 DEF MoneyOnlyComesAndGoes, Computed
<1>5. \A t \in times : t \in Int /\ t - 1 \in Int /\ from < t /\ t <= to /\ from <= t - 1
    BY <1>1 DEF AreWithin
<1>6. ASSUME NEW t \in seen
      PROVE  /\ t \in Int /\ from <= t /\ t <= to
             /\ AssetsValue(t, ccy) \notin {0, Raised}
    <2>1. t \in Int /\ from <= t /\ t <= to
        BY <1>5
    <2>2. ASSUME NEW x \in DOMAIN w.value PROVE AssetsValue(x, ccy) \notin {0, Raised}
        BY <1>3, <1>4 DEF Range
    <2>3. t \in DOMAIN w.value \/ t \in times
        BY <1>3
    <2> QED BY <1>4, <2>1, <2>2, <2>3
<1>7. ASSUME NEW rows \in SUBSET RowsUpto(to) PROVE AllIn(rows, s)
    BY <1>4 DEF AllIn, RowsUpto
<1>8. ASSUME NEW t \in Int, t <= to PROVE RowsUpto(t) \subseteq RowsUpto(to)
    <2>1. \A row \in posted : row.occurred_at \in Int
        BY ReportsAssumption, TransactionsAssumption DEF IInv, TypeOK, Transaction
    <2> QED BY <1>8, <2>1 DEF RowsUpto
<1>9. ASSUME NEW t \in seen
      PROVE  /\ unit[t] \in Int \ {0} /\ unit[t] \in Nat /\ held[t] \in Int \ {0}
             /\ value[t] = held[t] * unit[t]
    <2>1. t \in Int /\ AllIn(RowsUpto(t), s) /\ AssetsValue(t, ccy) \notin {0, Raised}
        BY <1>6, <1>7, <1>8
    <2>2. /\ MarketUnitValue(s, ccy, Day(t)) \in Nat \ {0}
          /\ UnitsMoved(RowsUpto(t)) \in Int \ {0}
          /\ AssetsValue(t, ccy) = UnitsMoved(RowsUpto(t)) * MarketUnitValue(s, ccy, Day(t))
        BY <2>1, ValueOfOnly
    <2> QED BY <2>1, <2>2
<1>10. ASSUME NEW a \in seen, NEW b \in seen, a <= b,
              \A t \in times : ~(a < t /\ t <= b)
       PROVE  held[a] = held[b]
    <2>1. a \in Int /\ b \in Int /\ from <= a /\ b <= to
        BY <1>6
    <2>2. RowsUpto(a) = RowsUpto(b)
        BY <1>4, <1>10, <2>1, RowsOfWindow
    <2> QED BY <2>1, <2>2
<1>11. ASSUME NEW t \in times
       PROVE  /\ flow[t] = unit[t] * UnitsMoved(FlowRows(t - 1, t))
              /\ UnitsMoved(FlowRows(t - 1, t)) \in Int
              /\ held[t] = held[t - 1] + UnitsMoved(FlowRows(t - 1, t))
              /\ unit[t - 1] = unit[t]
    <2>1. t \in Int /\ t - 1 \in Int /\ from < t /\ t <= to
        BY <1>5
    <2>2. /\ RowsUpto(t) = RowsUpto(t - 1) \cup FlowRows(t - 1, t)
          /\ RowsUpto(t - 1) \cap FlowRows(t - 1, t) = {}
        BY <1>4, <2>1, RowsOfWindow
    <2>3. AllIn(FlowRows(t - 1, t), s)
        BY <1>7, <1>8, <2>1, <2>2
    <2>4. MarketUnitValue(s, ccy, Day(t)) \in Nat
        BY <1>9, <2>1
    <2>5. FlowAt(t, ccy) = MarketUnitValue(s, ccy, Day(t)) * UnitsMoved(FlowRows(t - 1, t))
        BY <2>1, <2>3, <2>4, FlowOfOnly
    <2>6. RowsUpto(t - 1) \in SUBSET posted /\ FlowRows(t - 1, t) \in SUBSET posted
        BY DEF RowsUpto, FlowRows
    <2>7. /\ UnitsMoved(FlowRows(t - 1, t)) \in Int
          /\ UnitsMoved(RowsUpto(t)) = UnitsMoved(RowsUpto(t - 1)) + UnitsMoved(FlowRows(t - 1, t))
        BY <2>2, <2>6, MovedOfBoth
    <2>8. MarketUnitValue(s, ccy, Day(t)) = MarketUnitValue(s, ccy, Day(t - 1))
        BY <1>3 DEF RepricedAt
    <2> QED BY <2>1, <2>5, <2>7, <2>8
<1>12. Cuts(w) = {from} \cup times /\ from \notin times
    <2>1. Cuts(w) = {from} \cup times
        BY <1>1, <1>2, PeriodTypes
    <2> QED BY <1>5, <2>1
<1> HIDE DEF unit, held, value, flow, times
<1>13. ASSUME NEW c \in {from} \cup times
       PROVE  StartOf(w, c) = held[c] * unit[c]
    <2>1. StartOf(w, c) = IF c = from THEN value[from] ELSE value[c - 1] + flow[c]
        BY <1>1, <1>2, <1>12, PeriodTypes
    <2>2. CASE c = from
        BY <1>9, <2>1, <2>2
    <2>3. CASE c # from
        <3>1. c \in times /\ c \in seen /\ c - 1 \in seen
            BY <2>3
        <3>2. /\ value[c - 1] = held[c - 1] * unit[c]
              /\ flow[c] = unit[c] * UnitsMoved(FlowRows(c - 1, c))
              /\ held[c] = held[c - 1] + UnitsMoved(FlowRows(c - 1, c))
              /\ UnitsMoved(FlowRows(c - 1, c)) \in Int /\ held[c - 1] \in Int /\ unit[c] \in Int
            BY <1>9, <1>11, <3>1
        <3>3. ASSUME NEW h \in Int, NEW u \in Int, NEW m \in Int
              PROVE  h * u + u * m = (h + m) * u
            OBVIOUS
        <3>4. held[c - 1] * unit[c] + unit[c] * UnitsMoved(FlowRows(c - 1, c)) = held[c] * unit[c]
            BY <3>2, <3>3
        <3> QED BY <2>1, <2>3, <3>2, <3>4
    <2> QED BY <2>2, <2>3
<1>14. ASSUME NEW c \in {from} \cup times
       PROVE  EndOf(w, c) = held[c] * unit[NextCut(times, to, c)]
    <2> DEFINE later == Later(times, c)
    <2>1. EndOf(w, c) = Ending(value, times, to, c)
        BY <1>1, <1>2, <1>12, PeriodTypes
    <2>2. c \in seen /\ c \in Int /\ c <= to /\ from <= c
        BY <1>6
    <2>3. CASE later = {}
        <3>1. EndOf(w, c) = value[to] /\ NextCut(times, to, c) = to
            BY <2>1, <2>3 DEF Ending, NextCut
        <3>2. \A t \in times : ~(c < t /\ t <= to)
            BY <2>3 DEF Later
        <3>3. held[c] = held[to]
            BY <1>10, <2>2, <3>2
        <3>4. value[to] = held[to] * unit[to]
            BY <1>9
        <3> QED BY <3>1, <3>3, <3>4
    <2>4. CASE later # {}
        <3> DEFINE n == Min(later)
        <3>1. later \in SUBSET Int /\ IsFiniteSet(later)
            <4>1. later \subseteq times /\ IsFiniteSet(times)
                BY <1>1 DEF Later, AreWithin
            <4> HIDE DEF later
            <4> QED BY <1>5, <4>1, FS_Subset
        <3>2. n \in later /\ \A t \in later : n <= t
            <4> HIDE DEF later
            <4> QED BY <2>4, <3>1, Extremes
        <3>3. EndOf(w, c) = value[n - 1] /\ NextCut(times, to, c) = n
            BY <2>1, <2>4 DEF Ending, NextCut
        <3> HIDE DEF n
        <3>4. n \in times /\ c < n /\ n \in Int /\ \A t \in times : c < t => n <= t
            BY <1>5, <3>2 DEF Later
        <3>5. n - 1 \in seen /\ c <= n - 1 /\ \A t \in times : ~(c < t /\ t <= n - 1)
            BY <1>5, <2>2, <3>4
        <3>6. held[c] = held[n - 1]
            BY <1>10, <2>2, <3>5
        <3>7. value[n - 1] = held[n - 1] * unit[n]
            BY <1>9, <1>11, <3>4, <3>5
        <3> QED BY <3>3, <3>6, <3>7
    <2> QED BY <2>3, <2>4
<1>15. /\ \A c \in {from} \cup times : held[c] \in Int \ {0} /\ unit[c] \in Int \ {0}
       /\ unit[to] \in Int \ {0}
    BY <1>9
<1>16. Equal(Twr(w), <<unit[to], unit[from]>>)
    BY <1>1, <1>2, <1>13, <1>14, <1>15, ReturnOfHolding
<1> QED BY <1>3, <1>16 DEF ReturnIsPriceGrowth, unit

(* A deposit or a withdrawal is no return: whatever is deposited into one  *)
(* asset and withdrawn, and whenever, it returns what its price gains,     *)
(* unless a flow falls on the midnight at which the price changes          *)
(* (performance.py:152-175).                                               *)
THEOREM DepositsAreNoReturn == Spec => []FlowsAreNotReturn
<1>1. IInv /\ Covered(posted) => FlowsAreNotReturn
    <2> SUFFICES ASSUME IInv, Covered(posted), NEW d \in Spans, NEW s \in Assets,
                        NEW ccy \in Currencies,
                        MoneyOnlyComesAndGoes(Window(d[1], d[2], ccy), s, ccy),
                        \A t \in DOMAIN Window(d[1], d[2], ccy).flow : ~RepricedAt(t, s, ccy)
                 PROVE  ReturnIsPriceGrowth(Window(d[1], d[2], ccy), s, ccy)
        BY DEF FlowsAreNotReturn
    <2>1. d[1] \in Int /\ d[2] \in Int /\ d[1] < d[2]
        BY TransactionsAssumption DEF Spans
    <2> QED BY <2>1, MoneyIsNoReturn
<1> QED BY <1>1, InvHolds, CoverHolds, PTL

-----------------------------------------------------------------------------
(* Projections.                                                            *)
LEMMA CompoundingIsNat == ASSUME NEW n \in Nat PROVE Compounding(n) \in Int
<1> DEFINE w == [m \in 1..n |-> RateUnit]
<1>1. IsFiniteSet(1..n) /\ \A m \in 1..n : w[m] \in Int
    BY FS_Interval, InflationAssumption
<1>2. Compounding(n) = ProductOver(w, 1..n)
    BY DEF Compounding, Product, FoldFunction, ProductOver
<1> HIDE DEF w
<1> QED BY <1>1, <1>2, ProductIsInt

(* An annuity is defined by its recursion.                                 *)
IsAnnuity(sum, assets, contribution, factor) ==
    /\ sum[0] = assets
    /\ \A month \in 1..Horizon :
           sum[month] = sum[month - 1] * factor + contribution * Compounding(month)
    /\ \A month \in 0..Horizon : sum[month] \in Int

LEMMA AnnuityIs ==
    ASSUME NEW assets \in Int, NEW contribution \in Int, NEW factor \in Int
    PROVE  IsAnnuity(Annuity(assets, contribution, factor), assets, contribution, factor)
<1> DEFINE step == [p \in Nat \X Int |-> p[2] * factor + contribution * Compounding(p[1])]
           Body(f) == [month \in 0..Horizon |->
                          IF month = 0 THEN assets
                          ELSE f[month - 1] * factor + contribution * Compounding(month)]
           sum == CHOOSE f : f = Body(f)
<1>1. Horizon \in Nat
    BY PlanningAssumption
<1>2. \A m \in Nat, v \in Int : /\ step[<<m, v>>] = v * factor + contribution * Compounding(m)
                                /\ step[<<m, v>>] \in Int
    BY CompoundingIsNat
<1> HIDE DEF step
<1>3. PICK f \in [0..Horizon -> Int] : f = RecursionBody(f, Horizon, assets, step)
    <2>1. \A m \in Nat, v \in Int : step[<<m, v>>] \in Int
        BY <1>2
    <2>2. IsDefined(Horizon, Int, assets, step)
        BY <1>1, <2>1, RecursionExists
    <2> QED BY <2>2 DEF IsDefined
<1>4. RecursionBody(f, Horizon, assets, step) = Body(f)
    <2>1. ASSUME NEW m \in 0..Horizon, m # 0
          PROVE  step[<<m, f[m - 1]>>] = f[m - 1] * factor + contribution * Compounding(m)
        <3>1. m \in Nat /\ f[m - 1] \in Int
            BY <1>1, <2>1
        <3> QED BY <1>2, <3>1
    <2> QED BY <2>1 DEF RecursionBody
<1>5. sum = Body(sum)
    BY <1>3, <1>4
<1>6. Annuity(assets, contribution, factor) = sum
    BY DEF Annuity
<1> HIDE DEF sum
<1>7. /\ sum[0] = assets
      /\ \A month \in 1..Horizon :
             sum[month] = sum[month - 1] * factor + contribution * Compounding(month)
    BY <1>1, <1>5
<1> DEFINE Good == {m \in Nat : m <= Horizon => sum[m] \in Int}
<1>8. 0 \in Good
    BY <1>7
<1>9. ASSUME NEW m \in Nat, m \in Good PROVE m + 1 \in Good
    <2> SUFFICES ASSUME m + 1 <= Horizon PROVE sum[m + 1] \in Int
        OBVIOUS
    <2>1. m + 1 \in 1..Horizon /\ sum[m] \in Int /\ (m + 1) - 1 = m
        BY <1>1, <1>9
    <2>2. sum[m + 1] = sum[m] * factor + contribution * Compounding(m + 1)
        BY <1>7, <2>1
    <2>3. Compounding(m + 1) \in Int
        BY CompoundingIsNat
    <2> QED BY <2>1, <2>2, <2>3
<1>10. Nat \subseteq Good
    <2> HIDE DEF Good
    <2> QED BY <1>8, <1>9, NatSetInduction
<1>11. \A month \in 0..Horizon : sum[month] \in Int
    BY <1>1, <1>10
<1> QED BY <1>6, <1>7, <1>11 DEF IsAnnuity

(* And so are the values of a projection, class by class.                  *)
IsSeries(values, classes, start, factor, contribution, shares) ==
    /\ values[0] = start
    /\ \A month \in 1..Horizon :
           values[month] = [c \in classes |-> values[month - 1][c] * factor[c]
                                + contribution * Of(shares, c) * Compounding(month)]
    /\ \A month \in 0..Horizon : values[month] \in [classes -> Int]

SeriesBody(f, classes, start, factor, contribution, shares) ==
    [month \in 0..Horizon |->
        IF month = 0 THEN start
        ELSE [c \in classes |-> f[month - 1][c] * factor[c]
                                    + contribution * Of(shares, c) * Compounding(month)]]

LEMMA SeriesIs ==
    ASSUME NEW classes, NEW start \in [classes -> Int], NEW factor \in [classes -> Int],
           NEW contribution \in Int, NEW shares, \A c \in classes : Of(shares, c) \in Int,
           NEW values,
           values = CHOOSE f : f = SeriesBody(f, classes, start, factor, contribution, shares)
    PROVE  IsSeries(values, classes, start, factor, contribution, shares)
<1> DEFINE Body(f) == SeriesBody(f, classes, start, factor, contribution, shares)
           Value == [classes -> Int]
           Next1(m, v) == [c \in classes |-> v[c] * factor[c]
                               + contribution * Of(shares, c) * Compounding(m)]
           step == [p \in Nat \X Value |-> Next1(p[1], p[2])]
<1>1. Horizon \in Nat
    BY PlanningAssumption
<1>2. ASSUME NEW m \in Nat, NEW v \in Value PROVE Next1(m, v) \in Value
    <2>1. Compounding(m) \in Int
        BY CompoundingIsNat
    <2> QED BY <2>1
<1>3. \A m \in Nat, v \in Value : step[<<m, v>>] = Next1(m, v) /\ step[<<m, v>>] \in Value
    BY <1>2
<1> HIDE DEF step, Value, Next1
<1>4. PICK f \in [0..Horizon -> Value] : f = RecursionBody(f, Horizon, start, step)
    <2>1. start \in Value
        BY DEF Value
    <2>2. \A m \in Nat, v \in Value : step[<<m, v>>] \in Value
        BY <1>3
    <2>3. IsDefined(Horizon, Value, start, step)
        BY <1>1, <2>1, <2>2, RecursionExists
    <2> QED BY <2>3 DEF IsDefined
<1>5. RecursionBody(f, Horizon, start, step) = Body(f)
    <2>1. ASSUME NEW m \in 0..Horizon, m # 0
          PROVE  step[<<m, f[m - 1]>>] = Next1(m, f[m - 1])
        <3>1. m \in Nat /\ f[m - 1] \in Value
            BY <1>1, <2>1
        <3> QED BY <1>3, <3>1
    <2> QED BY <2>1 DEF RecursionBody, SeriesBody, Next1
<1>6. values = Body(values)
    BY <1>4, <1>5
<1>7. /\ values[0] = start
      /\ \A month \in 1..Horizon : values[month] = Next1(month, values[month - 1])
    <2>1. \A m \in 0..Horizon : values[m] = IF m = 0 THEN start ELSE Next1(m, values[m - 1])
        BY <1>6 DEF SeriesBody, Next1
    <2> QED BY <1>1, <2>1
<1> DEFINE Good == {m \in Nat : m <= Horizon => values[m] \in Value}
<1>8. 0 \in Good
    BY <1>7 DEF Value
<1>9. ASSUME NEW m \in Nat, m \in Good PROVE m + 1 \in Good
    <2> SUFFICES ASSUME m + 1 <= Horizon PROVE values[m + 1] \in Value
        OBVIOUS
    <2>1. m + 1 \in 1..Horizon /\ values[m] \in Value /\ (m + 1) - 1 = m
        BY <1>1, <1>9
    <2>2. values[m + 1] = Next1(m + 1, values[m])
        BY <1>7, <2>1
    <2> QED BY <1>2, <2>1, <2>2
<1>10. Nat \subseteq Good
    <2> HIDE DEF Good
    <2> QED BY <1>8, <1>9, NatSetInduction
<1>11. \A month \in 0..Horizon : values[month] \in Value
    BY <1>1, <1>10
<1> QED BY <1>7, <1>11 DEF IsSeries, Next1, Value

(* A contribution is shared out without rest, also when there is nothing.  *)
SharedOut(shares, base) ==
    /\ IsFiniteSet(DOMAIN shares) /\ \A k \in DOMAIN shares : shares[k] \in Int
    /\ SumOf(shares) = base /\ base \in Int

LEMMA SharesOutContribution ==
    ASSUME NEW class_values, IsFiniteSet(DOMAIN class_values),
           \A k \in DOMAIN class_values : class_values[k] \in Nat
    PROVE  SharedOut(ContributionShares(class_values), Base(class_values))
<1>1. SumOf(class_values) \in Int
    <2>1. \A k \in DOMAIN class_values : class_values[k] \in Int
        OBVIOUS
    <2> QED BY <2>1, SumIsInt, SumOfIs
<1>2. CASE SumOf(class_values) = 0
    <2> DEFINE one == [class \in {"fiat"} |-> 1]
    <2>1. ContributionShares(class_values) = one /\ Base(class_values) = 1
        BY <1>2 DEF ContributionShares, Base
    <2>2. DOMAIN one = {"fiat"} /\ one["fiat"] = 1
        OBVIOUS
    <2> HIDE DEF one
    <2>3. SumOf(one) = 1
        <3>1. SumOver(one, {"fiat"}) = one["fiat"]
            BY <2>2, SumOfOne
        <3> QED BY <2>2, <3>1, SumOfIs
    <2>4. IsFiniteSet(DOMAIN one)
        BY <2>2, FS_Singleton
    <2> QED BY <2>1, <2>2, <2>3, <2>4 DEF SharedOut
<1>3. CASE SumOf(class_values) # 0
    <2>1. ContributionShares(class_values) = class_values
          /\ Base(class_values) = SumOf(class_values)
        BY <1>3 DEF ContributionShares, Base
    <2> QED BY <1>1, <2>1 DEF SharedOut
<1> QED BY <1>2, <1>3

(* When all classes grow alike the sum of a projection is an annuity.      *)
LEMMA SeriesSums ==
    ASSUME NEW classes, IsFiniteSet(classes), NEW start, NEW factor, NEW f \in Int,
           \A c \in classes : factor[c] = f,
           NEW contribution \in Int, NEW base \in Int, NEW assets \in Int,
           NEW shares, SharedOut(shares, base), DOMAIN shares \subseteq classes,
           NEW values, IsSeries(values, classes, start, factor, contribution, shares),
           SumOver(start, classes) = base * assets,
           NEW sum, IsAnnuity(sum, assets, contribution, f)
    PROVE  \A month \in 0..Horizon : SumOver(values[month], classes) = base * sum[month]
<1> DEFINE Good == {m \in Nat : m <= Horizon => SumOver(values[m], classes) = base * sum[m]}
<1>1. Horizon \in Nat
    BY PlanningAssumption
<1>2. 0 \in Good
    BY DEF IsSeries, IsAnnuity
<1>3. ASSUME NEW m \in Nat, m \in Good PROVE m + 1 \in Good
    <2> SUFFICES ASSUME m + 1 <= Horizon
                 PROVE  SumOver(values[m + 1], classes) = base * sum[m + 1]
        OBVIOUS
    <2> DEFINE v == values[m]
               next == values[m + 1]
               unit == Compounding(m + 1)
               all == [c \in classes |-> Of(shares, c)]
               grown == [c \in classes |-> f * v[c]]
               added == [c \in classes |-> (contribution * unit) * all[c]]
    <2>1. m \in 0..Horizon /\ m + 1 \in 1..Horizon /\ (m + 1) - 1 = m
        BY <1>1
    <2>2. unit \in Int
        BY CompoundingIsNat
    <2>3. /\ v \in [classes -> Int]
          /\ next = [c \in classes |-> v[c] * factor[c] + contribution * Of(shares, c) * unit]
          /\ sum[m] \in Int /\ sum[m + 1] = sum[m] * f + contribution * unit
        BY <2>1 DEF IsSeries, IsAnnuity
    <2>4. SumOver(v, classes) = base * sum[m]
        BY <1>1, <1>3, <2>1
    <2>5. \A c \in classes : all[c] = Of(shares, c) /\ all[c] \in Int
        BY DEF Of, SharedOut
    <2>6. SumOver(all, classes) = base
        BY <2>5, SumExtended DEF SharedOut
    <2> HIDE DEF v, next, unit, all
    <2>7. \A c \in classes : v[c] \in Int
        BY <2>3
    <2>8. SumOver(grown, classes) = f * SumOver(v, classes)
        <3>1. \A c \in classes : grown[c] = f * v[c]
            OBVIOUS
        <3> HIDE DEF grown
        <3> QED BY <2>7, <3>1, SumScaled
    <2>9. SumOver(added, classes) = (contribution * unit) * SumOver(all, classes)
        <3>1. \A c \in classes : added[c] = (contribution * unit) * all[c]
            OBVIOUS
        <3>2. contribution * unit \in Int /\ \A c \in classes : all[c] \in Int
            BY <2>2, <2>5
        <3> HIDE DEF added
        <3> QED BY <3>1, <3>2, SumScaled
    <2>10. \A c \in classes : /\ grown[c] \in Int /\ added[c] \in Int
                              /\ next[c] = grown[c] + added[c]
        <3> SUFFICES ASSUME NEW c \in classes
                     PROVE  /\ grown[c] \in Int /\ added[c] \in Int
                            /\ next[c] = grown[c] + added[c]
            OBVIOUS
        <3>1. next[c] = v[c] * f + contribution * all[c] * unit
            BY <2>3, <2>5
        <3>2. v[c] \in Int /\ all[c] \in Int
            BY <2>5, <2>7
        <3>3. /\ v[c] * f = f * v[c]
              /\ contribution * all[c] * unit = (contribution * unit) * all[c]
            BY <2>2, <3>2
        <3>4. f * v[c] \in Int /\ (contribution * unit) * all[c] \in Int
            BY <2>2, <3>2
        <3> QED BY <3>1, <3>3, <3>4
    <2> HIDE DEF grown, added
    <2>11. SumOver(next, classes) = SumOver(grown, classes) + SumOver(added, classes)
        BY <2>10, SumOfSums
    <2>12. f * (base * sum[m]) + (contribution * unit) * base
               = base * (sum[m] * f + contribution * unit)
        <3> DEFINE s == sum[m]
        <3>1. s \in Int
            BY <2>3
        <3> DEFINE cu == contribution * unit
        <3>2. cu \in Int
            BY <2>2
        <3> HIDE DEF s, cu
        <3>3. f * (base * s) = base * (s * f) /\ cu * base = base * cu
            BY <3>1, <3>2
        <3>4. \A x, y \in Int : base * (x + y) = base * x + base * y
            OBVIOUS
        <3>5. s * f \in Int
            BY <3>1
        <3>6. base * (s * f + cu) = base * (s * f) + base * cu
            BY <3>2, <3>4, <3>5
        <3>7. f * (base * s) + cu * base = base * (s * f + cu)
            BY <3>3, <3>6
        <3> QED BY <3>7 DEF s, cu
    <2>13. SumOver(next, classes) = base * sum[m + 1]
        BY <2>3, <2>4, <2>6, <2>8, <2>9, <2>11, <2>12
    <2> QED BY <2>13 DEF next
<1>4. Nat \subseteq Good
    <2> HIDE DEF Good
    <2> QED BY <1>2, <1>3, NatSetInduction
<1> QED BY <1>1, <1>4

(* A projection against what the annuity of its sums says.                 *)
IsProjected(projected, sum, owed) ==
    \A month \in 1..Horizon :
        LET net == projected[month].net_worth_irr
        IN  (net[1] + owed * net[2]) * Compounding(month) = sum[month] * net[2]

LEMMA MonthlyFactorIs ==
    ASSUME NEW annual \in AnnualGrowths, NEW scenario \in DOMAIN Scenarios
    PROVE  MonthlyFactor(annual, scenario) \in Int
<1>1. Scenarios[scenario] \in 1..3
    BY DEF Scenarios
<1> DEFINE n == Scenarios[scenario]
           base == 2 * RateUnit + annual * n
<1>2. base \in Int
    BY <1>1, PlanningAssumption, InflationAssumption
<1>3. base > 0 => Growth[base] \in Int
    BY <1>1, PlanningAssumption
<1>4. MonthlyFactor(annual, scenario) = IF base <= 0 THEN 0 ELSE Growth[base]
    BY DEF MonthlyFactor
<1> HIDE DEF base
<1> QED BY <1>2, <1>3, <1>4

LEMMA ProjectionIsAnnuity ==
    ASSUME NEW class_values, IsFiniteSet(DOMAIN class_values),
           \A k \in DOMAIN class_values : class_values[k] \in Nat,
           NEW owed \in Int, NEW fx, NEW contribution \in Int,
           NEW annual \in AnnualGrowths, NEW scenario \in DOMAIN Scenarios,
           NEW growth, \A c \in DOMAIN class_values \cup {"fiat"} : Of(growth, c) = annual
    PROVE  IsProjected(Project(class_values, owed, fx, growth, contribution, scenario),
                       Annuity(SumOf(class_values), contribution, MonthlyFactor(annual, scenario)),
                       owed)
<1> DEFINE shares == ContributionShares(class_values)
           base == Base(class_values)
           assets == SumOf(class_values)
           classes == DOMAIN class_values \cup DOMAIN shares
           f == MonthlyFactor(annual, scenario)
           factor == [c \in classes |-> MonthlyFactor(Of(growth, c), scenario)]
           start == [c \in classes |-> Of(class_values, c) * base]
           values == CHOOSE v : v = SeriesBody(v, classes, start, factor, contribution, shares)
           sum == Annuity(assets, contribution, f)
           projected == Project(class_values, owed, fx, growth, contribution, scenario)
<1>1. SharedOut(shares, base)
    BY SharesOutContribution
<1>2. /\ DOMAIN shares \subseteq DOMAIN class_values \cup {"fiat"}
      /\ IsFiniteSet(classes) /\ base \in Int
    <2>1. DOMAIN shares \subseteq DOMAIN class_values \cup {"fiat"}
        BY DEF ContributionShares
    <2>2. IsFiniteSet(DOMAIN shares) /\ base \in Int
        BY <1>1 DEF SharedOut
    <2> HIDE DEF shares, base
    <2> QED BY <2>1, <2>2, FS_Union
<1>3. f \in Int
    BY MonthlyFactorIs
<1>4. \A month \in 1..Horizon :
          projected[month].net_worth_irr
              = <<SumOf(values[month]) - owed * (base * Compounding(month)),
                  base * Compounding(month)>>
    BY DEF Project, SeriesBody
<1> HIDE DEF shares, base, f, projected
<1>5. \A c \in classes : factor[c] = f
    BY <1>2 DEF f
<1>6. \A c \in DOMAIN class_values : class_values[c] \in Int
    OBVIOUS
<1>7. \A c \in classes : Of(class_values, c) \in Int /\ Of(shares, c) \in Int
    BY <1>1 DEF Of, SharedOut
<1>8. start \in [classes -> Int] /\ factor \in [classes -> Int]
    <2>1. ASSUME NEW c \in classes PROVE Of(class_values, c) * base \in Int
        BY <1>2, <1>7
    <2>2. start \in [classes -> Int]
        BY <2>1
    <2>3. \A c \in classes : factor[c] \in Int
        BY <1>3, <1>5
    <2> QED BY <2>2, <2>3
<1>9. SumOver(start, classes) = base * assets /\ assets \in Int
    <2> DEFINE all == [c \in classes |-> Of(class_values, c)]
    <2>1. \A c \in classes : all[c] = Of(class_values, c) /\ all[c] \in Int
        BY <1>7
    <2>2. \A c \in classes : start[c] = base * all[c]
        BY <1>2, <1>7
    <2>3. DOMAIN class_values \subseteq classes
        OBVIOUS
    <2> HIDE DEF all, start, classes
    <2>4. SumOver(all, classes) = SumOf(class_values) /\ SumOf(class_values) \in Int
        BY <1>2, <1>6, <2>1, <2>3, SumExtended
    <2>5. SumOver(start, classes) = base * SumOver(all, classes)
        BY <1>2, <2>1, <2>2, SumScaled
    <2> QED BY <2>4, <2>5
<1>10. DOMAIN shares \subseteq classes
    OBVIOUS
<1> HIDE DEF classes, start, factor, values
<1>11. IsSeries(values, classes, start, factor, contribution, shares)
    BY <1>7, <1>8, SeriesIs DEF values
<1>12. IsAnnuity(sum, assets, contribution, f)
    BY <1>3, <1>9, AnnuityIs
<1> HIDE DEF sum, assets
<1>13. \A month \in 0..Horizon : SumOver(values[month], classes) = base * sum[month]
    BY <1>1, <1>2, <1>3, <1>5, <1>9, <1>10, <1>11, <1>12, SeriesSums
<1>14. ASSUME NEW month \in 1..Horizon
       PROVE  LET net == projected[month].net_worth_irr
              IN  (net[1] + owed * net[2]) * Compounding(month) = sum[month] * net[2]
    <2> DEFINE net == projected[month].net_worth_irr
               unit == Compounding(month)
               s == sum[month]
    <2>1. month \in 0..Horizon /\ month \in Nat
        BY PlanningAssumption
    <2>2. unit \in Int /\ s \in Int
        BY <1>12, <2>1, CompoundingIsNat DEF IsAnnuity
    <2>3. SumOf(values[month]) = base * s
        <3>1. DOMAIN values[month] = classes
            BY <1>11, <2>1 DEF IsSeries
        <3> QED BY <1>13, <2>1, <3>1, SumOfIs
    <2>4. net[1] = base * s - owed * (base * unit) /\ net[2] = base * unit
        BY <1>4, <2>3
    <2> HIDE DEF unit, s, net
    <2>5. base * s \in Int /\ owed * (base * unit) \in Int
        BY <1>2, <2>2
    <2>6. net[1] + owed * net[2] = base * s
        BY <2>4, <2>5
    <2>7. (base * s) * unit = s * (base * unit)
        BY <1>2, <2>2
    <2> QED BY <2>4, <2>6, <2>7 DEF unit, s, net
<1> QED BY <1>14 DEF IsProjected, projected, sum, assets, f

(* The value of all holdings is that of their classes.                     *)
LEMMA ClassesAddUp ==
    ASSUME IInv, Covered(posted), NEW at \in Days, ~Raises(ValuedHoldings(at)),
           NEW ccy \in Currencies
    PROVE  /\ SumOf(ClassValues(ValuedHoldings(at), ccy)) = SumIn(ValuedHoldings(at), ccy)
           /\ SumIn(ValuedHoldings(at), ccy) \in Int
<1> DEFINE holdings == ValuedHoldings(at)
           known == {k \in DOMAIN holdings : holdings[k][ccy] # None}
           worth == [k \in known |-> holdings[k][ccy]]
           class_of == [k \in known |-> ClassOf[k[2]]]
           values == ClassValues(holdings, ccy)
           of_class(class) == {p \in DOMAIN holdings : ClassOf[p[2]] = class}
<1>1. DOMAIN holdings = Held(at) /\ IsFiniteSet(Held(at)) /\ IsFiniteSet(known)
    <2>1. DOMAIN holdings = Held(at) /\ IsFiniteSet(Held(at))
        BY HeldIsFinite DEF ValuedHoldings
    <2>2. known \subseteq DOMAIN holdings
        OBVIOUS
    <2> HIDE DEF known
    <2> QED BY <2>1, <2>2, FS_Subset
<1>2. \A k \in known : worth[k] \in Int
    BY <1>1, WorthOutcome, TransactionsAssumption DEF Outcome, Raises
<1>3. IsFiniteSet(DOMAIN values)
    BY ClassValuesAreNat
<1>4. \A k \in known : class_of[k] \in DOMAIN values
    BY DEF ClassValues
<1>5. ASSUME NEW class \in DOMAIN values
      PROVE  values[class] = SumOver(worth, Fibre(class_of, known, class))
    <2> DEFINE part == [pair \in of_class(class) |-> holdings[pair]]
               here == {k \in DOMAIN part : part[k][ccy] # None}
               said == [k \in here |-> part[k][ccy]]
    <2>1. values[class] = SumIn(part, ccy)
        BY <1>5 DEF ClassValues
    <2>2. SumIn(part, ccy) = SumOver(said, here)
        <3> HIDE DEF part
        <3> QED BY DEF SumIn, SumOver, MapThenSumSet, MapThenFoldSet
    <2>3. here = Fibre(class_of, known, class)
        BY DEF Fibre
    <2>4. \A k \in here : said[k] = worth[k]
        OBVIOUS
    <2>5. IsFiniteSet(here)
        <3>1. here \subseteq known
            OBVIOUS
        <3> HIDE DEF here, known
        <3> QED BY <1>1, <3>1, FS_Subset
    <2> HIDE DEF here, said, worth
    <2>6. SumOver(said, here) = SumOver(worth, here)
        BY <2>4, <2>5, SumAgrees
    <2> QED BY <2>1, <2>2, <2>3, <2>6
<1>6. SumIn(holdings, ccy) = SumOver(worth, known)
    <2> HIDE DEF holdings
    <2> QED BY DEF SumIn, SumOver, MapThenSumSet, MapThenFoldSet
<1> HIDE DEF known, worth, class_of, values
<1>7. SumOver(worth, known) = SumOver(values, DOMAIN values)
    BY <1>1, <1>2, <1>3, <1>4, <1>5, SumByFibres
<1>8. SumOver(worth, known) \in Int
    BY <1>1, <1>2, SumIsInt
<1> QED BY <1>6, <1>7, <1>8, SumOfIs DEF values

(* What is owed is a number, also when a debt is negative.                 *)
LEMMA OwedIsInt ==
    ASSUME IInv, NEW at, ~Raises(Debts(at)), NEW ccy \in Currencies
    PROVE  SumIn(Debts(at), ccy) \in Int
<1> DEFINE debts == Debts(at)
           known == {k \in DOMAIN debts : debts[k][ccy] # None}
           owed == [k \in known |-> debts[k][ccy]]
<1>1. DOMAIN debts = DOMAIN liabilities /\ IsFiniteSet(known)
    <2>1. DOMAIN debts = DOMAIN liabilities /\ DOMAIN liabilities = 1..Len(liabilities)
          /\ Len(liabilities) \in Nat
        BY DEF Debts, IInv, TypeOK
    <2>2. IsFiniteSet(DOMAIN debts) /\ known \subseteq DOMAIN debts
        BY <2>1, FS_Interval
    <2> HIDE DEF known
    <2> QED BY <2>1, <2>2, FS_Subset
<1>2. ASSUME NEW amount \in Int, NEW rate \in Outcome
      PROVE  Times(amount, rate) \in Int \cup {None, Raised}
    <2>1. rate \in Nat => Times(amount, rate) = RoundDiv(amount * rate, Precision)
                          \/ Times(amount, rate) \in {None, Raised}
        BY DEF Times
    <2>2. rate \in Nat => RoundDiv(amount * rate, Precision) \in Int
        BY RoundDivInt, PrecisionAssumption
    <2>3. rate \notin Nat => Times(amount, rate) \in {None, Raised}
        BY DEF Times, Outcome
    <2> QED BY <2>1, <2>2, <2>3
<1>3. ASSUME NEW l \in DOMAIN debts PROVE debts[l][ccy] \in Int \cup {None, Raised}
    <2> DEFINE rate == OrElse(UnitRate(liabilities[l], ccy, Day(at)),
                              PriceViaCurrencyAsset(liabilities[l], ccy, Day(at)))
    <2>1. rate \in Outcome
        BY RatesOutcome
    <2>2. TotalOutstanding(l, at) \in Int
        BY DebtIsInt
    <2>3. debts[l][ccy] = Convert(TotalOutstanding(l, at), liabilities[l], ccy, Day(at))
        BY <1>1 DEF Debts
    <2>4. Convert(TotalOutstanding(l, at), liabilities[l], ccy, Day(at))
              \in {TotalOutstanding(l, at), Times(TotalOutstanding(l, at), rate)}
        BY DEF Convert
    <2> HIDE DEF rate
    <2> QED BY <1>2, <2>1, <2>2, <2>3, <2>4
<1>4. \A k \in known : owed[k] \in Int
    BY <1>3 DEF Raises
<1>5. SumIn(debts, ccy) = SumOver(owed, known)
    <2> HIDE DEF debts
    <2> QED BY DEF SumIn, SumOver, MapThenSumSet, MapThenFoldSet
<1> HIDE DEF known, owed
<1> QED BY <1>1, <1>4, <1>5, SumIsInt

LEMMA NetWorthReached ==
    ASSUME NEW net_worth, \A ccy \in Currencies : net_worth[ccy] \in Int,
           NEW g \in DOMAIN Goals,
           NEW progress, progress = ProgressNetWorth(net_worth, Goals[g]),
           progress.remaining # None, Goals[g].target_value > 0
    PROVE  progress.achieved <=> progress.remaining <= 0
<1> DEFINE target == Goals[g].target_value
           current == net_worth[CurrencyOf(Goals[g])]
<1>1. current \in Int
    BY DEF CurrencyOf, Currencies
<1>2. target \in Int \cup {None}
    BY PlanningAssumption
<1> HIDE DEF current, target
<1>3. target \notin {None, 0}
    BY DEF ProgressNetWorth, target
<1>4. target \in Int /\ target > 0
    BY <1>2, <1>3 DEF target
<1>5. progress.remaining = target - current
      /\ progress.achieved = AtLeast(<<100 * current, target>>, 100)
    BY <1>3 DEF ProgressNetWorth, target, current
<1>6. AtLeast(<<100 * current, target>>, 100) <=> (100 * current) * target >= (100 * target) * target
    BY DEF AtLeast
<1>7. (100 * current) * target >= (100 * target) * target <=> current >= target
    <2> DEFINE gap == current - target
    <2>1. (100 * current) * target - (100 * target) * target = 100 * (gap * target)
        BY <1>1, <1>4
    <2>2. gap \in Int /\ gap * target \in Int
        BY <1>1, <1>4
    <2>3. gap >= 0 <=> gap * target >= 0
        <3> HIDE DEF gap
        <3>1. gap >= 0 => gap * target >= 0
            BY <1>4, <2>2
        <3>2. gap < 0 => gap * target < 0
            BY <1>4, <2>2
        <3> QED BY <2>2, <3>1, <3>2
    <2>4. (100 * current) * target \in Int /\ (100 * target) * target \in Int
        BY <1>1, <1>4
    <2>5. (100 * current) * target >= (100 * target) * target <=> gap * target >= 0
        <3> HIDE DEF gap
        <3> QED BY <2>1, <2>2, <2>4
    <2> QED BY <1>1, <1>4, <2>3, <2>5
<1> QED BY <1>1, <1>4, <1>5, <1>6, <1>7

(* When every class grows alike a projection is the growth of the assets   *)
(* of the live net worth and an annuity of the contributions, whatever is  *)
(* held in whatever classes, worth something or nothing, and liabilities   *)
(* do not grow; and a goal of net worth is reached when nothing remains    *)
(* (projection.py:45-75, goals.py:158-170).                                *)
THEOREM ContributionsAreKept == Spec => []ContributionsKept
<1>1. ASSUME IInv, Covered(posted) PROVE ContributionsKept
    <2> DEFINE holdings == ValuedHoldings(Now)
               debts == Debts(Now)
               live == NetWorth(holdings, debts)
               owed == SumIn(debts, IRR)
    <2> SUFFICES ASSUME live # Raised
                 PROVE  /\ \A annual \in AnnualGrowths, contribution \in Contributions,
                              scenario \in DOMAIN Scenarios :
                               IsProjected(Project(ClassValues(holdings, IRR), owed, FxUsdIrr(Day(Now)),
                                                   [c \in Range(ClassOf) \cup {"fiat"} |-> annual],
                                                   contribution, scenario),
                                           Annuity(live.net_worth[IRR] + owed, contribution,
                                                   MonthlyFactor(annual, scenario)),
                                           owed)
                        /\ \A g \in GoalsOf("target_net_worth") :
                               LET progress == ProgressNetWorth(live.net_worth, Goals[g])
                               IN  progress.remaining # None /\ Goals[g].target_value > 0 =>
                                       (progress.achieved <=> progress.remaining <= 0)
        BY DEF ContributionsKept, IsProjected
    <2>1. ~Raises(holdings) /\ ~Raises(debts) /\ Now \in Days
        BY TransactionsAssumption DEF NetWorth
    <2>2. live.net_worth = [c \in Currencies |-> SumIn(holdings, c) - SumIn(debts, c)]
        BY <2>1 DEF NetWorth
    <2>3. ASSUME NEW ccy \in Currencies
          PROVE  /\ SumOf(ClassValues(holdings, ccy)) = SumIn(holdings, ccy)
                 /\ SumIn(holdings, ccy) \in Int /\ SumIn(debts, ccy) \in Int
        BY <1>1, <2>1, ClassesAddUp, OwedIsInt
    <2>4. IRR \in Currencies
        BY DEF Currencies
    <2> DEFINE class_values == ClassValues(holdings, IRR)
    <2>5. /\ IsFiniteSet(DOMAIN class_values)
          /\ \A k \in DOMAIN class_values : class_values[k] \in Nat
        BY <1>1, <2>1, <2>4, ClassValuesAreNat
    <2>6. DOMAIN class_values \subseteq Range(ClassOf)
        BY PlanningAssumption DEF ClassValues, ValuedHoldings, Held, Range
    <2> HIDE DEF holdings, debts, live
    <2>7. live.net_worth[IRR] + owed = SumOf(class_values) /\ owed \in Int
        BY <2>2, <2>3, <2>4
    <2> HIDE DEF class_values, owed
    <2>8. ASSUME NEW annual \in AnnualGrowths, NEW contribution \in Contributions,
                 NEW scenario \in DOMAIN Scenarios
          PROVE  IsProjected(Project(class_values, owed, FxUsdIrr(Day(Now)),
                                     [c \in Range(ClassOf) \cup {"fiat"} |-> annual],
                                     contribution, scenario),
                             Annuity(live.net_worth[IRR] + owed, contribution,
                                     MonthlyFactor(annual, scenario)),
                             owed)
        <3> DEFINE growth == [c \in Range(ClassOf) \cup {"fiat"} |-> annual]
        <3>1. \A c \in DOMAIN class_values \cup {"fiat"} : Of(growth, c) = annual
            BY <2>6 DEF Of
        <3>2. contribution \in Int
            BY PlanningAssumption
        <3> HIDE DEF growth
        <3>3. IsProjected(Project(class_values, owed, FxUsdIrr(Day(Now)), growth, contribution, scenario),
                          Annuity(SumOf(class_values), contribution, MonthlyFactor(annual, scenario)),
                          owed)
            BY <2>5, <2>7, <3>1, <3>2, ProjectionIsAnnuity
        <3> QED BY <2>7, <3>3 DEF growth
    <2>9. ASSUME NEW g \in GoalsOf("target_net_worth"),
                 NEW progress, progress = ProgressNetWorth(live.net_worth, Goals[g]),
                 progress.remaining # None, Goals[g].target_value > 0
          PROVE  progress.achieved <=> progress.remaining <= 0
        <3>1. g \in DOMAIN Goals
            BY DEF GoalsOf
        <3>2. \A ccy \in Currencies : live.net_worth[ccy] \in Int
            BY <2>2, <2>3
        <3> QED BY <2>9, <3>1, <3>2, NetWorthReached
    <2> QED BY <2>8, <2>9 DEF class_values
<1> QED BY <1>1, InvHolds, CoverHolds, PTL
=============================================================================
