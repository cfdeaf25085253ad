---------------------------- MODULE ReplayProofs ----------------------------
(***************************************************************************)
(* What a replay leaves, of any rows and any number of them: where its     *)
(* lots come from, that it consumes them first in, first out, that what is *)
(* sold is realized, and that what is open is what the legs add up to.     *)
(***************************************************************************)
EXTENDS LotsProofs

-----------------------------------------------------------------------------
(* What the replay of an asset relies on.                                  *)
Replayable(rows, table, asset) ==
    /\ IsRows(rows)
    /\ \A i \in DOMAIN rows : Counts(rows[i]) => Shaped(rows[i].type, rows[i].legs)
    /\ table[asset] \subseteq [as_of : Days, price : Nat]

(* There is a latest price among those known by a date, of any number.     *)
LEMMA CostType ==
    ASSUME NEW table, NEW asset, table[asset] \subseteq [as_of : Days, price : Nat],
           NEW leg \in Leg, NEW date \in Int
    PROVE  AcquisitionCost(table, asset, leg, date) \in Nat \cup {None}
<1> DEFINE known == {p \in table[asset] : p.as_of <= date}
<1>1. ASSUME known # {}
      PROVE  \E p \in known : \A q \in known : q.as_of <= p.as_of
  <2>1. \A p \in known : p.as_of \in Int /\ p.as_of <= date
    <3>1. ASSUME NEW p \in known
          PROVE  p.as_of \in Int
      <4>1. p \in [as_of : Days, price : Nat]
        OBVIOUS
      <4>2. p.as_of \in Days
        BY <4>1
      <4>3. Days \subseteq Int
        BY TransactionsAssumption
      <4> QED
        BY <4>2, <4>3, Zenon
    <3> QED
      BY <3>1
  <2> DEFINE back == {date - p.as_of : p \in known}
  <2> HIDE DEF known
  <2>2. back \subseteq Nat /\ back # {}
    BY <1>1, <2>1
  <2>3. PICK n \in back : \A m \in back : n <= m
    <3> HIDE DEF back
    <3> QED
      BY <2>2, LeastNat
  <2>4. PICK p \in known : n = date - p.as_of
    BY DEF back
  <2>5. ASSUME NEW q \in known
        PROVE  q.as_of <= p.as_of
    <3>1. date - p.as_of <= date - q.as_of
      BY <2>3, <2>4
    <3>2. p.as_of \in Int /\ q.as_of \in Int
      BY <2>1
    <3> QED
      BY <3>1, <3>2
  <2> QED
    BY <2>5
<1>2. NearestPrice(table[asset], date) \in Nat \cup {None}
  <2>1. CASE known = {}
    BY <2>1 DEF NearestPrice
  <2>2. CASE known # {}
    <3> DEFINE p == CHOOSE x \in known : \A q \in known : q.as_of <= x.as_of
    <3>1. p \in known
      BY <1>1, <2>2
    <3>2. NearestPrice(table[asset], date) = p.price
      BY <2>2 DEF NearestPrice
    <3> HIDE DEF p
    <3>3. p \in [as_of : Days, price : Nat]
      BY <3>1
    <3> QED
      BY <3>2, <3>3
  <2> QED
    BY <2>1, <2>2
<1>3. leg.unit_price \in Nat \cup {None}
  BY DEF Leg
<1>4. CASE asset \in Fiat
  BY <1>4 DEF AcquisitionCost
<1>5. CASE asset \notin Fiat /\ leg.unit_price # None
  BY <1>3, <1>5 DEF AcquisitionCost
<1>6. CASE asset \notin Fiat /\ leg.unit_price = None
  <2>1. AcquisitionCost(table, asset, leg, date) = NearestPrice(table[asset], date)
    BY <1>6 DEF AcquisitionCost
  <2> QED
    BY <1>2, <2>1
<1> QED
  BY <1>4, <1>5, <1>6

-----------------------------------------------------------------------------
(* One row of a replay: what it takes, the lots and the consumptions it    *)
(* adds.                                                                   *)
NoTake(held) == [i \in DOMAIN held |-> 0]

Grows(st, next, t, new, sales) ==
    /\ st \in ReplayState /\ next \in ReplayState
    /\ LotsGrow(st.lots, next.lots, t, new)
    /\ SalesGrow(st.consumptions, next.consumptions, sales)

Bought(st, next, rows, table, asset, id, l, t, new, sales) ==
    /\ Comes(rows[id], asset, l)
    /\ t = NoTake(st.lots) /\ new = <<IncreaseLot(table, asset, rows, id, l)>> /\ sales = <<>>
    /\ ~next.short

Sold(st, next, rows, asset, id, l, t, new, sales) ==
    /\ Goes(rows[id], asset, l)
    /\ t = Taken(st.lots, rows[id].legs[l].account, -rows[id].legs[l].quantity)
    /\ new = <<>>
    /\ IF rows[id].type = "trade"
       THEN /\ SalesOf(sales, st.lots, t, <<id, l>>)
            /\ Realizes(sales, st.lots, rows[id].legs[l].unit_price)
       ELSE sales = <<>>
    /\ next.short = Shortfall(st.lots, rows[id].legs[l].account, -rows[id].legs[l].quantity)

Brought(st, next, rows, asset, id, out, in, t, new, sales) ==
    /\ Carries(rows[id], asset, out, in)
    /\ t = Taken(st.lots, rows[id].legs[out].account, -rows[id].legs[out].quantity)
    /\ \E from : CarriedFrom(new, st.lots, rows[id], id, out, in, from)
    /\ sales = <<>>
    /\ next.short = Shortfall(st.lots, rows[id].legs[out].account, -rows[id].legs[out].quantity)

Effect(st, next, rows, table, asset, id, t, new, sales) ==
    /\ Grows(st, next, t, new, sales)
    /\ \/ \E l : Bought(st, next, rows, table, asset, id, l, t, new, sales)
       \/ \E l : Sold(st, next, rows, asset, id, l, t, new, sales)
       \/ \E out, in : Brought(st, next, rows, asset, id, out, in, t, new, sales)

LEMMA StateFields ==
    ASSUME NEW st \in ReplayState
    PROVE  /\ IsState(st) /\ st.lots \in Seq(LotRow) /\ st.consumptions \in Seq(SaleRow)
           /\ st.short \in BOOLEAN
BY DEF ReplayState, IsState

LEMMA NothingAdded ==
    ASSUME NEW T, NEW old \in Seq(T)
    PROVE  /\ <<>> \in Seq(T) /\ Len(<<>>) = 0 /\ DOMAIN <<>> = {}
           /\ Len(old) = Len(old) + Len(<<>>) /\ old \o <<>> = old
<1>1. <<>> \in Seq(T) /\ Len(<<>>) = 0 /\ DOMAIN <<>> = {} /\ Len(old) \in Nat
  OBVIOUS
<1>2. old \o <<>> = old
  OBVIOUS
<1> QED
  BY <1>1, <1>2

LEMMA IncreaseEffect ==
    ASSUME NEW rows, NEW table, NEW asset, Replayable(rows, table, asset),
           NEW id \in Relevant(rows, asset), NEW st \in ReplayState, ~st.short,
           NEW l, Comes(rows[id], asset, l)
    PROVE  \E t, new, sales :
             LET next == Increase(st, table, asset, rows, id, l)
             IN  /\ Grows(st, next, t, new, sales)
                 /\ Bought(st, next, rows, table, asset, id, l, t, new, sales)
<1> DEFINE lot == IncreaseLot(table, asset, rows, id, l)
           next == Increase(st, table, asset, rows, id, l)
           t == NoTake(st.lots)
           leg == rows[id].legs[l]
<1>1. /\ id \in Nat /\ rows[id] \in Transaction /\ rows[id].occurred_at \in Days
      /\ rows[id].occurred_at \in Int
  <2>1. id \in Nat /\ rows[id] \in Transaction
    BY DEF Relevant, Replayable, IsRows
  <2>2. rows[id].occurred_at \in Days
    BY <2>1 DEF Transaction
  <2>3. Days \subseteq Int
    BY TransactionsAssumption
  <2>4. rows[id].occurred_at \in Int
    BY <2>2, <2>3, Zenon
  <2> QED
    BY <2>1, <2>2, <2>4
<1>2. /\ l \in Nat /\ leg \in Leg /\ leg.account \in Accounts /\ leg.quantity \in Nat
  <2>1. l \in DOMAIN rows[id].legs /\ leg.quantity > 0
    BY DEF Comes
  <2>2. leg.quantity \in Int /\ leg.account \in Accounts /\ l \in Nat /\ rows[id].legs \in Seq(Leg)
    BY <1>1, <2>1, LegFields
  <2>3. leg \in Leg
    BY <2>1, <2>2
  <2>4. leg.quantity \in Nat
    BY <2>1, <2>2
  <2> QED
    BY <2>2, <2>3, <2>4
<1>3. AcquisitionCost(table, asset, leg, rows[id].occurred_at) \in Nat \cup {None}
  BY <1>1, <1>2, CostType DEF Replayable
<1>4. <<id, l>> \in Nat \X Nat
  BY <1>1, <1>2
<1>5. lot \in LotRow
  <2> DEFINE cost == AcquisitionCost(table, asset, leg, rows[id].occurred_at)
  <2>1. lot = [account |-> leg.account, source_leg |-> <<id, l>>, original_qty |-> leg.quantity,
               remaining_qty |-> leg.quantity, unit_cost |-> cost,
               acquired_at |-> rows[id].occurred_at]
    BY DEF IncreaseLot
  <2>2. cost \in Nat \cup {None}
    BY <1>3
  <2> HIDE DEF cost, lot, leg
  <2> QED
    BY <1>1, <1>2, <1>4, <2>1, <2>2 DEF LotRow
<1>6. st.lots \in Seq(LotRow) /\ st.consumptions \in Seq(SaleRow) /\ IsState(st)
  BY StateFields
<1> HIDE DEF lot
<1>7. /\ next.lots = Append(st.lots, lot) /\ next.consumptions = st.consumptions
      /\ next.short = st.short
      /\ next = [lots |-> next.lots, consumptions |-> next.consumptions, short |-> next.short]
  <2> DEFINE held == st.lots
             sold == st.consumptions
             short == st.short
  <2>1. st = [lots |-> held, consumptions |-> sold, short |-> short]
    BY <1>6 DEF IsState
  <2>2. next = [st EXCEPT !.lots = Append(held, lot)]
    BY DEF Increase, lot
  <2> HIDE DEF next, held, sold, short
  <2>3. next = [lots |-> Append(held, lot), consumptions |-> sold, short |-> short]
    BY <2>1, <2>2
  <2> QED
    BY <2>3 DEF held, sold, short
<1>8. <<lot>> \in Seq(LotRow) /\ Len(<<lot>>) = 1 /\ DOMAIN <<lot>> = {1} /\ <<lot>>[1] = lot
  BY <1>5
<1>9. /\ Append(st.lots, lot) \in Seq(LotRow)
      /\ Len(Append(st.lots, lot)) = Len(st.lots) + 1
      /\ \A i \in 1..Len(st.lots) : Append(st.lots, lot)[i] = st.lots[i]
      /\ Append(st.lots, lot)[Len(st.lots) + 1] = lot
  BY <1>5, <1>6, AppendProperties
<1>10. DOMAIN st.lots = 1..Len(st.lots) /\ Len(st.lots) \in Nat
  BY <1>6
<1> HIDE DEF next
<1>11. LotsGrow(st.lots, next.lots, t, <<lot>>)
  <2>1. ASSUME NEW i \in DOMAIN st.lots
        PROVE  /\ SameLot(st.lots[i], next.lots[i])
               /\ t[i] \in Nat /\ t[i] <= st.lots[i].remaining_qty
               /\ next.lots[i].remaining_qty = st.lots[i].remaining_qty - t[i]
    <3>1. next.lots[i] = st.lots[i] /\ t[i] = 0 /\ st.lots[i].remaining_qty \in Nat
      BY <1>6, <1>7, <1>9, <1>10, LotFields DEF NoTake
    <3> HIDE DEF t
    <3> QED
      BY <3>1 DEF SameLot
  <2>2. \A j \in DOMAIN <<lot>> : next.lots[Len(st.lots) + j] = <<lot>>[j]
    BY <1>7, <1>8, <1>9
  <2> HIDE DEF t
  <2> QED
    BY <1>6, <1>7, <1>8, <1>9, <2>1, <2>2 DEF LotsGrow
<1>12. SalesGrow(st.consumptions, next.consumptions, <<>>)
  <2>1. /\ <<>> \in Seq(SaleRow) /\ DOMAIN <<>> = {}
        /\ Len(st.consumptions) = Len(st.consumptions) + Len(<<>>)
    BY <1>6, NothingAdded
  <2> QED
    BY <1>6, <1>7, <2>1 DEF SalesGrow
<1>13. next \in ReplayState
  <2>1. next.lots \in Seq(LotRow) /\ next.consumptions \in Seq(SaleRow) /\ next.short \in BOOLEAN
    BY <1>6, <1>7, <1>9, StateFields
  <2> QED
    BY <1>7, <2>1 DEF ReplayState
<1>14. Bought(st, next, rows, table, asset, id, l, t, <<lot>>, <<>>)
  BY <1>7 DEF Bought, lot
<1>15. Grows(st, next, t, <<lot>>, <<>>)
  BY <1>11, <1>12, <1>13 DEF Grows
<1> HIDE DEF t
<1> QED
  BY <1>14, <1>15 DEF next

LEMMA GoesQuantity ==
    ASSUME NEW txn \in Transaction, NEW asset, NEW l, Goes(txn, asset, l)
    PROVE  -txn.legs[l].quantity \in Nat \ {0} /\ l \in Nat
<1>1. txn.legs[l].quantity \in Int /\ l \in Nat
  BY LegFields DEF Goes
<1> QED
  BY <1>1 DEF Goes

LEMMA DecreaseEffect ==
    ASSUME NEW rows, NEW table, NEW asset, Replayable(rows, table, asset),
           NEW id \in Relevant(rows, asset), NEW st \in ReplayState,
           NEW l, Goes(rows[id], asset, l)
    PROVE  \E t, new, sales :
             LET next == Decrease(st, rows, id, l)
             IN  /\ Grows(st, next, t, new, sales)
                 /\ Sold(st, next, rows, asset, id, l, t, new, sales)
<1> DEFINE next == Decrease(st, rows, id, l)
           account == rows[id].legs[l].account
           qty == -rows[id].legs[l].quantity
           t == Taken(st.lots, account, qty)
           segments == Segments(st.lots, account, qty)
           sales == Realize(st.lots, rows, id, l, segments)
<1>1. id \in Nat /\ rows[id] \in Transaction
  BY DEF Relevant, Replayable, IsRows
<1>2. qty \in Nat /\ l \in Nat /\ l \in DOMAIN rows[id].legs
  BY <1>1, GoesQuantity DEF Goes
<1>3. st.lots \in Seq(LotRow) /\ st.consumptions \in Seq(SaleRow)
  BY StateFields
<1>4. LotsGrow(st.lots, Consume(st.lots, account, qty), t, <<>>)
  <2> HIDE DEF qty
  <2> QED
    BY <1>2, <1>3, ConsumeLots
<1>5. SegmentsOf(segments, st.lots, t) /\ \A i \in DOMAIN st.lots : t[i] \in Nat
  <2> HIDE DEF qty, account
  <2> QED
    BY <1>2, <1>3, SegmentsName, TakenTypes
<1>6. rows[id].legs[l].unit_price \in Nat \cup {None}
  BY <1>1, <1>2, LegFields
<1>7. /\ sales \in Seq(SaleRow)
      /\ IF rows[id].type = "trade"
         THEN /\ SalesOf(sales, st.lots, t, <<id, l>>)
              /\ Realizes(sales, st.lots, rows[id].legs[l].unit_price)
         ELSE sales = <<>>
  <2> HIDE DEF segments, t, account, qty
  <2>1. CASE rows[id].type = "trade"
    <3>1. /\ SalesOf(sales, st.lots, t, <<id, l>>)
          /\ Realizes(sales, st.lots, rows[id].legs[l].unit_price)
      BY <1>1, <1>2, <1>3, <1>5, <1>6, <2>1, RealizeSales
    <3> QED
      BY <2>1, <3>1 DEF SalesOf
  <2>2. CASE rows[id].type # "trade"
    <3>1. sales = <<>>
      BY <2>2 DEF Realize
    <3> QED
      BY <2>2, <3>1, <1>3, NothingAdded
  <2> QED
    BY <2>1, <2>2
<1>8. next = [lots |-> Consume(st.lots, account, qty),
              consumptions |-> st.consumptions \o sales,
              short |-> Shortfall(st.lots, account, qty)]
  BY DEF Decrease
<1> HIDE DEF next, t, account, qty, sales, segments
<1>9. SalesGrow(st.consumptions, st.consumptions \o sales, sales)
  BY <1>3, <1>7, ConcatGrows DEF SalesGrow
<1>10. Shortfall(st.lots, account, qty) \in BOOLEAN
  BY DEF Shortfall
<1>11. next \in ReplayState
  <2>1. Consume(st.lots, account, qty) \in Seq(LotRow) /\ st.consumptions \o sales \in Seq(SaleRow)
    BY <1>4, <1>9 DEF LotsGrow, SalesGrow
  <2> QED
    BY <1>8, <1>10, <2>1 DEF ReplayState
<1>12. Grows(st, next, t, <<>>, sales)
  BY <1>4, <1>8, <1>9, <1>11 DEF Grows
<1>13. Sold(st, next, rows, asset, id, l, t, <<>>, sales)
  BY <1>7, <1>8 DEF Sold, t, account, qty
<1> QED
  BY <1>12, <1>13 DEF next

LEMMA MovedEffect ==
    ASSUME NEW rows, NEW table, NEW asset, Replayable(rows, table, asset),
           NEW id \in Relevant(rows, asset), NEW st \in ReplayState,
           NEW out, NEW in, Carries(rows[id], asset, out, in)
    PROVE  \E t, new, sales :
             LET next == Moved(st, rows, id, out, in)
             IN  /\ Grows(st, next, t, new, sales)
                 /\ Brought(st, next, rows, asset, id, out, in, t, new, sales)
<1> DEFINE next == Moved(st, rows, id, out, in)
           account == rows[id].legs[out].account
           qty == -rows[id].legs[out].quantity
           t == Taken(st.lots, account, qty)
           new == CarriedLots(st.lots, rows, id, out, in)
<1>1. id \in Nat /\ rows[id] \in Transaction
  BY DEF Relevant, Replayable, IsRows
<1>2. st.lots \in Seq(LotRow) /\ st.consumptions \in Seq(SaleRow)
  BY StateFields
<1>3. qty \in Nat
  BY <1>1, <1>2, ArrivalTypes
<1>4. PICK from : CarriedFrom(new, st.lots, rows[id], id, out, in, from)
  BY <1>1, <1>2, CarriedFields
<1>5. new \in Seq(LotRow)
  BY <1>4 DEF CarriedFrom
<1>6. next = [lots |-> Consume(st.lots, account, qty) \o new,
              consumptions |-> st.consumptions,
              short |-> Shortfall(st.lots, account, qty)]
  BY DEF Moved
<1> HIDE DEF next, t, account, qty, new
<1>7. LotsGrow(st.lots, Consume(st.lots, account, qty) \o new, t, new)
  BY <1>2, <1>3, <1>5, ConsumeAndAdd DEF t
<1>8. SalesGrow(st.consumptions, st.consumptions, <<>>)
  <2>1. /\ <<>> \in Seq(SaleRow) /\ DOMAIN <<>> = {}
        /\ Len(st.consumptions) = Len(st.consumptions) + Len(<<>>)
    BY <1>2, NothingAdded
  <2> QED
    BY <1>2, <2>1 DEF SalesGrow
<1>9. Shortfall(st.lots, account, qty) \in BOOLEAN
  BY DEF Shortfall
<1>10. next \in ReplayState
  <2>1. Consume(st.lots, account, qty) \o new \in Seq(LotRow)
    BY <1>7 DEF LotsGrow
  <2> QED
    BY <1>2, <1>6, <1>9, <2>1 DEF ReplayState
<1>11. Grows(st, next, t, new, <<>>)
  BY <1>6, <1>7, <1>8, <1>10 DEF Grows
<1>12. Brought(st, next, rows, asset, id, out, in, t, new, <<>>)
  BY <1>4, <1>6 DEF Brought, t, account, qty
<1> QED
  BY <1>11, <1>12 DEF next

(* Every row a replay reads, carried out on a state that is not short.     *)
LEMMA EffectOfRow ==
    ASSUME NEW rows, NEW table, NEW asset, Replayable(rows, table, asset),
           NEW id \in Relevant(rows, asset), NEW st \in ReplayState, ~st.short
    PROVE  \E t, new, sales :
             Effect(st, ReplayTxn(st, table, asset, rows, id), rows, table, asset, id, t, new, sales)
<1> DEFINE next == ReplayTxn(st, table, asset, rows, id)
<1>1. /\ rows[id] \in Transaction /\ Shaped(rows[id].type, rows[id].legs)
      /\ LegsIn(rows[id], asset) # {} /\ IsState(st)
  BY StateFields DEF Relevant, Replayable, IsRows
<1>2. \/ \E l : Comes(rows[id], asset, l) /\ next = Increase(st, table, asset, rows, id, l)
      \/ \E l : Goes(rows[id], asset, l) /\ next = Decrease(st, rows, id, l)
      \/ \E out, in : Carries(rows[id], asset, out, in) /\ next = Moved(st, rows, id, out, in)
  BY <1>1, RowEffects
<1> HIDE DEF next
<1>3. ASSUME NEW l, Comes(rows[id], asset, l), next = Increase(st, table, asset, rows, id, l)
      PROVE  \E t, new, sales : Effect(st, next, rows, table, asset, id, t, new, sales)
  <2>1. PICK t, new, sales : /\ Grows(st, next, t, new, sales)
                             /\ Bought(st, next, rows, table, asset, id, l, t, new, sales)
    BY <1>3, IncreaseEffect
  <2>2. Effect(st, next, rows, table, asset, id, t, new, sales)
    BY <2>1 DEF Effect
  <2> QED
    BY <2>2
<1>4. ASSUME NEW l, Goes(rows[id], asset, l), next = Decrease(st, rows, id, l)
      PROVE  \E t, new, sales : Effect(st, next, rows, table, asset, id, t, new, sales)
  <2>1. PICK t, new, sales : /\ Grows(st, next, t, new, sales)
                             /\ Sold(st, next, rows, asset, id, l, t, new, sales)
    BY <1>4, DecreaseEffect
  <2>2. Effect(st, next, rows, table, asset, id, t, new, sales)
    BY <2>1 DEF Effect
  <2> QED
    BY <2>2
<1>5. ASSUME NEW out, NEW in, Carries(rows[id], asset, out, in),
             next = Moved(st, rows, id, out, in)
      PROVE  \E t, new, sales : Effect(st, next, rows, table, asset, id, t, new, sales)
  <2>1. PICK t, new, sales : /\ Grows(st, next, t, new, sales)
                             /\ Brought(st, next, rows, asset, id, out, in, t, new, sales)
    BY <1>5, MovedEffect
  <2>2. Effect(st, next, rows, table, asset, id, t, new, sales)
    BY <2>1 DEF Effect
  <2> QED
    BY <2>2
<1> QED
  BY <1>2, <1>3, <1>4, <1>5 DEF next

-----------------------------------------------------------------------------
(* Where lots come from and what they were sold by, after the rows done of *)
(* a replay.                                                               *)
Legit(rows, asset, done, lot) ==
    /\ lot.source_leg[1] \in done
    /\ lot.source_leg[2] \in LegsIn(rows[lot.source_leg[1]], asset)
    /\ rows[lot.source_leg[1]].legs[lot.source_leg[2]].quantity > 0
    /\ rows[lot.source_leg[1]].legs[lot.source_leg[2]].account = lot.account
    /\ lot.acquired_at <= rows[lot.source_leg[1]].occurred_at
    /\ lot.remaining_qty <= lot.original_qty

FromInflows(st, rows, asset, done) ==
    \A i \in DOMAIN st.lots : Legit(rows, asset, done, st.lots[i])

FromSales(st, rows, asset, done) ==
    \A k \in DOMAIN st.consumptions :
        LET c == st.consumptions[k]
        IN  /\ c.lot \in DOMAIN st.lots
            /\ c.sell_leg[1] \in done /\ rows[c.sell_leg[1]].type = "trade"
            /\ c.sell_leg[2] \in LegsIn(rows[c.sell_leg[1]], asset)
            /\ rows[c.sell_leg[1]].legs[c.sell_leg[2]].quantity < 0
            /\ rows[c.sell_leg[1]].legs[c.sell_leg[2]].account = st.lots[c.lot].account

(* The row that is next: those done were all before it.                    *)
Due(rows, asset, done, id) ==
    /\ id \in Relevant(rows, asset) /\ done \subseteq Relevant(rows, asset) /\ id \notin done
    /\ \A j \in done : ReplayBefore(rows, j, id)

LEMMA RelevantRows ==
    ASSUME NEW rows, IsRows(rows), NEW asset, NEW id \in Relevant(rows, asset)
    PROVE  /\ id \in Nat /\ id \in Int /\ id \in DOMAIN rows /\ rows[id] \in Transaction
           /\ rows[id].occurred_at \in Int
<1>1. id \in Nat /\ id \in DOMAIN rows /\ rows[id] \in Transaction
  BY DEF Relevant, IsRows
<1>2. rows[id].occurred_at \in Days
  BY <1>1 DEF Transaction
<1>3. Days \subseteq Int
  BY TransactionsAssumption
<1>4. rows[id].occurred_at \in Int
  BY <1>2, <1>3, Zenon
<1> QED
  BY <1>1, <1>4

(* What a row adds to the lots comes from its own inflow.                  *)
LEMMA NewLots ==
    ASSUME NEW rows, NEW table, NEW asset, Replayable(rows, table, asset),
           NEW done, NEW id, Due(rows, asset, done, id), NEW st, NEW next,
           NEW t, NEW new, NEW sales, Effect(st, next, rows, table, asset, id, t, new, sales),
           FromInflows(st, rows, asset, done)
    PROVE  \A j \in DOMAIN new : /\ Legit(rows, asset, done \cup {id}, new[j])
                                 /\ new[j].source_leg[1] = id
<1>1. /\ id \in Nat /\ rows[id] \in Transaction /\ rows[id].occurred_at \in Int
  BY RelevantRows DEF Due, Replayable
<1>2. ASSUME NEW l, Bought(st, next, rows, table, asset, id, l, t, new, sales),
             NEW j \in DOMAIN new
      PROVE  Legit(rows, asset, done \cup {id}, new[j]) /\ new[j].source_leg[1] = id
  <2> DEFINE lot == IncreaseLot(table, asset, rows, id, l)
  <2>1. new[j] = lot
    <3>1. new = <<lot>>
      BY <1>2 DEF Bought
    <3> HIDE DEF lot
    <3> QED
      BY <3>1
  <2>2. /\ lot.source_leg = <<id, l>> /\ lot.account = rows[id].legs[l].account
        /\ lot.original_qty = rows[id].legs[l].quantity
        /\ lot.remaining_qty = rows[id].legs[l].quantity
        /\ lot.acquired_at = rows[id].occurred_at
    BY DEF IncreaseLot
  <2> HIDE DEF lot
  <2>3. l \in LegsIn(rows[id], asset) /\ rows[id].legs[l].quantity > 0 /\ l \in DOMAIN rows[id].legs
    BY <1>2 DEF Bought, Comes
  <2>4. rows[id].legs[l].quantity \in Int
    BY <1>1, <2>3, LegFields
  <2> QED
    BY <1>1, <2>1, <2>2, <2>3, <2>4 DEF Legit
<1>3. ASSUME NEW out, NEW in, Brought(st, next, rows, asset, id, out, in, t, new, sales),
             NEW j \in DOMAIN new
      PROVE  Legit(rows, asset, done \cup {id}, new[j]) /\ new[j].source_leg[1] = id
  <2>1. PICK from : CarriedFrom(new, st.lots, rows[id], id, out, in, from)
    BY <1>3 DEF Brought
  <2> DEFINE lot == new[j]
             i == from[j]
  <2>2. /\ lot.account = rows[id].legs[in].account /\ lot.source_leg = <<id, in>>
        /\ lot.original_qty = lot.remaining_qty
        /\ lot.acquired_at = st.lots[i].acquired_at
        /\ i \in DOMAIN st.lots /\ new \in Seq(LotRow)
    <3>1. from[j] \in Open(st.lots, rows[id].legs[out].account)
      BY <2>1 DEF CarriedFrom
    <3>2. i \in DOMAIN st.lots
      BY <3>1 DEF Open
    <3> QED
      BY <2>1, <3>2 DEF CarriedFrom
  <2>3. /\ in \in LegsIn(rows[id], asset) /\ rows[id].legs[in].quantity > 0
    BY <1>3 DEF Brought, Carries
  <2>4. lot.acquired_at <= rows[id].occurred_at /\ lot.remaining_qty <= lot.original_qty
    <3> DEFINE s == st.lots[i].source_leg[1]
    <3>1. s \in done /\ st.lots[i].acquired_at <= rows[s].occurred_at
      BY <2>2 DEF FromInflows, Legit
    <3>2. ReplayBefore(rows, s, id) /\ rows[s].occurred_at \in Int
      BY <3>1, RelevantRows DEF Due, Replayable
    <3>3. rows[s].occurred_at <= rows[id].occurred_at
      BY <1>1, <3>2 DEF ReplayBefore
    <3>4. lot.acquired_at \in Int /\ lot.remaining_qty \in Int
      BY <2>2, LotFields
    <3> HIDE DEF s, lot, i
    <3> QED
      BY <1>1, <2>2, <3>1, <3>2, <3>3, <3>4
  <2> HIDE DEF lot, i
  <2> QED
    BY <2>2, <2>3, <2>4 DEF Legit, lot
<1>4. ASSUME NEW l, Sold(st, next, rows, asset, id, l, t, new, sales), NEW j \in DOMAIN new
      PROVE  FALSE
  BY <1>4 DEF Sold
<1> QED
  BY <1>2, <1>3, <1>4 DEF Effect

LEMMA KeepsInflows ==
    ASSUME NEW rows, NEW table, NEW asset, Replayable(rows, table, asset),
           NEW done, NEW id, Due(rows, asset, done, id), NEW st, NEW next,
           NEW t, NEW new, NEW sales, Effect(st, next, rows, table, asset, id, t, new, sales),
           FromInflows(st, rows, asset, done)
    PROVE  FromInflows(next, rows, asset, done \cup {id})
<1> SUFFICES ASSUME NEW i \in DOMAIN next.lots
             PROVE  Legit(rows, asset, done \cup {id}, next.lots[i])
  BY DEF FromInflows
<1> DEFINE held == st.lots
           after == next.lots
<1>1. LotsGrow(held, after, t, new)
  BY DEF Effect, Grows
<1>2. i \in DOMAIN held \/ \E j \in DOMAIN new : i = Len(held) + j
  BY <1>1, GrownIndex DEF LotsGrow
<1>3. CASE i \in DOMAIN held
  <2>1. Legit(rows, asset, done, held[i])
    BY <1>3 DEF FromInflows
  <2>2. /\ SameLot(held[i], after[i])
        /\ t[i] \in Nat /\ after[i].remaining_qty = held[i].remaining_qty - t[i]
        /\ held[i].remaining_qty \in Nat /\ held[i].original_qty \in Nat
    BY <1>1, <1>3, LotFields DEF LotsGrow
  <2> HIDE DEF held, after
  <2>3. after[i].remaining_qty <= after[i].original_qty
    BY <2>1, <2>2 DEF Legit, SameLot
  <2> QED
    BY <2>1, <2>2, <2>3 DEF Legit, SameLot, after
<1>4. ASSUME NEW j \in DOMAIN new, i = Len(held) + j
      PROVE  Legit(rows, asset, done \cup {id}, after[i])
  <2>1. after[i] = new[j]
    BY <1>1, <1>4 DEF LotsGrow
  <2> QED
    BY <2>1, NewLots
<1> QED
  BY <1>2, <1>3, <1>4

(* What a row adds to the consumptions is what its own outflow takes.      *)
LEMMA NewSales ==
    ASSUME NEW rows, NEW table, NEW asset,
           NEW id, NEW st, NEW next,
           NEW t, NEW new, NEW sales, Effect(st, next, rows, table, asset, id, t, new, sales)
    PROVE  \/ sales = <<>>
           \/ /\ rows[id].type = "trade"
              /\ \E l : /\ Sold(st, next, rows, asset, id, l, t, new, sales)
                        /\ SalesOf(sales, st.lots, t, <<id, l>>)
                        /\ Realizes(sales, st.lots, rows[id].legs[l].unit_price)
BY DEF Effect, Bought, Sold, Brought

LEMMA KeepsSales ==
    ASSUME NEW rows, NEW table, NEW asset, Replayable(rows, table, asset),
           NEW done, NEW id, Due(rows, asset, done, id), NEW st, NEW next,
           NEW t, NEW new, NEW sales, Effect(st, next, rows, table, asset, id, t, new, sales),
           FromSales(st, rows, asset, done)
    PROVE  FromSales(next, rows, asset, done \cup {id})
<1> DEFINE held == st.lots
           after == next.lots
           sold == st.consumptions
           total == next.consumptions
<1>1. LotsGrow(held, after, t, new) /\ SalesGrow(sold, total, sales)
  BY DEF Effect, Grows
<1>2. \A i \in DOMAIN held : i \in DOMAIN after /\ after[i].account = held[i].account
  BY <1>1, GrownIndex DEF LotsGrow, SameLot
<1>3. \A k \in DOMAIN total : k \in DOMAIN sold \/ \E m \in DOMAIN sales : k = Len(sold) + m
  BY <1>1, GrownIndex DEF SalesGrow
<1>4. ASSUME NEW k \in DOMAIN sold
      PROVE  LET c == total[k]
             IN  /\ c.lot \in DOMAIN after
                 /\ c.sell_leg[1] \in done \cup {id} /\ rows[c.sell_leg[1]].type = "trade"
                 /\ c.sell_leg[2] \in LegsIn(rows[c.sell_leg[1]], asset)
                 /\ rows[c.sell_leg[1]].legs[c.sell_leg[2]].quantity < 0
                 /\ rows[c.sell_leg[1]].legs[c.sell_leg[2]].account = after[c.lot].account
  <2>1. total[k] = sold[k]
    BY <1>1 DEF SalesGrow
  <2>2. LET c == sold[k]
        IN  /\ c.lot \in DOMAIN held
            /\ c.sell_leg[1] \in done /\ rows[c.sell_leg[1]].type = "trade"
            /\ c.sell_leg[2] \in LegsIn(rows[c.sell_leg[1]], asset)
            /\ rows[c.sell_leg[1]].legs[c.sell_leg[2]].quantity < 0
            /\ rows[c.sell_leg[1]].legs[c.sell_leg[2]].account = held[c.lot].account
    BY DEF FromSales
  <2> HIDE DEF held, after, sold, total
  <2> QED
    BY <1>2, <2>1, <2>2
<1>5. ASSUME NEW m \in DOMAIN sales
      PROVE  LET c == total[Len(sold) + m]
             IN  /\ c.lot \in DOMAIN after
                 /\ c.sell_leg[1] \in done \cup {id} /\ rows[c.sell_leg[1]].type = "trade"
                 /\ c.sell_leg[2] \in LegsIn(rows[c.sell_leg[1]], asset)
                 /\ rows[c.sell_leg[1]].legs[c.sell_leg[2]].quantity < 0
                 /\ rows[c.sell_leg[1]].legs[c.sell_leg[2]].account = after[c.lot].account
  <2>1. total[Len(sold) + m] = sales[m]
    BY <1>1 DEF SalesGrow
  <2>2. rows[id].type = "trade"
    BY NewSales
  <2>3. PICK l : /\ Sold(st, next, rows, asset, id, l, t, new, sales)
                 /\ SalesOf(sales, held, t, <<id, l>>)
    BY NewSales
  <2>4. l \in LegsIn(rows[id], asset) /\ rows[id].legs[l].quantity < 0
    BY <2>3 DEF Sold, Goes
  <2>5. /\ sales[m].sell_leg = <<id, l>> /\ sales[m].lot \in DOMAIN held
        /\ t[sales[m].lot] > 0
    BY <2>3 DEF SalesOf, SegmentsOf
  <2>6. held[sales[m].lot].account = rows[id].legs[l].account
    <3> DEFINE i == sales[m].lot
               account == rows[id].legs[l].account
               qty == -rows[id].legs[l].quantity
    <3>1. qty \in Nat
      BY <2>3, GoesQuantity, RelevantRows DEF Sold, Due, Replayable
    <3>2. t = Taken(held, account, qty) /\ i \in DOMAIN held /\ t[i] > 0
      BY <2>3, <2>5 DEF Sold
    <3>3. held \in Seq(LotRow)
      BY <1>1 DEF LotsGrow
    <3> HIDE DEF i, account, qty, held
    <3>4. i \in Open(held, account)
      BY <3>1, <3>2, <3>3, TakenTypes
    <3> QED
      BY <3>4 DEF Open, i, account
  <2> HIDE DEF held, after, sold, total
  <2> QED
    BY <1>2, <2>1, <2>2, <2>4, <2>5, <2>6
<1> HIDE DEF held, after, sold
<1>6. ASSUME NEW k \in DOMAIN total
      PROVE  LET c == total[k]
             IN  /\ c.lot \in DOMAIN after
                 /\ c.sell_leg[1] \in done \cup {id} /\ rows[c.sell_leg[1]].type = "trade"
                 /\ c.sell_leg[2] \in LegsIn(rows[c.sell_leg[1]], asset)
                 /\ rows[c.sell_leg[1]].legs[c.sell_leg[2]].quantity < 0
                 /\ rows[c.sell_leg[1]].legs[c.sell_leg[2]].account = after[c.lot].account
  <2> HIDE DEF total
  <2> QED
    BY <1>3, <1>4, <1>5
<1> QED
  BY <1>6 DEF FromSales, after

-----------------------------------------------------------------------------
LEMMA GrownSales ==
    ASSUME NEW sold, NEW total, NEW sales, SalesGrow(sold, total, sales)
    PROVE  /\ Len(sold) \in Nat
           /\ \A k \in DOMAIN sold : k \in DOMAIN total /\ total[k] = sold[k]
           /\ \A m \in DOMAIN sales : /\ Len(sold) + m \in DOMAIN total
                                      /\ Len(sold) + m \notin DOMAIN sold
                                      /\ total[Len(sold) + m] = sales[m]
           /\ \A k \in DOMAIN total : \/ k \in DOMAIN sold
                                      \/ \E m \in DOMAIN sales : k = Len(sold) + m
<1>1. /\ sold \in Seq(SaleRow) /\ sales \in Seq(SaleRow) /\ total \in Seq(SaleRow)
      /\ Len(total) = Len(sold) + Len(sales)
  BY DEF SalesGrow
<1>2. /\ \A k \in DOMAIN total : \/ k \in DOMAIN sold
                                 \/ k \notin DOMAIN sold /\ \E m \in DOMAIN sales : k = Len(sold) + m
      /\ \A k \in DOMAIN sold : k \in DOMAIN total
      /\ \A m \in DOMAIN sales : Len(sold) + m \in DOMAIN total /\ Len(sold) + m \notin DOMAIN sold
      /\ Len(sold) \in Nat
  BY <1>1, GrownIndex
<1>3. /\ \A k \in DOMAIN sold : total[k] = sold[k]
      /\ \A m \in DOMAIN sales : total[Len(sold) + m] = sales[m]
  BY DEF SalesGrow
<1> QED
  BY <1>2, <1>3

(* First in, first out: a sale leaves nothing in the older lots of the     *)
(* account that were there by then.                                        *)
InOrder(st, rows) ==
    \A k \in DOMAIN st.consumptions, i \in DOMAIN st.lots :
        LET c == st.consumptions[k]
        IN  (/\ st.lots[i].account = st.lots[c.lot].account
             /\ st.lots[i].acquired_at < st.lots[c.lot].acquired_at
             /\ ReplayBefore(rows, st.lots[i].source_leg[1], c.sell_leg[1]))
                => st.lots[i].remaining_qty = 0

LEMMA KeepsOrder ==
    ASSUME NEW rows, NEW table, NEW asset, Replayable(rows, table, asset),
           NEW done, NEW id, Due(rows, asset, done, id), NEW st, NEW next,
           NEW t, NEW new, NEW sales, Effect(st, next, rows, table, asset, id, t, new, sales),
           FromInflows(st, rows, asset, done), FromSales(st, rows, asset, done),
           InOrder(st, rows)
    PROVE  InOrder(next, rows)
<1> DEFINE held == st.lots
           after == next.lots
           sold == st.consumptions
           total == next.consumptions
<1>1. LotsGrow(held, after, t, new) /\ SalesGrow(sold, total, sales)
  BY DEF Effect, Grows
<1>2. ASSUME NEW i \in DOMAIN held
      PROVE  /\ i \in DOMAIN after /\ SameLot(held[i], after[i])
             /\ t[i] \in Nat /\ t[i] <= held[i].remaining_qty
             /\ after[i].remaining_qty = held[i].remaining_qty - t[i]
             /\ held[i].remaining_qty \in Nat /\ held[i].acquired_at \in Int /\ i \in Nat
  <2>1. i \in DOMAIN after
    BY <1>1, GrownIndex DEF LotsGrow
  <2> QED
    BY <1>1, <2>1, LotFields DEF LotsGrow
<1>3. ASSUME NEW i \in DOMAIN after, i \notin DOMAIN held
      PROVE  after[i].source_leg[1] = id /\ \E j \in DOMAIN new : TRUE
  <2>1. PICK j \in DOMAIN new : i = Len(held) + j
    BY <1>1, <1>3, GrownIndex DEF LotsGrow
  <2>2. after[i] = new[j]
    BY <1>1, <2>1 DEF LotsGrow
  <2>3. Legit(rows, asset, done \cup {id}, new[j]) /\ new[j].source_leg[1] = id
    BY NewLots
  <2> HIDE DEF after
  <2> QED
    BY <2>2, <2>3
<1>4. ASSUME NEW i \in DOMAIN after, NEW k \in DOMAIN sold,
             after[i].account = after[sold[k].lot].account,
             after[i].acquired_at < after[sold[k].lot].acquired_at,
             ReplayBefore(rows, after[i].source_leg[1], sold[k].sell_leg[1])
      PROVE  after[i].remaining_qty = 0
  <2> DEFINE m == sold[k].lot
             s == sold[k].sell_leg[1]
  <2>1. m \in DOMAIN held /\ s \in done
    BY DEF FromSales
  <2>2. CASE i \in DOMAIN held
    <3>1. SameLot(held[i], after[i]) /\ SameLot(held[m], after[m])
      BY <1>2, <2>1, <2>2
    <3>2. held[i].remaining_qty = 0
      BY <1>4, <2>2, <3>1 DEF InOrder, SameLot
    <3> HIDE DEF held, after
    <3> QED
      BY <1>2, <2>2, <3>2
  <2>3. CASE i \notin DOMAIN held
    <3>1. after[i].source_leg[1] = id
      BY <1>3, <2>3
    <3>2. ReplayBefore(rows, s, id)
      BY <2>1 DEF Due
    <3>3. /\ id \in Int /\ s \in Int /\ rows[id].occurred_at \in Int /\ rows[s].occurred_at \in Int
      BY <2>1, RelevantRows DEF Due, Replayable
    <3>4. ReplayBefore(rows, id, s)
      BY <1>4, <3>1
    <3> HIDE DEF s
    <3> QED
      BY <3>2, <3>3, <3>4 DEF ReplayBefore
  <2> QED
    BY <2>2, <2>3
<1>5. ASSUME NEW i \in DOMAIN after, NEW k \in DOMAIN sales,
             after[i].account = after[sales[k].lot].account,
             after[i].acquired_at < after[sales[k].lot].acquired_at
      PROVE  after[i].remaining_qty = 0
  <2> DEFINE m == sales[k].lot
  <2>1. PICK l : /\ Sold(st, next, rows, asset, id, l, t, new, sales)
                 /\ SalesOf(sales, held, t, <<id, l>>)
    BY NewSales
  <2> DEFINE account == rows[id].legs[l].account
             qty == -rows[id].legs[l].quantity
  <2>2. qty \in Nat
    BY <2>1, GoesQuantity, RelevantRows DEF Sold, Due, Replayable
  <2>3. t = Taken(held, account, qty) /\ new = <<>>
    BY <2>1 DEF Sold
  <2>4. m \in DOMAIN held /\ t[m] > 0
    BY <2>1 DEF SalesOf, SegmentsOf
  <2>5. i \in DOMAIN held
    <3>1. DOMAIN new = {}
      BY <2>3
    <3> QED
      BY <1>3, <3>1
  <2>6. held \in Seq(LotRow)
    BY <1>1 DEF LotsGrow
  <2>7. SameLot(held[i], after[i]) /\ SameLot(held[m], after[m])
    BY <1>2, <2>4, <2>5
  <2>8. held[i].account = held[m].account /\ held[i].acquired_at < held[m].acquired_at
    BY <1>5, <2>7 DEF SameLot
  <2> HIDE DEF held, after, m, account, qty
  <2>9. m \in Open(held, account)
    BY <2>2, <2>3, <2>4, <2>6, TakenTypes
  <2>10. held[m].account = account
    BY <2>9 DEF Open
  <2>11. CASE held[i].remaining_qty = 0
    BY <1>2, <2>5, <2>11
  <2>12. CASE held[i].remaining_qty # 0
    <3>1. i \in Open(held, account)
      BY <1>2, <2>5, <2>8, <2>10, <2>12 DEF Open
    <3>2. FifoBefore(held, i, m)
      BY <2>8 DEF FifoBefore
    <3>3. Take(held, account, qty, m) > 0
      BY <2>2, <2>3, <2>4, <2>6, <2>9, TakenTypes
    <3>4. Take(held, account, qty, i) = held[i].remaining_qty
      BY <2>2, <2>4, <2>6, <3>1, <3>2, <3>3, TakenInOrder
    <3>5. t[i] = held[i].remaining_qty
      BY <2>2, <2>3, <2>5, <2>6, <3>1, <3>4, TakenTypes
    <3> QED
      BY <1>2, <2>5, <3>5
  <2> QED
    BY <2>11, <2>12
<1>6. ASSUME NEW k \in DOMAIN total
      PROVE  (\E j \in DOMAIN sold : total[k] = sold[j]) \/ (\E j \in DOMAIN sales : total[k] = sales[j])
  <2> HIDE DEF total, sold
  <2> QED
    BY <1>1, GrownSales
<1> HIDE DEF held, sold
<1>7. ASSUME NEW k \in DOMAIN total, NEW i \in DOMAIN after,
             after[i].account = after[total[k].lot].account,
             after[i].acquired_at < after[total[k].lot].acquired_at,
             ReplayBefore(rows, after[i].source_leg[1], total[k].sell_leg[1])
      PROVE  after[i].remaining_qty = 0
  <2> HIDE DEF after, total
  <2>1. CASE \E j \in DOMAIN sold : total[k] = sold[j]
    BY <1>4, <1>7, <2>1
  <2>2. CASE \E j \in DOMAIN sales : total[k] = sales[j]
    BY <1>5, <1>7, <2>2
  <2> QED
    BY <1>6, <2>1, <2>2
<1> QED
  BY <1>7 DEF InOrder, after, total

-----------------------------------------------------------------------------
(* The consumptions as sums.                                               *)
Quantities(sold) == [k \in DOMAIN sold |-> sold[k].qty]
SoldBy(sold, leg) == {k \in DOMAIN sold : sold[k].sell_leg = leg}
SoldFrom(sold, i) == {k \in DOMAIN sold : sold[k].lot = i}

(* What a leg is to realize.                                               *)
ToRealize(txn, l) ==
    IF txn.type = "trade" /\ txn.legs[l].quantity < 0 THEN -txn.legs[l].quantity ELSE 0

AllRealized(st, rows, asset, done) ==
    \A j \in done : \A l \in LegsIn(rows[j], asset) :
        SumOver(Quantities(st.consumptions), SoldBy(st.consumptions, <<j, l>>))
            = ToRealize(rows[j], l)

(* The sales from a lot never exceed what has left it.                     *)
WithinLots(st) ==
    \A i \in DOMAIN st.lots :
        SumOver(Quantities(st.consumptions), SoldFrom(st.consumptions, i))
            <= st.lots[i].original_qty - st.lots[i].remaining_qty

LEMMA QuantityTypes ==
    ASSUME NEW sold \in Seq(SaleRow)
    PROVE  /\ IsFiniteSet(DOMAIN sold) /\ DOMAIN sold = 1..Len(sold) /\ Len(sold) \in Nat
           /\ \A k \in DOMAIN sold : Quantities(sold)[k] \in Nat /\ Quantities(sold)[k] = sold[k].qty
<1>1. DOMAIN sold = 1..Len(sold) /\ Len(sold) \in Nat
  OBVIOUS
<1>2. IsFiniteSet(DOMAIN sold)
  BY <1>1, FS_Interval
<1>3. \A k \in DOMAIN sold : sold[k] \in SaleRow
  OBVIOUS
<1> QED
  BY <1>1, <1>2, <1>3 DEF Quantities, SaleRow

(* The sum over a part of the consumptions after a row is the sum over the *)
(* part of those before it, and over the part of those it adds.            *)
LEMMA SoldInTwo ==
    ASSUME NEW sold, NEW total, NEW sales, SalesGrow(sold, total, sales),
           NEW K, NEW old, old = {k \in DOMAIN sold : sold[k] \in K},
           NEW added, added = {m \in DOMAIN sales : sales[m] \in K}
    PROVE  /\ SumOver(Quantities(total), {k \in DOMAIN total : total[k] \in K})
                = SumOver(Quantities(sold), old) + SumOver(Quantities(sales), added)
           /\ SumOver(Quantities(sold), old) \in Nat
           /\ SumOver(Quantities(sales), added) \in Nat
<1> DEFINE all == {k \in DOMAIN total : total[k] \in K}
           n == Len(sold)
           shifted == {n + m : m \in added}
           q == Quantities(total)
<1>1. /\ sold \in Seq(SaleRow) /\ sales \in Seq(SaleRow) /\ total \in Seq(SaleRow)
      /\ n \in Nat /\ DOMAIN sales = 1..Len(sales)
      /\ IsFiniteSet(DOMAIN sold) /\ IsFiniteSet(DOMAIN sales) /\ IsFiniteSet(DOMAIN total)
  BY QuantityTypes DEF SalesGrow
<1>2. /\ \A k \in DOMAIN sold : k \in DOMAIN total /\ total[k] = sold[k]
      /\ \A m \in DOMAIN sales : /\ n + m \in DOMAIN total /\ n + m \notin DOMAIN sold
                                 /\ total[n + m] = sales[m]
      /\ \A k \in DOMAIN total : k \in DOMAIN sold \/ \E m \in DOMAIN sales : k = n + m
  BY GrownSales
<1> HIDE DEF n
<1>3. all = old \cup shifted /\ old \cap shifted = {}
  BY <1>2
<1>4. /\ IsFiniteSet(old) /\ IsFiniteSet(added) /\ IsFiniteSet(shifted)
      /\ \A k \in DOMAIN total : q[k] \in Int /\ q[k] = total[k].qty
  <2>1. IsFiniteSet(old) /\ IsFiniteSet(added)
    BY <1>1, FS_Subset
  <2>2. shifted \subseteq DOMAIN total
    BY <1>2
  <2>3. IsFiniteSet(shifted)
    <3> HIDE DEF shifted
    <3> QED
      BY <1>1, <2>2, FS_Subset
  <2> QED
    BY <1>1, <2>1, <2>3, QuantityTypes
<1>5. old \subseteq DOMAIN total /\ shifted \subseteq DOMAIN total
  BY <1>2
<1> DEFINE f == [m \in added |-> n + m]
<1>6. IsNaming(f, added, shifted)
  <2>1. \A x, y \in added : n + x = n + y => x = y
    <3>1. \A x \in added : x \in Int
      BY <1>1
    <3> QED
      BY <1>1, <3>1
  <2> QED
    BY <2>1 DEF IsNaming
<1> HIDE DEF all, shifted, q
<1>7. SumOver(q, all) = SumOver(q, old) + SumOver(q, shifted)
  BY <1>3, <1>4, <1>5, SumOfBoth
<1>8. SumOver(q, old) = SumOver(Quantities(sold), old)
  <2>1. \A k \in old : q[k] = Quantities(sold)[k]
    BY <1>1, <1>2, <1>4, QuantityTypes
  <2> QED
    BY <1>4, <2>1, SumAgrees
<1>9. SumOver(q, shifted) = SumOver(Quantities(sales), added)
  <2>1. SumOver(q, shifted) = SumOver(Renamed(q, f, added), added)
    <3>1. \A y \in shifted : q[y] \in Int
      BY <1>4, <1>5
    <3> HIDE DEF f
    <3> QED
      BY <1>4, <1>6, <3>1, SumRenamed
  <2>2. ASSUME NEW m \in added
        PROVE  Renamed(q, f, added)[m] = Quantities(sales)[m]
    <3>1. Renamed(q, f, added)[m] = q[n + m]
      BY DEF Renamed
    <3>2. m \in DOMAIN sales
      OBVIOUS
    <3>3. n + m \in DOMAIN total /\ total[n + m] = sales[m]
      BY <1>2, <3>2
    <3>4. q[n + m] = total[n + m].qty
      BY <1>4, <3>3
    <3>5. Quantities(sales)[m] = sales[m].qty
      BY <1>1, <3>2, QuantityTypes
    <3> QED
      BY <3>1, <3>3, <3>4, <3>5
  <2>3. SumOver(Renamed(q, f, added), added) = SumOver(Quantities(sales), added)
    <3> HIDE DEF f
    <3> QED
      BY <1>4, <2>2, SumAgrees
  <2> QED
    BY <2>1, <2>3
<1>10. SumOver(Quantities(sold), old) \in Nat /\ SumOver(Quantities(sales), added) \in Nat
  <2>1. /\ \A k \in old : Quantities(sold)[k] \in Nat
        /\ \A k \in added : Quantities(sales)[k] \in Nat
    BY <1>1, QuantityTypes
  <2> QED
    BY <1>4, <2>1, SumIsNat
<1> QED
  BY <1>7, <1>8, <1>9, <1>10 DEF all, q

(* The consumptions of a sale sum to what it takes, in all and lot by lot. *)
LEMMA SumOfSales ==
    ASSUME NEW held \in Seq(LotRow), NEW t, \A i \in DOMAIN held : t[i] \in Nat,
           NEW sales, NEW leg, SalesOf(sales, held, t, leg)
    PROVE  /\ SumOver(Quantities(sales), DOMAIN sales) = SumOver(t, DOMAIN held)
           /\ \A i \in DOMAIN held : SumOver(Quantities(sales), SoldFrom(sales, i)) = t[i]
<1> DEFINE q == Quantities(sales)
           f == LotNames(sales)
           S == Hit(held, t)
<1>1. /\ sales \in Seq(SaleRow) /\ IsNaming(f, DOMAIN sales, S)
      /\ \A k \in DOMAIN sales : /\ sales[k].lot \in DOMAIN held /\ sales[k].qty = t[sales[k].lot]
                                 /\ sales[k].qty > 0
  BY DEF SalesOf, SegmentsOf
<1>2. /\ IsFiniteSet(DOMAIN sales) /\ \A k \in DOMAIN sales : q[k] \in Nat /\ q[k] = sales[k].qty
  BY <1>1, QuantityTypes
<1>3. IsFiniteSet(DOMAIN held) /\ S \subseteq DOMAIN held /\ IsFiniteSet(S)
  <2>1. IsFiniteSet(DOMAIN held)
    BY OpenLotsOf
  <2>2. S \subseteq DOMAIN held
    BY DEF Hit
  <2> QED
    BY <2>1, <2>2, FS_Subset
<1>4. SumOver(q, DOMAIN sales) = SumOver(t, DOMAIN held)
  <2>1. SumOver(t, DOMAIN held) = SumOver(t, S)
    <3>1. \A i \in S : t[i] \in Int
      BY <1>3
    <3>2. \A i \in DOMAIN held \ S : t[i] = 0
      BY DEF Hit
    <3> HIDE DEF S
    <3> QED
      BY <1>3, <3>1, <3>2, SumWithoutZeros
  <2>2. SumOver(t, S) = SumOver(Renamed(t, f, DOMAIN sales), DOMAIN sales)
    <3>1. \A i \in S : t[i] \in Int
      BY <1>3
    <3> HIDE DEF S, f
    <3> QED
      BY <1>1, <1>2, <3>1, SumRenamed
  <2>3. \A k \in DOMAIN sales : Renamed(t, f, DOMAIN sales)[k] = q[k]
    BY <1>1, <1>2 DEF Renamed, LotNames
  <2>4. SumOver(Renamed(t, f, DOMAIN sales), DOMAIN sales) = SumOver(q, DOMAIN sales)
    <3> HIDE DEF q, f
    <3> QED
      BY <1>2, <2>3, SumAgrees
  <2> QED
    BY <2>1, <2>2, <2>4
<1>5. ASSUME NEW i \in DOMAIN held
      PROVE  SumOver(q, SoldFrom(sales, i)) = t[i]
  <2>1. CASE i \notin S
    <3>1. t[i] = 0
      BY <2>1 DEF Hit
    <3>2. SoldFrom(sales, i) = {}
      BY <1>1, <3>1 DEF SoldFrom
    <3> HIDE DEF q
    <3> QED
      BY <3>1, <3>2, SumOfNone
  <2>2. CASE i \in S
    <3>1. PICK k \in DOMAIN sales : f[k] = i
      <4> HIDE DEF f, S
      <4> QED
        BY <1>1, <2>2 DEF IsNaming
    <3>2. \A m \in DOMAIN sales : f[m] = sales[m].lot
      BY DEF LotNames
    <3>3. SoldFrom(sales, i) = {k}
      <4> HIDE DEF f, S
      <4> QED
        BY <1>1, <3>1, <3>2 DEF SoldFrom, IsNaming
    <3>4. q[k] = t[i] /\ q[k] \in Int
      BY <1>1, <1>2, <3>1, <3>2
    <3> HIDE DEF q
    <3> QED
      BY <3>3, <3>4, SumOfOne
  <2> QED
    BY <2>1, <2>2
<1> QED
  BY <1>4, <1>5

LEMMA KeepsRealized ==
    ASSUME NEW rows, NEW table, NEW asset, Replayable(rows, table, asset),
           NEW done, NEW id, Due(rows, asset, done, id), NEW st, NEW next, ~next.short,
           NEW t, NEW new, NEW sales, Effect(st, next, rows, table, asset, id, t, new, sales),
           FromSales(st, rows, asset, done), AllRealized(st, rows, asset, done)
    PROVE  AllRealized(next, rows, asset, done \cup {id})
<1> SUFFICES ASSUME NEW j \in done \cup {id}, NEW l \in LegsIn(rows[j], asset)
             PROVE  SumOver(Quantities(next.consumptions), SoldBy(next.consumptions, <<j, l>>))
                        = ToRealize(rows[j], l)
  BY DEF AllRealized
<1> DEFINE held == st.lots
           sold == st.consumptions
           total == next.consumptions
           K == {c \in SaleRow : c.sell_leg = <<j, l>>}
           old == {k \in DOMAIN sold : sold[k] \in K}
           added == {m \in DOMAIN sales : sales[m] \in K}
           all == {k \in DOMAIN total : total[k] \in K}
<1>1. SalesGrow(sold, total, sales) /\ LotsGrow(held, next.lots, t, new)
  BY DEF Effect, Grows
<1>2. sold \in Seq(SaleRow) /\ total \in Seq(SaleRow) /\ sales \in Seq(SaleRow) /\ held \in Seq(LotRow)
  BY <1>1 DEF SalesGrow, LotsGrow
<1>3. /\ old = SoldBy(sold, <<j, l>>) /\ added = SoldBy(sales, <<j, l>>)
      /\ all = SoldBy(total, <<j, l>>)
  BY <1>2 DEF SoldBy
<1> HIDE DEF K
<1>4. /\ SumOver(Quantities(total), all)
             = SumOver(Quantities(sold), old) + SumOver(Quantities(sales), added)
      /\ SumOver(Quantities(sold), old) \in Nat /\ SumOver(Quantities(sales), added) \in Nat
  BY <1>1, SoldInTwo
<1>5. \A k \in DOMAIN sold : sold[k].sell_leg[1] \in done
  BY DEF FromSales
<1>6. \A m \in DOMAIN sales : sales[m].sell_leg[1] = id
  <2> SUFFICES ASSUME NEW m \in DOMAIN sales
               PROVE  sales[m].sell_leg[1] = id
    OBVIOUS
  <2>1. sales # <<>>
    OBVIOUS
  <2>2. PICK n : SalesOf(sales, held, t, <<id, n>>)
    BY <2>1, NewSales
  <2> QED
    BY <2>2 DEF SalesOf
<1>7. CASE j \in done
  <2>1. added = {}
    BY <1>3, <1>6, <1>7 DEF Due, SoldBy
  <2>2. SumOver(Quantities(sold), old) = ToRealize(rows[j], l)
    BY <1>3, <1>7 DEF AllRealized
  <2>3. SumOver(Quantities(sales), added) = 0
    BY <2>1, SumOfNone
  <2> HIDE DEF old, added, all, sold, total
  <2> QED
    BY <1>3, <1>4, <2>2, <2>3 DEF total
<1>8. CASE j = id
  <2>1. old = {}
    BY <1>3, <1>5, <1>8 DEF Due, SoldBy
  <2>2. SumOver(Quantities(sold), old) = 0
    BY <2>1, SumOfNone
  <2>3. SumOver(Quantities(sales), added) = ToRealize(rows[id], l)
    <3>1. ASSUME sales = <<>>, ToRealize(rows[id], l) = 0
          PROVE  SumOver(Quantities(sales), added) = ToRealize(rows[id], l)
      <4>1. added = {}
        BY <3>1
      <4> QED
        BY <3>1, <4>1, SumOfNone
    <3>2. rows[id] \in Transaction
      BY RelevantRows DEF Due, Replayable
    <3>3. ASSUME NEW n, Bought(st, next, rows, table, asset, id, n, t, new, sales)
          PROVE  sales = <<>> /\ ToRealize(rows[id], l) = 0
      <4>1. l = n /\ n \in DOMAIN rows[id].legs /\ rows[id].legs[n].quantity > 0 /\ sales = <<>>
        BY <1>8, <3>3 DEF Bought, Comes
      <4>2. rows[id].legs[n].quantity \in Int
        BY <3>2, <4>1, LegFields
      <4>3. ~(rows[id].legs[n].quantity < 0)
        BY <4>1, <4>2
      <4> QED
        BY <4>1, <4>3 DEF ToRealize
    <3>4. ASSUME NEW out, NEW in, Brought(st, next, rows, asset, id, out, in, t, new, sales)
          PROVE  sales = <<>> /\ ToRealize(rows[id], l) = 0
      <4>1. rows[id].type = "transfer" /\ sales = <<>>
        BY <3>4 DEF Brought, Carries
      <4> QED
        BY <4>1 DEF ToRealize
    <3>5. ASSUME NEW n, Sold(st, next, rows, asset, id, n, t, new, sales)
          PROVE  SumOver(Quantities(sales), added) = ToRealize(rows[id], l)
      <4>1. l = n /\ rows[id].legs[n].quantity < 0
        BY <1>8, <3>5 DEF Sold, Goes
      <4>2. CASE rows[id].type # "trade"
        <5>1. sales = <<>> /\ ToRealize(rows[id], l) = 0
          BY <3>5, <4>2 DEF Sold, ToRealize
        <5> QED
          BY <3>1, <5>1
      <4>3. CASE rows[id].type = "trade"
        <5> DEFINE account == rows[id].legs[n].account
                   qty == -rows[id].legs[n].quantity
        <5>1. SalesOf(sales, held, t, <<id, n>>) /\ t = Taken(held, account, qty)
          BY <3>5, <4>3 DEF Sold
        <5>2. added = DOMAIN sales
          <6>1. \A m \in DOMAIN sales : sales[m].sell_leg = <<j, l>>
            BY <1>8, <4>1, <5>1 DEF SalesOf
          <6> QED
            BY <1>3, <6>1 DEF SoldBy
        <5>3. qty \in Nat
          BY <3>2, <3>5, GoesQuantity DEF Sold
        <5>4. ~Shortfall(held, account, qty)
          BY <3>5 DEF Sold
        <5>5. ToRealize(rows[id], l) = qty
          BY <4>1, <4>3 DEF ToRealize
        <5> HIDE DEF account, qty, held, added
        <5>6. SumOver(t, DOMAIN held) = qty
          BY <1>2, <5>1, <5>3, <5>4, TakesAddUp
        <5>7. \A i \in DOMAIN held : t[i] \in Nat
          BY <1>2, <5>1, <5>3, TakenTypes
        <5>8. SumOver(Quantities(sales), DOMAIN sales) = SumOver(t, DOMAIN held)
          BY <1>2, <5>1, <5>7, SumOfSales
        <5> QED
          BY <5>2, <5>5, <5>6, <5>8
      <4> QED
        BY <4>2, <4>3
    <3> HIDE DEF added
    <3> QED
      BY <3>1, <3>3, <3>4, <3>5 DEF Effect
  <2> HIDE DEF old, added, all, sold, total
  <2> QED
    BY <1>3, <1>4, <1>8, <2>2, <2>3 DEF total
<1> QED
  BY <1>7, <1>8

LEMMA KeepsWithin ==
    ASSUME NEW rows, NEW table, NEW asset, Replayable(rows, table, asset),
           NEW done, NEW id, Due(rows, asset, done, id), NEW st, NEW next,
           NEW t, NEW new, NEW sales, Effect(st, next, rows, table, asset, id, t, new, sales),
           FromInflows(st, rows, asset, done), FromSales(st, rows, asset, done),
           WithinLots(st)
    PROVE  WithinLots(next)
<1> SUFFICES ASSUME NEW i \in DOMAIN next.lots
             PROVE  SumOver(Quantities(next.consumptions), SoldFrom(next.consumptions, i))
                        <= next.lots[i].original_qty - next.lots[i].remaining_qty
  BY DEF WithinLots
<1> DEFINE held == st.lots
           after == next.lots
           sold == st.consumptions
           total == next.consumptions
           K == {c \in SaleRow : c.lot = i}
           old == {k \in DOMAIN sold : sold[k] \in K}
           added == {m \in DOMAIN sales : sales[m] \in K}
           all == {k \in DOMAIN total : total[k] \in K}
<1>1. SalesGrow(sold, total, sales) /\ LotsGrow(held, after, t, new)
  BY DEF Effect, Grows
<1>2. /\ sold \in Seq(SaleRow) /\ total \in Seq(SaleRow) /\ sales \in Seq(SaleRow)
      /\ held \in Seq(LotRow) /\ after \in Seq(LotRow)
  BY <1>1 DEF SalesGrow, LotsGrow
<1>3. /\ old = SoldFrom(sold, i) /\ added = SoldFrom(sales, i) /\ all = SoldFrom(total, i)
  BY <1>2 DEF SoldFrom
<1> HIDE DEF K
<1>4. /\ SumOver(Quantities(total), all)
             = SumOver(Quantities(sold), old) + SumOver(Quantities(sales), added)
      /\ SumOver(Quantities(sold), old) \in Nat /\ SumOver(Quantities(sales), added) \in Nat
  BY <1>1, SoldInTwo
<1>5. \A k \in DOMAIN sold : sold[k].lot \in DOMAIN held
  BY DEF FromSales
<1>6. \A k \in DOMAIN held : t[k] \in Nat
  BY <1>1 DEF LotsGrow
<1>7. /\ \A m \in DOMAIN sales : sales[m].lot \in DOMAIN held
      /\ i \in DOMAIN held => SumOver(Quantities(sales), added) <= t[i]
  <2>1. CASE sales = <<>>
    <3>1. added = {} /\ DOMAIN sales = {}
      BY <2>1
    <3>2. SumOver(Quantities(sales), added) = 0
      BY <3>1, SumOfNone
    <3> QED
      BY <1>6, <3>1, <3>2
  <2>2. CASE sales # <<>>
    <3>1. PICK n : SalesOf(sales, held, t, <<id, n>>)
      BY <2>2, NewSales
    <3>2. \A m \in DOMAIN sales : sales[m].lot \in DOMAIN held
      BY <3>1 DEF SalesOf, SegmentsOf
    <3>3. i \in DOMAIN held => SumOver(Quantities(sales), SoldFrom(sales, i)) = t[i]
      <4> HIDE DEF held
      <4> QED
        BY <1>2, <1>6, <3>1, SumOfSales
    <3> HIDE DEF added
    <3> QED
      BY <1>3, <1>6, <3>2, <3>3
  <2> QED
    BY <2>1, <2>2
<1>8. CASE i \in DOMAIN held
  <2>1. /\ SameLot(held[i], after[i]) /\ after[i].remaining_qty = held[i].remaining_qty - t[i]
        /\ held[i].remaining_qty \in Nat /\ held[i].original_qty \in Nat
    BY <1>1, <1>2, <1>8, LotFields DEF LotsGrow
  <2>2. SumOver(Quantities(sold), old) <= held[i].original_qty - held[i].remaining_qty
    BY <1>3, <1>8 DEF WithinLots
  <2> HIDE DEF held, after, sold, total, old, added, all
  <2>3. SumOver(Quantities(total), all) <= after[i].original_qty - after[i].remaining_qty
    BY <1>4, <1>6, <1>7, <1>8, <2>1, <2>2 DEF SameLot
  <2> QED
    BY <1>3, <2>3 DEF after, total
<1>9. CASE i \notin DOMAIN held
  <2>1. old = {} /\ added = {}
    BY <1>3, <1>5, <1>7, <1>9 DEF SoldFrom
  <2>2. SumOver(Quantities(sold), old) = 0 /\ SumOver(Quantities(sales), added) = 0
    BY <2>1, SumOfNone
  <2>3. Legit(rows, asset, done \cup {id}, after[i])
    BY KeepsInflows DEF FromInflows
  <2>4. after[i].original_qty \in Nat /\ after[i].remaining_qty \in Nat
    BY <1>2, LotFields
  <2> HIDE DEF after, sold, total, old, added, all
  <2> QED
    BY <1>3, <1>4, <2>2, <2>3, <2>4 DEF Legit, after, total
<1> QED
  BY <1>8, <1>9

-----------------------------------------------------------------------------
(* What is open of an account, and what the legs of the account add up to. *)
HeldIn(held, account) == {i \in DOMAIN held : held[i].account = account}

OpenSum(held, account) == SumOver(Remaining(held), HeldIn(held, account))

LEMMA OpenIsHeld ==
    ASSUME NEW held \in Seq(LotRow), NEW account
    PROVE  /\ Quantity(held, Open(held, account)) = OpenSum(held, account)
           /\ OpenSum(held, account) \in Nat
           /\ IsFiniteSet(HeldIn(held, account)) /\ HeldIn(held, account) \subseteq DOMAIN held
<1> DEFINE S == Open(held, account)
           T == HeldIn(held, account)
           w == Remaining(held)
<1>1. T \subseteq DOMAIN held /\ S \subseteq T
  BY DEF Open, HeldIn
<1>2. IsFiniteSet(T) /\ \A i \in DOMAIN held : w[i] \in Nat
  BY <1>1, OpenLotsOf, FS_Subset
<1>3. \A i \in T \ S : w[i] = 0
  <2>1. \A i \in T : held[i].account = account /\ held[i].remaining_qty \in Nat /\ w[i] = held[i].remaining_qty
    BY <1>1, LotFields DEF HeldIn
  <2>2. \A i \in T : i \notin S => ~(held[i].remaining_qty > 0)
    BY <1>1, <2>1 DEF Open
  <2> HIDE DEF S, T, w
  <2> QED
    BY <2>1, <2>2
<1>4. Quantity(held, S) = SumOver(w, S)
  BY <1>1, QuantityIsSum
<1> HIDE DEF S, T, w
<1>5. SumOver(w, T) = SumOver(w, S)
  <2>1. \A i \in S : w[i] \in Int
    BY <1>1, <1>2
  <2> QED
    BY <1>1, <1>2, <1>3, <2>1, SumWithoutZeros
<1>6. SumOver(w, T) \in Nat
  <2>1. \A i \in T : w[i] \in Nat
    BY <1>1, <1>2
  <2> QED
    BY <1>2, <2>1, SumIsNat
<1> QED
  BY <1>1, <1>2, <1>4, <1>5, <1>6 DEF OpenSum, S, T, w

(* A sum over the lots after a row is one over those there were before and *)
(* one over those it adds.                                                 *)
LowPart(S, n) == {i \in 1..n : i \in S}
HighPart(S, n, m) == {j \in 1..m : n + j \in S}

LEMMA GrownSum ==
    ASSUME NEW n \in Nat, NEW m \in Nat, NEW w, \A i \in 1..(n + m) : w[i] \in Int,
           NEW S \in SUBSET (1..(n + m)),
           NEW old, old = LowPart(S, n), NEW added, added = HighPart(S, n, m),
           NEW v, \A i \in old : v[i] = w[i],
           NEW u, \A j \in added : u[j] = w[n + j]
    PROVE  SumOver(w, S) = SumOver(v, old) + SumOver(u, added)
<1> DEFINE shifted == {n + j : j \in added}
           f == [j \in added |-> n + j]
<1>0. old = {i \in 1..n : i \in S} /\ added = {j \in 1..m : n + j \in S}
  BY DEF LowPart, HighPart
<1>1. S = old \cup shifted /\ old \cap shifted = {}
  <2>1. ASSUME NEW i \in S
        PROVE  i \in old \/ i \in shifted
    <3>1. i \in 1..n \/ (i - n \in 1..m /\ i = n + (i - n))
      OBVIOUS
    <3> QED
      BY <1>0, <3>1
  <2>2. \A j \in 1..m : n + j \notin 1..n
    OBVIOUS
  <2> QED
    BY <1>0, <2>1, <2>2
<1>2. IsFiniteSet(old) /\ IsFiniteSet(added) /\ IsFiniteSet(S) /\ IsFiniteSet(shifted)
  <2>1. IsFiniteSet(1..n) /\ IsFiniteSet(1..m) /\ IsFiniteSet(1..(n + m))
    BY FS_Interval
  <2>2. IsFiniteSet(old) /\ IsFiniteSet(added) /\ IsFiniteSet(S)
    BY <1>0, <2>1, FS_Subset
  <2>3. shifted \subseteq S
    BY <1>1
  <2> HIDE DEF shifted
  <2> QED
    BY <2>2, <2>3, FS_Subset
<1>3. IsNaming(f, added, shifted)
  <2>1. \A x, y \in added : n + x = n + y => x = y
    <3>1. \A x \in added : x \in Int
      BY <1>0
    <3> QED
      BY <3>1
  <2> QED
    BY <2>1 DEF IsNaming
<1>4. \A j \in added : Renamed(w, f, added)[j] = u[j]
  BY DEF Renamed
<1>5. \A i \in S : w[i] \in Int
  OBVIOUS
<1> HIDE DEF shifted, f
<1>6. SumOver(w, S) = SumOver(w, old) + SumOver(w, shifted)
  BY <1>1, <1>2, <1>5, SumOfBoth
<1>7. SumOver(w, old) = SumOver(v, old)
  BY <1>2, SumAgrees
<1>8. SumOver(w, shifted) = SumOver(Renamed(w, f, added), added)
  BY <1>1, <1>2, <1>3, <1>5, SumRenamed
<1>9. SumOver(Renamed(w, f, added), added) = SumOver(u, added)
  BY <1>2, <1>4, SumAgrees
<1> QED
  BY <1>6, <1>7, <1>8, <1>9

(* What a row changes of what is open.                                     *)
LEMMA OpenChanges ==
    ASSUME NEW held, NEW after, NEW t, NEW new, LotsGrow(held, after, t, new), NEW account
    PROVE  /\ OpenSum(after, account) =
                OpenSum(held, account) - SumOver(t, HeldIn(held, account)) + OpenSum(new, account)
           /\ SumOver(t, HeldIn(held, account)) \in Int
<1> DEFINE w == Remaining(after)
           v == [i \in DOMAIN held |-> Remaining(held)[i] - t[i]]
           n == Len(held)
           m == Len(new)
           S == HeldIn(after, account)
           old == HeldIn(held, account)
           added == HeldIn(new, account)
<1>1. held \in Seq(LotRow) /\ new \in Seq(LotRow) /\ after \in Seq(LotRow)
  BY DEF LotsGrow
<1>2. /\ n \in Nat /\ m \in Nat /\ DOMAIN held = 1..n /\ DOMAIN new = 1..m
      /\ DOMAIN after = 1..(n + m)
  BY <1>1 DEF LotsGrow
<1>3. \A i \in 1..n : /\ i \in DOMAIN after /\ after[i].account = held[i].account
                      /\ w[i] = v[i] /\ v[i] = Remaining(held)[i] - t[i]
                      /\ t[i] \in Int /\ Remaining(held)[i] \in Int
  <2> SUFFICES ASSUME NEW i \in 1..n
               PROVE  /\ i \in DOMAIN after /\ after[i].account = held[i].account
                      /\ w[i] = v[i] /\ v[i] = Remaining(held)[i] - t[i]
                      /\ t[i] \in Int /\ Remaining(held)[i] \in Int
    OBVIOUS
  <2>1. i \in DOMAIN held /\ i \in DOMAIN after
    BY <1>2
  <2>2. /\ SameLot(held[i], after[i]) /\ t[i] \in Nat
        /\ after[i].remaining_qty = held[i].remaining_qty - t[i]
    BY <2>1 DEF LotsGrow
  <2>3. /\ Remaining(held)[i] = held[i].remaining_qty /\ held[i].remaining_qty \in Nat
        /\ w[i] = after[i].remaining_qty
    BY <1>1, <2>1, LotFields
  <2> HIDE DEF w
  <2> QED
    BY <2>1, <2>2, <2>3 DEF SameLot
<1>4. \A j \in 1..m : /\ n + j \in DOMAIN after /\ after[n + j].account = new[j].account
                      /\ w[n + j] = Remaining(new)[j]
  <2> SUFFICES ASSUME NEW j \in 1..m
               PROVE  /\ n + j \in DOMAIN after /\ after[n + j].account = new[j].account
                      /\ w[n + j] = Remaining(new)[j]
    OBVIOUS
  <2>1. j \in DOMAIN new /\ n + j \in DOMAIN after
    BY <1>2
  <2>2. after[n + j] = new[j]
    BY <2>1 DEF LotsGrow
  <2> QED
    BY <2>1, <2>2 DEF Remaining
<1>5. \A i \in 1..(n + m) : w[i] \in Int
  BY <1>1, <1>2, LotFields
<1>6. /\ S \in SUBSET (1..(n + m)) /\ old = LowPart(S, n) /\ added = HighPart(S, n, m)
      /\ old \subseteq 1..n /\ added \subseteq 1..m
  <2>1. S = {i \in 1..(n + m) : after[i].account = account}
    BY <1>2 DEF HeldIn
  <2>2. old = {i \in 1..n : held[i].account = account}
    BY <1>2 DEF HeldIn
  <2>3. added = {j \in 1..m : new[j].account = account}
    BY <1>2 DEF HeldIn
  <2> HIDE DEF S, old, added, w, v, n, m
  <2>4. \A i \in 1..n : i \in S <=> held[i].account = account
    BY <1>2, <1>3, <2>1
  <2>5. \A j \in 1..m : n + j \in S <=> new[j].account = account
    BY <1>2, <1>4, <2>1
  <2> QED
    BY <2>1, <2>2, <2>3, <2>4, <2>5 DEF LowPart, HighPart
<1>7. SumOver(w, S) = SumOver(v, old) + SumOver(Remaining(new), added)
  <2> DEFINE u == Remaining(new)
  <2> HIDE DEF S, old, added, w, v, n, m, u
  <2>1. \A i \in old : v[i] = w[i]
    BY <1>3, <1>6
  <2>2. \A j \in added : u[j] = w[n + j]
    BY <1>4, <1>6 DEF u
  <2>3. n \in Nat /\ m \in Nat
    BY <1>2
  <2>4. SumOver(w, S) = SumOver(v, old) + SumOver(u, added)
    BY <1>5, <1>6, <2>1, <2>2, <2>3, GrownSum
  <2> QED
    BY <2>4 DEF u
<1>8. /\ SumOver(Remaining(held), old) = SumOver(v, old) + SumOver(t, old)
      /\ SumOver(v, old) \in Int /\ SumOver(t, old) \in Int
  <2>1. IsFiniteSet(old) /\ old \subseteq DOMAIN held
    BY <1>1, OpenIsHeld
  <2> HIDE DEF S, old, added, w, v, n, m
  <2>2. ASSUME NEW i \in old
        PROVE  v[i] \in Int /\ t[i] \in Int /\ Remaining(held)[i] = v[i] + t[i]
    <3>1. i \in 1..n
      BY <1>6
    <3>2. v[i] = Remaining(held)[i] - t[i] /\ t[i] \in Int /\ Remaining(held)[i] \in Int
      BY <1>3, <3>1
    <3> QED
      BY <3>2
  <2>3. SumOver(Remaining(held), old) = SumOver(v, old) + SumOver(t, old)
    <3>1. \A i \in old : v[i] \in Int /\ t[i] \in Int /\ Remaining(held)[i] \in Int
      <4>1. \A i \in old : Remaining(held)[i] = v[i] + t[i]
        BY <2>2
      <4> QED
        BY <2>2, <4>1
    <3> QED
      BY <2>1, <2>2, <3>1, SumOfSums
  <2>4. SumOver(v, old) \in Int /\ SumOver(t, old) \in Int
    BY <2>1, <2>2, SumIsInt
  <2> QED
    BY <2>3, <2>4
<1>9. /\ OpenSum(new, account) \in Nat
      /\ OpenSum(after, account) = SumOver(w, S) /\ OpenSum(held, account) = SumOver(Remaining(held), old)
      /\ OpenSum(new, account) = SumOver(Remaining(new), added)
  BY <1>1, OpenIsHeld DEF OpenSum
<1> HIDE DEF S, added, w, v, n, m
<1> QED
  BY <1>7, <1>8, <1>9

(* The open lots of every account hold what the legs of the rows done add  *)
(* up to.                                                                  *)
Reconciled(st, rows, asset, done) ==
    \A a \in Accounts : OpenSum(st.lots, a) = LegSum(rows, <<a, asset>>, done)

IsPair(pair, account, asset) == pair = <<account, asset>>

IsGain(sum, txn, l, account) ==
    sum = IF account = txn.legs[l].account THEN txn.legs[l].quantity ELSE 0

LEMMA OneLegSum ==
    ASSUME NEW rows, NEW id, rows[id] \in Transaction, NEW asset, NEW l,
           l \in DOMAIN rows[id].legs, LegsIn(rows[id], asset) = {l},
           NEW a, NEW pair, IsPair(pair, a, asset)
    PROVE  IsGain(LegSum(rows, pair, {id}), rows[id], l, a)
<1>1. rows[id].legs[l].quantity \in Int
  BY LegFields
<1>2. \A k \in DOMAIN rows[id].legs : rows[id].legs[k].asset = asset <=> k = l
  BY DEF LegsIn
<1>3. CASE a = rows[id].legs[l].account
  <2>1. \A k \in DOMAIN rows[id].legs :
          <<rows[id].legs[k].account, rows[id].legs[k].asset>> = pair <=> k = l
    BY <1>2, <1>3 DEF IsPair
  <2>2. LegSum(rows, pair, {id}) = rows[id].legs[l].quantity
    BY <1>1, <2>1, LegSumOfOne
  <2> QED
    BY <1>3, <2>2 DEF IsGain
<1>4. CASE a # rows[id].legs[l].account
  <2>1. \A i \in {id} : \A k \in DOMAIN rows[i].legs :
          <<rows[i].legs[k].account, rows[i].legs[k].asset>> # pair
    BY <1>2, <1>4 DEF IsPair
  <2> QED
    BY <1>4, <2>1, LegSumOfNone DEF IsGain
<1> QED
  BY <1>3, <1>4

IsMove(sum, txn, out, in, account) ==
    sum = IF account = txn.legs[out].account THEN txn.legs[out].quantity
          ELSE IF account = txn.legs[in].account THEN txn.legs[in].quantity
          ELSE 0

LEMMA CarriedSum ==
    ASSUME NEW rows, NEW id, rows[id] \in Transaction, NEW asset, NEW out, NEW in,
           Carries(rows[id], asset, out, in), NEW a, NEW pair, IsPair(pair, a, asset)
    PROVE  IsMove(LegSum(rows, pair, {id}), rows[id], out, in, a)
<1>1. rows[id].legs[out].quantity \in Int /\ rows[id].legs[in].quantity \in Int
  BY LegFields DEF Carries
<1>2. /\ DOMAIN rows[id].legs = {out, in} /\ rows[id].legs[out].asset = asset /\ rows[id].legs[in].asset = asset
      /\ rows[id].legs[out].account # rows[id].legs[in].account /\ out # in
  BY DEF Carries
<1>3. CASE a = rows[id].legs[out].account
  <2>1. \A k \in DOMAIN rows[id].legs : <<rows[id].legs[k].account, rows[id].legs[k].asset>> = pair <=> k = out
    BY <1>2, <1>3 DEF IsPair
  <2>2. out \in DOMAIN rows[id].legs /\ rows[id].legs[out].quantity \in Int
    BY <1>1, <1>2
  <2>3. LegSum(rows, pair, {id}) = rows[id].legs[out].quantity
    BY <2>1, <2>2, LegSumOfOne
  <2> QED
    BY <1>3, <2>3 DEF IsMove
<1>4. CASE a # rows[id].legs[out].account /\ a = rows[id].legs[in].account
  <2>1. \A k \in DOMAIN rows[id].legs : <<rows[id].legs[k].account, rows[id].legs[k].asset>> = pair <=> k = in
    BY <1>2, <1>4 DEF IsPair
  <2>2. in \in DOMAIN rows[id].legs /\ rows[id].legs[in].quantity \in Int
    BY <1>1, <1>2
  <2>3. LegSum(rows, pair, {id}) = rows[id].legs[in].quantity
    BY <2>1, <2>2, LegSumOfOne
  <2> QED
    BY <1>4, <2>3 DEF IsMove
<1>5. CASE a # rows[id].legs[out].account /\ a # rows[id].legs[in].account
  <2>1. \A i \in {id} : \A k \in DOMAIN rows[i].legs :
          <<rows[i].legs[k].account, rows[i].legs[k].asset>> # pair
    BY <1>2, <1>5 DEF IsPair
  <2> QED
    BY <1>5, <2>1, LegSumOfNone DEF IsMove
<1> QED
  BY <1>3, <1>4, <1>5 DEF IsMove

(* A covered outflow takes its quantity from its own account alone.        *)
LEMMA TakenIn ==
    ASSUME NEW held \in Seq(LotRow), NEW account, NEW qty \in Nat,
           ~Shortfall(held, account, qty), NEW a
    PROVE  SumOver(Taken(held, account, qty), HeldIn(held, a)) = IF a = account THEN qty ELSE 0
<1> DEFINE t == Taken(held, account, qty)
           S == Open(held, account)
           T == HeldIn(held, a)
<1>1. /\ IsFiniteSet(T) /\ T \subseteq DOMAIN held /\ SumOver(t, S) = qty
      /\ \A i \in DOMAIN held : t[i] \in Nat
  BY OpenIsHeld, TakesAddUp, TakenTypes
<1>2. \A i \in DOMAIN held : i \notin S => t[i] = 0
  BY DEF Taken
<1>3. CASE a = account
  <2>1. S \subseteq T
    BY <1>3 DEF Open, HeldIn
  <2>2. \A i \in S : t[i] \in Int
    BY <1>1, <2>1
  <2>3. \A i \in T \ S : t[i] = 0
    BY <1>1, <1>2
  <2> HIDE DEF t, S, T
  <2>4. SumOver(t, T) = SumOver(t, S)
    BY <1>1, <2>1, <2>2, <2>3, SumWithoutZeros
  <2> QED
    BY <1>1, <1>3, <2>4 DEF t, T
<1>4. CASE a # account
  <2>1. \A i \in T \ {} : t[i] = 0
    BY <1>1, <1>2, <1>4 DEF Open, HeldIn
  <2> HIDE DEF t, S, T
  <2>2. SumOver(t, T) = SumOver(t, {})
    <3>1. {} \in SUBSET T /\ \A i \in {} : t[i] \in Int
      OBVIOUS
    <3> QED
      BY <1>1, <2>1, <3>1, SumWithoutZeros
  <2> QED
    BY <1>4, <2>2, SumOfNone DEF t, T
<1> QED
  BY <1>3, <1>4

LEMMA OpenOfNone ==
    ASSUME NEW a PROVE OpenSum(<<>>, a) = 0
<1>1. HeldIn(<<>>, a) = {}
  BY DEF HeldIn
<1> QED
  BY <1>1, SumOfNone DEF OpenSum

LEMMA OpenOfOne ==
    ASSUME NEW lot \in LotRow, NEW a
    PROVE  OpenSum(<<lot>>, a) = IF a = lot.account THEN lot.remaining_qty ELSE 0
<1> DEFINE w == Remaining(<<lot>>)
<1>1. DOMAIN <<lot>> = {1} /\ <<lot>>[1] = lot
  OBVIOUS
<1>2. lot.remaining_qty \in Int
  BY DEF LotRow
<1>3. w[1] = lot.remaining_qty
  BY <1>1 DEF Remaining
<1>4. CASE a = lot.account
  <2>1. HeldIn(<<lot>>, a) = {1}
    BY <1>1, <1>4 DEF HeldIn
  <2> HIDE DEF w
  <2>2. SumOver(w, {1}) = lot.remaining_qty
    BY <1>2, <1>3, SumOfOne
  <2> QED
    BY <1>4, <2>1, <2>2 DEF OpenSum, w
<1>5. CASE a # lot.account
  <2>1. HeldIn(<<lot>>, a) = {}
    BY <1>1, <1>5 DEF HeldIn
  <2> QED
    BY <1>5, <2>1, SumOfNone DEF OpenSum
<1> QED
  BY <1>4, <1>5

(* Where all that is sent arrives, the ratio is one and every lot arrives  *)
(* as it left.                                                             *)
LEMMA WholeArrives ==
    ASSUME NEW held \in Seq(LotRow), NEW txn \in Transaction, NEW asset, NEW out, NEW in,
           Carries(txn, asset, out, in), Whole(txn.type, txn.legs)
    PROVE  /\ Ratio(txn, out, in) = Precision
           /\ txn.legs[in].quantity = -txn.legs[out].quantity
           /\ Arrivals(held, txn, out, in)
                = Taken(held, txn.legs[out].account, -txn.legs[out].quantity)
<1> DEFINE sent == -txn.legs[out].quantity
           received == txn.legs[in].quantity
           src == txn.legs[out].account
<1>1. sent \in Nat \ {0} /\ received \in Nat \ {0}
  BY ArrivalTypes
<1>2. txn.legs[out].quantity + txn.legs[in].quantity = 0 /\ txn.legs[out].quantity \in Int
  <2>1. txn.legs[out].quantity + txn.legs[in].quantity = 0
    BY DEF Carries, Whole
  <2> QED
    BY <2>1, LegFields DEF Carries
<1>3. received = sent
  BY <1>1, <1>2
<1>4. Ratio(txn, out, in) = Precision
  <2>1. Ratio(txn, out, in) = RoundDiv(received * Precision, sent)
    BY DEF Ratio
  <2> HIDE DEF sent, received
  <2>2. received * Precision = Precision * sent /\ Precision \in Nat
    BY <1>1, <1>3, PrecisionAssumption
  <2>3. RoundDiv(Precision * sent, sent) = Precision
    BY <1>1, <2>2, RoundDivExact
  <2> QED
    BY <2>1, <2>2, <2>3
<1>5. ASSUME NEW i \in DOMAIN held
      PROVE  Arriving(held, src, sent, Ratio(txn, out, in), i) = Take(held, src, sent, i)
  <2>1. Take(held, src, sent, i) \in 0..held[i].remaining_qty /\ held[i].remaining_qty \in Nat
    <3> HIDE DEF sent
    <3> QED
      BY <1>1, TakeCases, LotFields
  <2>2. Take(held, src, sent, i) \in Nat
    BY <2>1
  <2>3. RoundDiv(Take(held, src, sent, i) * Precision, Precision) = Take(held, src, sent, i)
    <3> DEFINE take == Take(held, src, sent, i)
    <3>1. take \in Nat
      BY <2>2
    <3> HIDE DEF take
    <3>2. RoundDiv(take * Precision, Precision) = take
      BY <3>1, PrecisionAssumption, RoundDivExact
    <3> QED
      BY <3>2 DEF take
  <2> QED
    BY <1>4, <2>3 DEF Arriving
<1>6. Arrivals(held, txn, out, in) = Taken(held, src, sent)
  <2> HIDE DEF src, sent
  <2>1. \A i \in DOMAIN held :
          Arriving(held, src, sent, Ratio(txn, out, in), i) = Take(held, src, sent, i)
    BY <1>5
  <2> QED
    BY <2>1 DEF Arrivals, Taken, src, sent
<1> QED
  BY <1>3, <1>4, <1>6

LEMMA OpenOfCarried ==
    ASSUME NEW held \in Seq(LotRow), NEW txn \in Transaction, NEW asset, NEW out, NEW in,
           Carries(txn, asset, out, in), Whole(txn.type, txn.legs),
           ~Shortfall(held, txn.legs[out].account, -txn.legs[out].quantity),
           NEW new, NEW id, NEW from, CarriedFrom(new, held, txn, id, out, in, from), NEW a
    PROVE  OpenSum(new, a) = IF a = txn.legs[in].account THEN txn.legs[in].quantity ELSE 0
<1> DEFINE src == txn.legs[out].account
           sent == -txn.legs[out].quantity
           t == Taken(held, src, sent)
           S == Hit(held, t)
           w == Remaining(new)
<1>1. Arrivals(held, txn, out, in) = t /\ txn.legs[in].quantity = sent
  BY WholeArrives
<1>2. sent \in Nat
  BY ArrivalTypes
<1>3. /\ new \in Seq(LotRow) /\ IsNaming(from, DOMAIN new, S)
      /\ \A k \in DOMAIN new : new[k].account = txn.legs[in].account /\ new[k].remaining_qty = t[from[k]]
  BY <1>1 DEF CarriedFrom
<1>4. CASE a = txn.legs[in].account
  <2>1. HeldIn(new, a) = DOMAIN new
    BY <1>3, <1>4 DEF HeldIn
  <2>2. IsFiniteSet(DOMAIN new) /\ IsFiniteSet(DOMAIN held)
    BY <1>3, OpenLotsOf
  <2>3. \A i \in DOMAIN held : t[i] \in Nat
    BY <1>2, TakenTypes
  <2>4. SumOver(t, DOMAIN held) = sent
    <3> HIDE DEF sent, src
    <3> QED
      BY <1>2, TakesAddUp DEF sent, src
  <2>5. SumOver(t, DOMAIN held) = SumOver(t, S)
    <3>1. S \in SUBSET DOMAIN held /\ \A i \in S : t[i] \in Int
      BY <2>3 DEF Hit
    <3>2. \A i \in DOMAIN held \ S : t[i] = 0
      BY <2>3 DEF Hit
    <3> HIDE DEF S, t
    <3> QED
      BY <2>2, <3>1, <3>2, SumWithoutZeros
  <2>6. SumOver(t, S) = SumOver(Renamed(t, from, DOMAIN new), DOMAIN new)
    <3>1. \A i \in S : t[i] \in Int
      BY <2>3 DEF Hit
    <3> HIDE DEF S, t
    <3> QED
      BY <1>3, <2>2, <3>1, SumRenamed
  <2>7. SumOver(Renamed(t, from, DOMAIN new), DOMAIN new) = SumOver(w, DOMAIN new)
    <3>1. \A k \in DOMAIN new : Renamed(t, from, DOMAIN new)[k] = w[k]
      BY <1>3 DEF Renamed, Remaining
    <3> HIDE DEF t, w
    <3> QED
      BY <2>2, <3>1, SumAgrees
  <2> QED
    BY <1>1, <1>4, <2>1, <2>4, <2>5, <2>6, <2>7 DEF OpenSum
<1>5. CASE a # txn.legs[in].account
  <2>1. HeldIn(new, a) = {}
    BY <1>3, <1>5 DEF HeldIn
  <2> QED
    BY <1>5, <2>1, SumOfNone DEF OpenSum
<1> QED
  BY <1>4, <1>5

(* What a row takes and adds of an account's lots, and its legs there.     *)
Balanced(st, rows, asset, id, t, new) ==
    \A a \in Accounts :
        OpenSum(new, a) - SumOver(t, HeldIn(st.lots, a)) = LegSum(rows, <<a, asset>>, {id})

LEMMA TakesNothing ==
    ASSUME NEW held \in Seq(LotRow), NEW a
    PROVE  SumOver(NoTake(held), HeldIn(held, a)) = 0
<1> DEFINE t == NoTake(held)
           T == HeldIn(held, a)
<1>1. IsFiniteSet(T) /\ T \subseteq DOMAIN held
  BY OpenIsHeld
<1>2. \A i \in T \ {} : t[i] = 0
  BY <1>1 DEF NoTake
<1>3. {} \in SUBSET T /\ \A i \in {} : t[i] \in Int
  OBVIOUS
<1> HIDE DEF t, T
<1>4. SumOver(t, T) = SumOver(t, {})
  BY <1>1, <1>2, <1>3, SumWithoutZeros
<1> QED
  BY <1>4, SumOfNone DEF t, T

LEMMA RowBalanced ==
    ASSUME NEW rows, NEW table, NEW asset, Replayable(rows, table, asset),
           NEW id \in Relevant(rows, asset), Whole(rows[id].type, rows[id].legs),
           NEW st, NEW next, ~next.short, NEW t, NEW new, NEW sales,
           Effect(st, next, rows, table, asset, id, t, new, sales)
    PROVE  Balanced(st, rows, asset, id, t, new)
<1> SUFFICES ASSUME NEW a \in Accounts
             PROVE  OpenSum(new, a) - SumOver(t, HeldIn(st.lots, a)) = LegSum(rows, <<a, asset>>, {id})
  BY DEF Balanced
<1> DEFINE held == st.lots
           pair == <<a, asset>>
<1>0. IsPair(pair, a, asset)
  BY DEF IsPair
<1> HIDE DEF pair
<1>1. LotsGrow(held, next.lots, t, new) /\ held \in Seq(LotRow) /\ new \in Seq(LotRow)
  BY DEF Effect, Grows, LotsGrow
<1>2. rows[id] \in Transaction
  BY RelevantRows DEF Replayable
<1>3. ASSUME NEW l, Bought(st, next, rows, table, asset, id, l, t, new, sales)
      PROVE  OpenSum(new, a) - SumOver(t, HeldIn(held, a)) = LegSum(rows, pair, {id})
  <2> DEFINE lot == IncreaseLot(table, asset, rows, id, l)
  <2>1. lot.account = rows[id].legs[l].account /\ lot.remaining_qty = rows[id].legs[l].quantity
    BY DEF IncreaseLot
  <2>2. new = <<lot>> /\ t = NoTake(held)
    BY <1>3 DEF Bought
  <2> HIDE DEF lot, held
  <2>3. lot \in LotRow
    <3>1. 1 \in DOMAIN new /\ new[1] = lot
      BY <2>2
    <3> QED
      BY <1>1, <3>1, LotFields
  <2>4. /\ l \in DOMAIN rows[id].legs /\ LegsIn(rows[id], asset) = {l}
        /\ rows[id].legs[l].quantity \in Int
    BY <1>2, <1>3, LegFields DEF Bought, Comes
  <2>5. SumOver(t, HeldIn(held, a)) = 0
    BY <1>1, <2>2, TakesNothing
  <2>6. OpenSum(new, a) = IF a = rows[id].legs[l].account THEN rows[id].legs[l].quantity ELSE 0
    BY <2>1, <2>2, <2>3, OpenOfOne
  <2>7. LegSum(rows, pair, {id})
            = IF a = rows[id].legs[l].account THEN rows[id].legs[l].quantity ELSE 0
    <3>1. IsGain(LegSum(rows, pair, {id}), rows[id], l, a)
      BY <1>0, <1>2, <2>4, OneLegSum
    <3> QED
      BY <3>1 DEF IsGain
  <2> QED
    BY <2>4, <2>5, <2>6, <2>7
<1>4. ASSUME NEW l, Sold(st, next, rows, asset, id, l, t, new, sales)
      PROVE  OpenSum(new, a) - SumOver(t, HeldIn(held, a)) = LegSum(rows, pair, {id})
  <2> DEFINE account == rows[id].legs[l].account
             qty == -rows[id].legs[l].quantity
  <2>1. qty \in Nat /\ rows[id].legs[l].quantity \in Int
    BY <1>2, <1>4, GoesQuantity, LegFields DEF Sold, Goes
  <2>2. t = Taken(held, account, qty) /\ new = <<>> /\ ~Shortfall(held, account, qty)
    BY <1>4 DEF Sold
  <2>3. l \in DOMAIN rows[id].legs /\ LegsIn(rows[id], asset) = {l}
    BY <1>4 DEF Sold, Goes
  <2>4. LegSum(rows, pair, {id})
            = IF a = account THEN rows[id].legs[l].quantity ELSE 0
    <3>1. IsGain(LegSum(rows, pair, {id}), rows[id], l, a)
      BY <1>0, <1>2, <2>3, OneLegSum
    <3> QED
      BY <3>1 DEF IsGain
  <2>5. OpenSum(new, a) = 0
    BY <2>2, OpenOfNone
  <2>6. SumOver(t, HeldIn(held, a)) = IF a = account THEN qty ELSE 0
    <3> HIDE DEF held, account, qty
    <3> QED
      BY <1>1, <2>1, <2>2, TakenIn
  <2> HIDE DEF held, account
  <2> QED
    BY <2>1, <2>4, <2>5, <2>6
<1>5. ASSUME NEW out, NEW in, Brought(st, next, rows, asset, id, out, in, t, new, sales)
      PROVE  OpenSum(new, a) - SumOver(t, HeldIn(held, a)) = LegSum(rows, pair, {id})
  <2> DEFINE account == rows[id].legs[out].account
             qty == -rows[id].legs[out].quantity
  <2>1. Carries(rows[id], asset, out, in)
    BY <1>5 DEF Brought
  <2>2. /\ qty \in Nat /\ rows[id].legs[out].quantity \in Int /\ rows[id].legs[in].quantity \in Int
        /\ account # rows[id].legs[in].account
    BY <1>1, <1>2, <2>1, ArrivalTypes, LegFields DEF Carries
  <2>3. t = Taken(held, account, qty) /\ ~Shortfall(held, account, qty)
    BY <1>5 DEF Brought
  <2>4. PICK from : CarriedFrom(new, held, rows[id], id, out, in, from)
    BY <1>5 DEF Brought
  <2>5. LegSum(rows, pair, {id}) =
            IF a = account THEN rows[id].legs[out].quantity
            ELSE IF a = rows[id].legs[in].account THEN rows[id].legs[in].quantity ELSE 0
    <3>1. IsMove(LegSum(rows, pair, {id}), rows[id], out, in, a)
      BY <1>0, <1>2, <2>1, CarriedSum
    <3> QED
      BY <3>1 DEF IsMove
  <2>6. OpenSum(new, a) = IF a = rows[id].legs[in].account THEN rows[id].legs[in].quantity ELSE 0
    BY <1>1, <1>2, <2>1, <2>3, <2>4, OpenOfCarried
  <2>7. SumOver(t, HeldIn(held, a)) = IF a = account THEN qty ELSE 0
    <3> HIDE DEF held, account, qty
    <3> QED
      BY <1>1, <2>2, <2>3, TakenIn
  <2> HIDE DEF held, account
  <2> QED
    BY <2>2, <2>5, <2>6, <2>7
<1> QED
  BY <1>3, <1>4, <1>5 DEF Effect, pair

LEMMA DoneRows ==
    ASSUME NEW rows, NEW table, NEW asset, Replayable(rows, table, asset),
           NEW done, NEW id, Due(rows, asset, done, id), NEW pair
    PROVE  /\ LegSum(rows, pair, done \cup {id}) = LegSum(rows, pair, done) + LegSum(rows, pair, {id})
           /\ LegSum(rows, pair, done) \in Int /\ LegSum(rows, pair, {id}) \in Int
<1>1. IsRows(rows) /\ done \in SUBSET DOMAIN rows /\ id \in DOMAIN rows /\ id \notin done
  BY DEF Due, Relevant, Replayable
<1>2. {id} \in SUBSET DOMAIN rows
  BY <1>1
<1> QED
  BY <1>1, <1>2, LegSumWith, LegSumIsInt

LEMMA KeepsReconciled ==
    ASSUME NEW rows, NEW table, NEW asset, Replayable(rows, table, asset),
           NEW done, NEW id, Due(rows, asset, done, id), Whole(rows[id].type, rows[id].legs),
           NEW st, NEW next, ~next.short, NEW t, NEW new, NEW sales,
           Effect(st, next, rows, table, asset, id, t, new, sales),
           Reconciled(st, rows, asset, done)
    PROVE  Reconciled(next, rows, asset, done \cup {id})
<1> SUFFICES ASSUME NEW a \in Accounts
             PROVE  OpenSum(next.lots, a) = LegSum(rows, <<a, asset>>, done \cup {id})
  BY DEF Reconciled
<1>1. LotsGrow(st.lots, next.lots, t, new) /\ st.lots \in Seq(LotRow) /\ new \in Seq(LotRow)
  BY DEF Effect, Grows, LotsGrow
<1>2. /\ OpenSum(next.lots, a) =
           OpenSum(st.lots, a) - SumOver(t, HeldIn(st.lots, a)) + OpenSum(new, a)
      /\ SumOver(t, HeldIn(st.lots, a)) \in Int
  BY <1>1, OpenChanges
<1>3. OpenSum(st.lots, a) \in Int /\ OpenSum(new, a) \in Int
  BY <1>1, OpenIsHeld
<1>4. OpenSum(new, a) - SumOver(t, HeldIn(st.lots, a)) = LegSum(rows, <<a, asset>>, {id})
  BY RowBalanced DEF Balanced, Due
<1>5. OpenSum(st.lots, a) = LegSum(rows, <<a, asset>>, done)
  BY DEF Reconciled
<1> DEFINE pair == <<a, asset>>
<1>6. LegSum(rows, pair, done \cup {id}) = LegSum(rows, pair, done) + LegSum(rows, pair, {id})
  <2> HIDE DEF pair
  <2> QED
    BY DoneRows
<1> QED
  BY <1>2, <1>3, <1>4, <1>5, <1>6

-----------------------------------------------------------------------------
(* A replay comes up short exactly where some account would owe the asset. *)
Overdrawn(rows, asset, done) == \E a \in Accounts : LegSum(rows, <<a, asset>>, done) < 0

LEMMA UncoveredOwes ==
    ASSUME NEW rows, NEW table, NEW asset, Replayable(rows, table, asset),
           NEW done, NEW id, Due(rows, asset, done, id),
           NEW st \in ReplayState, Reconciled(st, rows, asset, done),
           NEW l \in DOMAIN rows[id].legs, NEW sum,
           sum = LegSum(rows, <<rows[id].legs[l].account, asset>>, {id}),
           sum = rows[id].legs[l].quantity, sum < 0,
           Shortfall(st.lots, rows[id].legs[l].account, -rows[id].legs[l].quantity)
    PROVE  Overdrawn(rows, asset, done \cup {id})
<1> DEFINE account == rows[id].legs[l].account
           pair == <<account, asset>>
<1>1. rows[id] \in Transaction /\ account \in Accounts /\ sum \in Int
  BY RelevantRows, LegFields DEF Due, Replayable
<1>2. OpenSum(st.lots, account) = LegSum(rows, pair, done)
  BY <1>1 DEF Reconciled
<1>3. OpenSum(st.lots, account) < -sum /\ OpenSum(st.lots, account) \in Nat
  <2>1. /\ Quantity(st.lots, Open(st.lots, account)) = OpenSum(st.lots, account)
        /\ OpenSum(st.lots, account) \in Nat
    BY StateFields, OpenIsHeld
  <2>2. Quantity(st.lots, Open(st.lots, account)) < -sum
    BY DEF Shortfall
  <2> QED
    BY <2>1, <2>2
<1>4. LegSum(rows, pair, done \cup {id}) = LegSum(rows, pair, done) + sum
  <2>1. sum = LegSum(rows, pair, {id})
    OBVIOUS
  <2> HIDE DEF pair
  <2>2. LegSum(rows, pair, done \cup {id}) = LegSum(rows, pair, done) + LegSum(rows, pair, {id})
    BY DoneRows
  <2> QED
    BY <2>1, <2>2
<1>5. LegSum(rows, pair, done \cup {id}) < 0
  BY <1>1, <1>2, <1>3, <1>4
<1> QED
  BY <1>1, <1>5 DEF Overdrawn

LEMMA ShortWhereOverdrawn ==
    ASSUME NEW rows, NEW table, NEW asset, Replayable(rows, table, asset),
           NEW done, NEW id, Due(rows, asset, done, id), Whole(rows[id].type, rows[id].legs),
           NEW st, NEW next, NEW t, NEW new, NEW sales,
           Effect(st, next, rows, table, asset, id, t, new, sales),
           Reconciled(st, rows, asset, done)
    PROVE  next.short <=> Overdrawn(rows, asset, done \cup {id})
<1>1. ASSUME ~next.short
      PROVE  ~Overdrawn(rows, asset, done \cup {id})
  <2>1. Reconciled(next, rows, asset, done \cup {id})
    BY <1>1, KeepsReconciled
  <2>2. next.lots \in Seq(LotRow)
    BY StateFields DEF Effect, Grows
  <2>3. \A a \in Accounts : OpenSum(next.lots, a) \in Nat
    BY <2>2, OpenIsHeld
  <2>4. \A a \in Accounts : LegSum(rows, <<a, asset>>, done \cup {id}) \in Nat
    BY <2>1, <2>3 DEF Reconciled
  <2>5. \A a \in Accounts : ~(LegSum(rows, <<a, asset>>, done \cup {id}) < 0)
    <3> SUFFICES ASSUME NEW a \in Accounts
                 PROVE  ~(LegSum(rows, <<a, asset>>, done \cup {id}) < 0)
      OBVIOUS
    <3> DEFINE sum == LegSum(rows, <<a, asset>>, done \cup {id})
    <3>1. sum \in Nat
      BY <2>4
    <3> HIDE DEF sum
    <3>2. ~(sum < 0)
      BY <3>1
    <3> QED
      BY <3>2 DEF sum
  <2> QED
    BY <2>5, Zenon DEF Overdrawn
<1>2. ASSUME next.short
      PROVE  Overdrawn(rows, asset, done \cup {id})
  <2>1. st \in ReplayState /\ rows[id] \in Transaction
    BY RelevantRows DEF Effect, Grows, Due, Replayable
  <2>2. ASSUME NEW l, Sold(st, next, rows, asset, id, l, t, new, sales)
        PROVE  Overdrawn(rows, asset, done \cup {id})
    <3> DEFINE pair == <<rows[id].legs[l].account, asset>>
               sum == LegSum(rows, pair, {id})
    <3>1. l \in DOMAIN rows[id].legs /\ LegsIn(rows[id], asset) = {l} /\ rows[id].legs[l].quantity < 0
      BY <2>2 DEF Sold, Goes
    <3>2. sum = rows[id].legs[l].quantity
      <4>1. IsPair(pair, rows[id].legs[l].account, asset)
        BY DEF IsPair
      <4> HIDE DEF pair
      <4>2. IsGain(LegSum(rows, pair, {id}), rows[id], l, rows[id].legs[l].account)
        BY <2>1, <3>1, <4>1, OneLegSum
      <4> QED
        BY <4>2 DEF IsGain
    <3>3. Shortfall(st.lots, rows[id].legs[l].account, -rows[id].legs[l].quantity)
      BY <1>2, <2>2 DEF Sold
    <3>4. sum = LegSum(rows, <<rows[id].legs[l].account, asset>>, {id})
      OBVIOUS
    <3> HIDE DEF sum, pair
    <3> QED
      BY <2>1, <3>1, <3>2, <3>3, <3>4, UncoveredOwes
  <2>3. ASSUME NEW out, NEW in, Brought(st, next, rows, asset, id, out, in, t, new, sales)
        PROVE  Overdrawn(rows, asset, done \cup {id})
    <3> DEFINE pair == <<rows[id].legs[out].account, asset>>
               sum == LegSum(rows, pair, {id})
    <3>1. Carries(rows[id], asset, out, in)
      BY <2>3 DEF Brought
    <3>2. out \in DOMAIN rows[id].legs /\ rows[id].legs[out].quantity < 0
      BY <3>1 DEF Carries
    <3>3. sum = rows[id].legs[out].quantity
      <4>1. IsPair(pair, rows[id].legs[out].account, asset)
        BY DEF IsPair
      <4> HIDE DEF pair
      <4>2. IsMove(LegSum(rows, pair, {id}), rows[id], out, in, rows[id].legs[out].account)
        BY <2>1, <3>1, <4>1, CarriedSum
      <4> QED
        BY <4>2 DEF IsMove
    <3>4. Shortfall(st.lots, rows[id].legs[out].account, -rows[id].legs[out].quantity)
      BY <1>2, <2>3 DEF Brought
    <3>5. sum = LegSum(rows, <<rows[id].legs[out].account, asset>>, {id})
      OBVIOUS
    <3> HIDE DEF sum, pair
    <3> QED
      BY <2>1, <3>2, <3>3, <3>4, <3>5, UncoveredOwes
  <2> QED
    BY <1>2, <2>2, <2>3 DEF Effect, Bought
<1>3. next.short \in BOOLEAN
  BY StateFields DEF Effect, Grows
<1> QED
  BY <1>1, <1>2, <1>3

-----------------------------------------------------------------------------
(* An inflow that arrives whole has a lot, whatever becomes of the lot.    *)
HasLot(held, leg) == \E k \in DOMAIN held : held[k].source_leg = leg

Arrived(st, rows, asset, done) ==
    \A i \in done : Whole(rows[i].type, rows[i].legs) =>
        \A l \in LegsIn(rows[i], asset) :
            rows[i].legs[l].quantity > 0 => HasLot(st.lots, <<i, l>>)

LEMMA NewInflow ==
    ASSUME NEW rows, NEW table, NEW asset, NEW id, rows[id] \in Transaction,
           NEW st, NEW next, ~next.short,
           NEW t, NEW new, NEW sales, Effect(st, next, rows, table, asset, id, t, new, sales),
           Whole(rows[id].type, rows[id].legs),
           NEW l \in LegsIn(rows[id], asset), rows[id].legs[l].quantity > 0
    PROVE  HasLot(new, <<id, l>>)
<1>1. rows[id].legs[l].quantity \in Int
  BY LegFields DEF LegsIn
<1>2. ASSUME NEW k, Bought(st, next, rows, table, asset, id, k, t, new, sales)
      PROVE  HasLot(new, <<id, l>>)
  <2>1. l = k /\ new = <<IncreaseLot(table, asset, rows, id, k)>>
    BY <1>2 DEF Bought, Comes
  <2>2. 1 \in DOMAIN new /\ new[1].source_leg = <<id, l>>
    BY <2>1 DEF IncreaseLot
  <2> QED
    BY <2>2 DEF HasLot
<1>3. ASSUME NEW k, Sold(st, next, rows, asset, id, k, t, new, sales)
      PROVE  HasLot(new, <<id, l>>)
  BY <1>1, <1>3 DEF Sold, Goes
<1>4. ASSUME NEW out, NEW in, Brought(st, next, rows, asset, id, out, in, t, new, sales)
      PROVE  HasLot(new, <<id, l>>)
  <2>1. /\ Carries(rows[id], asset, out, in) /\ rows[id].legs[out].quantity < 0
        /\ l \in {out, in} /\ rows[id].legs[in].quantity > 0
        /\ out \in DOMAIN rows[id].legs /\ in \in DOMAIN rows[id].legs
    BY <1>4 DEF Brought, Carries
  <2>2. l = in
    BY <1>1, <2>1
  <2>3. ~Shortfall(st.lots, rows[id].legs[out].account, -rows[id].legs[out].quantity)
    BY <1>4 DEF Brought
  <2>4. PICK from : CarriedFrom(new, st.lots, rows[id], id, out, in, from)
    BY <1>4 DEF Brought
  <2>5. st.lots \in Seq(LotRow)
    BY DEF Effect, Grows, LotsGrow
  <2>6. OpenSum(new, rows[id].legs[in].account) = rows[id].legs[in].quantity
    BY <2>1, <2>3, <2>4, <2>5, OpenOfCarried
  <2>7. ASSUME DOMAIN new = {}
        PROVE  FALSE
    <3>1. HeldIn(new, rows[id].legs[in].account) = {}
      BY <2>7 DEF HeldIn
    <3>2. OpenSum(new, rows[id].legs[in].account) = 0
      BY <3>1, SumOfNone DEF OpenSum
    <3>3. rows[id].legs[in].quantity = 0
      BY <2>6, <3>2
    <3>4. rows[id].legs[in].quantity > 0 /\ rows[id].legs[in].quantity \in Int
      BY <1>1, <2>2
    <3> QED
      BY <3>3, <3>4
  <2> QED
    BY <2>2, <2>4, <2>7 DEF CarriedFrom, HasLot
<1> QED
  BY <1>2, <1>3, <1>4 DEF Effect

LEMMA KeepsArrived ==
    ASSUME NEW rows, NEW table, NEW asset, Replayable(rows, table, asset),
           NEW done, NEW id, Due(rows, asset, done, id), NEW st, NEW next, ~next.short,
           NEW t, NEW new, NEW sales, Effect(st, next, rows, table, asset, id, t, new, sales),
           Arrived(st, rows, asset, done)
    PROVE  Arrived(next, rows, asset, done \cup {id})
<1> DEFINE held == st.lots
           after == next.lots
<1>1. LotsGrow(held, after, t, new)
  BY DEF Effect, Grows
<1> HIDE DEF held, after
<1>2. ASSUME NEW leg, HasLot(held, leg)
      PROVE  HasLot(after, leg)
  BY <1>1, <1>2, GrownIndex DEF LotsGrow, SameLot, HasLot
<1>3. ASSUME NEW leg, HasLot(new, leg)
      PROVE  HasLot(after, leg)
  BY <1>1, <1>3, GrownIndex DEF LotsGrow, HasLot
<1>4. rows[id] \in Transaction
  BY RelevantRows DEF Due, Replayable
<1> SUFFICES ASSUME NEW i \in done \cup {id}, Whole(rows[i].type, rows[i].legs),
                    NEW l \in LegsIn(rows[i], asset), rows[i].legs[l].quantity > 0
             PROVE  HasLot(after, <<i, l>>)
  BY DEF Arrived, after
<1>5. CASE i \in done
  <2>1. HasLot(held, <<i, l>>)
    BY <1>5 DEF Arrived, held
  <2> QED
    BY <1>2, <2>1
<1>6. CASE i = id
  <2>1. HasLot(new, <<i, l>>)
    BY <1>4, <1>6, NewInflow
  <2> QED
    BY <1>3, <2>1
<1> QED
  BY <1>5, <1>6

-----------------------------------------------------------------------------
(* What the lots cost.  A cost that is not known counts as nothing, so     *)
(* that the sums are of numbers; a lot that is carried keeps it unknown.   *)
UnitCost(lot) == IF lot.unit_cost = None THEN 0 ELSE lot.unit_cost

CostsLeft(held) == [i \in DOMAIN held |-> UnitCost(held[i]) * held[i].remaining_qty]

CostsTaken(held, t) == [i \in DOMAIN held |-> UnitCost(held[i]) * t[i]]

CostsSold(held, sold) == [k \in DOMAIN sold |-> UnitCost(held[sold[k].lot]) * sold[k].qty]

IsAcquired(rows, lot) == rows[lot.source_leg[1]].type # "transfer"

CostsAcquired(held, rows) ==
    [i \in DOMAIN held |->
        IF IsAcquired(rows, held[i]) THEN UnitCost(held[i]) * held[i].original_qty ELSE 0]

(* What the units acquired cost is what the lots left and those sold cost. *)
Conserved(st, rows) ==
    SumOver(CostsAcquired(st.lots, rows), DOMAIN st.lots)
        = SumOver(CostsLeft(st.lots), DOMAIN st.lots)
            + SumOver(CostsSold(st.lots, st.consumptions), DOMAIN st.consumptions)

(* Every outflow leaves a record: it is a sale, or carried.                *)
Recorded(rows, done) == \A i \in done : rows[i].type \notin SingleLegTypes \ Inbound

Costed(st, rows, done) == Recorded(rows, done) => Conserved(st, rows)

LEMMA UnitCostType ==
    ASSUME NEW held \in Seq(LotRow), NEW i \in DOMAIN held
    PROVE  UnitCost(held[i]) \in Nat
BY LotFields DEF UnitCost

(* The costs are sums of finitely many numbers.                            *)
LEMMA CostTypes ==
    ASSUME NEW held \in Seq(LotRow), NEW rows
    PROVE  /\ IsFiniteSet(DOMAIN held)
           /\ \A i \in DOMAIN held : CostsLeft(held)[i] \in Int /\ CostsAcquired(held, rows)[i] \in Int
           /\ SumOver(CostsLeft(held), DOMAIN held) \in Int
           /\ SumOver(CostsAcquired(held, rows), DOMAIN held) \in Int
<1>1. IsFiniteSet(DOMAIN held)
  BY OpenLotsOf
<1>2. ASSUME NEW i \in DOMAIN held
      PROVE  CostsLeft(held)[i] \in Int /\ CostsAcquired(held, rows)[i] \in Int
  <2> DEFINE u == UnitCost(held[i])
             r == held[i].remaining_qty
             o == held[i].original_qty
  <2>1. u \in Int /\ r \in Int /\ o \in Int
    BY LotFields, UnitCostType
  <2>2. CostsLeft(held)[i] = u * r /\ CostsAcquired(held, rows)[i] \in {u * o, 0}
    BY DEF CostsLeft, CostsAcquired
  <2> HIDE DEF u, r, o
  <2>3. u * r \in Int /\ u * o \in Int
    BY <2>1
  <2> QED
    BY <2>2, <2>3
<1> DEFINE v == CostsLeft(held)
           w == CostsAcquired(held, rows)
<1> HIDE DEF v, w
<1>3. (\A i \in DOMAIN held : v[i] \in Int) => SumOver(v, DOMAIN held) \in Int
  BY <1>1, SumIsInt
<1>4. (\A i \in DOMAIN held : w[i] \in Int) => SumOver(w, DOMAIN held) \in Int
  BY <1>1, SumIsInt
<1> QED
  BY <1>1, <1>2, <1>3, <1>4 DEF v, w

LEMMA TakenCostTypes ==
    ASSUME NEW held \in Seq(LotRow), NEW t, \A i \in DOMAIN held : t[i] \in Nat
    PROVE  /\ \A i \in DOMAIN held : CostsTaken(held, t)[i] \in Int
           /\ SumOver(CostsTaken(held, t), DOMAIN held) \in Int
<1>1. IsFiniteSet(DOMAIN held)
  BY OpenLotsOf
<1>2. ASSUME NEW i \in DOMAIN held
      PROVE  CostsTaken(held, t)[i] \in Int
  <2> DEFINE u == UnitCost(held[i])
             r == t[i]
  <2>1. u \in Int /\ r \in Int
    BY UnitCostType
  <2>2. CostsTaken(held, t)[i] = u * r
    BY DEF CostsTaken
  <2> HIDE DEF u, r
  <2> QED
    BY <2>1, <2>2
<1> DEFINE v == CostsTaken(held, t)
<1> HIDE DEF v
<1>3. (\A i \in DOMAIN held : v[i] \in Int) => SumOver(v, DOMAIN held) \in Int
  BY <1>1, SumIsInt
<1> QED
  BY <1>2, <1>3 DEF v

(* A sum over all there is after a row: of what there was, and of what is  *)
(* added.                                                                  *)
LowAndHigh(n, m, S, low, high) ==
    n \in Nat /\ m \in Nat /\ S = 1..(n + m) /\ low = 1..n /\ high = 1..m

LEMMA SumSplit ==
    ASSUME NEW n, NEW m, NEW S, NEW low, NEW high, LowAndHigh(n, m, S, low, high),
           NEW w, \A i \in S : w[i] \in Int,
           NEW v, \A i \in low : v[i] = w[i],
           NEW u, \A j \in high : u[j] = w[n + j]
    PROVE  /\ SumOver(w, S) = SumOver(v, low) + SumOver(u, high)
           /\ SumOver(v, low) \in Int /\ SumOver(u, high) \in Int
<1>1. n \in Nat /\ m \in Nat /\ S = 1..(n + m) /\ low = 1..n /\ high = 1..m
  BY DEF LowAndHigh
<1>2. low = LowPart(S, n) /\ high = HighPart(S, n, m) /\ n \in Nat /\ m \in Nat
  BY <1>1 DEF LowPart, HighPart
<1>3. S \in SUBSET (1..(n + m)) /\ \A i \in 1..(n + m) : w[i] \in Int
  BY <1>1
<1>4. (\A i \in low : v[i] \in Int) /\ (\A j \in high : u[j] \in Int)
  <2>1. low \subseteq S /\ \A j \in high : n + j \in S
    BY <1>1
  <2> QED
    BY <2>1
<1>5. IsFiniteSet(low) /\ IsFiniteSet(high)
  BY <1>1, FS_Interval
<1>6. SumOver(w, S) = SumOver(v, low) + SumOver(u, high)
  BY <1>2, <1>3, GrownSum
<1>7. SumOver(v, low) \in Int /\ SumOver(u, high) \in Int
  BY <1>4, <1>5, SumIsInt
<1> QED
  BY <1>6, <1>7

LEMMA CostsOfLots ==
    ASSUME NEW held, NEW after, NEW t, NEW new, LotsGrow(held, after, t, new), NEW rows
    PROVE  /\ SumOver(CostsLeft(after), DOMAIN after) =
                SumOver(CostsLeft(held), DOMAIN held) - SumOver(CostsTaken(held, t), DOMAIN held)
                    + SumOver(CostsLeft(new), DOMAIN new)
           /\ SumOver(CostsAcquired(after, rows), DOMAIN after) =
                SumOver(CostsAcquired(held, rows), DOMAIN held)
                    + SumOver(CostsAcquired(new, rows), DOMAIN new)
           /\ SumOver(CostsTaken(held, t), DOMAIN held) \in Int
<1>1. /\ held \in Seq(LotRow) /\ new \in Seq(LotRow) /\ after \in Seq(LotRow)
      /\ Len(after) = Len(held) + Len(new)
  BY DEF LotsGrow
<1>2. /\ \A i \in DOMAIN held : i \in DOMAIN after
      /\ \A j \in DOMAIN new : Len(held) + j \in DOMAIN after
      /\ \A j \in DOMAIN new : after[Len(held) + j] = new[j]
  BY <1>1, GrownIndex DEF LotsGrow
<1>3. ASSUME NEW i \in DOMAIN held
      PROVE  /\ CostsLeft(after)[i] = CostsLeft(held)[i] - CostsTaken(held, t)[i]
             /\ CostsAcquired(after, rows)[i] = CostsAcquired(held, rows)[i]
  <2> DEFINE u == UnitCost(held[i])
             r == held[i].remaining_qty
             k == t[i]
  <2>1. /\ SameLot(held[i], after[i]) /\ k \in Nat /\ after[i].remaining_qty = r - k
        /\ r \in Nat /\ u \in Nat /\ i \in DOMAIN after
    BY <1>1, <1>2, LotFields, UnitCostType DEF LotsGrow
  <2>2. /\ UnitCost(after[i]) = u /\ IsAcquired(rows, after[i]) = IsAcquired(rows, held[i])
        /\ after[i].original_qty = held[i].original_qty
    BY <2>1 DEF SameLot, UnitCost, IsAcquired
  <2>3. CostsAcquired(after, rows)[i] = CostsAcquired(held, rows)[i]
    BY <2>1, <2>2 DEF CostsAcquired
  <2>4. /\ CostsLeft(after)[i] = u * (r - k) /\ CostsLeft(held)[i] = u * r
        /\ CostsTaken(held, t)[i] = u * k
    BY <2>1, <2>2 DEF CostsLeft, CostsTaken
  <2> HIDE DEF u, r, k
  <2>5. u * (r - k) = u * r - u * k
    BY <2>1
  <2> QED
    BY <2>3, <2>4, <2>5
<1>4. ASSUME NEW j \in DOMAIN new
      PROVE  /\ CostsLeft(after)[Len(held) + j] = CostsLeft(new)[j]
             /\ CostsAcquired(after, rows)[Len(held) + j] = CostsAcquired(new, rows)[j]
  BY <1>2 DEF CostsLeft, CostsAcquired
<1>5. \A i \in DOMAIN held : t[i] \in Nat
  BY DEF LotsGrow
<1> DEFINE a == CostsLeft(after)
           v == [i \in DOMAIN held |-> CostsLeft(held)[i] - CostsTaken(held, t)[i]]
           b == CostsLeft(new)
           c == CostsLeft(held)
           d == CostsTaken(held, t)
           x == CostsAcquired(after, rows)
           y == CostsAcquired(held, rows)
           z == CostsAcquired(new, rows)
<1>6. /\ \A i \in DOMAIN after : a[i] \in Int /\ x[i] \in Int
      /\ \A i \in DOMAIN held : c[i] \in Int /\ d[i] \in Int /\ y[i] \in Int
      /\ IsFiniteSet(DOMAIN held) /\ SumOver(d, DOMAIN held) \in Int
  BY <1>1, <1>5, CostTypes, TakenCostTypes
<1>7. \A i \in DOMAIN held : v[i] \in Int /\ v[i] = a[i] /\ c[i] = v[i] + d[i] /\ y[i] = x[i]
  <2> SUFFICES ASSUME NEW i \in DOMAIN held
               PROVE  v[i] \in Int /\ v[i] = a[i] /\ c[i] = v[i] + d[i] /\ y[i] = x[i]
    OBVIOUS
  <2>1. a[i] = c[i] - d[i] /\ x[i] = y[i] /\ v[i] = c[i] - d[i]
    BY <1>3
  <2> HIDE DEF a, c, d, v, x, y
  <2> QED
    BY <1>6, <2>1
<1>8. \A j \in DOMAIN new : b[j] = a[Len(held) + j] /\ z[j] = x[Len(held) + j]
  BY <1>4
<1> HIDE DEF a, v, b, c, d, x, y, z
<1> DEFINE n == Len(held)
           m == Len(new)
<1>13. LowAndHigh(n, m, DOMAIN after, DOMAIN held, DOMAIN new)
  BY <1>1 DEF LowAndHigh
<1>14. \A j \in DOMAIN new : b[j] = a[n + j] /\ z[j] = x[n + j]
  BY <1>8
<1> HIDE DEF n, m
<1>9. /\ SumOver(a, DOMAIN after) = SumOver(v, DOMAIN held) + SumOver(b, DOMAIN new)
      /\ SumOver(v, DOMAIN held) \in Int /\ SumOver(b, DOMAIN new) \in Int
  BY <1>6, <1>7, <1>13, <1>14, SumSplit
<1>10. SumOver(x, DOMAIN after) = SumOver(y, DOMAIN held) + SumOver(z, DOMAIN new)
  BY <1>6, <1>7, <1>13, <1>14, SumSplit
<1>11. SumOver(c, DOMAIN held) = SumOver(v, DOMAIN held) + SumOver(d, DOMAIN held)
  BY <1>6, <1>7, SumOfSums
<1>12. SumOver(a, DOMAIN after)
           = SumOver(c, DOMAIN held) - SumOver(d, DOMAIN held) + SumOver(b, DOMAIN new)
  BY <1>6, <1>9, <1>11
<1> QED
  BY <1>6, <1>10, <1>12 DEF a, b, c, d, x, y, z

LEMMA SaleCostTypes ==
    ASSUME NEW held \in Seq(LotRow), NEW sold \in Seq(SaleRow),
           \A k \in DOMAIN sold : sold[k].lot \in DOMAIN held
    PROVE  /\ \A k \in DOMAIN sold : CostsSold(held, sold)[k] \in Int
           /\ SumOver(CostsSold(held, sold), DOMAIN sold) \in Int
<1>1. IsFiniteSet(DOMAIN sold) /\ \A k \in DOMAIN sold : sold[k].qty \in Nat
  BY QuantityTypes
<1>2. ASSUME NEW k \in DOMAIN sold
      PROVE  CostsSold(held, sold)[k] \in Int
  <2> DEFINE u == UnitCost(held[sold[k].lot])
             r == sold[k].qty
  <2>1. u \in Int /\ r \in Int
    BY <1>1, UnitCostType
  <2>2. CostsSold(held, sold)[k] = u * r
    BY DEF CostsSold
  <2> HIDE DEF u, r
  <2> QED
    BY <2>1, <2>2
<1> DEFINE v == CostsSold(held, sold)
<1> HIDE DEF v
<1>3. (\A k \in DOMAIN sold : v[k] \in Int) => SumOver(v, DOMAIN sold) \in Int
  BY <1>1, SumIsInt
<1> QED
  BY <1>2, <1>3 DEF v

LEMMA CostsOfSales ==
    ASSUME NEW held, NEW after, NEW t, NEW new, LotsGrow(held, after, t, new),
           NEW sold, NEW total, NEW sales, SalesGrow(sold, total, sales),
           \A k \in DOMAIN sold : sold[k].lot \in DOMAIN held,
           \A k \in DOMAIN sales : sales[k].lot \in DOMAIN held
    PROVE  SumOver(CostsSold(after, total), DOMAIN total) =
                SumOver(CostsSold(held, sold), DOMAIN sold)
                    + SumOver(CostsSold(held, sales), DOMAIN sales)
<1> DEFINE n == Len(sold)
           m == Len(sales)
           w == CostsSold(after, total)
           v == CostsSold(held, sold)
           u == CostsSold(held, sales)
<1>1. /\ sold \in Seq(SaleRow) /\ sales \in Seq(SaleRow) /\ total \in Seq(SaleRow)
      /\ Len(total) = Len(sold) + Len(sales)
      /\ held \in Seq(LotRow) /\ new \in Seq(LotRow) /\ after \in Seq(LotRow)
      /\ Len(after) = Len(held) + Len(new)
  BY DEF SalesGrow, LotsGrow
<1>2. LowAndHigh(n, m, DOMAIN total, DOMAIN sold, DOMAIN sales)
  BY <1>1 DEF LowAndHigh
<1>3. /\ \A k \in DOMAIN sold : k \in DOMAIN total /\ total[k] = sold[k]
      /\ \A k \in DOMAIN sales : n + k \in DOMAIN total /\ total[n + k] = sales[k]
      /\ \A k \in DOMAIN total : k \in DOMAIN sold \/ \E j \in DOMAIN sales : k = n + j
  BY GrownSales
<1>4. \A i \in DOMAIN held : i \in DOMAIN after /\ UnitCost(after[i]) = UnitCost(held[i])
  BY <1>1, GrownIndex DEF LotsGrow, SameLot, UnitCost
<1> HIDE DEF n, m
<1>5. \A k \in DOMAIN sold : v[k] = w[k]
  BY <1>3, <1>4 DEF CostsSold
<1>6. \A k \in DOMAIN sales : u[k] = w[n + k]
  BY <1>3, <1>4 DEF CostsSold
<1>7. \A k \in DOMAIN total : w[k] \in Int
  <2>1. \A k \in DOMAIN total : total[k].lot \in DOMAIN after
    BY <1>3, <1>4
  <2> QED
    BY <1>1, <2>1, SaleCostTypes
<1> HIDE DEF w, v, u
<1>8. SumOver(w, DOMAIN total) = SumOver(v, DOMAIN sold) + SumOver(u, DOMAIN sales)
  BY <1>2, <1>5, <1>6, <1>7, SumSplit
<1> QED
  BY <1>8 DEF w, v, u

(* A sum over the lots a row takes from, by the names it gives them.       *)
LEMMA NamedSum ==
    ASSUME NEW held \in Seq(LotRow), NEW t, \A i \in DOMAIN held : t[i] \in Nat,
           NEW K, IsFiniteSet(K), NEW f, IsNaming(f, K, Hit(held, t)),
           NEW w, \A i \in DOMAIN held : w[i] \in Int /\ (t[i] = 0 => w[i] = 0),
           NEW u, \A k \in K : u[k] = w[f[k]]
    PROVE  SumOver(u, K) = SumOver(w, DOMAIN held)
<1> DEFINE S == Hit(held, t)
<1>1. IsFiniteSet(DOMAIN held) /\ S \in SUBSET DOMAIN held
  BY OpenLotsOf DEF Hit
<1>2. (\A i \in S : w[i] \in Int) /\ \A i \in DOMAIN held \ S : w[i] = 0
  BY DEF Hit
<1> HIDE DEF S
<1>3. SumOver(w, DOMAIN held) = SumOver(w, S)
  BY <1>1, <1>2, SumWithoutZeros
<1>4. SumOver(w, S) = SumOver(Renamed(w, f, K), K)
  BY <1>2, SumRenamed DEF S
<1>5. \A k \in K : Renamed(w, f, K)[k] = u[k]
  BY DEF Renamed
<1>6. SumOver(Renamed(w, f, K), K) = SumOver(u, K)
  BY <1>5, SumAgrees
<1> QED
  BY <1>3, <1>4, <1>6

LEMMA NoCostTaken ==
    ASSUME NEW held \in Seq(LotRow), NEW t, \A i \in DOMAIN held : t[i] = 0
    PROVE  SumOver(CostsTaken(held, t), DOMAIN held) = 0
<1> DEFINE w == CostsTaken(held, t)
           D == DOMAIN held
<1>1. IsFiniteSet(D)
  BY OpenLotsOf
<1>2. ASSUME NEW i \in D
      PROVE  w[i] = 0
  <2>1. UnitCost(held[i]) \in Int /\ t[i] = 0
    BY UnitCostType
  <2>2. w[i] = UnitCost(held[i]) * t[i]
    BY DEF CostsTaken
  <2> QED
    BY <2>1, <2>2
<1>3. {} \in SUBSET D /\ (\A i \in {} : w[i] \in Int) /\ \A i \in D \ {} : w[i] = 0
  BY <1>2
<1> HIDE DEF w, D
<1>4. SumOver(w, D) = SumOver(w, {})
  BY <1>1, <1>3, SumWithoutZeros
<1> QED
  BY <1>4, SumOfNone DEF w, D

(* What is sold has cost what is taken.                                    *)
LEMMA CostOfSale ==
    ASSUME NEW held \in Seq(LotRow), NEW t, \A i \in DOMAIN held : t[i] \in Nat,
           NEW sales, NEW leg, SalesOf(sales, held, t, leg)
    PROVE  SumOver(CostsSold(held, sales), DOMAIN sales) = SumOver(CostsTaken(held, t), DOMAIN held)
<1> DEFINE K == DOMAIN sales
           f == LotNames(sales)
           w == CostsTaken(held, t)
           u == CostsSold(held, sales)
<1>1. /\ sales \in Seq(SaleRow) /\ IsNaming(f, K, Hit(held, t))
      /\ \A k \in K : /\ f[k] = sales[k].lot /\ sales[k].lot \in DOMAIN held
                      /\ sales[k].qty = t[sales[k].lot]
  BY DEF SalesOf, SegmentsOf, LotNames
<1>2. IsFiniteSet(K)
  BY <1>1, QuantityTypes
<1>3. ASSUME NEW i \in DOMAIN held
      PROVE  w[i] \in Int /\ (t[i] = 0 => w[i] = 0)
  <2>1. UnitCost(held[i]) \in Int
    BY UnitCostType
  <2>2. w[i] = UnitCost(held[i]) * t[i]
    BY DEF CostsTaken
  <2>3. w[i] \in Int
    BY TakenCostTypes
  <2> HIDE DEF w
  <2> QED
    BY <2>1, <2>2, <2>3
<1>4. \A k \in K : u[k] = w[f[k]]
  BY <1>1 DEF CostsSold, CostsTaken
<1> HIDE DEF K, f, w, u
<1>5. SumOver(u, K) = SumOver(w, DOMAIN held)
  BY <1>1, <1>2, <1>3, <1>4, NamedSum
<1> QED
  BY <1>5 DEF K, w, u

(* Units that arrive whole are worth at cost what they were.               *)
LEMMA CostOfCarried ==
    ASSUME NEW held \in Seq(LotRow), NEW txn \in Transaction, NEW asset, NEW out, NEW in,
           Carries(txn, asset, out, in), Whole(txn.type, txn.legs),
           NEW t, t = Taken(held, txn.legs[out].account, -txn.legs[out].quantity),
           NEW new, NEW id, NEW from, CarriedFrom(new, held, txn, id, out, in, from)
    PROVE  SumOver(CostsLeft(new), DOMAIN new) = SumOver(CostsTaken(held, t), DOMAIN held)
<1> DEFINE K == DOMAIN new
           w == CostsTaken(held, t)
           u == CostsLeft(new)
<1>0. Arrivals(held, txn, out, in) = t /\ Ratio(txn, out, in) = Precision
  BY WholeArrives
<1>1. -txn.legs[out].quantity \in Nat
  BY ArrivalTypes
<1>2. \A i \in DOMAIN held : t[i] \in Nat
  BY <1>1, TakenTypes
<1>3. /\ new \in Seq(LotRow) /\ IsNaming(from, K, Hit(held, t))
      /\ \A k \in K : /\ from[k] \in DOMAIN held /\ new[k].remaining_qty = t[from[k]]
                      /\ new[k].unit_cost = Divide(held[from[k]].unit_cost, Precision)
  BY <1>0 DEF CarriedFrom, Open
<1>4. IsFiniteSet(K)
  BY <1>3, OpenLotsOf
<1>5. ASSUME NEW k \in K
      PROVE  UnitCost(new[k]) = UnitCost(held[from[k]])
  <2> DEFINE cost == held[from[k]].unit_cost
  <2>1. cost \in Nat \cup {None} /\ new[k].unit_cost = Divide(cost, Precision)
    BY <1>3, LotFields
  <2> HIDE DEF cost
  <2>2. CASE cost = None
    BY <2>1, <2>2 DEF Divide, UnitCost, cost
  <2>3. CASE cost # None
    <3>1. cost \in Nat /\ Precision \in Nat \ {0}
      BY <2>1, <2>3, PrecisionAssumption
    <3>2. RoundDiv(cost * Precision, Precision) = cost
      BY <3>1, RoundDivExact
    <3>3. new[k].unit_cost = cost
      BY <2>1, <2>3, <3>2 DEF Divide
    <3> QED
      BY <3>3 DEF UnitCost, cost
  <2> QED
    BY <2>2, <2>3
<1>6. ASSUME NEW i \in DOMAIN held
      PROVE  w[i] \in Int /\ (t[i] = 0 => w[i] = 0)
  <2>1. UnitCost(held[i]) \in Int
    BY UnitCostType
  <2>2. w[i] = UnitCost(held[i]) * t[i]
    BY DEF CostsTaken
  <2>3. w[i] \in Int
    BY <1>2, TakenCostTypes
  <2> HIDE DEF w
  <2> QED
    BY <2>1, <2>2, <2>3
<1>7. \A k \in K : u[k] = w[from[k]]
  BY <1>3, <1>5 DEF CostsLeft, CostsTaken
<1> HIDE DEF K, w, u
<1>8. SumOver(u, K) = SumOver(w, DOMAIN held)
  <2>1. IsNaming(from, K, Hit(held, t))
    BY <1>3
  <2>2. \A i \in DOMAIN held : w[i] \in Int /\ (t[i] = 0 => w[i] = 0)
    BY <1>6
  <2> QED
    BY ONLY held \in Seq(LotRow), <1>2, <1>4, <1>7, <2>1, <2>2, NamedSum
<1> QED
  BY <1>8 DEF K, w, u

LEMMA KeepsCosted ==
    ASSUME NEW rows, NEW table, NEW asset, Replayable(rows, table, asset),
           NEW done, NEW id, Due(rows, asset, done, id), Whole(rows[id].type, rows[id].legs),
           NEW st, NEW next, NEW t, NEW new, NEW sales,
           Effect(st, next, rows, table, asset, id, t, new, sales),
           FromSales(st, rows, asset, done), Costed(st, rows, done)
    PROVE  Costed(next, rows, done \cup {id})
<1> SUFFICES ASSUME Recorded(rows, done \cup {id})
             PROVE  Conserved(next, rows)
  BY DEF Costed
<1> DEFINE held == st.lots
           after == next.lots
           sold == st.consumptions
           total == next.consumptions
<1>1. /\ LotsGrow(held, after, t, new) /\ SalesGrow(sold, total, sales)
      /\ held \in Seq(LotRow) /\ new \in Seq(LotRow) /\ sold \in Seq(SaleRow)
      /\ \A i \in DOMAIN held : t[i] \in Nat
  BY DEF Effect, Grows, LotsGrow, SalesGrow
<1>2. /\ Conserved(st, rows) /\ rows[id].type \notin SingleLegTypes \ Inbound
      /\ \A k \in DOMAIN sold : sold[k].lot \in DOMAIN held
  BY DEF Costed, Recorded, FromSales
<1>3. rows[id] \in Transaction /\ Shaped(rows[id].type, rows[id].legs)
  BY RelevantRows DEF Due, Replayable, Relevant
<1> HIDE DEF held, after, sold, total
<1> DEFINE acquired == SumOver(CostsAcquired(new, rows), DOMAIN new)
           left == SumOver(CostsLeft(new), DOMAIN new)
           taken == SumOver(CostsTaken(held, t), DOMAIN held)
           realized == SumOver(CostsSold(held, sales), DOMAIN sales)
           Balance == acquired = left - taken + realized
           Named == \A k \in DOMAIN sales : sales[k].lot \in DOMAIN held
<1>4. ASSUME sales = <<>>
      PROVE  realized = 0 /\ Named
  BY <1>4, SumOfNone
<1>5. ASSUME new = <<>>
      PROVE  acquired = 0 /\ left = 0
  BY <1>5, SumOfNone
<1>6. left \in Int /\ acquired \in Int /\ taken \in Int
  BY <1>1, CostTypes, CostsOfLots
<1>7. ASSUME NEW l, Bought(st, next, rows, table, asset, id, l, t, new, sales)
      PROVE  Balance /\ Named
  <2> DEFINE lot == IncreaseLot(table, asset, rows, id, l)
  <2>1. lot.source_leg = <<id, l>> /\ lot.original_qty = lot.remaining_qty
    BY DEF IncreaseLot
  <2>2. new = <<lot>> /\ t = NoTake(held) /\ sales = <<>> /\ rows[id].type # "transfer"
    BY <1>7 DEF Bought, Comes, held
  <2> HIDE DEF lot
  <2>3. \A i \in DOMAIN new : CostsAcquired(new, rows)[i] = CostsLeft(new)[i]
    BY <2>1, <2>2 DEF CostsAcquired, CostsLeft, IsAcquired
  <2>4. acquired = left
    <3>1. IsFiniteSet(DOMAIN new)
      BY <1>1, OpenLotsOf
    <3> DEFINE v == CostsAcquired(new, rows)
               w == CostsLeft(new)
    <3>2. \A i \in DOMAIN new : v[i] = w[i]
      BY <2>3
    <3> HIDE DEF v, w
    <3>3. SumOver(v, DOMAIN new) = SumOver(w, DOMAIN new)
      BY <3>1, <3>2, SumAgrees
    <3> QED
      BY <3>3 DEF v, w
  <2>5. taken = 0
    <3>1. \A i \in DOMAIN held : t[i] = 0
      BY <2>2 DEF NoTake
    <3> QED
      BY <1>1, <3>1, NoCostTaken
  <2> HIDE DEF acquired, left, taken, realized
  <2> QED
    BY <1>4, <1>6, <2>2, <2>4, <2>5
<1>8. ASSUME NEW l, Sold(st, next, rows, asset, id, l, t, new, sales)
      PROVE  Balance /\ Named
  <2>1. new = <<>> /\ Goes(rows[id], asset, l)
    BY <1>8 DEF Sold
  <2>2. rows[id].type = "trade"
    <3>1. rows[id].legs[l].quantity < 0 /\ rows[id].legs[l].quantity \in Int /\ l \in DOMAIN rows[id].legs
      BY <1>3, <2>1, LegFields DEF Goes
    <3>2. rows[id].type \notin SingleLegTypes
      <4> SUFFICES ASSUME rows[id].type \in SingleLegTypes
                   PROVE  FALSE
        OBVIOUS
      <4>1. rows[id].type \in Inbound
        BY <1>2
      <4>2. rows[id].type \notin MultiLegTypes
        BY DEF SingleLegTypes, MultiLegTypes
      <4>3. l = 1 /\ rows[id].legs[1].quantity > 0
        BY <1>3, <3>1, <4>1, <4>2 DEF Shaped
      <4> QED
        BY <3>1, <4>3
    <3>3. rows[id].type \in MultiLegTypes
      BY <1>3, <3>2 DEF Transaction
    <3> QED
      BY <2>1, <3>3 DEF MultiLegTypes, Goes
  <2>3. SalesOf(sales, held, t, <<id, l>>)
    BY <1>8, <2>2 DEF Sold, held
  <2>4. realized = taken
    BY <1>1, <2>3, CostOfSale
  <2>5. Named
    BY <2>3 DEF SalesOf, SegmentsOf
  <2> HIDE DEF acquired, left, taken, realized
  <2> QED
    BY <1>5, <1>6, <2>1, <2>4, <2>5
<1>9. ASSUME NEW out, NEW in, Brought(st, next, rows, asset, id, out, in, t, new, sales)
      PROVE  Balance /\ Named
  <2>1. /\ Carries(rows[id], asset, out, in) /\ sales = <<>>
        /\ t = Taken(held, rows[id].legs[out].account, -rows[id].legs[out].quantity)
    BY <1>9 DEF Brought, held
  <2>2. PICK from : CarriedFrom(new, held, rows[id], id, out, in, from)
    BY <1>9 DEF Brought, held
  <2>3. left = taken
    BY <1>1, <1>3, <2>1, <2>2, CostOfCarried
  <2>4. acquired = 0
    <3> DEFINE D == DOMAIN new
               w == CostsAcquired(new, rows)
    <3>1. IsFiniteSet(D)
      BY <1>1, OpenLotsOf
    <3>2. \A i \in D : w[i] = 0
      BY <2>1, <2>2 DEF CarriedFrom, CostsAcquired, IsAcquired, Carries
    <3> HIDE DEF w, D
    <3>3. {} \in SUBSET D /\ (\A i \in {} : w[i] \in Int) /\ \A i \in D \ {} : w[i] = 0
      BY <3>2
    <3>4. SumOver(w, D) = SumOver(w, {})
      BY <3>1, <3>3, SumWithoutZeros
    <3> QED
      BY <3>4, SumOfNone DEF w, D
  <2> HIDE DEF acquired, left, taken, realized
  <2> QED
    BY <1>4, <1>6, <2>1, <2>3, <2>4
<1>10. Balance /\ Named
  BY <1>7, <1>8, <1>9 DEF Effect
<1>11. SumOver(CostsLeft(after), DOMAIN after) = SumOver(CostsLeft(held), DOMAIN held) - taken + left
  BY <1>1, CostsOfLots
<1>12. SumOver(CostsAcquired(after, rows), DOMAIN after)
          = SumOver(CostsAcquired(held, rows), DOMAIN held) + acquired
  BY <1>1, CostsOfLots
<1>13. SumOver(CostsSold(after, total), DOMAIN total) = SumOver(CostsSold(held, sold), DOMAIN sold) + realized
  BY <1>1, <1>2, <1>10, CostsOfSales
<1>14. SumOver(CostsAcquired(held, rows), DOMAIN held)
          = SumOver(CostsLeft(held), DOMAIN held) + SumOver(CostsSold(held, sold), DOMAIN sold)
  BY <1>2 DEF Conserved, held, sold
<1>15. /\ SumOver(CostsLeft(held), DOMAIN held) \in Int
       /\ SumOver(CostsSold(held, sold), DOMAIN sold) \in Int /\ realized \in Int
  <2>1. sales \in Seq(SaleRow)
    BY <1>1 DEF SalesGrow
  <2> QED
    BY <1>1, <1>2, <1>10, <2>1, CostTypes, SaleCostTypes
<1> HIDE DEF acquired, left, taken, realized
<1>16. SumOver(CostsAcquired(after, rows), DOMAIN after)
          = SumOver(CostsLeft(after), DOMAIN after) + SumOver(CostsSold(after, total), DOMAIN total)
  BY <1>6, <1>10, <1>11, <1>12, <1>13, <1>14, <1>15
<1> QED
  BY <1>16 DEF Conserved, after, total

(* What a consumption has realized is what the sale brought in for each    *)
(* unit less what the lot cost, and a cost that is not known is that of a  *)
(* lot acquired at no known cost.                                          *)
Priced(st, rows) ==
    /\ \A k \in DOMAIN st.consumptions :
        LET c == st.consumptions[k]
        IN  c.realized = Pnl(rows[c.sell_leg[1]].legs[c.sell_leg[2]].unit_price,
                             st.lots[c.lot].unit_cost, c.qty)
    /\ \A i \in DOMAIN st.lots : st.lots[i].unit_cost = None =>
        \E j \in DOMAIN st.lots : st.lots[j].unit_cost = None /\ IsAcquired(rows, st.lots[j])

LEMMA UnknownCarried ==
    ASSUME NEW held \in Seq(LotRow), NEW txn \in Transaction, NEW asset, NEW out, NEW in,
           Carries(txn, asset, out, in),
           NEW new, NEW id, NEW from, CarriedFrom(new, held, txn, id, out, in, from),
           NEW k \in DOMAIN new, new[k].unit_cost = None
    PROVE  from[k] \in DOMAIN held /\ held[from[k]].unit_cost = None
<1> DEFINE cost == held[from[k]].unit_cost
           ratio == Ratio(txn, out, in)
<1>1. /\ from[k] \in DOMAIN held /\ Arrivals(held, txn, out, in)[from[k]] > 0
      /\ new[k].unit_cost = Divide(cost, ratio)
  BY DEF CarriedFrom, IsNaming, Hit
<1>2. ratio \in Nat \ {0}
  BY <1>1, ArrivalTypes
<1>3. cost \in Nat \cup {None}
  BY <1>1, LotFields
<1> HIDE DEF cost, ratio
<1>4. ASSUME cost # None
      PROVE  FALSE
  <2>1. cost * Precision \in Nat
    BY <1>3, <1>4, PrecisionAssumption
  <2>2. RoundDiv(cost * Precision, ratio) \in Nat
    BY <1>2, <2>1, RoundDivNat
  <2>3. None = RoundDiv(cost * Precision, ratio)
    BY <1>1, <1>4 DEF Divide
  <2> QED
    BY <2>2, <2>3, NoneAssumption
<1> QED
  BY <1>1, <1>4 DEF cost

LEMMA KeepsPriced ==
    ASSUME NEW rows, NEW table, NEW asset, Replayable(rows, table, asset),
           NEW done, NEW id, Due(rows, asset, done, id), NEW st, NEW next,
           NEW t, NEW new, NEW sales, Effect(st, next, rows, table, asset, id, t, new, sales),
           FromSales(st, rows, asset, done), Priced(st, rows)
    PROVE  Priced(next, rows)
<1> DEFINE held == st.lots
           after == next.lots
           sold == st.consumptions
           total == next.consumptions
           Right(c, own) == c.realized = Pnl(rows[c.sell_leg[1]].legs[c.sell_leg[2]].unit_price,
                                             own[c.lot].unit_cost, c.qty)
           Unknown(own, j) == own[j].unit_cost = None /\ IsAcquired(rows, own[j])
<1>1. LotsGrow(held, after, t, new) /\ SalesGrow(sold, total, sales) /\ held \in Seq(LotRow)
  BY DEF Effect, Grows, LotsGrow
<1>2. /\ \A i \in DOMAIN held : /\ i \in DOMAIN after /\ after[i].unit_cost = held[i].unit_cost
                                /\ after[i].source_leg = held[i].source_leg
      /\ \A j \in DOMAIN new : Len(held) + j \in DOMAIN after /\ after[Len(held) + j] = new[j]
      /\ \A i \in DOMAIN after : i \in DOMAIN held \/ \E j \in DOMAIN new : i = Len(held) + j
  BY <1>1, GrownIndex DEF LotsGrow, SameLot
<1>3. /\ \A k \in DOMAIN sold : total[k] = sold[k] /\ sold[k].lot \in DOMAIN held /\ Right(sold[k], held)
      /\ \A k \in DOMAIN sales : total[Len(sold) + k] = sales[k]
      /\ \A k \in DOMAIN total : k \in DOMAIN sold \/ \E j \in DOMAIN sales : k = Len(sold) + j
  BY <1>1, GrownSales DEF FromSales, Priced
<1>4. ASSUME NEW m \in DOMAIN sales
      PROVE  sales[m].lot \in DOMAIN held /\ Right(sales[m], held)
  <2>1. sales # <<>>
    OBVIOUS
  <2>2. PICK l : /\ SalesOf(sales, held, t, <<id, l>>)
                 /\ Realizes(sales, held, rows[id].legs[l].unit_price)
    BY <2>1, NewSales
  <2>3. sales[m].sell_leg = <<id, l>> /\ sales[m].lot \in DOMAIN held
    BY <2>2 DEF SalesOf, SegmentsOf
  <2> QED
    BY <2>2, <2>3 DEF Realizes
<1>5. \A i \in DOMAIN held : held[i].unit_cost = None => \E j \in DOMAIN held : Unknown(held, j)
  BY DEF Priced
<1> HIDE DEF held, after, sold, total
<1>6. \A k \in DOMAIN total : Right(total[k], after)
  BY <1>2, <1>3, <1>4
<1>7. ASSUME NEW i \in DOMAIN held, held[i].unit_cost = None
      PROVE  \E j \in DOMAIN after : Unknown(after, j)
  <2>1. PICK j \in DOMAIN held : Unknown(held, j)
    BY <1>5, <1>7
  <2>2. j \in DOMAIN after /\ Unknown(after, j)
    BY <1>2, <2>1 DEF IsAcquired
  <2> QED
    BY <2>2
<1>8. ASSUME NEW j \in DOMAIN new, new[j].unit_cost = None
      PROVE  \E i \in DOMAIN after : Unknown(after, i)
  <2>1. rows[id] \in Transaction
    BY RelevantRows DEF Due, Replayable
  <2>2. ASSUME NEW l, Bought(st, next, rows, table, asset, id, l, t, new, sales)
        PROVE  IsAcquired(rows, new[j])
    <3>1. new = <<IncreaseLot(table, asset, rows, id, l)>> /\ rows[id].type # "transfer"
      BY <2>2 DEF Bought, Comes
    <3>2. IncreaseLot(table, asset, rows, id, l).source_leg = <<id, l>>
      BY DEF IncreaseLot
    <3> DEFINE lot == IncreaseLot(table, asset, rows, id, l)
    <3> HIDE DEF lot
    <3>3. new = <<lot>> /\ lot.source_leg = <<id, l>>
      BY <3>1, <3>2 DEF lot
    <3>4. new[j] = lot
      BY <3>3
    <3> QED
      BY <3>1, <3>3, <3>4 DEF IsAcquired
  <2>3. ASSUME NEW out, NEW in, Brought(st, next, rows, asset, id, out, in, t, new, sales)
        PROVE  \E i \in DOMAIN held : held[i].unit_cost = None
    <3>1. PICK from : CarriedFrom(new, held, rows[id], id, out, in, from)
      BY <2>3 DEF Brought, held
    <3>2. Carries(rows[id], asset, out, in)
      BY <2>3 DEF Brought
    <3> QED
      BY <1>1, <1>8, <2>1, <3>1, <3>2, UnknownCarried
  <2>4. ASSUME NEW l, Sold(st, next, rows, asset, id, l, t, new, sales)
        PROVE  FALSE
    BY <2>4 DEF Sold
  <2>5. CASE IsAcquired(rows, new[j])
    <3>1. Len(held) + j \in DOMAIN after /\ after[Len(held) + j] = new[j]
      BY <1>2
    <3>2. Unknown(after, Len(held) + j)
      BY <1>8, <2>5, <3>1
    <3> QED
      BY <3>1, <3>2
  <2> QED
    BY <1>7, <2>2, <2>3, <2>4, <2>5 DEF Effect
<1>9. \A i \in DOMAIN after : after[i].unit_cost = None => \E j \in DOMAIN after : Unknown(after, j)
  BY <1>2, <1>7, <1>8
<1> QED
  BY <1>6, <1>9 DEF Priced, after, total

-----------------------------------------------------------------------------
(* The whole replay: what is true after every row of it.                   *)
Sound(st, rows, asset, done) ==
    /\ FromInflows(st, rows, asset, done) /\ FromSales(st, rows, asset, done)
    /\ InOrder(st, rows) /\ AllRealized(st, rows, asset, done) /\ WithinLots(st)
    /\ Arrived(st, rows, asset, done) /\ Priced(st, rows)

AllWhole(rows, asset) == \A i \in Relevant(rows, asset) : Whole(rows[i].type, rows[i].legs)

Done(order, n) == {order[k] : k \in 1..n}

InReplayOrder(order, rows, asset) ==
    IsListing(order, Relevant(rows, asset), Earlier(rows, asset))

LEMMA NothingIsSound ==
    ASSUME NEW rows, NEW asset
    PROVE  /\ Nothing \in ReplayState /\ ~Nothing.short
           /\ Sound(Nothing, rows, asset, {})
           /\ Reconciled(Nothing, rows, asset, {}) /\ Costed(Nothing, rows, {})
<1>1. Nothing.lots = <<>> /\ Nothing.consumptions = <<>> /\ Nothing.short = FALSE
  BY DEF Nothing
<1>2. Nothing \in ReplayState
  BY DEF Nothing, ReplayState
<1>3. Sound(Nothing, rows, asset, {})
  BY <1>1 DEF Sound, FromInflows, FromSales, InOrder, AllRealized, WithinLots, Arrived, Priced
<1>4. Reconciled(Nothing, rows, asset, {})
  <2>1. ASSUME NEW a \in Accounts, NEW pair
        PROVE  OpenSum(Nothing.lots, a) = LegSum(rows, pair, {})
    <3>1. LegSum(rows, pair, {}) = 0
      BY LegSumOfNone
    <3> QED
      BY <1>1, <3>1, OpenOfNone
  <2> QED
    BY <2>1 DEF Reconciled
<1>5. Costed(Nothing, rows, {})
  BY <1>1, SumOfNone DEF Costed, Conserved
<1> QED
  BY <1>1, <1>2, <1>3, <1>4, <1>5

LEMMA DueNext ==
    ASSUME NEW rows, IsRows(rows), NEW asset, NEW order, InReplayOrder(order, rows, asset),
           NEW n \in Nat, n < Len(order)
    PROVE  /\ Due(rows, asset, Done(order, n), order[n + 1])
           /\ Done(order, n + 1) = Done(order, n) \cup {order[n + 1]}
<1> DEFINE S == Relevant(rows, asset)
           before == Earlier(rows, asset)
<1>1. /\ Len(order) \in Nat /\ DOMAIN order = 1..Len(order)
      /\ \A k \in DOMAIN order : order[k] \in S
      /\ \A k, m \in DOMAIN order : k < m => <<order[k], order[m]>> \in before
      /\ \A k, m \in DOMAIN order : order[k] = order[m] => k = m
  BY DEF InReplayOrder, IsListing
<1>2. /\ n + 1 \in DOMAIN order /\ \A k \in 1..n : k \in DOMAIN order /\ k < n + 1
      /\ 1..(n + 1) = 1..n \cup {n + 1}
  BY <1>1
<1>3. ASSUME NEW k \in 1..n
      PROVE  ReplayBefore(rows, order[k], order[n + 1]) /\ order[k] # order[n + 1] /\ order[k] \in S
  <2>1. <<order[k], order[n + 1]>> \in before
    BY <1>1, <1>2
  <2>2. k # n + 1
    BY <1>2
  <2> QED
    BY <1>1, <1>2, <2>1, <2>2 DEF Earlier
<1>4. Done(order, n + 1) = Done(order, n) \cup {order[n + 1]}
  BY <1>2 DEF Done
<1>5. order[n + 1] \in S
  BY <1>1, <1>2
<1> HIDE DEF S
<1>6. /\ Done(order, n) \subseteq S /\ order[n + 1] \notin Done(order, n)
      /\ \A j \in Done(order, n) : ReplayBefore(rows, j, order[n + 1])
  BY <1>3 DEF Done
<1> QED
  BY <1>4, <1>5, <1>6 DEF Due, S

LEMMA StepIsSound ==
    ASSUME NEW rows, NEW table, NEW asset, Replayable(rows, table, asset),
           NEW done, NEW id, Due(rows, asset, done, id),
           NEW st \in ReplayState, ~st.short, Sound(st, rows, asset, done),
           NEW next, next = ReplayTxn(st, table, asset, rows, id)
    PROVE  /\ next \in ReplayState
           /\ ~next.short => Sound(next, rows, asset, done \cup {id})
           /\ /\ Reconciled(st, rows, asset, done) /\ Costed(st, rows, done)
              /\ Whole(rows[id].type, rows[id].legs)
              => /\ next.short <=> Overdrawn(rows, asset, done \cup {id})
                 /\ ~next.short => /\ Reconciled(next, rows, asset, done \cup {id})
                                   /\ Costed(next, rows, done \cup {id})
<1>1. PICK t, new, sales : Effect(st, next, rows, table, asset, id, t, new, sales)
  BY EffectOfRow DEF Due
<1>2. next \in ReplayState
  BY <1>1 DEF Effect, Grows
<1>3. ASSUME ~next.short
      PROVE  Sound(next, rows, asset, done \cup {id})
  <2>1. /\ FromInflows(st, rows, asset, done) /\ FromSales(st, rows, asset, done)
        /\ InOrder(st, rows) /\ AllRealized(st, rows, asset, done) /\ WithinLots(st)
        /\ Arrived(st, rows, asset, done) /\ Priced(st, rows)
    BY DEF Sound
  <2>2. FromInflows(next, rows, asset, done \cup {id})
    BY <1>1, <2>1, KeepsInflows
  <2>3. FromSales(next, rows, asset, done \cup {id})
    BY <1>1, <2>1, KeepsSales
  <2>4. InOrder(next, rows)
    BY <1>1, <2>1, KeepsOrder
  <2>5. AllRealized(next, rows, asset, done \cup {id})
    BY <1>1, <1>3, <2>1, KeepsRealized
  <2>6. WithinLots(next)
    BY <1>1, <2>1, KeepsWithin
  <2>7. Arrived(next, rows, asset, done \cup {id})
    BY <1>1, <1>3, <2>1, KeepsArrived
  <2>8. Priced(next, rows)
    BY <1>1, <2>1, KeepsPriced
  <2> QED
    BY <2>2, <2>3, <2>4, <2>5, <2>6, <2>7, <2>8 DEF Sound
<1>4. ASSUME Reconciled(st, rows, asset, done), Costed(st, rows, done),
             Whole(rows[id].type, rows[id].legs)
      PROVE  /\ next.short <=> Overdrawn(rows, asset, done \cup {id})
             /\ ~next.short => /\ Reconciled(next, rows, asset, done \cup {id})
                               /\ Costed(next, rows, done \cup {id})
  <2>1. next.short <=> Overdrawn(rows, asset, done \cup {id})
    BY <1>1, <1>4, ShortWhereOverdrawn
  <2>2. ~next.short => Reconciled(next, rows, asset, done \cup {id})
    BY <1>1, <1>4, KeepsReconciled
  <2>3. Costed(next, rows, done \cup {id})
    BY <1>1, <1>4, KeepsCosted DEF Sound
  <2> QED
    BY <2>1, <2>2, <2>3
<1> QED
  BY <1>2, <1>3, <1>4

(* What holds of the state after n rows.                                   *)
SoundAt(st, rows, asset, order, n) ==
    /\ st \in ReplayState
    /\ ~st.short => Sound(st, rows, asset, Done(order, n))
    /\ AllWhole(rows, asset) =>
         /\ st.short <=> \E k \in 1..n : Overdrawn(rows, asset, Done(order, k))
         /\ ~st.short => /\ Reconciled(st, rows, asset, Done(order, n))
                         /\ Costed(st, rows, Done(order, n))

LEMMA SoundAtNext ==
    ASSUME NEW rows, NEW table, NEW asset, Replayable(rows, table, asset),
           NEW order, InReplayOrder(order, rows, asset),
           NEW n \in Nat, n < Len(order), NEW st, SoundAt(st, rows, asset, order, n),
           NEW next, next = ReplayTxn(st, table, asset, rows, order[n + 1])
    PROVE  SoundAt(next, rows, asset, order, n + 1)
<1> DEFINE id == order[n + 1]
           done == Done(order, n)
           all == Done(order, n + 1)
           Owes(m) == \E k \in 1..m : Overdrawn(rows, asset, Done(order, k))
<1>1. Due(rows, asset, done, id) /\ all = done \cup {id}
  BY DueNext DEF Replayable
<1>2. Owes(n + 1) <=> Owes(n) \/ Overdrawn(rows, asset, all)
  <2>1. 1..(n + 1) = 1..n \cup {n + 1}
    OBVIOUS
  <2> QED
    BY <2>1
<1>3. /\ st \in ReplayState /\ st.short \in BOOLEAN
      /\ ~st.short => Sound(st, rows, asset, done)
      /\ AllWhole(rows, asset) => (st.short <=> Owes(n))
      /\ AllWhole(rows, asset) =>
            (~st.short => Reconciled(st, rows, asset, done) /\ Costed(st, rows, done))
  BY StateFields DEF SoundAt
<1>4. AllWhole(rows, asset) => Whole(rows[id].type, rows[id].legs)
  BY <1>1 DEF AllWhole, Due
<1> HIDE DEF id, done, all, Owes
<1>5. CASE st.short
  <2>1. next = st
    BY <1>5 DEF ReplayTxn
  <2>2. AllWhole(rows, asset) => (next.short <=> Owes(n + 1))
    BY <1>2, <1>3, <1>5, <2>1
  <2> QED
    BY <1>3, <1>5, <2>1, <2>2 DEF SoundAt, Owes
<1>6. CASE ~st.short
  <2>1. Sound(st, rows, asset, done)
    BY <1>3, <1>6
  <2>2. next = ReplayTxn(st, table, asset, rows, id)
    BY DEF id
  <2>3. /\ next \in ReplayState /\ next.short \in BOOLEAN
        /\ ~next.short => Sound(next, rows, asset, done \cup {id})
        /\ /\ Reconciled(st, rows, asset, done) /\ Costed(st, rows, done)
           /\ Whole(rows[id].type, rows[id].legs)
           => /\ next.short <=> Overdrawn(rows, asset, done \cup {id})
              /\ ~next.short => /\ Reconciled(next, rows, asset, done \cup {id})
                                /\ Costed(next, rows, done \cup {id})
    BY <1>1, <1>3, <1>6, <2>1, <2>2, StepIsSound, StateFields
  <2>4. ASSUME AllWhole(rows, asset)
        PROVE  /\ next.short <=> Owes(n + 1)
               /\ ~next.short => Reconciled(next, rows, asset, all) /\ Costed(next, rows, all)
    BY <1>1, <1>2, <1>3, <1>4, <1>6, <2>3, <2>4
  <2>5. ~next.short => Sound(next, rows, asset, all)
    BY <1>1, <2>3
  <2> QED
    BY <2>3, <2>4, <2>5 DEF SoundAt, Owes, all
<1> QED
  BY <1>3, <1>5, <1>6

(* The rows up to one, in replay order.                                    *)
UpTo(rows, asset, i) == {j \in Relevant(rows, asset) : j = i \/ ReplayBefore(rows, j, i)}

LEMMA DoneIsUpTo ==
    ASSUME NEW rows, IsRows(rows), NEW asset, NEW order, InReplayOrder(order, rows, asset)
    PROVE  /\ \A k \in DOMAIN order : Done(order, k) = UpTo(rows, asset, order[k])
           /\ Done(order, Len(order)) = Relevant(rows, asset)
<1> DEFINE S == Relevant(rows, asset)
           before == Earlier(rows, asset)
<1>1. /\ Len(order) \in Nat /\ DOMAIN order = 1..Len(order)
      /\ \A k \in DOMAIN order : order[k] \in S
      /\ \A x \in S : \E k \in DOMAIN order : order[k] = x
      /\ \A k, m \in DOMAIN order : k < m => <<order[k], order[m]>> \in before
  BY DEF InReplayOrder, IsListing
<1>2. \A k, m \in DOMAIN order : k < m => ReplayBefore(rows, order[k], order[m])
  BY <1>1 DEF Earlier
<1>3. \A x \in S : x \in Int /\ rows[x].occurred_at \in Int
  BY RelevantRows
<1>4. ASSUME NEW k \in DOMAIN order
      PROVE  Done(order, k) = UpTo(rows, asset, order[k])
  <2>1. k \in 1..Len(order) /\ \A m \in 1..k : m \in DOMAIN order
    BY <1>1
  <2>2. ASSUME NEW m \in 1..k
        PROVE  order[m] \in UpTo(rows, asset, order[k])
    <3>1. m = k \/ m < k
      BY <2>1
    <3> QED
      BY <1>1, <1>2, <2>1, <3>1 DEF UpTo
  <2>3. ASSUME NEW m \in DOMAIN order, order[m] \in UpTo(rows, asset, order[k])
        PROVE  order[m] \in Done(order, k)
    <3>1. CASE m <= k
      <4>1. m \in 1..k
        BY <1>1, <3>1
      <4> QED
        BY <4>1 DEF Done
    <3>2. CASE k < m
      <4>1. ReplayBefore(rows, order[k], order[m])
        BY <1>2, <3>2
      <4>2. order[m] = order[k] \/ ReplayBefore(rows, order[m], order[k])
        BY <2>3 DEF UpTo
      <4>3. /\ order[k] \in Int /\ order[m] \in Int
            /\ rows[order[k]].occurred_at \in Int /\ rows[order[m]].occurred_at \in Int
        BY <1>1, <1>3
      <4> QED
        BY <4>1, <4>2, <4>3 DEF ReplayBefore
    <3> QED
      BY <1>1, <2>1, <3>1, <3>2
  <2>4. UpTo(rows, asset, order[k]) \subseteq S
    BY DEF UpTo
  <2>5. Done(order, k) \subseteq UpTo(rows, asset, order[k])
    BY <2>2 DEF Done
  <2>6. UpTo(rows, asset, order[k]) \subseteq Done(order, k)
    BY <1>1, <2>3, <2>4
  <2> QED
    BY <2>5, <2>6
<1>5. Done(order, Len(order)) = S
  BY <1>1 DEF Done
<1> QED
  BY <1>4, <1>5

(* What the lot engine promises of the rows of one asset: its lots come    *)
(* from inflows that count, its consumptions from trades that do, they     *)
(* respect first in, first out, realize every unit sold once, and never    *)
(* more of a lot than left it; and where transfers arrive whole, it comes  *)
(* up short exactly where the rows, replayed up to some row, leave an      *)
(* account owing, and otherwise leaves open what the legs add up to, at    *)
(* the cost at which it was acquired.                                      *)
Exact(st, rows, asset) ==
    /\ st \in ReplayState
    /\ ~st.short => Sound(st, rows, asset, Relevant(rows, asset))
    /\ AllWhole(rows, asset) =>
         /\ st.short <=> \E i \in Relevant(rows, asset) : Overdrawn(rows, asset, UpTo(rows, asset, i))
         /\ ~st.short => /\ Reconciled(st, rows, asset, Relevant(rows, asset))
                         /\ Costed(st, rows, Relevant(rows, asset))

(* A rebuild (lots.py: rebuild) keeps that promise, of any rows, however   *)
(* many, with any prices.                                                  *)
THEOREM ReplayIsExact ==
    ASSUME NEW rows, NEW table, NEW asset, Replayable(rows, table, asset)
    PROVE  Exact(Rebuild(rows, table, asset), rows, asset)
<1> DEFINE order == Replayed(rows, asset)
           S == Relevant(rows, asset)
<1>1. IsRows(rows) /\ InReplayOrder(order, rows, asset)
  BY ReplayOrder DEF Replayable, InReplayOrder
<1>2. /\ Len(order) \in Nat /\ DOMAIN order = 1..Len(order)
      /\ \A k \in DOMAIN order : order[k] \in S
      /\ \A x \in S : \E k \in DOMAIN order : order[k] = x
  BY <1>1 DEF InReplayOrder, IsListing
<1>3. PICK f : /\ IsReplay(f, rows, table, asset, order)
               /\ Rebuild(rows, table, asset) = f[Len(order)]
  BY <1>2, ReplayExists
<1> HIDE DEF order, S
<1> DEFINE Good == {n \in Nat : n <= Len(order) => SoundAt(f[n], rows, asset, order, n)}
<1>4. 0 \in Good
  <2>1. f[0] = Nothing
    BY <1>3 DEF IsReplay
  <2>2. Done(order, 0) = {}
    BY DEF Done
  <2>3. SoundAt(Nothing, rows, asset, order, 0)
    BY <2>2, NothingIsSound DEF SoundAt
  <2> QED
    BY <2>1, <2>3
<1>5. ASSUME NEW n \in Nat, n \in Good
      PROVE  n + 1 \in Good
  <2> SUFFICES ASSUME n + 1 <= Len(order)
               PROVE  SoundAt(f[n + 1], rows, asset, order, n + 1)
    OBVIOUS
  <2>1. n < Len(order) /\ n + 1 \in 1..Len(order) /\ (n + 1) - 1 = n
    BY <1>2
  <2>2. SoundAt(f[n], rows, asset, order, n)
    BY <1>2, <1>5, <2>1
  <2>3. f[n + 1] = ReplayTxn(f[n], table, asset, rows, order[n + 1])
    BY <1>3, <2>1 DEF IsReplay
  <2> HIDE DEF Good
  <2> QED
    BY <1>1, <2>1, <2>2, <2>3, SoundAtNext
<1>6. Nat \subseteq Good
  <2> HIDE DEF Good
  <2> QED
    BY <1>4, <1>5, NatSetInduction
<1>7. SoundAt(f[Len(order)], rows, asset, order, Len(order))
  BY <1>2, <1>6
<1> DEFINE st == Rebuild(rows, table, asset)
<1>8. SoundAt(st, rows, asset, order, Len(order))
  BY <1>3, <1>7
<1> HIDE DEF st
<1>9. /\ \A k \in DOMAIN order : Done(order, k) = UpTo(rows, asset, order[k])
      /\ Done(order, Len(order)) = S
  BY <1>1, DoneIsUpTo DEF S
<1>10. (\E k \in 1..Len(order) : Overdrawn(rows, asset, Done(order, k)))
           <=> \E i \in S : Overdrawn(rows, asset, UpTo(rows, asset, i))
  BY <1>2, <1>9
<1>11. Exact(st, rows, asset)
  BY <1>8, <1>9, <1>10 DEF SoundAt, Exact, S
<1> QED
  BY <1>11 DEF st

(* What a replay leaves depends on the rows it reads alone.                *)
LEMMA ExactDepends ==
    ASSUME NEW old, NEW new, NEW asset, Relevant(new, asset) = Relevant(old, asset),
           \A i \in Relevant(old, asset) : new[i] = old[i],
           NEW st, Exact(st, old, asset)
    PROVE  Exact(st, new, asset)
<1> DEFINE R == Relevant(old, asset)
<1>1. \A i, j \in R : ReplayBefore(new, i, j) <=> ReplayBefore(old, i, j)
  BY DEF ReplayBefore
<1>2. \A i \in R : UpTo(new, asset, i) = UpTo(old, asset, i) /\ UpTo(old, asset, i) \in SUBSET R
  BY <1>1 DEF UpTo
<1>3. ASSUME NEW ids \in SUBSET R, NEW pair
      PROVE  LegSum(new, pair, ids) = LegSum(old, pair, ids)
  <2>1. \A i \in ids : new[i] = old[i]
    OBVIOUS
  <2> HIDE DEF R
  <2>2. /\ \A i \in ids : \A l \in DOMAIN old[i].legs :
             <<old[i].legs[l].account, old[i].legs[l].asset>> = pair
                 => i \in ids /\ new[i].legs = old[i].legs
        /\ \A i \in ids : \A l \in DOMAIN new[i].legs :
             <<new[i].legs[l].account, new[i].legs[l].asset>> = pair
                 => i \in ids /\ new[i].legs = old[i].legs
    BY <2>1
  <2>3. LegSum(old, pair, ids) = LegSum(new, pair, ids)
    BY <2>2, LegSumDepends
  <2> QED
    BY <2>3
<1>4. ASSUME NEW ids \in SUBSET R
      PROVE  Overdrawn(new, asset, ids) <=> Overdrawn(old, asset, ids)
  BY <1>3 DEF Overdrawn
<1>5. AllWhole(new, asset) <=> AllWhole(old, asset)
  BY DEF AllWhole
<1>6. ASSUME Sound(st, old, asset, R)
      PROVE  Sound(st, new, asset, R)
  <2>1. \A i \in R : new[i] = old[i]
    OBVIOUS
  <2>2. /\ FromInflows(st, old, asset, R) /\ FromSales(st, old, asset, R)
        /\ InOrder(st, old) /\ AllRealized(st, old, asset, R) /\ WithinLots(st)
        /\ Arrived(st, old, asset, R) /\ Priced(st, old)
    BY <1>6 DEF Sound
  <2> HIDE DEF R
  <2>3. FromInflows(st, new, asset, R)
    BY <2>1, <2>2 DEF FromInflows, Legit
  <2>4. FromSales(st, new, asset, R)
    BY <2>1, <2>2 DEF FromSales
  <2>5. AllRealized(st, new, asset, R)
    <3>1. \A j \in R : \A l : ToRealize(new[j], l) = ToRealize(old[j], l)
      BY <2>1
    <3>2. \A j \in R : LegsIn(new[j], asset) = LegsIn(old[j], asset)
      BY <2>1
    <3> QED
      BY <2>2, <3>1, <3>2 DEF AllRealized
  <2>6. InOrder(st, new)
    <3> SUFFICES ASSUME NEW k \in DOMAIN st.consumptions, NEW i \in DOMAIN st.lots,
                        st.lots[i].account = st.lots[st.consumptions[k].lot].account,
                        st.lots[i].acquired_at < st.lots[st.consumptions[k].lot].acquired_at,
                        ReplayBefore(new, st.lots[i].source_leg[1], st.consumptions[k].sell_leg[1])
                 PROVE  st.lots[i].remaining_qty = 0
      BY DEF InOrder
    <3>1. st.lots[i].source_leg[1] \in R /\ st.consumptions[k].sell_leg[1] \in R
      BY <2>2 DEF FromInflows, Legit, FromSales
    <3>2. ReplayBefore(old, st.lots[i].source_leg[1], st.consumptions[k].sell_leg[1])
      BY <1>1, <3>1
    <3> QED
      BY <2>2, <3>2 DEF InOrder
  <2>7. Arrived(st, new, asset, R)
    <3>1. \A j \in R : LegsIn(new[j], asset) = LegsIn(old[j], asset)
      BY <2>1
    <3> QED
      BY <2>1, <2>2, <3>1 DEF Arrived
  <2>8. Priced(st, new)
    <3>1. \A i \in DOMAIN st.lots : IsAcquired(new, st.lots[i]) <=> IsAcquired(old, st.lots[i])
      BY <2>1, <2>2 DEF FromInflows, Legit, IsAcquired
    <3>2. \A k \in DOMAIN st.consumptions :
             new[st.consumptions[k].sell_leg[1]] = old[st.consumptions[k].sell_leg[1]]
      BY <2>1, <2>2 DEF FromSales
    <3> QED
      BY <2>2, <3>1, <3>2 DEF Priced
  <2> QED
    BY <2>2, <2>3, <2>4, <2>5, <2>6, <2>7, <2>8 DEF Sound
<1>11. ASSUME st \in ReplayState, FromInflows(st, old, asset, R), Costed(st, old, R)
       PROVE  Costed(st, new, R)
  <2>1. Recorded(new, R) <=> Recorded(old, R)
    BY DEF Recorded
  <2>2. \A i \in DOMAIN st.lots : IsAcquired(new, st.lots[i]) <=> IsAcquired(old, st.lots[i])
    BY <1>11 DEF FromInflows, Legit, IsAcquired
  <2>3. CostsAcquired(st.lots, new) = CostsAcquired(st.lots, old)
    BY <2>2 DEF CostsAcquired
  <2> HIDE DEF R
  <2> QED
    BY <1>11, <2>1, <2>3 DEF Costed, Conserved
<1>7. ASSUME Reconciled(st, old, asset, R)
      PROVE  Reconciled(st, new, asset, R)
  <2>1. R \in SUBSET R
    OBVIOUS
  <2> HIDE DEF R
  <2> QED
    BY <1>3, <1>7, <2>1 DEF Reconciled
<1>8. (\E i \in R : Overdrawn(new, asset, UpTo(new, asset, i)))
          <=> \E i \in R : Overdrawn(old, asset, UpTo(old, asset, i))
  <2> HIDE DEF R
  <2> QED
    BY <1>2, <1>4
<1>9. Relevant(new, asset) = R
  OBVIOUS
<1>10. /\ st \in ReplayState
       /\ ~st.short => Sound(st, old, asset, R)
       /\ AllWhole(old, asset) =>
            /\ st.short <=> \E i \in R : Overdrawn(old, asset, UpTo(old, asset, i))
            /\ ~st.short => Reconciled(st, old, asset, R) /\ Costed(st, old, R)
  BY DEF Exact
<1>12. Sound(st, old, asset, R) => FromInflows(st, old, asset, R)
  BY DEF Sound
<1> HIDE DEF R
<1> QED
  BY <1>5, <1>6, <1>7, <1>8, <1>9, <1>10, <1>11, <1>12 DEF Exact

-----------------------------------------------------------------------------
(* Replays of all assets together: no account ever owes anything.          *)
LEMMA LastUpTo ==
    ASSUME NEW rows, IsRows(rows), NEW asset, NEW first, first \in SUBSET Relevant(rows, asset),
           first # {},
           \A j \in first : \A m \in Relevant(rows, asset) : ReplayBefore(rows, m, j) => m \in first
    PROVE  \E k \in first : first = UpTo(rows, asset, k)
<1> DEFINE order == Replayed(rows, asset)
           before == Earlier(rows, asset)
           S == Relevant(rows, asset)
<1>1. /\ Len(order) \in Nat /\ DOMAIN order = 1..Len(order)
      /\ \A k \in DOMAIN order : order[k] \in S
      /\ \A x \in S : \E k \in DOMAIN order : order[k] = x
      /\ \A k, m \in DOMAIN order : k < m => <<order[k], order[m]>> \in before
  BY ReplayOrder DEF IsListing
<1> HIDE DEF order
<1>2. \A k, m \in DOMAIN order : k < m => ReplayBefore(rows, order[k], order[m])
  BY <1>1 DEF Earlier
<1> HIDE DEF S
<1> DEFINE back == {Len(order) - k : k \in {m \in DOMAIN order : order[m] \in first}}
<1>3. back \subseteq Nat /\ back # {}
  <2>1. PICK x \in first : x \in S
    BY DEF S
  <2>2. PICK k \in DOMAIN order : order[k] = x
    BY <1>1, <2>1
  <2>3. Len(order) - k \in back
    BY <2>1, <2>2
  <2>4. \A m \in DOMAIN order : Len(order) - m \in Nat
    BY <1>1
  <2> QED
    BY <2>3, <2>4
<1>4. PICK n \in back : \A m \in back : n <= m
  <2> HIDE DEF back
  <2> QED
    BY <1>3, LeastNat
<1>5. PICK k \in DOMAIN order : n = Len(order) - k /\ order[k] \in first
  OBVIOUS
<1>6. ASSUME NEW m \in DOMAIN order, order[m] \in first
      PROVE  m <= k
  <2>1. Len(order) - k <= Len(order) - m
    BY <1>4, <1>5, <1>6
  <2>2. k \in Nat /\ m \in Nat /\ Len(order) \in Nat
    BY <1>1
  <2> QED
    BY <2>1, <2>2
<1>7. ASSUME NEW x \in first
      PROVE  x \in UpTo(rows, asset, order[k])
  <2>1. x \in S
    BY DEF S
  <2>2. PICK m \in DOMAIN order : order[m] = x
    BY <1>1, <2>1
  <2>3. m = k \/ m < k
    BY <1>1, <1>6, <2>2
  <2> QED
    BY <1>2, <2>1, <2>2, <2>3 DEF UpTo, S
<1>8. ASSUME NEW x \in UpTo(rows, asset, order[k])
      PROVE  x \in first
  BY <1>5 DEF UpTo
<1> DEFINE last == order[k]
<1>9. last \in first
  BY <1>5
<1> HIDE DEF back, before, last
<1>10. first = UpTo(rows, asset, last)
  <2>1. first \subseteq UpTo(rows, asset, last)
    BY <1>7 DEF last
  <2>2. UpTo(rows, asset, last) \subseteq first
    BY <1>8 DEF last
  <2> QED
    BY <2>1, <2>2
<1> QED
  BY <1>9, <1>10

LEMMA BeforeIsOrder ==
    ASSUME NEW rows, IsRows(rows),
           NEW i \in DOMAIN rows, NEW j \in DOMAIN rows, NEW k \in DOMAIN rows,
           ReplayBefore(rows, i, j), ReplayBefore(rows, j, k)
    PROVE  ReplayBefore(rows, i, k)
<1>1. /\ i \in Int /\ j \in Int /\ k \in Int
      /\ rows[i] \in Transaction /\ rows[j] \in Transaction /\ rows[k] \in Transaction
  BY DEF IsRows
<1>2. \A x \in {i, j, k} : rows[x].occurred_at \in Int
  <2>1. \A x \in {i, j, k} : rows[x].occurred_at \in Days
    BY <1>1 DEF Transaction
  <2>2. Days \subseteq Int
    BY TransactionsAssumption
  <2> QED
    BY <2>1, <2>2
<1> QED
  BY <1>1, <1>2 DEF ReplayBefore

LEMMA RelevantLegs ==
    ASSUME NEW rows, NEW s, NEW a, NEW pair, IsPair(pair, a, s), NEW ids \in SUBSET Active(rows),
           NEW own, own = ids \cap Relevant(rows, s)
    PROVE  LegSum(rows, pair, ids) = LegSum(rows, pair, own)
<1>1. \A i \in ids : \A l \in DOMAIN rows[i].legs :
        <<rows[i].legs[l].account, rows[i].legs[l].asset>> = pair => i \in own
  BY DEF Relevant, Active, LegsIn, IsPair
<1>2. own \subseteq ids
  OBVIOUS
<1>3. /\ \A i \in ids : \A l \in DOMAIN rows[i].legs :
           <<rows[i].legs[l].account, rows[i].legs[l].asset>> = pair
               => i \in own /\ rows[i].legs = rows[i].legs
      /\ \A i \in own : \A l \in DOMAIN rows[i].legs :
           <<rows[i].legs[l].account, rows[i].legs[l].asset>> = pair
               => i \in ids /\ rows[i].legs = rows[i].legs
  BY <1>1, <1>2
<1> QED
  BY <1>3, LegSumDepends

(* The active rows up to one, in replay order.                             *)
ActiveUpTo(rows, i) == {j \in Active(rows) : j = i \/ ReplayBefore(rows, j, i)}

LEMMA ActiveLegs ==
    ASSUME NEW rows, NEW s, NEW a, NEW pair, IsPair(pair, a, s), NEW i
    PROVE  LegSum(rows, pair, ActiveUpTo(rows, i)) = LegSum(rows, pair, UpTo(rows, s, i))
<1> DEFINE ids == ActiveUpTo(rows, i)
           own == UpTo(rows, s, i)
<1>1. ids \in SUBSET Active(rows) /\ own = ids \cap Relevant(rows, s)
  BY DEF ActiveUpTo, UpTo, Active, Relevant
<1> HIDE DEF ids, own
<1>2. LegSum(rows, pair, ids) = LegSum(rows, pair, own)
  BY <1>1, RelevantLegs
<1> QED
  BY <1>2 DEF ids, own

(* Some account owes after the rows up to one exactly where it does after  *)
(* those of the asset.                                                     *)
LEMMA NeverNegativeRows ==
    ASSUME NEW rows, IsRows(rows)
    PROVE  NeverNegative(rows) <=>
             \A s \in Assets : \A i \in Relevant(rows, s) : ~Overdrawn(rows, s, UpTo(rows, s, i))
<1>1. ASSUME NEW s \in Assets, NEW i \in Relevant(rows, s),
             Overdrawn(rows, s, UpTo(rows, s, i))
      PROVE  ~NeverNegative(rows)
  <2>1. PICK a \in Accounts : LegSum(rows, <<a, s>>, UpTo(rows, s, i)) < 0
    BY <1>1 DEF Overdrawn
  <2> DEFINE pair == <<a, s>>
  <2>2. pair \in Accounts \X Assets /\ IsPair(pair, a, s) /\ i \in Active(rows)
    BY DEF IsPair, Active, Relevant
  <2>3. LegSum(rows, pair, UpTo(rows, s, i)) < 0
    BY <2>1
  <2> HIDE DEF pair
  <2>4. LegSum(rows, pair, ActiveUpTo(rows, i)) = LegSum(rows, pair, UpTo(rows, s, i))
    BY <2>2, ActiveLegs
  <2> DEFINE sum == LegSum(rows, pair, ActiveUpTo(rows, i))
  <2>5. sum < 0 /\ sum \in Int
    <3>1. ActiveUpTo(rows, i) \in SUBSET DOMAIN rows
      BY DEF ActiveUpTo, Active
    <3>2. sum \in Int
      BY <3>1, LegSumIsInt
    <3> QED
      BY <2>3, <2>4, <3>2
  <2> HIDE DEF sum
  <2>6. ~(sum >= 0)
    BY <2>5
  <2> QED
    BY <2>2, <2>6 DEF NeverNegative, ActiveUpTo, sum
<1>2. ASSUME \A s \in Assets : \A i \in Relevant(rows, s) : ~Overdrawn(rows, s, UpTo(rows, s, i)),
             NEW pair \in Accounts \X Assets, NEW i \in Active(rows)
      PROVE  LegSum(rows, pair, ActiveUpTo(rows, i)) >= 0
  <2>1. PICK a \in Accounts, s \in Assets : pair = <<a, s>>
    OBVIOUS
  <2> DEFINE first == UpTo(rows, s, i)
             sum == LegSum(rows, pair, first)
  <2>2. IsPair(pair, a, s)
    BY <2>1 DEF IsPair
  <2>3. LegSum(rows, pair, ActiveUpTo(rows, i)) = sum
    BY <2>2, ActiveLegs
  <2>4. first \in SUBSET Relevant(rows, s) /\ Relevant(rows, s) \subseteq DOMAIN rows /\ i \in DOMAIN rows
    BY DEF UpTo, Relevant, Active
  <2>5. CASE first = {}
    <3>1. LegSum(rows, pair, {}) = 0
      BY LegSumOfNone
    <3> QED
      BY <2>3, <2>5, <3>1
  <2>6. CASE first # {}
    <3>1. \A j \in first : \A m \in Relevant(rows, s) : ReplayBefore(rows, m, j) => m \in first
      <4> SUFFICES ASSUME NEW j \in first, NEW m \in Relevant(rows, s), ReplayBefore(rows, m, j)
                   PROVE  ReplayBefore(rows, m, i)
        BY DEF UpTo
      <4>1. j = i \/ ReplayBefore(rows, j, i)
        BY DEF UpTo
      <4> QED
        BY <2>4, <4>1, BeforeIsOrder
    <3> HIDE DEF first
    <3>2. PICK k \in first : first = UpTo(rows, s, k)
      BY <2>4, <2>6, <3>1, LastUpTo
    <3>3. ~Overdrawn(rows, s, first)
      BY <1>2, <2>4, <3>2
    <3>4. ~(sum < 0)
      BY <2>1, <3>3 DEF Overdrawn
    <3>5. sum \in Int
      <4>1. first \in SUBSET DOMAIN rows
        BY <2>4
      <4> QED
        BY <4>1, LegSumIsInt
    <3> HIDE DEF sum
    <3> QED
      BY <2>3, <3>4, <3>5
  <2> QED
    BY <2>5, <2>6
<1>3. (\A s \in Assets : \A i \in Relevant(rows, s) : ~Overdrawn(rows, s, UpTo(rows, s, i)))
         => NeverNegative(rows)
  BY <1>2 DEF NeverNegative, ActiveUpTo
<1> QED
  BY <1>1, <1>3

(* What is never negative is not negative in the end.                      *)
LEMMA NeverNegativeHolds ==
    ASSUME NEW rows, IsRows(rows), NeverNegative(rows), NEW pair \in Accounts \X Assets
    PROVE  ~Owed(rows, pair)
<1>1. PICK a \in Accounts, s \in Assets : pair = <<a, s>>
  OBVIOUS
<1>2. IsPair(pair, a, s)
  BY <1>1 DEF IsPair
<1> DEFINE R == Relevant(rows, s)
           sum == LegSum(rows, pair, R)
<1>3. Holding(rows, pair) = sum
  <2> DEFINE A == Active(rows)
  <2>1. A \in SUBSET Active(rows) /\ R = A \cap Relevant(rows, s)
    BY DEF Relevant, Active
  <2> HIDE DEF A, R
  <2>2. LegSum(rows, pair, A) = sum
    BY <1>2, <2>1, RelevantLegs
  <2> QED
    BY <2>2 DEF A, Holding
<1>4. CASE R = {}
  <2>1. LegSum(rows, pair, {}) = 0
    BY LegSumOfNone
  <2> QED
    BY <1>3, <1>4, <2>1 DEF Owed
<1>5. CASE R # {}
  <2>1. PICK k \in R : R = UpTo(rows, s, k)
    BY <1>5, LastUpTo
  <2>2. ~Overdrawn(rows, s, R)
    BY <2>1, NeverNegativeRows
  <2>3. ~(sum < 0)
    BY <1>1, <2>2 DEF Overdrawn
  <2> HIDE DEF sum
  <2> QED
    BY <1>3, <2>3 DEF Owed
<1> QED
  BY <1>4, <1>5
=============================================================================
