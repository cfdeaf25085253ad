-------------------------------- MODULE Lots --------------------------------
(***************************************************************************)
(* The FIFO lot engine (src/app/services/lots.py, cost_basis.py): what one *)
(* rebuild of one (user, asset) computes from the transactions of the user.*)
(* There is no state here: a rebuild is a function of the transaction rows *)
(* and of the price rows it reads.                                         *)
(*                                                                         *)
(* Transactions are a sequence of rows; the index of a row is its id and   *)
(* the order of its creation.  A quantity is an integer number of the      *)
(* smallest unit, a unit cost one of the smallest price unit; a ratio      *)
(* carries Precision units per one, and a division is rounded there, as    *)
(* Decimal rounds it at 28 digits.                                         *)
(* The two reporting currencies are computed alike and independently, so   *)
(* one of them stands for both.                                            *)
(***************************************************************************)
EXTENDS Integers, Sequences, FiniteSetsExt

CONSTANTS
    Precision,  \* units per one in a ratio; Decimal keeps 28 digits
    Fiat,       \* the assets of class fiat, which cost their nominal value
    None        \* the absent optional value

ASSUME PrecisionAssumption == Precision \in Nat \ {0}
ASSUME NoneAssumption == None \notin Int

-----------------------------------------------------------------------------
(* Decimal division, rounding half to even.                                *)
RoundDiv(a, b) ==
    LET q == a \div b
        r == a % b
    IN  IF 2 * r > b \/ (2 * r = b /\ q % 2 = 1) THEN q + 1 ELSE q

(* Fault: the fee of a transfer does not raise the cost of what arrives.   *)
CostNotSpread(cost, ratio) == cost

(* Arithmetic on optional amounts: absent when an operand is absent.       *)
Divide(cost, ratio) == IF cost = None THEN None ELSE RoundDiv(cost * Precision, ratio)
Pnl(proceeds, cost, qty) ==
    IF None \in {proceeds, cost} THEN None ELSE (proceeds - cost) * qty

(* The latest price recorded at or before the date, if there is one.       *)
NearestPrice(rows, date) ==
    LET known == {p \in rows : p.as_of <= date}
    IN  IF known = {} THEN None
        ELSE (CHOOSE p \in known : \A q \in known : q.as_of <= p.as_of).price

AcquisitionCost(prices, asset, leg, date) ==
    CASE asset \in Fiat                                -> 1
      [] asset \notin Fiat /\ leg.unit_price # None    -> leg.unit_price
      [] OTHER                                         -> NearestPrice(prices[asset], date)

-----------------------------------------------------------------------------
(* The elements of a finite set as a sequence, sorted by a strict order on *)
(* them: the one at k has k - 1 elements before it.                        *)
Sorted(S, before) ==
    [k \in 1..Cardinality(S) |->
        CHOOSE x \in S : Cardinality({y \in S : <<y, x>> \in before}) = k - 1]

(* Replay order and the rows a rebuild of an asset reads.                  *)
LegsIn(txn, asset) == {l \in DOMAIN txn.legs : txn.legs[l].asset = asset}

Counts(txn) == txn.status = "active" /\ ~txn.deleted

ReplayBefore(txns, i, j) ==
    \/ txns[i].occurred_at < txns[j].occurred_at
    \/ txns[i].occurred_at = txns[j].occurred_at /\ i < j

Replayed(txns, asset) ==
    LET rows == {i \in DOMAIN txns : Counts(txns[i]) /\ LegsIn(txns[i], asset) # {}}
    IN  Sorted(rows, {p \in rows \X rows : ReplayBefore(txns, p[1], p[2])})

-----------------------------------------------------------------------------
(* The lots of a replay, in the order they are created; the open lots of   *)
(* an account are those of its lots that still have a remaining quantity.  *)
Open(lots, account) ==
    {i \in DOMAIN lots : lots[i].account = account /\ lots[i].remaining_qty > 0}

(* Fault: last in, first out.                                              *)
LifoBefore(lots, i, j) ==
    \/ lots[i].acquired_at > lots[j].acquired_at
    \/ lots[i].acquired_at = lots[j].acquired_at /\ i > j

(* FIFOStrategy.order: a stable sort by acquisition time.                  *)
FifoBefore(lots, i, j) ==
    \/ lots[i].acquired_at < lots[j].acquired_at
    \/ lots[i].acquired_at = lots[j].acquired_at /\ i < j

FifoOrder(lots, indices) ==
    Sorted(indices, {p \in indices \X indices : FifoBefore(lots, p[1], p[2])})

Quantity(lots, indices) == MapThenSumSet(LAMBDA i : lots[i].remaining_qty, indices)

(* What one outflow of qty takes from the open lot i: what the lots before *)
(* it left uncovered, and no more than the lot holds.                      *)
Take(lots, account, qty, i) ==
    LET before == Quantity(lots, {j \in Open(lots, account) : FifoBefore(lots, j, i)})
    IN  Min({lots[i].remaining_qty, Max({0, qty - before})})

(* The (lot, quantity) segments of an outflow, in the order it takes them. *)
Segments(lots, account, qty) ==
    LET order == FifoOrder(lots, {i \in Open(lots, account) : Take(lots, account, qty, i) > 0})
    IN  [k \in DOMAIN order |->
            [lot |-> order[k], qty |-> Take(lots, account, qty, order[k])]]

(* Fault: an outflow of all that is open counts as a shortfall.            *)
ShortfallAtZero(lots, account, qty) == Quantity(lots, Open(lots, account)) <= qty

Shortfall(lots, account, qty) == Quantity(lots, Open(lots, account)) < qty

(* Fault: a lot that is drained exactly keeps its quantity.                *)
ConsumePartial(lots, account, qty) ==
    [i \in DOMAIN lots |->
        IF i \in Open(lots, account) /\ Take(lots, account, qty, i) < lots[i].remaining_qty
        THEN [lots[i] EXCEPT !.remaining_qty = @ - Take(lots, account, qty, i)]
        ELSE lots[i]]

Consume(lots, account, qty) ==
    [i \in DOMAIN lots |->
        IF i \in Open(lots, account)
        THEN [lots[i] EXCEPT !.remaining_qty = @ - Take(lots, account, qty, i)]
        ELSE lots[i]]

-----------------------------------------------------------------------------
(* The effect of one row of the replay on [lots, consumptions, short].     *)
IncreaseLot(prices, asset, txns, id, l) ==
    LET leg == txns[id].legs[l]
    IN  [account       |-> leg.account,
         source_leg    |-> <<id, l>>,
         original_qty  |-> leg.quantity,
         remaining_qty |-> leg.quantity,
         unit_cost     |-> AcquisitionCost(prices, asset, leg, txns[id].occurred_at),
         acquired_at   |-> txns[id].occurred_at]

Increase(st, prices, asset, txns, id, l) ==
    [st EXCEPT !.lots = Append(@, IncreaseLot(prices, asset, txns, id, l))]

(* Fault: every outflow is recorded as a sale.                             *)
RealizeAlways(lots, txns, id, l, segments) ==
    [k \in DOMAIN segments |->
        [lot |-> segments[k].lot, sell_leg |-> <<id, l>>, qty |-> segments[k].qty,
         realized |-> None]]

(* Fault: a sale is recorded against the first lot it takes from only.     *)
RealizeFirst(lots, txns, id, l, segments) ==
    IF txns[id].type # "trade" THEN <<>>
    ELSE RealizeAlways(lots, txns, id, l, [k \in DOMAIN segments \cap {1} |-> segments[k]])

(* Only a trade realizes a profit or loss; every other outflow consumes    *)
(* the lots and leaves no record of it.                                    *)
Realize(lots, txns, id, l, segments) ==
    IF txns[id].type # "trade" THEN <<>>
    ELSE LET proceeds == txns[id].legs[l].unit_price
         IN  [k \in DOMAIN segments |->
                 [lot      |-> segments[k].lot,
                  sell_leg |-> <<id, l>>,
                  qty      |-> segments[k].qty,
                  realized |-> Pnl(proceeds, lots[segments[k].lot].unit_cost, segments[k].qty)]]

Decrease(st, txns, id, l) ==
    LET leg == txns[id].legs[l]
        segments == Segments(st.lots, leg.account, -leg.quantity)
    IN  [lots         |-> Consume(st.lots, leg.account, -leg.quantity),
         consumptions |-> st.consumptions \o Realize(st.lots, txns, id, l, segments),
         short        |-> Shortfall(st.lots, leg.account, -leg.quantity)]

(* Fault: the carried lots ignore the fee and are dated a day later.       *)
CarriedAnew(lots, txns, id, out, in) ==
    LET segments == Segments(lots, txns[id].legs[out].account, -txns[id].legs[out].quantity)
    IN  [k \in DOMAIN segments |->
            [account |-> txns[id].legs[in].account, source_leg |-> <<id, in>>,
             original_qty |-> segments[k].qty, remaining_qty |-> segments[k].qty,
             unit_cost |-> lots[segments[k].lot].unit_cost,
             acquired_at |-> lots[segments[k].lot].acquired_at + 1]]

(* What arrives of what is taken from the lot i, at so many per one sent.  *)
Arriving(lots, account, sent, ratio, i) ==
    RoundDiv(Take(lots, account, sent, i) * ratio, Precision)

(* A carried lot keeps its acquisition time; its cost is spread over the   *)
(* units that arrive.                                                      *)
CarriedLots(lots, txns, id, out, in) ==
    LET src   == txns[id].legs[out].account
        sent  == -txns[id].legs[out].quantity
        ratio == RoundDiv(txns[id].legs[in].quantity * Precision, sent)
        order == FifoOrder(lots, {i \in Open(lots, src) : Arriving(lots, src, sent, ratio, i) # 0})
    IN  [k \in DOMAIN order |->
            [account       |-> txns[id].legs[in].account,
             source_leg    |-> <<id, in>>,
             original_qty  |-> Arriving(lots, src, sent, ratio, order[k]),
             remaining_qty |-> Arriving(lots, src, sent, ratio, order[k]),
             unit_cost     |-> Divide(lots[order[k]].unit_cost, ratio),
             acquired_at   |-> lots[order[k]].acquired_at]]

ReplayTransfer(st, txns, id) ==
    LET out == CHOOSE l \in DOMAIN txns[id].legs : txns[id].legs[l].quantity < 0
        in  == CHOOSE l \in DOMAIN txns[id].legs : txns[id].legs[l].quantity > 0
        src == txns[id].legs[out].account
        qty == -txns[id].legs[out].quantity
    IN  [st EXCEPT
            !.lots  = Consume(@, src, qty) \o CarriedLots(@, txns, id, out, in),
            !.short = Shortfall(st.lots, src, qty)]

ReplayTxn(st, prices, asset, txns, id) ==
    IF st.short THEN st   \* the request has already been aborted
    ELSE IF txns[id].type = "transfer" THEN ReplayTransfer(st, txns, id)
    ELSE LET l == CHOOSE leg \in LegsIn(txns[id], asset) : TRUE
         IN  IF txns[id].legs[l].quantity > 0
             THEN Increase(st, prices, asset, txns, id, l)
             ELSE Decrease(st, txns, id, l)

(* rebuild: the lots and consumptions of the asset, from nothing.  "short" *)
(* says that an outflow found too few lots: the request is then aborted.   *)
(* The one-element sets have TLC compute every state of the replay once.   *)
Rebuild(txns, prices, asset) ==
    LET order == Replayed(txns, asset)
        replay[n \in 0..Len(order)] ==
            IF n = 0 THEN [lots |-> <<>>, consumptions |-> <<>>, short |-> FALSE]
            ELSE CHOOSE next \in {ReplayTxn(st, prices, asset, txns, order[n]) :
                                      st \in {replay[n - 1]}} : TRUE
    IN  replay[Len(order)]
=============================================================================
