----------------------------- MODULE ProfitLoss -----------------------------
(***************************************************************************)
(* Realized and unrealized profit and loss (src/app/services/pnl.py) and   *)
(* the valued holdings (holdings.py), two reports over the same lots, and  *)
(* price entry beside the requests of Ledger: a price that comes later     *)
(* changes what the lots are worth, not what is stored of them.            *)
(* A date is a moment of Days; None is a date that is not given.           *)
(***************************************************************************)
EXTENDS Ledger

CONSTANTS
    ClassOf,       \* the class of an asset
    PriceEntries   \* the price rows a client may enter, with their assets

ASSUME ProfitLossAssumption ==
    /\ PriceEntries \subseteq [asset : Assets, as_of : Days, price : Nat]
    /\ IsFiniteSet(Accounts) /\ IsFiniteSet(Assets)
    /\ Now = Max(Days)

-----------------------------------------------------------------------------
EnterPrice(asset, as_of, price) ==
    /\ prices' = [prices EXCEPT ![asset] = @ \cup {[as_of |-> as_of, price |-> price]}]
    /\ response' = "ok"
    /\ UNCHANGED <<open_accounts, txns, lots, consumptions, audit>>

PricedNext ==
    \/ Next
    \/ \E p \in PriceEntries : EnterPrice(p.asset, p.as_of, p.price)

PricedSpec == Init /\ [][PricedNext]_vars

-----------------------------------------------------------------------------
(* The sum of the optional amounts that are there.                         *)
SumOpt(f) ==
    LET present == {k \in DOMAIN f : f[k] # None}
    IN  IF present = {} THEN None ELSE MapThenSumSet(LAMBDA k : f[k], present)

(* A fiat asset is worth its nominal value.                                *)
MarketUnit(s, at) == IF s \in Fiat THEN 1 ELSE NearestPrice(prices[s], at)

OpenLots == UNION {{<<s, i>> : i \in {j \in DOMAIN lots[s] : lots[s][j].remaining_qty # 0}} :
                      s \in Assets}

LotOf(k) == lots[k[1]][k[2]]

Groupings == {"class", "account", "asset"}

(* The symbol of an asset stands for it here; assets that share one, which *)
(* the program admits, also share a group.                                 *)
GroupKey(group_by, asset, account) ==
    CASE group_by = "class"   -> ClassOf[asset]
      [] group_by = "account" -> account
      [] group_by = "asset"   -> asset

-----------------------------------------------------------------------------
(* Fault: the last day is left out.                                        *)
InRangeShort(moment, date_from, date_to) ==
    /\ date_from # None => moment >= date_from
    /\ date_to # None => moment < date_to

(* From the first day up to the end of the last.                           *)
InRange(moment, date_from, date_to) ==
    /\ date_from # None => moment >= date_from
    /\ date_to # None => moment < date_to + 1

(* The realized amounts of the range, by (asset, consumption).             *)
Realized(date_from, date_to) ==
    LET consumed == UNION {{<<s, k>> : k \in DOMAIN consumptions[s]} : s \in Assets}
        Sold(k)  == consumptions[k[1]][k[2]]
    IN  [k \in {k \in consumed : InRange(txns[Sold(k).sell_leg[1]].occurred_at,
                                         date_from, date_to)} |-> Sold(k).realized]

(* Fault: what was sold of a lot still counts.                             *)
GainOfWholeLot(lot, market) == Pnl(market, lot.unit_cost, lot.original_qty)

LotGain(lot, market) == Pnl(market, lot.unit_cost, lot.remaining_qty)

(* The gains on the open lots of today at the market of a date.            *)
Unrealized(as_of) == [k \in OpenLots |-> LotGain(LotOf(k), MarketUnit(k[1], as_of))]

Grouped(amounts, group_by, KeyOf(_)) ==
    [key \in {KeyOf(k) : k \in DOMAIN amounts} |->
        SumOpt([k \in {k \in DOMAIN amounts : KeyOf(k) = key} |-> amounts[k]])]

(* pnl_report.                                                             *)
PnlReport(date_from, date_to, group_by) ==
    LET realized   == Realized(date_from, date_to)
        unrealized == Unrealized(IF date_to = None THEN Now ELSE date_to)
        LotKey(k)  == GroupKey(group_by, k[1], LotOf(k).account)
        SaleKey(k) == LotKey(<<k[1], consumptions[k[1]][k[2]].lot>>)
        r_groups   == Grouped(realized, group_by, SaleKey)
        u_groups   == Grouped(unrealized, group_by, LotKey)
        Of(groups, key) == IF key \in DOMAIN groups THEN groups[key] ELSE None
    IN  [realized   |-> SumOpt(realized),
         unrealized |-> SumOpt(unrealized),
         groups     |-> [key \in DOMAIN r_groups \cup DOMAIN u_groups |->
                            [realized   |-> Of(r_groups, key),
                             unrealized |-> Of(u_groups, key)]]]

-----------------------------------------------------------------------------
(* valued_holdings: the holdings at a date, with the gain on the open lots *)
(* whose cost is known.                                                    *)
HeldAt(pair, at) ==
    LegSum(txns, pair, {i \in Active(txns) : txns[i].occurred_at <= at})

UnrealizedOf(pair, market) ==
    IF market = None THEN None
    ELSE SumOpt([k \in {k \in OpenLots : k[1] = pair[2] /\ LotOf(k).account = pair[1]} |->
                    Pnl(market, LotOf(k).unit_cost, LotOf(k).remaining_qty)])

ValuedHoldings(at) ==
    [pair \in {pair \in Accounts \X Assets : HeldAt(pair, at) # 0} |->
        LET market == MarketUnit(pair[2], at)
        IN  [quantity   |-> HeldAt(pair, at),
             value      |-> IF market = None THEN None ELSE market * HeldAt(pair, at),
             unrealized |-> UnrealizedOf(pair, market)]]

(* valued_by_asset and valued_by_class.                                    *)
ValuedByAsset(holdings) ==
    [s \in {pair[2] : pair \in DOMAIN holdings} |->
        LET group == {pair \in DOMAIN holdings : pair[2] = s}
        IN  [quantity   |-> MapThenSumSet(LAMBDA pair : holdings[pair].quantity, group),
             value      |-> SumOpt([pair \in group |-> holdings[pair].value]),
             unrealized |-> SumOpt([pair \in group |-> holdings[pair].unrealized])]]

ValuedByClass(by_asset) ==
    [class \in {ClassOf[s] : s \in DOMAIN by_asset} |->
        [s \in {s \in DOMAIN by_asset : ClassOf[s] = class} |-> by_asset[s]]]

-----------------------------------------------------------------------------
(* Where nothing was paid out unrecorded and every cost, price of a sale   *)
(* and market price is known, every gain is in the report, and once: what  *)
(* was realized up to any day, what was realized since and what is not     *)
(* realized add up to what the sales brought in and the rest is worth,     *)
(* less what all of it cost (pnl.py:40-49, 93-102).                        *)
GainsAddUp ==
    LET paid_out == {i \in Active(txns) : txns[i].type \in SingleLegTypes \ Inbound}
        sold     == UNION {{<<i, l>> : l \in {l \in DOMAIN txns[i].legs :
                                                 txns[i].legs[l].quantity < 0}} :
                              i \in {i \in Active(txns) : txns[i].type = "trade"}}
        Sale(k)  == txns[k[1]].legs[k[2]]
        bought   == UNION {{<<s, i>> : i \in {j \in DOMAIN lots[s] :
                                                 txns[lots[s][j].source_leg[1]].type # "transfer"}} :
                              s \in Assets}
        known    == /\ \A s \in Assets : MarketUnit(s, Now) # None
                    /\ \A k \in sold : Sale(k).unit_price # None
                    /\ \A k \in bought : LotOf(k).unit_cost # None
        Given(amount) == IF amount = None THEN 0 ELSE amount
    IN  paid_out = {} /\ known =>
            \A day \in Days :
                Given(SumOpt(Realized(None, day))) + Given(SumOpt(Realized(day + 1, None)))
                    + Given(SumOpt(Unrealized(Now)))
                = MapThenSumSet(LAMBDA k : -Sale(k).quantity * Sale(k).unit_price, sold)
                    + MapThenSumSet(LAMBDA pair : Holding(txns, pair) * MarketUnit(pair[2], Now),
                                    Accounts \X Assets)
                    - MapThenSumSet(LAMBDA k : LotOf(k).original_qty * LotOf(k).unit_cost, bought)

(* Two services compute unrealized gains, one lot by lot, one holding by   *)
(* holding: at a date that no row comes after, they tell the same story,   *)
(* in total and under every heading (pnl.py:71-106, holdings.py:140-211).  *)
ViewsAgree ==
    \A at \in Days : (\A i \in Active(txns) : txns[i].occurred_at <= at) =>
        LET holdings == ValuedHoldings(at)
            by_asset == ValuedByAsset(holdings)
            by_class == ValuedByClass(by_asset)
            Sums(rows) == SumOpt([s \in DOMAIN rows |-> rows[s].unrealized])
            Listed == [class   |-> [c \in DOMAIN by_class |-> Sums(by_class[c])],
                       asset   |-> [s \in DOMAIN by_asset |-> by_asset[s].unrealized],
                       account |-> [a \in {pair[1] : pair \in DOMAIN holdings} |->
                                       SumOpt([pair \in {p \in DOMAIN holdings : p[1] = a} |->
                                                  holdings[pair].unrealized])]]
        IN  \A group_by \in Groupings :
                LET report == PnlReport(None, at, group_by)
                IN  /\ report.unrealized = Sums(by_asset)
                    /\ \A key \in DOMAIN report.groups :
                           report.groups[key].unrealized =
                               IF key \in DOMAIN Listed[group_by] THEN Listed[group_by][key] ELSE None
                    /\ DOMAIN Listed[group_by] \subseteq DOMAIN report.groups

(* DATA_MODEL.md:59: the unit cost of a lot is recorded with the rate      *)
(* of the day of purchase, a snapshot, so that the report stays stable: no *)
(* request changes what an earlier purchase has cost.                      *)
SnapshotKept(old, new) ==
    \A i \in DOMAIN old, j \in DOMAIN new :
        /\ txns[old[i].source_leg[1]].type # "transfer"
        /\ old[i].source_leg = new[j].source_leg
            => new[j].unit_cost = old[i].unit_cost

CostsAreSnapshots == [][\A s \in Assets : SnapshotKept(lots[s], lots'[s])]_vars
=============================================================================
