---------------------------- MODULE Transactions ----------------------------
(***************************************************************************)
(* Transaction rows and what the services compute from them: the rules of  *)
(* a request's legs (ledger.py, schemas/transaction.py) and the holdings   *)
(* that are summed from the rows (holdings.py).  There is no state here.   *)
(*                                                                         *)
(* The rows are a function from row ids; ids grow with created_at.         *)
(***************************************************************************)
EXTENDS Lots

CONSTANTS
    Accounts,      \* the accounts of the user, closed ones included
    Assets,        \* the assets the user sees, own and system ones
    Days,          \* the moments occurred_at and as_of range over
    Now            \* the moment a reversal is booked at

ASSUME TransactionsAssumption ==
    /\ Days \subseteq Int /\ Now \in Days
    /\ Accounts # {} /\ Fiat \subseteq Assets

-----------------------------------------------------------------------------
SingleLegTypes == {"deposit", "withdrawal", "income", "fee", "expense"}
Inbound == {"deposit", "income"}
MultiLegTypes == {"trade", "transfer"}

Leg == [account : Accounts, asset : Assets, quantity : Int, unit_price : Nat \cup {None}]

Transaction ==
    [type : SingleLegTypes \cup MultiLegTypes, occurred_at : Days,
     status : {"active", "reversed"}, reversal_of : Nat, deleted : BOOLEAN,
     legs : Seq(Leg)]

Row(type, day, legs) ==
    [type |-> type, occurred_at |-> day, status |-> "active",
     reversal_of |-> 0, deleted |-> FALSE, legs |-> legs]

Negated(legs) == [l \in DOMAIN legs |-> [legs[l] EXCEPT !.quantity = -@]]

PairsOf(legs) == {<<legs[l].account, legs[l].asset>> : l \in DOMAIN legs}
(* Faults: nothing is rebuilt; only the asset of the first leg is.         *)
NoAssetRebuilt(legs) == {}
FirstAssetRebuilt(legs) == {legs[1].asset}

AssetsOf(legs) == {legs[l].asset : l \in DOMAIN legs}

(* holding_for_pairs: the sum of the legs of the active, visible rows.     *)
Total(entries) == MapThenSumSet(LAMBDA e : e.quantity, entries)

PairLegs(rows, pair, ids) ==
    UNION {{[row |-> i, leg |-> l, quantity |-> rows[i].legs[l].quantity] :
               l \in {k \in DOMAIN rows[i].legs :
                         <<rows[i].legs[k].account, rows[i].legs[k].asset>> = pair}} : i \in ids}

LegSum(rows, pair, ids) == Total(PairLegs(rows, pair, ids))

Active(rows) == {i \in DOMAIN rows : Counts(rows[i])}

Holding(rows, pair) == LegSum(rows, pair, Active(rows))

Owed(rows, pair) == Holding(rows, pair) < 0

SignedAmount(type, amount) == IF type \in Inbound THEN amount ELSE -amount

(* The structural rules for the two legs of a trade or a transfer.         *)
WellFormed(type, legs, fee) ==
    /\ \A l \in 1..2 : legs[l].quantity # 0
    /\ \E out, in \in 1..2 :
        /\ legs[out].quantity < 0 /\ legs[in].quantity > 0
        /\ \/ type = "trade" /\ legs[out].asset # legs[in].asset
           \/ /\ type = "transfer"
              /\ legs[out].asset = legs[in].asset
              /\ legs[out].account # legs[in].account
              /\ legs[out].quantity + legs[in].quantity + fee = 0

(* The row that undoes a row: the same legs negated, born reversed.        *)
Reversal(txn, id) ==
    [Row(txn.type, Now, Negated(txn.legs)) EXCEPT !.status = "reversed", !.reversal_of = id]

(* No account owes an asset at any row: the legs of the rows up to it, in  *)
(* replay order, sum to a holding that is not negative.                    *)
NeverNegative(rows) ==
    \A pair \in Accounts \X Assets, i \in Active(rows) :
        LegSum(rows, pair, {j \in Active(rows) : j = i \/ ReplayBefore(rows, j, i)}) >= 0
=============================================================================
