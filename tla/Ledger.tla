------------------------------- MODULE Ledger -------------------------------
(***************************************************************************)
(* The transaction ledger of one user (src/app/services/ledger.py) with    *)
(* the tables a request writes: the transaction rows, the lot projection,  *)
(* the audit log.  Here one request is one step, as for a client that has  *)
(* no other request in flight; LedgerDB interleaves the statements of      *)
(* concurrent requests.                                                    *)
(*                                                                         *)
(* A request ends in a response.  A refused one (HTTP 404 or 422) leaves   *)
(* the tables as they were: the session is closed without a commit.        *)
(***************************************************************************)
EXTENDS Transactions, SequencesExt

CONSTANTS
    RequestTypes,  \* the transaction types that are requested
    Amounts,       \* the quantities a single-leg request may name
    UnitPrices,    \* the unit prices it may carry, None included
    TwoLegBodies,  \* the [legs, fee] a trade or a transfer may be requested with
    PriceHistories,\* the price tables the ledger may start with
    MaxCommands,   \* bound: commands carried out on transactions
    MaxClosed      \* bound: accounts that get deleted

(* The prices of every asset, by date.                                     *)
PriceTables == [Assets -> SUBSET [as_of : Days, price : Nat]]

ASSUME LedgerAssumption ==
    /\ UnitPrices \subseteq Nat \cup {None}
    /\ Amounts \subseteq Nat \ {0}
    /\ TwoLegBodies \subseteq [legs : [1..2 -> Leg], fee : Nat]
    /\ PriceHistories \subseteq PriceTables
    /\ MaxCommands \in Nat

VARIABLES
    open_accounts, \* accounts with deleted_at IS NULL
    txns,          \* transaction rows with their legs, in creation order
    lots,          \* per asset, the lot rows
    consumptions,  \* per asset, the lot_consumption rows
    audit,         \* audit_log rows about transactions
    prices,        \* per asset, the price rows
    response       \* how the last request ended

tables == <<open_accounts, txns, lots, consumptions, audit, prices>>
vars == <<tables, response>>

-----------------------------------------------------------------------------
(* Rows.                                                                   *)
Actions == {"create", "reverse", "delete"}
Refusals == {"invalid_legs", "unknown_account", "not_found", "not_active",
             "insufficient_balance", "insufficient_lots"}

AuditEntry == [entity : Nat \ {0}, action : Actions]

-----------------------------------------------------------------------------
Init ==
    /\ open_accounts = Accounts
    /\ txns = <<>>
    /\ lots = [s \in Assets |-> <<>>]
    /\ consumptions = [s \in Assets |-> <<>>]
    /\ audit = <<>>
    /\ prices \in PriceHistories
    /\ response = "ok"

Refuse(why) == response' = why /\ UNCHANGED tables

(* Faults: the balance check or the cover check of a replay is left out.   *)
BalanceUnchecked(rows, legs) == FALSE
ShortfallIgnored(rows, legs) == FALSE

NegativePair(rows, legs) == \E pair \in PairsOf(legs) : Owed(rows, pair)
ShortRebuild(rows, legs) == \E s \in AssetsOf(legs) : Rebuild(rows, prices, s).short

Commit(rows, legs, entry) ==
    /\ txns' = rows
    /\ lots' = [s \in Assets |-> IF s \in AssetsOf(legs)
                                 THEN Rebuild(rows, prices, s).lots ELSE lots[s]]
    /\ consumptions' = [s \in Assets |-> IF s \in AssetsOf(legs)
                                         THEN Rebuild(rows, prices, s).consumptions
                                         ELSE consumptions[s]]
    /\ audit' = Append(audit, entry)
    /\ response' = "ok"
    /\ UNCHANGED <<open_accounts, prices>>

(* Fault: the rows are committed before they are checked.                  *)
CommitUnchecked(rows, legs, entry) == Len(audit) < MaxCommands /\ Commit(rows, legs, entry)

(* The tail every command shares: flush the rows, check the pairs of the   *)
(* legs, rebuild their assets, write the audit entry, commit.              *)
Settle(rows, legs, entry) ==
    /\ Len(audit) < MaxCommands
    /\ \/ /\ NegativePair(rows, legs)
          /\ Refuse("insufficient_balance")
       \/ /\ ~NegativePair(rows, legs)
          /\ ShortRebuild(rows, legs)
          /\ Refuse("insufficient_lots")
       \/ /\ ~NegativePair(rows, legs)
          /\ ~ShortRebuild(rows, legs)
          /\ Commit(rows, legs, entry)

(* create_transaction from validated specs: the scope check comes first.   *)
Post(type, day, legs) ==
    \/ /\ \E l \in DOMAIN legs : legs[l].account \notin open_accounts
       /\ Refuse("unknown_account")
    \/ /\ \A l \in DOMAIN legs : legs[l].account \in open_accounts
       /\ Settle(Append(txns, Row(type, day, legs)), legs,
                 [entity |-> Len(txns) + 1, action |-> "create"])

CreateSingle(type, day, account, asset, amount, unit_price) ==
    Post(type, day, <<[account |-> account, asset |-> asset,
                       quantity |-> SignedAmount(type, amount),
                       unit_price |-> unit_price]>>)

CreateMulti(type, day, legs, fee) ==
    \/ ~WellFormed(type, legs, fee) /\ Refuse("invalid_legs")
    \/ WellFormed(type, legs, fee) /\ Post(type, day, legs)

(* Fault: a deleted row can still be reversed and deleted.                 *)
DeletedVisible(id) == id \in DOMAIN txns

Visible(id) == id \in DOMAIN txns /\ ~txns[id].deleted

(* Faults: the reversal keeps its status or its signs.                     *)
UntypedReversalRow(id) ==
    [Row(txns[id].type, Now, Negated(txns[id].legs))
        EXCEPT !.status = "void", !.reversal_of = id]
UnsignedReversalRow(id) ==
    [Row(txns[id].type, Now, txns[id].legs)
        EXCEPT !.status = "reversed", !.reversal_of = id]

ReversalRow(id) == Reversal(txns[id], id)

(* Faults: a reversed row can be reversed again; the audit entry names the *)
(* reversal row, not the row that was reversed.                            *)
ReverseAgain(id) ==
    /\ Visible(id)
    /\ Settle(Append([txns EXCEPT ![id].status = "reversed"], ReversalRow(id)),
              txns[id].legs, [entity |-> id, action |-> "reverse"])
ReverseAuditsReversal(id) ==
    /\ Visible(id)
    /\ txns[id].status = "active"
    /\ Settle(Append([txns EXCEPT ![id].status = "reversed"], ReversalRow(id)),
              txns[id].legs, [entity |-> Len(txns) + 1, action |-> "reverse"])

ReverseTransaction(id) ==
    \/ ~Visible(id) /\ Refuse("not_found")
    \/ /\ Visible(id)
       /\ txns[id].status # "active"
       /\ Refuse("not_active")
    \/ /\ Visible(id)
       /\ txns[id].status = "active"
       /\ Settle(Append([txns EXCEPT ![id].status = "reversed"], ReversalRow(id)),
                 txns[id].legs, [entity |-> id, action |-> "reverse"])

(* Any visible row can be deleted, a reversed one and a reversal included. *)
DeleteTransaction(id) ==
    \/ ~Visible(id) /\ Refuse("not_found")
    \/ /\ Visible(id)
       /\ Settle([txns EXCEPT ![id].deleted = TRUE],
                 txns[id].legs, [entity |-> id, action |-> "delete"])

(* account_service.delete_account: no look at what the account holds.      *)
DeleteAccount(account) ==
    \/ account \notin open_accounts /\ Refuse("not_found")
    \/ /\ account \in open_accounts
       /\ Cardinality(Accounts \ open_accounts) < MaxClosed
       /\ open_accounts' = open_accounts \ {account}
       /\ response' = "ok"
       /\ UNCHANGED <<txns, lots, consumptions, audit, prices>>

Next ==
    \/ \E type \in RequestTypes \cap SingleLegTypes, day \in Days, account \in Accounts,
          asset \in Assets, amount \in Amounts, unit_price \in UnitPrices :
            CreateSingle(type, day, account, asset, amount, unit_price)
    \/ \E type \in RequestTypes \cap MultiLegTypes, day \in Days, body \in TwoLegBodies :
            CreateMulti(type, day, body.legs, body.fee)
    \/ \E id \in 1..MaxCommands : ReverseTransaction(id)
    \/ \E id \in 1..MaxCommands : DeleteTransaction(id)
    \/ \E account \in Accounts : DeleteAccount(account)

Spec == Init /\ [][Next]_vars

TypeOK ==
    /\ open_accounts \subseteq Accounts
    /\ txns \in Seq(Transaction)
    /\ DOMAIN lots = Assets /\ DOMAIN consumptions = Assets
    /\ audit \in Seq(AuditEntry)
    /\ prices \in PriceTables
    /\ response \in Refusals \cup {"ok"}

-----------------------------------------------------------------------------
(* What the requests, taken together, must keep true.                      *)

(* No account owes an asset (ledger.py:2): a request checks the pairs of   *)
(* its own legs only, after whatever was posted, reversed or deleted.      *)
HoldingsNonNegative == \A pair \in Accounts \X Assets : ~Owed(txns, pair)

(* The open lots of an account add up to its holding: the two places where *)
(* a quantity can be read, lots.remaining_qty and the sum of the legs, do  *)
(* not drift apart, whatever was posted, reversed, deleted or backdated.   *)
LotsReconcile ==
    \A account \in Accounts, s \in Assets :
        Quantity(lots[s], Open(lots[s], account)) = Holding(txns, <<account, s>>)

(* First in, first out: a sale that took from a lot left nothing in the    *)
(* lots of the account that were acquired earlier and were there by then.  *)
FifoRespected ==
    \A s \in Assets : \A c \in ToSet(consumptions[s]), i \in DOMAIN lots[s] :
        (/\ lots[s][i].account = lots[s][c.lot].account
         /\ lots[s][i].acquired_at < lots[s][c.lot].acquired_at
         /\ ReplayBefore(txns, lots[s][i].source_leg[1], c.sell_leg[1]))
            => lots[s][i].remaining_qty = 0

(* Every unit an active trade sold is realized exactly once, against lots  *)
(* of the account and asset it was sold from, and nothing else is.         *)
SalesRealized ==
    \A s \in Assets :
        /\ \A i \in Active(txns) : \A l \in LegsIn(txns[i], s) :
            LET sold == {k \in DOMAIN consumptions[s] : consumptions[s][k].sell_leg = <<i, l>>}
            IN  /\ MapThenSumSet(LAMBDA k : consumptions[s][k].qty, sold)
                     = IF txns[i].type = "trade" /\ txns[i].legs[l].quantity < 0
                       THEN -txns[i].legs[l].quantity ELSE 0
                /\ \A k \in sold : lots[s][consumptions[s][k].lot].account
                                       = txns[i].legs[l].account
        /\ \A c \in ToSet(consumptions[s]) : c.sell_leg[1] \in Active(txns)

(* A lot comes from an inflow that still counts, never from its future,    *)
(* and its sales never exceed what has left it.                            *)
LotProvenance ==
    \A s \in Assets : \A i \in DOMAIN lots[s] :
        LET lot == lots[s][i]
            source == txns[lot.source_leg[1]]
            sales == {k \in DOMAIN consumptions[s] : consumptions[s][k].lot = i}
        IN  /\ Counts(source)
            /\ source.legs[lot.source_leg[2]].quantity > 0
            /\ lot.acquired_at <= source.occurred_at
            /\ lot.remaining_qty >= 0
            /\ MapThenSumSet(LAMBDA k : consumptions[s][k].qty, sales)
                    <= lot.original_qty - lot.remaining_qty

(* Carrying a lot to another account, whole or less a fee, keeps what it   *)
(* cost: what the units acquired by the active rows cost is what the lots  *)
(* left and the units sold cost, unless something was paid out unrecorded. *)
CostConserved ==
    \A s \in Assets :
        LET PaidOut == {i \in Active(txns) : /\ LegsIn(txns[i], s) # {}
                                             /\ txns[i].type \in SingleLegTypes \ Inbound}
            Acquired == {i \in DOMAIN lots[s] : txns[lots[s][i].source_leg[1]].type # "transfer"}
            Cost(lot, qty) == lot.unit_cost * qty
        IN  PaidOut = {} /\ (\A i \in DOMAIN lots[s] : lots[s][i].unit_cost # None) =>
                MapThenSumSet(LAMBDA i : Cost(lots[s][i], lots[s][i].original_qty), Acquired)
                = MapThenSumSet(LAMBDA i : Cost(lots[s][i], lots[s][i].remaining_qty), DOMAIN lots[s])
                  + MapThenSumSet(LAMBDA k : Cost(lots[s][consumptions[s][k].lot],
                                                  consumptions[s][k].qty),
                                  DOMAIN consumptions[s])

(* A row that was reversed has exactly one reversal row, which undoes it   *)
(* leg by leg, and a reversal is never itself reversed: posting, reversing *)
(* and deleting in any order never books a reversal twice.                 *)
ReversalPairing ==
    /\ \A r \in DOMAIN txns : txns[r].reversal_of # 0 =>
        LET o == txns[r].reversal_of
        IN  /\ o \in 1..(r - 1)
            /\ txns[o].reversal_of = 0
            /\ txns[r].status = "reversed" /\ txns[o].status = "reversed"
            /\ txns[r].type = txns[o].type
            /\ txns[r].legs = Negated(txns[o].legs)
            /\ \A q \in DOMAIN txns : txns[q].reversal_of = o => q = r
    /\ \A o \in DOMAIN txns :
        txns[o].status = "reversed" /\ txns[o].reversal_of = 0
            => \E r \in DOMAIN txns : txns[r].reversal_of = o

(* The entries of the commands of one kind carried out on the rows ids.    *)
Carried(action, ids) == {[entity |-> i, action |-> action] : i \in ids}

(* The audit log tells the life of every row: one entry per command that   *)
(* was carried out, and none for a refused one.  A reversal row is created *)
(* by the reverse entry of its original.                                   *)
AuditTrail ==
    /\ ToSet(audit) = Carried("create", {i \in DOMAIN txns : txns[i].reversal_of = 0})
                  \cup Carried("reverse", {i \in DOMAIN txns : /\ txns[i].status = "reversed"
                                                            /\ txns[i].reversal_of = 0})
                  \cup Carried("delete", {i \in DOMAIN txns : txns[i].deleted})
    /\ \A k, m \in DOMAIN audit : audit[k] = audit[m] => k = m
    /\ \A k, m \in DOMAIN audit :
        audit[k].entity = audit[m].entity /\ audit[k].action = "delete" => m <= k

(* Posted history is kept: no row goes away or changes what it says; it    *)
(* may only be reversed once and be deleted once, and nothing happens to a *)
(* deleted one.                                                            *)
Lifecycle(old, new) ==
    /\ new.type = old.type /\ new.occurred_at = old.occurred_at
    /\ new.legs = old.legs /\ new.reversal_of = old.reversal_of
    /\ old.status = "reversed" => new.status = "reversed"
    /\ old.deleted => new = old

HistoryKept ==
    [][/\ Len(txns) <= Len(txns')
       /\ \A i \in DOMAIN txns : Lifecycle(txns[i], txns'[i])]_vars

(* lots.py:202 says of a shortfall in a rebuild: "Should not happen: the   *)
(* non-negative balance invariant guarantees cover".                       *)
CoverGuaranteed == response # "insufficient_lots"
=============================================================================
