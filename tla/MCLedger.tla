------------------------------ MODULE MCLedger ------------------------------
(***************************************************************************)
(* Instances of Ledger and of its refinement of Book for TLC.              *)
(***************************************************************************)
EXTENDS LedgerBook, TLC

NoPrices == {[s \in Assets |-> {}]}
(* One price a day, another one every day, so that lots differ in cost.    *)
DailyPrices == {[s \in Assets |-> {[as_of |-> day, price |-> 2 * day + 1] : day \in Days}]}
NoFiat == {}

ALeg(account, asset, quantity, unit_price) ==
    [account |-> account, asset |-> asset, quantity |-> quantity, unit_price |-> unit_price]

(* Every transfer of 4 or 8 units, with and without a fee, the                *)
(* outflow first or last, and one body per structural rule it can break.   *)
TransferBodies ==
    {body \in {[legs |-> <<ALeg(a, s, p, None), ALeg(b, s, q, None)>>, fee |-> f] :
                  a, b \in Accounts, s \in Assets, f \in {0, 4},
                  p \in {-4, -8}, q \in {4, 8}} :
        \/ WellFormed("transfer", body.legs, body.fee)
        \/ \A l \in 1..2 : body.legs[l].quantity \in {-4, 4}}

(* Three units sent, two of them the fee: a third arrives.                 *)
ThirdBodies ==
    {[legs |-> <<ALeg(a, s, -300, None), ALeg(b, s, 100, None)>>, fee |-> 200] :
        a, b \in Accounts, s \in Assets}

AccountSymmetry == Permutations(Accounts)
=============================================================================
