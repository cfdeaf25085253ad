---------------------------- MODULE MCProfitLoss ----------------------------
(***************************************************************************)
(* Instances of ProfitLoss for TLC: gold and rials, in two accounts, with  *)
(* a price of gold on the first day and another still to come.             *)
(***************************************************************************)
EXTENDS ProfitLoss, TLC

CONSTANTS gold, irr

Classes == [s \in Assets |-> IF s \in Fiat THEN "fiat" ELSE "metal"]
FirstPrice == {[s \in Assets |-> {[as_of |-> 1, price |-> 3]}]}
LaterPrices == {[asset |-> gold, as_of |-> 2, price |-> 5]}

ALeg(account, asset, quantity, unit_price) ==
    [account |-> account, asset |-> asset, quantity |-> quantity, unit_price |-> unit_price]

(* A trade of one asset for the other in one account, at the unit price    *)
(* the client names for the unit sold, or without one; a transfer.         *)
TradeBodies ==
    {[legs |-> <<ALeg(a, s, -p, c), ALeg(a, r, 2, None)>>, fee |-> 0] :
        a \in Accounts, s, r \in Assets, p \in {1, 3}, c \in {None, 7}}
TransferBodies ==
    {[legs |-> <<ALeg(a, s, -3, None), ALeg(b, s, 3, None)>>, fee |-> 0] :
        a, b \in Accounts, s \in Assets \ Fiat}
Bodies == TradeBodies \cup TransferBodies

AccountSymmetry == Permutations(Accounts)
=============================================================================
