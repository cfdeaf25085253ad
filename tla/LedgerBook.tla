----------------------------- MODULE LedgerBook -----------------------------
(***************************************************************************)
(* The ledger with its lot engine implements Book: replaying every touched *)
(* asset first in, first out refuses exactly the requests that would leave *)
(* some balance uncovered at some entry.                                   *)
(***************************************************************************)
EXTENDS Ledger

Pairs == Accounts \X Assets

(* What the legs of a row do to the balances.                              *)
Delta(legs) ==
    [pair \in Pairs |-> MapThenSumSet(LAMBDA l : legs[l].quantity,
                          {l \in DOMAIN legs : <<legs[l].account, legs[l].asset>> = pair})]

(* The entries of the book are the rows that count.                        *)
Entries(rows) ==
    {[seq |-> i, day |-> rows[i].occurred_at, delta |-> Delta(rows[i].legs)] : i \in Active(rows)}

B == INSTANCE Book WITH book <- Entries(txns),
                        answer <- IF response = "ok" THEN "accepted" ELSE "refused"

(* The detailed ledger behaves like the book: every commit keeps every     *)
(* balance covered at every entry, a refusal changes nothing               *)
(* (ledger.py:177-190 and lots.py:201-210 together).                       *)
ImplementsBook == B!Spec

(* The rows and legs that Settle is given, for every request that may come *)
(* next, gets that far and takes something from a balance.                 *)
Proposals ==
    {[rows |-> Append(txns, Row(type, day, legs)), legs |-> legs] :
        day \in Days, type \in {t \in RequestTypes \cap SingleLegTypes : t \notin Inbound},
        legs \in {<<[account |-> a, asset |-> s, quantity |-> -q, unit_price |-> None]>> :
                     a \in Accounts, s \in Assets, q \in Amounts}}
    \cup {[rows |-> Append(txns, Row("transfer", day, body.legs)), legs |-> body.legs] :
        day \in Days,
        body \in {b \in TwoLegBodies : WellFormed("transfer", b.legs, b.fee)}}
    \cup {[rows |-> [txns EXCEPT ![i].deleted = TRUE], legs |-> txns[i].legs] :
        i \in Active(txns)}

(* A request is refused for want of balance or of lots when, and only      *)
(* when, the book would not be covered: FIFO replay asks for no more than  *)
(* the balances at every entry, and for no less.                           *)
RefusalsAreExact ==
    Len(audit) < MaxCommands =>
        \A p \in Proposals :
            NegativePair(p.rows, p.legs) \/ ShortRebuild(p.rows, p.legs)
                <=> ~B!Covered(Entries(p.rows))
=============================================================================
