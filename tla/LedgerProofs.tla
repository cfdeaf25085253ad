---------------------------- MODULE LedgerProofs ----------------------------
(***************************************************************************)
(* Theorems of Ledger for every instance of its constants: what its rows   *)
(* and holdings are, that its lot projection is always what a replay of    *)
(* the rows as they are would leave, whatever was posted, reversed,        *)
(* deleted or priced, that it keeps the accounts that Book does, and that  *)
(* the reports of ProfitLoss on what was gained add up and agree.          *)
(***************************************************************************)
EXTENDS LedgerBook, ProfitLoss, ReplayProofs, SequenceTheorems

-----------------------------------------------------------------------------
LEMMA ReversalRowType ==
    ASSUME TypeOK, NEW id \in DOMAIN txns
    PROVE  ReversalRow(id) \in Transaction
BY ReversalType DEF TypeOK, ReversalRow

(* Every step of the ledger is one of five: a refusal that leaves the      *)
(* tables alone, or one of four commands that write.                       *)
Refused == response' \in Refusals /\ UNCHANGED tables

(* The assets of the legs are rebuilt, all covered; the others are kept.   *)
Rebuilt(rows, legs) ==
    \A s \in Assets :
        /\ s \in AssetsOf(legs) =>
             /\ ~Rebuild(rows, prices, s).short
             /\ lots'[s] = Rebuild(rows, prices, s).lots
             /\ consumptions'[s] = Rebuild(rows, prices, s).consumptions
        /\ s \notin AssetsOf(legs) => lots'[s] = lots[s] /\ consumptions'[s] = consumptions[s]

Committed(rows, legs, entry) ==
    /\ ~NegativePair(rows, legs)
    /\ Rebuilt(rows, legs)
    /\ txns' = rows
    /\ audit' = Append(audit, entry)
    /\ DOMAIN lots' = Assets /\ DOMAIN consumptions' = Assets
    /\ response' = "ok"
    /\ UNCHANGED <<open_accounts, prices>>

Created(row) ==
    Committed(Append(txns, row), row.legs, [entity |-> Len(txns) + 1, action |-> "create"])

(* Where no transfer is requested with a fee, all that is sent arrives.    *)
FeeFree == \A body \in TwoLegBodies : body.fee = 0

NewRow(row) ==
    /\ row \in Transaction
    /\ row.status = "active" /\ row.reversal_of = 0 /\ ~row.deleted
    /\ Shaped(row.type, row.legs) /\ (FeeFree => Whole(row.type, row.legs))

Reversed(id) ==
    Committed(Append([txns EXCEPT ![id].status = "reversed"], ReversalRow(id)),
              txns[id].legs, [entity |-> id, action |-> "reverse"])

Deleted(id) ==
    Committed([txns EXCEPT ![id].deleted = TRUE],
              txns[id].legs, [entity |-> id, action |-> "delete"])

Closed ==
    /\ open_accounts' \subseteq open_accounts
    /\ response' = "ok"
    /\ UNCHANGED <<txns, lots, consumptions, audit, prices>>

LEMMA SettleCases ==
    ASSUME NEW rows, NEW legs, NEW entry, Settle(rows, legs, entry)
    PROVE  Refused \/ Committed(rows, legs, entry)
<1>1. CASE Refuse("insufficient_balance") \/ Refuse("insufficient_lots")
  BY <1>1 DEF Refuse, Refused, Refusals
<1>2. CASE ~NegativePair(rows, legs) /\ ~ShortRebuild(rows, legs) /\ Commit(rows, legs, entry)
  <2>1. Rebuilt(rows, legs)
    BY <1>2 DEF Commit, Rebuilt, ShortRebuild
  <2> QED
    BY <1>2, <2>1 DEF Commit, Committed
<1> QED
  BY <1>1, <1>2 DEF Settle

LEMMA PostCases ==
    ASSUME NEW type \in SingleLegTypes \cup MultiLegTypes, NEW day \in Days,
           NEW legs \in Seq(Leg), Shaped(type, legs),
           FeeFree => Whole(type, legs), Post(type, day, legs)
    PROVE  Refused \/ \E row : NewRow(row) /\ Created(row)
<1>1. CASE Refuse("unknown_account")
  BY <1>1 DEF Refuse, Refused, Refusals
<1>2. CASE Settle(Append(txns, Row(type, day, legs)), legs,
                  [entity |-> Len(txns) + 1, action |-> "create"])
  <2>1. NewRow(Row(type, day, legs)) /\ Row(type, day, legs).legs = legs
    <3>1. Row(type, day, legs).type = type /\ Row(type, day, legs).legs = legs
      BY DEF Row
    <3>2. /\ Row(type, day, legs).status = "active" /\ Row(type, day, legs).reversal_of = 0
          /\ ~Row(type, day, legs).deleted
      BY DEF Row
    <3> QED
      BY <3>1, <3>2, RowType DEF NewRow
  <2> QED
    BY <1>2, <2>1, SettleCases DEF Created
<1> QED
  BY <1>1, <1>2 DEF Post

(* The legs of a request, as the code signs and checks them.               *)
LEMMA SingleLegShape ==
    ASSUME NEW type \in SingleLegTypes, NEW account \in Accounts, NEW asset \in Assets,
           NEW amount \in Amounts, NEW unit_price \in UnitPrices \cup {None}, NEW legs,
           legs = <<[account |-> account, asset |-> asset,
                     quantity |-> SignedAmount(type, amount), unit_price |-> unit_price]>>
    PROVE  legs \in Seq(Leg) /\ Shaped(type, legs) /\ Whole(type, legs)
<1> DEFINE leg == [account |-> account, asset |-> asset,
                   quantity |-> SignedAmount(type, amount), unit_price |-> unit_price]
<1>1. SignedAmount(type, amount) \in Int
  BY LedgerAssumption, TransactionsAssumption DEF SignedAmount
<1>2. leg \in Leg
  BY <1>1, LedgerAssumption, TransactionsAssumption DEF Leg
<1>3. <<leg>> \in Seq(Leg)
  BY <1>2
<1>4. Shaped(type, <<leg>>) /\ Whole(type, <<leg>>)
  <2>1. amount \in Nat \ {0}
    BY LedgerAssumption
  <2>2. /\ SignedAmount(type, amount) # 0
        /\ type \in Inbound <=> SignedAmount(type, amount) > 0
    BY <2>1 DEF SignedAmount
  <2>3. DOMAIN <<leg>> = {1} /\ <<leg>>[1].quantity = SignedAmount(type, amount)
    OBVIOUS
  <2> HIDE DEF leg
  <2> QED
    BY <2>2, <2>3 DEF Shaped, Whole
<1> QED
  BY <1>3, <1>4

LEMMA TwoLegShape ==
    ASSUME NEW type \in MultiLegTypes, NEW body \in TwoLegBodies,
           WellFormed(type, body.legs, body.fee)
    PROVE  /\ body.legs \in Seq(Leg) /\ Shaped(type, body.legs)
           /\ FeeFree => Whole(type, body.legs)
<1>1. body.legs \in [1..2 -> Leg]
  BY LedgerAssumption, TransactionsAssumption
<1>2. body.legs \in Seq(Leg)
  <2>1. 2 \in Nat
    OBVIOUS
  <2>2. [1..2 -> Leg] \subseteq UNION {[1..n -> Leg] : n \in Nat}
    BY <2>1, Zenon
  <2> QED
    BY <1>1, <2>2, SeqDef, Zenon
<1>3. DOMAIN body.legs = 1..2 /\ \A l \in 1..2 : body.legs[l].quantity \in Int
  BY <1>1 DEF Leg
<1>4. body.fee \in Nat /\ (FeeFree => body.fee = 0)
  BY LedgerAssumption DEF FeeFree
<1>5. PICK out, in \in 1..2 :
        /\ body.legs[out].quantity < 0 /\ body.legs[in].quantity > 0
        /\ \/ type = "trade" /\ body.legs[out].asset # body.legs[in].asset
           \/ /\ type = "transfer"
              /\ body.legs[out].asset = body.legs[in].asset
              /\ body.legs[out].account # body.legs[in].account
              /\ body.legs[out].quantity + body.legs[in].quantity + body.fee = 0
  BY DEF WellFormed
<1>6. out # in
  BY <1>3, <1>5
<1>7. DOMAIN body.legs = {out, in}
  BY <1>3, <1>6
<1>8. type = "transfer" =>
          /\ body.legs[out].quantity + body.legs[in].quantity <= 0
          /\ FeeFree => /\ body.legs[out].quantity + body.legs[in].quantity = 0
                        /\ body.legs[in].quantity + body.legs[out].quantity = 0
  BY <1>3, <1>4, <1>5
<1>9. Shaped(type, body.legs) /\ (FeeFree => Whole(type, body.legs))
  BY <1>5, <1>7, <1>8 DEF Shaped, Whole
<1> QED
  BY <1>2, <1>9

LEMMA NextCases ==
    ASSUME TypeOK, Next
    PROVE  \/ Refused
           \/ \E row : NewRow(row) /\ Created(row)
           \/ \E id \in DOMAIN txns : /\ ~txns[id].deleted
                                      /\ txns[id].status = "active"
                                      /\ Reversed(id)
           \/ \E id \in DOMAIN txns : ~txns[id].deleted /\ Deleted(id)
           \/ Closed
<1>1. ASSUME NEW type \in RequestTypes \cap SingleLegTypes, NEW day \in Days,
             NEW account \in Accounts, NEW asset \in Assets, NEW amount \in Amounts,
             NEW unit_price \in UnitPrices,
             CreateSingle(type, day, account, asset, amount, unit_price)
      PROVE  Refused \/ \E row : NewRow(row) /\ Created(row)
  <2> DEFINE legs == <<[account |-> account, asset |-> asset,
                        quantity |-> SignedAmount(type, amount), unit_price |-> unit_price]>>
  <2>1. legs \in Seq(Leg) /\ Shaped(type, legs) /\ Whole(type, legs)
    BY SingleLegShape
  <2> QED
    BY <1>1, <2>1, PostCases DEF CreateSingle
<1>2. ASSUME NEW type \in RequestTypes \cap MultiLegTypes, NEW day \in Days,
             NEW body \in TwoLegBodies,
             CreateMulti(type, day, body.legs, body.fee)
      PROVE  Refused \/ \E row : NewRow(row) /\ Created(row)
  <2>1. CASE Refuse("invalid_legs")
    BY <2>1 DEF Refuse, Refused, Refusals
  <2>2. CASE WellFormed(type, body.legs, body.fee) /\ Post(type, day, body.legs)
    BY <2>2, TwoLegShape, PostCases
  <2> QED
    BY <1>2, <2>1, <2>2 DEF CreateMulti
<1>3. ASSUME NEW id \in 1..MaxCommands, ReverseTransaction(id)
      PROVE  Refused \/ \E i \in DOMAIN txns : /\ ~txns[i].deleted
                                               /\ txns[i].status = "active"
                                               /\ Reversed(i)
  BY <1>3, SettleCases DEF ReverseTransaction, Visible, Refuse, Refused, Refusals, Reversed
<1>4. ASSUME NEW id \in 1..MaxCommands, DeleteTransaction(id)
      PROVE  Refused \/ \E i \in DOMAIN txns : ~txns[i].deleted /\ Deleted(i)
  BY <1>4, SettleCases DEF DeleteTransaction, Visible, Refuse, Refused, Refusals, Deleted
<1>5. ASSUME NEW account \in Accounts, DeleteAccount(account)
      PROVE  Refused \/ Closed
  BY <1>5 DEF DeleteAccount, Refuse, Refused, Refusals, Closed
<1> QED
  BY <1>1, <1>2, <1>3, <1>4, <1>5 DEF Next

-----------------------------------------------------------------------------
LEMMA TypeStep == TypeOK /\ [Next]_vars => TypeOK'
<1> SUFFICES ASSUME TypeOK, [Next]_vars
             PROVE  TypeOK'
  OBVIOUS
<1>1. CASE Refused
  BY <1>1 DEF Refused, tables, TypeOK
<1>2. ASSUME NEW row, NewRow(row), Created(row)
      PROVE  TypeOK'
  <2>1. [entity |-> Len(txns) + 1, action |-> "create"] \in AuditEntry
    BY DEF AuditEntry, Actions, TypeOK
  <2>2. Append(txns, row) \in Seq(Transaction)
    BY <1>2, AppendProperties DEF NewRow, TypeOK
  <2> QED
    BY <1>2, <2>1, <2>2, AppendProperties DEF Created, Committed, TypeOK
<1>3. ASSUME NEW id \in DOMAIN txns, Reversed(id)
      PROVE  TypeOK'
  <2>1. id \in Nat \ {0}
    BY DEF TypeOK
  <2>2. [entity |-> id, action |-> "reverse"] \in AuditEntry
    BY <2>1 DEF AuditEntry, Actions
  <2>3. [txns EXCEPT ![id].status = "reversed"] \in Seq(Transaction)
    <3>1. txns[id] \in Transaction
      BY DEF TypeOK
    <3>2. [txns[id] EXCEPT !.status = "reversed"] \in Transaction
      BY <3>1 DEF Transaction
    <3> QED
      BY <3>2, ExceptSeq DEF TypeOK
  <2>4. Append([txns EXCEPT ![id].status = "reversed"], ReversalRow(id)) \in Seq(Transaction)
    BY <2>3, ReversalRowType, AppendProperties
  <2> QED
    BY <1>3, <2>2, <2>4, AppendProperties DEF Reversed, Committed, TypeOK
<1>4. ASSUME NEW id \in DOMAIN txns, Deleted(id)
      PROVE  TypeOK'
  <2>1. [entity |-> id, action |-> "delete"] \in AuditEntry
    BY DEF AuditEntry, Actions, TypeOK
  <2>2. [txns EXCEPT ![id].deleted = TRUE] \in Seq(Transaction)
    <3>1. txns[id] \in Transaction
      BY DEF TypeOK
    <3>2. [txns[id] EXCEPT !.deleted = TRUE] \in Transaction
      BY <3>1 DEF Transaction
    <3> QED
      BY <3>2, ExceptSeq DEF TypeOK
  <2> QED
    BY <1>4, <2>1, <2>2, AppendProperties DEF Deleted, Committed, TypeOK
<1>5. CASE Closed
  BY <1>5 DEF Closed, TypeOK
<1>6. CASE UNCHANGED vars
  BY <1>6 DEF vars, tables, TypeOK
<1> QED
  BY <1>1, <1>2, <1>3, <1>4, <1>5, <1>6, NextCases

(* The tables always hold well-typed rows, whatever the requests.          *)
THEOREM LedgerTypeOK == Spec => []TypeOK
<1>1. Init => TypeOK
  BY LedgerAssumption DEF Init, TypeOK
<1> QED
  BY <1>1, TypeStep, PTL DEF Spec

-----------------------------------------------------------------------------
(* What the rows are after each command: what a command may write of a row *)
(* is its status and its deleted mark.                                     *)
SameRow(old, new) ==
    /\ new.type = old.type /\ new.occurred_at = old.occurred_at
    /\ new.legs = old.legs /\ new.reversal_of = old.reversal_of

LEMMA CreatedRows ==
    ASSUME TypeOK, NEW row, NewRow(row), Created(row)
    PROVE  /\ Len(txns) \in Nat /\ DOMAIN txns = 1..Len(txns)
           /\ DOMAIN txns' = 1..(Len(txns) + 1) /\ Len(txns') = Len(txns) + 1
           /\ \A i \in DOMAIN txns : txns'[i] = txns[i]
           /\ txns'[Len(txns) + 1] = row
BY DEF TypeOK, Created, Committed

LEMMA ReversedRows ==
    ASSUME TypeOK, NEW id \in DOMAIN txns, Reversed(id)
    PROVE  /\ Len(txns) \in Nat /\ DOMAIN txns = 1..Len(txns)
           /\ DOMAIN txns' = 1..(Len(txns) + 1) /\ Len(txns') = Len(txns) + 1
           /\ \A i \in DOMAIN txns : i # id => txns'[i] = txns[i]
           /\ \A i \in DOMAIN txns : SameRow(txns[i], txns'[i])
           /\ txns'[id].status = "reversed" /\ txns'[id].deleted = txns[id].deleted
           /\ LET r == Len(txns) + 1
              IN  /\ txns'[r].status = "reversed" /\ txns'[r].reversal_of = id
                  /\ txns'[r].deleted = FALSE /\ txns'[r].type = txns[id].type
                  /\ txns'[r].legs = Negated(txns[id].legs)
<1> DEFINE marked == [txns EXCEPT ![id].status = "reversed"]
<1>1. txns \in Seq(Transaction) /\ txns[id] \in Transaction
  BY DEF TypeOK
<1>2. [txns[id] EXCEPT !.status = "reversed"] \in Transaction
  BY <1>1 DEF Transaction
<1>3. /\ marked \in Seq(Transaction) /\ Len(marked) = Len(txns)
      /\ \A i \in 1..Len(txns) : marked[i] = IF i = id
             THEN [txns[id] EXCEPT !.status = "reversed"] ELSE txns[i]
  BY <1>1, <1>2, ExceptSeq
<1>4. txns' = Append(marked, ReversalRow(id))
  BY DEF Reversed, Committed
<1>5. ReversalRow(id) \in Transaction
  BY ReversalRowType
<1> HIDE DEF marked
<1>6. /\ txns' \in Seq(Transaction) /\ Len(txns') = Len(marked) + 1
      /\ \A i \in 1..Len(marked) : txns'[i] = marked[i]
      /\ txns'[Len(marked) + 1] = ReversalRow(id)
  BY <1>3, <1>4, <1>5, AppendProperties
<1>7. /\ Len(txns) \in Nat /\ DOMAIN txns = 1..Len(txns)
      /\ DOMAIN txns' = 1..Len(txns')
  BY <1>1, <1>6
<1>8. txns'[id] = [txns[id] EXCEPT !.status = "reversed"]
  BY <1>3, <1>6, <1>7
<1>9. \A i \in DOMAIN txns : i # id => txns'[i] = txns[i]
  BY <1>3, <1>6, <1>7
<1>10. /\ txns'[id].status = "reversed" /\ txns'[id].deleted = txns[id].deleted
       /\ SameRow(txns[id], txns'[id])
  BY <1>1, <1>8 DEF Transaction, SameRow
<1>11. /\ ReversalRow(id).status = "reversed" /\ ReversalRow(id).reversal_of = id
       /\ ReversalRow(id).deleted = FALSE /\ ReversalRow(id).type = txns[id].type
       /\ ReversalRow(id).legs = Negated(txns[id].legs)
  BY DEF ReversalRow, Reversal, Row
<1>12. \A i \in DOMAIN txns : SameRow(txns[i], txns'[i])
  BY <1>9, <1>10 DEF SameRow
<1> QED
  BY <1>3, <1>6, <1>7, <1>9, <1>10, <1>11, <1>12

LEMMA DeletedRows ==
    ASSUME TypeOK, NEW id \in DOMAIN txns, Deleted(id)
    PROVE  /\ Len(txns) \in Nat /\ DOMAIN txns = 1..Len(txns)
           /\ DOMAIN txns' = DOMAIN txns /\ Len(txns') = Len(txns)
           /\ \A i \in DOMAIN txns : i # id => txns'[i] = txns[i]
           /\ \A i \in DOMAIN txns : SameRow(txns[i], txns'[i])
           /\ txns'[id].deleted /\ txns'[id].status = txns[id].status
<1>1. txns \in Seq(Transaction) /\ txns[id] \in Transaction
  BY DEF TypeOK
<1>2. [txns[id] EXCEPT !.deleted = TRUE] \in Transaction
  BY <1>1 DEF Transaction
<1>3. /\ Len(txns) \in Nat /\ DOMAIN txns = 1..Len(txns)
      /\ DOMAIN txns' = DOMAIN txns /\ Len(txns') = Len(txns)
      /\ \A i \in DOMAIN txns : i # id => txns'[i] = txns[i]
      /\ txns'[id] = [txns[id] EXCEPT !.deleted = TRUE]
  BY <1>1, <1>2, ExceptSeq DEF Deleted, Committed
<1>4. /\ txns'[id].deleted /\ txns'[id].status = txns[id].status
      /\ SameRow(txns[id], txns'[id])
  BY <1>1, <1>3 DEF Transaction, SameRow
<1> QED
  BY <1>3, <1>4 DEF SameRow

-----------------------------------------------------------------------------
(* The holding of a pair is a function of the legs that count in it, so    *)
(* a command can only change the holdings of the pairs of its own legs.    *)
(* Rows differ in those of touched only, and none of these counts in the   *)
(* pair, neither before nor after: what the pair holds is the same.        *)
LEMMA OtherPair ==
    ASSUME NEW old, NEW new, NEW pair, NEW touched,
           \A i : i \notin touched => (i \in Active(old) <=> i \in Active(new)),
           \A i \in Active(old) : i \notin touched => new[i].legs = old[i].legs,
           \A i \in Active(old) : i \in touched => pair \notin PairsOf(old[i].legs),
           \A i \in Active(new) : i \in touched => pair \notin PairsOf(new[i].legs)
    PROVE  Owed(new, pair) <=> Owed(old, pair)
<1>1. ASSUME NEW e
      PROVE  e \in PairLegs(old, pair, Active(old)) <=> e \in PairLegs(new, pair, Active(new))
  <2>1. ASSUME NEW i \in Active(old), NEW l \in DOMAIN old[i].legs,
               <<old[i].legs[l].account, old[i].legs[l].asset>> = pair
        PROVE  i \in Active(new) /\ new[i].legs = old[i].legs
    BY <2>1 DEF PairsOf
  <2>2. ASSUME NEW i \in Active(new), NEW l \in DOMAIN new[i].legs,
               <<new[i].legs[l].account, new[i].legs[l].asset>> = pair
        PROVE  i \in Active(old) /\ new[i].legs = old[i].legs
    BY <2>2 DEF PairsOf
  <2> QED
    BY <2>1, <2>2, PairLegsEntry
<1>2. PairLegs(old, pair, Active(old)) = PairLegs(new, pair, Active(new))
  BY <1>1
<1> QED
  BY <1>2 DEF Owed, Holding, LegSum

LEMMA HoldingsStep ==
    ASSUME TypeOK, HoldingsNonNegative, [Next]_vars
    PROVE  HoldingsNonNegative'
<1>1. CASE UNCHANGED txns
  BY <1>1 DEF HoldingsNonNegative
<1> SUFFICES ASSUME NEW pair \in Accounts \X Assets, ~Owed(txns, pair)
             PROVE  ~Owed(txns', pair) \/ UNCHANGED txns
  BY <1>1 DEF HoldingsNonNegative
<1>2. ASSUME NEW row, NewRow(row), Created(row)
      PROVE  ~Owed(txns', pair)
  <2>1. CASE pair \in PairsOf(row.legs)
    BY <1>2, <2>1 DEF Created, Committed, NegativePair
  <2>2. CASE pair \notin PairsOf(row.legs)
    <3> DEFINE n == Len(txns) + 1
    <3>1. /\ DOMAIN txns' = DOMAIN txns \cup {n} /\ n \notin DOMAIN txns /\ txns'[n] = row
          /\ \A i \in DOMAIN txns : txns'[i] = txns[i]
      <4>1. /\ Len(txns) \in Nat /\ DOMAIN txns = 1..Len(txns) /\ DOMAIN txns' = 1..n
            /\ txns'[n] = row /\ \A i \in DOMAIN txns : txns'[i] = txns[i]
        BY <1>2, CreatedRows
      <4>2. 1..n = 1..Len(txns) \cup {n} /\ n \notin 1..Len(txns)
        BY <4>1
      <4> QED
        BY <4>1, <4>2
    <3> HIDE DEF n
    <3>2. \A i : i \notin {n} => (i \in Active(txns) <=> i \in Active(txns'))
      BY <3>1 DEF Active
    <3>3. \A i \in Active(txns) : txns'[i].legs = txns[i].legs /\ i # n
      BY <3>1 DEF Active
    <3>4. \A i \in Active(txns') : i \in {n} => pair \notin PairsOf(txns'[i].legs)
      BY <2>2, <3>1
    <3> DEFINE touched == {n}
    <3>5. /\ \A i : i \notin touched => (i \in Active(txns) <=> i \in Active(txns'))
          /\ \A i \in Active(txns) : i \notin touched => txns'[i].legs = txns[i].legs
          /\ \A i \in Active(txns) : i \in touched => pair \notin PairsOf(txns[i].legs)
          /\ \A i \in Active(txns') : i \in touched => pair \notin PairsOf(txns'[i].legs)
      BY <3>2, <3>3, <3>4
    <3> HIDE DEF touched
    <3> QED
      BY <3>5, OtherPair
  <2> QED
    BY <2>1, <2>2
<1>3. ASSUME NEW id \in DOMAIN txns, Reversed(id)
      PROVE  ~Owed(txns', pair)
  <2>1. CASE pair \in PairsOf(txns[id].legs)
    BY <1>3, <2>1 DEF Reversed, Committed, NegativePair
  <2>2. CASE pair \notin PairsOf(txns[id].legs)
    <3> DEFINE n == Len(txns) + 1
    <3>1. /\ DOMAIN txns' = DOMAIN txns \cup {n} /\ n \notin DOMAIN txns
          /\ txns'[n].status = "reversed"
          /\ txns'[id].status = "reversed"
          /\ \A i \in DOMAIN txns : txns'[i].legs = txns[i].legs
          /\ \A i \in DOMAIN txns : i # id => txns'[i] = txns[i]
      <4>1. /\ Len(txns) \in Nat /\ DOMAIN txns = 1..Len(txns) /\ DOMAIN txns' = 1..n
            /\ txns'[n].status = "reversed" /\ txns'[id].status = "reversed"
            /\ \A i \in DOMAIN txns : txns'[i].legs = txns[i].legs
            /\ \A i \in DOMAIN txns : i # id => txns'[i] = txns[i]
        BY <1>3, ReversedRows DEF SameRow
      <4>2. 1..n = 1..Len(txns) \cup {n} /\ n \notin 1..Len(txns)
        BY <4>1
      <4> QED
        BY <4>1, <4>2
    <3> HIDE DEF n
    <3>2. \A i : i \notin {id, n} => (i \in Active(txns) <=> i \in Active(txns'))
      BY <3>1 DEF Active
    <3>3. n \notin Active(txns) /\ n \notin Active(txns') /\ id \notin Active(txns')
      BY <3>1 DEF Active, Counts
    <3>4. \A i \in Active(txns) : txns'[i].legs = txns[i].legs
      BY <3>1 DEF Active
    <3> DEFINE touched == {id, n}
    <3>5. /\ \A i : i \notin touched => (i \in Active(txns) <=> i \in Active(txns'))
          /\ \A i \in Active(txns) : i \notin touched => txns'[i].legs = txns[i].legs
          /\ \A i \in Active(txns) : i \in touched => pair \notin PairsOf(txns[i].legs)
          /\ \A i \in Active(txns') : i \in touched => pair \notin PairsOf(txns'[i].legs)
      BY <2>2, <3>2, <3>3, <3>4
    <3> HIDE DEF touched
    <3> QED
      BY <3>5, OtherPair
  <2> QED
    BY <2>1, <2>2
<1>4. ASSUME NEW id \in DOMAIN txns, Deleted(id)
      PROVE  ~Owed(txns', pair)
  <2>1. CASE pair \in PairsOf(txns[id].legs)
    BY <1>4, <2>1 DEF Deleted, Committed, NegativePair
  <2>2. CASE pair \notin PairsOf(txns[id].legs)
    <3>1. /\ DOMAIN txns' = DOMAIN txns /\ txns'[id].deleted
          /\ \A i \in DOMAIN txns : txns'[i].legs = txns[i].legs
          /\ \A i \in DOMAIN txns : i # id => txns'[i] = txns[i]
      BY <1>4, DeletedRows DEF SameRow
    <3>2. \A i : i \notin {id} => (i \in Active(txns) <=> i \in Active(txns'))
      BY <3>1 DEF Active
    <3>3. id \notin Active(txns')
      BY <3>1 DEF Active, Counts
    <3>4. \A i \in Active(txns) : txns'[i].legs = txns[i].legs
      BY <3>1 DEF Active
    <3> DEFINE touched == {id}
    <3>5. /\ \A i : i \notin touched => (i \in Active(txns) <=> i \in Active(txns'))
          /\ \A i \in Active(txns) : i \notin touched => txns'[i].legs = txns[i].legs
          /\ \A i \in Active(txns) : i \in touched => pair \notin PairsOf(txns[i].legs)
          /\ \A i \in Active(txns') : i \in touched => pair \notin PairsOf(txns'[i].legs)
      BY <2>2, <3>2, <3>3, <3>4
    <3> HIDE DEF touched
    <3> QED
      BY <3>5, OtherPair
  <2> QED
    BY <2>1, <2>2
<1> QED
  BY <1>2, <1>3, <1>4, NextCases DEF Refused, tables, Closed, vars

(* For any accounts, assets, requests and number of rows: no request, made *)
(* alone, leaves an account owing an asset.                                *)
THEOREM LedgerHoldingsNonNegative == Spec => []HoldingsNonNegative
<1>1. Init => HoldingsNonNegative
  <2> SUFFICES ASSUME Init, NEW pair \in Accounts \X Assets
               PROVE  ~Owed(txns, pair)
    BY DEF HoldingsNonNegative
  <2>1. Active(txns) = {}
    BY DEF Init, Active
  <2>2. LegSum(txns, pair, {}) = 0
    BY LegSumOfNone
  <2> QED
    BY <2>1, <2>2 DEF Owed, Holding
<1> QED
  BY <1>1, HoldingsStep, LedgerTypeOK, PTL DEF Spec

-----------------------------------------------------------------------------
LEMMA PairingStep ==
    ASSUME TypeOK, ReversalPairing, [Next]_vars
    PROVE  ReversalPairing'
<1>1. CASE UNCHANGED txns
  BY <1>1 DEF ReversalPairing
<1>2. ASSUME NEW row, NewRow(row), Created(row)
      PROVE  ReversalPairing'
  <2>1. row.status = "active" /\ row.reversal_of = 0
    BY <1>2 DEF NewRow
  <2> QED
    BY <1>2, <2>1, CreatedRows DEF ReversalPairing
<1>3. ASSUME NEW id \in DOMAIN txns, txns[id].status = "active", Reversed(id)
      PROVE  ReversalPairing'
  <2> DEFINE n == Len(txns) + 1
  <2>1. txns[id].reversal_of = 0 /\ \A r \in DOMAIN txns : txns[r].reversal_of # id
    BY <1>3 DEF ReversalPairing, TypeOK
  <2>2. /\ Len(txns) \in Nat /\ DOMAIN txns = 1..Len(txns) /\ DOMAIN txns' = 1..n
        /\ \A i \in DOMAIN txns : i # id => txns'[i] = txns[i]
        /\ txns'[id].status = "reversed" /\ txns'[id].reversal_of = 0
        /\ txns'[id].type = txns[id].type /\ txns'[id].legs = txns[id].legs
    BY <1>3, <2>1, ReversedRows DEF SameRow
  <2>3. /\ txns'[n].status = "reversed" /\ txns'[n].reversal_of = id
        /\ txns'[n].type = txns[id].type /\ txns'[n].legs = Negated(txns[id].legs)
    BY <1>3, ReversedRows DEF SameRow
  <2>4. \A i \in DOMAIN txns : /\ txns'[i].reversal_of = txns[i].reversal_of
                               /\ txns'[i].type = txns[i].type /\ txns'[i].legs = txns[i].legs
                               /\ txns[i].status = "reversed" => txns'[i].status = "reversed"
    BY <2>1, <2>2
  <2> HIDE DEF n
  <2>5. ASSUME NEW r \in DOMAIN txns', txns'[r].reversal_of # 0
        PROVE  LET o == txns'[r].reversal_of
               IN  /\ o \in 1..(r - 1)
                   /\ txns'[o].reversal_of = 0
                   /\ txns'[r].status = "reversed" /\ txns'[o].status = "reversed"
                   /\ txns'[r].type = txns'[o].type
                   /\ txns'[r].legs = Negated(txns'[o].legs)
                   /\ \A q \in DOMAIN txns' : txns'[q].reversal_of = o => q = r
    <3>1. CASE r = n
      BY <2>1, <2>2, <2>3, <2>4, <3>1 DEF n
    <3>2. CASE r \in DOMAIN txns
      BY <2>1, <2>2, <2>3, <2>4, <2>5, <3>2 DEF ReversalPairing, n
    <3> QED
      BY <2>2, <3>1, <3>2 DEF n
  <2>6. ASSUME NEW o \in DOMAIN txns', txns'[o].status = "reversed", txns'[o].reversal_of = 0
        PROVE  \E r \in DOMAIN txns' : txns'[r].reversal_of = o
    <3>1. CASE o = id
      BY <2>2, <2>3, <3>1 DEF n
    <3>2. CASE o # id
      <4>1. o \in DOMAIN txns /\ txns[o].status = "reversed" /\ txns[o].reversal_of = 0
        BY <1>3, <2>2, <2>3, <2>6, <3>2 DEF n, TypeOK
      <4> QED
        BY <2>2, <2>4, <4>1 DEF ReversalPairing, n
    <3> QED
      BY <3>1, <3>2
  <2> QED
    BY <2>5, <2>6 DEF ReversalPairing
<1>4. ASSUME NEW id \in DOMAIN txns, Deleted(id)
      PROVE  ReversalPairing'
  <2>1. /\ DOMAIN txns' = DOMAIN txns
        /\ \A i \in DOMAIN txns : /\ txns'[i].reversal_of = txns[i].reversal_of
                                 /\ txns'[i].type = txns[i].type /\ txns'[i].legs = txns[i].legs
                                 /\ txns'[i].status = txns[i].status
    BY <1>4, DeletedRows DEF SameRow
  <2>2. \A r \in DOMAIN txns : \A o \in 1..(r - 1) : o \in DOMAIN txns
    BY DEF TypeOK
  <2>3. ASSUME NEW r \in DOMAIN txns, txns'[r].reversal_of # 0
        PROVE  LET o == txns'[r].reversal_of
               IN  /\ o \in 1..(r - 1)
                   /\ txns'[o].reversal_of = 0
                   /\ txns'[r].status = "reversed" /\ txns'[o].status = "reversed"
                   /\ txns'[r].type = txns'[o].type
                   /\ txns'[r].legs = Negated(txns'[o].legs)
                   /\ \A q \in DOMAIN txns' : txns'[q].reversal_of = o => q = r
    BY <2>1, <2>2, <2>3 DEF ReversalPairing
  <2>4. ASSUME NEW o \in DOMAIN txns, txns'[o].status = "reversed", txns'[o].reversal_of = 0
        PROVE  \E r \in DOMAIN txns' : txns'[r].reversal_of = o
    BY <2>1, <2>4 DEF ReversalPairing
  <2> QED
    BY <2>1, <2>3, <2>4 DEF ReversalPairing
<1> QED
  BY <1>1, <1>2, <1>3, <1>4, NextCases DEF Refused, tables, Closed, vars

(* For any accounts, assets, requests and number of rows: a reversed row   *)
(* has exactly one reversal row, its exact negation, and no row is ever    *)
(* reversed twice.                                                         *)
THEOREM LedgerReversalPairing == Spec => []ReversalPairing
<1>1. Init => ReversalPairing
  BY DEF Init, ReversalPairing
<1> QED
  BY <1>1, PairingStep, LedgerTypeOK, PTL DEF Spec

-----------------------------------------------------------------------------
(* The audit log as a set of entries.                                      *)
Logged == Carried("create", {i \in DOMAIN txns : txns[i].reversal_of = 0})
     \cup Carried("reverse", {i \in DOMAIN txns : txns[i].status = "reversed"
                                                  /\ txns[i].reversal_of = 0})
     \cup Carried("delete", {i \in DOMAIN txns : txns[i].deleted})

LEMMA CarriedEntry ==
    ASSUME NEW i, NEW action, NEW kind, NEW ids
    PROVE  [entity |-> i, action |-> action] \in Carried(kind, ids) <=> action = kind /\ i \in ids
<1>1. ASSUME NEW j, [entity |-> i, action |-> action] = [entity |-> j, action |-> kind]
      PROVE  i = j /\ action = kind
  BY <1>1
<1> QED
  BY <1>1 DEF Carried

(* One more entry at the end, for an entity not deleted before and not     *)
(* logged with that action before, keeps the order and the uniqueness.     *)
LEMMA AppendEntry ==
    ASSUME TypeOK, AuditTrail, NEW entry \in AuditEntry, audit' = Append(audit, entry),
           entry \notin Logged,
           [entity |-> entry.entity, action |-> "delete"] \notin Logged,
           Logged' = Logged \cup {entry}
    PROVE  AuditTrail'
<1> DEFINE n == Len(audit) + 1
<1>1. /\ Len(audit) \in Nat /\ DOMAIN audit = 1..Len(audit) /\ DOMAIN audit' = 1..n
      /\ \A k \in DOMAIN audit : audit'[k] = audit[k] /\ audit[k] \in AuditEntry
      /\ audit'[n] = entry
  BY AppendProperties DEF TypeOK
<1>2. \A k \in DOMAIN audit : audit[k] \in Logged
  BY DEF AuditTrail, ToSet, Logged
<1>3. \A k \in DOMAIN audit : audit[k] # entry
  BY <1>2
<1>4. ASSUME NEW k \in DOMAIN audit, audit[k].action = "delete"
      PROVE  audit[k].entity # entry.entity
  <2>1. audit[k] = [entity |-> audit[k].entity, action |-> "delete"]
    BY <1>1, <1>4 DEF AuditEntry
  <2> QED
    BY <1>2, <2>1
<1> HIDE DEF n
<1>5. ToSet(audit') = ToSet(audit) \cup {entry}
  BY <1>1 DEF ToSet, n
<1>6. \A k, m \in DOMAIN audit' : audit'[k] = audit'[m] => k = m
  BY <1>1, <1>3 DEF AuditTrail, n
<1>7. \A k, m \in DOMAIN audit' :
        audit'[k].entity = audit'[m].entity /\ audit'[k].action = "delete" => m <= k
  BY <1>1, <1>4 DEF AuditTrail, n
<1>8. ToSet(audit) = Logged
  BY DEF AuditTrail, Logged
<1>9. ToSet(audit') = Logged'
  BY <1>5, <1>8
<1> QED
  BY <1>6, <1>7, <1>9 DEF AuditTrail, Logged

LEMMA AuditStep ==
    ASSUME TypeOK, ReversalPairing, AuditTrail, [Next]_vars
    PROVE  AuditTrail'
<1>1. CASE UNCHANGED <<txns, audit>>
  BY <1>1 DEF AuditTrail
<1>2. ASSUME NEW row, NewRow(row), Created(row)
      PROVE  AuditTrail'
  <2> DEFINE entry == [entity |-> Len(txns) + 1, action |-> "create"]
  <2>1. entry \in AuditEntry /\ audit' = Append(audit, entry)
    BY <1>2 DEF AuditEntry, Actions, TypeOK, Created, Committed
  <2>2. Logged' = Logged \cup {entry}
    BY <1>2, CreatedRows DEF Logged, Carried, NewRow
  <2>3. entry \notin Logged /\ [entity |-> entry.entity, action |-> "delete"] \notin Logged
    <3>1. Len(txns) + 1 \notin DOMAIN txns
      BY <1>2, CreatedRows
    <3> QED
      BY <3>1, CarriedEntry DEF Logged
  <2> QED
    BY <2>1, <2>2, <2>3, AppendEntry
<1>3. ASSUME NEW id \in DOMAIN txns, ~txns[id].deleted, txns[id].status = "active", Reversed(id)
      PROVE  AuditTrail'
  <2> DEFINE entry == [entity |-> id, action |-> "reverse"]
  <2>1. entry \in AuditEntry /\ audit' = Append(audit, entry)
    BY <1>3 DEF AuditEntry, Actions, TypeOK, Reversed, Committed
  <2>2. id # 0 /\ txns[id].reversal_of = 0
    BY <1>3 DEF ReversalPairing, TypeOK
  <2>3. Logged' = Logged \cup {entry}
    <3> DEFINE n == Len(txns) + 1
    <3>1. /\ DOMAIN txns' = DOMAIN txns \cup {n} /\ n \notin DOMAIN txns
          /\ txns'[n].reversal_of = id /\ txns'[n].deleted = FALSE
      <4>1. /\ Len(txns) \in Nat /\ DOMAIN txns = 1..Len(txns) /\ DOMAIN txns' = 1..n
            /\ txns'[n].reversal_of = id /\ txns'[n].deleted = FALSE
        BY <1>3, ReversedRows
      <4>2. 1..n = 1..Len(txns) \cup {n} /\ n \notin 1..Len(txns)
        BY <4>1
      <4> QED
        BY <4>1, <4>2
    <3>2. \A i \in DOMAIN txns : i # id => txns'[i] = txns[i]
      BY <1>3, ReversedRows
    <3>3. /\ txns'[id].status = "reversed" /\ txns'[id].deleted = txns[id].deleted
          /\ txns'[id].reversal_of = 0
      BY <1>3, <2>2, ReversedRows DEF SameRow
    <3> HIDE DEF n
    <3>4. ASSUME NEW i
          PROVE  /\ i \in DOMAIN txns' /\ txns'[i].reversal_of = 0
                     <=> i \in DOMAIN txns /\ txns[i].reversal_of = 0
                 /\ i \in DOMAIN txns' /\ txns'[i].status = "reversed" /\ txns'[i].reversal_of = 0
                     <=> \/ i \in DOMAIN txns /\ txns[i].status = "reversed" /\ txns[i].reversal_of = 0
                         \/ i = id
                 /\ i \in DOMAIN txns' /\ txns'[i].deleted
                     <=> i \in DOMAIN txns /\ txns[i].deleted
      BY <2>2, <3>1, <3>2, <3>3
    <3>5. /\ {i \in DOMAIN txns' : txns'[i].reversal_of = 0}
              = {i \in DOMAIN txns : txns[i].reversal_of = 0}
          /\ {i \in DOMAIN txns' : txns'[i].status = "reversed" /\ txns'[i].reversal_of = 0}
              = {i \in DOMAIN txns : txns[i].status = "reversed" /\ txns[i].reversal_of = 0}
                \cup {id}
          /\ {i \in DOMAIN txns' : txns'[i].deleted} = {i \in DOMAIN txns : txns[i].deleted}
      BY <3>4
    <3> QED
      BY <3>5 DEF Logged, Carried
  <2>4. entry \notin Logged /\ [entity |-> id, action |-> "delete"] \notin Logged
    BY <1>3 DEF Logged, Carried
  <2> QED
    BY <2>1, <2>3, <2>4, AppendEntry
<1>4. ASSUME NEW id \in DOMAIN txns, ~txns[id].deleted, Deleted(id)
      PROVE  AuditTrail'
  <2> DEFINE entry == [entity |-> id, action |-> "delete"]
  <2>1. entry \in AuditEntry /\ audit' = Append(audit, entry)
    BY <1>4 DEF AuditEntry, Actions, TypeOK, Deleted, Committed
  <2>2. Logged' = Logged \cup {entry}
    BY <1>4, DeletedRows DEF Logged, Carried, SameRow
  <2>3. entry \notin Logged
    BY <1>4 DEF Logged, Carried
  <2> QED
    BY <2>1, <2>2, <2>3, AppendEntry
<1> QED
  BY <1>1, <1>2, <1>3, <1>4, NextCases DEF Refused, tables, Closed, vars

(* For any requests and any number of them: the audit log holds exactly    *)
(* one entry per command carried out on a row that exists, and nothing     *)
(* about a row after its deletion.                                         *)
THEOREM LedgerAuditTrail == Spec => []AuditTrail
<1>1. Init => AuditTrail
  BY DEF Init, AuditTrail, ToSet, Carried
<1> QED
  BY <1>1, AuditStep, LedgerTypeOK, LedgerReversalPairing, PTL DEF Spec

-----------------------------------------------------------------------------
LEMMA HistoryStep ==
    ASSUME TypeOK, [Next]_vars
    PROVE  [/\ Len(txns) <= Len(txns')
            /\ \A i \in DOMAIN txns : Lifecycle(txns[i], txns'[i])]_vars
<1> DEFINE Kept == /\ Len(txns) <= Len(txns')
                   /\ \A i \in DOMAIN txns : Lifecycle(txns[i], txns'[i])
<1>0. /\ Len(txns) \in Nat
      /\ \A i \in DOMAIN txns : Lifecycle(txns[i], txns[i])
  BY DEF Lifecycle, TypeOK
<1>1. CASE UNCHANGED txns
  BY <1>0, <1>1
<1>2. ASSUME NEW row, NewRow(row), Created(row)
      PROVE  Kept
  BY <1>0, <1>2, CreatedRows
<1>3. ASSUME NEW id \in DOMAIN txns, ~txns[id].deleted, txns[id].status = "active", Reversed(id)
      PROVE  Kept
  <2>1. Lifecycle(txns[id], txns'[id])
    BY <1>3, ReversedRows DEF Lifecycle, SameRow
  <2>2. Len(txns') = Len(txns) + 1 /\ \A i \in DOMAIN txns : i # id => txns'[i] = txns[i]
    BY <1>3, ReversedRows
  <2>3. ASSUME NEW i \in DOMAIN txns
        PROVE  Lifecycle(txns[i], txns'[i])
    <3>1. CASE i = id
      BY <2>1, <3>1
    <3>2. CASE i # id
      BY <1>0, <2>2, <3>2
    <3> QED
      BY <3>1, <3>2
  <2> QED
    BY <1>0, <2>2, <2>3
<1>4. ASSUME NEW id \in DOMAIN txns, ~txns[id].deleted, Deleted(id)
      PROVE  Kept
  <2>1. Lifecycle(txns[id], txns'[id])
    BY <1>4, DeletedRows DEF Lifecycle, SameRow
  <2>2. Len(txns') = Len(txns) /\ \A i \in DOMAIN txns : i # id => txns'[i] = txns[i]
    BY <1>4, DeletedRows
  <2>3. ASSUME NEW i \in DOMAIN txns
        PROVE  Lifecycle(txns[i], txns'[i])
    <3>1. CASE i = id
      BY <2>1, <3>1
    <3>2. CASE i # id
      BY <1>0, <2>2, <3>2
    <3> QED
      BY <3>1, <3>2
  <2> QED
    BY <1>0, <2>2, <2>3
<1> QED
  BY <1>1, <1>2, <1>3, <1>4, NextCases DEF Refused, tables, Closed, vars

(* A posted row never goes away and never changes what it says; it is      *)
(* reversed at most once, deleted at most once, and final once deleted.    *)
THEOREM LedgerHistoryKept == Spec => HistoryKept
BY HistoryStep, LedgerTypeOK, PTL DEF Spec, HistoryKept

-----------------------------------------------------------------------------
(* The rows that count are shaped as their types say.                      *)
AllShaped(rows) ==
    \A i \in DOMAIN rows : Counts(rows[i]) =>
        /\ Shaped(rows[i].type, rows[i].legs)
        /\ FeeFree => Whole(rows[i].type, rows[i].legs)

RowsShaped == AllShaped(txns)

LEMMA ShapedStep ==
    ASSUME TypeOK, RowsShaped, [Next]_vars
    PROVE  RowsShaped'
<1>1. CASE UNCHANGED txns
  BY <1>1 DEF RowsShaped, AllShaped, FeeFree
<1>2. ASSUME NEW row, NewRow(row), Created(row)
      PROVE  RowsShaped'
  <2>1. DOMAIN txns' = DOMAIN txns \cup {Len(txns) + 1}
    <3>1. Len(txns) \in Nat /\ DOMAIN txns = 1..Len(txns) /\ DOMAIN txns' = 1..(Len(txns) + 1)
      BY <1>2, CreatedRows
    <3> QED
      BY <3>1
  <2>2. (\A i \in DOMAIN txns : txns'[i] = txns[i]) /\ txns'[Len(txns) + 1] = row
    BY <1>2, CreatedRows
  <2> QED
    BY <1>2, <2>1, <2>2 DEF RowsShaped, AllShaped, NewRow, FeeFree
<1>3. ASSUME NEW id \in DOMAIN txns, Reversed(id)
      PROVE  RowsShaped'
  <2> DEFINE n == Len(txns) + 1
  <2>1. DOMAIN txns' = DOMAIN txns \cup {n}
    <3>1. Len(txns) \in Nat /\ DOMAIN txns = 1..Len(txns) /\ DOMAIN txns' = 1..n
      BY <1>3, ReversedRows
    <3> QED
      BY <3>1
  <2>2. /\ \A i \in DOMAIN txns : i # id => txns'[i] = txns[i]
        /\ txns'[id].status = "reversed" /\ txns'[n].status = "reversed"
    BY <1>3, ReversedRows
  <2> HIDE DEF n
  <2> QED
    BY <2>1, <2>2 DEF RowsShaped, AllShaped, Counts, FeeFree
<1>4. ASSUME NEW id \in DOMAIN txns, Deleted(id)
      PROVE  RowsShaped'
  <2>1. /\ DOMAIN txns' = DOMAIN txns /\ txns'[id].deleted
        /\ \A i \in DOMAIN txns : i # id => txns'[i] = txns[i]
    BY <1>4, DeletedRows
  <2> QED
    BY <2>1 DEF RowsShaped, AllShaped, Counts, FeeFree
<1> QED
  BY <1>1, <1>2, <1>3, <1>4, NextCases DEF Refused, tables, Closed, vars

LEMMA SeqIsRows ==
    ASSUME NEW rows \in Seq(Transaction)
    PROVE  IsRows(rows)
<1>1. DOMAIN rows = 1..Len(rows) /\ Len(rows) \in Nat
  OBVIOUS
<1>2. IsFiniteSet(DOMAIN rows) /\ DOMAIN rows \subseteq Nat
  BY <1>1, FS_Interval
<1>3. \A i \in DOMAIN rows : rows[i] \in Transaction
  OBVIOUS
<1> QED
  BY <1>2, <1>3 DEF IsRows

LEMMA RowsReplayable ==
    ASSUME NEW rows \in Seq(Transaction), AllShaped(rows), NEW table \in PriceTables,
           NEW s \in Assets
    PROVE  Replayable(rows, table, s) /\ IsRows(rows)
<1>1. IsRows(rows)
  BY SeqIsRows
<1>2. table[s] \subseteq [as_of : Days, price : Nat]
  BY DEF PriceTables
<1> QED
  BY <1>1, <1>2 DEF Replayable, AllShaped

-----------------------------------------------------------------------------
(* The projection of every asset is what a replay leaves of the rows.      *)
Projects(st, s) ==
    /\ Exact(st, txns, s) /\ ~st.short
    /\ lots[s] = st.lots /\ consumptions[s] = st.consumptions

ProjectionFresh == \A s \in Assets : \E st : Projects(st, s)

LEMMA RebuiltIsFresh ==
    ASSUME TypeOK', RowsShaped', UNCHANGED prices, ProjectionFresh,
           NEW legs, Rebuilt(txns', legs), NEW s \in Assets,
           s \notin AssetsOf(legs) =>
               /\ Relevant(txns', s) = Relevant(txns, s)
               /\ \A i \in Relevant(txns, s) : txns'[i] = txns[i]
    PROVE  (\E st : Projects(st, s))'
<1>1. CASE s \in AssetsOf(legs)
  <2> DEFINE st == Rebuild(txns', prices, s)
  <2>1. txns' \in Seq(Transaction) /\ prices \in PriceTables /\ AllShaped(txns')
    BY DEF TypeOK, RowsShaped
  <2>2. Replayable(txns', prices, s)
    BY <2>1, RowsReplayable
  <2>3. Exact(st, txns', s)
    BY <2>2, ReplayIsExact
  <2>4. ~st.short /\ lots'[s] = st.lots /\ consumptions'[s] = st.consumptions
    BY <1>1 DEF Rebuilt
  <2> HIDE DEF st
  <2> QED
    BY <2>3, <2>4 DEF Projects
<1>2. CASE s \notin AssetsOf(legs)
  <2>1. PICK st : Projects(st, s)
    BY DEF ProjectionFresh
  <2>2. Exact(st, txns', s)
    BY <1>2, <2>1, ExactDepends DEF Projects
  <2>3. lots'[s] = lots[s] /\ consumptions'[s] = consumptions[s]
    BY <1>2 DEF Rebuilt
  <2> QED
    BY <2>1, <2>2, <2>3 DEF Projects
<1> QED
  BY <1>1, <1>2

(* A row without legs in an asset is none of its replay.                   *)
LEMMA NotRelevant ==
    ASSUME NEW rows, NEW id, NEW s, s \notin AssetsOf(rows[id].legs)
    PROVE  id \notin Relevant(rows, s)
BY DEF AssetsOf, Relevant, LegsIn

LEMMA FreshStep ==
    ASSUME TypeOK, TypeOK', RowsShaped, RowsShaped', ProjectionFresh, [Next]_vars
    PROVE  ProjectionFresh'
<1>1. CASE UNCHANGED <<txns, lots, consumptions>>
  <2>1. ASSUME NEW s \in Assets
        PROVE  (\E st : Projects(st, s))'
    <3>1. PICK st : Projects(st, s)
      BY DEF ProjectionFresh
    <3> QED
      BY <1>1, <3>1 DEF Projects
  <2> QED
    BY <2>1 DEF ProjectionFresh
<1>2. ASSUME NEW row, NewRow(row), Created(row)
      PROVE  ProjectionFresh'
  <2> DEFINE n == Len(txns) + 1
  <2>1. /\ DOMAIN txns' = DOMAIN txns \cup {n} /\ txns'[n] = row
        /\ \A i \in DOMAIN txns : txns'[i] = txns[i]
    <3>1. /\ Len(txns) \in Nat /\ DOMAIN txns = 1..Len(txns) /\ DOMAIN txns' = 1..n
          /\ \A i \in DOMAIN txns : txns'[i] = txns[i]
          /\ txns'[n] = row
      BY <1>2, CreatedRows
    <3> QED
      BY <3>1
  <2>2. Rebuilt(txns', row.legs) /\ UNCHANGED prices
    BY <1>2 DEF Created, Committed
  <2> HIDE DEF n
  <2>3. ASSUME NEW s \in Assets, s \notin AssetsOf(row.legs)
        PROVE  /\ Relevant(txns', s) = Relevant(txns, s)
               /\ \A i \in Relevant(txns, s) : txns'[i] = txns[i]
    <3>1. n \notin Relevant(txns', s)
      BY <2>1, <2>3, NotRelevant
    <3>2. \A i \in DOMAIN txns : i \in Relevant(txns', s) <=> i \in Relevant(txns, s)
      BY <2>1 DEF Relevant
    <3>3. Relevant(txns', s) = Relevant(txns, s)
      BY <2>1, <3>1, <3>2 DEF Relevant
    <3> QED
      BY <2>1, <3>3 DEF Relevant
  <2>4. ASSUME NEW s \in Assets
        PROVE  (\E st : Projects(st, s))'
    BY <2>2, <2>3, RebuiltIsFresh
  <2> QED
    BY <2>4 DEF ProjectionFresh
<1>3. ASSUME NEW id \in DOMAIN txns, Reversed(id)
      PROVE  ProjectionFresh'
  <2> DEFINE n == Len(txns) + 1
  <2>1. /\ DOMAIN txns' = DOMAIN txns \cup {n}
        /\ \A i \in DOMAIN txns : i # id => txns'[i] = txns[i]
        /\ txns'[n].status = "reversed" /\ txns'[id].status = "reversed"
    <3>1. /\ Len(txns) \in Nat /\ DOMAIN txns = 1..Len(txns) /\ DOMAIN txns' = 1..n
          /\ \A i \in DOMAIN txns : i # id => txns'[i] = txns[i]
          /\ txns'[n].status = "reversed" /\ txns'[id].status = "reversed"
      BY <1>3, ReversedRows
    <3> QED
      BY <3>1
  <2>2. Rebuilt(txns', txns[id].legs) /\ UNCHANGED prices
    BY <1>3 DEF Reversed, Committed
  <2> HIDE DEF n
  <2>3. ASSUME NEW s \in Assets, s \notin AssetsOf(txns[id].legs)
        PROVE  /\ Relevant(txns', s) = Relevant(txns, s)
               /\ \A i \in Relevant(txns, s) : txns'[i] = txns[i]
    <3>1. n \notin Relevant(txns', s) /\ id \notin Relevant(txns', s)
      BY <2>1 DEF Relevant, Counts
    <3>2. id \notin Relevant(txns, s)
      BY <2>3, NotRelevant
    <3>3. \A i \in DOMAIN txns : i # id => (i \in Relevant(txns', s) <=> i \in Relevant(txns, s))
      BY <2>1 DEF Relevant
    <3>4. Relevant(txns', s) = Relevant(txns, s)
      BY <2>1, <3>1, <3>2, <3>3 DEF Relevant
    <3> QED
      BY <2>1, <3>2, <3>4 DEF Relevant
  <2>4. ASSUME NEW s \in Assets
        PROVE  (\E st : Projects(st, s))'
    BY <2>2, <2>3, RebuiltIsFresh
  <2> QED
    BY <2>4 DEF ProjectionFresh
<1>4. ASSUME NEW id \in DOMAIN txns, Deleted(id)
      PROVE  ProjectionFresh'
  <2>1. /\ DOMAIN txns' = DOMAIN txns /\ txns'[id].deleted
        /\ \A i \in DOMAIN txns : i # id => txns'[i] = txns[i]
    BY <1>4, DeletedRows
  <2>2. Rebuilt(txns', txns[id].legs) /\ UNCHANGED prices
    BY <1>4 DEF Deleted, Committed
  <2>3. ASSUME NEW s \in Assets, s \notin AssetsOf(txns[id].legs)
        PROVE  /\ Relevant(txns', s) = Relevant(txns, s)
               /\ \A i \in Relevant(txns, s) : txns'[i] = txns[i]
    <3>1. id \notin Relevant(txns', s)
      BY <2>1 DEF Relevant, Counts
    <3>2. id \notin Relevant(txns, s)
      BY <2>3, NotRelevant
    <3>3. \A i \in DOMAIN txns : i # id => (i \in Relevant(txns', s) <=> i \in Relevant(txns, s))
      BY <2>1 DEF Relevant
    <3>4. Relevant(txns', s) = Relevant(txns, s)
      BY <2>1, <3>1, <3>2, <3>3 DEF Relevant
    <3> QED
      BY <2>1, <3>2, <3>4 DEF Relevant
  <2>4. ASSUME NEW s \in Assets
        PROVE  (\E st : Projects(st, s))'
    BY <2>2, <2>3, RebuiltIsFresh
  <2> QED
    BY <2>4 DEF ProjectionFresh
<1> QED
  BY <1>1, <1>2, <1>3, <1>4, NextCases DEF Refused, tables, Closed, vars

-----------------------------------------------------------------------------
LotsInv == TypeOK /\ RowsShaped /\ ProjectionFresh

LEMMA LotsInit == Init => LotsInv
<1> SUFFICES ASSUME Init
             PROVE  TypeOK /\ RowsShaped /\ ProjectionFresh
  BY DEF LotsInv
<1>1. TypeOK
  BY LedgerAssumption DEF Init, TypeOK
<1>2. RowsShaped
  BY DEF Init, RowsShaped, AllShaped
<1>3. ASSUME NEW s \in Assets
      PROVE  Projects(Nothing, s)
  <2>1. Relevant(txns, s) = {}
    BY DEF Init, Relevant
  <2>2. /\ Nothing \in ReplayState /\ ~Nothing.short
        /\ Sound(Nothing, txns, s, {}) /\ Reconciled(Nothing, txns, s, {})
        /\ Costed(Nothing, txns, {})
    BY NothingIsSound
  <2>3. Exact(Nothing, txns, s)
    BY <2>1, <2>2 DEF Exact
  <2>4. Nothing.lots = <<>> /\ Nothing.consumptions = <<>>
    BY DEF Nothing
  <2>5. lots[s] = <<>> /\ consumptions[s] = <<>>
    BY DEF Init
  <2> QED
    BY <2>2, <2>3, <2>4, <2>5 DEF Projects
<1> QED
  BY <1>1, <1>2, <1>3 DEF ProjectionFresh

LEMMA LotsStep == LotsInv /\ [Next]_vars => LotsInv'
<1> SUFFICES ASSUME LotsInv, [Next]_vars
             PROVE  TypeOK' /\ RowsShaped' /\ ProjectionFresh'
  BY DEF LotsInv
<1>1. TypeOK'
  BY TypeStep DEF LotsInv
<1>2. RowsShaped'
  BY ShapedStep DEF LotsInv
<1> QED
  BY <1>1, <1>2, FreshStep DEF LotsInv

(* The lots and consumptions that are stored are at all times what a       *)
(* replay of the rows as they are leaves, and none came up short: a        *)
(* command rebuilds every asset whose replay it changes (ledger.py: the    *)
(* rebuild at the end of create, reverse and delete).                      *)
THEOREM LedgerProjectionFresh == Spec => []ProjectionFresh
<1>1. LotsInv => ProjectionFresh
  BY DEF LotsInv
<1> QED
  BY <1>1, LotsInit, LotsStep, PTL DEF Spec

LEMMA LotsInvariant == Spec => []LotsInv
BY LotsInit, LotsStep, PTL DEF Spec

-----------------------------------------------------------------------------
(* The model's sums of consumptions.                                       *)
LEMMA SaleSum ==
    ASSUME NEW sold \in Seq(SaleRow), NEW K \in SUBSET DOMAIN sold
    PROVE  MapThenSumSet(LAMBDA k : sold[k].qty, K) = SumOver(Quantities(sold), K)
BY DEF Quantities, SumOver, MapThenSumSet, MapThenFoldSet

LEMMA ProjectedSound ==
    ASSUME ProjectionFresh, NEW s \in Assets
    PROVE  \E st : /\ Projects(st, s) /\ Exact(st, txns, s)
                   /\ st \in ReplayState /\ Sound(st, txns, s, Relevant(txns, s))
                   /\ st.lots \in Seq(LotRow) /\ st.consumptions \in Seq(SaleRow)
<1>1. PICK st : Projects(st, s)
  BY DEF ProjectionFresh
<1>2. Exact(st, txns, s) /\ ~st.short
  BY <1>1 DEF Projects
<1>3. st \in ReplayState /\ Sound(st, txns, s, Relevant(txns, s))
  BY <1>2 DEF Exact
<1> QED
  BY <1>1, <1>2, <1>3, StateFields

(* A lot comes from an inflow that still counts, never from its future,    *)
(* and its sales never exceed what has left it, whatever the requests and  *)
(* however many.                                                           *)
THEOREM LedgerLotProvenance == Spec => []LotProvenance
<1>1. LotsInv => LotProvenance
  <2> SUFFICES ASSUME LotsInv, NEW s \in Assets, NEW i \in DOMAIN lots[s]
               PROVE  LET lot == lots[s][i]
                          source == txns[lot.source_leg[1]]
                          sales == {k \in DOMAIN consumptions[s] : consumptions[s][k].lot = i}
                      IN  /\ Counts(source)
                          /\ source.legs[lot.source_leg[2]].quantity > 0
                          /\ lot.acquired_at <= source.occurred_at
                          /\ lot.remaining_qty >= 0
                          /\ MapThenSumSet(LAMBDA k : consumptions[s][k].qty, sales)
                                  <= lot.original_qty - lot.remaining_qty
    BY DEF LotProvenance
  <2>1. PICK st : /\ Projects(st, s) /\ Sound(st, txns, s, Relevant(txns, s))
                  /\ st.lots \in Seq(LotRow) /\ st.consumptions \in Seq(SaleRow)
    BY ProjectedSound DEF LotsInv
  <2> DEFINE sold == consumptions[s]
             lot == lots[s][i]
             sales == {k \in DOMAIN sold : sold[k].lot = i}
  <2>2. lots[s] = st.lots /\ sold = st.consumptions
    BY <2>1 DEF Projects
  <2>3. /\ Legit(txns, s, Relevant(txns, s), lot)
        /\ SumOver(Quantities(sold), SoldFrom(sold, i)) <= lot.original_qty - lot.remaining_qty
    BY <2>1, <2>2 DEF Sound, FromInflows, WithinLots
  <2>4. Counts(txns[lot.source_leg[1]])
    BY <2>3 DEF Legit, Relevant
  <2>5. lot.remaining_qty \in Nat
    BY <2>1, <2>2, LotFields
  <2>6. MapThenSumSet(LAMBDA k : sold[k].qty, sales) = SumOver(Quantities(sold), sales)
    <3>1. sold \in Seq(SaleRow) /\ sales \in SUBSET DOMAIN sold
      BY <2>1, <2>2
    <3> HIDE DEF sold, sales
    <3> QED
      BY <3>1, SaleSum
  <2>7. sales = SoldFrom(sold, i)
    BY DEF SoldFrom
  <2>8. MapThenSumSet(LAMBDA k : sold[k].qty, sales) <= lot.original_qty - lot.remaining_qty
    <3> HIDE DEF sold, sales, lot
    <3> QED
      BY <2>3, <2>6, <2>7
  <2>9. /\ txns[lot.source_leg[1]].legs[lot.source_leg[2]].quantity > 0
        /\ lot.acquired_at <= txns[lot.source_leg[1]].occurred_at
    BY <2>3 DEF Legit
  <2>10. lot.remaining_qty >= 0
    BY <2>5
  <2> QED
    BY <2>4, <2>8, <2>9, <2>10, Zenon
<1> QED
  BY <1>1, LotsInvariant, PTL

(* First in, first out, at any time: a sale that took from a lot left      *)
(* nothing in the older lots of its account that were there by then.       *)
THEOREM LedgerFifoRespected == Spec => []FifoRespected
<1>1. LotsInv => FifoRespected
  <2> SUFFICES ASSUME LotsInv, NEW s \in Assets, NEW c \in ToSet(consumptions[s]),
                      NEW i \in DOMAIN lots[s],
                      lots[s][i].account = lots[s][c.lot].account,
                      lots[s][i].acquired_at < lots[s][c.lot].acquired_at,
                      ReplayBefore(txns, lots[s][i].source_leg[1], c.sell_leg[1])
               PROVE  lots[s][i].remaining_qty = 0
    BY DEF FifoRespected
  <2>1. PICK st : Projects(st, s) /\ Sound(st, txns, s, Relevant(txns, s))
    BY ProjectedSound DEF LotsInv
  <2>2. lots[s] = st.lots /\ consumptions[s] = st.consumptions
    BY <2>1 DEF Projects
  <2>3. PICK k \in DOMAIN consumptions[s] : c = consumptions[s][k]
    BY DEF ToSet
  <2>4. InOrder(st, txns)
    BY <2>1 DEF Sound
  <2> QED
    BY <2>2, <2>3, <2>4 DEF InOrder
<1> QED
  BY <1>1, LotsInvariant, PTL

(* Every unit an active trade sold is realized exactly once, against lots  *)
(* of the account and asset it was sold from, and nothing else is.         *)
THEOREM LedgerSalesRealized == Spec => []SalesRealized
<1>1. ASSUME LotsInv, NEW s \in Assets
      PROVE  /\ \A i \in Active(txns) : \A l \in LegsIn(txns[i], s) :
                  LET sold == {k \in DOMAIN consumptions[s] : consumptions[s][k].sell_leg = <<i, l>>}
                  IN  /\ MapThenSumSet(LAMBDA k : consumptions[s][k].qty, sold)
                           = IF txns[i].type = "trade" /\ txns[i].legs[l].quantity < 0
                             THEN -txns[i].legs[l].quantity ELSE 0
                      /\ \A k \in sold : lots[s][consumptions[s][k].lot].account
                                             = txns[i].legs[l].account
             /\ \A c \in ToSet(consumptions[s]) : c.sell_leg[1] \in Active(txns)
  <2>1. PICK st : /\ Projects(st, s) /\ Sound(st, txns, s, Relevant(txns, s))
                  /\ st.lots \in Seq(LotRow) /\ st.consumptions \in Seq(SaleRow)
    BY <1>1, ProjectedSound DEF LotsInv
  <2> DEFINE total == consumptions[s]
  <2>2. lots[s] = st.lots /\ total = st.consumptions
    BY <2>1 DEF Projects
  <2>3. FromSales(st, txns, s, Relevant(txns, s)) /\ AllRealized(st, txns, s, Relevant(txns, s))
    BY <2>1 DEF Sound
  <2>4. Relevant(txns, s) \subseteq Active(txns)
    BY DEF Relevant, Active
  <2>5. ASSUME NEW i \in Active(txns), NEW l \in LegsIn(txns[i], s)
        PROVE  /\ MapThenSumSet(LAMBDA k : total[k].qty, SoldBy(total, <<i, l>>))
                    = IF txns[i].type = "trade" /\ txns[i].legs[l].quantity < 0
                      THEN -txns[i].legs[l].quantity ELSE 0
               /\ \A k \in SoldBy(total, <<i, l>>) :
                    lots[s][total[k].lot].account = txns[i].legs[l].account
    <3>1. i \in Relevant(txns, s)
      BY DEF Relevant, Active
    <3>2. SumOver(Quantities(total), SoldBy(total, <<i, l>>)) = ToRealize(txns[i], l)
      BY <2>2, <2>3, <3>1 DEF AllRealized
    <3>3. MapThenSumSet(LAMBDA k : total[k].qty, SoldBy(total, <<i, l>>))
            = SumOver(Quantities(total), SoldBy(total, <<i, l>>))
      <4> DEFINE K == SoldBy(total, <<i, l>>)
      <4>1. total \in Seq(SaleRow) /\ K \in SUBSET DOMAIN total
        BY <2>1, <2>2 DEF SoldBy
      <4> HIDE DEF total, K
      <4>2. MapThenSumSet(LAMBDA k : total[k].qty, K) = SumOver(Quantities(total), K)
        BY <4>1, SaleSum
      <4> QED
        BY <4>2 DEF K
    <3>4. ASSUME NEW k \in SoldBy(total, <<i, l>>)
          PROVE  lots[s][total[k].lot].account = txns[i].legs[l].account
      <4>1. k \in DOMAIN total /\ total[k].sell_leg = <<i, l>>
        BY DEF SoldBy
      <4>2. total[k].sell_leg[1] = i /\ total[k].sell_leg[2] = l
        BY <4>1
      <4>3. txns[total[k].sell_leg[1]].legs[total[k].sell_leg[2]].account
              = st.lots[total[k].lot].account
        BY <2>2, <2>3, <4>1 DEF FromSales
      <4> QED
        BY <2>2, <4>2, <4>3
    <3>5. ToRealize(txns[i], l) = IF txns[i].type = "trade" /\ txns[i].legs[l].quantity < 0
                                  THEN -txns[i].legs[l].quantity ELSE 0
      BY DEF ToRealize
    <3>6. MapThenSumSet(LAMBDA k : total[k].qty, SoldBy(total, <<i, l>>))
            = IF txns[i].type = "trade" /\ txns[i].legs[l].quantity < 0
              THEN -txns[i].legs[l].quantity ELSE 0
      BY <3>2, <3>3, <3>5, Zenon
    <3> QED
      BY <3>4, <3>6, Zenon
  <2>6. ASSUME NEW c \in ToSet(total)
        PROVE  c.sell_leg[1] \in Active(txns)
    <3>1. PICK k \in DOMAIN total : c = total[k]
      BY DEF ToSet
    <3> QED
      BY <2>2, <2>3, <2>4, <3>1 DEF FromSales
  <2>7. \A i, l : {k \in DOMAIN total : total[k].sell_leg = <<i, l>>} = SoldBy(total, <<i, l>>)
    BY DEF SoldBy
  <2> QED
    BY <2>5, <2>6, Zenon DEF SoldBy
<1>2. LotsInv => SalesRealized
  BY <1>1, Zenon DEF SalesRealized
<1> QED
  BY <1>2, LotsInvariant, PTL

(* The rows of an asset are those that count in its holdings.              *)
LEMMA HoldingIsRelevant ==
    ASSUME NEW rows, NEW s, NEW a, NEW pair, IsPair(pair, a, s)
    PROVE  LegSum(rows, pair, Relevant(rows, s)) = Holding(rows, pair)
<1>1. Relevant(rows, s) \subseteq Active(rows)
  BY DEF Relevant, Active
<1>2. \A i \in Active(rows) : \A l \in DOMAIN rows[i].legs :
        <<rows[i].legs[l].account, rows[i].legs[l].asset>> = pair => i \in Relevant(rows, s)
  BY DEF Relevant, Active, LegsIn, IsPair
<1> DEFINE R == Relevant(rows, s)
           A == Active(rows)
<1>3. /\ \A i \in R : \A l \in DOMAIN rows[i].legs :
           <<rows[i].legs[l].account, rows[i].legs[l].asset>> = pair
               => i \in A /\ rows[i].legs = rows[i].legs
      /\ \A i \in A : \A l \in DOMAIN rows[i].legs :
           <<rows[i].legs[l].account, rows[i].legs[l].asset>> = pair
               => i \in R /\ rows[i].legs = rows[i].legs
  BY <1>1, <1>2
<1> HIDE DEF R, A
<1>4. LegSum(rows, pair, R) = LegSum(rows, pair, A)
  BY <1>3, LegSumDepends
<1> QED
  BY <1>4 DEF R, A, Holding

LEMMA ProjectedReconciles ==
    ASSUME LotsInv, FeeFree, NEW s \in Assets
    PROVE  \E st : /\ Projects(st, s) /\ st.lots \in Seq(LotRow)
                   /\ Reconciled(st, txns, s, Relevant(txns, s))
<1>1. PICK st : Projects(st, s) /\ Exact(st, txns, s) /\ st.lots \in Seq(LotRow)
  BY ProjectedSound DEF LotsInv
<1>2. AllWhole(txns, s)
  BY DEF LotsInv, RowsShaped, AllShaped, AllWhole, Relevant
<1> QED
  BY <1>1, <1>2 DEF Projects, Exact

(* Where no transfer carries a fee, the open lots of every account add up  *)
(* to its holding at all times: lots.remaining_qty and the sum of the legs *)
(* never drift apart, whatever was posted, backdated, reversed or deleted. *)
(* (A fee makes the ratio of a transfer a rounded one: what arrives of its *)
(* lots may then differ from the leg by a few of the smallest units.)      *)
THEOREM LedgerLotsReconcile == ASSUME FeeFree PROVE Spec => []LotsReconcile
<1>1. LotsInv => LotsReconcile
  <2> SUFFICES ASSUME LotsInv, NEW a \in Accounts, NEW s \in Assets
               PROVE  Quantity(lots[s], Open(lots[s], a)) = Holding(txns, <<a, s>>)
    BY DEF LotsReconcile
  <2>1. PICK st : /\ Projects(st, s) /\ st.lots \in Seq(LotRow)
                  /\ Reconciled(st, txns, s, Relevant(txns, s))
    BY ProjectedReconciles
  <2>2. lots[s] = st.lots
    BY <2>1 DEF Projects
  <2>3. Quantity(lots[s], Open(lots[s], a)) = OpenSum(st.lots, a)
    BY <2>1, <2>2, OpenIsHeld
  <2> DEFINE pair == <<a, s>>
  <2>4. OpenSum(st.lots, a) = LegSum(txns, pair, Relevant(txns, s))
    BY <2>1 DEF Reconciled
  <2>5. LegSum(txns, pair, Relevant(txns, s)) = Holding(txns, pair)
    <3>1. IsPair(pair, a, s)
      BY DEF IsPair
    <3> HIDE DEF pair
    <3> QED
      BY <3>1, HoldingIsRelevant
  <2> HIDE DEF pair
  <2>6. Quantity(lots[s], Open(lots[s], a)) = Holding(txns, pair)
    BY <2>3, <2>4, <2>5
  <2> QED
    BY <2>6 DEF pair
<1> QED
  BY <1>1, LotsInvariant, PTL

(* The model's sums of costs, of lots whose cost is known.                 *)
LEMMA AcquiredCostSum ==
    ASSUME NEW held \in Seq(LotRow), \A i \in DOMAIN held : held[i].unit_cost # None,
           NEW rows, NEW K, K = {i \in DOMAIN held : rows[held[i].source_leg[1]].type # "transfer"}
    PROVE  MapThenSumSet(LAMBDA i : held[i].unit_cost * held[i].original_qty, K)
             = SumOver(CostsAcquired(held, rows), DOMAIN held)
<1> DEFINE w == CostsAcquired(held, rows)
           V(f) == [s \in SUBSET K |->
                       IF s = {} THEN 0
                       ELSE held[AnyOf(s)].unit_cost * held[AnyOf(s)].original_qty + f[s \ {AnyOf(s)}]]
           W(f) == SumBody(f, w, K)
<1>1. MapThenSumSet(LAMBDA i : held[i].unit_cost * held[i].original_qty, K) = (CHOOSE f : f = V(f))[K]
  BY Zenon DEF MapThenSumSet, MapThenFoldSet, AnyOf
<1>2. \A i \in K : w[i] = held[i].unit_cost * held[i].original_qty
  BY DEF CostsAcquired, UnitCost, IsAcquired
<1>3. IsFiniteSet(DOMAIN held) /\ K \in SUBSET DOMAIN held /\ \A i \in DOMAIN held : w[i] \in Int
  BY CostTypes
<1>4. \A i \in DOMAIN held \ K : w[i] = 0
  BY DEF CostsAcquired, IsAcquired
<1> HIDE DEF w
<1>5. SumOver(w, K) = (CHOOSE f : f = W(f))[K]
  BY ONLY SumChoice
<1>6. ASSUME NEW f PROVE V(f) = W(f)
  BY <1>2, SumChoice, Zenon DEF SumBody
<1> HIDE DEF V, W
<1>7. MapThenSumSet(LAMBDA i : held[i].unit_cost * held[i].original_qty, K) = SumOver(w, K)
  BY <1>1, <1>5, <1>6, Zenon
<1>8. SumOver(w, DOMAIN held) = SumOver(w, K)
  BY <1>3, <1>4, SumWithoutZeros
<1> QED
  BY <1>7, <1>8 DEF w

LEMMA LeftCostSum ==
    ASSUME NEW held, \A i \in DOMAIN held : held[i].unit_cost # None
    PROVE  MapThenSumSet(LAMBDA i : held[i].unit_cost * held[i].remaining_qty, DOMAIN held)
             = SumOver(CostsLeft(held), DOMAIN held)
<1> DEFINE K == DOMAIN held
           w == CostsLeft(held)
           V(f) == [s \in SUBSET K |->
                       IF s = {} THEN 0
                       ELSE held[AnyOf(s)].unit_cost * held[AnyOf(s)].remaining_qty + f[s \ {AnyOf(s)}]]
           W(f) == SumBody(f, w, K)
<1>1. MapThenSumSet(LAMBDA i : held[i].unit_cost * held[i].remaining_qty, K) = (CHOOSE f : f = V(f))[K]
  BY Zenon DEF MapThenSumSet, MapThenFoldSet, AnyOf
<1>2. SumOver(w, K) = (CHOOSE f : f = W(f))[K]
  BY SumChoice
<1>3. \A i \in K : w[i] = held[i].unit_cost * held[i].remaining_qty
  BY DEF CostsLeft, UnitCost
<1> HIDE DEF w, K
<1>4. ASSUME NEW f PROVE V(f) = W(f)
  BY <1>3, SumChoice, Zenon DEF SumBody
<1> HIDE DEF V, W
<1> QED
  BY <1>1, <1>2, <1>4, Zenon DEF w, K

LEMMA SoldCostSum ==
    ASSUME NEW held, \A i \in DOMAIN held : held[i].unit_cost # None,
           NEW sold, \A k \in DOMAIN sold : sold[k].lot \in DOMAIN held
    PROVE  MapThenSumSet(LAMBDA k : held[sold[k].lot].unit_cost * sold[k].qty, DOMAIN sold)
             = SumOver(CostsSold(held, sold), DOMAIN sold)
<1> DEFINE K == DOMAIN sold
           w == CostsSold(held, sold)
           V(f) == [s \in SUBSET K |->
                       IF s = {} THEN 0
                       ELSE held[sold[AnyOf(s)].lot].unit_cost * sold[AnyOf(s)].qty
                              + f[s \ {AnyOf(s)}]]
           W(f) == SumBody(f, w, K)
<1>1. MapThenSumSet(LAMBDA k : held[sold[k].lot].unit_cost * sold[k].qty, K) = (CHOOSE f : f = V(f))[K]
  BY Zenon DEF MapThenSumSet, MapThenFoldSet, AnyOf
<1>2. SumOver(w, K) = (CHOOSE f : f = W(f))[K]
  BY SumChoice
<1>3. \A k \in K : w[k] = held[sold[k].lot].unit_cost * sold[k].qty
  BY DEF CostsSold, UnitCost
<1> HIDE DEF w, K
<1>4. ASSUME NEW f PROVE V(f) = W(f)
  BY <1>3, SumChoice, Zenon DEF SumBody
<1> HIDE DEF V, W
<1> QED
  BY <1>1, <1>2, <1>4, Zenon DEF w, K

LEMMA ProjectedCosts ==
    ASSUME LotsInv, FeeFree, NEW s \in Assets
    PROVE  \E st : /\ Projects(st, s) /\ st.lots \in Seq(LotRow)
                   /\ Sound(st, txns, s, Relevant(txns, s))
                   /\ Costed(st, txns, Relevant(txns, s))
<1>1. PICK st : /\ Projects(st, s) /\ Exact(st, txns, s) /\ st.lots \in Seq(LotRow)
                /\ Sound(st, txns, s, Relevant(txns, s))
  BY ProjectedSound DEF LotsInv
<1>2. AllWhole(txns, s)
  BY DEF LotsInv, RowsShaped, AllShaped, AllWhole, Relevant
<1> QED
  BY <1>1, <1>2 DEF Projects, Exact

(* Where no transfer carries a fee, what the units acquired cost is at all *)
(* times what the lots left and the units sold cost: no posting, backdated *)
(* row, reversal or deletion gains or loses a cost, and a transfer carries *)
(* it with the lot, whatever the prices were.                              *)
THEOREM LedgerCostConserved == ASSUME FeeFree PROVE Spec => []CostConserved
<1>1. LotsInv => CostConserved
  <2> SUFFICES ASSUME LotsInv, NEW s \in Assets,
                      {i \in Active(txns) : /\ LegsIn(txns[i], s) # {}
                                            /\ txns[i].type \in SingleLegTypes \ Inbound} = {},
                      \A i \in DOMAIN lots[s] : lots[s][i].unit_cost # None
               PROVE  MapThenSumSet(LAMBDA i : lots[s][i].unit_cost * lots[s][i].original_qty,
                                    {i \in DOMAIN lots[s] :
                                        txns[lots[s][i].source_leg[1]].type # "transfer"})
                      = MapThenSumSet(LAMBDA i : lots[s][i].unit_cost * lots[s][i].remaining_qty,
                                      DOMAIN lots[s])
                        + MapThenSumSet(LAMBDA k : lots[s][consumptions[s][k].lot].unit_cost
                                                       * consumptions[s][k].qty,
                                        DOMAIN consumptions[s])
    BY Zenon DEF CostConserved
  <2>1. PICK st : /\ Projects(st, s) /\ st.lots \in Seq(LotRow)
                  /\ Sound(st, txns, s, Relevant(txns, s))
                  /\ Costed(st, txns, Relevant(txns, s))
    BY ProjectedCosts
  <2>2. lots[s] = st.lots /\ consumptions[s] = st.consumptions
    BY <2>1 DEF Projects
  <2>3. Recorded(txns, Relevant(txns, s))
    BY DEF Recorded, Relevant, Active
  <2>4. Conserved(st, txns)
    BY <2>1, <2>3 DEF Costed
  <2> DEFINE held == lots[s]
             sold == consumptions[s]
             acquired == {i \in DOMAIN held : txns[held[i].source_leg[1]].type # "transfer"}
  <2>5. held \in Seq(LotRow) /\ \A k \in DOMAIN sold : sold[k].lot \in DOMAIN held
    BY <2>1, <2>2 DEF Sound, FromSales
  <2>6. \A i \in DOMAIN held : held[i].unit_cost # None
    OBVIOUS
  <2>7. SumOver(CostsAcquired(held, txns), DOMAIN held)
          = SumOver(CostsLeft(held), DOMAIN held) + SumOver(CostsSold(held, sold), DOMAIN sold)
    BY <2>2, <2>4 DEF Conserved
  <2> HIDE DEF held, sold
  <2>8. MapThenSumSet(LAMBDA i : held[i].unit_cost * held[i].original_qty, acquired)
          = SumOver(CostsAcquired(held, txns), DOMAIN held)
    BY <2>5, <2>6, AcquiredCostSum, Zenon
  <2>9. MapThenSumSet(LAMBDA i : held[i].unit_cost * held[i].remaining_qty, DOMAIN held)
          = SumOver(CostsLeft(held), DOMAIN held)
    BY <2>6, LeftCostSum, Zenon
  <2>10. MapThenSumSet(LAMBDA k : held[sold[k].lot].unit_cost * sold[k].qty, DOMAIN sold)
          = SumOver(CostsSold(held, sold), DOMAIN sold)
    BY <2>5, <2>6, SoldCostSum, Zenon
  <2>11. MapThenSumSet(LAMBDA i : held[i].unit_cost * held[i].original_qty, acquired)
          = MapThenSumSet(LAMBDA i : held[i].unit_cost * held[i].remaining_qty, DOMAIN held)
            + MapThenSumSet(LAMBDA k : held[sold[k].lot].unit_cost * sold[k].qty, DOMAIN sold)
    BY <2>7, <2>8, <2>9, <2>10, Zenon
  <2> QED
    BY <2>11, Zenon DEF held, sold
<1> QED
  BY <1>1, LotsInvariant, PTL

-----------------------------------------------------------------------------
(* The book of the rows.  What a row does to a balance is what its legs    *)
(* count for in the holding of the pair.                                   *)
LEMMA QuantitySum ==
    ASSUME NEW legs, NEW own
    PROVE  MapThenSumSet(LAMBDA l : legs[l].quantity, own) = SumOver([l \in own |-> legs[l].quantity], own)
BY DEF SumOver, MapThenSumSet, MapThenFoldSet

LEMMA DeltaSum ==
    ASSUME NEW legs, NEW pair \in Pairs, NEW own,
           own = {l \in DOMAIN legs : <<legs[l].account, legs[l].asset>> = pair}
    PROVE  Delta(legs)[pair] = SumOver([l \in own |-> legs[l].quantity], own)
<1>1. Delta(legs)[pair] = MapThenSumSet(LAMBDA l : legs[l].quantity, own)
  BY DEF Delta
<1>2. MapThenSumSet(LAMBDA l : legs[l].quantity, own) = SumOver([l \in own |-> legs[l].quantity], own)
  BY QuantitySum
<1> QED
  BY <1>1, <1>2

LEMMA DeltaIsLegSum ==
    ASSUME NEW rows, IsRows(rows), NEW pair \in Pairs, NEW id \in DOMAIN rows
    PROVE  /\ Delta(rows[id].legs)[pair] = LegSum(rows, pair, {id})
           /\ LegSum(rows, pair, {id}) \in Int
<1> DEFINE legs == rows[id].legs
           own == {l \in DOMAIN legs : <<legs[l].account, legs[l].asset>> = pair}
           entries == PairLegs(rows, pair, {id})
           f == [l \in own |-> [row |-> id, leg |-> l, quantity |-> legs[l].quantity]]
           u == [l \in own |-> legs[l].quantity]
           w == [e \in entries |-> e.quantity]
<1>1. legs \in Seq(Leg) /\ IsFiniteSet({id}) /\ {id} \in SUBSET DOMAIN rows
      /\ \A i \in {id} : rows[i] \in Transaction
  BY FS_Singleton DEF IsRows, Transaction
<1>2. IsFiniteSet(own) /\ own \subseteq DOMAIN legs
  <2>1. DOMAIN legs = 1..Len(legs) /\ Len(legs) \in Nat
    BY <1>1
  <2>2. IsFiniteSet(DOMAIN legs)
    BY <2>1, FS_Interval
  <2>3. own \subseteq DOMAIN legs
    OBVIOUS
  <2> QED
    BY <2>2, <2>3, FS_Subset
<1>3. IsFiniteSet(entries) /\ \A e \in entries : e.quantity \in Int
  BY <1>1, PairLegsFinite
<1>4. IsNaming(f, own, entries)
  <2>1. \A e : e \in entries <=>
          \E l \in DOMAIN legs : /\ <<legs[l].account, legs[l].asset>> = pair
                                 /\ e = [row |-> id, leg |-> l, quantity |-> legs[l].quantity]
    <3> SUFFICES ASSUME NEW e
                 PROVE  e \in entries <=>
                          \E l \in DOMAIN legs :
                             /\ <<legs[l].account, legs[l].asset>> = pair
                             /\ e = [row |-> id, leg |-> l, quantity |-> legs[l].quantity]
      OBVIOUS
    <3> HIDE DEF entries
    <3>1. e \in entries <=>
            \E i \in {id} : \E l \in DOMAIN rows[i].legs :
              /\ <<rows[i].legs[l].account, rows[i].legs[l].asset>> = pair
              /\ e = [row |-> i, leg |-> l, quantity |-> rows[i].legs[l].quantity]
      BY PairLegsEntry DEF entries
    <3> QED
      BY <3>1
  <2> HIDE DEF entries, legs
  <2>2. \A l \in own : f[l] \in entries
    BY <2>1
  <2>3. \A e \in entries : \E l \in own : f[l] = e
    BY <2>1
  <2>4. \A l, m \in own : f[l] = f[m] => l = m
    OBVIOUS
  <2> QED
    BY <2>2, <2>3, <2>4 DEF IsNaming
<1>5. LegSum(rows, pair, {id}) = SumOver(w, entries)
  BY TotalIsSum DEF LegSum
<1>6. \A e \in entries : w[e] \in Int
  BY <1>3
<1>7. SumOver(w, entries) = SumOver(Renamed(w, f, own), own)
  <2> HIDE DEF w, f, own, entries
  <2> QED
    BY <1>2, <1>4, <1>6, SumRenamed
<1>8. \A l \in own : Renamed(w, f, own)[l] = u[l]
  <2>1. \A l \in own : f[l] \in entries
    BY <1>4 DEF IsNaming
  <2> HIDE DEF entries, legs
  <2> QED
    BY <2>1 DEF Renamed
<1>9. SumOver(Renamed(w, f, own), own) = SumOver(u, own)
  <2> HIDE DEF w, f, u, own
  <2> QED
    BY <1>2, <1>8, SumAgrees
<1>10. Delta(legs)[pair] = SumOver(u, own)
  <2> HIDE DEF legs
  <2> QED
    BY DeltaSum
<1>11. LegSum(rows, pair, {id}) \in Int
  BY <1>1, LegSumIsInt
<1> HIDE DEF own, u, w, f, entries
<1> QED
  BY <1>5, <1>7, <1>9, <1>10, <1>11

EntryOf(rows, i) ==
    [seq |-> i, day |-> rows[i].occurred_at, delta |-> Delta(rows[i].legs)]

Deltas(rows, pair) == [i \in DOMAIN rows |-> Delta(rows[i].legs)[pair]]

LEMMA DeltasAdd ==
    ASSUME NEW rows, IsRows(rows), NEW pair \in Pairs, NEW ids \in SUBSET DOMAIN rows
    PROVE  SumOver(Deltas(rows, pair), ids) = LegSum(rows, pair, ids)
<1> DEFINE w == Deltas(rows, pair)
           Good == {S \in SUBSET ids : SumOver(w, S) = LegSum(rows, pair, S)}
<1>1. IsFiniteSet(ids)
  BY FS_Subset DEF IsRows
<1>2. \A i \in DOMAIN rows : w[i] = LegSum(rows, pair, {i}) /\ w[i] \in Int
  BY DeltaIsLegSum DEF Deltas
<1> HIDE DEF w
<1>3. {} \in Good
  <2>1. LegSum(rows, pair, {}) = 0
    BY LegSumOfNone
  <2> QED
    BY <2>1, SumOfNone
<1>4. ASSUME NEW S \in SUBSET ids, NEW i \in ids, S \in Good, i \notin S
      PROVE  S \cup {i} \in Good
  <2>1. S \in SUBSET DOMAIN rows /\ i \in DOMAIN rows /\ IsFiniteSet(S)
    BY <1>1, FS_Subset
  <2>2. SumOver(w, S \cup {i}) = SumOver(w, S) + w[i]
    BY <1>2, <1>4, <2>1, SumWith
  <2>3. LegSum(rows, pair, S \cup {i}) = LegSum(rows, pair, S) + LegSum(rows, pair, {i})
    BY <1>4, <2>1, LegSumWith
  <2> QED
    BY <1>2, <1>4, <2>1, <2>2, <2>3
<1> HIDE DEF Good
<1>5. ids \in Good
  BY <1>1, <1>3, <1>4, FiniteSetInduction
<1> QED
  BY <1>5 DEF Good, w

LEMMA BalanceIsSum ==
    ASSUME NEW entries, NEW pair
    PROVE  B!Balance(entries, pair) = SumOver([e \in entries |-> e.delta[pair]], entries)
BY DEF B!Balance, B!MapThenSumSet, B!MapThenFoldSet, SumOver, MapThenSumSet, MapThenFoldSet

LEMMA BalanceIsLegSum ==
    ASSUME NEW rows, IsRows(rows), NEW pair \in Pairs, NEW ids \in SUBSET DOMAIN rows,
           NEW entries, entries = {EntryOf(rows, i) : i \in ids}
    PROVE  B!Balance(entries, pair) = LegSum(rows, pair, ids)
<1> DEFINE f == [i \in ids |-> EntryOf(rows, i)]
           w == [e \in entries |-> e.delta[pair]]
<1>1. IsFiniteSet(ids)
  BY FS_Subset DEF IsRows
<1>2. IsNaming(f, ids, entries)
  BY DEF IsNaming, EntryOf
<1>3. ASSUME NEW i \in ids
      PROVE  w[f[i]] = Deltas(rows, pair)[i] /\ w[f[i]] \in Int
  <2>1. f[i] \in entries /\ f[i] = EntryOf(rows, i)
    OBVIOUS
  <2>2. w[f[i]] = EntryOf(rows, i).delta[pair]
    BY <2>1
  <2>3. EntryOf(rows, i).delta = Delta(rows[i].legs)
    BY DEF EntryOf
  <2>4. Delta(rows[i].legs)[pair] \in Int
    <3>1. i \in DOMAIN rows
      OBVIOUS
    <3>2. Delta(rows[i].legs)[pair] = LegSum(rows, pair, {i}) /\ LegSum(rows, pair, {i}) \in Int
      BY <3>1, DeltaIsLegSum
    <3> QED
      BY <3>2
  <2>5. Deltas(rows, pair)[i] = Delta(rows[i].legs)[pair]
    BY DEF Deltas
  <2> HIDE DEF w, f
  <2> QED
    BY <2>2, <2>3, <2>4, <2>5
<1>4. \A e \in entries : w[e] \in Int
  BY <1>2, <1>3 DEF IsNaming
<1>5. B!Balance(entries, pair) = SumOver(w, entries)
  BY BalanceIsSum
<1> HIDE DEF w, f
<1>6. SumOver(w, entries) = SumOver(Renamed(w, f, ids), ids)
  BY <1>1, <1>2, <1>4, SumRenamed
<1>7. \A i \in ids : Renamed(w, f, ids)[i] = Deltas(rows, pair)[i]
  BY <1>3 DEF Renamed
<1>8. SumOver(Renamed(w, f, ids), ids) = SumOver(Deltas(rows, pair), ids)
  BY <1>1, <1>7, SumAgrees
<1> QED
  BY <1>5, <1>6, <1>8, DeltasAdd

LEMMA EntriesUpTo ==
    ASSUME NEW rows, IsRows(rows), NEW i \in Active(rows)
    PROVE  {e \in Entries(rows) : B!NotAfter(e, EntryOf(rows, i))}
             = {EntryOf(rows, j) : j \in ActiveUpTo(rows, i)}
<1>1. Entries(rows) = {EntryOf(rows, j) : j \in Active(rows)}
  BY DEF Entries, EntryOf
<1>2. ASSUME NEW j \in Active(rows)
      PROVE  B!NotAfter(EntryOf(rows, j), EntryOf(rows, i))
                <=> j = i \/ ReplayBefore(rows, j, i)
  <2>1. i \in Nat /\ j \in Nat /\ rows[i] \in Transaction /\ rows[j] \in Transaction
    BY DEF IsRows, Active
  <2>2. rows[i].occurred_at \in Days /\ rows[j].occurred_at \in Days /\ Days \subseteq Int
    BY <2>1, TransactionsAssumption DEF Transaction
  <2>3. rows[i].occurred_at \in Int /\ rows[j].occurred_at \in Int
    BY <2>2
  <2> QED
    BY <2>1, <2>3 DEF B!NotAfter, EntryOf, ReplayBefore
<1> QED
  BY <1>1, <1>2 DEF ActiveUpTo

(* The book of the rows is covered where no account owes at any row.       *)
LEMMA CoveredIsNeverNegative ==
    ASSUME NEW rows, IsRows(rows)
    PROVE  B!Covered(Entries(rows)) <=> NeverNegative(rows)
<1>1. Entries(rows) = {EntryOf(rows, i) : i \in Active(rows)}
  BY DEF Entries, EntryOf
<1>2. ASSUME NEW i \in Active(rows), NEW pair \in Pairs
      PROVE  B!Balance({e \in Entries(rows) : B!NotAfter(e, EntryOf(rows, i))}, pair)
               = LegSum(rows, pair, ActiveUpTo(rows, i))
  <2>1. ActiveUpTo(rows, i) \in SUBSET DOMAIN rows
    BY DEF ActiveUpTo, Active
  <2> QED
    BY <2>1, EntriesUpTo, BalanceIsLegSum
<1>3. B!Covered(Entries(rows))
        <=> \A i \in Active(rows), pair \in Pairs : LegSum(rows, pair, ActiveUpTo(rows, i)) >= 0
  <2>1. B!Covered(Entries(rows))
          <=> \A f \in Entries(rows), pair \in Pairs :
                  B!Balance({e \in Entries(rows) : B!NotAfter(e, f)}, pair) >= 0
    BY DEF B!Covered
  <2> QED
    BY <1>1, <1>2, <2>1
<1>4. NeverNegative(rows)
        <=> \A i \in Active(rows), pair \in Pairs : LegSum(rows, pair, ActiveUpTo(rows, i)) >= 0
  BY DEF NeverNegative, ActiveUpTo, Pairs
<1> QED
  BY <1>3, <1>4

-----------------------------------------------------------------------------
(* The rows and legs that a request proposes: what the replay of an asset  *)
(* reads is changed only where the legs name the asset.                    *)
Proposed(rows, legs) ==
    /\ rows \in Seq(Transaction) /\ AllShaped(rows) /\ legs \in Seq(Leg)
    /\ \A s \in Assets : s \notin AssetsOf(legs) =>
         /\ Relevant(rows, s) = Relevant(txns, s)
         /\ \A i \in Relevant(txns, s) : rows[i] = txns[i]

(* Where no transfer carries a fee, the balance check and the replays      *)
(* together refuse what would leave some account owing at some row, and    *)
(* nothing else (ledger.py: check_pairs and the rebuild after it).         *)
LEMMA RefusedIsUncovered ==
    ASSUME LotsInv, FeeFree, NEW rows, NEW legs, Proposed(rows, legs)
    PROVE  NegativePair(rows, legs) \/ ShortRebuild(rows, legs) <=> ~NeverNegative(rows)
<1>1. rows \in Seq(Transaction) /\ AllShaped(rows) /\ prices \in PriceTables
  BY DEF Proposed, LotsInv, TypeOK
<1>2. IsRows(rows)
  BY <1>1, SeqIsRows
<1>3. \A s : AllWhole(rows, s)
  BY <1>1 DEF AllWhole, AllShaped, Relevant
<1>4. ASSUME NEW s \in Assets
      PROVE  /\ Exact(Rebuild(rows, prices, s), rows, s)
             /\ Rebuild(rows, prices, s).short
                  <=> \E i \in Relevant(rows, s) : Overdrawn(rows, s, UpTo(rows, s, i))
  <2>1. Replayable(rows, prices, s)
    BY <1>1, RowsReplayable
  <2>2. Exact(Rebuild(rows, prices, s), rows, s)
    BY <2>1, ReplayIsExact
  <2> QED
    BY <1>3, <2>2 DEF Exact
<1>5. ASSUME NegativePair(rows, legs)
      PROVE  ~NeverNegative(rows)
  <2>1. PICK pair \in PairsOf(legs) : Owed(rows, pair)
    BY <1>5 DEF NegativePair
  <2>2. pair \in Accounts \X Assets
    <3>1. PICK l \in DOMAIN legs : pair = <<legs[l].account, legs[l].asset>>
      BY DEF PairsOf
    <3>2. legs[l] \in Leg
      BY DEF Proposed
    <3> QED
      BY <3>1, <3>2 DEF Leg
  <2> QED
    BY <1>2, <2>1, <2>2, NeverNegativeHolds
<1>6. ASSUME ShortRebuild(rows, legs)
      PROVE  ~NeverNegative(rows)
  <2>1. PICK s \in AssetsOf(legs) : Rebuild(rows, prices, s).short
    BY <1>6 DEF ShortRebuild
  <2>2. s \in Assets
    <3>1. PICK l \in DOMAIN legs : s = legs[l].asset
      BY DEF AssetsOf
    <3>2. legs[l] \in Leg
      BY DEF Proposed
    <3> QED
      BY <3>1, <3>2 DEF Leg
  <2> QED
    BY <1>2, <1>4, <2>1, <2>2, NeverNegativeRows
<1>7. ASSUME ~NeverNegative(rows)
      PROVE  ShortRebuild(rows, legs)
  <2>1. PICK s \in Assets : \E i \in Relevant(rows, s) : Overdrawn(rows, s, UpTo(rows, s, i))
    BY <1>2, <1>7, NeverNegativeRows
  <2>2. CASE s \in AssetsOf(legs)
    BY <1>4, <2>1, <2>2 DEF ShortRebuild
  <2>3. CASE s \notin AssetsOf(legs)
    <3>1. PICK st : Exact(st, txns, s) /\ ~st.short
      BY DEF LotsInv, ProjectionFresh, Projects
    <3>2. Exact(st, rows, s)
      <4>1. Relevant(rows, s) = Relevant(txns, s) /\ \A j \in Relevant(txns, s) : rows[j] = txns[j]
        BY <2>3 DEF Proposed
      <4> QED
        BY <3>1, <4>1, ExactDepends
    <3> QED
      BY <1>3, <2>1, <3>1, <3>2 DEF Exact
  <2> QED
    BY <2>2, <2>3
<1> QED
  BY <1>5, <1>6, <1>7

LEMMA NewRowProposed ==
    ASSUME LotsInv, NEW row, NewRow(row)
    PROVE  Proposed(Append(txns, row), row.legs)
<1> DEFINE rows == Append(txns, row)
           n == Len(txns) + 1
<1>1. txns \in Seq(Transaction) /\ row \in Transaction /\ row.legs \in Seq(Leg)
  BY DEF LotsInv, TypeOK, NewRow, Transaction
<1>2. rows \in Seq(Transaction) /\ Len(txns) \in Nat /\ DOMAIN txns = 1..Len(txns)
      /\ DOMAIN rows = 1..n
  BY <1>1
<1>3. DOMAIN rows = DOMAIN txns \cup {n} /\ (\A i \in DOMAIN txns : rows[i] = txns[i]) /\ rows[n] = row
  BY <1>1, <1>2
<1> HIDE DEF rows, n
<1>4. AllShaped(rows)
  BY <1>3 DEF AllShaped, NewRow, LotsInv, RowsShaped
<1>5. ASSUME NEW s \in Assets, s \notin AssetsOf(row.legs)
      PROVE  /\ Relevant(rows, s) = Relevant(txns, s)
             /\ \A i \in Relevant(txns, s) : rows[i] = txns[i]
  <2>1. n \notin Relevant(rows, s)
    BY <1>3, <1>5, NotRelevant
  <2>2. \A i \in DOMAIN txns : i \in Relevant(rows, s) <=> i \in Relevant(txns, s)
    BY <1>3 DEF Relevant
  <2>3. Relevant(rows, s) = Relevant(txns, s)
    BY <1>3, <2>1, <2>2 DEF Relevant
  <2> QED
    BY <1>3, <2>3 DEF Relevant
<1> QED
  BY <1>1, <1>2, <1>4, <1>5 DEF Proposed, rows

LEMMA DeletionProposed ==
    ASSUME LotsInv, NEW id \in DOMAIN txns
    PROVE  Proposed([txns EXCEPT ![id].deleted = TRUE], txns[id].legs)
<1> DEFINE rows == [txns EXCEPT ![id].deleted = TRUE]
<1>1. txns \in Seq(Transaction) /\ txns[id] \in Transaction /\ txns[id].legs \in Seq(Leg)
  <2> HIDE DEF rows
  <2>1. txns \in Seq(Transaction)
    BY DEF LotsInv, TypeOK
  <2>2. txns[id] \in Transaction
    BY <2>1
  <2> QED
    BY <2>1, <2>2 DEF Transaction
<1>2. rows \in Seq(Transaction)
  <2>1. [txns[id] EXCEPT !.deleted = TRUE] \in Transaction
    BY <1>1 DEF Transaction
  <2> QED
    BY <1>1, <2>1, ExceptSeq
<1>3. /\ DOMAIN rows = DOMAIN txns /\ rows[id].deleted
      /\ \A i \in DOMAIN txns : i # id => rows[i] = txns[i]
  BY <1>1 DEF Transaction
<1> HIDE DEF rows
<1>4. AllShaped(rows)
  BY <1>3 DEF AllShaped, LotsInv, RowsShaped, Counts
<1>5. ASSUME NEW s \in Assets, s \notin AssetsOf(txns[id].legs)
      PROVE  /\ Relevant(rows, s) = Relevant(txns, s)
             /\ \A i \in Relevant(txns, s) : rows[i] = txns[i]
  <2>1. id \notin Relevant(rows, s)
    BY <1>3 DEF Relevant, Counts
  <2>2. id \notin Relevant(txns, s)
    BY <1>5, NotRelevant
  <2>3. \A i \in DOMAIN txns : i # id => (i \in Relevant(rows, s) <=> i \in Relevant(txns, s))
    BY <1>3 DEF Relevant
  <2>4. Relevant(rows, s) = Relevant(txns, s)
    BY <1>3, <2>1, <2>2, <2>3 DEF Relevant
  <2> QED
    BY <1>3, <2>2, <2>4 DEF Relevant
<1> QED
  BY <1>1, <1>2, <1>4, <1>5 DEF Proposed, rows

LEMMA ProposalsAreProposed ==
    ASSUME LotsInv, NEW p \in Proposals
    PROVE  Proposed(p.rows, p.legs)
<1>1. ASSUME NEW type \in SingleLegTypes \cup MultiLegTypes, NEW day \in Days,
             NEW legs \in Seq(Leg), Shaped(type, legs), FeeFree => Whole(type, legs)
      PROVE  Proposed(Append(txns, Row(type, day, legs)), legs)
  <2> DEFINE row == Row(type, day, legs)
  <2>1. NewRow(row) /\ row.legs = legs
    BY <1>1, RowType DEF NewRow, Row
  <2> HIDE DEF row
  <2>2. Proposed(Append(txns, row), row.legs)
    BY <2>1, NewRowProposed
  <2> QED
    BY <2>1, <2>2 DEF row
<1>2. ASSUME NEW day \in Days, NEW type \in RequestTypes \cap SingleLegTypes, type \notin Inbound,
             NEW a \in Accounts, NEW s \in Assets, NEW q \in Amounts, NEW legs,
             legs = <<[account |-> a, asset |-> s, quantity |-> -q, unit_price |-> None]>>,
             p = [rows |-> Append(txns, Row(type, day, legs)), legs |-> legs]
      PROVE  Proposed(p.rows, p.legs)
  <2>1. SignedAmount(type, q) = -q
    BY <1>2 DEF SignedAmount
  <2>2. legs \in Seq(Leg) /\ Shaped(type, legs) /\ Whole(type, legs)
    BY <1>2, <2>1, SingleLegShape
  <2>3. Proposed(Append(txns, Row(type, day, legs)), legs)
    BY <1>1, <2>2
  <2> QED
    BY <1>2, <2>3
<1>3. ASSUME NEW day \in Days, NEW body \in TwoLegBodies,
             WellFormed("transfer", body.legs, body.fee),
             p = [rows |-> Append(txns, Row("transfer", day, body.legs)), legs |-> body.legs]
      PROVE  Proposed(p.rows, p.legs)
  <2> DEFINE type == "transfer"
  <2>1. type \in MultiLegTypes
    BY DEF MultiLegTypes
  <2>2. p.rows = Append(txns, Row(type, day, body.legs)) /\ p.legs = body.legs
        /\ WellFormed(type, body.legs, body.fee)
    BY <1>3
  <2> HIDE DEF type
  <2>3. body.legs \in Seq(Leg) /\ Shaped(type, body.legs) /\ (FeeFree => Whole(type, body.legs))
    BY <2>1, <2>2, TwoLegShape
  <2>4. Proposed(Append(txns, Row(type, day, body.legs)), body.legs)
    BY <1>1, <2>1, <2>3
  <2> QED
    BY <2>2, <2>4
<1>4. ASSUME NEW i \in Active(txns),
             p = [rows |-> [txns EXCEPT ![i].deleted = TRUE], legs |-> txns[i].legs]
      PROVE  Proposed(p.rows, p.legs)
  <2>1. i \in DOMAIN txns
    BY DEF Active
  <2> QED
    BY <1>4, <2>1, DeletionProposed
<1> QED
  BY <1>2, <1>3, <1>4 DEF Proposals

(* A request is refused for want of balance or of lots when, and only      *)
(* when, the book of the rows it proposes would not be covered.            *)
THEOREM LedgerRefusalsAreExact == ASSUME FeeFree PROVE Spec => []RefusalsAreExact
<1>1. LotsInv => RefusalsAreExact
  <2> SUFFICES ASSUME LotsInv, NEW p \in Proposals
               PROVE  NegativePair(p.rows, p.legs) \/ ShortRebuild(p.rows, p.legs)
                        <=> ~B!Covered(Entries(p.rows))
    BY DEF RefusalsAreExact
  <2>1. Proposed(p.rows, p.legs)
    BY ProposalsAreProposed
  <2>2. IsRows(p.rows)
    BY <2>1, SeqIsRows DEF Proposed
  <2> QED
    BY <2>1, <2>2, RefusedIsUncovered, CoveredIsNeverNegative
<1> QED
  BY <1>1, LotsInvariant, PTL

-----------------------------------------------------------------------------
(* The ledger implements the book.                                         *)
LEMMA ReplayedIsCovered ==
    ASSUME FeeFree, NEW rows \in Seq(Transaction), AllShaped(rows),
           \A s \in Assets : \E st : Exact(st, rows, s) /\ ~st.short
    PROVE  B!Covered(Entries(rows))
<1>1. \A s : AllWhole(rows, s)
  BY DEF AllWhole, AllShaped, Relevant
<1>2. ASSUME NEW s \in Assets, NEW i \in Relevant(rows, s)
      PROVE  ~Overdrawn(rows, s, UpTo(rows, s, i))
  <2>1. PICK st : Exact(st, rows, s) /\ ~st.short
    OBVIOUS
  <2> QED
    BY <1>1, <2>1 DEF Exact
<1> QED
  BY <1>2, SeqIsRows, NeverNegativeRows, CoveredIsNeverNegative

LEMMA EntriesListed ==
    ASSUME NEW rows
    PROVE  Entries(rows) = {EntryOf(rows, i) : i \in Active(rows)}
BY DEF Entries, EntryOf

LEMMA EntryBooked ==
    ASSUME NEW old \in Seq(Transaction), NEW new \in Seq(Transaction), NEW n,
           n = Len(old) + 1, DOMAIN new = DOMAIN old \cup {n}, Counts(new[n]),
           \A i \in DOMAIN old : new[i] = old[i]
    PROVE  \E e \in Entries(new) \ Entries(old) :
              /\ e.seq \in Nat /\ e.day \in Days /\ \A pair \in Pairs : e.delta[pair] \in Int
              /\ \A f \in Entries(old) : f.seq < e.seq
              /\ Entries(new) = Entries(old) \cup {e}
<1> DEFINE e == EntryOf(new, n)
<1>1. DOMAIN old = 1..Len(old) /\ Len(old) \in Nat /\ n \in Nat /\ n \notin DOMAIN old
  OBVIOUS
<1>2. Active(new) = Active(old) \cup {n}
  BY DEF Active
<1>3. \A i \in Active(old) : EntryOf(new, i) = EntryOf(old, i)
  BY DEF Active, EntryOf
<1>4. Entries(new) = Entries(old) \cup {e}
  BY <1>2, <1>3, EntriesListed
<1>5. \A f \in Entries(old) : f.seq \in DOMAIN old
  BY EntriesListed DEF EntryOf, Active
<1>6. e.seq = n /\ e.day = new[n].occurred_at /\ e.delta = Delta(new[n].legs)
  BY DEF EntryOf
<1>7. \A f \in Entries(old) : f.seq < e.seq
  BY <1>1, <1>5, <1>6
<1>8. e.day \in Days
  <2>1. new[n] \in Transaction
    OBVIOUS
  <2> QED
    BY <1>6, <2>1 DEF Transaction
<1>9. \A pair \in Pairs : e.delta[pair] \in Int
  <2>1. n \in DOMAIN new /\ IsRows(new)
    BY SeqIsRows
  <2>2. ASSUME NEW pair \in Pairs
        PROVE  Delta(new[n].legs)[pair] \in Int
    <3>1. /\ Delta(new[n].legs)[pair] = LegSum(new, pair, {n})
          /\ LegSum(new, pair, {n}) \in Int
      BY <2>1, DeltaIsLegSum
    <3> QED
      BY <3>1
  <2> HIDE DEF e
  <2> QED
    BY <1>6, <2>2
<1>10. e \in Entries(new) \ Entries(old)
  BY <1>1, <1>4, <1>5, <1>6
<1> HIDE DEF e
<1> QED
  BY <1>1, <1>4, <1>6, <1>7, <1>8, <1>9, <1>10

LEMMA EntryVoided ==
    ASSUME NEW old, NEW new, NEW id \in Active(old), Active(new) = Active(old) \ {id},
           \A i \in Active(new) : new[i].occurred_at = old[i].occurred_at /\ new[i].legs = old[i].legs
    PROVE  \E e \in Entries(old) : Entries(new) = Entries(old) \ {e}
<1> DEFINE e == EntryOf(old, id)
<1>1. \A i \in Active(new) : EntryOf(new, i) = EntryOf(old, i)
  BY DEF EntryOf
<1>2. \A i \in Active(old) : EntryOf(old, i) = e <=> i = id
  BY DEF EntryOf
<1>3. e \in Entries(old)
  BY EntriesListed
<1>4. Entries(new) = Entries(old) \ {e}
  <2> HIDE DEF e
  <2> QED
    BY <1>1, <1>2, EntriesListed
<1> QED
  BY <1>3, <1>4

LEMMA BookInit == Init => B!Init
<1> SUFFICES ASSUME Init
             PROVE  Entries(txns) = {} /\ response = "ok"
  BY DEF B!Init
<1>1. Active(txns) = {}
  BY DEF Init, Active
<1> QED
  BY <1>1 DEF Entries, Init

(* A commit leaves the book covered, whatever it did to it.                *)
LEMMA BookAccepts ==
    ASSUME FeeFree, LotsInv', response' = "ok",
           \/ Entries(txns') = Entries(txns)
           \/ \E e \in Entries(txns) : Entries(txns') = Entries(txns) \ {e}
           \/ \E e \in Entries(txns') \ Entries(txns) :
                 /\ e.seq \in Nat /\ e.day \in Days /\ \A pair \in Pairs : e.delta[pair] \in Int
                 /\ \A f \in Entries(txns) : f.seq < e.seq
                 /\ Entries(txns') = Entries(txns) \cup {e}
    PROVE  B!Next
<1>1. txns' \in Seq(Transaction) /\ AllShaped(txns')
  BY DEF LotsInv, TypeOK, RowsShaped
<1>2. \A s \in Assets : \E st : Exact(st, txns', s) /\ ~st.short
  BY DEF LotsInv, ProjectionFresh, Projects
<1>3. B!Covered(Entries(txns'))
  BY <1>1, <1>2, ReplayedIsCovered
<1> QED
  BY <1>3 DEF B!Next, B!Accept, B!Enter, B!Void

LEMMA BookStep ==
    ASSUME FeeFree, LotsInv, LotsInv', [Next]_vars
    PROVE  [B!Next]_<<Entries(txns), IF response = "ok" THEN "accepted" ELSE "refused">>
<1>1. CASE UNCHANGED vars
  BY <1>1 DEF vars, tables
<1>2. CASE Refused
  <2>1. txns' = txns /\ response' # "ok"
    BY <1>2 DEF Refused, tables, Refusals
  <2> QED
    BY <2>1 DEF B!Next, B!Refuse
<1>3. ASSUME NEW row, NewRow(row), Created(row)
      PROVE  B!Next
  <2>1. txns \in Seq(Transaction) /\ txns' \in Seq(Transaction) /\ response' = "ok"
    BY <1>3 DEF LotsInv, TypeOK, Created, Committed
  <2> DEFINE n == Len(txns) + 1
  <2>2. DOMAIN txns' = DOMAIN txns \cup {n} /\ txns'[n] = row /\ \A i \in DOMAIN txns : txns'[i] = txns[i]
    <3>1. /\ Len(txns) \in Nat /\ DOMAIN txns = 1..Len(txns) /\ DOMAIN txns' = 1..n
          /\ txns'[n] = row /\ \A i \in DOMAIN txns : txns'[i] = txns[i]
      BY <1>3, CreatedRows DEF LotsInv
    <3> QED
      BY <3>1
  <2>3. Counts(txns'[n])
    BY <1>3, <2>2 DEF NewRow, Counts
  <2> HIDE DEF n
  <2> QED
    BY <2>1, <2>2, <2>3, EntryBooked, BookAccepts DEF n
<1>4. ASSUME NEW id \in DOMAIN txns, ~txns[id].deleted, txns[id].status = "active", Reversed(id)
      PROVE  B!Next
  <2> DEFINE n == Len(txns) + 1
  <2>1. /\ DOMAIN txns' = DOMAIN txns \cup {n}
        /\ \A i \in DOMAIN txns : i # id => txns'[i] = txns[i]
        /\ txns'[n].status = "reversed" /\ txns'[id].status = "reversed"
    <3>1. /\ Len(txns) \in Nat /\ DOMAIN txns = 1..Len(txns) /\ DOMAIN txns' = 1..n
          /\ \A i \in DOMAIN txns : i # id => txns'[i] = txns[i]
          /\ txns'[n].status = "reversed" /\ txns'[id].status = "reversed"
      BY <1>4, ReversedRows DEF LotsInv
    <3> QED
      BY <3>1
  <2> HIDE DEF n
  <2>2. id \in Active(txns) /\ Active(txns') = Active(txns) \ {id}
    BY <1>4, <2>1 DEF Active, Counts
  <2>3. \A i \in Active(txns') : txns'[i] = txns[i]
    BY <2>1, <2>2 DEF Active
  <2>4. \E e \in Entries(txns) : Entries(txns') = Entries(txns) \ {e}
    BY <2>2, <2>3, EntryVoided
  <2>5. response' = "ok"
    BY <1>4 DEF Reversed, Committed
  <2> QED
    BY <2>4, <2>5, BookAccepts
<1>5. ASSUME NEW id \in DOMAIN txns, Deleted(id)
      PROVE  B!Next
  <2>1. /\ DOMAIN txns' = DOMAIN txns /\ txns'[id].deleted
        /\ \A i \in DOMAIN txns : i # id => txns'[i] = txns[i]
    BY <1>5, DeletedRows DEF LotsInv
  <2>2. Active(txns') = Active(txns) \ {id} /\ \A i \in Active(txns') : txns'[i] = txns[i]
    BY <2>1 DEF Active, Counts
  <2>3. response' = "ok"
    BY <1>5 DEF Deleted, Committed
  <2>4. CASE id \in Active(txns)
    <3>1. \E e \in Entries(txns) : Entries(txns') = Entries(txns) \ {e}
      BY <2>2, <2>4, EntryVoided
    <3> QED
      BY <2>3, <3>1, BookAccepts
  <2>5. CASE id \notin Active(txns)
    <3>1. Active(txns') = Active(txns)
      BY <2>2, <2>5
    <3>2. Entries(txns') = Entries(txns)
      BY <2>2, <3>1 DEF Entries
    <3> QED
      BY <2>3, <3>2, BookAccepts
  <2> QED
    BY <2>4, <2>5
<1>6. CASE Closed
  <2>1. Entries(txns') = Entries(txns) /\ response' = "ok"
    BY <1>6 DEF Closed
  <2> QED
    BY <2>1, BookAccepts
<1> QED
  BY <1>1, <1>2, <1>3, <1>4, <1>5, <1>6, NextCases DEF LotsInv

(* Where no transfer carries a fee, the ledger with its lots is the book   *)
(* it promises to be: what it commits keeps every balance covered at every *)
(* entry, and what it refuses changes nothing, however many accounts,      *)
(* assets, days and requests there are.                                    *)
THEOREM LedgerImplementsBook == ASSUME FeeFree PROVE Spec => ImplementsBook
<1>1. LotsInv /\ LotsInv' /\ [Next]_vars
        => [B!Next]_<<Entries(txns), IF response = "ok" THEN "accepted" ELSE "refused">>
  BY BookStep
<1> QED
  BY <1>1, BookInit, LotsInvariant, PTL DEF Spec, ImplementsBook, B!Spec

-----------------------------------------------------------------------------
(* Profit and loss.                                                        *)

(* The amounts of one asset: what its sales brought in, at the prices of   *)
(* the rows, and what its open lots are worth at a market price.           *)
PriceOf(leg) == txns[leg[1]].legs[leg[2]].unit_price

Proceeds(sold) == [k \in DOMAIN sold |-> PriceOf(sold[k].sell_leg) * sold[k].qty]

RealizedOf(sold) == [k \in DOMAIN sold |-> sold[k].realized]

GainsOf(held, market) == [i \in DOMAIN held |-> LotGain(held[i], market)]

OpenOf(held) == {i \in DOMAIN held : held[i].remaining_qty # 0}

LEMMA GainIsDifference ==
    ASSUME NEW market \in Int, NEW cost \in Int, NEW qty \in Int
    PROVE  Pnl(market, cost, qty) = market * qty - cost * qty /\ Pnl(market, cost, qty) \in Int
<1>1. market # None /\ cost # None
  BY NoneAssumption
<1>2. Pnl(market, cost, qty) = (market - cost) * qty
  BY <1>1 DEF Pnl
<1>3. (market - cost) * qty = market * qty - cost * qty
  OBVIOUS
<1>4. (market - cost) * qty \in Int
  OBVIOUS
<1> QED
  BY <1>2, <1>3, <1>4

(* What was realized is what was brought in less what it cost.             *)
LEMMA RealizedSum ==
    ASSUME NEW held \in Seq(LotRow), NEW sold \in Seq(SaleRow),
           \A i \in DOMAIN held : held[i].unit_cost # None,
           \A k \in DOMAIN sold : /\ sold[k].lot \in DOMAIN held
                                  /\ PriceOf(sold[k].sell_leg) \in Nat
                                  /\ sold[k].realized = Pnl(PriceOf(sold[k].sell_leg),
                                                            held[sold[k].lot].unit_cost, sold[k].qty)
    PROVE  /\ \A k \in DOMAIN sold : RealizedOf(sold)[k] \in Int /\ Proceeds(sold)[k] \in Int
           /\ IsFiniteSet(DOMAIN sold)
           /\ SumOver(RealizedOf(sold), DOMAIN sold)
                = SumOver(Proceeds(sold), DOMAIN sold) - SumOver(CostsSold(held, sold), DOMAIN sold)
<1> DEFINE S == DOMAIN sold
           u == Proceeds(sold)
           v == CostsSold(held, sold)
           w == RealizedOf(sold)
<1>1. IsFiniteSet(S)
  BY QuantityTypes
<1>2. ASSUME NEW k \in S
      PROVE  u[k] \in Int /\ v[k] \in Int /\ w[k] \in Int /\ w[k] = u[k] - v[k]
  <2> DEFINE p == PriceOf(sold[k].sell_leg)
             c == held[sold[k].lot].unit_cost
             q == sold[k].qty
  <2>1. p \in Int /\ c \in Int /\ q \in Int
    BY LotFields, QuantityTypes
  <2>2. w[k] = Pnl(p, c, q) /\ u[k] = p * q /\ v[k] = c * q
    BY DEF RealizedOf, Proceeds, CostsSold, UnitCost
  <2> HIDE DEF p, c, q, u, v, w
  <2>3. Pnl(p, c, q) = p * q - c * q /\ Pnl(p, c, q) \in Int
    BY <2>1, GainIsDifference
  <2>4. p * q \in Int /\ c * q \in Int
    BY <2>1
  <2> QED
    BY <2>2, <2>3, <2>4
<1> HIDE DEF S, u, v, w
<1>3. SumOver(w, S) = SumOver(u, S) - SumOver(v, S)
  BY <1>1, <1>2, SumOfDifferences
<1> QED
  BY <1>1, <1>2, <1>3 DEF S, u, v, w

(* What is not realized is what the rest is worth less what it cost.       *)
LEMMA GainsSum ==
    ASSUME NEW held \in Seq(LotRow), \A i \in DOMAIN held : held[i].unit_cost # None,
           NEW market \in Int
    PROVE  /\ IsFiniteSet(OpenOf(held)) /\ \A i \in OpenOf(held) : GainsOf(held, market)[i] \in Int
           /\ SumOver(GainsOf(held, market), OpenOf(held))
                = market * SumOver(Remaining(held), DOMAIN held)
                    - SumOver(CostsLeft(held), DOMAIN held)
<1> DEFINE S == DOMAIN held
           T == OpenOf(held)
           r == Remaining(held)
           u == [i \in S |-> market * r[i]]
           v == CostsLeft(held)
           w == GainsOf(held, market)
<1>1. IsFiniteSet(S) /\ T \in SUBSET S /\ IsFiniteSet(T)
  BY OpenLotsOf, FS_Subset DEF OpenOf
<1>2. ASSUME NEW i \in S
      PROVE  /\ u[i] \in Int /\ v[i] \in Int /\ w[i] \in Int /\ w[i] = u[i] - v[i]
             /\ r[i] \in Int /\ u[i] = market * r[i] /\ (i \notin T => w[i] = 0)
  <2> DEFINE c == held[i].unit_cost
             q == held[i].remaining_qty
  <2>1. c \in Int /\ q \in Int /\ r[i] = q
    BY LotFields
  <2>2. w[i] = Pnl(market, c, q) /\ u[i] = market * q /\ v[i] = c * q
    BY <2>1 DEF GainsOf, LotGain, CostsLeft, UnitCost
  <2>3. i \notin T => q = 0
    BY DEF OpenOf
  <2> HIDE DEF c, q, u, v, w, r, T
  <2>4. Pnl(market, c, q) = market * q - c * q /\ Pnl(market, c, q) \in Int
    BY <2>1, GainIsDifference
  <2>5. market * q \in Int /\ c * q \in Int
    BY <2>1
  <2>6. q = 0 => market * q = 0 /\ c * q = 0
    BY <2>1
  <2> QED
    BY <2>1, <2>2, <2>3, <2>4, <2>5, <2>6
<1> HIDE DEF S, T, u, v, w, r
<1>3. SumOver(w, S) = SumOver(u, S) - SumOver(v, S)
  BY <1>1, <1>2, SumOfDifferences
<1>4. SumOver(u, S) = market * SumOver(r, S)
  BY <1>1, <1>2, SumScaled
<1>5. SumOver(w, S) = SumOver(w, T)
  BY <1>1, <1>2, SumWithoutZeros
<1>6. \A i \in T : w[i] \in Int
  BY <1>1, <1>2
<1>7. SumOver(w, T) = market * SumOver(r, S) - SumOver(v, S)
  BY <1>3, <1>4, <1>5
<1> QED
  BY <1>1, <1>6, <1>7 DEF S, T, u, v, w, r

(* The legs that were sold, and what each of them brought in.              *)
SellingLegs(i) == {l \in DOMAIN txns[i].legs : txns[i].legs[l].quantity < 0}

ActiveTrades == {i \in Active(txns) : txns[i].type = "trade"}

SoldLegs == UNION {{<<i, l>> : l \in SellingLegs(i)} : i \in ActiveTrades}

LegOf(leg) == txns[leg[1]].legs[leg[2]]

SoldLegsOf(s) == {leg \in SoldLegs : LegOf(leg).asset = s}

BroughtIn == [leg \in SoldLegs |-> -LegOf(leg).quantity * LegOf(leg).unit_price]

LEMMA SoldLegTypes ==
    ASSUME TypeOK
    PROVE  /\ IsFiniteSet(SoldLegs)
           /\ \A leg : leg \in SoldLegs <=>
                  \E i \in ActiveTrades : \E l \in SellingLegs(i) : leg = <<i, l>>
           /\ \A leg \in SoldLegs : LegOf(leg) \in Leg /\ LegOf(leg).asset \in Assets
<1>1. IsRows(txns)
  BY SeqIsRows DEF TypeOK
<1>2. IsFiniteSet(ActiveTrades) /\ ActiveTrades \subseteq DOMAIN txns
  <2>1. ActiveTrades \subseteq DOMAIN txns
    BY DEF ActiveTrades, Active
  <2> QED
    BY <1>1, <2>1, FS_Subset DEF IsRows
<1> DEFINE D == [i \in ActiveTrades |-> SellingLegs(i)]
<1>3. ASSUME NEW i \in ActiveTrades
      PROVE  IsFiniteSet(D[i]) /\ \A l \in D[i] : txns[i].legs[l] \in Leg
  <2>1. txns[i].legs \in Seq(Leg)
    BY <1>1, <1>2 DEF IsRows, Transaction
  <2>2. DOMAIN txns[i].legs = 1..Len(txns[i].legs) /\ Len(txns[i].legs) \in Nat
    BY <2>1
  <2>3. IsFiniteSet(DOMAIN txns[i].legs)
    BY <2>2, FS_Interval
  <2>4. SellingLegs(i) \subseteq DOMAIN txns[i].legs
    BY DEF SellingLegs
  <2>5. IsFiniteSet(SellingLegs(i))
    BY <2>3, <2>4, FS_Subset
  <2> QED
    BY <2>1, <2>4, <2>5
<1>4. SoldLegs = Family(ActiveTrades, D)
  BY DEF SoldLegs, Family
<1>5. \A leg : leg \in SoldLegs <=>
          \E i \in ActiveTrades : \E l \in SellingLegs(i) : leg = <<i, l>>
  BY DEF SoldLegs
<1>6. ASSUME NEW leg \in SoldLegs
      PROVE  LegOf(leg) \in Leg /\ LegOf(leg).asset \in Assets
  <2>1. PICK i \in ActiveTrades : \E l \in SellingLegs(i) : leg = <<i, l>>
    BY <1>5
  <2>2. PICK l \in SellingLegs(i) : leg = <<i, l>>
    BY <2>1
  <2>3. txns[i].legs[l] \in Leg
    BY <1>3
  <2>4. LegOf(leg) = txns[i].legs[l]
    BY <2>2 DEF LegOf
  <2> QED
    BY <2>3, <2>4 DEF Leg
<1> HIDE DEF D
<1>7. IsFiniteSet(SoldLegs)
  BY <1>2, <1>3, <1>4, FamilyIsFinite
<1> QED
  BY <1>5, <1>6, <1>7

(* What the projection of an asset says of its sales.                      *)
Booked(s) ==
    LET held == lots[s]
        sold == consumptions[s]
    IN  /\ held \in Seq(LotRow) /\ sold \in Seq(SaleRow)
        /\ \A k \in DOMAIN sold : /\ sold[k].lot \in DOMAIN held
                                  /\ sold[k].sell_leg \in SoldLegsOf(s)
                                  /\ sold[k].realized = Pnl(PriceOf(sold[k].sell_leg),
                                                            held[sold[k].lot].unit_cost, sold[k].qty)
        /\ \A leg \in SoldLegsOf(s) :
               SumOver(Quantities(sold), SoldBy(sold, leg)) = -LegOf(leg).quantity

LEMMA ProjectedSales ==
    ASSUME LotsInv, NEW s \in Assets
    PROVE  Booked(s)
<1>1. PICK st : /\ Projects(st, s) /\ Sound(st, txns, s, Relevant(txns, s))
                /\ st.lots \in Seq(LotRow) /\ st.consumptions \in Seq(SaleRow)
  BY ProjectedSound DEF LotsInv
<1> DEFINE held == lots[s]
           sold == consumptions[s]
<1>2. held = st.lots /\ sold = st.consumptions
  BY <1>1 DEF Projects
<1>3. /\ FromSales(st, txns, s, Relevant(txns, s)) /\ AllRealized(st, txns, s, Relevant(txns, s))
      /\ Priced(st, txns)
  BY <1>1 DEF Sound
<1>4. ASSUME NEW k \in DOMAIN sold
      PROVE  /\ sold[k].lot \in DOMAIN held /\ sold[k].sell_leg \in SoldLegsOf(s)
             /\ sold[k].realized = Pnl(PriceOf(sold[k].sell_leg),
                                       held[sold[k].lot].unit_cost, sold[k].qty)
  <2> DEFINE i == sold[k].sell_leg[1]
             l == sold[k].sell_leg[2]
  <2>1. sold[k] \in SaleRow
    BY <1>1, <1>2
  <2>2. sold[k].sell_leg = <<i, l>>
    BY <2>1 DEF SaleRow
  <2>3. /\ sold[k].lot \in DOMAIN held /\ i \in Relevant(txns, s) /\ txns[i].type = "trade"
        /\ l \in LegsIn(txns[i], s) /\ txns[i].legs[l].quantity < 0
        /\ sold[k].realized = Pnl(txns[i].legs[l].unit_price, held[sold[k].lot].unit_cost, sold[k].qty)
    BY <1>2, <1>3 DEF FromSales, Priced
  <2> HIDE DEF i, l, held, sold
  <2>4. i \in ActiveTrades /\ l \in SellingLegs(i) /\ txns[i].legs[l].asset = s
    BY <2>3 DEF ActiveTrades, Active, Relevant, SellingLegs, LegsIn
  <2>5. <<i, l>> \in SoldLegs
    BY <2>4 DEF SoldLegs
  <2>6. <<i, l>> \in SoldLegsOf(s)
    BY <2>4, <2>5 DEF SoldLegsOf, LegOf
  <2> QED
    BY <2>2, <2>3, <2>6 DEF PriceOf
<1>5. ASSUME NEW leg \in SoldLegsOf(s)
      PROVE  SumOver(Quantities(sold), SoldBy(sold, leg)) = -LegOf(leg).quantity
  <2>1. PICK i \in ActiveTrades : \E l \in SellingLegs(i) : leg = <<i, l>>
    BY DEF SoldLegsOf, SoldLegs
  <2>2. PICK l \in SellingLegs(i) : leg = <<i, l>>
    BY <2>1
  <2>3. LegOf(leg) = txns[i].legs[l] /\ txns[i].legs[l].asset = s
    BY <2>2 DEF LegOf, SoldLegsOf
  <2>4. /\ i \in Relevant(txns, s) /\ l \in LegsIn(txns[i], s) /\ txns[i].type = "trade"
        /\ txns[i].legs[l].quantity < 0
    BY <2>3 DEF ActiveTrades, SellingLegs, Active, Relevant, LegsIn
  <2>5. SumOver(Quantities(sold), SoldBy(sold, <<i, l>>)) = ToRealize(txns[i], l)
    BY <1>2, <1>3, <2>4 DEF AllRealized
  <2> QED
    BY <2>2, <2>3, <2>4, <2>5 DEF ToRealize
<1> QED
  BY <1>1, <1>2, <1>4, <1>5 DEF Booked

(* The sales of a leg bring in its price for each unit of it, whichever    *)
(* lots the units were taken from.                                         *)
LEMMA ProceedsByLeg ==
    ASSUME TypeOK, NEW s \in Assets, Booked(s), \A leg \in SoldLegs : LegOf(leg).unit_price # None
    PROVE  SumOver(Proceeds(consumptions[s]), DOMAIN consumptions[s])
             = SumOver(BroughtIn, SoldLegsOf(s))
<1> DEFINE sold == consumptions[s]
           S == DOMAIN sold
           K == SoldLegsOf(s)
           f == [k \in S |-> sold[k].sell_leg]
           w == Proceeds(sold)
           q == Quantities(sold)
<1>1. /\ sold \in Seq(SaleRow)
      /\ \A k \in S : sold[k].sell_leg \in K
      /\ \A leg \in K : SumOver(q, SoldBy(sold, leg)) = -LegOf(leg).quantity
  BY DEF Booked
<1>2. K \subseteq SoldLegs /\ IsFiniteSet(K)
  BY SoldLegTypes, FS_Subset DEF SoldLegsOf
<1>3. ASSUME NEW leg \in K
      PROVE  LegOf(leg).unit_price \in Nat /\ LegOf(leg).quantity \in Int
  BY <1>2, SoldLegTypes DEF Leg
<1>4. IsFiniteSet(S) /\ \A k \in S : q[k] \in Nat /\ q[k] = sold[k].qty
  BY <1>1, QuantityTypes
<1>5. \A k \in S : f[k] \in K /\ w[k] = LegOf(f[k]).unit_price * q[k]
  BY <1>1, <1>4 DEF Proceeds, PriceOf, LegOf
<1>6. ASSUME NEW k \in S
      PROVE  w[k] \in Int
  <2> DEFINE p == LegOf(f[k]).unit_price
  <2>1. p \in Int /\ q[k] \in Int /\ w[k] = p * q[k]
    BY <1>3, <1>4, <1>5
  <2> HIDE DEF p, w, q
  <2> QED
    BY <2>1
<1>7. ASSUME NEW leg \in K
      PROVE  BroughtIn[leg] = SumOver(w, Fibre(f, S, leg))
  <2> DEFINE F == Fibre(f, S, leg)
             p == LegOf(leg).unit_price
             n == LegOf(leg).quantity
  <2>1. F = SoldBy(sold, leg) /\ F \in SUBSET S /\ \A k \in F : f[k] = leg
    BY DEF Fibre, SoldBy
  <2>2. IsFiniteSet(F) /\ (\A k \in F : q[k] \in Int) /\ p \in Int /\ n \in Int
    BY <1>3, <1>4, <2>1, FS_Subset
  <2>3. \A k \in F : w[k] = p * q[k]
    BY <1>5, <2>1
  <2>4. SumOver(q, F) = -n
    BY <1>1, <2>1
  <2>5. BroughtIn[leg] = -(n * p)
    <3>1. leg \in SoldLegs
      BY <1>2
    <3> HIDE DEF K
    <3> QED
      BY <3>1, Zenon DEF BroughtIn
  <2> HIDE DEF F, p, n, w, q, K, S, f
  <2>6. SumOver(w, F) = p * SumOver(q, F)
    BY <2>2, <2>3, SumScaled
  <2>7. p * (-n) = -(n * p)
    BY <2>2
  <2> QED
    BY <2>4, <2>5, <2>6, <2>7 DEF F
<1> HIDE DEF S, K, f, w, q
<1>8. SumOver(w, S) = SumOver(BroughtIn, K)
  BY <1>2, <1>4, <1>5, <1>6, <1>7, SumByFibres
<1> QED
  BY <1>8 DEF S, K, w

(* All that is open of an asset, account by account.                       *)
LEMMA OpenByAccount ==
    ASSUME LotsInv, FeeFree, NEW s \in Assets, IsFiniteSet(Accounts),
           NEW g, \A a \in Accounts : g[a] = Holding(txns, <<a, s>>)
    PROVE  /\ SumOver(Remaining(lots[s]), DOMAIN lots[s]) = SumOver(g, Accounts)
           /\ \A a \in Accounts : g[a] \in Int
<1>1. PICK st : /\ Projects(st, s) /\ st.lots \in Seq(LotRow)
                /\ Reconciled(st, txns, s, Relevant(txns, s))
  BY ProjectedReconciles
<1> DEFINE held == lots[s]
           S == DOMAIN held
           f == [i \in S |-> held[i].account]
           w == Remaining(held)
<1>2. held = st.lots /\ held \in Seq(LotRow)
  BY <1>1 DEF Projects
<1>3. IsFiniteSet(S) /\ \A i \in S : w[i] \in Int /\ f[i] \in Accounts
  <2>1. IsFiniteSet(S)
    BY <1>2, OpenLotsOf
  <2>2. \A i \in S : w[i] = held[i].remaining_qty /\ w[i] \in Nat /\ held[i].account \in Accounts
    <3> HIDE DEF held
    <3> QED
      BY <1>2, LotFields
  <2> QED
    BY <2>1, <2>2
<1>4. ASSUME NEW a \in Accounts
      PROVE  g[a] = SumOver(w, Fibre(f, S, a))
  <2> DEFINE pair == <<a, s>>
  <2>1. LegSum(txns, pair, Relevant(txns, s)) = Holding(txns, pair)
    <3>1. IsPair(pair, a, s)
      BY DEF IsPair
    <3> HIDE DEF pair
    <3> QED
      BY <3>1, HoldingIsRelevant
  <2>2. OpenSum(held, a) = LegSum(txns, pair, Relevant(txns, s))
    BY <1>1, <1>2 DEF Reconciled
  <2>3. Fibre(f, S, a) = HeldIn(held, a)
    BY DEF Fibre, HeldIn
  <2> QED
    BY <2>1, <2>2, <2>3 DEF OpenSum
<1> HIDE DEF S, f, w
<1>5. SumOver(w, S) = SumOver(g, Accounts) /\ \A a \in Accounts : g[a] \in Int
  BY <1>3, <1>4, SumByFibres
<1> QED
  BY <1>5 DEF S, w

(* Every inflow was recorded, and every outflow is a sale or carried.      *)
NothingPaidOut == \A i \in Active(txns) : txns[i].type \notin SingleLegTypes \ Inbound

PricesKnown == \A leg \in SoldLegs : LegOf(leg).unit_price # None

CostsKnown(s) == \A i \in DOMAIN lots[s] : lots[s][i].unit_cost # None

LEMMA AcquiredKnown ==
    ASSUME LotsInv, NEW s \in Assets,
           \A i \in DOMAIN lots[s] : IsAcquired(txns, lots[s][i]) => lots[s][i].unit_cost # None
    PROVE  CostsKnown(s)
<1>1. PICK st : Projects(st, s) /\ Sound(st, txns, s, Relevant(txns, s))
  BY ProjectedSound DEF LotsInv
<1>2. lots[s] = st.lots /\ Priced(st, txns)
  BY <1>1 DEF Projects, Sound
<1> QED
  BY <1>2 DEF Priced, CostsKnown

(* One asset: what was and is gained is what came in and is held, less     *)
(* what was paid.                                                          *)
LEMMA AssetGains ==
    ASSUME LotsInv, FeeFree, NEW s \in Assets, IsFiniteSet(Accounts),
           NothingPaidOut, PricesKnown, CostsKnown(s), NEW market \in Int,
           NEW g, \A a \in Accounts : g[a] = Holding(txns, <<a, s>>)
    PROVE  LET held == lots[s]
               sold == consumptions[s]
           IN  /\ \A k \in DOMAIN sold : RealizedOf(sold)[k] \in Int
               /\ IsFiniteSet(DOMAIN sold)
               /\ IsFiniteSet(OpenOf(held)) /\ \A i \in OpenOf(held) : GainsOf(held, market)[i] \in Int
               /\ SumOver(RealizedOf(sold), DOMAIN sold) + SumOver(GainsOf(held, market), OpenOf(held))
                    = SumOver(BroughtIn, SoldLegsOf(s)) + market * SumOver(g, Accounts)
                        - SumOver(CostsAcquired(held, txns), DOMAIN held)
<1> DEFINE held == lots[s]
           sold == consumptions[s]
<1>1. Booked(s) /\ TypeOK
  BY ProjectedSales DEF LotsInv
<1>2. /\ held \in Seq(LotRow) /\ sold \in Seq(SaleRow)
      /\ \A i \in DOMAIN held : held[i].unit_cost # None
      /\ \A k \in DOMAIN sold : /\ sold[k].lot \in DOMAIN held
                                /\ sold[k].sell_leg \in SoldLegsOf(s)
                                /\ sold[k].realized = Pnl(PriceOf(sold[k].sell_leg),
                                                          held[sold[k].lot].unit_cost, sold[k].qty)
  BY <1>1 DEF Booked, CostsKnown
<1>3. \A leg \in SoldLegsOf(s) : PriceOf(leg) \in Nat
  <2> SUFFICES ASSUME NEW leg \in SoldLegsOf(s)
               PROVE  PriceOf(leg) \in Nat
    OBVIOUS
  <2>1. LegOf(leg) \in Leg /\ LegOf(leg).unit_price # None
    BY <1>1, SoldLegTypes DEF SoldLegsOf, PricesKnown
  <2> QED
    BY <2>1 DEF Leg, PriceOf, LegOf
<1>4. SumOver(Proceeds(sold), DOMAIN sold) = SumOver(BroughtIn, SoldLegsOf(s))
  BY <1>1, ProceedsByLeg DEF PricesKnown
<1>5. SumOver(Remaining(held), DOMAIN held) = SumOver(g, Accounts)
  BY OpenByAccount
<1>6. SumOver(CostsAcquired(held, txns), DOMAIN held)
        = SumOver(CostsLeft(held), DOMAIN held) + SumOver(CostsSold(held, sold), DOMAIN sold)
  <2>1. PICK st : /\ Projects(st, s) /\ st.lots \in Seq(LotRow)
                  /\ Costed(st, txns, Relevant(txns, s))
    BY ProjectedCosts
  <2>2. Recorded(txns, Relevant(txns, s))
    BY DEF Recorded, NothingPaidOut, Relevant, Active
  <2> QED
    BY <2>1, <2>2 DEF Costed, Conserved, Projects
<1> HIDE DEF held, sold
<1>7. /\ \A k \in DOMAIN sold : RealizedOf(sold)[k] \in Int /\ Proceeds(sold)[k] \in Int
      /\ IsFiniteSet(DOMAIN sold)
      /\ SumOver(RealizedOf(sold), DOMAIN sold)
           = SumOver(Proceeds(sold), DOMAIN sold) - SumOver(CostsSold(held, sold), DOMAIN sold)
  BY <1>2, <1>3, RealizedSum
<1>8. /\ IsFiniteSet(OpenOf(held)) /\ \A i \in OpenOf(held) : GainsOf(held, market)[i] \in Int
      /\ SumOver(GainsOf(held, market), OpenOf(held))
           = market * SumOver(Remaining(held), DOMAIN held) - SumOver(CostsLeft(held), DOMAIN held)
  BY <1>2, GainsSum
<1>9. SumOver(CostsLeft(held), DOMAIN held) \in Int /\ SumOver(CostsSold(held, sold), DOMAIN sold) \in Int
  BY <1>2, CostTypes, SaleCostTypes
<1>10. SumOver(Proceeds(sold), DOMAIN sold) \in Int /\ SumOver(Remaining(held), DOMAIN held) \in Int
  <2>1. SumOver(Proceeds(sold), DOMAIN sold) \in Int
    BY <1>7, SumIsInt
  <2>2. IsFiniteSet(DOMAIN held)
    BY <1>2, OpenLotsOf
  <2>3. \A i \in DOMAIN held : Remaining(held)[i] \in Int
    BY <1>2, LotFields
  <2> QED
    BY <2>1, <2>2, <2>3, SumIsInt
<1> DEFINE p == SumOver(Proceeds(sold), DOMAIN sold)
           c == SumOver(CostsSold(held, sold), DOMAIN sold)
           l == SumOver(CostsLeft(held), DOMAIN held)
           r == SumOver(Remaining(held), DOMAIN held)
           x == market * r
<1>11. p \in Int /\ c \in Int /\ l \in Int /\ x \in Int
  BY <1>9, <1>10
<1>12. /\ SumOver(RealizedOf(sold), DOMAIN sold) = p - c
       /\ SumOver(GainsOf(held, market), OpenOf(held)) = x - l
       /\ SumOver(BroughtIn, SoldLegsOf(s)) = p
       /\ market * SumOver(g, Accounts) = x
       /\ SumOver(CostsAcquired(held, txns), DOMAIN held) = l + c
  BY <1>4, <1>5, <1>6, <1>7, <1>8
<1> HIDE DEF p, c, l, x, r
<1>13. SumOver(RealizedOf(sold), DOMAIN sold) + SumOver(GainsOf(held, market), OpenOf(held))
         = SumOver(BroughtIn, SoldLegsOf(s)) + market * SumOver(g, Accounts)
             - SumOver(CostsAcquired(held, txns), DOMAIN held)
  BY ONLY <1>11, <1>12
<1> QED
  BY <1>7, <1>8, <1>13 DEF held, sold

(* The assets together.                                                    *)
Consumed == UNION {{<<s, k>> : k \in DOMAIN consumptions[s]} : s \in Assets}

RealizedAmounts == [k \in Consumed |-> consumptions[k[1]][k[2]].realized]

AcquiredLots == UNION {{<<s, i>> : i \in {j \in DOMAIN lots[s] :
                                             txns[lots[s][j].source_leg[1]].type # "transfer"}} :
                          s \in Assets}

PaidFor == [k \in AcquiredLots |-> LotOf(k).original_qty * LotOf(k).unit_cost]

WorthOf == [pair \in Accounts \X Assets |-> Holding(txns, pair) * MarketUnit(pair[2], Now)]

LEMMA RealizedByAsset ==
    ASSUME IsFiniteSet(Assets),
           \A s \in Assets : /\ IsFiniteSet(DOMAIN consumptions[s])
                             /\ \A k \in DOMAIN consumptions[s] : RealizedOf(consumptions[s])[k] \in Int,
           NEW g, \A s \in Assets : g[s] = SumOver(RealizedOf(consumptions[s]), DOMAIN consumptions[s])
    PROVE  /\ IsFiniteSet(Consumed) /\ \A k \in Consumed : RealizedAmounts[k] \in Int
           /\ SumOver(RealizedAmounts, Consumed) = SumOver(g, Assets)
           /\ \A s \in Assets : g[s] \in Int
<1> DEFINE D == [s \in Assets |-> DOMAIN consumptions[s]]
           v == [s \in Assets |-> RealizedOf(consumptions[s])]
           w == RealizedAmounts
<1>1. Consumed = Family(Assets, D)
  BY DEF Consumed, Family
<1>2. \A k : k \in Consumed <=> \E s \in Assets : \E j \in D[s] : k = <<s, j>>
  BY DEF Consumed
<1>3. \A s \in Assets : \A k \in D[s] : /\ w[<<s, k>>] = consumptions[s][k].realized
                                        /\ v[s][k] = consumptions[s][k].realized
                                        /\ v[s][k] \in Int
  <2> SUFFICES ASSUME NEW s \in Assets, NEW k \in D[s]
               PROVE  /\ w[<<s, k>>] = consumptions[s][k].realized
                      /\ v[s][k] = consumptions[s][k].realized
                      /\ v[s][k] \in Int
    OBVIOUS
  <2>1. <<s, k>> \in Consumed
    BY <1>2
  <2>2. w[<<s, k>>] = consumptions[<<s, k>>[1]][<<s, k>>[2]].realized
    BY <2>1 DEF RealizedAmounts
  <2>3. w[<<s, k>>] = consumptions[s][k].realized
    BY <2>2
  <2>4. v[s][k] = consumptions[s][k].realized
    BY DEF RealizedOf
  <2> QED
    BY <2>3, <2>4
<1>4. \A k \in Consumed : w[k] \in Int
  BY <1>2, <1>3
<1>5. \A s \in Assets : IsFiniteSet(D[s]) /\ g[s] = SumOver(v[s], D[s])
  OBVIOUS
<1> HIDE DEF D, v, w
<1>6. /\ IsFiniteSet(Family(Assets, D)) /\ SumOver(w, Family(Assets, D)) = SumOver(g, Assets)
      /\ \A s \in Assets : g[s] \in Int
  <2>1. \A s \in Assets : IsFiniteSet(D[s])
    BY <1>5
  <2>2. \A s \in Assets : g[s] = SumOver(v[s], D[s])
    BY <1>5
  <2>3. \A s \in Assets : \A k \in D[s] : w[<<s, k>>] \in Int
    BY <1>3
  <2>4. \A s \in Assets : \A k \in D[s] : v[s][k] = w[<<s, k>>]
    BY <1>3
  <2> QED
    BY ONLY IsFiniteSet(Assets), <2>1, <2>2, <2>3, <2>4, SumOfFamily
<1> QED
  BY <1>1, <1>4, <1>6 DEF w

LEMMA UnrealizedByAsset ==
    ASSUME IsFiniteSet(Assets), NEW at,
           \A s \in Assets : /\ IsFiniteSet(OpenOf(lots[s]))
                             /\ \A i \in OpenOf(lots[s]) :
                                    GainsOf(lots[s], MarketUnit(s, at))[i] \in Int,
           NEW g, \A s \in Assets : g[s] = SumOver(GainsOf(lots[s], MarketUnit(s, at)), OpenOf(lots[s]))
    PROVE  /\ IsFiniteSet(OpenLots) /\ \A k \in OpenLots : Unrealized(at)[k] \in Int
           /\ SumOver(Unrealized(at), OpenLots) = SumOver(g, Assets)
           /\ \A s \in Assets : g[s] \in Int
<1> DEFINE D == [s \in Assets |-> OpenOf(lots[s])]
           v == [s \in Assets |-> GainsOf(lots[s], MarketUnit(s, at))]
           w == Unrealized(at)
<1>1. OpenLots = Family(Assets, D)
  BY DEF OpenLots, OpenOf, Family
<1>2. \A k : k \in OpenLots <=> \E s \in Assets : \E j \in D[s] : k = <<s, j>>
  BY DEF OpenLots, OpenOf
<1>3. ASSUME NEW s \in Assets, NEW k \in D[s]
      PROVE  w[<<s, k>>] = v[s][k] /\ v[s][k] \in Int
  <2>1. <<s, k>> \in OpenLots /\ k \in DOMAIN lots[s]
    BY <1>2 DEF OpenOf
  <2>2. w[<<s, k>>] = LotGain(LotOf(<<s, k>>), MarketUnit(s, at))
    BY <2>1 DEF Unrealized
  <2>3. LotOf(<<s, k>>) = lots[s][k]
    BY DEF LotOf
  <2>4. v[s][k] = LotGain(lots[s][k], MarketUnit(s, at))
    BY <2>1 DEF GainsOf
  <2> QED
    BY <2>2, <2>3, <2>4
<1>4. \A k \in OpenLots : w[k] \in Int
  BY <1>2, <1>3
<1>5. \A s \in Assets : IsFiniteSet(D[s]) /\ g[s] = SumOver(v[s], D[s])
  OBVIOUS
<1> HIDE DEF D, v, w
<1>6. /\ IsFiniteSet(Family(Assets, D)) /\ SumOver(w, Family(Assets, D)) = SumOver(g, Assets)
      /\ \A s \in Assets : g[s] \in Int
  <2>1. \A s \in Assets : IsFiniteSet(D[s])
    BY <1>5
  <2>2. \A s \in Assets : g[s] = SumOver(v[s], D[s])
    BY <1>5
  <2>3. \A s \in Assets : \A k \in D[s] : w[<<s, k>>] \in Int
    BY <1>3
  <2>4. \A s \in Assets : \A k \in D[s] : v[s][k] = w[<<s, k>>]
    BY <1>3
  <2> QED
    BY ONLY IsFiniteSet(Assets), <2>1, <2>2, <2>3, <2>4, SumOfFamily
<1> QED
  BY <1>1, <1>4, <1>6 DEF w

LEMMA IncomeByAsset ==
    ASSUME TypeOK, IsFiniteSet(Assets), PricesKnown,
           NEW g, \A s \in Assets : g[s] = SumOver(BroughtIn, SoldLegsOf(s))
    PROVE  /\ SumOver(BroughtIn, SoldLegs) = SumOver(g, Assets)
           /\ \A s \in Assets : g[s] \in Int
<1> DEFINE f == [leg \in SoldLegs |-> LegOf(leg).asset]
           w == BroughtIn
<1>1. IsFiniteSet(SoldLegs) /\ \A leg \in SoldLegs : f[leg] \in Assets /\ LegOf(leg) \in Leg
  BY SoldLegTypes
<1>2. ASSUME NEW leg \in SoldLegs
      PROVE  w[leg] \in Int
  <2> DEFINE q == LegOf(leg).quantity
             p == LegOf(leg).unit_price
  <2>1. q \in Int /\ p \in Int
    BY <1>1 DEF Leg, PricesKnown
  <2>2. w[leg] = -(q * p)
    BY Zenon DEF BroughtIn
  <2> HIDE DEF q, p, w
  <2> QED
    BY <2>1, <2>2
<1>3. \A s \in Assets : Fibre(f, SoldLegs, s) = SoldLegsOf(s)
  BY DEF Fibre, SoldLegsOf
<1>4. \A s \in Assets : g[s] = SumOver(w, Fibre(f, SoldLegs, s))
  BY <1>3
<1> HIDE DEF f, w
<1>5. SumOver(w, SoldLegs) = SumOver(g, Assets) /\ \A s \in Assets : g[s] \in Int
  BY <1>1, <1>2, <1>4, SumByFibres
<1> QED
  BY <1>5 DEF w

LEMMA WorthByAsset ==
    ASSUME IsFiniteSet(Assets), IsFiniteSet(Accounts),
           NEW held, \A s \in Assets, a \in Accounts :
                         held[s][a] = Holding(txns, <<a, s>>) /\ held[s][a] \in Int,
           NEW market, \A s \in Assets : market[s] = MarketUnit(s, Now) /\ market[s] \in Int,
           NEW g, \A s \in Assets : g[s] = market[s] * SumOver(held[s], Accounts)
    PROVE  /\ SumOver(WorthOf, Accounts \X Assets) = SumOver(g, Assets)
           /\ \A s \in Assets : g[s] \in Int
<1> DEFINE P == Accounts \X Assets
           f == [pair \in P |-> pair[2]]
           w == WorthOf
<1>1. IsFiniteSet(P)
  BY FS_Product
<1>2. ASSUME NEW s \in Assets, NEW a \in Accounts
      PROVE  /\ <<a, s>> \in P /\ f[<<a, s>>] = s
             /\ w[<<a, s>>] = market[s] * held[s][a] /\ w[<<a, s>>] \in Int
  <2>1. w[<<a, s>>] = held[s][a] * market[s]
    BY DEF WorthOf
  <2> DEFINE x == held[s][a]
             y == market[s]
  <2>2. x \in Int /\ y \in Int
    OBVIOUS
  <2>3. w[<<a, s>>] = x * y
    BY <2>1
  <2>4. <<a, s>> \in P /\ f[<<a, s>>] = s
    OBVIOUS
  <2> HIDE DEF x, y, w
  <2>5. x * y = y * x /\ x * y \in Int
    BY <2>2
  <2> QED
    BY <2>3, <2>4, <2>5 DEF x, y
<1>3. \A pair \in P : \E a \in Accounts, s \in Assets : pair = <<a, s>>
  OBVIOUS
<1>4. \A pair \in P : w[pair] \in Int /\ f[pair] \in Assets
  <2> SUFFICES ASSUME NEW pair \in P
               PROVE  w[pair] \in Int /\ f[pair] \in Assets
    OBVIOUS
  <2>1. PICK a \in Accounts : \E s \in Assets : pair = <<a, s>>
    BY <1>3
  <2>2. PICK s \in Assets : pair = <<a, s>>
    BY <2>1
  <2> HIDE DEF P, f, w
  <2> QED
    BY <1>2, <2>2
<1>5. ASSUME NEW s \in Assets
      PROVE  g[s] = SumOver(w, Fibre(f, P, s))
  <2> DEFINE F == Fibre(f, P, s)
             h == [a \in Accounts |-> <<a, s>>]
             u == Renamed(w, h, Accounts)
             q == held[s]
             m == market[s]
  <2>1. \A pair : pair \in F <=> \E a \in Accounts : pair = <<a, s>>
    BY DEF Fibre
  <2>2. IsNaming(h, Accounts, F)
    BY <2>1 DEF IsNaming
  <2>3. (\A pair \in F : w[pair] \in Int) /\ m \in Int /\ \A a \in Accounts : q[a] \in Int
    BY <1>4 DEF Fibre
  <2>4. \A a \in Accounts : u[a] = m * q[a]
    BY <1>2 DEF Renamed
  <2> HIDE DEF F, h, q, m, P, f, w
  <2>5. SumOver(w, F) = SumOver(u, Accounts)
    BY <2>2, <2>3, SumRenamed
  <2> HIDE DEF u
  <2>6. SumOver(u, Accounts) = m * SumOver(q, Accounts)
    BY <2>3, <2>4, SumScaled
  <2> QED
    BY <2>5, <2>6 DEF F, m, q
<1> HIDE DEF P, f, w
<1>6. SumOver(w, P) = SumOver(g, Assets) /\ \A s \in Assets : g[s] \in Int
  BY <1>1, <1>4, <1>5, SumByFibres
<1> QED
  BY <1>6 DEF P, w

LEMMA PaidByAsset ==
    ASSUME IsFiniteSet(Assets), \A s \in Assets : lots[s] \in Seq(LotRow) /\ CostsKnown(s),
           NEW g, \A s \in Assets : g[s] = SumOver(CostsAcquired(lots[s], txns), DOMAIN lots[s])
    PROVE  /\ IsFiniteSet(AcquiredLots)
           /\ SumOver(PaidFor, AcquiredLots) = SumOver(g, Assets)
           /\ \A s \in Assets : g[s] \in Int
<1> DEFINE D == [s \in Assets |-> {j \in DOMAIN lots[s] :
                                      txns[lots[s][j].source_leg[1]].type # "transfer"}]
           v == [s \in Assets |-> CostsAcquired(lots[s], txns)]
           w == PaidFor
<1>1. AcquiredLots = Family(Assets, D)
  BY DEF AcquiredLots, Family
<1>2. \A k : k \in AcquiredLots <=> \E s \in Assets : \E j \in D[s] : k = <<s, j>>
  BY DEF AcquiredLots
<1>3. ASSUME NEW s \in Assets
      PROVE  /\ IsFiniteSet(D[s]) /\ g[s] = SumOver(v[s], D[s])
             /\ \A k \in D[s] : v[s][k] \in Int
  <2> DEFINE held == lots[s]
             K == D[s]
             u == v[s]
  <2>1. held \in Seq(LotRow)
    OBVIOUS
  <2>2. /\ IsFiniteSet(DOMAIN held) /\ \A i \in DOMAIN held : CostsAcquired(held, txns)[i] \in Int
    <3> HIDE DEF held
    <3> QED
      BY <2>1, CostTypes
  <2>3. u = CostsAcquired(held, txns) /\ K \in SUBSET DOMAIN held
    OBVIOUS
  <2>4. \A i \in DOMAIN held \ K : u[i] = 0
    BY <2>3 DEF CostsAcquired, IsAcquired
  <2>5. g[s] = SumOver(u, DOMAIN held)
    BY <2>3
  <2> HIDE DEF held, K, u
  <2>6. IsFiniteSet(K) /\ \A i \in K : u[i] \in Int
    BY <2>2, <2>3, FS_Subset
  <2>7. SumOver(u, DOMAIN held) = SumOver(u, K)
    BY <2>2, <2>3, <2>4, <2>6, SumWithoutZeros
  <2> QED
    BY <2>5, <2>6, <2>7 DEF K, u
<1>4. ASSUME NEW s \in Assets, NEW k \in D[s]
      PROVE  w[<<s, k>>] = v[s][k]
  <2> DEFINE lot == lots[s][k]
             c == lot.unit_cost
             q == lot.original_qty
  <2>1. <<s, k>> \in AcquiredLots /\ LotOf(<<s, k>>) = lot /\ k \in DOMAIN lots[s] /\ IsAcquired(txns, lot)
    BY <1>2 DEF LotOf, IsAcquired
  <2>2. w[<<s, k>>] = q * c
    BY <2>1 DEF PaidFor
  <2>3. c # None /\ c \in Int /\ q \in Int
    <3>1. c # None /\ lots[s] \in Seq(LotRow)
      BY <2>1 DEF CostsKnown
    <3> QED
      BY <2>1, <3>1, LotFields
  <2>4. v[s][k] = c * q
    BY <2>1, <2>3 DEF CostsAcquired, UnitCost
  <2> HIDE DEF c, q, w, v
  <2>5. q * c = c * q
    BY <2>3
  <2> QED
    BY <2>2, <2>4, <2>5
<1> HIDE DEF D, v, w
<1>5. \A s \in Assets : \A k \in D[s] : w[<<s, k>>] \in Int /\ v[s][k] = w[<<s, k>>]
  BY <1>3, <1>4
<1>6. /\ IsFiniteSet(Family(Assets, D)) /\ SumOver(w, Family(Assets, D)) = SumOver(g, Assets)
      /\ \A s \in Assets : g[s] \in Int
  <2>1. \A s \in Assets : IsFiniteSet(D[s])
    BY <1>3
  <2>2. \A s \in Assets : g[s] = SumOver(v[s], D[s])
    BY <1>3
  <2>3. \A s \in Assets : \A k \in D[s] : w[<<s, k>>] \in Int
    BY <1>5
  <2>4. \A s \in Assets : \A k \in D[s] : v[s][k] = w[<<s, k>>]
    BY <1>5
  <2> QED
    BY ONLY IsFiniteSet(Assets), <2>1, <2>2, <2>3, <2>4, SumOfFamily
<1> QED
  BY <1>1, <1>6 DEF w

(* All that is gained, of all assets.                                      *)
LEMMA AllGains ==
    ASSUME LotsInv, FeeFree, NothingPaidOut, PricesKnown, \A s \in Assets : CostsKnown(s),
           NEW market, \A s \in Assets : market[s] = MarketUnit(s, Now) /\ market[s] \in Int
    PROVE  /\ IsFiniteSet(Consumed) /\ \A k \in Consumed : RealizedAmounts[k] \in Int
           /\ IsFiniteSet(OpenLots) /\ \A k \in OpenLots : Unrealized(Now)[k] \in Int
           /\ SumOver(RealizedAmounts, Consumed) + SumOver(Unrealized(Now), OpenLots)
                = SumOver(BroughtIn, SoldLegs) + SumOver(WorthOf, Accounts \X Assets)
                    - SumOver(PaidFor, AcquiredLots)
<1> DEFINE held == [s \in Assets |-> [a \in Accounts |-> Holding(txns, <<a, s>>)]]
           gr == [s \in Assets |-> SumOver(RealizedOf(consumptions[s]), DOMAIN consumptions[s])]
           gu == [s \in Assets |-> SumOver(GainsOf(lots[s], MarketUnit(s, Now)), OpenOf(lots[s]))]
           gb == [s \in Assets |-> SumOver(BroughtIn, SoldLegsOf(s))]
           gw == [s \in Assets |-> market[s] * SumOver(held[s], Accounts)]
           gp == [s \in Assets |-> SumOver(CostsAcquired(lots[s], txns), DOMAIN lots[s])]
           x == [s \in Assets |-> gr[s] + gu[s]]
           y == [s \in Assets |-> gb[s] + gw[s]]
<1>1. IsFiniteSet(Accounts) /\ IsFiniteSet(Assets) /\ TypeOK
  BY ProfitLossAssumption DEF LotsInv
<1>2. ASSUME NEW s \in Assets
      PROVE  /\ IsFiniteSet(DOMAIN consumptions[s])
             /\ \A k \in DOMAIN consumptions[s] : RealizedOf(consumptions[s])[k] \in Int
             /\ IsFiniteSet(OpenOf(lots[s]))
             /\ \A i \in OpenOf(lots[s]) : GainsOf(lots[s], MarketUnit(s, Now))[i] \in Int
             /\ gr[s] + gu[s] = gb[s] + gw[s] - gp[s]
             /\ \A a \in Accounts : held[s][a] \in Int
  <2> DEFINE g == held[s]
             m == market[s]
  <2>1. \A a \in Accounts : g[a] = Holding(txns, <<a, s>>)
    OBVIOUS
  <2>2. m \in Int /\ m = MarketUnit(s, Now) /\ CostsKnown(s)
    OBVIOUS
  <2>3. /\ gr[s] = SumOver(RealizedOf(consumptions[s]), DOMAIN consumptions[s])
        /\ gu[s] = SumOver(GainsOf(lots[s], m), OpenOf(lots[s]))
        /\ gb[s] = SumOver(BroughtIn, SoldLegsOf(s)) /\ gw[s] = m * SumOver(g, Accounts)
        /\ gp[s] = SumOver(CostsAcquired(lots[s], txns), DOMAIN lots[s])
    BY <2>2
  <2> HIDE DEF g, m, gr, gu, gb, gw, gp, held
  <2>4. /\ \A k \in DOMAIN consumptions[s] : RealizedOf(consumptions[s])[k] \in Int
        /\ IsFiniteSet(DOMAIN consumptions[s])
        /\ IsFiniteSet(OpenOf(lots[s]))
        /\ \A i \in OpenOf(lots[s]) : GainsOf(lots[s], m)[i] \in Int
        /\ SumOver(RealizedOf(consumptions[s]), DOMAIN consumptions[s])
             + SumOver(GainsOf(lots[s], m), OpenOf(lots[s]))
             = SumOver(BroughtIn, SoldLegsOf(s)) + m * SumOver(g, Accounts)
                 - SumOver(CostsAcquired(lots[s], txns), DOMAIN lots[s])
    BY <1>1, <2>1, <2>2, AssetGains
  <2>5. \A a \in Accounts : g[a] \in Int
    BY <1>1, <2>1, OpenByAccount
  <2> QED
    BY <2>2, <2>3, <2>4, <2>5 DEF g
<1>3. /\ IsFiniteSet(Consumed) /\ \A k \in Consumed : RealizedAmounts[k] \in Int
      /\ SumOver(RealizedAmounts, Consumed) = SumOver(gr, Assets)
      /\ \A s \in Assets : gr[s] \in Int
  <2>1. \A s \in Assets : gr[s] = SumOver(RealizedOf(consumptions[s]), DOMAIN consumptions[s])
    OBVIOUS
  <2> HIDE DEF gr, gu, gb, gw, gp, held
  <2>2. \A s \in Assets : /\ IsFiniteSet(DOMAIN consumptions[s])
                          /\ \A k \in DOMAIN consumptions[s] : RealizedOf(consumptions[s])[k] \in Int
    BY <1>2
  <2> QED
    BY ONLY <1>1, <2>1, <2>2, RealizedByAsset
<1>4. /\ IsFiniteSet(OpenLots) /\ \A k \in OpenLots : Unrealized(Now)[k] \in Int
      /\ SumOver(Unrealized(Now), OpenLots) = SumOver(gu, Assets)
      /\ \A s \in Assets : gu[s] \in Int
  <2>1. \A s \in Assets : gu[s] = SumOver(GainsOf(lots[s], MarketUnit(s, Now)), OpenOf(lots[s]))
    OBVIOUS
  <2> HIDE DEF gr, gu, gb, gw, gp, held
  <2>2. \A s \in Assets : /\ IsFiniteSet(OpenOf(lots[s]))
                          /\ \A i \in OpenOf(lots[s]) : GainsOf(lots[s], MarketUnit(s, Now))[i] \in Int
    BY <1>2
  <2> QED
    BY ONLY <1>1, <2>1, <2>2, UnrealizedByAsset
<1>5. SumOver(BroughtIn, SoldLegs) = SumOver(gb, Assets) /\ \A s \in Assets : gb[s] \in Int
  <2>1. \A s \in Assets : gb[s] = SumOver(BroughtIn, SoldLegsOf(s))
    OBVIOUS
  <2> HIDE DEF gr, gu, gb, gw, gp, held
  <2> QED
    BY <1>1, <2>1, IncomeByAsset
<1>6. SumOver(WorthOf, Accounts \X Assets) = SumOver(gw, Assets) /\ \A s \in Assets : gw[s] \in Int
  <2>1. \A s \in Assets : gw[s] = market[s] * SumOver(held[s], Accounts)
    OBVIOUS
  <2>2. \A s \in Assets, a \in Accounts : held[s][a] = Holding(txns, <<a, s>>) /\ held[s][a] \in Int
    BY <1>2
  <2> HIDE DEF gr, gu, gb, gw, gp, held
  <2> QED
    BY <1>1, <2>1, <2>2, WorthByAsset
<1>7. SumOver(PaidFor, AcquiredLots) = SumOver(gp, Assets) /\ \A s \in Assets : gp[s] \in Int
  <2>1. \A s \in Assets : gp[s] = SumOver(CostsAcquired(lots[s], txns), DOMAIN lots[s])
    OBVIOUS
  <2>2. \A s \in Assets : lots[s] \in Seq(LotRow) /\ CostsKnown(s)
    BY ProjectedSales DEF Booked
  <2> HIDE DEF gr, gu, gb, gw, gp, held
  <2> QED
    BY ONLY <1>1, <2>1, <2>2, PaidByAsset
<1>8. \A s \in Assets : /\ x[s] = gr[s] + gu[s] /\ y[s] = gb[s] + gw[s]
                        /\ x[s] = y[s] - gp[s]
  <2> SUFFICES ASSUME NEW s \in Assets
               PROVE  /\ x[s] = gr[s] + gu[s] /\ y[s] = gb[s] + gw[s]
                      /\ x[s] = y[s] - gp[s]
    OBVIOUS
  <2>1. gr[s] + gu[s] = gb[s] + gw[s] - gp[s]
    BY <1>2
  <2> HIDE DEF gr, gu, gb, gw, gp
  <2>2. x[s] = gr[s] + gu[s] /\ y[s] = gb[s] + gw[s]
    OBVIOUS
  <2>3. gr[s] \in Int /\ gu[s] \in Int /\ gb[s] \in Int /\ gw[s] \in Int /\ gp[s] \in Int
    BY <1>3, <1>4, <1>5, <1>6, <1>7
  <2> HIDE DEF x, y
  <2> QED
    BY ONLY <2>1, <2>2, <2>3
<1> HIDE DEF gr, gu, gb, gw, gp, held, x, y
<1>9. \A s \in Assets : gr[s] \in Int /\ gu[s] \in Int /\ gb[s] \in Int /\ gw[s] \in Int
                        /\ gp[s] \in Int /\ x[s] \in Int /\ y[s] \in Int
  BY <1>3, <1>4, <1>5, <1>6, <1>7, <1>8
<1>10. SumOver(x, Assets) = SumOver(gr, Assets) + SumOver(gu, Assets)
  BY ONLY <1>1, <1>8, <1>9, SumOfSums
<1>11. SumOver(y, Assets) = SumOver(gb, Assets) + SumOver(gw, Assets)
  BY ONLY <1>1, <1>8, <1>9, SumOfSums
<1>12. SumOver(x, Assets) = SumOver(y, Assets) - SumOver(gp, Assets)
  BY ONLY <1>1, <1>8, <1>9, SumOfDifferences
<1>13. SumOver(RealizedAmounts, Consumed) + SumOver(Unrealized(Now), OpenLots)
         = SumOver(BroughtIn, SoldLegs) + SumOver(WorthOf, Accounts \X Assets)
             - SumOver(PaidFor, AcquiredLots)
  <2>1. /\ SumOver(gr, Assets) \in Int /\ SumOver(gu, Assets) \in Int
        /\ SumOver(gb, Assets) \in Int /\ SumOver(gw, Assets) \in Int
        /\ SumOver(gp, Assets) \in Int
    BY ONLY <1>1, <1>9, SumIsInt
  <2> DEFINE a == SumOver(gr, Assets)
             b == SumOver(gu, Assets)
             c == SumOver(gb, Assets)
             d == SumOver(gw, Assets)
             e == SumOver(gp, Assets)
  <2>2. a + b = c + d - e
    <3>1. a \in Int /\ b \in Int /\ c \in Int /\ d \in Int /\ e \in Int
      BY <2>1
    <3>2. SumOver(x, Assets) = a + b /\ SumOver(y, Assets) = c + d
          /\ SumOver(x, Assets) = SumOver(y, Assets) - e
      BY <1>10, <1>11, <1>12
    <3> HIDE DEF a, b, c, d, e
    <3> QED
      BY ONLY <3>1, <3>2
  <2>3. /\ a = SumOver(RealizedAmounts, Consumed) /\ b = SumOver(Unrealized(Now), OpenLots)
        /\ c = SumOver(BroughtIn, SoldLegs) /\ d = SumOver(WorthOf, Accounts \X Assets)
        /\ e = SumOver(PaidFor, AcquiredLots)
    BY <1>3, <1>4, <1>5, <1>6, <1>7
  <2> HIDE DEF a, b, c, d, e
  <2> QED
    BY ONLY <2>2, <2>3
<1> QED
  BY <1>3, <1>4, <1>13

LEMMA MarketType ==
    ASSUME TypeOK, NEW s \in Assets, NEW at \in Int
    PROVE  MarketUnit(s, at) \in Nat \cup {None}
<1>1. PICK a \in Accounts : TRUE
  BY TransactionsAssumption
<1> DEFINE leg == [account |-> a, asset |-> s, quantity |-> 1, unit_price |-> None]
<1>2. leg \in Leg /\ leg.unit_price = None
  BY DEF Leg
<1>3. prices[s] \subseteq [as_of : Days, price : Nat]
  BY DEF TypeOK, PriceTables
<1>4. MarketUnit(s, at) = AcquisitionCost(prices, s, leg, at)
  BY <1>2 DEF MarketUnit, AcquisitionCost
<1> HIDE DEF leg
<1> QED
  BY <1>2, <1>3, <1>4, CostType

(* A sum of amounts that are all there, and of those that are.             *)
LEMMA SumOfKnown ==
    ASSUME NEW f, NEW K, K = {k \in DOMAIN f : f[k] # None}
    PROVE  SumOpt(f) = IF K = {} THEN None ELSE SumOver(f, K)
BY Zenon DEF SumOpt, SumOver

LEMMA GivenSum ==
    ASSUME NEW f, IsFiniteSet(DOMAIN f), \A k \in DOMAIN f : f[k] \in Int
    PROVE  (IF SumOpt(f) = None THEN 0 ELSE SumOpt(f)) = SumOver(f, DOMAIN f)
<1> DEFINE K == {k \in DOMAIN f : f[k] # None}
           total == SumOver(f, DOMAIN f)
<1>1. K = DOMAIN f
  BY NoneAssumption
<1>2. SumOpt(f) = IF K = {} THEN None ELSE SumOver(f, K)
  BY SumOfKnown
<1>3. total \in Int /\ total # None
  BY SumIsInt, NoneAssumption
<1>4. K = {} => total = 0
  BY <1>1, SumOfNone
<1> HIDE DEF K, total
<1>5. SumOpt(f) = IF K = {} THEN None ELSE total
  BY <1>1, <1>2 DEF total
<1>6. (IF SumOpt(f) = None THEN 0 ELSE SumOpt(f)) = total
  BY <1>3, <1>4, <1>5
<1> QED
  BY <1>6 DEF total

(* A day splits what was realized in two.                                  *)
LEMMA RealizedSplit ==
    ASSUME LotsInv, IsFiniteSet(Consumed), \A k \in Consumed : RealizedAmounts[k] \in Int,
           NEW day \in Days,
           NEW early, early = Realized(None, day), NEW late, late = Realized(day + 1, None)
    PROVE  /\ IsFiniteSet(DOMAIN early) /\ \A k \in DOMAIN early : early[k] \in Int
           /\ IsFiniteSet(DOMAIN late) /\ \A k \in DOMAIN late : late[k] \in Int
           /\ SumOver(early, DOMAIN early) + SumOver(late, DOMAIN late)
                = SumOver(RealizedAmounts, Consumed)
<1> DEFINE SoldAt(k) == txns[consumptions[k[1]][k[2]].sell_leg[1]].occurred_at
           D == {k \in Consumed : InRange(SoldAt(k), None, day)}
           L == {k \in Consumed : InRange(SoldAt(k), day + 1, None)}
           w == RealizedAmounts
<1>1. ASSUME NEW k \in Consumed
      PROVE  SoldAt(k) \in Int
  <2>1. PICK s \in Assets : \E j \in DOMAIN consumptions[s] : k = <<s, j>>
    BY DEF Consumed
  <2>2. PICK j \in DOMAIN consumptions[s] : k = <<s, j>>
    BY <2>1
  <2> DEFINE leg == consumptions[s][j].sell_leg
  <2>3. leg \in SoldLegs
    BY ProjectedSales DEF Booked, SoldLegsOf
  <2>4. PICK i \in ActiveTrades : \E l \in SellingLegs(i) : leg = <<i, l>>
    BY <2>3, SoldLegTypes DEF LotsInv
  <2>5. leg[1] = i
    BY <2>4
  <2>6. txns[i] \in Transaction
    <3>1. i \in DOMAIN txns
      BY DEF ActiveTrades, Active
    <3> QED
      BY <3>1 DEF LotsInv, TypeOK
  <2>7. txns[i].occurred_at \in Days
    BY <2>6 DEF Transaction
  <2>8. SoldAt(k) = txns[i].occurred_at
    BY <2>2, <2>5
  <2> QED
    BY <2>7, <2>8, TransactionsAssumption
<1>2. day \in Int /\ day # None /\ day + 1 # None
  <2>1. day \in Int
    BY TransactionsAssumption
  <2> QED
    BY <2>1, NoneAssumption
<1>3. /\ DOMAIN early = D /\ \A k \in D : early[k] = w[k]
      /\ DOMAIN late = L /\ \A k \in L : late[k] = w[k]
  <2>1. early = [k \in D |-> consumptions[k[1]][k[2]].realized]
    BY Zenon DEF Realized, Consumed
  <2>2. late = [k \in L |-> consumptions[k[1]][k[2]].realized]
    BY Zenon DEF Realized, Consumed
  <2>3. \A k \in Consumed : w[k] = consumptions[k[1]][k[2]].realized
    BY DEF RealizedAmounts
  <2> QED
    BY <2>1, <2>2, <2>3
<1>4. \A k \in Consumed : InRange(SoldAt(k), None, day) <=> ~InRange(SoldAt(k), day + 1, None)
  <2> SUFFICES ASSUME NEW k \in Consumed
               PROVE  InRange(SoldAt(k), None, day) <=> ~InRange(SoldAt(k), day + 1, None)
    OBVIOUS
  <2> DEFINE m == SoldAt(k)
  <2>1. m \in Int
    BY <1>1
  <2> HIDE DEF m
  <2>2. InRange(m, None, day) <=> m < day + 1
    BY <1>2 DEF InRange
  <2>3. InRange(m, day + 1, None) <=> m >= day + 1
    BY <1>2 DEF InRange
  <2>4. InRange(m, None, day) <=> ~InRange(m, day + 1, None)
    BY <1>2, <2>1, <2>2, <2>3
  <2> QED
    BY <2>4 DEF m
<1>5. D \cup L = Consumed /\ D \cap L = {} /\ D \in SUBSET Consumed /\ L \in SUBSET Consumed
  <2> HIDE DEF SoldAt
  <2> QED
    BY <1>4
<1> HIDE DEF D, L, w
<1>6. IsFiniteSet(D) /\ IsFiniteSet(L)
  BY <1>5, FS_Subset
<1>7. \A k \in D \cup L : w[k] \in Int
  BY <1>5 DEF w
<1>8. SumOver(w, D \cup L) = SumOver(w, D) + SumOver(w, L)
  BY ONLY <1>5, <1>6, <1>7, SumOfBoth
<1>9. SumOver(early, D) = SumOver(w, D) /\ SumOver(late, L) = SumOver(w, L)
  <2>1. SumOver(early, D) = SumOver(w, D)
    BY ONLY <1>3, <1>6, SumAgrees
  <2>2. SumOver(late, L) = SumOver(w, L)
    BY ONLY <1>3, <1>6, SumAgrees
  <2> QED
    BY <2>1, <2>2
<1>10. (\A k \in D : early[k] \in Int) /\ (\A k \in L : late[k] \in Int)
  BY <1>3, <1>7
<1> QED
  BY <1>3, <1>5, <1>6, <1>8, <1>9, <1>10 DEF w

(* The three sums as the report's property writes them.                    *)
LEMMA BroughtInSum ==
    MapThenSumSet(LAMBDA k : -txns[k[1]].legs[k[2]].quantity * txns[k[1]].legs[k[2]].unit_price,
                  SoldLegs) = SumOver(BroughtIn, SoldLegs)
<1> DEFINE K == SoldLegs
           w == BroughtIn
           V(f) == [s \in SUBSET K |->
                       IF s = {} THEN 0
                       ELSE -txns[AnyOf(s)[1]].legs[AnyOf(s)[2]].quantity
                                * txns[AnyOf(s)[1]].legs[AnyOf(s)[2]].unit_price
                              + f[s \ {AnyOf(s)}]]
           W(f) == SumBody(f, w, K)
<1>1. MapThenSumSet(LAMBDA k : -txns[k[1]].legs[k[2]].quantity
                                   * txns[k[1]].legs[k[2]].unit_price, K) = (CHOOSE f : f = V(f))[K]
  BY Zenon DEF MapThenSumSet, MapThenFoldSet, AnyOf
<1>2. SumOver(w, K) = (CHOOSE f : f = W(f))[K]
  BY ONLY SumChoice
<1>3. \A k \in K : w[k] = -txns[k[1]].legs[k[2]].quantity * txns[k[1]].legs[k[2]].unit_price
  BY Zenon DEF BroughtIn, LegOf
<1> HIDE DEF w, K
<1>4. ASSUME NEW f PROVE V(f) = W(f)
  BY <1>3, SumChoice, Zenon DEF SumBody
<1> HIDE DEF V, W
<1> QED
  BY <1>1, <1>2, <1>4, Zenon DEF w, K

LEMMA WorthSum ==
    MapThenSumSet(LAMBDA pair : Holding(txns, pair) * MarketUnit(pair[2], Now), Accounts \X Assets)
      = SumOver(WorthOf, Accounts \X Assets)
<1> DEFINE K == Accounts \X Assets
           w == WorthOf
           V(f) == [s \in SUBSET K |->
                       IF s = {} THEN 0
                       ELSE Holding(txns, AnyOf(s)) * MarketUnit(AnyOf(s)[2], Now)
                              + f[s \ {AnyOf(s)}]]
           W(f) == SumBody(f, w, K)
<1>1. MapThenSumSet(LAMBDA pair : Holding(txns, pair) * MarketUnit(pair[2], Now), K)
        = (CHOOSE f : f = V(f))[K]
  BY Zenon DEF MapThenSumSet, MapThenFoldSet, AnyOf
<1>2. \A pair \in K : w[pair] = Holding(txns, pair) * MarketUnit(pair[2], Now)
  BY Zenon DEF WorthOf
<1> HIDE DEF w, K
<1>3. SumOver(w, K) = (CHOOSE f : f = W(f))[K]
  BY ONLY SumChoice
<1>4. ASSUME NEW f PROVE V(f) = W(f)
  BY <1>2, SumChoice, Zenon DEF SumBody
<1> HIDE DEF V, W
<1> QED
  BY <1>1, <1>3, <1>4, Zenon DEF w, K

LEMMA PaidSum ==
    MapThenSumSet(LAMBDA k : LotOf(k).original_qty * LotOf(k).unit_cost, AcquiredLots)
      = SumOver(PaidFor, AcquiredLots)
<1> DEFINE K == AcquiredLots
           w == PaidFor
           V(f) == [s \in SUBSET K |->
                       IF s = {} THEN 0
                       ELSE LotOf(AnyOf(s)).original_qty * LotOf(AnyOf(s)).unit_cost
                              + f[s \ {AnyOf(s)}]]
           W(f) == SumBody(f, w, K)
<1>1. MapThenSumSet(LAMBDA k : LotOf(k).original_qty * LotOf(k).unit_cost, K)
        = (CHOOSE f : f = V(f))[K]
  BY Zenon DEF MapThenSumSet, MapThenFoldSet, AnyOf
<1>2. SumOver(w, K) = (CHOOSE f : f = W(f))[K]
  BY ONLY SumChoice
<1>3. \A k \in K : w[k] = LotOf(k).original_qty * LotOf(k).unit_cost
  BY Zenon DEF PaidFor
<1> HIDE DEF w, K
<1>4. ASSUME NEW f PROVE V(f) = W(f)
  BY <1>3, SumChoice, Zenon DEF SumBody
<1> HIDE DEF V, W
<1> QED
  BY <1>1, <1>2, <1>4, Zenon DEF w, K

(* A price that is entered changes no lot.                                 *)
LEMMA PricedStep == LotsInv /\ [PricedNext]_vars => LotsInv'
<1>1. ASSUME LotsInv, NEW p \in PriceEntries, EnterPrice(p.asset, p.as_of, p.price)
      PROVE  LotsInv'
  <2>1. UNCHANGED <<open_accounts, txns, lots, consumptions, audit>> /\ response' = "ok"
    BY <1>1 DEF EnterPrice
  <2>2. prices' \in PriceTables
    <3>1. p \in [asset : Assets, as_of : Days, price : Nat]
      BY ProfitLossAssumption
    <3>2. p.asset \in Assets /\ p.as_of \in Days /\ p.price \in Nat
      BY <3>1
    <3>3. [as_of |-> p.as_of, price |-> p.price] \in [as_of : Days, price : Nat]
      BY <3>2
    <3>4. prices \in [Assets -> SUBSET [as_of : Days, price : Nat]]
      BY <1>1 DEF LotsInv, TypeOK, PriceTables
    <3>5. prices' = [prices EXCEPT ![p.asset] =
                        prices[p.asset] \cup {[as_of |-> p.as_of, price |-> p.price]}]
      BY <1>1 DEF EnterPrice
    <3> DEFINE Rows == SUBSET [as_of : Days, price : Nat]
               more == prices[p.asset] \cup {[as_of |-> p.as_of, price |-> p.price]}
    <3>6. more \in Rows
      BY <3>2, <3>3, <3>4
    <3>7. prices \in [Assets -> Rows] /\ prices' = [prices EXCEPT ![p.asset] = more]
      BY <3>4, <3>5
    <3> HIDE DEF Rows, more
    <3>8. prices' \in [Assets -> Rows]
      BY <3>6, <3>7
    <3> QED
      BY <3>8 DEF PriceTables, Rows
  <2>3. TypeOK'
    BY <1>1, <2>1, <2>2 DEF LotsInv, TypeOK
  <2>4. RowsShaped'
    BY <1>1, <2>1 DEF LotsInv, RowsShaped
  <2>5. ASSUME NEW s \in Assets
        PROVE  (\E st : Projects(st, s))'
    <3>1. PICK st : Projects(st, s)
      BY <1>1 DEF LotsInv, ProjectionFresh
    <3> QED
      BY <2>1, <3>1 DEF Projects
  <2> QED
    BY <2>3, <2>4, <2>5 DEF LotsInv, ProjectionFresh
<1> SUFFICES ASSUME LotsInv, [PricedNext]_vars
             PROVE  LotsInv'
  OBVIOUS
<1>2. CASE [Next]_vars
  BY <1>2, LotsStep
<1> QED
  BY <1>1, <1>2 DEF PricedNext

LEMMA PricedInvariant == PricedSpec => []LotsInv
BY LotsInit, PricedStep, PTL DEF PricedSpec

(* The gains that are reported add up to what came in and is held less     *)
(* what was paid for it, however many accounts, assets, days, prices and   *)
(* requests there are and whichever day the report is split at.            *)
THEOREM LedgerGainsAddUp == ASSUME FeeFree PROVE PricedSpec => []GainsAddUp
<1>1. LotsInv => GainsAddUp
  <2> DEFINE Given(amount) == IF amount = None THEN 0 ELSE amount
             out == Given(SumOpt(Unrealized(Now)))
             Split(day) == Given(SumOpt(Realized(None, day))) + Given(SumOpt(Realized(day + 1, None)))
             bring == MapThenSumSet(LAMBDA k : -txns[k[1]].legs[k[2]].quantity
                                                   * txns[k[1]].legs[k[2]].unit_price, SoldLegs)
             worth == MapThenSumSet(LAMBDA pair : Holding(txns, pair) * MarketUnit(pair[2], Now),
                                    Accounts \X Assets)
             paid == MapThenSumSet(LAMBDA k : LotOf(k).original_qty * LotOf(k).unit_cost,
                                   AcquiredLots)
  <2> SUFFICES ASSUME LotsInv, {i \in Active(txns) : txns[i].type \in SingleLegTypes \ Inbound} = {},
                      \A s \in Assets : MarketUnit(s, Now) # None,
                      \A k \in SoldLegs : txns[k[1]].legs[k[2]].unit_price # None,
                      \A k \in AcquiredLots : LotOf(k).unit_cost # None,
                      NEW day \in Days
               PROVE  Split(day) + out = bring + worth - paid
    BY Zenon DEF GainsAddUp, SoldLegs, SellingLegs, ActiveTrades, AcquiredLots
  <2>1. NothingPaidOut /\ PricesKnown /\ TypeOK /\ Now \in Int
    BY TransactionsAssumption DEF NothingPaidOut, PricesKnown, LegOf, LotsInv
  <2>2. ASSUME NEW s \in Assets
        PROVE  CostsKnown(s)
    <3>1. ASSUME NEW i \in DOMAIN lots[s], IsAcquired(txns, lots[s][i])
          PROVE  lots[s][i].unit_cost # None
      <4>1. <<s, i>> \in AcquiredLots
        BY <3>1 DEF AcquiredLots, IsAcquired
      <4>2. LotOf(<<s, i>>) = lots[s][i]
        BY DEF LotOf
      <4> QED
        BY <4>1, <4>2
    <3> QED
      BY <3>1, AcquiredKnown
  <2> DEFINE market == [s \in Assets |-> MarketUnit(s, Now)]
  <2>3. \A s \in Assets : market[s] = MarketUnit(s, Now) /\ market[s] \in Int
    BY <2>1, MarketType
  <2> HIDE DEF market
  <2>4. /\ IsFiniteSet(Consumed) /\ \A k \in Consumed : RealizedAmounts[k] \in Int
        /\ IsFiniteSet(OpenLots) /\ \A k \in OpenLots : Unrealized(Now)[k] \in Int
        /\ SumOver(RealizedAmounts, Consumed) + SumOver(Unrealized(Now), OpenLots)
             = SumOver(BroughtIn, SoldLegs) + SumOver(WorthOf, Accounts \X Assets)
                 - SumOver(PaidFor, AcquiredLots)
    BY <2>1, <2>2, <2>3, AllGains
  <2> DEFINE early == Realized(None, day)
             late == Realized(day + 1, None)
             open == Unrealized(Now)
  <2>5. early = Realized(None, day) /\ late = Realized(day + 1, None)
    OBVIOUS
  <2>6. DOMAIN open = OpenLots
    BY DEF Unrealized
  <2> HIDE DEF early, late, open
  <2>7. /\ IsFiniteSet(DOMAIN early) /\ \A k \in DOMAIN early : early[k] \in Int
        /\ IsFiniteSet(DOMAIN late) /\ \A k \in DOMAIN late : late[k] \in Int
        /\ SumOver(early, DOMAIN early) + SumOver(late, DOMAIN late)
             = SumOver(RealizedAmounts, Consumed)
    BY <2>4, <2>5, RealizedSplit
  <2>8. Split(day) = SumOver(RealizedAmounts, Consumed)
    <3>1. Given(SumOpt(early)) = SumOver(early, DOMAIN early)
      BY <2>7, GivenSum
    <3>2. Given(SumOpt(late)) = SumOver(late, DOMAIN late)
      BY <2>7, GivenSum
    <3>3. Split(day) = Given(SumOpt(early)) + Given(SumOpt(late))
      BY <2>5
    <3> HIDE DEF Given, Split
    <3> QED
      BY <2>7, <3>1, <3>2, <3>3
  <2>9. out = SumOver(Unrealized(Now), OpenLots)
    <3>1. IsFiniteSet(DOMAIN open) /\ \A k \in DOMAIN open : open[k] \in Int
      BY <2>4, <2>6 DEF open
    <3>2. Given(SumOpt(open)) = SumOver(open, DOMAIN open)
      BY <3>1, GivenSum
    <3> QED
      BY <2>6, <3>2 DEF open
  <2>10. bring = SumOver(BroughtIn, SoldLegs)
    BY BroughtInSum, Zenon
  <2>11. worth = SumOver(WorthOf, Accounts \X Assets)
    BY WorthSum, Zenon
  <2>12. paid = SumOver(PaidFor, AcquiredLots)
    BY PaidSum, Zenon
  <2> HIDE DEF Given, out, Split, bring, worth, paid
  <2> QED
    BY ONLY <2>4, <2>8, <2>9, <2>10, <2>11, <2>12
<1> QED
  BY <1>1, PricedInvariant, PTL

-----------------------------------------------------------------------------
(* The reports of the open lots.  A sum of optional amounts, and the same  *)
(* sum taken group by group.                                               *)
OptOver(w, S) ==
    LET there == {x \in S : w[x] # None}
    IN  IF there = {} THEN None ELSE SumOver(w, there)

LEMMA OptOfSum ==
    ASSUME NEW S, IsFiniteSet(S), NEW w
    PROVE  SumOpt([x \in S |-> w[x]]) = OptOver(w, S)
<1> DEFINE f == [x \in S |-> w[x]]
           P == {x \in S : w[x] # None}
<1>1. P = {x \in DOMAIN f : f[x] # None} /\ \A x \in P : f[x] = w[x]
  OBVIOUS
<1>2. IsFiniteSet(P)
  BY FS_Subset
<1>3. OptOver(w, S) = IF P = {} THEN None ELSE SumOver(w, P)
  BY DEF OptOver
<1> HIDE DEF f, P
<1>4. SumOpt(f) = IF P = {} THEN None ELSE SumOver(f, P)
  BY <1>1, SumOfKnown
<1>5. SumOver(f, P) = SumOver(w, P)
  BY <1>1, <1>2, SumAgrees
<1>6. SumOpt(f) = OptOver(w, S)
  BY <1>3, <1>4, <1>5
<1> QED
  BY <1>6 DEF f

LEMMA OptByFibres ==
    ASSUME NEW S, IsFiniteSet(S), NEW K, IsFiniteSet(K), NEW f, \A x \in S : f[x] \in K,
           NEW w, \A x \in S : w[x] \in Int \cup {None},
           NEW g, \A k \in K : g[k] = OptOver(w, Fibre(f, S, k))
    PROVE  OptOver(g, K) = OptOver(w, S)
<1> DEFINE P == {x \in S : w[x] # None}
           Q == {k \in K : g[k] # None}
           F(k) == Fibre(f, P, k)
<1>1. IsFiniteSet(P) /\ IsFiniteSet(Q) /\ (\A x \in P : w[x] \in Int) /\ \A x \in P : f[x] \in K
  BY FS_Subset
<1>2. ASSUME NEW k \in K
      PROVE  g[k] = (IF F(k) = {} THEN None ELSE SumOver(w, F(k))) /\ SumOver(w, F(k)) \in Int
  <2>1. {x \in Fibre(f, S, k) : w[x] # None} = F(k)
    BY DEF Fibre
  <2>2. F(k) \in SUBSET P
    BY DEF Fibre
  <2>3. IsFiniteSet(F(k)) /\ \A x \in F(k) : w[x] \in Int
    BY <1>1, <2>2, FS_Subset
  <2>4. OptOver(w, Fibre(f, S, k)) = IF F(k) = {} THEN None ELSE SumOver(w, F(k))
    BY <2>1 DEF OptOver
  <2> HIDE DEF F, P
  <2> QED
    BY <2>3, <2>4, SumIsInt
<1>3. \A k \in K : k \in Q <=> F(k) # {}
  <2> SUFFICES ASSUME NEW k \in K
               PROVE  k \in Q <=> F(k) # {}
    OBVIOUS
  <2>1. SumOver(w, F(k)) # None
    BY <1>2, NoneAssumption
  <2>2. k \in Q <=> g[k] # None
    OBVIOUS
  <2> HIDE DEF F, P, Q
  <2> QED
    BY <1>2, <2>1, <2>2
<1>4. \A x \in P : f[x] \in Q
  <2>1. \A x \in P : x \in F(f[x])
    BY DEF Fibre
  <2> HIDE DEF F, P, Q
  <2> QED
    BY <1>1, <1>3, <2>1
<1>5. \A k \in Q : \E x \in P : f[x] = k
  <2>1. \A k \in Q : k \in K /\ F(k) # {}
    BY <1>3
  <2>2. \A k : \A x \in F(k) : x \in P /\ f[x] = k
    BY DEF Fibre
  <2> HIDE DEF F, P, Q
  <2> QED
    BY <2>1, <2>2
<1>6. \A k \in Q : g[k] = SumOver(w, Fibre(f, P, k))
  <2>1. \A k \in Q : k \in K /\ F(k) # {}
    BY <1>3
  <2> HIDE DEF P, Q
  <2> QED
    BY <1>2, <2>1
<1> HIDE DEF F
<1>7. OptOver(g, K) = (IF Q = {} THEN None ELSE SumOver(g, Q))
      /\ OptOver(w, S) = (IF P = {} THEN None ELSE SumOver(w, P))
  BY DEF OptOver
<1> HIDE DEF P, Q
<1>8. SumOver(w, P) = SumOver(g, Q)
  BY ONLY <1>1, <1>4, <1>6, SumByFibres
<1> QED
  BY <1>4, <1>5, <1>7, <1>8

(* The lots of every pair, and the pairs that are held.                    *)
PairOf(k) == <<LotOf(k).account, k[1]>>

LotsOf(pair) == {k \in OpenLots : PairOf(k) = pair}

HeldPairs == {pair \in Accounts \X Assets : Holding(txns, pair) # 0}

LEMMA OpenLotTypes ==
    ASSUME LotsInv, IsFiniteSet(Assets)
    PROVE  /\ IsFiniteSet(OpenLots)
           /\ \A k \in OpenLots : /\ k[1] \in Assets /\ k[2] \in DOMAIN lots[k[1]] /\ k = <<k[1], k[2]>>
                                  /\ LotOf(k) = lots[k[1]][k[2]] /\ LotOf(k).account \in Accounts
                                  /\ LotOf(k).remaining_qty \in Nat \ {0}
                                  /\ LotOf(k).unit_cost \in Nat \cup {None}
<1> DEFINE D == [s \in Assets |-> OpenOf(lots[s])]
<1>1. \A s \in Assets : lots[s] \in Seq(LotRow)
  BY ProjectedSales DEF Booked
<1>2. ASSUME NEW s \in Assets
      PROVE  IsFiniteSet(D[s])
  <2>1. lots[s] \in Seq(LotRow) /\ OpenOf(lots[s]) \subseteq DOMAIN lots[s]
    BY <1>1 DEF OpenOf
  <2>2. IsFiniteSet(DOMAIN lots[s])
    BY <2>1, OpenLotsOf
  <2> QED
    BY <2>1, <2>2, FS_Subset
<1>3. OpenLots = Family(Assets, D)
  BY DEF OpenLots, OpenOf, Family
<1>4. ASSUME NEW k \in OpenLots
      PROVE  /\ k[1] \in Assets /\ k[2] \in DOMAIN lots[k[1]] /\ k = <<k[1], k[2]>>
             /\ LotOf(k) = lots[k[1]][k[2]] /\ LotOf(k).account \in Accounts
             /\ LotOf(k).remaining_qty \in Nat \ {0}
             /\ LotOf(k).unit_cost \in Nat \cup {None}
  <2>1. PICK s \in Assets : \E i \in OpenOf(lots[s]) : k = <<s, i>>
    BY DEF OpenLots, OpenOf
  <2>2. PICK i \in OpenOf(lots[s]) : k = <<s, i>>
    BY <2>1
  <2>3. i \in DOMAIN lots[s] /\ lots[s][i].remaining_qty # 0
    BY DEF OpenOf
  <2>4. LotOf(k) = lots[s][i] /\ lots[s] \in Seq(LotRow)
    BY <1>1, <2>2 DEF LotOf
  <2> QED
    BY <2>2, <2>3, <2>4, LotFields
<1> HIDE DEF D
<1>5. IsFiniteSet(OpenLots)
  BY <1>2, <1>3, FamilyIsFinite
<1> QED
  BY <1>4, <1>5

(* A pair is held when, and only when, it has open lots.                   *)
LEMMA HeldIsOpen ==
    ASSUME LotsInv, FeeFree, NEW a \in Accounts, NEW s \in Assets
    PROVE  <<a, s>> \in HeldPairs <=> \E i \in DOMAIN lots[s] : /\ lots[s][i].account = a
                                                               /\ lots[s][i].remaining_qty # 0
<1>1. PICK st : /\ Projects(st, s) /\ st.lots \in Seq(LotRow)
                /\ Reconciled(st, txns, s, Relevant(txns, s))
  BY ProjectedReconciles
<1> DEFINE held == lots[s]
           pair == <<a, s>>
           K == HeldIn(held, a)
           r == Remaining(held)
<1>2. held = st.lots /\ held \in Seq(LotRow)
  BY <1>1 DEF Projects
<1>3. Holding(txns, pair) = SumOver(r, K)
  <2>1. LegSum(txns, pair, Relevant(txns, s)) = Holding(txns, pair)
    <3>1. IsPair(pair, a, s)
      BY DEF IsPair
    <3> HIDE DEF pair
    <3> QED
      BY <3>1, HoldingIsRelevant
  <2>2. OpenSum(held, a) = LegSum(txns, pair, Relevant(txns, s))
    BY <1>1, <1>2 DEF Reconciled
  <2> QED
    BY <2>1, <2>2 DEF OpenSum
<1>4. IsFiniteSet(K) /\ K \subseteq DOMAIN held /\ (\A i : i \in K <=> i \in DOMAIN held /\ held[i].account = a)
      /\ \A i \in DOMAIN held : r[i] = held[i].remaining_qty /\ r[i] \in Nat
  <2> HIDE DEF held
  <2>1. IsFiniteSet(DOMAIN held)
    BY <1>2, OpenLotsOf
  <2>2. K \subseteq DOMAIN held /\ \A i : i \in K <=> i \in DOMAIN held /\ held[i].account = a
    BY DEF HeldIn
  <2>3. \A i \in DOMAIN held : r[i] = held[i].remaining_qty /\ r[i] \in Nat
    BY <1>2, LotFields
  <2> QED
    BY <2>1, <2>2, <2>3, FS_Subset
<1>5. <<a, s>> \in HeldPairs <=> SumOver(r, K) # 0
  BY <1>3 DEF HeldPairs
<1> HIDE DEF held, K, r
<1>6. ASSUME NEW i \in K, r[i] # 0
      PROVE  SumOver(r, K) # 0
  <2>1. \A j \in K : r[j] \in Int /\ r[j] \in Nat
    BY <1>4
  <2>2. SumOver(r, K) = r[i] + SumOver(r, K \ {i})
    BY <1>4, <2>1, SumOfOneMore
  <2>3. IsFiniteSet(K \ {i}) /\ \A j \in K \ {i} : r[j] \in Nat
    BY <1>4, <2>1, FS_Subset
  <2>4. SumOver(r, K \ {i}) \in Nat
    BY <2>3, SumIsNat
  <2> QED
    BY <1>6, <2>1, <2>2, <2>4
<1>7. ASSUME \A i \in K : r[i] = 0
      PROVE  SumOver(r, K) = 0
  <2>1. {} \in SUBSET K /\ (\A i \in {} : r[i] \in Int) /\ \A i \in K \ {} : r[i] = 0
    BY <1>7
  <2>2. SumOver(r, K) = SumOver(r, {})
    BY <1>4, <2>1, SumWithoutZeros
  <2> QED
    BY <2>2, SumOfNone
<1>8. SumOver(r, K) # 0 <=> \E i \in DOMAIN held : held[i].account = a /\ held[i].remaining_qty # 0
  BY <1>4, <1>6, <1>7
<1> QED
  BY <1>5, <1>8 DEF held

(* The same for all pairs at once.                                         *)
LEMMA HeldPairsAreOpen ==
    ASSUME LotsInv, FeeFree
    PROVE  /\ \A k \in OpenLots : PairOf(k) \in HeldPairs
           /\ \A pair \in HeldPairs : \E k \in OpenLots : PairOf(k) = pair
           /\ IsFiniteSet(HeldPairs) /\ IsFiniteSet(OpenLots)
<1>1. IsFiniteSet(Accounts) /\ IsFiniteSet(Assets)
  BY ProfitLossAssumption
<1>2. ASSUME NEW k \in OpenLots
      PROVE  PairOf(k) \in HeldPairs
  <2> DEFINE s == k[1]
             i == k[2]
             a == LotOf(k).account
  <2>1. /\ s \in Assets /\ i \in DOMAIN lots[s] /\ a \in Accounts
        /\ lots[s][i].account = a /\ lots[s][i].remaining_qty # 0
    BY <1>1, OpenLotTypes
  <2>2. PairOf(k) = <<a, s>>
    BY DEF PairOf
  <2> HIDE DEF s, i, a
  <2> QED
    BY <2>1, <2>2, HeldIsOpen
<1>3. ASSUME NEW pair \in HeldPairs
      PROVE  \E k \in OpenLots : PairOf(k) = pair
  <2>1. PICK a \in Accounts : \E s \in Assets : pair = <<a, s>>
    BY DEF HeldPairs
  <2>2. PICK s \in Assets : pair = <<a, s>>
    BY <2>1
  <2>3. PICK i \in DOMAIN lots[s] : lots[s][i].account = a /\ lots[s][i].remaining_qty # 0
    BY <2>2, HeldIsOpen
  <2> DEFINE k == <<s, i>>
  <2>4. k \in OpenLots
    BY <2>3 DEF OpenLots
  <2>5. PairOf(k) = pair
    BY <2>2, <2>3 DEF PairOf, LotOf
  <2> QED
    BY <2>4, <2>5
<1>4. IsFiniteSet(Accounts \X Assets) /\ HeldPairs \subseteq Accounts \X Assets
  BY <1>1, FS_Product DEF HeldPairs
<1> QED
  BY <1>1, <1>2, <1>3, <1>4, FS_Subset, OpenLotTypes

LEMMA UnrealizedTypes ==
    ASSUME LotsInv, NEW at \in Int
    PROVE  /\ DOMAIN Unrealized(at) = OpenLots
           /\ \A k \in OpenLots :
                 /\ Unrealized(at)[k] \in Int \cup {None}
                 /\ Unrealized(at)[k] = Pnl(MarketUnit(k[1], at), LotOf(k).unit_cost,
                                            LotOf(k).remaining_qty)
<1>1. DOMAIN Unrealized(at) = OpenLots
  BY DEF Unrealized
<1>2. ASSUME NEW k \in OpenLots
      PROVE  /\ Unrealized(at)[k] \in Int \cup {None}
             /\ Unrealized(at)[k] = Pnl(MarketUnit(k[1], at), LotOf(k).unit_cost,
                                        LotOf(k).remaining_qty)
  <2> DEFINE m == MarketUnit(k[1], at)
             c == LotOf(k).unit_cost
             q == LotOf(k).remaining_qty
  <2>1. Unrealized(at)[k] = Pnl(m, c, q)
    BY DEF Unrealized, LotGain
  <2>2. c \in Nat \cup {None} /\ q \in Nat /\ k[1] \in Assets
    BY ProfitLossAssumption, OpenLotTypes
  <2>3. m \in Nat \cup {None}
    BY <2>2, MarketType DEF LotsInv
  <2> HIDE DEF m, c, q
  <2>4. Pnl(m, c, q) \in Int \cup {None}
    <3>1. CASE None \in {m, c}
      BY <3>1 DEF Pnl
    <3>2. CASE None \notin {m, c}
      <4>1. m \in Int /\ c \in Int /\ q \in Int
        BY <2>2, <2>3, <3>2
      <4> QED
        BY <4>1, GainIsDifference
    <3> QED
      BY <3>1, <3>2
  <2> QED
    BY <2>1, <2>4 DEF m, c, q
<1> QED
  BY <1>1, <1>2

(* At a date that no row comes after, what is held at it is what is held.  *)
UpToDate(at) == \A i \in Active(txns) : txns[i].occurred_at <= at

LEMMA ValuedPairs ==
    ASSUME LotsInv, NEW at \in Int, UpToDate(at)
    PROVE  /\ DOMAIN ValuedHoldings(at) = HeldPairs
           /\ \A pair \in HeldPairs :
                  ValuedHoldings(at)[pair].unrealized = OptOver(Unrealized(at), LotsOf(pair))
<1>1. {i \in Active(txns) : txns[i].occurred_at <= at} = Active(txns)
  BY DEF UpToDate
<1>2. \A pair : HeldAt(pair, at) = Holding(txns, pair)
  BY <1>1 DEF HeldAt, Holding
<1>3. DOMAIN ValuedHoldings(at) = HeldPairs
  BY <1>2 DEF ValuedHoldings, HeldPairs
<1>4. IsFiniteSet(OpenLots)
  BY ProfitLossAssumption, OpenLotTypes
<1>5. ASSUME NEW pair \in HeldPairs
      PROVE  ValuedHoldings(at)[pair].unrealized = OptOver(Unrealized(at), LotsOf(pair))
  <2> DEFINE m == MarketUnit(pair[2], at)
             K == LotsOf(pair)
             U == Unrealized(at)
  <2>1. ValuedHoldings(at)[pair].unrealized = UnrealizedOf(pair, m)
    BY <1>2 DEF ValuedHoldings, HeldPairs
  <2>2. K = {k \in OpenLots : k[1] = pair[2] /\ LotOf(k).account = pair[1]}
    <3>1. pair = <<pair[1], pair[2]>>
      BY DEF HeldPairs
    <3> QED
      BY <3>1 DEF LotsOf, PairOf
  <2>3. IsFiniteSet(K) /\ K \subseteq OpenLots
    BY <1>4, FS_Subset DEF LotsOf
  <2>4. \A k \in K : U[k] = Pnl(m, LotOf(k).unit_cost, LotOf(k).remaining_qty)
    BY <2>2, UnrealizedTypes
  <2>5. CASE m = None
    <3>1. UnrealizedOf(pair, m) = None
      BY <2>5 DEF UnrealizedOf
    <3>2. \A k \in K : U[k] = None
      BY <2>4, <2>5 DEF Pnl
    <3> HIDE DEF K, U, m
    <3>3. OptOver(U, K) = None
      BY <3>2 DEF OptOver
    <3> QED
      BY <2>1, <3>1, <3>3 DEF K, U
  <2>6. CASE m # None
    <3> DEFINE f == [k \in K |-> Pnl(m, LotOf(k).unit_cost, LotOf(k).remaining_qty)]
               g == [k \in K |-> U[k]]
    <3>1. UnrealizedOf(pair, m) = SumOpt(f)
      BY <2>2, <2>6 DEF UnrealizedOf
    <3>2. f = g
      BY <2>4
    <3> HIDE DEF K, U, m
    <3>3. SumOpt(g) = OptOver(U, K)
      BY <2>3, OptOfSum
    <3> QED
      BY <2>1, <3>1, <3>2, <3>3 DEF K, U
  <2> QED
    BY <2>5, <2>6
<1> QED
  BY <1>3, <1>5

(* What the holdings of some pairs gain is what the open lots of these     *)
(* pairs gain.                                                             *)
LEMMA GainOfPairs ==
    ASSUME LotsInv, FeeFree, NEW at \in Int, UpToDate(at),
           NEW pairs \in SUBSET HeldPairs, NEW open,
           open = {k \in OpenLots : PairOf(k) \in pairs}
    PROVE  /\ SumOpt([pair \in pairs |-> ValuedHoldings(at)[pair].unrealized])
                = OptOver(Unrealized(at), open)
           /\ IsFiniteSet(pairs) /\ IsFiniteSet(open)
<1> DEFINE v == [pair \in HeldPairs |-> ValuedHoldings(at)[pair].unrealized]
           f == [k \in OpenLots |-> PairOf(k)]
           U == Unrealized(at)
<1>1. IsFiniteSet(pairs) /\ IsFiniteSet(open) /\ open \subseteq OpenLots
  <2>1. IsFiniteSet(HeldPairs) /\ IsFiniteSet(OpenLots) /\ open \subseteq OpenLots
    BY HeldPairsAreOpen
  <2> QED
    BY <2>1, FS_Subset
<1>2. \A k \in open : f[k] \in pairs /\ U[k] \in Int \cup {None}
  BY UnrealizedTypes
<1>3. ASSUME NEW pair \in pairs
      PROVE  v[pair] = OptOver(U, Fibre(f, open, pair))
  <2>1. Fibre(f, open, pair) = LotsOf(pair)
    BY DEF Fibre, LotsOf
  <2> QED
    BY <2>1, ValuedPairs
<1>4. [pair \in pairs |-> ValuedHoldings(at)[pair].unrealized] = [pair \in pairs |-> v[pair]]
  OBVIOUS
<1> HIDE DEF v, f, U
<1>5. OptOver(v, pairs) = OptOver(U, open)
  BY ONLY <1>1, <1>2, <1>3, OptByFibres
<1>6. SumOpt([pair \in pairs |-> v[pair]]) = OptOver(v, pairs)
  BY <1>1, OptOfSum
<1> QED
  BY <1>1, <1>4, <1>5, <1>6 DEF U

(* What some of the assets that are held gain, listed asset by asset.      *)
HeldAssets == {pair[2] : pair \in HeldPairs}

LEMMA GainOfAssets ==
    ASSUME LotsInv, FeeFree, NEW at \in Int, UpToDate(at),
           NEW by_asset, by_asset = ValuedByAsset(ValuedHoldings(at)),
           NEW some \in SUBSET HeldAssets, NEW open,
           open = {k \in OpenLots : k[1] \in some}
    PROVE  SumOpt([s \in some |-> by_asset[s].unrealized]) = OptOver(Unrealized(at), open)
<1> DEFINE v == [s \in HeldAssets |-> by_asset[s].unrealized]
           f == [k \in OpenLots |-> k[1]]
           U == Unrealized(at)
<1>1. IsFiniteSet(some) /\ IsFiniteSet(open) /\ open \subseteq OpenLots
  <2>1. IsFiniteSet(OpenLots) /\ open \subseteq OpenLots
    BY HeldPairsAreOpen
  <2>2. some \subseteq Assets /\ IsFiniteSet(Assets)
    BY ProfitLossAssumption DEF HeldAssets, HeldPairs
  <2> QED
    BY <2>1, <2>2, FS_Subset
<1>2. \A k \in open : f[k] \in some /\ U[k] \in Int \cup {None}
  BY UnrealizedTypes
<1>3. ASSUME NEW s \in some
      PROVE  v[s] = OptOver(U, Fibre(f, open, s))
  <2> DEFINE group == {pair \in HeldPairs : pair[2] = s}
             mine == {k \in OpenLots : PairOf(k) \in group}
  <2>1. DOMAIN ValuedHoldings(at) = HeldPairs
    BY ValuedPairs
  <2>2. v[s] = SumOpt([pair \in group |-> ValuedHoldings(at)[pair].unrealized])
    BY <2>1 DEF ValuedByAsset, HeldAssets
  <2>3. SumOpt([pair \in group |-> ValuedHoldings(at)[pair].unrealized]) = OptOver(U, mine)
    BY GainOfPairs
  <2>4. \A k \in OpenLots : PairOf(k) \in group <=> k[1] = s
    <3>1. \A k \in OpenLots : PairOf(k)[2] = k[1]
      BY DEF PairOf
    <3> QED
      BY <3>1, HeldPairsAreOpen
  <2>5. Fibre(f, open, s) = mine
    BY <2>4 DEF Fibre
  <2> QED
    BY <2>2, <2>3, <2>5
<1>4. [s \in some |-> by_asset[s].unrealized] = [s \in some |-> v[s]]
  OBVIOUS
<1> HIDE DEF v, f, U
<1>5. OptOver(v, some) = OptOver(U, open)
  BY ONLY <1>1, <1>2, <1>3, OptByFibres
<1>6. SumOpt([s \in some |-> v[s]]) = OptOver(v, some)
  BY <1>1, OptOfSum
<1> QED
  BY <1>4, <1>5, <1>6 DEF U

(* What the report says of the open lots, under the headings of a grouping.*)
HeadingOf(group_by, k) == GroupKey(group_by, k[1], LotOf(k).account)

Under(group_by, key) == {k \in OpenLots : HeadingOf(group_by, k) = key}

LEMMA ReportOfOpen ==
    ASSUME LotsInv, FeeFree, NEW at \in Int, NEW group_by,
           NEW report, report = PnlReport(None, at, group_by)
    PROVE  /\ report.unrealized = OptOver(Unrealized(at), OpenLots)
           /\ {HeadingOf(group_by, k) : k \in OpenLots} \subseteq DOMAIN report.groups
           /\ \A key \in DOMAIN report.groups :
                  report.groups[key].unrealized =
                      IF key \in {HeadingOf(group_by, k) : k \in OpenLots}
                      THEN OptOver(Unrealized(at), Under(group_by, key)) ELSE None
<1> DEFINE U == Unrealized(at)
           Key(k) == GroupKey(group_by, k[1], LotOf(k).account)
           SaleKey(k) == Key(<<k[1], consumptions[k[1]][k[2]].lot>>)
           r_groups == Grouped(Realized(None, at), group_by, SaleKey)
           u_groups == Grouped(U, group_by, Key)
           headings == {HeadingOf(group_by, k) : k \in OpenLots}
<1>1. at # None /\ DOMAIN U = OpenLots /\ IsFiniteSet(OpenLots)
  BY NoneAssumption, UnrealizedTypes, HeldPairsAreOpen
<1>2. (IF at = None THEN Now ELSE at) = at
  BY <1>1
<1>3. /\ report.unrealized = SumOpt(U)
      /\ DOMAIN report.groups = DOMAIN r_groups \cup DOMAIN u_groups
      /\ \A key \in DOMAIN report.groups :
             report.groups[key].unrealized = IF key \in DOMAIN u_groups THEN u_groups[key] ELSE None
  BY <1>2 DEF PnlReport
<1>4. DOMAIN u_groups = headings
  BY <1>1 DEF Grouped, HeadingOf
<1>5. ASSUME NEW key \in headings
      PROVE  u_groups[key] = OptOver(U, Under(group_by, key))
  <2> DEFINE K == Under(group_by, key)
  <2>1. K = {k \in DOMAIN U : Key(k) = key}
    BY <1>1 DEF Under, HeadingOf
  <2>2. u_groups[key] = SumOpt([k \in K |-> U[k]])
    BY <1>4, <2>1 DEF Grouped
  <2>3. IsFiniteSet(K)
    BY <1>1, FS_Subset DEF Under
  <2> HIDE DEF K, u_groups, U
  <2> QED
    BY <2>2, <2>3, OptOfSum DEF K
<1>6. SumOpt(U) = OptOver(U, OpenLots)
  <2> DEFINE K == {k \in DOMAIN U : U[k] # None}
  <2>1. SumOpt(U) = IF K = {} THEN None ELSE SumOver(U, K)
    BY SumOfKnown
  <2> QED
    BY <1>1, <2>1 DEF OptOver
<1> HIDE DEF U, u_groups, r_groups, headings
<1> QED
  BY <1>3, <1>4, <1>5, <1>6 DEF U, headings

(* The listings of the valued holdings: what they gain under a heading is  *)
(* what the open lots under it gain, and they have the headings that open  *)
(* lots have.                                                              *)
ListsOpen(list, group_by, at) ==
    /\ DOMAIN list = {HeadingOf(group_by, k) : k \in OpenLots}
    /\ \A key \in DOMAIN list : list[key] = OptOver(Unrealized(at), Under(group_by, key))

LEMMA HeadingsHeld ==
    ASSUME LotsInv, FeeFree
    PROVE  /\ HeldAssets = {k[1] : k \in OpenLots}
           /\ \A k : /\ HeadingOf("class", k) = ClassOf[k[1]]
                     /\ HeadingOf("asset", k) = k[1]
                     /\ HeadingOf("account", k) = LotOf(k).account
                     /\ PairOf(k)[1] = LotOf(k).account /\ PairOf(k)[2] = k[1]
<1>1. \A k : PairOf(k)[1] = LotOf(k).account /\ PairOf(k)[2] = k[1]
  BY DEF PairOf
<1>2. HeldAssets = {k[1] : k \in OpenLots}
  BY <1>1, HeldPairsAreOpen DEF HeldAssets
<1>3. \A k : /\ HeadingOf("class", k) = ClassOf[k[1]]
             /\ HeadingOf("asset", k) = k[1]
             /\ HeadingOf("account", k) = LotOf(k).account
  BY DEF HeadingOf, GroupKey
<1> QED
  BY <1>1, <1>2, <1>3

LEMMA AssetsListed ==
    ASSUME LotsInv, FeeFree, NEW at \in Int, UpToDate(at),
           NEW by_asset, by_asset = ValuedByAsset(ValuedHoldings(at))
    PROVE  /\ DOMAIN by_asset = HeldAssets
           /\ ListsOpen([s \in DOMAIN by_asset |-> by_asset[s].unrealized], "asset", at)
           /\ SumOpt([s \in DOMAIN by_asset |-> by_asset[s].unrealized])
                = OptOver(Unrealized(at), OpenLots)
<1> DEFINE list == [s \in DOMAIN by_asset |-> by_asset[s].unrealized]
<1>1. DOMAIN by_asset = HeldAssets
  BY ValuedPairs DEF ValuedByAsset, HeldAssets
<1>2. OpenLots = {k \in OpenLots : k[1] \in HeldAssets}
  BY HeadingsHeld
<1>3. SumOpt([s \in HeldAssets |-> by_asset[s].unrealized]) = OptOver(Unrealized(at), OpenLots)
  BY <1>2, GainOfAssets
<1>4. ASSUME NEW s \in HeldAssets
      PROVE  by_asset[s].unrealized = OptOver(Unrealized(at), Under("asset", s))
  <2> DEFINE group == {pair \in HeldPairs : pair[2] = s}
             open == Under("asset", s)
  <2>1. by_asset[s].unrealized = SumOpt([pair \in group |-> ValuedHoldings(at)[pair].unrealized])
    BY ValuedPairs DEF ValuedByAsset, HeldAssets
  <2>2. open = {k \in OpenLots : PairOf(k) \in group}
    BY HeadingsHeld, HeldPairsAreOpen DEF Under
  <2> HIDE DEF open
  <2>3. SumOpt([pair \in group |-> ValuedHoldings(at)[pair].unrealized])
          = OptOver(Unrealized(at), open)
    BY <2>2, GainOfPairs
  <2> QED
    BY <2>1, <2>3 DEF open
<1>5. DOMAIN list = {HeadingOf("asset", k) : k \in OpenLots}
  BY <1>1, HeadingsHeld
<1>6. ListsOpen(list, "asset", at)
  BY <1>1, <1>4, <1>5 DEF ListsOpen
<1> QED
  BY <1>1, <1>3, <1>6

LEMMA AccountsListed ==
    ASSUME LotsInv, FeeFree, NEW at \in Int, UpToDate(at), NEW holdings,
           holdings = ValuedHoldings(at)
    PROVE  ListsOpen([a \in {pair[1] : pair \in DOMAIN holdings} |->
                         SumOpt([pair \in {p \in DOMAIN holdings : p[1] = a} |->
                                    holdings[pair].unrealized])], "account", at)
<1> DEFINE list == [a \in {pair[1] : pair \in DOMAIN holdings} |->
                       SumOpt([pair \in {p \in DOMAIN holdings : p[1] = a} |->
                                  holdings[pair].unrealized])]
<1>1. DOMAIN holdings = HeldPairs
  BY ValuedPairs
<1>2. DOMAIN list = {HeadingOf("account", k) : k \in OpenLots}
  <2>1. {pair[1] : pair \in HeldPairs} = {LotOf(k).account : k \in OpenLots}
    BY HeadingsHeld, HeldPairsAreOpen
  <2> QED
    BY <1>1, <2>1, HeadingsHeld
<1>3. ASSUME NEW a \in DOMAIN list
      PROVE  list[a] = OptOver(Unrealized(at), Under("account", a))
  <2> DEFINE group == {pair \in HeldPairs : pair[1] = a}
             open == Under("account", a)
  <2>1. list[a] = SumOpt([pair \in group |-> ValuedHoldings(at)[pair].unrealized])
    BY <1>1
  <2>2. open = {k \in OpenLots : PairOf(k) \in group}
    BY HeadingsHeld, HeldPairsAreOpen DEF Under
  <2> HIDE DEF open
  <2>3. SumOpt([pair \in group |-> ValuedHoldings(at)[pair].unrealized])
          = OptOver(Unrealized(at), open)
    BY <2>2, GainOfPairs
  <2> QED
    BY <2>1, <2>3 DEF open
<1> HIDE DEF list
<1>4. ListsOpen(list, "account", at)
  BY <1>2, <1>3 DEF ListsOpen
<1> QED
  BY <1>4 DEF list

LEMMA ClassesListed ==
    ASSUME LotsInv, FeeFree, NEW at \in Int, UpToDate(at),
           NEW by_asset, by_asset = ValuedByAsset(ValuedHoldings(at)),
           NEW by_class, by_class = ValuedByClass(by_asset)
    PROVE  ListsOpen([c \in DOMAIN by_class |->
                         SumOpt([s \in DOMAIN by_class[c] |-> by_class[c][s].unrealized])],
                     "class", at)
<1> DEFINE list == [c \in DOMAIN by_class |->
                       SumOpt([s \in DOMAIN by_class[c] |-> by_class[c][s].unrealized])]
<1>1. DOMAIN by_asset = HeldAssets
  BY AssetsListed
<1>2. DOMAIN by_class = {ClassOf[s] : s \in HeldAssets}
  BY <1>1 DEF ValuedByClass
<1>3. DOMAIN list = {HeadingOf("class", k) : k \in OpenLots}
  <2>1. {ClassOf[s] : s \in HeldAssets} = {ClassOf[k[1]] : k \in OpenLots}
    BY HeadingsHeld
  <2> QED
    BY <1>2, <2>1, HeadingsHeld
<1>4. ASSUME NEW c \in DOMAIN list
      PROVE  list[c] = OptOver(Unrealized(at), Under("class", c))
  <2> DEFINE some == {s \in HeldAssets : ClassOf[s] = c}
             open == Under("class", c)
  <2>1. by_class[c] = [s \in some |-> by_asset[s]]
    BY <1>1, <1>2 DEF ValuedByClass
  <2>2. list[c] = SumOpt([s \in some |-> by_asset[s].unrealized])
    <3>1. list[c] = SumOpt([s \in DOMAIN by_class[c] |-> by_class[c][s].unrealized])
      OBVIOUS
    <3>2. [s \in DOMAIN by_class[c] |-> by_class[c][s].unrealized]
            = [s \in some |-> by_asset[s].unrealized]
      BY <2>1
    <3> QED
      BY <3>1, <3>2
  <2>3. open = {k \in OpenLots : k[1] \in some}
    BY HeadingsHeld DEF Under
  <2> HIDE DEF open
  <2>4. SumOpt([s \in some |-> by_asset[s].unrealized]) = OptOver(Unrealized(at), open)
    BY <2>3, GainOfAssets
  <2> QED
    BY <2>2, <2>4 DEF open
<1> HIDE DEF list
<1>5. ListsOpen(list, "class", at)
  BY <1>3, <1>4 DEF ListsOpen
<1> QED
  BY <1>5 DEF list

(* The two reports of what is not realized tell the same story, in total   *)
(* and under every heading, at every date that no row comes after, however *)
(* many accounts, assets, days, prices and requests there are.             *)
THEOREM LedgerViewsAgree == ASSUME FeeFree PROVE PricedSpec => []ViewsAgree
<1>1. LotsInv => ViewsAgree
  <2> SUFFICES ASSUME LotsInv, NEW at \in Days, UpToDate(at)
               PROVE  LET holdings == ValuedHoldings(at)
                          by_asset == ValuedByAsset(holdings)
                          by_class == ValuedByClass(by_asset)
                          Sums(rows) == SumOpt([s \in DOMAIN rows |-> rows[s].unrealized])
                          Listed == [class   |-> [c \in DOMAIN by_class |-> Sums(by_class[c])],
                                     asset   |-> [s \in DOMAIN by_asset |-> by_asset[s].unrealized],
                                     account |-> [a \in {pair[1] : pair \in DOMAIN holdings} |->
                                                    SumOpt([pair \in {p \in DOMAIN holdings : p[1] = a} |->
                                                               holdings[pair].unrealized])]]
                      IN  \A group_by \in Groupings :
                            LET report == PnlReport(None, at, group_by)
                            IN  /\ report.unrealized = Sums(by_asset)
                                /\ \A key \in DOMAIN report.groups :
                                       report.groups[key].unrealized =
                                           IF key \in DOMAIN Listed[group_by]
                                           THEN Listed[group_by][key] ELSE None
                                /\ DOMAIN Listed[group_by] \subseteq DOMAIN report.groups
    BY Zenon DEF ViewsAgree, UpToDate
  <2>1. at \in Int
    BY TransactionsAssumption
  <2> DEFINE holdings == ValuedHoldings(at)
             by_asset == ValuedByAsset(holdings)
             by_class == ValuedByClass(by_asset)
             Sums(rows) == SumOpt([s \in DOMAIN rows |-> rows[s].unrealized])
             classes == [c \in DOMAIN by_class |-> Sums(by_class[c])]
             assets == [s \in DOMAIN by_asset |-> by_asset[s].unrealized]
             accounts == [a \in {pair[1] : pair \in DOMAIN holdings} |->
                             SumOpt([pair \in {p \in DOMAIN holdings : p[1] = a} |->
                                        holdings[pair].unrealized])]
             Listed == [class |-> classes, asset |-> assets, account |-> accounts]
  <2>2. ListsOpen(classes, "class", at)
    BY <2>1, ClassesListed
  <2>3. ListsOpen(assets, "asset", at) /\ Sums(by_asset) = OptOver(Unrealized(at), OpenLots)
    BY <2>1, AssetsListed
  <2>4. ListsOpen(accounts, "account", at)
    BY <2>1, AccountsListed
  <2> HIDE DEF classes, assets, accounts
  <2>5. ASSUME NEW group_by \in Groupings
        PROVE  ListsOpen(Listed[group_by], group_by, at)
    BY <2>2, <2>3, <2>4 DEF Groupings
  <2> HIDE DEF Listed
  <2>6. ASSUME NEW group_by \in Groupings, NEW report, report = PnlReport(None, at, group_by)
        PROVE  /\ report.unrealized = Sums(by_asset)
               /\ \A key \in DOMAIN report.groups :
                      report.groups[key].unrealized =
                          IF key \in DOMAIN Listed[group_by] THEN Listed[group_by][key] ELSE None
               /\ DOMAIN Listed[group_by] \subseteq DOMAIN report.groups
    <3> DEFINE list == Listed[group_by]
               headings == {HeadingOf(group_by, k) : k \in OpenLots}
               U == Unrealized(at)
    <3>1. DOMAIN list = headings /\ \A key \in headings : list[key] = OptOver(U, Under(group_by, key))
      BY <2>5 DEF ListsOpen
    <3>2. /\ report.unrealized = OptOver(U, OpenLots)
          /\ headings \subseteq DOMAIN report.groups
          /\ \A key \in DOMAIN report.groups :
                 report.groups[key].unrealized =
                     IF key \in headings THEN OptOver(U, Under(group_by, key)) ELSE None
      BY <2>1, <2>6, ReportOfOpen
    <3>3. report.unrealized = Sums(by_asset)
      BY <2>3, <3>2
    <3> HIDE DEF list, headings, U, Sums, by_asset
    <3>4. /\ \A key \in DOMAIN report.groups :
                 report.groups[key].unrealized = IF key \in DOMAIN list THEN list[key] ELSE None
          /\ DOMAIN list \subseteq DOMAIN report.groups
      BY <3>1, <3>2
    <3> QED
      BY <3>3, <3>4 DEF list
  <2> QED
    BY <2>6, Zenon DEF Listed, classes, assets, accounts
<1> QED
  BY <1>1, PricedInvariant, PTL
=============================================================================
