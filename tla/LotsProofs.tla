----------------------------- MODULE LotsProofs -----------------------------
(***************************************************************************)
(* What the lot engine computes, of any rows and any number of them: the   *)
(* order of a replay, what every row of it does, and what is true of the   *)
(* lots and consumptions after it.                                         *)
(***************************************************************************)
EXTENDS Transactions, SumTheorems, SequenceTheorems, FunctionTheorems

-----------------------------------------------------------------------------
(* Sorting by a strict order.                                              *)
IsOrder(before, S) ==
    /\ \A x \in S : <<x, x>> \notin before
    /\ \A x, y, z \in S : <<x, y>> \in before /\ <<y, z>> \in before => <<x, z>> \in before
    /\ \A x, y \in S : x = y \/ <<x, y>> \in before \/ <<y, x>> \in before

Ahead(S, before, x) == {y \in S : <<y, x>> \in before}

(* The elements are as many as the ranks they can have, and have different *)
(* ones, so that there is one of every rank.                               *)
LEMMA EveryRankTaken ==
    ASSUME NEW S, IsFiniteSet(S), NEW before, IsOrder(before, S)
    PROVE  /\ \A x, y \in S : <<x, y>> \in before =>
                  Cardinality(Ahead(S, before, x)) < Cardinality(Ahead(S, before, y))
           /\ \A x \in S : Cardinality(Ahead(S, before, x)) \in 0..(Cardinality(S) - 1)
           /\ \A k \in 1..Cardinality(S) : \E x \in S : Cardinality(Ahead(S, before, x)) = k - 1
<1> DEFINE rank == [x \in S |-> Cardinality(Ahead(S, before, x))]
           n == Cardinality(S)
<1>1. \A x \in S : IsFiniteSet(Ahead(S, before, x)) /\ rank[x] \in Nat
  BY FS_Subset, FS_CardinalityType DEF Ahead
<1>2. ASSUME NEW x \in S, NEW y \in S, <<x, y>> \in before
      PROVE  rank[x] < rank[y]
  <2>1. Ahead(S, before, x) \cup {x} \subseteq Ahead(S, before, y) /\ x \notin Ahead(S, before, x)
    BY <1>2 DEF IsOrder, Ahead
  <2>2. Cardinality(Ahead(S, before, x) \cup {x}) = rank[x] + 1
    BY <1>1, <2>1, FS_AddElement
  <2>3. Cardinality(Ahead(S, before, x) \cup {x}) <= rank[y]
    BY <1>1, <2>1, FS_Subset
  <2> QED
    BY <1>1, <2>2, <2>3
<1>3. ASSUME NEW x \in S
      PROVE  rank[x] \in 0..(n - 1)
  <2>1. Ahead(S, before, x) \subseteq S \ {x}
    BY DEF IsOrder, Ahead
  <2>2. IsFiniteSet(S \ {x}) /\ Cardinality(S \ {x}) = n - 1
    BY FS_RemoveElement
  <2>3. rank[x] <= n - 1
    BY <2>1, <2>2, FS_Subset
  <2> QED
    BY <1>1, <2>3, FS_CardinalityType
<1>4. n \in Nat
  BY FS_CardinalityType
<1>5. IsFiniteSet(0..(n - 1)) /\ Cardinality(0..(n - 1)) = n
  <2>1. IsFiniteSet(0..(n - 1)) /\ Cardinality(0..(n - 1)) = IF 0 > n - 1 THEN 0 ELSE (n - 1) - 0 + 1
    BY <1>4, FS_Interval
  <2> QED
    BY <1>4, <2>1
<1>6. rank \in Injection(S, 0..(n - 1))
  <2>1. ASSUME NEW x \in S, NEW y \in S, rank[x] = rank[y]
        PROVE  x = y
    <3>1. x = y \/ <<x, y>> \in before \/ <<y, x>> \in before
      BY DEF IsOrder
    <3> HIDE DEF rank
    <3> QED
      BY <1>1, <1>2, <2>1, <3>1
  <2>2. rank \in [S -> 0..(n - 1)]
    BY <1>3
  <2> HIDE DEF rank, n
  <2> QED
    BY <2>1, <2>2, Fun_IsInj
<1>7. rank \in Surjection(S, 0..(n - 1))
  <2> HIDE DEF rank
  <2> QED
    BY <1>4, <1>5, <1>6, FS_Injection
<1>8. ASSUME NEW k \in 1..n
      PROVE  \E x \in S : rank[x] = k - 1
  <2>1. k - 1 \in 0..(n - 1)
    BY <1>4
  <2> HIDE DEF rank, n
  <2> QED
    BY <1>7, <2>1 DEF Surjection
<1> QED
  BY <1>2, <1>3, <1>8

(* A sorted set is a sequence of its elements, each of them once, in the   *)
(* order they were sorted by.                                              *)
IsListing(order, S, before) ==
    /\ Len(order) \in Nat /\ DOMAIN order = 1..Len(order) /\ order \in Seq(S)
    /\ Len(order) = Cardinality(S)
    /\ \A k \in DOMAIN order : order[k] \in S
    /\ \A x \in S : \E k \in DOMAIN order : order[k] = x
    /\ \A k, m \in DOMAIN order : k < m => <<order[k], order[m]>> \in before
    /\ \A k, m \in DOMAIN order : order[k] = order[m] => k = m

LEMMA SortedLists ==
    ASSUME NEW S, IsFiniteSet(S), NEW before, IsOrder(before, S)
    PROVE  IsListing(Sorted(S, before), S, before)
<1> DEFINE n == Cardinality(S)
           order == Sorted(S, before)
<1>1. n \in Nat
  BY FS_CardinalityType
<1>2. ASSUME NEW k \in 1..n
      PROVE  order[k] \in S /\ Cardinality(Ahead(S, before, order[k])) = k - 1
  <2>1. \E x \in S : Cardinality(Ahead(S, before, x)) = k - 1
    BY EveryRankTaken
  <2>2. order[k] = CHOOSE x \in S : Cardinality(Ahead(S, before, x)) = k - 1
    BY DEF Sorted, Ahead
  <2> HIDE DEF order
  <2> QED
    BY <2>1, <2>2
<1>3. DOMAIN order = 1..n /\ order \in [1..n -> S]
  <2> DEFINE At(k) == CHOOSE x \in S : Cardinality({y \in S : <<y, x>> \in before}) = k - 1
  <2>1. order = [k \in 1..n |-> At(k)]
    BY DEF Sorted
  <2> HIDE DEF order, n, At
  <2>2. \A k \in 1..n : At(k) \in S
    BY <1>2, <2>1
  <2> QED
    BY <2>1, <2>2
<1> HIDE DEF order
<1>4. order \in Seq(S) /\ Len(order) = n
  BY <1>1, <1>3
<1>5. ASSUME NEW k \in 1..n, NEW m \in 1..n
      PROVE  /\ k < m => <<order[k], order[m]>> \in before
             /\ order[k] = order[m] => k = m
  <2>1. /\ order[k] \in S /\ Cardinality(Ahead(S, before, order[k])) = k - 1
        /\ order[m] \in S /\ Cardinality(Ahead(S, before, order[m])) = m - 1
    BY <1>2
  <2>2. <<order[m], order[k]>> \in before =>
            Cardinality(Ahead(S, before, order[m])) < Cardinality(Ahead(S, before, order[k]))
    BY <2>1, EveryRankTaken
  <2>3. \/ order[k] = order[m] \/ <<order[k], order[m]>> \in before
        \/ <<order[m], order[k]>> \in before
    BY <2>1 DEF IsOrder
  <2> QED
    BY <1>1, <2>1, <2>2, <2>3
<1>6. ASSUME NEW x \in S
      PROVE  \E k \in 1..n : order[k] = x
  <2>1. Cardinality(Ahead(S, before, x)) \in 0..(n - 1)
    BY EveryRankTaken
  <2> DEFINE k == Cardinality(Ahead(S, before, x)) + 1
  <2>2. k \in 1..n /\ Cardinality(Ahead(S, before, x)) = k - 1
    BY <1>1, <2>1
  <2> HIDE DEF k
  <2>3. order[k] \in S /\ Cardinality(Ahead(S, before, order[k])) = k - 1
    BY <1>2, <2>2
  <2>4. /\ <<x, order[k]>> \in before =>
              Cardinality(Ahead(S, before, x)) < Cardinality(Ahead(S, before, order[k]))
        /\ <<order[k], x>> \in before =>
              Cardinality(Ahead(S, before, order[k])) < Cardinality(Ahead(S, before, x))
    BY <2>3, EveryRankTaken
  <2>5. order[k] = x \/ <<x, order[k]>> \in before \/ <<order[k], x>> \in before
    BY <2>3 DEF IsOrder
  <2> QED
    BY <1>1, <2>2, <2>3, <2>4, <2>5
<1> QED
  BY <1>1, <1>2, <1>3, <1>4, <1>5, <1>6 DEF IsListing, order

-----------------------------------------------------------------------------
(* The rows a rebuild reads, and the order it replays them in.             *)
Relevant(rows, asset) == {i \in DOMAIN rows : Counts(rows[i]) /\ LegsIn(rows[i], asset) # {}}

Earlier(rows, asset) ==
    {p \in Relevant(rows, asset) \X Relevant(rows, asset) : ReplayBefore(rows, p[1], p[2])}

IsRows(rows) ==
    /\ IsFiniteSet(DOMAIN rows) /\ DOMAIN rows \subseteq Nat
    /\ \A i \in DOMAIN rows : rows[i] \in Transaction

LEMMA ReplayOrder ==
    ASSUME NEW rows, IsRows(rows), NEW asset
    PROVE  IsListing(Replayed(rows, asset), Relevant(rows, asset), Earlier(rows, asset))
<1> DEFINE S == Relevant(rows, asset)
           before == Earlier(rows, asset)
<1>1. IsFiniteSet(S)
  BY FS_Subset DEF Relevant, IsRows
<1>2. \A i \in S : i \in Int /\ rows[i].occurred_at \in Int
  <2>1. ASSUME NEW i \in S
        PROVE  i \in Int /\ rows[i].occurred_at \in Int
    <3>1. i \in DOMAIN rows
      BY DEF Relevant
    <3>2. i \in Nat /\ rows[i] \in Transaction
      BY <3>1 DEF IsRows
    <3>3. rows[i].occurred_at \in Days
      BY <3>2 DEF Transaction
    <3>4. Days \subseteq Int
      BY TransactionsAssumption
    <3>5. i \in Int
      BY <3>2
    <3>6. rows[i].occurred_at \in Int
      BY <3>3, <3>4, Zenon
    <3> QED
      BY <3>5, <3>6, Zenon
  <2> QED
    BY <2>1
<1>3. \A x, y \in S : <<x, y>> \in before <=> ReplayBefore(rows, x, y)
  BY DEF Earlier
<1>4. IsOrder(before, S)
  <2> HIDE DEF S, before
  <2>1. \A x \in S : <<x, x>> \notin before
    BY <1>2, <1>3 DEF ReplayBefore
  <2>2. \A x, y, z \in S : <<x, y>> \in before /\ <<y, z>> \in before => <<x, z>> \in before
    BY <1>2, <1>3 DEF ReplayBefore
  <2>3. ASSUME NEW x \in S, NEW y \in S
        PROVE  x = y \/ <<x, y>> \in before \/ <<y, x>> \in before
    <3>1. /\ x \in Int /\ rows[x].occurred_at \in Int
          /\ y \in Int /\ rows[y].occurred_at \in Int
      BY <1>2
    <3>2. x = y \/ ReplayBefore(rows, x, y) \/ ReplayBefore(rows, y, x)
      BY <3>1 DEF ReplayBefore
    <3> QED
      BY <1>3, <3>2
  <2> QED
    BY <2>1, <2>2, <2>3 DEF IsOrder
<1>5. Replayed(rows, asset) = Sorted(S, before)
  BY DEF Replayed, Relevant, Earlier
<1> HIDE DEF S, before
<1>6. IsListing(Sorted(S, before), S, before)
  BY <1>1, <1>4, SortedLists
<1> QED
  BY <1>5, <1>6 DEF S, before

Older(held, indices) == {p \in indices \X indices : FifoBefore(held, p[1], p[2])}

LEMMA FifoLists ==
    ASSUME NEW held, NEW indices, IsFiniteSet(indices),
           \A i \in indices : i \in Int /\ held[i].acquired_at \in Int
    PROVE  IsListing(FifoOrder(held, indices), indices, Older(held, indices))
<1> DEFINE before == Older(held, indices)
<1>1. \A x, y \in indices : <<x, y>> \in before <=> FifoBefore(held, x, y)
  BY DEF Older
<1>2. IsOrder(before, indices)
  <2> HIDE DEF before
  <2>1. \A x \in indices : <<x, x>> \notin before
    BY <1>1 DEF FifoBefore
  <2>2. \A x, y, z \in indices : <<x, y>> \in before /\ <<y, z>> \in before => <<x, z>> \in before
    BY <1>1 DEF FifoBefore
  <2>3. ASSUME NEW x \in indices, NEW y \in indices
        PROVE  x = y \/ <<x, y>> \in before \/ <<y, x>> \in before
    <3>1. /\ x \in Int /\ held[x].acquired_at \in Int
          /\ y \in Int /\ held[y].acquired_at \in Int
      OBVIOUS
    <3>2. x = y \/ FifoBefore(held, x, y) \/ FifoBefore(held, y, x)
      BY <3>1 DEF FifoBefore
    <3> QED
      BY <1>1, <3>2
  <2> QED
    BY <2>1, <2>2, <2>3 DEF IsOrder
<1>3. FifoOrder(held, indices) = Sorted(indices, before)
  BY DEF FifoOrder, Older
<1> HIDE DEF before
<1>4. IsListing(Sorted(indices, before), indices, before)
  BY <1>2, SortedLists
<1> QED
  BY <1>3, <1>4 DEF before

-----------------------------------------------------------------------------
(* A replay, row by row: the states it goes through.                       *)
Nothing == [lots |-> <<>>, consumptions |-> <<>>, short |-> FALSE]

IsReplay(f, rows, table, asset, order) ==
    /\ f[0] = Nothing
    /\ \A n \in 1..Len(order) : f[n] = ReplayTxn(f[n - 1], table, asset, rows, order[n])

LEMMA ReplayExists ==
    ASSUME NEW rows, NEW table, NEW asset, Len(Replayed(rows, asset)) \in Nat
    PROVE  \E f : /\ IsReplay(f, rows, table, asset, Replayed(rows, asset))
                  /\ Rebuild(rows, table, asset) = f[Len(Replayed(rows, asset))]
<1> DEFINE order == Replayed(rows, asset)
           N == Len(order)
           After(st, n) == CHOOSE next \in {ReplayTxn(s, table, asset, rows, order[n]) : s \in {st}} : TRUE
           Body(f, m) == [n \in 0..m |-> IF n = 0 THEN Nothing ELSE After(f[n - 1], n)]
           Good == {m \in Nat : \E f : f = Body(f, m)}
<1>1. \A st, n : After(st, n) = ReplayTxn(st, table, asset, rows, order[n])
  <2>1. ASSUME NEW st, NEW n
        PROVE  After(st, n) = ReplayTxn(st, table, asset, rows, order[n])
    <3> DEFINE v == ReplayTxn(st, table, asset, rows, order[n])
    <3>1. {ReplayTxn(s, table, asset, rows, order[n]) : s \in {st}} = {v}
      BY Zenon
    <3> HIDE DEF v
    <3>2. (CHOOSE next \in {v} : TRUE) = v
      OBVIOUS
    <3> QED
      BY <3>1, <3>2 DEF v
  <2> QED
    BY <2>1
<1> HIDE DEF After
<1>2. 0 \in Good
  <2> DEFINE f == [n \in 0..0 |-> Nothing]
  <2>1. Body(f, 0) = f
    OBVIOUS
  <2> HIDE DEF Body
  <2> QED
    BY <2>1
<1>3. ASSUME NEW m \in Nat, m \in Good
      PROVE  m + 1 \in Good
  <2>1. PICK g : g = Body(g, m)
    BY <1>3
  <2> DEFINE f == [n \in 0..(m + 1) |-> IF n <= m THEN g[n] ELSE After(g[m], m + 1)]
  <2>2. ASSUME NEW n \in 0..(m + 1)
        PROVE  f[n] = IF n = 0 THEN Nothing ELSE After(f[n - 1], n)
    <3>1. CASE n = m + 1
      <4>1. n - 1 = m /\ n - 1 \in 0..(m + 1) /\ n - 1 <= m /\ ~(n <= m) /\ n # 0
        BY <3>1
      <4>2. f[n] = After(g[m], m + 1) /\ f[n - 1] = g[m]
        BY <4>1
      <4> HIDE DEF f
      <4> QED
        BY <3>1, <4>1, <4>2
    <3>2. CASE n <= m
      <4>1. n \in 0..m /\ f[n] = g[n]
        BY <3>2
      <4>2. g[n] = IF n = 0 THEN Nothing ELSE After(g[n - 1], n)
        BY <2>1, <4>1
      <4>3. n # 0 => f[n - 1] = g[n - 1]
        BY <3>2
      <4> HIDE DEF f
      <4> QED
        BY <4>1, <4>2, <4>3
    <3> QED
      BY <3>1, <3>2
  <2>3. f = Body(f, m + 1)
    <3>1. f = [n \in 0..(m + 1) |-> f[n]]
      OBVIOUS
    <3> HIDE DEF f
    <3> QED
      BY <2>2, <3>1
  <2> HIDE DEF f, Body
  <2> QED
    BY <2>3
<1>4. N \in Good
  <2> HIDE DEF Good, N, order
  <2>1. Nat \subseteq Good
    BY <1>2, <1>3, NatSetInduction
  <2> QED
    BY <2>1 DEF N, order
<1> DEFINE replay == CHOOSE f : f = Body(f, N)
<1>5. replay = Body(replay, N)
  <2>1. \E f : f = Body(f, N)
    BY <1>4
  <2> HIDE DEF Body
  <2> QED
    BY <2>1
<1>6. Rebuild(rows, table, asset) = replay[N]
  BY DEF Rebuild, After, Nothing
<1>7. IsReplay(replay, rows, table, asset, order)
  <2> HIDE DEF replay, N, order
  <2>1. replay[0] = Nothing
    BY <1>5 DEF N, order
  <2>2. ASSUME NEW n \in 1..N
        PROVE  replay[n] = ReplayTxn(replay[n - 1], table, asset, rows, order[n])
    <3>1. n \in 0..N /\ n # 0
      BY DEF N, order
    <3>2. replay[n] = After(replay[n - 1], n)
      BY <1>5, <3>1
    <3> QED
      BY <1>1, <3>2
  <2> QED
    BY <2>1, <2>2 DEF IsReplay, N
<1> QED
  BY <1>6, <1>7

-----------------------------------------------------------------------------
(* The legs of a row: one leg, signed as its type says, or an outflow and  *)
(* an inflow.                                                              *)
Shaped(type, legs) ==
    \/ /\ type \in SingleLegTypes
       /\ DOMAIN legs = {1} /\ legs[1].quantity # 0
       /\ type \in Inbound <=> legs[1].quantity > 0
    \/ /\ type \in MultiLegTypes
       /\ \E out, in \in 1..2 :
            /\ DOMAIN legs = {out, in} /\ legs[out].quantity < 0 /\ legs[in].quantity > 0
            /\ type = "trade" => legs[out].asset # legs[in].asset
            /\ type = "transfer" => /\ legs[out].asset = legs[in].asset
                                    /\ legs[out].account # legs[in].account
                                    /\ legs[out].quantity + legs[in].quantity <= 0

(* All that a transfer sends arrives.                                      *)
Whole(type, legs) ==
    type = "transfer" =>
        \A k, l \in DOMAIN legs : k # l => legs[k].quantity + legs[l].quantity = 0

(* What the rows a command writes are made of.                             *)
LEMMA RowType ==
    ASSUME NEW type \in SingleLegTypes \cup MultiLegTypes, NEW day \in Days,
           NEW legs \in Seq(Leg)
    PROVE  Row(type, day, legs) \in Transaction
BY DEF Row, Transaction

LEMMA NegatedType ==
    ASSUME NEW legs \in Seq(Leg)
    PROVE  Negated(legs) \in Seq(Leg)
<1>1. ASSUME NEW l \in DOMAIN legs
      PROVE  [legs[l] EXCEPT !.quantity = -@] \in Leg
  <2>1. legs[l] \in Leg
    OBVIOUS
  <2> QED
    BY <2>1 DEF Leg
<1>2. DOMAIN legs = 1..Len(legs) /\ Len(legs) \in Nat
  OBVIOUS
<1> QED
  BY <1>1, <1>2, IsASeq DEF Negated

LEMMA ReversalType ==
    ASSUME NEW txn \in Transaction, NEW id \in Nat
    PROVE  Reversal(txn, id) \in Transaction
<1>1. Negated(txn.legs) \in Seq(Leg)
  BY NegatedType DEF Transaction
<1> QED
  BY <1>1, TransactionsAssumption DEF Reversal, Row, Transaction

(* What one row does to the lots of an asset: units come, units go, or     *)
(* units are carried from one account to another.                          *)
Comes(txn, asset, l) ==
    /\ l \in DOMAIN txn.legs /\ LegsIn(txn, asset) = {l} /\ txn.type # "transfer"
    /\ txn.legs[l].asset = asset /\ txn.legs[l].quantity > 0

Goes(txn, asset, l) ==
    /\ l \in DOMAIN txn.legs /\ LegsIn(txn, asset) = {l} /\ txn.type # "transfer"
    /\ txn.legs[l].asset = asset /\ txn.legs[l].quantity < 0

Carries(txn, asset, out, in) ==
    /\ txn.type = "transfer" /\ out # in
    /\ DOMAIN txn.legs = {out, in} /\ LegsIn(txn, asset) = {out, in}
    /\ txn.legs[out].asset = asset /\ txn.legs[in].asset = asset
    /\ txn.legs[out].account # txn.legs[in].account
    /\ txn.legs[out].quantity < 0 /\ txn.legs[in].quantity > 0
    /\ txn.legs[out].quantity + txn.legs[in].quantity <= 0

Moved(st, rows, id, out, in) ==
    [lots |-> Consume(st.lots, rows[id].legs[out].account, -rows[id].legs[out].quantity)
                \o CarriedLots(st.lots, rows, id, out, in),
     consumptions |-> st.consumptions,
     short |-> Shortfall(st.lots, rows[id].legs[out].account, -rows[id].legs[out].quantity)]

LEMMA ShapesOfRows ==
    ASSUME NEW txn \in Transaction, Shaped(txn.type, txn.legs), NEW asset, LegsIn(txn, asset) # {}
    PROVE  \/ \E l : Comes(txn, asset, l) \/ Goes(txn, asset, l)
           \/ \E out, in : Carries(txn, asset, out, in)
<1>1. \A l \in DOMAIN txn.legs : txn.legs[l].quantity \in Int
  <2>1. \A l \in DOMAIN txn.legs : txn.legs[l] \in Leg
    BY DEF Transaction
  <2> QED
    BY <2>1 DEF Leg
<1>2. CASE /\ txn.type \in SingleLegTypes
           /\ DOMAIN txn.legs = {1} /\ txn.legs[1].quantity # 0
  <2>1. LegsIn(txn, asset) = {1} /\ txn.legs[1].asset = asset
    BY <1>2 DEF LegsIn
  <2>2. txn.type # "transfer"
    BY <1>2 DEF SingleLegTypes
  <2>3. Comes(txn, asset, 1) \/ Goes(txn, asset, 1)
    BY <1>1, <1>2, <2>1, <2>2 DEF Comes, Goes
  <2> QED
    BY <2>3
<1>3. ASSUME NEW out \in 1..2, NEW in \in 1..2,
             DOMAIN txn.legs = {out, in}, txn.legs[out].quantity < 0, txn.legs[in].quantity > 0,
             txn.type = "trade", txn.legs[out].asset # txn.legs[in].asset
      PROVE  \E l : Comes(txn, asset, l) \/ Goes(txn, asset, l)
  <2>1. CASE txn.legs[out].asset = asset
    <3>1. LegsIn(txn, asset) = {out}
      BY <1>3, <2>1 DEF LegsIn
    <3>2. Goes(txn, asset, out)
      BY <1>3, <2>1, <3>1 DEF Goes
    <3> QED
      BY <3>2
  <2>2. CASE txn.legs[in].asset = asset
    <3>1. LegsIn(txn, asset) = {in}
      BY <1>3, <2>2 DEF LegsIn
    <3>2. Comes(txn, asset, in)
      BY <1>3, <2>2, <3>1 DEF Comes
    <3> QED
      BY <3>2
  <2> QED
    BY <1>3, <2>1, <2>2 DEF LegsIn
<1>4. ASSUME NEW out \in 1..2, NEW in \in 1..2,
             DOMAIN txn.legs = {out, in}, txn.legs[out].quantity < 0, txn.legs[in].quantity > 0,
             txn.type = "transfer",
             txn.legs[out].asset = txn.legs[in].asset,
             txn.legs[out].account # txn.legs[in].account,
             txn.legs[out].quantity + txn.legs[in].quantity <= 0
      PROVE  \E o, i : Carries(txn, asset, o, i)
  <2>1. txn.legs[out].asset = asset /\ txn.legs[in].asset = asset
    BY <1>4 DEF LegsIn
  <2>2. LegsIn(txn, asset) = {out, in}
    BY <1>4, <2>1 DEF LegsIn
  <2>3. out # in
    BY <1>4
  <2>4. Carries(txn, asset, out, in)
    BY <1>4, <2>1, <2>2, <2>3 DEF Carries
  <2> QED
    BY <2>4
<1>5. txn.type \in MultiLegTypes => txn.type = "trade" \/ txn.type = "transfer"
  BY DEF MultiLegTypes
<1> QED
  BY <1>2, <1>3, <1>4, <1>5 DEF Shaped

IsState(st) == st = [lots |-> st.lots, consumptions |-> st.consumptions, short |-> st.short]

LEMMA RowEffects ==
    ASSUME NEW rows, NEW id, rows[id] \in Transaction, Shaped(rows[id].type, rows[id].legs),
           NEW asset, LegsIn(rows[id], asset) # {}, NEW table, NEW st, IsState(st), ~st.short
    PROVE  LET next == ReplayTxn(st, table, asset, rows, id)
           IN  \/ \E l : Comes(rows[id], asset, l) /\ next = Increase(st, table, asset, rows, id, l)
               \/ \E l : Goes(rows[id], asset, l) /\ next = Decrease(st, rows, id, l)
               \/ \E out, in : Carries(rows[id], asset, out, in)
                                  /\ next = Moved(st, rows, id, out, in)
<1> DEFINE next == ReplayTxn(st, table, asset, rows, id)
<1>1. ASSUME NEW l, Comes(rows[id], asset, l)
      PROVE  next = Increase(st, table, asset, rows, id, l)
  <2>1. (CHOOSE leg \in LegsIn(rows[id], asset) : TRUE) = l
    BY <1>1 DEF Comes
  <2>2. rows[id].type # "transfer" /\ rows[id].legs[l].quantity > 0
    BY <1>1 DEF Comes
  <2> QED
    BY <2>1, <2>2 DEF ReplayTxn
<1>2. ASSUME NEW l, Goes(rows[id], asset, l)
      PROVE  next = Decrease(st, rows, id, l)
  <2>1. (CHOOSE leg \in LegsIn(rows[id], asset) : TRUE) = l
    BY <1>2 DEF Goes
  <2>2. rows[id].type # "transfer" /\ ~(rows[id].legs[l].quantity > 0)
    <3>1. rows[id].legs[l] \in Leg
      BY <1>2 DEF Goes, Transaction
    <3> QED
      BY <1>2, <3>1 DEF Goes, Leg
  <2> QED
    BY <2>1, <2>2 DEF ReplayTxn
<1>3. ASSUME NEW out, NEW in, Carries(rows[id], asset, out, in)
      PROVE  next = Moved(st, rows, id, out, in)
  <2> DEFINE txn == rows[id]
  <2>1. txn.legs[out].quantity \in Int /\ txn.legs[in].quantity \in Int
    <3>1. rows[id].legs[out] \in Leg /\ rows[id].legs[in] \in Leg
      BY <1>3 DEF Carries, Transaction
    <3> QED
      BY <3>1 DEF Leg
  <2>2. (CHOOSE l \in DOMAIN txn.legs : txn.legs[l].quantity < 0) = out
    BY <1>3, <2>1 DEF Carries
  <2>3. (CHOOSE l \in DOMAIN txn.legs : txn.legs[l].quantity > 0) = in
    BY <1>3, <2>1 DEF Carries
  <2>4. next = ReplayTransfer(st, rows, id)
    BY <1>3 DEF Carries, ReplayTxn
  <2>5. ReplayTransfer(st, rows, id) =
          [st EXCEPT !.lots = Consume(@, txn.legs[out].account, -txn.legs[out].quantity)
                                \o CarriedLots(@, rows, id, out, in),
                     !.short = Shortfall(st.lots, txn.legs[out].account, -txn.legs[out].quantity)]
    BY <2>2, <2>3 DEF ReplayTransfer
  <2> HIDE DEF next
  <2> QED
    BY <2>4, <2>5 DEF IsState, Moved
<1> HIDE DEF next
<1> QED
  BY <1>1, <1>2, <1>3, ShapesOfRows DEF next

-----------------------------------------------------------------------------
(* Rounding keeps naturals naturals.                                       *)
LEMMA RoundDivNat ==
    ASSUME NEW a \in Nat, NEW b \in Nat \ {0} PROVE RoundDiv(a, b) \in Nat
BY DEF RoundDiv

LEMMA RoundDivExact ==
    ASSUME NEW a \in Nat, NEW b \in Nat \ {0} PROVE RoundDiv(a * b, b) = a
<1>1. (a * b) \div b = a /\ (a * b) % b = 0
  OBVIOUS
<1> QED
  BY <1>1 DEF RoundDiv

LEMMA MinMaxOfTwo ==
    ASSUME NEW a \in Int, NEW b \in Int
    PROVE  /\ Min({a, b}) = IF a <= b THEN a ELSE b
           /\ Max({a, b}) = IF a >= b THEN a ELSE b
<1>1. Min({a, b}) = IF a <= b THEN a ELSE b
  BY DEF Min
<1>2. Max({a, b}) = IF a >= b THEN a ELSE b
  BY DEF Max
<1> QED
  BY <1>1, <1>2

-----------------------------------------------------------------------------
(* The lots of an asset and what is open of them.                          *)
LotRow ==
    [account : Accounts, source_leg : Nat \X Nat, original_qty : Nat, remaining_qty : Nat,
     unit_cost : Nat \cup {None}, acquired_at : Days]

Remaining(held) == [i \in DOMAIN held |-> held[i].remaining_qty]

LEMMA LotFields ==
    ASSUME NEW held \in Seq(LotRow), NEW i \in DOMAIN held
    PROVE  /\ i \in Nat \ {0} /\ held[i] \in LotRow
           /\ held[i].account \in Accounts /\ held[i].source_leg \in Nat \X Nat
           /\ held[i].original_qty \in Nat /\ held[i].remaining_qty \in Nat
           /\ held[i].unit_cost \in Nat \cup {None}
           /\ held[i].acquired_at \in Days /\ held[i].acquired_at \in Int
           /\ Remaining(held)[i] = held[i].remaining_qty
<1>1. i \in Nat \ {0} /\ held[i] \in LotRow
  OBVIOUS
<1>2. /\ held[i].account \in Accounts /\ held[i].source_leg \in Nat \X Nat
      /\ held[i].original_qty \in Nat /\ held[i].remaining_qty \in Nat
      /\ held[i].unit_cost \in Nat \cup {None}
      /\ held[i].acquired_at \in Days
  BY <1>1 DEF LotRow
<1>3. held[i].acquired_at \in Int
  BY <1>2, TransactionsAssumption
<1> QED
  BY <1>1, <1>2, <1>3 DEF Remaining

LEMMA OpenLotsOf ==
    ASSUME NEW held \in Seq(LotRow), NEW account
    PROVE  /\ IsFiniteSet(DOMAIN held) /\ IsFiniteSet(Open(held, account))
           /\ Open(held, account) \subseteq DOMAIN held
           /\ \A i \in DOMAIN held : Remaining(held)[i] \in Nat
<1>1. IsFiniteSet(DOMAIN held)
  <2>1. DOMAIN held = 1..Len(held) /\ Len(held) \in Nat
    OBVIOUS
  <2> QED
    BY <2>1, FS_Interval
<1>2. Open(held, account) \subseteq DOMAIN held
  BY DEF Open
<1> QED
  BY <1>1, <1>2, FS_Subset, LotFields

LEMMA QuantityIsSum ==
    ASSUME NEW held \in Seq(LotRow), NEW S \in SUBSET DOMAIN held
    PROVE  /\ Quantity(held, S) = SumOver(Remaining(held), S)
           /\ IsFiniteSet(S) /\ Quantity(held, S) \in Nat
<1>1. Quantity(held, S) = SumOver(Remaining(held), S)
  BY DEF Quantity, Remaining, SumOver, MapThenSumSet, MapThenFoldSet
<1>2. IsFiniteSet(S) /\ \A i \in S : Remaining(held)[i] \in Nat
  BY OpenLotsOf, FS_Subset
<1> QED
  BY <1>1, <1>2, SumIsNat

(* What the open lots of an account before the lot i hold.                 *)
Prior(held, account, i) == {j \in Open(held, account) : FifoBefore(held, j, i)}

LEMMA TakeCases ==
    ASSUME NEW held \in Seq(LotRow), NEW account, NEW qty \in Nat, NEW i \in DOMAIN held
    PROVE  LET before == Quantity(held, Prior(held, account, i))
           IN  /\ before \in Nat
               /\ Take(held, account, qty, i) \in 0..held[i].remaining_qty
               /\ Take(held, account, qty, i) =
                    IF qty <= before THEN 0
                    ELSE IF qty - before <= held[i].remaining_qty THEN qty - before
                    ELSE held[i].remaining_qty
<1> DEFINE before == Quantity(held, Prior(held, account, i))
           rem == held[i].remaining_qty
<1>1. before \in Nat /\ rem \in Nat
  BY QuantityIsSum, OpenLotsOf, LotFields DEF Prior
<1>2. Take(held, account, qty, i) = Min({rem, Max({0, qty - before})})
  BY DEF Take, Prior
<1> HIDE DEF before, rem
<1> DEFINE left == qty - before
           wanted == Max({0, left})
<1>3. left \in Int /\ 0 \in Int
  BY <1>1
<1>4. wanted = IF 0 >= left THEN 0 ELSE left
  <2> HIDE DEF left
  <2> QED
    BY <1>3, MinMaxOfTwo
<1>5. Min({rem, wanted}) = IF rem <= wanted THEN rem ELSE wanted
  <2>1. wanted \in Int /\ rem \in Int
    BY <1>1, <1>3, <1>4
  <2> HIDE DEF wanted
  <2> QED
    BY <2>1, MinMaxOfTwo
<1>6. Take(held, account, qty, i) =
        IF qty <= before THEN 0 ELSE IF qty - before <= rem THEN qty - before ELSE rem
  <2>1. Take(held, account, qty, i) = IF rem <= wanted THEN rem ELSE wanted
    BY <1>2, <1>5
  <2> HIDE DEF wanted
  <2> QED
    BY <1>1, <1>4, <2>1
<1>7. Take(held, account, qty, i) \in 0..rem
  BY <1>1, <1>6
<1> QED
  BY <1>1, <1>6, <1>7 DEF before, rem

(* First in, first out: what takes from a lot takes all of the open lots   *)
(* of the account before it.                                               *)
LEMMA TakenInOrder ==
    ASSUME NEW held \in Seq(LotRow), NEW account, NEW qty \in Nat,
           NEW i \in DOMAIN held, NEW j \in Open(held, account), FifoBefore(held, j, i),
           Take(held, account, qty, i) > 0
    PROVE  Take(held, account, qty, j) = held[j].remaining_qty
<1> DEFINE P == Prior(held, account, j)
           Q == Prior(held, account, i)
           w == Remaining(held)
<1>1. j \in DOMAIN held /\ P \subseteq DOMAIN held /\ Q \subseteq DOMAIN held
  BY OpenLotsOf DEF Prior
<1>2. P \cup {j} \subseteq Q
  <2>1. ASSUME NEW k \in P
        PROVE  FifoBefore(held, k, i)
    <3>1. FifoBefore(held, k, j) /\ k \in DOMAIN held
      BY <1>1 DEF Prior
    <3>2. /\ held[k].acquired_at \in Int /\ held[j].acquired_at \in Int
          /\ held[i].acquired_at \in Int /\ k \in Nat /\ i \in Nat /\ j \in Nat
      BY <1>1, <3>1, LotFields
    <3> QED
      BY <3>1, <3>2 DEF FifoBefore
  <2> QED
    BY <2>1 DEF Prior
<1>3. j \notin P
  <2>1. held[j].acquired_at \in Int /\ j \in Nat
    BY <1>1, LotFields
  <2> QED
    BY <2>1 DEF Prior, FifoBefore
<1>4. /\ IsFiniteSet(P) /\ IsFiniteSet(Q) /\ \A k \in Q : w[k] \in Nat
      /\ w[j] = held[j].remaining_qty /\ w[j] \in Nat
      /\ Quantity(held, P) = SumOver(w, P) /\ Quantity(held, Q) = SumOver(w, Q)
      /\ Quantity(held, P) \in Nat /\ Quantity(held, Q) \in Nat
  BY <1>1, QuantityIsSum, OpenLotsOf, LotFields
<1> HIDE DEF P, Q, w
<1>5. SumOver(w, P \cup {j}) = SumOver(w, P) + w[j]
  <2>1. \A k \in P \cup {j} : w[k] \in Int
    BY <1>2, <1>4
  <2> QED
    BY <1>3, <1>4, <2>1, SumWith
<1>6. SumOver(w, P \cup {j}) <= SumOver(w, Q)
  BY <1>2, <1>4, SumOfPart
<1>7. Quantity(held, P) + held[j].remaining_qty <= Quantity(held, Q)
  BY <1>4, <1>5, <1>6
<1>8. Quantity(held, Q) < qty
  BY <1>4, TakeCases DEF Q
<1>9. held[j].remaining_qty \in Nat
  BY <1>1, LotFields
<1> QED
  BY <1>1, <1>4, <1>7, <1>8, <1>9, TakeCases DEF P

(* What an outflow takes from every lot.                                   *)
Taken(held, account, qty) ==
    [i \in DOMAIN held |-> IF i \in Open(held, account) THEN Take(held, account, qty, i) ELSE 0]

LEMMA TakenTypes ==
    ASSUME NEW held \in Seq(LotRow), NEW account, NEW qty \in Nat, NEW i \in DOMAIN held
    PROVE  /\ Taken(held, account, qty)[i] \in Nat
           /\ Taken(held, account, qty)[i] <= held[i].remaining_qty
           /\ Taken(held, account, qty)[i] > 0 => i \in Open(held, account)
           /\ i \in Open(held, account) =>
                  Taken(held, account, qty)[i] = Take(held, account, qty, i)
<1>1. Take(held, account, qty, i) \in 0..held[i].remaining_qty /\ held[i].remaining_qty \in Nat
  BY TakeCases, LotFields
<1> QED
  BY <1>1 DEF Taken

(* A covered outflow takes its quantity from the open lots of the account. *)
LEMMA TakesAddUp ==
    ASSUME NEW held \in Seq(LotRow), NEW account, NEW qty \in Nat, ~Shortfall(held, account, qty)
    PROVE  /\ SumOver(Taken(held, account, qty), Open(held, account)) = qty
           /\ SumOver(Taken(held, account, qty), DOMAIN held) = qty
<1> DEFINE S == Open(held, account)
           order == FifoOrder(held, S)
           n == Len(order)
           P(k) == {order[m] : m \in 1..k}
           w == Remaining(held)
           t == Taken(held, account, qty)
           Good == {k \in Nat : k <= n => SumOver(t, P(k)) = IF SumOver(w, P(k)) <= qty
                                                             THEN SumOver(w, P(k)) ELSE qty}
<1>1. IsListing(order, S, Older(held, S))
  <2>1. IsFiniteSet(S) /\ \A i \in S : i \in Int /\ held[i].acquired_at \in Int
    BY OpenLotsOf, LotFields
  <2> QED
    BY <2>1, FifoLists
<1>2. S \subseteq DOMAIN held /\ IsFiniteSet(S) /\ IsFiniteSet(DOMAIN held)
  BY OpenLotsOf
<1>3. ASSUME NEW k \in Nat, k <= n
      PROVE  P(k) \in SUBSET S /\ IsFiniteSet(P(k))
  <2>1. P(k) \subseteq S
    BY <1>1, <1>3 DEF IsListing
  <2> QED
    BY <1>2, <2>1, FS_Subset
<1>4. 0 \in Good
  <2>1. P(0) = {}
    OBVIOUS
  <2>2. SumOver(t, P(0)) = 0 /\ SumOver(w, P(0)) = 0
    <3> HIDE DEF t, w, P
    <3> QED
      BY <2>1, SumOfNone
  <2> QED
    BY <2>2
<1>5. ASSUME NEW k \in Nat, k \in Good
      PROVE  k + 1 \in Good
  <2> SUFFICES ASSUME k + 1 <= n
               PROVE  SumOver(t, P(k + 1)) = IF SumOver(w, P(k + 1)) <= qty
                                             THEN SumOver(w, P(k + 1)) ELSE qty
    OBVIOUS
  <2> DEFINE i == order[k + 1]
  <2>1. n \in Nat /\ k + 1 \in DOMAIN order /\ DOMAIN order = 1..n
    BY <1>1 DEF IsListing
  <2>2. i \in S /\ i \in DOMAIN held
    BY <1>1, <1>2, <2>1 DEF IsListing
  <2>3. P(k) = Prior(held, account, i)
    <3>1. ASSUME NEW m \in 1..k
          PROVE  order[m] \in S /\ FifoBefore(held, order[m], i)
      <4>1. m \in DOMAIN order /\ m < k + 1
        BY <2>1
      <4>2. <<order[m], order[k + 1]>> \in Older(held, S)
        BY <1>1, <2>1, <4>1 DEF IsListing
      <4> QED
        BY <4>2 DEF Older
    <3>2. ASSUME NEW j \in S, FifoBefore(held, j, i)
          PROVE  \E m \in 1..k : order[m] = j
      <4>1. PICK m \in DOMAIN order : order[m] = j
        BY <1>1 DEF IsListing
      <4>2. ~FifoBefore(held, i, j) /\ i # j
        <5>1. /\ held[i].acquired_at \in Int /\ held[j].acquired_at \in Int
              /\ i \in Nat /\ j \in Nat
          BY <1>2, <2>2, LotFields
        <5> HIDE DEF i
        <5> QED
          BY <3>2, <5>1 DEF FifoBefore
      <4>3. ~(k + 1 < m)
        <5>1. k + 1 < m => <<order[k + 1], order[m]>> \in Older(held, S)
          BY <1>1, <2>1 DEF IsListing
        <5>2. <<order[k + 1], order[m]>> \in Older(held, S) => FifoBefore(held, i, j)
          BY <4>1 DEF Older
        <5> QED
          BY <4>2, <5>1, <5>2
      <4>4. m # k + 1
        BY <4>1, <4>2
      <4>5. m \in 1..k
        BY <2>1, <4>3, <4>4
      <4> QED
        BY <4>1, <4>5
    <3> HIDE DEF i, S, order
    <3>3. \A j : j \in Prior(held, account, i) <=> j \in S /\ FifoBefore(held, j, i)
      BY DEF Prior, S
    <3> QED
      BY <3>1, <3>2, <3>3
  <2>4. P(k + 1) = P(k) \cup {i}
    <3>1. 1..(k + 1) = 1..k \cup {k + 1}
      OBVIOUS
    <3> HIDE DEF order
    <3> QED
      BY <3>1
  <2>5. i \notin P(k)
    <3>1. held[i].acquired_at \in Int /\ i \in Nat
      BY <2>2, LotFields
    <3> HIDE DEF i
    <3>2. ~FifoBefore(held, i, i)
      BY <3>1 DEF FifoBefore
    <3> QED
      BY <2>3, <3>2 DEF Prior
  <2>6. /\ IsFiniteSet(P(k)) /\ P(k) \subseteq DOMAIN held
        /\ \A j \in P(k) \cup {i} : w[j] \in Int /\ t[j] \in Int
    <3>1. P(k) \in SUBSET S /\ IsFiniteSet(P(k))
      <4>1. k <= n
        BY <2>1
      <4> HIDE DEF P, S, n
      <4> QED
        BY <1>3, <4>1
    <3>2. \A j \in DOMAIN held : w[j] \in Int /\ t[j] \in Int
      BY OpenLotsOf, TakenTypes
    <3> HIDE DEF P, S, w, t, i
    <3> QED
      BY <1>2, <2>2, <3>1, <3>2
  <2> DEFINE Pk == P(k)
  <2>7. /\ SumOver(w, Pk \cup {i}) = SumOver(w, Pk) + w[i]
        /\ SumOver(t, Pk \cup {i}) = SumOver(t, Pk) + t[i]
    <3> HIDE DEF P, w, t, i
    <3> QED
      BY <2>5, <2>6, SumWith
  <2>8. /\ Quantity(held, Pk) = SumOver(w, Pk) /\ Quantity(held, Pk) \in Nat
    <3> HIDE DEF P
    <3> QED
      BY <2>6, QuantityIsSum
  <2>9. /\ t[i] = IF qty <= SumOver(w, Pk) THEN 0
                  ELSE IF qty - SumOver(w, Pk) <= w[i] THEN qty - SumOver(w, Pk)
                  ELSE w[i]
        /\ w[i] \in Nat
    <3>1. t[i] = Take(held, account, qty, i)
      BY <2>2, TakenTypes
    <3>2. w[i] = held[i].remaining_qty /\ w[i] \in Nat
      BY <2>2, LotFields
    <3> HIDE DEF P, w, t, i
    <3> QED
      BY <2>2, <2>3, <2>8, <3>1, <3>2, TakeCases
  <2>10. SumOver(t, Pk) = IF SumOver(w, Pk) <= qty THEN SumOver(w, Pk) ELSE qty
    BY <1>5, <2>1
  <2> HIDE DEF P, w, t, i, Pk
  <2>11. SumOver(t, Pk \cup {i}) = IF SumOver(w, Pk \cup {i}) <= qty
                                   THEN SumOver(w, Pk \cup {i}) ELSE qty
    BY <2>7, <2>8, <2>9, <2>10
  <2> QED
    BY <2>4, <2>11 DEF Pk
<1>6. n \in Good /\ n \in Nat
  <2>1. n \in Nat
    BY <1>1 DEF IsListing
  <2> HIDE DEF Good, n
  <2> QED
    BY <1>4, <1>5, <2>1, NatSetInduction
<1>7. P(n) = S
  <2>1. /\ \A k \in 1..n : order[k] \in S
        /\ \A x \in S : \E k \in 1..n : order[k] = x
    BY <1>1 DEF IsListing
  <2> HIDE DEF order, S, n
  <2> QED
    BY <2>1
<1>8. Quantity(held, S) = SumOver(w, S) /\ qty <= Quantity(held, S) /\ Quantity(held, S) \in Nat
  BY <1>2, QuantityIsSum DEF Shortfall
<1>9. SumOver(t, S) = qty
  <2>1. SumOver(t, P(n)) = IF SumOver(w, P(n)) <= qty THEN SumOver(w, P(n)) ELSE qty
    BY <1>6
  <2> HIDE DEF P, n, t, w, S
  <2>2. SumOver(t, S) = IF SumOver(w, S) <= qty THEN SumOver(w, S) ELSE qty
    BY <1>7, <2>1
  <2> QED
    BY <1>8, <2>2
<1>10. SumOver(t, DOMAIN held) = SumOver(t, S)
  <2>1. \A i \in S : t[i] \in Int
    BY <1>2, TakenTypes
  <2>2. \A i \in DOMAIN held \ S : t[i] = 0
    BY DEF Taken
  <2> HIDE DEF t, S
  <2> QED
    BY <1>2, <2>1, <2>2, SumWithoutZeros
<1> QED
  BY <1>9, <1>10

-----------------------------------------------------------------------------
(* What a row of a replay leaves of the lots and consumptions before it,   *)
(* and what it adds.                                                       *)
SaleRow == [lot : Nat, sell_leg : Nat \X Nat, qty : Nat, realized : Int \cup {None}]

ReplayState == [lots : Seq(LotRow), consumptions : Seq(SaleRow), short : BOOLEAN]

SameLot(old, new) ==
    /\ new.account = old.account /\ new.source_leg = old.source_leg
    /\ new.original_qty = old.original_qty /\ new.unit_cost = old.unit_cost
    /\ new.acquired_at = old.acquired_at

LotsGrow(held, after, t, new) ==
    /\ held \in Seq(LotRow) /\ new \in Seq(LotRow) /\ after \in Seq(LotRow)
    /\ Len(after) = Len(held) + Len(new)
    /\ \A i \in DOMAIN held : /\ SameLot(held[i], after[i])
                              /\ t[i] \in Nat /\ t[i] <= held[i].remaining_qty
                              /\ after[i].remaining_qty = held[i].remaining_qty - t[i]
    /\ \A j \in DOMAIN new : after[Len(held) + j] = new[j]

SalesGrow(sold, after, sales) ==
    /\ sold \in Seq(SaleRow) /\ sales \in Seq(SaleRow) /\ after \in Seq(SaleRow)
    /\ Len(after) = Len(sold) + Len(sales)
    /\ \A k \in DOMAIN sold : after[k] = sold[k]
    /\ \A k \in DOMAIN sales : after[Len(sold) + k] = sales[k]

LEMMA GrownIndex ==
    ASSUME NEW T, NEW old \in Seq(T), NEW new \in Seq(T), NEW after \in Seq(T),
           Len(after) = Len(old) + Len(new)
    PROVE  /\ \A i \in DOMAIN after : \/ i \in DOMAIN old
                                      \/ i \notin DOMAIN old /\ \E j \in DOMAIN new : i = Len(old) + j
           /\ \A i \in DOMAIN old : i \in DOMAIN after
           /\ \A j \in DOMAIN new : Len(old) + j \in DOMAIN after /\ Len(old) + j \notin DOMAIN old
           /\ Len(old) \in Nat
<1>1. /\ Len(old) \in Nat /\ Len(new) \in Nat /\ Len(after) \in Nat
      /\ DOMAIN old = 1..Len(old) /\ DOMAIN new = 1..Len(new) /\ DOMAIN after = 1..Len(after)
  OBVIOUS
<1>2. ASSUME NEW i \in DOMAIN after, i \notin DOMAIN old
      PROVE  \E j \in DOMAIN new : i = Len(old) + j
  <2>1. i - Len(old) \in DOMAIN new /\ i = Len(old) + (i - Len(old))
    BY <1>1, <1>2
  <2> QED
    BY <2>1
<1>3. ASSUME NEW j \in DOMAIN new
      PROVE  Len(old) + j \in DOMAIN after /\ Len(old) + j \notin DOMAIN old
  BY <1>1
<1>4. \A i \in DOMAIN old : i \in DOMAIN after
  BY <1>1
<1> QED
  BY <1>1, <1>2, <1>3, <1>4

LEMMA ConsumeLots ==
    ASSUME NEW held \in Seq(LotRow), NEW account, NEW qty \in Nat
    PROVE  /\ Consume(held, account, qty) \in Seq(LotRow)
           /\ LotsGrow(held, Consume(held, account, qty), Taken(held, account, qty), <<>>)
<1> DEFINE after == Consume(held, account, qty)
           t == Taken(held, account, qty)
<1>1. ASSUME NEW i \in DOMAIN held
      PROVE  /\ after[i] \in LotRow /\ SameLot(held[i], after[i])
             /\ t[i] \in Nat /\ t[i] <= held[i].remaining_qty
             /\ after[i].remaining_qty = held[i].remaining_qty - t[i]
  <2>1. held[i] \in LotRow /\ held[i].remaining_qty \in Nat
    BY LotFields
  <2>2. t[i] \in Nat /\ t[i] <= held[i].remaining_qty
    BY TakenTypes
  <2>3. after[i] = IF i \in Open(held, account)
                   THEN [held[i] EXCEPT !.remaining_qty = @ - Take(held, account, qty, i)]
                   ELSE held[i]
    BY DEF Consume
  <2>4. CASE i \in Open(held, account)
    <3>1. t[i] = Take(held, account, qty, i)
      BY <2>4, TakenTypes
    <3>2. after[i] = [held[i] EXCEPT !.remaining_qty = held[i].remaining_qty - t[i]]
      BY <2>3, <2>4, <3>1
    <3> HIDE DEF after, t
    <3>3. held[i].remaining_qty - t[i] \in Nat
      BY <2>1, <2>2
    <3>4. /\ after[i] \in LotRow /\ SameLot(held[i], after[i])
          /\ after[i].remaining_qty = held[i].remaining_qty - t[i]
      BY <2>1, <3>2, <3>3 DEF LotRow, SameLot
    <3> QED
      BY <2>2, <3>4
  <2>5. CASE i \notin Open(held, account)
    <3>1. t[i] = 0 /\ after[i] = held[i]
      BY <2>3, <2>5 DEF Taken
    <3> HIDE DEF after, t
    <3> QED
      BY <2>1, <2>2, <3>1 DEF SameLot
  <2> QED
    BY <2>4, <2>5
<1>2. DOMAIN held = 1..Len(held) /\ Len(held) \in Nat
  OBVIOUS
<1>3. after = [i \in 1..Len(held) |-> after[i]]
  BY <1>2 DEF Consume
<1> HIDE DEF after, t
<1>4. after \in Seq(LotRow) /\ Len(after) = Len(held)
  <2>1. after \in [1..Len(held) -> LotRow]
    BY <1>1, <1>2, <1>3
  <2> QED
    BY <1>2, <2>1
<1>5. <<>> \in Seq(LotRow) /\ Len(<<>>) = 0 /\ DOMAIN <<>> = {}
  OBVIOUS
<1>6. LotsGrow(held, after, t, <<>>)
  BY <1>1, <1>2, <1>4, <1>5 DEF LotsGrow
<1> QED
  BY <1>4, <1>6 DEF after, t

LEMMA ConcatGrows ==
    ASSUME NEW T, NEW s \in Seq(T), NEW new \in Seq(T)
    PROVE  /\ s \o new \in Seq(T) /\ Len(s \o new) = Len(s) + Len(new)
           /\ \A i \in DOMAIN s : (s \o new)[i] = s[i]
           /\ \A j \in DOMAIN new : (s \o new)[Len(s) + j] = new[j]
<1>1. /\ s \o new \in Seq(T) /\ Len(s \o new) = Len(s) + Len(new)
      /\ \A i \in 1..(Len(s) + Len(new)) : (s \o new)[i] =
             IF i <= Len(s) THEN s[i] ELSE new[i - Len(s)]
  BY ConcatProperties
<1>2. /\ DOMAIN s = 1..Len(s) /\ DOMAIN new = 1..Len(new)
      /\ Len(s) \in Nat /\ Len(new) \in Nat
  OBVIOUS
<1>3. ASSUME NEW j \in DOMAIN new
      PROVE  (s \o new)[Len(s) + j] = new[j]
  <2>1. Len(s) + j \in 1..(Len(s) + Len(new)) /\ ~(Len(s) + j <= Len(s))
        /\ (Len(s) + j) - Len(s) = j
    BY <1>2
  <2> QED
    BY <1>1, <2>1
<1>4. ASSUME NEW i \in DOMAIN s
      PROVE  (s \o new)[i] = s[i]
  <2>1. i \in 1..(Len(s) + Len(new)) /\ i <= Len(s)
    BY <1>2
  <2> QED
    BY <1>1, <2>1
<1> QED
  BY <1>1, <1>3, <1>4

LEMMA ConsumeAndAdd ==
    ASSUME NEW held \in Seq(LotRow), NEW account, NEW qty \in Nat, NEW new \in Seq(LotRow)
    PROVE  LotsGrow(held, Consume(held, account, qty) \o new, Taken(held, account, qty), new)
<1> DEFINE mid == Consume(held, account, qty)
           t == Taken(held, account, qty)
<1>1. mid \in Seq(LotRow) /\ LotsGrow(held, mid, t, <<>>)
  BY ConsumeLots
<1> HIDE DEF mid, t
<1>2. /\ mid \o new \in Seq(LotRow) /\ Len(mid \o new) = Len(mid) + Len(new)
      /\ \A i \in DOMAIN mid : (mid \o new)[i] = mid[i]
      /\ \A j \in DOMAIN new : (mid \o new)[Len(mid) + j] = new[j]
  BY <1>1, ConcatGrows
<1>3. Len(mid) = Len(held) /\ DOMAIN mid = DOMAIN held
  <2>1. Len(<<>>) = 0
    OBVIOUS
  <2>2. Len(mid) = Len(held) + Len(<<>>) /\ Len(held) \in Nat
    BY <1>1 DEF LotsGrow
  <2> QED
    BY <1>1, <2>1, <2>2
<1>4. LotsGrow(held, mid \o new, t, new)
  BY <1>1, <1>2, <1>3 DEF LotsGrow
<1> QED
  BY <1>4 DEF mid, t

(* The segments of an outflow name the lots it takes from, each once.      *)
Hit(held, t) == {i \in DOMAIN held : t[i] > 0}

LotNames(segments) == [k \in DOMAIN segments |-> segments[k].lot]

SegmentsOf(segments, held, t) ==
    /\ Len(segments) \in Nat /\ DOMAIN segments = 1..Len(segments)
    /\ IsNaming(LotNames(segments), DOMAIN segments, Hit(held, t))
    /\ \A k \in DOMAIN segments : /\ segments[k].lot \in DOMAIN held
                                  /\ segments[k].qty = t[segments[k].lot]
                                  /\ segments[k].qty > 0

LEMMA FiniteOrder ==
    ASSUME NEW held \in Seq(LotRow), NEW S \in SUBSET DOMAIN held
    PROVE  IsListing(FifoOrder(held, S), S, Older(held, S))
<1>1. IsFiniteSet(S) /\ \A i \in S : i \in Int /\ held[i].acquired_at \in Int
  BY OpenLotsOf, FS_Subset, LotFields
<1> QED
  BY <1>1, FifoLists

LEMMA SegmentsName ==
    ASSUME NEW held \in Seq(LotRow), NEW account, NEW qty \in Nat
    PROVE  SegmentsOf(Segments(held, account, qty), held, Taken(held, account, qty))
<1> DEFINE t == Taken(held, account, qty)
           S == {i \in Open(held, account) : Take(held, account, qty, i) > 0}
           order == FifoOrder(held, S)
           segments == Segments(held, account, qty)
<1>1. S \subseteq DOMAIN held /\ IsListing(order, S, Older(held, S))
  <2>1. S \subseteq DOMAIN held
    BY OpenLotsOf
  <2> HIDE DEF S
  <2> QED
    BY <2>1, FiniteOrder
<1>2. Hit(held, t) = S
  <2>1. \A i \in DOMAIN held : t[i] > 0 <=> i \in S
    BY TakenTypes
  <2> HIDE DEF S, t
  <2> QED
    BY <1>1, <2>1 DEF Hit
<1>3. /\ DOMAIN segments = DOMAIN order
      /\ \A k \in DOMAIN order : /\ segments[k].lot = order[k]
                                 /\ segments[k].qty = Take(held, account, qty, order[k])
  BY DEF Segments
<1>4. segments = [k \in DOMAIN order |-> segments[k]]
  BY DEF Segments
<1>5. \A i \in S : t[i] = Take(held, account, qty, i) /\ t[i] > 0
  BY <1>1, TakenTypes
<1> HIDE DEF segments, order, S, t
<1>6. /\ Len(order) \in Nat /\ DOMAIN order = 1..Len(order)
      /\ \A k \in DOMAIN order : order[k] \in S
      /\ \A x \in S : \E k \in DOMAIN order : order[k] = x
      /\ \A k, m \in DOMAIN order : order[k] = order[m] => k = m
  BY <1>1 DEF IsListing
<1>7. Len(segments) = Len(order) /\ DOMAIN segments = 1..Len(order)
  BY <1>3, <1>4, <1>6
<1>8. IsNaming(LotNames(segments), DOMAIN segments, S)
  BY <1>3, <1>6 DEF IsNaming, LotNames
<1>9. \A k \in DOMAIN segments : /\ segments[k].lot \in DOMAIN held
                                 /\ segments[k].qty = t[segments[k].lot]
                                 /\ segments[k].qty > 0
  BY <1>1, <1>3, <1>5, <1>6
<1>10. SegmentsOf(segments, held, t)
  BY <1>2, <1>6, <1>7, <1>8, <1>9 DEF SegmentsOf
<1> QED
  BY <1>10 DEF segments, t

(* The consumptions of a sale: its segments, with what they realize.       *)
SalesOf(sales, held, t, sell_leg) ==
    /\ sales \in Seq(SaleRow) /\ SegmentsOf(sales, held, t)
    /\ \A k \in DOMAIN sales : sales[k].sell_leg = sell_leg

Realizes(sales, held, proceeds) ==
    \A k \in DOMAIN sales :
        sales[k].realized = Pnl(proceeds, held[sales[k].lot].unit_cost, sales[k].qty)

LEMMA RealizeSales ==
    ASSUME NEW rows, NEW id \in Nat, NEW l \in Nat, rows[id].type = "trade",
           rows[id].legs[l].unit_price \in Nat \cup {None},
           NEW held \in Seq(LotRow), NEW t, \A i \in DOMAIN held : t[i] \in Nat,
           NEW segments, SegmentsOf(segments, held, t)
    PROVE  /\ SalesOf(Realize(held, rows, id, l, segments), held, t, <<id, l>>)
           /\ Realizes(Realize(held, rows, id, l, segments), held, rows[id].legs[l].unit_price)
<1> DEFINE sales == Realize(held, rows, id, l, segments)
           proceeds == rows[id].legs[l].unit_price
           Sale(k) == [lot |-> segments[k].lot, sell_leg |-> <<id, l>>, qty |-> segments[k].qty,
                       realized |-> Pnl(proceeds, held[segments[k].lot].unit_cost, segments[k].qty)]
<1>1. sales = [k \in DOMAIN segments |-> Sale(k)]
  BY DEF Realize
<1>2. ASSUME NEW k \in DOMAIN segments
      PROVE  Sale(k) \in SaleRow
  <2>1. /\ segments[k].lot \in DOMAIN held /\ segments[k].lot \in Nat
        /\ segments[k].qty \in Nat /\ held[segments[k].lot].unit_cost \in Nat \cup {None}
    BY LotFields DEF SegmentsOf
  <2>2. Pnl(proceeds, held[segments[k].lot].unit_cost, segments[k].qty) \in Int \cup {None}
    <3> DEFINE cost == held[segments[k].lot].unit_cost
    <3>1. CASE proceeds = None \/ cost = None
      BY <3>1 DEF Pnl
    <3>2. CASE proceeds # None /\ cost # None
      <4>1. proceeds \in Int /\ cost \in Int /\ segments[k].qty \in Int
        BY <2>1, <3>2
      <4>2. Pnl(proceeds, cost, segments[k].qty) = (proceeds - cost) * segments[k].qty
        BY <3>2 DEF Pnl
      <4> HIDE DEF proceeds, cost
      <4> QED
        BY <4>1, <4>2 DEF cost
    <3> QED
      BY <3>1, <3>2
  <2> QED
    BY <2>1, <2>2 DEF SaleRow
<1>3. /\ DOMAIN sales = DOMAIN segments
      /\ \A k \in DOMAIN segments : /\ sales[k] = Sale(k) /\ sales[k].lot = segments[k].lot
                                    /\ sales[k].qty = segments[k].qty
                                    /\ sales[k].sell_leg = <<id, l>>
                                    /\ sales[k].realized =
                                           Pnl(proceeds, held[segments[k].lot].unit_cost, segments[k].qty)
  BY <1>1
<1>4. DOMAIN segments = 1..Len(segments) /\ Len(segments) \in Nat
  BY DEF SegmentsOf
<1> HIDE DEF sales, Sale
<1>5. sales \in Seq(SaleRow) /\ Len(sales) = Len(segments)
  <2>1. sales \in [1..Len(segments) -> SaleRow]
    BY <1>1, <1>2, <1>4
  <2> QED
    BY <1>4, <2>1
<1>6. LotNames(sales) = LotNames(segments)
  BY <1>3 DEF LotNames
<1>7. SegmentsOf(sales, held, t)
  BY <1>3, <1>4, <1>5, <1>6 DEF SegmentsOf
<1>8. Realizes(sales, held, proceeds)
  BY <1>3 DEF Realizes
<1> QED
  BY <1>3, <1>5, <1>7, <1>8 DEF SalesOf, sales

(* The lots a transfer creates: one for every lot it takes from of which   *)
(* something arrives.                                                      *)
Ratio(txn, out, in) == RoundDiv(txn.legs[in].quantity * Precision, -txn.legs[out].quantity)

Arrivals(held, txn, out, in) ==
    [i \in DOMAIN held |->
        IF i \in Open(held, txn.legs[out].account)
        THEN Arriving(held, txn.legs[out].account, -txn.legs[out].quantity, Ratio(txn, out, in), i)
        ELSE 0]

CarriedFrom(new, held, txn, id, out, in, from) ==
    /\ new \in Seq(LotRow)
    /\ IsNaming(from, DOMAIN new, Hit(held, Arrivals(held, txn, out, in)))
    /\ \A k \in DOMAIN new :
        /\ new[k].account = txn.legs[in].account
        /\ new[k].source_leg = <<id, in>>
        /\ new[k].original_qty = Arrivals(held, txn, out, in)[from[k]]
        /\ new[k].remaining_qty = Arrivals(held, txn, out, in)[from[k]]
        /\ new[k].acquired_at = held[from[k]].acquired_at
        /\ new[k].unit_cost = Divide(held[from[k]].unit_cost, Ratio(txn, out, in))
        /\ from[k] \in Open(held, txn.legs[out].account)

LEMMA LegFields ==
    ASSUME NEW txn \in Transaction, NEW l \in DOMAIN txn.legs
    PROVE  /\ txn.legs[l].quantity \in Int /\ txn.legs[l].account \in Accounts
           /\ txn.legs[l].asset \in Assets /\ txn.legs[l].unit_price \in Nat \cup {None}
           /\ l \in Nat \ {0} /\ txn.legs \in Seq(Leg)
<1>1. txn.legs \in Seq(Leg)
  BY DEF Transaction
<1>2. txn.legs[l] \in Leg /\ l \in Nat \ {0}
  BY <1>1
<1> QED
  BY <1>1, <1>2 DEF Leg

LEMMA ArrivalTypes ==
    ASSUME NEW held \in Seq(LotRow), NEW txn \in Transaction, NEW asset, NEW out, NEW in,
           Carries(txn, asset, out, in)
    PROVE  /\ -txn.legs[out].quantity \in Nat \ {0} /\ txn.legs[in].quantity \in Nat \ {0}
           /\ Ratio(txn, out, in) \in Nat
           /\ \A i \in DOMAIN held :
                /\ Arrivals(held, txn, out, in)[i] \in Nat
                /\ Arrivals(held, txn, out, in)[i] > 0 =>
                       i \in Open(held, txn.legs[out].account) /\ Ratio(txn, out, in) > 0
<1> DEFINE sent == -txn.legs[out].quantity
           received == txn.legs[in].quantity
           src == txn.legs[out].account
           ratio == Ratio(txn, out, in)
<1>1. sent \in Nat \ {0} /\ received \in Nat \ {0}
  <2>1. txn.legs[out].quantity \in Int /\ txn.legs[in].quantity \in Int
    BY LegFields DEF Carries
  <2> QED
    BY <2>1 DEF Carries
<1>2. ratio \in Nat
  <2>1. received * Precision \in Nat
    BY <1>1, PrecisionAssumption
  <2> HIDE DEF sent, received
  <2>2. ratio = RoundDiv(received * Precision, sent)
    BY DEF Ratio, sent, received
  <2> QED
    BY <1>1, <2>1, <2>2, RoundDivNat
<1>3. ASSUME NEW i \in DOMAIN held
      PROVE  /\ Arrivals(held, txn, out, in)[i] \in Nat
             /\ Arrivals(held, txn, out, in)[i] > 0 => i \in Open(held, src) /\ ratio > 0
  <2> DEFINE take == Take(held, src, sent, i)
             arrives == Arrivals(held, txn, out, in)[i]
  <2>1. arrives = IF i \in Open(held, src) THEN RoundDiv(take * ratio, Precision) ELSE 0
    BY DEF Arrivals, Arriving
  <2>2. take \in Nat
    <3>1. take \in 0..held[i].remaining_qty /\ held[i].remaining_qty \in Nat
      <4> HIDE DEF sent
      <4> QED
        BY <1>1, TakeCases, LotFields
    <3> QED
      BY <3>1
  <2> HIDE DEF take, arrives, ratio, src
  <2>3. take * ratio \in Nat /\ Precision \in Nat \ {0}
    BY <1>2, <2>2, PrecisionAssumption
  <2>4. RoundDiv(take * ratio, Precision) \in Nat
    BY <2>3, RoundDivNat
  <2>5. ratio = 0 => RoundDiv(take * ratio, Precision) = 0
    <3>1. RoundDiv(0 * Precision, Precision) = 0
      BY <2>3, RoundDivExact
    <3>2. 0 * Precision = 0 /\ take * 0 = 0
      BY <2>2, <2>3
    <3> QED
      BY <3>1, <3>2
  <2>6. /\ arrives \in Nat
        /\ arrives > 0 => i \in Open(held, src) /\ ratio > 0
    BY <1>2, <2>1, <2>4, <2>5
  <2> QED
    BY <2>6 DEF arrives
<1> QED
  BY <1>1, <1>2, <1>3

LEMMA CarriedFields ==
    ASSUME NEW held \in Seq(LotRow), NEW rows, NEW id \in Nat, rows[id] \in Transaction,
           NEW asset, NEW out, NEW in, Carries(rows[id], asset, out, in)
    PROVE  \E from : CarriedFrom(CarriedLots(held, rows, id, out, in), held, rows[id], id, out, in, from)
<1> DEFINE txn == rows[id]
           src == txn.legs[out].account
           sent == -txn.legs[out].quantity
           ratio == Ratio(txn, out, in)
           a == Arrivals(held, txn, out, in)
           S == {i \in Open(held, src) : Arriving(held, src, sent, ratio, i) # 0}
           order == FifoOrder(held, S)
           new == CarriedLots(held, rows, id, out, in)
           Lot(k) == [account       |-> txn.legs[in].account,
                      source_leg    |-> <<id, in>>,
                      original_qty  |-> Arriving(held, src, sent, ratio, order[k]),
                      remaining_qty |-> Arriving(held, src, sent, ratio, order[k]),
                      unit_cost     |-> Divide(held[order[k]].unit_cost, ratio),
                      acquired_at   |-> held[order[k]].acquired_at]
<1>1. new = [k \in DOMAIN order |-> Lot(k)]
  BY DEF CarriedLots, Ratio
<1>2. /\ \A i \in S : i \in DOMAIN held /\ a[i] = Arriving(held, src, sent, ratio, i)
      /\ \A i \in DOMAIN held : a[i] # 0 => i \in S
      /\ \A i \in S : i \in Open(held, src) /\ a[i] # 0
  BY DEF Arrivals, Open
<1>3. ratio \in Nat /\ \A i \in DOMAIN held : a[i] \in Nat /\ (a[i] > 0 => ratio > 0)
  BY ArrivalTypes
<1>4. Hit(held, a) = S
  <2> HIDE DEF a, S
  <2> QED
    BY <1>2, <1>3 DEF Hit
<1>5. IsListing(order, S, Older(held, S))
  <2>1. S \subseteq DOMAIN held
    BY <1>2
  <2> HIDE DEF S
  <2> QED
    BY <2>1, FiniteOrder
<1>6. /\ Len(order) \in Nat /\ DOMAIN order = 1..Len(order)
      /\ \A k \in DOMAIN order : order[k] \in S
      /\ \A x \in S : \E k \in DOMAIN order : order[k] = x
      /\ \A k, m \in DOMAIN order : order[k] = order[m] => k = m
  <2> HIDE DEF order, S
  <2> QED
    BY <1>5 DEF IsListing
<1>7. ASSUME NEW k \in DOMAIN order
      PROVE  /\ Lot(k) \in LotRow
             /\ Lot(k).original_qty = a[order[k]] /\ Lot(k).remaining_qty = a[order[k]]
  <2> DEFINE i == order[k]
  <2>1. /\ i \in DOMAIN held /\ a[i] = Arriving(held, src, sent, ratio, i)
        /\ a[i] \in Nat /\ ratio \in Nat \ {0}
    <3>1. i \in S
      BY <1>6
    <3> HIDE DEF S, a, order, i, ratio
    <3> QED
      BY <1>2, <1>3, <3>1
  <2>2. held[i].acquired_at \in Days /\ held[i].unit_cost \in Nat \cup {None}
    <3> HIDE DEF i
    <3> QED
      BY <2>1, LotFields
  <2>3. Divide(held[i].unit_cost, ratio) \in Nat \cup {None}
    <3> DEFINE cost == held[i].unit_cost
    <3>1. CASE cost = None
      BY <3>1 DEF Divide
    <3>2. CASE cost # None
      <4>1. cost \in Nat
        BY <2>2, <3>2
      <4>2. Divide(cost, ratio) = RoundDiv(cost * Precision, ratio)
        BY <3>2 DEF Divide
      <4> HIDE DEF cost, ratio
      <4>3. cost * Precision \in Nat
        BY <4>1, PrecisionAssumption
      <4>4. RoundDiv(cost * Precision, ratio) \in Nat
        BY <2>1, <4>3, RoundDivNat
      <4> QED
        BY <4>2, <4>4 DEF cost
    <3> QED
      BY <3>1, <3>2
  <2>4. txn.legs[in].account \in Accounts /\ in \in Nat
    BY LegFields DEF Carries
  <2>5. <<id, in>> \in Nat \X Nat
    BY <2>4
  <2> HIDE DEF order, txn, a, ratio, S, src, sent
  <2>6. Lot(k) \in LotRow
    BY <2>1, <2>2, <2>3, <2>4, <2>5 DEF LotRow
  <2> QED
    BY <2>1, <2>6
<1>8. DOMAIN new = DOMAIN order /\ \A k \in DOMAIN order : new[k] = Lot(k)
  BY <1>1
<1>9. new \in Seq(LotRow)
  <2>1. new = [k \in 1..Len(order) |-> new[k]]
    BY <1>1, <1>6
  <2> HIDE DEF new, order, Lot
  <2>2. new \in [1..Len(order) -> LotRow]
    BY <1>6, <1>7, <1>8, <2>1
  <2> QED
    BY <1>6, <2>2
<1>10. IsNaming(order, DOMAIN new, Hit(held, a))
  <2> HIDE DEF order, S, new, a
  <2> QED
    BY <1>4, <1>6, <1>8 DEF IsNaming
<1>11. ASSUME NEW k \in DOMAIN new
       PROVE  /\ new[k].account = txn.legs[in].account
              /\ new[k].source_leg = <<id, in>>
              /\ new[k].original_qty = a[order[k]] /\ new[k].remaining_qty = a[order[k]]
              /\ new[k].acquired_at = held[order[k]].acquired_at
              /\ new[k].unit_cost = Divide(held[order[k]].unit_cost, ratio)
              /\ order[k] \in Open(held, src)
  <2>1. k \in DOMAIN order /\ new[k] = Lot(k)
    BY <1>8
  <2>2. order[k] \in Open(held, src)
    <3>1. order[k] \in S
      BY <1>6, <2>1
    <3> QED
      BY <1>2, <3>1
  <2> HIDE DEF new, order, a, S
  <2> QED
    BY <1>7, <2>1, <2>2
<1>12. CarriedFrom(new, held, txn, id, out, in, order)
  <2> HIDE DEF new, order
  <2> QED
    BY <1>9, <1>10, <1>11 DEF CarriedFrom
<1> QED
  BY <1>12

-----------------------------------------------------------------------------
(* Holdings are sums of finitely many legs.                                *)
LEMMA PairLegsFinite ==
    ASSUME NEW rows, NEW pair, NEW ids \in SUBSET DOMAIN rows, IsFiniteSet(ids),
           \A i \in ids : rows[i] \in Transaction
    PROVE  /\ IsFiniteSet(PairLegs(rows, pair, ids))
           /\ \A e \in PairLegs(rows, pair, ids) : e.quantity \in Int
<1> DEFINE legs(i) == {k \in DOMAIN rows[i].legs :
                         <<rows[i].legs[k].account, rows[i].legs[k].asset>> = pair}
           of(i) == {[row |-> i, leg |-> l, quantity |-> rows[i].legs[l].quantity] : l \in legs(i)}
<1>1. ASSUME NEW i \in ids
      PROVE  IsFiniteSet(of(i)) /\ \A e \in of(i) : e.quantity \in Int
  <2>1. rows[i].legs \in Seq(Leg)
    BY DEF Transaction
  <2>2. DOMAIN rows[i].legs = 1..Len(rows[i].legs) /\ Len(rows[i].legs) \in Nat
    BY <2>1
  <2>3. IsFiniteSet(DOMAIN rows[i].legs)
    BY <2>2, FS_Interval
  <2>4. IsFiniteSet(legs(i))
    BY <2>3, FS_Subset
  <2>5. IsFiniteSet(of(i))
    <3> DEFINE f == [l \in legs(i) |->
                            [row |-> i, leg |-> l, quantity |-> rows[i].legs[l].quantity]]
    <3>1. IsFiniteSet({f[l] : l \in legs(i)})
      <4> HIDE DEF legs, f
      <4> QED
        BY <2>4, ImageIsFinite
    <3>2. of(i) = {f[l] : l \in legs(i)}
      OBVIOUS
    <3> QED
      BY <3>1, <3>2
  <2>6. \A l \in legs(i) : rows[i].legs[l].quantity \in Int
    <3>1. \A l \in legs(i) : rows[i].legs[l] \in Leg
      BY <2>1
    <3> QED
      BY <3>1 DEF Leg
  <2> QED
    BY <2>5, <2>6
<1>2. PairLegs(rows, pair, ids) = UNION {of(i) : i \in ids}
  BY DEF PairLegs
<1>3. IsFiniteSet({of(i) : i \in ids})
  <2> DEFINE f == [i \in ids |-> of(i)]
  <2> HIDE DEF of
  <2>1. IsFiniteSet({f[i] : i \in ids})
    <3> HIDE DEF f
    <3> QED
      BY ImageIsFinite
  <2>2. {of(i) : i \in ids} = {f[i] : i \in ids}
    OBVIOUS
  <2> QED
    BY <2>1, <2>2
<1>4. IsFiniteSet(UNION {of(i) : i \in ids})
  <2> HIDE DEF of
  <2> QED
    BY <1>1, <1>3, FS_UNION
<1> QED
  BY <1>1, <1>2, <1>4

LEMMA PairLegsEntry ==
    ASSUME NEW rows, NEW pair, NEW ids, NEW e
    PROVE  e \in PairLegs(rows, pair, ids) <=>
             \E i \in ids : \E l \in DOMAIN rows[i].legs :
                /\ <<rows[i].legs[l].account, rows[i].legs[l].asset>> = pair
                /\ e = [row |-> i, leg |-> l, quantity |-> rows[i].legs[l].quantity]
BY DEF PairLegs

LEMMA TotalIsSum ==
    ASSUME NEW entries
    PROVE  Total(entries) = SumOver([e \in entries |-> e.quantity], entries)
BY DEF Total, SumOver, MapThenSumSet, MapThenFoldSet

LEMMA LegSumIsInt ==
    ASSUME NEW rows, IsRows(rows), NEW pair, NEW ids \in SUBSET DOMAIN rows
    PROVE  LegSum(rows, pair, ids) \in Int
<1> DEFINE entries == PairLegs(rows, pair, ids)
           w == [e \in entries |-> e.quantity]
<1>1. IsFiniteSet(ids) /\ \A i \in ids : rows[i] \in Transaction
  BY FS_Subset DEF IsRows
<1>2. IsFiniteSet(entries) /\ \A e \in entries : e.quantity \in Int
  BY <1>1, PairLegsFinite
<1>3. LegSum(rows, pair, ids) = SumOver(w, entries)
  BY TotalIsSum DEF LegSum
<1>4. \A e \in entries : w[e] \in Int
  BY <1>2
<1> HIDE DEF entries, w
<1> QED
  BY <1>2, <1>3, <1>4, SumIsInt

(* One more row adds its own legs to a holding.                            *)
LEMMA LegSumWith ==
    ASSUME NEW rows, IsRows(rows), NEW pair, NEW ids \in SUBSET DOMAIN rows,
           NEW id \in DOMAIN rows, id \notin ids
    PROVE  LegSum(rows, pair, ids \cup {id}) = LegSum(rows, pair, ids) + LegSum(rows, pair, {id})
<1> DEFINE S == PairLegs(rows, pair, ids)
           T == PairLegs(rows, pair, {id})
           w == [e \in S \cup T |-> e.quantity]
<1>1. /\ IsFiniteSet(ids) /\ \A i \in ids : rows[i] \in Transaction
      /\ IsFiniteSet({id}) /\ rows[id] \in Transaction
  BY FS_Subset, FS_Singleton DEF IsRows
<1>2. /\ IsFiniteSet(S) /\ \A e \in S : e.quantity \in Int
      /\ IsFiniteSet(T) /\ \A e \in T : e.quantity \in Int
  BY <1>1, PairLegsFinite
<1>3. PairLegs(rows, pair, ids \cup {id}) = S \cup T
  <2>1. ASSUME NEW e
        PROVE  e \in PairLegs(rows, pair, ids \cup {id}) <=> e \in S \cup T
    <3> HIDE DEF S, T
    <3>1. /\ e \in S <=>
               \E i \in ids : \E l \in DOMAIN rows[i].legs :
                  /\ <<rows[i].legs[l].account, rows[i].legs[l].asset>> = pair
                  /\ e = [row |-> i, leg |-> l, quantity |-> rows[i].legs[l].quantity]
          /\ e \in T <=>
               \E i \in {id} : \E l \in DOMAIN rows[i].legs :
                  /\ <<rows[i].legs[l].account, rows[i].legs[l].asset>> = pair
                  /\ e = [row |-> i, leg |-> l, quantity |-> rows[i].legs[l].quantity]
      BY PairLegsEntry DEF S, T
    <3> QED
      BY <3>1, PairLegsEntry
  <2> QED
    BY <2>1
<1>4. S \cap T = {}
  <2>1. \A e \in S : e.row \in ids
    BY DEF PairLegs
  <2>2. \A e \in T : e.row = id
    BY DEF PairLegs
  <2> HIDE DEF S, T
  <2> QED
    BY <2>1, <2>2
<1> HIDE DEF S, T
<1>5. \A e \in S \cup T : w[e] = e.quantity /\ w[e] \in Int
  BY <1>2
<1>6. LegSum(rows, pair, ids \cup {id}) = SumOver(w, S \cup T)
  BY <1>3, TotalIsSum DEF LegSum
<1>7. LegSum(rows, pair, ids) = SumOver(w, S)
  <2> DEFINE v == [e \in S |-> e.quantity]
  <2>1. LegSum(rows, pair, ids) = SumOver(v, S)
    BY TotalIsSum DEF LegSum, S
  <2>2. \A e \in S : v[e] = w[e]
    OBVIOUS
  <2> HIDE DEF v, w
  <2> QED
    BY <1>2, <2>1, <2>2, SumAgrees
<1>8. LegSum(rows, pair, {id}) = SumOver(w, T)
  <2> DEFINE v == [e \in T |-> e.quantity]
  <2>1. LegSum(rows, pair, {id}) = SumOver(v, T)
    BY TotalIsSum DEF LegSum, T
  <2>2. \A e \in T : v[e] = w[e]
    OBVIOUS
  <2> HIDE DEF v, w
  <2> QED
    BY <1>2, <2>1, <2>2, SumAgrees
<1> HIDE DEF w
<1>9. SumOver(w, S \cup T) = SumOver(w, S) + SumOver(w, T)
  BY <1>2, <1>4, <1>5, SumOfBoth
<1> QED
  BY <1>6, <1>7, <1>8, <1>9

(* A row counts in a pair by its legs of the pair.                         *)
LEMMA LegSumOfOne ==
    ASSUME NEW rows, NEW id, NEW pair, NEW l \in DOMAIN rows[id].legs,
           rows[id].legs[l].quantity \in Int,
           \A k \in DOMAIN rows[id].legs :
              <<rows[id].legs[k].account, rows[id].legs[k].asset>> = pair <=> k = l
    PROVE  LegSum(rows, pair, {id}) = rows[id].legs[l].quantity
<1> DEFINE entry == [row |-> id, leg |-> l, quantity |-> rows[id].legs[l].quantity]
           entries == PairLegs(rows, pair, {id})
           w == [e \in entries |-> e.quantity]
<1>1. entries = {entry}
  <2>1. ASSUME NEW e
        PROVE  e \in entries <=> e = entry
    <3> HIDE DEF entries
    <3>1. e \in entries <=>
            \E i \in {id} : \E k \in DOMAIN rows[i].legs :
              /\ <<rows[i].legs[k].account, rows[i].legs[k].asset>> = pair
              /\ e = [row |-> i, leg |-> k, quantity |-> rows[i].legs[k].quantity]
      BY PairLegsEntry DEF entries
    <3> QED
      BY <3>1
  <2> QED
    BY <2>1
<1>2. LegSum(rows, pair, {id}) = SumOver(w, entries)
  BY TotalIsSum DEF LegSum
<1>3. w[entry] = rows[id].legs[l].quantity
  <2>1. entry \in entries
    BY <1>1
  <2> HIDE DEF entries
  <2>2. w[entry] = entry.quantity
    BY <2>1
  <2> QED
    BY <2>2
<1> HIDE DEF w, entries, entry
<1> QED
  BY <1>1, <1>2, <1>3, SumOfOne

LEMMA LegSumOfNone ==
    ASSUME NEW rows, NEW ids, NEW pair,
           \A i \in ids : \A k \in DOMAIN rows[i].legs :
              <<rows[i].legs[k].account, rows[i].legs[k].asset>> # pair
    PROVE  LegSum(rows, pair, ids) = 0
<1>1. PairLegs(rows, pair, ids) = {}
  BY DEF PairLegs
<1> QED
  BY <1>1, TotalIsSum, SumOfNone DEF LegSum

(* Only the legs of the pair count in its holding.                         *)
LEMMA LegSumDepends ==
    ASSUME NEW old, NEW new, NEW pair, NEW ids, NEW others,
           \A i \in ids : \A l \in DOMAIN old[i].legs :
              <<old[i].legs[l].account, old[i].legs[l].asset>> = pair
                  => i \in others /\ new[i].legs = old[i].legs,
           \A i \in others : \A l \in DOMAIN new[i].legs :
              <<new[i].legs[l].account, new[i].legs[l].asset>> = pair
                  => i \in ids /\ new[i].legs = old[i].legs
    PROVE  LegSum(old, pair, ids) = LegSum(new, pair, others)
<1>1. ASSUME NEW e
      PROVE  e \in PairLegs(old, pair, ids) <=> e \in PairLegs(new, pair, others)
  BY PairLegsEntry
<1>2. PairLegs(old, pair, ids) = PairLegs(new, pair, others)
  BY <1>1
<1> QED
  BY <1>2 DEF LegSum
=============================================================================
