--------------------------- MODULE LedgerDBProofs ---------------------------
(***************************************************************************)
(* What holds of the concurrent requests of LedgerDB, of any number of     *)
(* them: nobody holds a row that is gone, no inflow loses its lots, a      *)
(* request that commits alone leaves the projection right, and requests    *)
(* that overlap two by two never overdraw an account.                      *)
(*                                                                         *)
(* The invariant speaks of one request at a time: r is its number, x what  *)
(* session[r] holds, stored and held the committed rows and batches.       *)
(***************************************************************************)
EXTENDS LedgerDB, ReplayProofs

-----------------------------------------------------------------------------
(* Where no transfer comes with a fee, all that is sent arrives.           *)
FeeFree ==
    /\ \A request \in Requests : request.op = "create" => Whole(request.type, request.legs)
    /\ \A i \in DOMAIN Opening : Counts(Opening[i]) => Whole(Opening[i].type, Opening[i].legs)

(* A table of rows, those that count shaped as their types say.            *)
AllSound(stored) ==
    /\ IsRows(stored)
    /\ \A i \in DOMAIN stored : Counts(stored[i]) =>
         /\ Shaped(stored[i].type, stored[i].legs)
         /\ FeeFree => Whole(stored[i].type, stored[i].legs)

(* What a request r has flushed, laid over the rows.                       *)
Laid(r, request, stored) ==
    CASE request.op = "create"  -> Inserted(stored, r, Row(request.type, request.day, request.legs))
      [] request.op = "reverse" -> Inserted([stored EXCEPT ![request.target].status = "reversed"],
                                            r, Reversal(stored[request.target], request.target))
      [] request.op = "delete"  -> [stored EXCEPT ![request.target].deleted = TRUE]

LegsOf(request, stored) ==
    IF request.op = "create" THEN request.legs ELSE stored[request.target].legs

-----------------------------------------------------------------------------
(* The records.                                                            *)
Working == {"rebuild", "consumptions", "lots", "replay", "commit"}
Scanning == {"consumptions", "lots", "replay"}
Places == {"idle", "read", "write", "check", "done"} \cup Working
Answers == {"ok", "not_found", "not_active", "insufficient_balance", "insufficient_lots", "error"}

BatchRow == [by : Nat, asset : Assets, lots : Seq(LotRow), consumptions : Seq(SaleRow)]

SessionRow ==
    [pc : Places, request : Requests \cup {None}, todo : SUBSET Assets,
     asset : Assets \cup {None}, targets : SUBSET BatchRow, cleared : SUBSET BatchRow,
     gone : SUBSET BatchRow, fresh : SUBSET BatchRow, answer : Answers \cup {None},
     met : SUBSET Sessions]

Underway(x) == x.pc \notin {"idle", "done"}

(* The asset it is at, and those it has rebuilt.                           *)
Current(x) == IF x.pc \in Scanning THEN {x.asset} ELSE {}

Rebuilt(x, stored) ==
    IF x.pc \in Working
    THEN AssetsOf(LegsOf(x.request, stored)) \ (x.todo \cup Current(x))
    ELSE {}

-----------------------------------------------------------------------------
(* What a request asks for; where its scans are; what it holds.            *)
Asked(r, x, stored) ==
    /\ x.pc # "done" => r \notin DOMAIN stored
    /\ Underway(x) =>
         /\ x.request \in Requests /\ x.answer = None
         /\ x.pc = "read" => x.request.op # "create"
         /\ x.pc # "read" /\ x.request.op # "create" => x.request.target \in DOMAIN stored

Scans(x) ==
    /\ x.pc \notin Working => /\ x.todo = {} /\ x.gone = {} /\ x.cleared = {} /\ x.fresh = {}
    /\ x.pc \notin {"consumptions", "lots"} => x.targets = {}
    /\ x.pc = "commit" => x.todo = {}
    /\ Current(x) \subseteq Assets \ x.todo
    /\ \A b \in x.targets : /\ b.asset = x.asset
                            /\ x.pc = "consumptions" => b.consumptions # <<>>
    /\ \A b \in x.cleared : b.consumptions # <<>>
    /\ \A b \in x.gone : /\ b.asset \notin x.todo
                         /\ \/ b.consumptions = <<>> \/ b \in x.cleared
                            \/ x.pc = "lots" /\ b.asset = x.asset
    /\ \A b \in x.fresh : b.asset \notin x.todo \cup Current(x) /\ b.lots # <<>>

Holds(x, held) == x.gone \subseteq held /\ x.cleared \subseteq held

Within(x, stored) ==
    x.pc \in Working =>
        /\ x.todo \cup Current(x) \subseteq AssetsOf(LegsOf(x.request, stored))
        /\ \A b \in x.gone : b.asset \in AssetsOf(LegsOf(x.request, stored))

From(b, stored) == \A k \in DOMAIN b.lots : b.lots[k].source_leg[1] \in DOMAIN stored

FreshFrom(r, x, stored) ==
    \A b \in x.fresh : From(b, Laid(r, x.request, stored))

(* What it deletes it writes again, with the lots of its own row.          *)
HasLotIn(held, s, leg) == \E b \in held : b.asset = s /\ HasLot(b.lots, leg)

Carried(r, x, stored) ==
    \A s \in Rebuilt(x, stored) : \A i \in Relevant(Laid(r, x.request, stored), s) :
        \A l \in LegsIn(Laid(r, x.request, stored)[i], s) :
            /\ Laid(r, x.request, stored)[i].legs[l].quantity > 0
            /\ i = r \/ HasLotIn(x.gone, s, <<i, l>>)
            => HasLotIn(x.fresh, s, <<i, l>>)

(* Nobody it has overlapped has committed.                                 *)
Quiet(x, requests) ==
    \A q \in x.met : requests[q].pc = "done" => requests[q].answer # "ok"

(* Then its scans miss nothing and what it has rebuilt is right.           *)
Swept(x, stored, held) ==
    /\ x.pc = "lots" => \A b \in held : b.asset = x.asset => b \in x.gone \cup x.targets
    /\ x.pc = "replay" => \A b \in held : b.asset = x.asset => b \in x.gone
    /\ \A b \in held : b.asset \in Rebuilt(x, stored) => b \in x.gone

Right(r, x, stored, held) ==
    \A s \in Rebuilt(x, stored) :
        Projects(Laid(r, x.request, stored), s, (held \ x.gone) \cup x.fresh)

(* After no row of the asset does an account owe it.                       *)
Covered(stored, s) ==
    \A i \in Relevant(stored, s) : ~Overdrawn(stored, s, UpTo(stored, s, i))

Sheltered(r, x, stored) ==
    \A s \in Rebuilt(x, stored) : Covered(Laid(r, x.request, stored), s)

(* All of that but what it owes to those it has overlapped.                *)
Placed(r, x, stored, held) ==
    /\ x \in SessionRow /\ Asked(r, x, stored) /\ Scans(x) /\ Within(x, stored)
    /\ Holds(x, held) /\ FreshFrom(r, x, stored)

(* Two requests hold nothing both.                                         *)
Apart(x, y) == x.gone \cap y.gone = {} /\ x.cleared \cap y.cleared = {}

-----------------------------------------------------------------------------
(* The invariant.                                                          *)
Basis ==
    /\ AllSound(rows)
    /\ batches \subseteq BatchRow /\ \A b \in batches : b.lots # <<>> /\ From(b, rows)
    /\ session = [r \in Sessions |-> session[r]]
    /\ \A r \in Sessions : Placed(r, session[r], rows, batches)
    /\ \A q, r \in Sessions : q # r => Apart(session[q], session[r])

(* Every inflow that counts has a lot in one of the batches.               *)
AllKept(stored, held) ==
    \A s \in Assets : \A i \in Relevant(stored, s) : \A l \in LegsIn(stored[i], s) :
        stored[i].legs[l].quantity > 0 => HasLotIn(held, s, <<i, l>>)

Kept ==
    FeeFree => /\ AllKept(rows, batches)
               /\ \A r \in Sessions : Carried(r, session[r], rows)

Together ==
    \A q, r \in Sessions : q # r /\ Underway(session[q]) /\ Underway(session[r]) => q \in session[r].met

Clean ==
    \A r \in Sessions : Underway(session[r]) /\ Quiet(session[r], session) =>
        Swept(session[r], rows, batches) /\ Right(r, session[r], rows, batches)

InPairs == \A r \in Sessions : session[r].pc # "idle" => Cardinality(session[r].met) <= 1

Safe ==
    FeeFree /\ InPairs =>
        /\ NeverNegative(rows)
        /\ \A r \in Sessions : Sheltered(r, session[r], rows)

-----------------------------------------------------------------------------
(* Rows and requests.                                                      *)
LEMMA RequestCases ==
    ASSUME NEW request \in Requests
    PROVE  \/ /\ request.op = "create"
              /\ Row(request.type, request.day, request.legs) \in Transaction
              /\ Accepted(request.type, request.legs)
           \/ request.op = "reverse" \/ request.op = "delete"
BY LedgerDBAssumption

LEMMA AcceptedShape ==
    ASSUME NEW type \in SingleLegTypes \cup MultiLegTypes, NEW legs \in Seq(Leg),
           Accepted(type, legs)
    PROVE  Shaped(type, legs)
<1>1. \A l \in DOMAIN legs : legs[l].quantity \in Int
  <2>1. \A l \in DOMAIN legs : legs[l] \in Leg
    OBVIOUS
  <2> QED
    BY <2>1 DEF Leg
<1>2. DOMAIN legs = 1..Len(legs)
  OBVIOUS
<1>3. CASE type \in SingleLegTypes /\ Len(legs) = 1
  <2>1. DOMAIN legs = {1} /\ legs[1].quantity \in Int
    BY <1>1, <1>2, <1>3
  <2>2. type \notin MultiLegTypes
    BY <1>3 DEF SingleLegTypes, MultiLegTypes
  <2>3. PICK amount \in {legs[1].quantity, -legs[1].quantity} :
            amount > 0 /\ legs[1].quantity = SignedAmount(type, amount)
    BY <2>2 DEF Accepted
  <2>4. legs[1].quantity # 0 /\ (type \in Inbound <=> legs[1].quantity > 0)
    BY <2>1, <2>3 DEF SignedAmount
  <2> QED
    BY <1>3, <2>1, <2>4 DEF Shaped
<1>4. CASE type \in MultiLegTypes /\ Len(legs) = 2
  <2>1. DOMAIN legs = 1..2
    BY <1>2, <1>4
  <2>2. legs[1].quantity \in Int /\ legs[2].quantity \in Int
    BY <1>1, <2>1
  <2>3. type \notin SingleLegTypes
    BY <1>4 DEF SingleLegTypes, MultiLegTypes
  <2>4. PICK fee \in {0, -(legs[1].quantity + legs[2].quantity)} :
            fee >= 0 /\ WellFormed(type, legs, fee)
    BY <2>3 DEF Accepted
  <2>5. PICK out, in \in 1..2 :
          /\ legs[out].quantity < 0 /\ legs[in].quantity > 0
          /\ \/ type = "trade" /\ legs[out].asset # legs[in].asset
             \/ /\ type = "transfer"
                /\ legs[out].asset = legs[in].asset
                /\ legs[out].account # legs[in].account
                /\ legs[out].quantity + legs[in].quantity + fee = 0
    BY <2>4 DEF WellFormed
  <2>6. out # in /\ (out = 1 \/ out = 2) /\ (in = 1 \/ in = 2)
    BY <2>2, <2>5
  <2>7. {out, in} = 1..2
    BY <2>6
  <2>8. type = "transfer" => legs[out].quantity + legs[in].quantity <= 0
    BY <2>2, <2>4, <2>5, <2>6
  <2> QED
    BY <1>4, <2>1, <2>5, <2>7, <2>8 DEF Shaped
<1> QED
  BY <1>3, <1>4 DEF Accepted

(* A table with what a request flushes laid over it.                       *)
Over(new, stored, r, request) ==
    /\ DOMAIN stored \subseteq DOMAIN new /\ DOMAIN new \subseteq DOMAIN stored \cup {r}
    /\ \A i \in DOMAIN stored :
         /\ new[i].legs = stored[i].legs
         /\ Counts(new[i]) => new[i] = stored[i]
         /\ request.op = "create" \/ i # request.target => new[i] = stored[i]
    /\ request.op = "create" =>
         /\ r \in DOMAIN new
         /\ new[r] = Row(request.type, request.day, request.legs)
    /\ request.op # "create" /\ r \in DOMAIN new => ~Counts(new[r])
    /\ request.op # "create" /\ request.target \in DOMAIN new => ~Counts(new[request.target])

(* The request can be laid over the table.                                 *)
Fits(r, request, stored) ==
    /\ AllSound(stored) /\ r \in Nat /\ r \notin DOMAIN stored /\ request \in Requests
    /\ request.op # "create" => request.target \in DOMAIN stored

LEMMA RowChanged ==
    ASSUME NEW txn \in Transaction
    PROVE  /\ [txn EXCEPT !.status = "reversed"] \in Transaction
           /\ ~Counts([txn EXCEPT !.status = "reversed"])
           /\ [txn EXCEPT !.status = "reversed"].legs = txn.legs
           /\ [txn EXCEPT !.deleted = TRUE] \in Transaction
           /\ ~Counts([txn EXCEPT !.deleted = TRUE])
           /\ [txn EXCEPT !.deleted = TRUE].legs = txn.legs
BY DEF Transaction, Counts

LEMMA LaidOver ==
    ASSUME NEW stored, NEW r, NEW request, Fits(r, request, stored)
    PROVE  /\ Over(Laid(r, request, stored), stored, r, request)
           /\ AllSound(Laid(r, request, stored))
<1> DEFINE new == Laid(r, request, stored)
           target == request.target
<1>1. /\ IsFiniteSet(DOMAIN stored) /\ DOMAIN stored \subseteq Nat /\ r \in Nat /\ r \notin DOMAIN stored
      /\ \A i \in DOMAIN stored : stored[i] \in Transaction
      /\ \A i \in DOMAIN stored : Counts(stored[i]) =>
           Shaped(stored[i].type, stored[i].legs) /\ (FeeFree => Whole(stored[i].type, stored[i].legs))
  BY DEF Fits, AllSound, IsRows
<1>2. IsFiniteSet(DOMAIN stored \cup {r})
  BY <1>1, FS_AddElement
<1>3. CASE request.op = "create"
  <2> DEFINE row == Row(request.type, request.day, request.legs)
  <2>1. row \in Transaction /\ Accepted(request.type, request.legs)
    BY <1>3, RequestCases DEF Fits
  <2>2. new = Inserted(stored, r, row)
    BY <1>3 DEF Laid
  <2>3. /\ request.type \in SingleLegTypes \cup MultiLegTypes /\ request.legs \in Seq(Leg)
        /\ row.type = request.type /\ row.legs = request.legs
    BY <2>1 DEF Row, Transaction
  <2>4. Shaped(row.type, row.legs) /\ (FeeFree => Whole(row.type, row.legs))
    BY <1>3, <2>1, <2>3, AcceptedShape DEF FeeFree, Fits
  <2> HIDE DEF row, new
  <2>5. /\ DOMAIN new = DOMAIN stored \cup {r} /\ new[r] = row
        /\ \A i \in DOMAIN stored : new[i] = stored[i]
    <3>1. /\ DOMAIN Inserted(stored, r, row) = DOMAIN stored \cup {r}
          /\ Inserted(stored, r, row)[r] = row
          /\ \A i \in DOMAIN stored : i # r => Inserted(stored, r, row)[i] = stored[i]
      BY DEF Inserted
    <3>2. \A i \in DOMAIN stored : i # r
      BY <1>1
    <3> QED
      BY <2>2, <3>1, <3>2
  <2>6. AllSound(new)
    BY <1>1, <1>2, <2>1, <2>4, <2>5 DEF AllSound, IsRows
  <2>7. Over(new, stored, r, request)
    BY <1>3, <2>5 DEF Over, row
  <2> QED
    BY <2>6, <2>7 DEF new
<1>4. CASE request.op = "reverse"
  <2> DEFINE marked == [stored EXCEPT ![target].status = "reversed"]
             row == Reversal(stored[target], target)
  <2>1. target \in DOMAIN stored /\ target \in Nat /\ stored[target] \in Transaction
    BY <1>1, <1>4 DEF Fits
  <2>2. row \in Transaction /\ ~Counts(row)
    <3>1. row \in Transaction
      BY <2>1, ReversalType
    <3>2. ~Counts(row)
      BY <2>1 DEF Reversal, Row, Counts
    <3> QED
      BY <3>1, <3>2
  <2>3. /\ DOMAIN marked = DOMAIN stored
        /\ marked[target] = [stored[target] EXCEPT !.status = "reversed"]
        /\ \A i \in DOMAIN stored : i # target => marked[i] = stored[i]
    BY <2>1
  <2>4. marked[target] \in Transaction /\ ~Counts(marked[target]) /\ marked[target].legs = stored[target].legs
    BY <2>1, <2>3, RowChanged
  <2>5. new = Inserted(marked, r, row)
    BY <1>4 DEF Laid
  <2> HIDE DEF row, marked, target, new
  <2>6. /\ DOMAIN new = DOMAIN stored \cup {r} /\ new[r] = row
        /\ \A i \in DOMAIN stored : new[i] = marked[i]
    <3>1. /\ DOMAIN Inserted(marked, r, row) = DOMAIN marked \cup {r}
          /\ Inserted(marked, r, row)[r] = row
          /\ \A i \in DOMAIN marked : i # r => Inserted(marked, r, row)[i] = marked[i]
      BY DEF Inserted
    <3>2. \A i \in DOMAIN stored : i # r
      BY <1>1
    <3> QED
      BY <2>3, <2>5, <3>1, <3>2
  <2>7. AllSound(new)
    BY <1>1, <1>2, <2>1, <2>2, <2>3, <2>4, <2>6 DEF AllSound, IsRows
  <2>8. Over(new, stored, r, request)
    BY <1>4, <2>2, <2>3, <2>4, <2>6 DEF Over, target
  <2> QED
    BY <2>7, <2>8 DEF new
<1>5. CASE request.op = "delete"
  <2>1. target \in DOMAIN stored /\ stored[target] \in Transaction
    BY <1>1, <1>5 DEF Fits
  <2>2. new = [stored EXCEPT ![target].deleted = TRUE]
    BY <1>5 DEF Laid
  <2>3. /\ DOMAIN new = DOMAIN stored
        /\ new[target] = [stored[target] EXCEPT !.deleted = TRUE]
        /\ \A i \in DOMAIN stored : i # target => new[i] = stored[i]
    BY <2>1, <2>2
  <2>4. new[target] \in Transaction /\ ~Counts(new[target]) /\ new[target].legs = stored[target].legs
    BY <2>1, <2>3, RowChanged
  <2> HIDE DEF new, target
  <2>5. AllSound(new)
    BY <1>1, <2>1, <2>3, <2>4 DEF AllSound, IsRows
  <2>6. Over(new, stored, r, request)
    BY <1>1, <1>5, <2>3, <2>4 DEF Over, target
  <2> QED
    BY <2>5, <2>6 DEF new
<1> QED
  BY <1>3, <1>4, <1>5, RequestCases DEF Fits

LEMMA OverRows ==
    ASSUME NEW stored, NEW r, NEW request, Fits(r, request, stored),
           NEW new, Over(new, stored, r, request), NEW s
    PROVE  /\ Relevant(new, s) \subseteq Relevant(stored, s) \cup {r}
           /\ \A i \in Relevant(new, s) : i # r => new[i] = stored[i]
           /\ \A i \in Relevant(new, s) : new[i].legs = LegsOf(request, stored) \/ i # r
           /\ s \notin AssetsOf(LegsOf(request, stored)) =>
                /\ Relevant(new, s) = Relevant(stored, s)
                /\ \A i \in Relevant(stored, s) : new[i] = stored[i]
<1>1. \A i \in DOMAIN new : Counts(new[i]) /\ i # r => i \in DOMAIN stored /\ new[i] = stored[i]
  BY DEF Over
<1>2. Relevant(new, s) \subseteq Relevant(stored, s) \cup {r}
  BY <1>1 DEF Relevant
<1>3. r \in DOMAIN new /\ Counts(new[r]) => new[r].legs = LegsOf(request, stored)
  BY DEF Over, LegsOf, Row
<1>4. ASSUME s \notin AssetsOf(LegsOf(request, stored))
      PROVE  /\ Relevant(new, s) = Relevant(stored, s)
             /\ \A i \in Relevant(stored, s) : new[i] = stored[i]
  <2>1. r \notin Relevant(new, s)
    BY <1>3, <1>4 DEF Relevant, LegsIn, AssetsOf
  <2>2. ASSUME NEW i \in Relevant(stored, s)
        PROVE  new[i] = stored[i] /\ i \in DOMAIN new
    <3>1. i \in DOMAIN stored /\ LegsIn(stored[i], s) # {}
      BY DEF Relevant
    <3>2. ASSUME request.op # "create"
          PROVE  i # request.target
      BY <1>4, <3>1, <3>2 DEF LegsOf, LegsIn, AssetsOf
    <3> QED
      BY <3>1, <3>2 DEF Over
  <2> QED
    BY <1>1, <1>2, <2>1, <2>2 DEF Relevant
<1> QED
  BY <1>1, <1>2, <1>3, <1>4 DEF Relevant

-----------------------------------------------------------------------------
(* A statement that ends no request and rebuilds nothing.                  *)
Onward(r, x, y, stored, held) ==
    /\ Placed(r, y, stored, held) /\ Underway(x) /\ Underway(y)
    /\ y.request = x.request /\ y.met = x.met /\ y.fresh = x.fresh /\ y.answer = x.answer
    /\ x.gone \subseteq y.gone /\ \A b \in y.gone \ x.gone : b.asset \in Current(x)
    /\ Rebuilt(y, stored) = Rebuilt(x, stored)
    /\ Swept(x, stored, held) => Swept(y, stored, held)

LEMMA OnRead ==
    ASSUME NEW r, NEW stored, NEW held, NEW x, Placed(r, x, stored, held),
           x.pc = "read", x.request.target \in DOMAIN stored,
           NEW y, y = [x EXCEPT !.pc = "write"]
    PROVE  Onward(r, x, y, stored, held) /\ y.cleared = x.cleared /\ y.gone = x.gone
<1>1. /\ y \in SessionRow /\ y.pc = "write" /\ y.request = x.request /\ y.todo = x.todo
      /\ y.targets = x.targets /\ y.cleared = x.cleared /\ y.gone = x.gone
      /\ y.fresh = x.fresh /\ y.met = x.met /\ y.asset = x.asset /\ y.answer = x.answer
  BY DEF Placed, SessionRow, Places
<1>2. Asked(r, y, stored)
  BY <1>1 DEF Placed, Asked, Underway
<1>3. Scans(y) /\ Within(y, stored) /\ Holds(y, held) /\ FreshFrom(r, y, stored)
  BY <1>1 DEF Placed, Scans, Within, Holds, FreshFrom, Working, Scanning, Current
<1>4. Rebuilt(y, stored) = Rebuilt(x, stored) /\ (Swept(x, stored, held) => Swept(y, stored, held))
  BY <1>1 DEF Rebuilt, Swept, Working
<1> QED
  BY <1>1, <1>2, <1>3, <1>4 DEF Onward, Placed, Underway

LEMMA OnWrite ==
    ASSUME NEW r, NEW stored, NEW held, NEW x, Placed(r, x, stored, held),
           x.pc = "write", NEW y, y = [x EXCEPT !.pc = "check"]
    PROVE  Onward(r, x, y, stored, held) /\ y.cleared = x.cleared /\ y.gone = x.gone
<1>1. /\ y \in SessionRow /\ y.pc = "check" /\ y.request = x.request /\ y.todo = x.todo
      /\ y.targets = x.targets /\ y.cleared = x.cleared /\ y.gone = x.gone
      /\ y.fresh = x.fresh /\ y.met = x.met /\ y.asset = x.asset /\ y.answer = x.answer
  BY DEF Placed, SessionRow, Places
<1>2. Asked(r, y, stored)
  BY <1>1 DEF Placed, Asked, Underway
<1>3. Scans(y) /\ Within(y, stored) /\ Holds(y, held) /\ FreshFrom(r, y, stored)
  BY <1>1 DEF Placed, Scans, Within, Holds, FreshFrom, Working, Scanning, Current
<1>4. Rebuilt(y, stored) = Rebuilt(x, stored) /\ (Swept(x, stored, held) => Swept(y, stored, held))
  BY <1>1 DEF Rebuilt, Swept, Working
<1> QED
  BY <1>1, <1>2, <1>3, <1>4 DEF Onward, Placed, Underway

LEMMA LegsTyped ==
    ASSUME NEW r, NEW stored, AllSound(stored), NEW x, Asked(r, x, stored), Underway(x),
           x.pc # "read"
    PROVE  LegsOf(x.request, stored) \in Seq(Leg) /\ AssetsOf(LegsOf(x.request, stored)) \subseteq Assets
<1> DEFINE legs == LegsOf(x.request, stored)
<1>1. legs \in Seq(Leg)
  <2>1. CASE x.request.op = "create"
    <3>1. Row(x.request.type, x.request.day, x.request.legs) \in Transaction
      BY <2>1, RequestCases DEF Asked
    <3>2. x.request.legs \in Seq(Leg)
      BY <3>1 DEF Row, Transaction
    <3> QED
      BY <2>1, <3>2 DEF LegsOf
  <2>2. CASE x.request.op # "create"
    <3>1. stored[x.request.target] \in Transaction
      BY <2>2 DEF Asked, AllSound, IsRows
    <3> QED
      BY <2>2, <3>1 DEF LegsOf, Transaction
  <2> QED
    BY <2>1, <2>2
<1> HIDE DEF legs
<1>2. \A l \in DOMAIN legs : legs[l] \in Leg
  BY <1>1
<1>3. \A l \in DOMAIN legs : legs[l].asset \in Assets
  BY <1>2 DEF Leg
<1>4. AssetsOf(legs) \subseteq Assets
  BY <1>3 DEF AssetsOf
<1> QED
  BY <1>1, <1>4 DEF legs

Checked(x, stored, y) ==
    y = [x EXCEPT !.pc = "rebuild", !.todo = AssetsOf(LegsOf(x.request, stored))]

LEMMA OnCheck ==
    ASSUME NEW r, NEW stored, AllSound(stored), NEW held, NEW x, Placed(r, x, stored, held),
           x.pc = "check", NEW y, Checked(x, stored, y)
    PROVE  Onward(r, x, y, stored, held) /\ y.cleared = x.cleared /\ y.gone = x.gone
<1> DEFINE all == AssetsOf(LegsOf(x.request, stored))
<1>1. all \subseteq Assets
  BY LegsTyped DEF Placed, Underway
<1> HIDE DEF all
<1>2. y = [x EXCEPT !.pc = "rebuild", !.todo = all]
  BY DEF Checked, all
<1>3. /\ y \in SessionRow /\ y.pc = "rebuild" /\ y.request = x.request /\ y.todo = all
      /\ y.targets = x.targets /\ y.cleared = x.cleared /\ y.gone = x.gone
      /\ y.fresh = x.fresh /\ y.met = x.met /\ y.asset = x.asset /\ y.answer = x.answer
  BY <1>1, <1>2 DEF Placed, SessionRow, Places, Working
<1>4. Asked(r, y, stored)
  BY <1>3 DEF Placed, Asked, Underway
<1>5. x.gone = {} /\ x.cleared = {} /\ x.fresh = {} /\ x.targets = {}
  BY DEF Placed, Scans, Working
<1>6. Scans(y) /\ Within(y, stored) /\ Holds(y, held) /\ FreshFrom(r, y, stored)
  BY <1>3, <1>5 DEF Scans, Within, Holds, FreshFrom, Working, Scanning, Current, all
<1>7. Rebuilt(y, stored) = Rebuilt(x, stored)
  BY <1>3 DEF Rebuilt, Working, Current, Scanning, all
<1>8. Swept(y, stored, held)
  BY <1>3, <1>7 DEF Rebuilt, Swept, Working
<1> QED
  BY <1>3, <1>4, <1>6, <1>7, <1>8 DEF Onward, Placed, Underway

Started(x, held, s, y) ==
    y = [x EXCEPT !.pc = "consumptions", !.asset = s, !.todo = @ \ {s},
                  !.targets = {b \in {c \in held : c.asset = s} : b.consumptions # <<>>}]

LEMMA OnStart ==
    ASSUME NEW r, NEW stored, NEW held, held \subseteq BatchRow,
           NEW x, Placed(r, x, stored, held), x.pc = "rebuild", NEW s \in x.todo,
           NEW y, Started(x, held, s, y)
    PROVE  Onward(r, x, y, stored, held) /\ y.cleared = x.cleared /\ y.gone = x.gone
<1> DEFINE targets == {b \in {c \in held : c.asset = s} : b.consumptions # <<>>}
           rest == x.todo \ {s}
<1>1. targets \subseteq BatchRow /\ \A b \in targets : b.asset = s /\ b.consumptions # <<>>
  OBVIOUS
<1>2. s \in Assets /\ rest \subseteq Assets
  BY DEF Placed, SessionRow
<1> HIDE DEF targets, rest
<1>3. y = [x EXCEPT !.pc = "consumptions", !.asset = s, !.todo = rest, !.targets = targets]
  BY DEF Started, targets, rest
<1>4. /\ y \in SessionRow /\ y.pc = "consumptions" /\ y.request = x.request /\ y.todo = rest
      /\ y.targets = targets /\ y.cleared = x.cleared /\ y.gone = x.gone
      /\ y.fresh = x.fresh /\ y.met = x.met /\ y.asset = s /\ y.answer = x.answer
  BY <1>1, <1>2, <1>3 DEF Placed, SessionRow, Places, Working
<1>5. Current(y) = {s} /\ Current(x) = {} /\ rest = x.todo \ {s} /\ s \notin rest
  BY <1>4 DEF Current, Scanning, rest
<1>6. Asked(r, y, stored)
  BY <1>4 DEF Placed, Asked, Underway
<1>7. Scans(y)
  BY <1>1, <1>2, <1>4, <1>5 DEF Placed, Scans, Working
<1>8. Within(y, stored) /\ Holds(y, held) /\ FreshFrom(r, y, stored)
  BY <1>4, <1>5 DEF Placed, Within, Holds, FreshFrom, Working
<1>9. Rebuilt(y, stored) = Rebuilt(x, stored)
  BY <1>4, <1>5 DEF Rebuilt, Working
<1>10. Swept(x, stored, held) => Swept(y, stored, held)
  BY <1>4, <1>9 DEF Swept
<1> QED
  BY <1>4, <1>6, <1>7, <1>8, <1>9, <1>10 DEF Onward, Placed, Underway

Cleared(x, held, b, y) ==
    y = [x EXCEPT !.targets = @ \ {b}, !.cleared = @ \cup ({b} \cap held)]

LEMMA OnConsumptions ==
    ASSUME NEW r, NEW stored, NEW held, held \subseteq BatchRow,
           NEW x, Placed(r, x, stored, held), x.pc = "consumptions", NEW b \in x.targets,
           NEW y, Cleared(x, held, b, y)
    PROVE  /\ Onward(r, x, y, stored, held) /\ y.gone = x.gone
           /\ y.cleared \subseteq x.cleared \cup {b}
<1> DEFINE targets == x.targets \ {b}
           cleared == x.cleared \cup ({b} \cap held)
<1>1. targets \subseteq BatchRow /\ cleared \subseteq BatchRow
  BY DEF Placed, SessionRow
<1>2. b.consumptions # <<>>
  BY DEF Placed, Scans
<1> HIDE DEF targets, cleared
<1>3. y = [x EXCEPT !.targets = targets, !.cleared = cleared]
  BY DEF Cleared, targets, cleared
<1>4. /\ y \in SessionRow /\ y.pc = "consumptions" /\ y.request = x.request /\ y.todo = x.todo
      /\ y.targets = targets /\ y.cleared = cleared /\ y.gone = x.gone
      /\ y.fresh = x.fresh /\ y.met = x.met /\ y.asset = x.asset /\ y.answer = x.answer
  BY <1>1, <1>3 DEF Placed, SessionRow
<1>5. Current(y) = Current(x)
  BY <1>4 DEF Current
<1>6. Asked(r, y, stored)
  BY <1>4 DEF Placed, Asked, Underway
<1>7. Scans(y)
  BY <1>2, <1>4, <1>5 DEF Placed, Scans, Working, targets, cleared
<1>8. Within(y, stored) /\ Holds(y, held) /\ FreshFrom(r, y, stored)
  BY <1>4, <1>5 DEF Placed, Within, Holds, FreshFrom, cleared
<1>9. Rebuilt(y, stored) = Rebuilt(x, stored)
  BY <1>4, <1>5 DEF Rebuilt
<1>10. Swept(x, stored, held) => Swept(y, stored, held)
  BY <1>4, <1>9 DEF Swept
<1> QED
  BY <1>4, <1>6, <1>7, <1>8, <1>9, <1>10 DEF Onward, Placed, Underway, cleared

AtLots(x, held, y) ==
    y = [x EXCEPT !.pc = "lots", !.targets = {b \in held : b.asset = x.asset}]

LEMMA OnStartLots ==
    ASSUME NEW r, NEW stored, NEW held, held \subseteq BatchRow,
           NEW x, Placed(r, x, stored, held), x.pc = "consumptions", x.targets = {},
           NEW y, AtLots(x, held, y)
    PROVE  Onward(r, x, y, stored, held) /\ y.cleared = x.cleared /\ y.gone = x.gone
<1> DEFINE targets == {b \in held : b.asset = x.asset}
<1>1. targets \subseteq BatchRow /\ \A b \in targets : b.asset = x.asset
  OBVIOUS
<1>2. \A b \in held : b.asset = x.asset => b \in targets
  OBVIOUS
<1> HIDE DEF targets
<1>3. y = [x EXCEPT !.pc = "lots", !.targets = targets]
  BY DEF AtLots, targets
<1>4. /\ y \in SessionRow /\ y.pc = "lots" /\ y.request = x.request /\ y.todo = x.todo
      /\ y.targets = targets /\ y.cleared = x.cleared /\ y.gone = x.gone
      /\ y.fresh = x.fresh /\ y.met = x.met /\ y.asset = x.asset /\ y.answer = x.answer
  BY <1>1, <1>3 DEF Placed, SessionRow, Places, Working
<1>5. Current(y) = Current(x)
  BY <1>4 DEF Current, Scanning
<1>6. Asked(r, y, stored)
  BY <1>4 DEF Placed, Asked, Underway
<1>7. Scans(y)
  BY <1>1, <1>4, <1>5 DEF Placed, Scans, Working
<1>8. Within(y, stored) /\ Holds(y, held) /\ FreshFrom(r, y, stored)
  BY <1>4, <1>5 DEF Placed, Within, Holds, FreshFrom, Working
<1>9. Rebuilt(y, stored) = Rebuilt(x, stored)
  BY <1>4, <1>5 DEF Rebuilt, Working
<1>10. Swept(x, stored, held) => Swept(y, stored, held)
  BY <1>2, <1>4, <1>9 DEF Swept
<1> QED
  BY <1>4, <1>6, <1>7, <1>8, <1>9, <1>10 DEF Onward, Placed, Underway

Deleted(x, held, b, y) ==
    y = [x EXCEPT !.targets = @ \ {b}, !.gone = @ \cup ({b} \cap held)]

LEMMA OnLots ==
    ASSUME NEW r, NEW stored, NEW held, held \subseteq BatchRow,
           NEW x, Placed(r, x, stored, held), x.pc = "lots", NEW b \in x.targets,
           NEW y, Deleted(x, held, b, y)
    PROVE  /\ Onward(r, x, y, stored, held) /\ y.cleared = x.cleared
           /\ y.gone \subseteq x.gone \cup {b}
<1> DEFINE targets == x.targets \ {b}
           gone == x.gone \cup ({b} \cap held)
<1>1. targets \subseteq BatchRow /\ gone \subseteq BatchRow
  BY DEF Placed, SessionRow
<1>2. b.asset = x.asset /\ Current(x) = {x.asset} /\ x.asset \notin x.todo
  BY DEF Placed, Scans, Current, Scanning
<1> HIDE DEF targets, gone
<1>3. y = [x EXCEPT !.targets = targets, !.gone = gone]
  BY DEF Deleted, targets, gone
<1>4. /\ y \in SessionRow /\ y.pc = "lots" /\ y.request = x.request /\ y.todo = x.todo
      /\ y.targets = targets /\ y.cleared = x.cleared /\ y.gone = gone
      /\ y.fresh = x.fresh /\ y.met = x.met /\ y.asset = x.asset /\ y.answer = x.answer
  BY <1>1, <1>3 DEF Placed, SessionRow
<1>5. Current(y) = Current(x)
  BY <1>4 DEF Current
<1>6. Asked(r, y, stored)
  BY <1>4 DEF Placed, Asked, Underway
<1>7. Scans(y)
  BY <1>2, <1>4, <1>5 DEF Placed, Scans, Working, targets, gone
<1>8. Within(y, stored) /\ Holds(y, held) /\ FreshFrom(r, y, stored)
  BY <1>2, <1>4, <1>5 DEF Placed, Within, Holds, FreshFrom, gone, Working
<1>9. Rebuilt(y, stored) = Rebuilt(x, stored)
  BY <1>4, <1>5 DEF Rebuilt
<1>10. Swept(x, stored, held) => Swept(y, stored, held)
  BY <1>4, <1>9 DEF Swept, targets, gone
<1> QED
  BY <1>2, <1>4, <1>6, <1>7, <1>8, <1>9, <1>10 DEF Onward, Placed, Underway, gone

LEMMA OnReferences ==
    ASSUME NEW r, NEW stored, NEW held, NEW x, Placed(r, x, stored, held),
           x.pc = "lots", x.targets = {},
           {b \in x.gone \ x.cleared : b.asset = x.asset /\ b.consumptions # <<>>} = {},
           NEW y, y = [x EXCEPT !.pc = "replay"]
    PROVE  Onward(r, x, y, stored, held) /\ y.cleared = x.cleared /\ y.gone = x.gone
<1>1. /\ y \in SessionRow /\ y.pc = "replay" /\ y.request = x.request /\ y.todo = x.todo
      /\ y.targets = {} /\ y.cleared = x.cleared /\ y.gone = x.gone
      /\ y.fresh = x.fresh /\ y.met = x.met /\ y.asset = x.asset /\ y.answer = x.answer
  BY DEF Placed, SessionRow, Places, Working
<1>2. Current(y) = Current(x)
  BY <1>1 DEF Current, Scanning
<1>3. Asked(r, y, stored)
  BY <1>1 DEF Placed, Asked, Underway
<1>4. \A b \in x.gone : b.consumptions = <<>> \/ b \in x.cleared
  BY DEF Placed, Scans
<1>5. Scans(y)
  BY <1>1, <1>2, <1>4 DEF Placed, Scans, Working
<1>6. Within(y, stored) /\ Holds(y, held) /\ FreshFrom(r, y, stored)
  BY <1>1, <1>2 DEF Placed, Within, Holds, FreshFrom, Working
<1>7. Rebuilt(y, stored) = Rebuilt(x, stored)
  BY <1>1, <1>2 DEF Rebuilt, Working
<1>8. Swept(x, stored, held) => Swept(y, stored, held)
  BY <1>1, <1>7 DEF Swept
<1> QED
  BY <1>1, <1>3, <1>5, <1>6, <1>7, <1>8 DEF Onward, Placed, Underway

-----------------------------------------------------------------------------
(* The statement that rebuilds an asset.                                   *)
LEMMA RebuildExact ==
    ASSUME NEW stored, AllSound(stored), NEW s \in Assets
    PROVE  Exact(Rebuild(stored, Prices, s), stored, s)
<1>1. Prices[s] \subseteq [as_of : Days, price : Nat]
  BY LedgerDBAssumption
<1>2. Replayable(stored, Prices, s)
  BY <1>1 DEF Replayable, AllSound
<1> QED
  BY <1>2, ReplayIsExact

LEMMA PlacedFits ==
    ASSUME NEW r \in Sessions, NEW stored, AllSound(stored), NEW x, Asked(r, x, stored),
           Underway(x), x.pc # "read"
    PROVE  Fits(r, x.request, stored)
BY LedgerDBAssumption DEF Asked, Fits, Underway

(* The batch a rebuild writes.                                             *)
Fresh(r, s, rebuilt) == {b \in {Batch(r, s, rebuilt)} : b.lots # <<>>}

LEMMA FreshBatch ==
    ASSUME NEW r \in Nat, NEW s \in Assets, NEW stored, NEW rebuilt, Exact(rebuilt, stored, s),
           ~rebuilt.short
    PROVE  \A b \in Fresh(r, s, rebuilt) :
             /\ b \in BatchRow /\ b.asset = s /\ b.lots # <<>> /\ From(b, stored)
             /\ b.lots = rebuilt.lots /\ b.consumptions = rebuilt.consumptions
<1> DEFINE b == Batch(r, s, rebuilt)
<1>1. /\ b.by = r /\ b.asset = s /\ b.lots = rebuilt.lots /\ b.consumptions = rebuilt.consumptions
      /\ b = [by |-> r, asset |-> s, lots |-> rebuilt.lots, consumptions |-> rebuilt.consumptions]
  BY DEF Batch
<1>2. rebuilt.lots \in Seq(LotRow) /\ rebuilt.consumptions \in Seq(SaleRow)
  BY DEF Exact, ReplayState
<1> HIDE DEF b
<1>3. b \in BatchRow
  BY <1>1, <1>2 DEF BatchRow
<1>4. \A k \in DOMAIN rebuilt.lots : rebuilt.lots[k].source_leg[1] \in DOMAIN stored
  BY DEF Exact, Sound, FromInflows, Legit, Relevant
<1>5. From(b, stored)
  BY <1>1, <1>4 DEF From
<1> QED
  BY <1>1, <1>3, <1>5 DEF Fresh, b

Rebuilds(r, x, y, s, stored, held) ==
    /\ Placed(r, y, stored, held) /\ Underway(x) /\ Underway(y) /\ x.pc = "replay"
    /\ y.request = x.request /\ y.met = x.met /\ y.gone = x.gone /\ y.cleared = x.cleared
    /\ y.answer = x.answer
    /\ s \in Assets /\ s \notin Rebuilt(x, stored) /\ Rebuilt(y, stored) = Rebuilt(x, stored) \cup {s}
    /\ \A b \in x.fresh : b.asset # s
    /\ ~Rebuild(Laid(r, x.request, stored), Prices, s).short
    /\ y.fresh = x.fresh \cup Fresh(r, s, Rebuild(Laid(r, x.request, stored), Prices, s))
    /\ Swept(x, stored, held) => /\ Swept(y, stored, held)
                                 /\ \A b \in held : b.asset = s => b \in x.gone

LEMMA OnReplay ==
    ASSUME NEW r \in Sessions, NEW stored, AllSound(stored), NEW held,
           NEW x, Placed(r, x, stored, held), x.pc = "replay",
           NEW rebuilt, rebuilt = Rebuild(Laid(r, x.request, stored), Prices, x.asset),
           ~rebuilt.short,
           NEW y, y = [x EXCEPT !.pc = IF x.todo = {} THEN "commit" ELSE "rebuild",
                                !.asset = None,
                                !.fresh = @ \cup Fresh(r, x.asset, rebuilt)]
    PROVE  Rebuilds(r, x, y, x.asset, stored, held)
<1> DEFINE s == x.asset
           pc == IF x.todo = {} THEN "commit" ELSE "rebuild"
           new == Fresh(r, s, rebuilt)
           fresh == x.fresh \cup new
           laid == Laid(r, x.request, stored)
<1>1. /\ Underway(x) /\ Current(x) = {s} /\ s \in Assets /\ s \notin x.todo /\ r \in Nat
      /\ s \in AssetsOf(LegsOf(x.request, stored))
  BY LedgerDBAssumption DEF Placed, Scans, Within, Current, Scanning, Underway, Working
<1>2. Fits(r, x.request, stored)
  BY <1>1, PlacedFits DEF Placed
<1>3. AllSound(laid)
  BY <1>2, LaidOver
<1>4. Exact(rebuilt, laid, s)
  BY <1>1, <1>3, RebuildExact
<1> HIDE DEF laid, s
<1>5. \A b \in new : b \in BatchRow /\ b.asset = s /\ b.lots # <<>> /\ From(b, laid)
  BY <1>1, <1>4, FreshBatch
<1> HIDE DEF new
<1>6. fresh \subseteq BatchRow /\ x.fresh \subseteq BatchRow
  BY <1>5 DEF Placed, SessionRow
<1>7. pc \in {"commit", "rebuild"} /\ (pc = "commit" => x.todo = {})
  OBVIOUS
<1> HIDE DEF fresh, pc
<1>8. y = [x EXCEPT !.pc = pc, !.asset = None, !.fresh = fresh]
  BY DEF pc, fresh, new, s
<1>9. /\ y \in SessionRow /\ y.pc = pc /\ y.request = x.request /\ y.todo = x.todo
      /\ y.targets = x.targets /\ y.cleared = x.cleared /\ y.gone = x.gone
      /\ y.fresh = fresh /\ y.met = x.met /\ y.asset = None /\ y.answer = x.answer
  BY <1>6, <1>7, <1>8 DEF Placed, SessionRow, Places, Working
<1>10. Current(y) = {} /\ pc \in Working /\ x.targets = {} /\ x.pc \in Working
  BY <1>7, <1>9 DEF Current, Scanning, Working, Placed, Scans
<1>11. Asked(r, y, stored)
  BY <1>1, <1>7, <1>9 DEF Placed, Asked, Underway
<1>12. Scans(y)
  <2>1. \A b \in fresh : b.asset \notin y.todo /\ b.lots # <<>>
    BY <1>1, <1>5, <1>9 DEF Placed, Scans, fresh
  <2>2. \A b \in x.gone : b.asset \notin x.todo /\ (b.consumptions = <<>> \/ b \in x.cleared)
    BY DEF Placed, Scans
  <2>3. \A b \in x.cleared : b.consumptions # <<>>
    BY DEF Placed, Scans
  <2> QED
    BY <1>7, <1>9, <1>10, <2>1, <2>2, <2>3 DEF Scans
<1>13. Within(y, stored) /\ Holds(y, held)
  BY <1>9, <1>10 DEF Placed, Within, Holds
<1>14. FreshFrom(r, y, stored)
  BY <1>5, <1>9 DEF Placed, FreshFrom, fresh, laid
<1>15. s \notin Rebuilt(x, stored) /\ Rebuilt(y, stored) = Rebuilt(x, stored) \cup {s}
  BY <1>1, <1>9, <1>10 DEF Rebuilt
<1>16. \A b \in x.fresh : b.asset # s
  BY <1>1 DEF Placed, Scans
<1>17. Swept(x, stored, held) => /\ Swept(y, stored, held)
                                 /\ \A b \in held : b.asset = s => b \in x.gone
  BY <1>7, <1>9, <1>15 DEF Swept, s
<1>18. y.fresh = x.fresh \cup Fresh(r, s, rebuilt)
  BY <1>9 DEF fresh, new
<1>19. Underway(y)
  BY <1>7, <1>9 DEF Underway
<1> QED
  BY <1>1, <1>9, <1>11, <1>12, <1>13, <1>14, <1>15, <1>16, <1>17, <1>18, <1>19 DEF Rebuilds, Placed, s

-----------------------------------------------------------------------------
(* The steps: a request begins, fails, goes on, rebuilds or commits.       *)
Fails(r) == \E why \in Answers \ {"ok"} : Abort(r, why) /\ Live(r)

GoesOn(r) ==
    \E y : /\ Advance(r, y) /\ Onward(r, session[r], y, rows, batches)
           /\ \A q \in Sessions \ {r} : Apart(session[q], y)

RebuildsOne(r) ==
    \E y, s : Advance(r, y) /\ Rebuilds(r, session[r], y, s, rows, batches)

LEMMA TargetIsOne ==
    ASSUME NEW targets \in SUBSET BatchRow, targets # {}
    PROVE  (CHOOSE b \in targets : \A c \in targets : b.by <= c.by) \in targets
<1> DEFINE numbers == {b.by : b \in targets}
<1>1. numbers \in SUBSET Nat /\ numbers # {}
  <2>1. \A b \in targets : b.by \in Nat
    BY DEF BatchRow
  <2> QED
    BY <2>1
<1>2. PICK n \in numbers : \A m \in numbers : n <= m
  BY <1>1, LeastNat
<1>3. \E b \in targets : \A c \in targets : b.by <= c.by
  BY <1>2
<1> QED
  BY <1>3

LEMMA HeldByPeers ==
    ASSUME Basis, NEW r \in Sessions, NEW q \in Sessions \ {r}
    PROVE  q \in Peers(r) \/ (session[q].gone = {} /\ session[q].cleared = {})
BY DEF Basis, Placed, Scans, Peers, Live, Working

LEMMA StillApart ==
    ASSUME Basis, NEW r \in Sessions, NEW y,
           y.gone = session[r].gone, y.cleared = session[r].cleared
    PROVE  \A q \in Sessions \ {r} : Apart(session[q], y)
BY DEF Basis, Apart

LEMMA StepCases ==
    ASSUME Basis, NEW r \in Sessions, Step(r)
    PROVE  Fails(r) \/ GoesOn(r) \/ RebuildsOne(r) \/ Commit(r)
<1> DEFINE x == session[r]
<1>1. /\ Placed(r, x, rows, batches) /\ AllSound(rows) /\ batches \subseteq BatchRow
      /\ x \in SessionRow
  BY DEF Basis, Placed
<1>2. x.targets \in SUBSET BatchRow
  BY <1>1 DEF SessionRow
<1>3. CASE ReadTarget(r)
  <2>1. x.pc = "read" /\ Live(r)
    BY <1>3 DEF ReadTarget, Live
  <2>2. CASE Abort(r, "not_found") \/ Abort(r, "not_active")
    BY <2>1, <2>2 DEF Fails, Answers
  <2>3. CASE x.request.target \in DOMAIN rows /\ Advance(r, [x EXCEPT !.pc = "write"])
    <3> DEFINE y == [x EXCEPT !.pc = "write"]
    <3> HIDE DEF x
    <3>1. Onward(r, x, y, rows, batches) /\ y.cleared = x.cleared /\ y.gone = x.gone
      BY <1>1, <2>1, <2>3, OnRead
    <3> HIDE DEF y
    <3>2. \A q \in Sessions \ {r} : Apart(session[q], y)
      BY <3>1, StillApart DEF x
    <3> QED
      BY <2>3, <3>1, <3>2 DEF GoesOn, y, x
  <2> QED
    BY <1>3, <2>2, <2>3 DEF ReadTarget
<1>4. CASE Write(r)
  <2> DEFINE y == [x EXCEPT !.pc = "check"]
  <2>1. x.pc = "write" /\ Advance(r, y)
    BY <1>4 DEF Write
  <2> HIDE DEF x
  <2>2. Onward(r, x, y, rows, batches) /\ y.cleared = x.cleared /\ y.gone = x.gone
    BY <1>1, <2>1, OnWrite
  <2> HIDE DEF y
  <2>3. \A q \in Sessions \ {r} : Apart(session[q], y)
    BY <2>2, StillApart DEF x
  <2> QED
    BY <2>1, <2>2, <2>3 DEF GoesOn, x
<1>5. CASE Check(r)
  <2>1. x.pc = "check" /\ Live(r)
    BY <1>5 DEF Check, Live
  <2>2. CASE Abort(r, "insufficient_balance")
    BY <2>1, <2>2 DEF Fails, Answers
  <2>3. CASE Advance(r, [x EXCEPT !.pc = "rebuild", !.todo = AssetsOf(Legs(r))])
    <3> DEFINE y == [x EXCEPT !.pc = "rebuild", !.todo = AssetsOf(LegsOf(x.request, rows))]
    <3>1. Legs(r) = LegsOf(x.request, rows)
      BY DEF Legs, LegsOf
    <3>2. Advance(r, y)
      BY <2>3, <3>1
    <3> HIDE DEF x
    <3>3. Checked(x, rows, y)
      BY DEF Checked
    <3> HIDE DEF y
    <3>4. Onward(r, x, y, rows, batches) /\ y.cleared = x.cleared /\ y.gone = x.gone
      BY <1>1, <2>1, <3>3, OnCheck
    <3>5. \A q \in Sessions \ {r} : Apart(session[q], y)
      BY <3>4, StillApart DEF x
    <3> QED
      BY <3>2, <3>4, <3>5 DEF GoesOn, x
  <2> QED
    BY <1>5, <2>2, <2>3 DEF Check
<1>6. CASE StartRebuild(r)
  <2>1. x.pc = "rebuild"
    BY <1>6 DEF StartRebuild
  <2>2. PICK s \in x.todo :
          Advance(r, [x EXCEPT !.pc = "consumptions", !.asset = s, !.todo = @ \ {s},
                               !.targets = {b \in {c \in batches : c.asset = s} : b.consumptions # <<>>}])
    BY <1>6 DEF StartRebuild, BatchesOf
  <2> DEFINE y == [x EXCEPT !.pc = "consumptions", !.asset = s, !.todo = @ \ {s},
                            !.targets = {b \in {c \in batches : c.asset = s} : b.consumptions # <<>>}]
  <2>3. Advance(r, y) /\ Started(x, batches, s, y)
    BY <2>2 DEF Started
  <2> HIDE DEF x, y
  <2>4. Onward(r, x, y, rows, batches) /\ y.cleared = x.cleared /\ y.gone = x.gone
    BY <1>1, <2>1, <2>3, OnStart
  <2>5. \A q \in Sessions \ {r} : Apart(session[q], y)
    BY <2>4, StillApart DEF x
  <2> QED
    BY <2>3, <2>4, <2>5 DEF GoesOn, x
<1>7. CASE DeleteConsumptions(r)
  <2> DEFINE b == NextTarget(r)
             y == [x EXCEPT !.targets = @ \ {b}, !.cleared = @ \cup ({b} \cap batches)]
  <2>1. x.pc = "consumptions" /\ x.targets # {} /\ Awaited(r) = {} /\ Advance(r, y)
    BY <1>7 DEF DeleteConsumptions
  <2>2. b \in x.targets
    BY <1>2, <2>1, TargetIsOne DEF NextTarget
  <2>3. \A q \in Peers(r) : b \notin session[q].cleared
    BY <2>1 DEF Awaited, Peers
  <2> HIDE DEF x, b
  <2>4. Cleared(x, batches, b, y)
    BY DEF Cleared
  <2> HIDE DEF y
  <2>5. Onward(r, x, y, rows, batches) /\ y.gone = x.gone /\ y.cleared \subseteq x.cleared \cup {b}
    BY <1>1, <2>1, <2>2, <2>4, OnConsumptions
  <2>6. ASSUME NEW q \in Sessions \ {r}
        PROVE  Apart(session[q], y)
    <3>1. Apart(session[q], x)
      BY DEF Basis, x
    <3>2. b \notin session[q].cleared
      BY <2>3, HeldByPeers
    <3> QED
      BY <2>5, <3>1, <3>2 DEF Apart
  <2> QED
    BY <2>1, <2>5, <2>6 DEF GoesOn, x
<1>8. CASE StartDeleteLots(r)
  <2> DEFINE y == [x EXCEPT !.pc = "lots", !.targets = {b \in batches : b.asset = x.asset}]
  <2>1. x.pc = "consumptions" /\ x.targets = {} /\ Advance(r, y)
    BY <1>8 DEF StartDeleteLots, StaleLots, BatchesOf
  <2> HIDE DEF x
  <2>2. AtLots(x, batches, y)
    BY DEF AtLots
  <2> HIDE DEF y
  <2>3. Onward(r, x, y, rows, batches) /\ y.cleared = x.cleared /\ y.gone = x.gone
    BY <1>1, <2>1, <2>2, OnStartLots
  <2>4. \A q \in Sessions \ {r} : Apart(session[q], y)
    BY <2>3, StillApart DEF x
  <2> QED
    BY <2>1, <2>3, <2>4 DEF GoesOn, x
<1>9. CASE DeleteLots(r)
  <2> DEFINE b == NextTarget(r)
             y == [x EXCEPT !.targets = @ \ {b}, !.gone = @ \cup ({b} \cap batches)]
  <2>1. x.pc = "lots" /\ x.targets # {} /\ Awaited(r) = {} /\ Advance(r, y)
    BY <1>9 DEF DeleteLots
  <2>2. b \in x.targets
    BY <1>2, <2>1, TargetIsOne DEF NextTarget
  <2>3. \A q \in Peers(r) : b \notin session[q].gone
    BY <2>1 DEF Awaited, Peers
  <2> HIDE DEF x, b
  <2>4. Deleted(x, batches, b, y)
    BY DEF Deleted
  <2> HIDE DEF y
  <2>5. Onward(r, x, y, rows, batches) /\ y.cleared = x.cleared /\ y.gone \subseteq x.gone \cup {b}
    BY <1>1, <2>1, <2>2, <2>4, OnLots
  <2>6. ASSUME NEW q \in Sessions \ {r}
        PROVE  Apart(session[q], y)
    <3>1. Apart(session[q], x)
      BY DEF Basis, x
    <3>2. b \notin session[q].gone
      BY <2>3, HeldByPeers
    <3> QED
      BY <2>5, <3>1, <3>2 DEF Apart
  <2> QED
    BY <2>1, <2>5, <2>6 DEF GoesOn, x
<1>10. CASE CheckReferences(r)
  <2>1. x.pc = "lots" /\ x.targets = {} /\ Live(r)
    BY <1>10 DEF CheckReferences, Live
  <2>2. CASE Abort(r, "error")
    BY <2>1, <2>2 DEF Fails, Answers
  <2>3. CASE Dangling(r) = {} /\ Advance(r, [x EXCEPT !.pc = "replay"])
    <3> DEFINE y == [x EXCEPT !.pc = "replay"]
    <3>1. {b \in x.gone \ x.cleared : b.asset = x.asset /\ b.consumptions # <<>>} = {}
      BY <2>3 DEF Dangling
    <3> HIDE DEF x
    <3>2. Onward(r, x, y, rows, batches) /\ y.cleared = x.cleared /\ y.gone = x.gone
      BY <1>1, <2>1, <3>1, OnReferences
    <3> HIDE DEF y
    <3>3. \A q \in Sessions \ {r} : Apart(session[q], y)
      BY <3>2, StillApart DEF x
    <3> QED
      BY <2>3, <3>2, <3>3 DEF GoesOn, x, y
  <2> QED
    BY <1>10, <2>2, <2>3 DEF CheckReferences
<1>11. CASE Replay(r)
  <2>1. x.pc = "replay" /\ Live(r)
    BY <1>11 DEF Replay, Live
  <2> DEFINE rebuilt == Rebuild(Laid(r, x.request, rows), Prices, x.asset)
             y == [x EXCEPT !.pc = IF x.todo = {} THEN "commit" ELSE "rebuild",
                            !.asset = None, !.fresh = @ \cup Fresh(r, x.asset, rebuilt)]
  <2>2. View(r) = Laid(r, x.request, rows)
    BY DEF View, Written, Laid
  <2>3. CASE Abort(r, "insufficient_lots")
    BY <2>1, <2>3 DEF Fails, Answers
  <2>4. CASE ~rebuilt.short /\ Advance(r, y)
    <3> HIDE DEF x, rebuilt
    <3>1. Rebuilds(r, x, y, x.asset, rows, batches)
      BY <1>1, <2>1, <2>4, OnReplay DEF rebuilt
    <3> HIDE DEF y
    <3> QED
      BY <2>4, <3>1 DEF RebuildsOne, x
  <2> QED
    BY <1>11, <2>2, <2>3, <2>4 DEF Replay, Fresh
<1> QED
  BY <1>3, <1>4, <1>5, <1>6, <1>7, <1>8, <1>9, <1>10, <1>11 DEF Step

LEMMA NextCases ==
    ASSUME Basis, [Next]_vars
    PROVE  \/ UNCHANGED vars
           \/ \E r \in Sessions : \/ \E request \in Requests : Begin(r, request)
                                  \/ Fails(r) \/ GoesOn(r) \/ RebuildsOne(r) \/ Commit(r)
<1>1. ASSUME NEW r \in Sessions, DeadlockVictim(r)
      PROVE  Fails(r)
  <2>1. Awaited(r) # {} /\ Abort(r, "error")
    BY <1>1 DEF DeadlockVictim
  <2>2. Live(r)
    BY <2>1 DEF Awaited, Live
  <2> QED
    BY <2>1, <2>2 DEF Fails, Answers
<1>2. ASSUME NEW r \in Sessions, Crash(r)
      PROVE  Fails(r)
  BY <1>2 DEF Crash, Fails, Answers
<1> QED
  BY <1>1, <1>2, StepCases DEF Next

-----------------------------------------------------------------------------
(* The basis of the invariant.                                             *)
IsEnded(x) ==
    /\ x.pc \in {"idle", "done"} /\ x.todo = {} /\ x.targets = {}
    /\ x.cleared = {} /\ x.gone = {} /\ x.fresh = {}

LEMMA EndedRow ==
    ASSUME NEW r \in Sessions, Basis, NEW why \in Answers
    PROVE  /\ Ended(r, why) \in SessionRow /\ IsEnded(Ended(r, why))
           /\ Ended(r, why).pc = "done" /\ Ended(r, why).met = session[r].met
           /\ Ended(r, why).answer = why
<1>1. session[r].met \in SUBSET Sessions
  BY DEF Basis, Placed, SessionRow
<1> QED
  BY <1>1 DEF Ended, Idle, IsEnded, SessionRow, Places

LEMMA EndedPlaced ==
    ASSUME NEW r, NEW stored, NEW held, NEW x \in SessionRow, IsEnded(x),
           x.pc = "idle" => r \notin DOMAIN stored
    PROVE  Placed(r, x, stored, held)
<1>1. Asked(r, x, stored)
  BY DEF Asked, Underway, IsEnded
<1>2. x.pc \notin Working /\ x.pc \notin {"consumptions", "lots"} /\ Current(x) = {}
  BY DEF IsEnded, Working, Current, Scanning
<1>3. Scans(x) /\ Within(x, stored) /\ Holds(x, held) /\ FreshFrom(r, x, stored)
  BY <1>2 DEF IsEnded, Scans, Within, Holds, FreshFrom
<1> QED
  BY <1>1, <1>3 DEF Placed

LEMMA NothingHeld ==
    ASSUME NEW x, IsEnded(x), NEW y
    PROVE  Apart(x, y) /\ Apart(y, x)
BY DEF IsEnded, Apart

(* One session changes and the tables do not.                              *)
LEMMA OneChanges ==
    ASSUME Basis, NEW r \in Sessions, NEW y, UNCHANGED <<rows, batches>>,
           session' = [session EXCEPT ![r] = y],
           Placed(r, y, rows, batches), \A q \in Sessions \ {r} : Apart(session[q], y)
    PROVE  Basis'
<1>1. session'[r] = y /\ \A q \in Sessions \ {r} : session'[q] = session[q]
  BY DEF Basis
<1>2. session' = [q \in Sessions |-> session'[q]]
  BY DEF Basis
<1>3. \A q \in Sessions : Placed(q, session'[q], rows, batches)
  BY <1>1 DEF Basis
<1>4. \A q, p \in Sessions : q # p => Apart(session'[q], session'[p])
  <2>1. \A q \in Sessions \ {r} : Apart(y, session[q])
    BY DEF Apart
  <2> QED
    BY <1>1, <2>1 DEF Basis
<1> QED
  BY <1>2, <1>3, <1>4 DEF Basis

LEMMA FailsBasis ==
    ASSUME Basis, NEW r \in Sessions, Fails(r)
    PROVE  Basis'
<1>1. PICK why \in Answers \ {"ok"} : Abort(r, why)
  BY DEF Fails
<1> DEFINE y == Ended(r, why)
<1>2. y \in SessionRow /\ IsEnded(y) /\ y.pc = "done"
  BY EndedRow
<1>3. session' = [session EXCEPT ![r] = y] /\ UNCHANGED <<rows, batches>>
  BY <1>1 DEF Abort
<1> HIDE DEF y
<1>4. Placed(r, y, rows, batches) /\ \A q \in Sessions \ {r} : Apart(session[q], y)
  BY <1>2, EndedPlaced, NothingHeld
<1> QED
  BY <1>3, <1>4, OneChanges

LEMMA GoesOnBasis ==
    ASSUME Basis, NEW r \in Sessions, GoesOn(r) \/ RebuildsOne(r)
    PROVE  Basis'
<1>1. PICK y : /\ Advance(r, y) /\ Placed(r, y, rows, batches)
               /\ \A q \in Sessions \ {r} : Apart(session[q], y)
  <2>1. CASE GoesOn(r)
    BY <2>1 DEF GoesOn, Onward
  <2>2. CASE RebuildsOne(r)
    BY <2>2, StillApart DEF RebuildsOne, Rebuilds
  <2> QED
    BY <2>1, <2>2
<1>2. session' = [session EXCEPT ![r] = y] /\ UNCHANGED <<rows, batches>>
  BY <1>1 DEF Advance
<1> QED
  BY <1>1, <1>2, OneChanges

(* What a request begins with, and what it is to those under way.          *)
BegunAs(r, request, y) ==
    y = [Idle EXCEPT !.pc = IF request.op = "create" THEN "write" ELSE "read",
                     !.request = request, !.met = Peers(r)]

LEMMA BegunRow ==
    ASSUME NEW r \in Sessions, NEW request \in Requests, NEW y, BegunAs(r, request, y)
    PROVE  /\ y \in SessionRow /\ y.pc \in {"write", "read"} /\ y.request = request
           /\ y.pc = "read" <=> request.op # "create"
           /\ y.todo = {} /\ y.targets = {} /\ y.cleared = {} /\ y.gone = {} /\ y.fresh = {}
           /\ y.met = Peers(r) /\ y.answer = None
<1>1. Peers(r) \in SUBSET Sessions
  BY DEF Peers
<1> QED
  BY <1>1 DEF BegunAs, Idle, SessionRow, Places

LEMMA BeginEffect ==
    ASSUME Basis, NEW r \in Sessions, NEW request \in Requests, Begin(r, request)
    PROVE  /\ session[r].pc = "idle" /\ UNCHANGED <<rows, batches, audit>>
           /\ session' = [q \in Sessions |-> session'[q]]
           /\ BegunAs(r, request, session'[r])
           /\ \A q \in Sessions \ {r} :
                IF Live(q) THEN session'[q] = [session[q] EXCEPT !.met = @ \cup {r}]
                ELSE session'[q] = session[q]
BY DEF Begin, Begun, BegunAs

LEMMA MetPlaced ==
    ASSUME NEW q, NEW x, NEW r \in Sessions, NEW stored, NEW held, Placed(q, x, stored, held),
           NEW y, y = [x EXCEPT !.met = @ \cup {r}]
    PROVE  /\ Placed(q, y, stored, held)
           /\ y.pc = x.pc /\ y.gone = x.gone /\ y.cleared = x.cleared /\ y.fresh = x.fresh
           /\ y.request = x.request /\ y.answer = x.answer /\ y.met = x.met \cup {r}
           /\ Rebuilt(y, stored) = Rebuilt(x, stored)
           /\ Swept(x, stored, held) => Swept(y, stored, held)
<1>1. /\ y \in SessionRow /\ y.pc = x.pc /\ y.request = x.request /\ y.todo = x.todo
      /\ y.targets = x.targets /\ y.cleared = x.cleared /\ y.gone = x.gone
      /\ y.fresh = x.fresh /\ y.asset = x.asset /\ y.answer = x.answer
      /\ y.met = x.met \cup {r}
  BY DEF Placed, SessionRow
<1>2. Current(y) = Current(x) /\ (Underway(x) <=> Underway(y))
  BY <1>1 DEF Current, Underway
<1>3. Asked(q, y, stored) /\ Scans(y)
  BY <1>1, <1>2 DEF Placed, Asked, Scans
<1>4. Within(y, stored) /\ Holds(y, held) /\ FreshFrom(q, y, stored)
  BY <1>1, <1>2 DEF Placed, Within, Holds, FreshFrom
<1>5. Rebuilt(y, stored) = Rebuilt(x, stored)
  BY <1>1, <1>2 DEF Rebuilt
<1>6. Swept(x, stored, held) => Swept(y, stored, held)
  BY <1>1, <1>5 DEF Swept
<1> QED
  BY <1>1, <1>3, <1>4, <1>5, <1>6 DEF Placed

LEMMA BeginBasis ==
    ASSUME Basis, NEW r \in Sessions, NEW request \in Requests, Begin(r, request)
    PROVE  Basis'
<1> DEFINE y == session'[r]
<1>1. /\ session[r].pc = "idle" /\ UNCHANGED <<rows, batches>> /\ BegunAs(r, request, y)
      /\ session' = [q \in Sessions |-> session'[q]]
      /\ \A q \in Sessions \ {r} : \/ session'[q] = [session[q] EXCEPT !.met = @ \cup {r}]
                                   \/ session'[q] = session[q]
  BY BeginEffect
<1> HIDE DEF y
<1>2. /\ y \in SessionRow /\ y.pc \in {"write", "read"} /\ y.request = request
      /\ y.pc = "read" <=> request.op # "create"
      /\ y.todo = {} /\ y.targets = {} /\ y.cleared = {} /\ y.gone = {} /\ y.fresh = {}
      /\ y.answer = None
  BY <1>1, BegunRow
<1>3. Placed(r, y, rows, batches)
  <2>1. Asked(r, y, rows)
    BY <1>1, <1>2 DEF Basis, Placed, Asked
  <2>2. y.pc \notin Working /\ Current(y) = {}
    BY <1>2 DEF Working, Current, Scanning
  <2>3. Scans(y) /\ Within(y, rows) /\ Holds(y, batches) /\ FreshFrom(r, y, rows)
    BY <1>2, <2>2 DEF Scans, Within, Holds, FreshFrom, Working
  <2> QED
    BY <1>2, <2>1, <2>3 DEF Placed
<1>4. ASSUME NEW q \in Sessions \ {r}
      PROVE  /\ Placed(q, session'[q], rows, batches)
             /\ session'[q].gone = session[q].gone /\ session'[q].cleared = session[q].cleared
  <2>1. Placed(q, session[q], rows, batches)
    BY DEF Basis
  <2>2. CASE session'[q] = [session[q] EXCEPT !.met = @ \cup {r}]
    BY <2>1, <2>2, MetPlaced
  <2> QED
    BY <1>1, <2>1, <2>2
<1>5. \A q \in Sessions : Placed(q, session'[q], rows, batches)
  BY <1>3, <1>4 DEF y
<1>6. \A q, p \in Sessions : q # p => Apart(session'[q], session'[p])
  <2> SUFFICES ASSUME NEW q \in Sessions, NEW p \in Sessions, q # p
               PROVE  Apart(session'[q], session'[p])
    OBVIOUS
  <2>1. CASE q # r /\ p # r
    BY <1>4, <2>1 DEF Basis, Apart
  <2>2. CASE q = r \/ p = r
    BY <1>2, <2>2 DEF Apart, y
  <2> QED
    BY <2>1, <2>2
<1> QED
  BY <1>1, <1>5, <1>6 DEF Basis

(* A commit: the rows, the batches, the sessions.                          *)
LEMMA CommitEffect ==
    ASSUME Basis, NEW r \in Sessions, Commit(r)
    PROVE  /\ session[r].pc = "commit" /\ Underway(session[r])
           /\ session[r].todo = {} /\ session[r].targets = {}
           /\ Fits(r, session[r].request, rows)
           /\ rows' = Laid(r, session[r].request, rows) /\ AllSound(rows')
           /\ Over(rows', rows, r, session[r].request)
           /\ batches' = (batches \ session[r].gone) \cup session[r].fresh
           /\ session' = [session EXCEPT ![r] = Ended(r, "ok")]
           /\ session'[r] = Ended(r, "ok") /\ \A q \in Sessions \ {r} : session'[q] = session[q]
<1>1. /\ session[r].pc = "commit" /\ rows' = Written(r, rows)
      /\ batches' = (batches \ session[r].gone) \cup session[r].fresh
      /\ session' = [session EXCEPT ![r] = Ended(r, "ok")]
  BY DEF Commit
<1>2. Written(r, rows) = Laid(r, session[r].request, rows)
  BY DEF Written, Laid
<1>3. Underway(session[r]) /\ session[r].todo = {} /\ session[r].targets = {}
  BY <1>1 DEF Basis, Placed, Scans, Underway
<1>4. Fits(r, session[r].request, rows)
  BY <1>1, <1>3, PlacedFits DEF Basis, Placed
<1>5. session'[r] = Ended(r, "ok") /\ \A q \in Sessions \ {r} : session'[q] = session[q]
  BY <1>1 DEF Basis
<1> QED
  BY <1>1, <1>2, <1>3, <1>4, <1>5, LaidOver

LEMMA LegsKept ==
    ASSUME NEW q, NEW x, NEW stored, NEW held, Placed(q, x, stored, held), Underway(x),
           x.pc # "read", NEW new, NEW r, NEW request, Over(new, stored, r, request)
    PROVE  /\ LegsOf(x.request, new) = LegsOf(x.request, stored)
           /\ Rebuilt(x, new) = Rebuilt(x, stored)
<1>1. LegsOf(x.request, new) = LegsOf(x.request, stored)
  BY DEF Placed, Asked, Over, LegsOf
<1> QED
  BY <1>1 DEF Rebuilt

LEMMA LaidDomain ==
    ASSUME NEW r, NEW request \in Requests, NEW stored
    PROVE  DOMAIN Laid(r, request, stored) =
             DOMAIN stored \cup (IF request.op = "delete" THEN {} ELSE {r})
<1>1. CASE request.op = "create"
  BY <1>1 DEF Laid, Inserted
<1>2. CASE request.op = "reverse"
  <2> DEFINE marked == [stored EXCEPT ![request.target].status = "reversed"]
  <2>1. DOMAIN marked = DOMAIN stored
    OBVIOUS
  <2>2. Laid(r, request, stored) = Inserted(marked, r, Reversal(stored[request.target], request.target))
    BY <1>2 DEF Laid
  <2> HIDE DEF marked
  <2> QED
    BY <1>2, <2>1, <2>2 DEF Inserted
<1>3. CASE request.op = "delete"
  BY <1>3 DEF Laid
<1> QED
  BY <1>1, <1>2, <1>3, RequestCases

(* What a request holds and has written stands when another one commits.   *)
LEMMA PlacedLater ==
    ASSUME NEW r, NEW q, q # r, NEW stored, NEW held, NEW x, Placed(q, x, stored, held),
           NEW request, NEW new, Over(new, stored, r, request),
           NEW later, Holds(x, later)
    PROVE  Placed(q, x, new, later)
<1>1. Asked(q, x, new)
  BY DEF Placed, Asked, Over
<1>2. ASSUME x.pc \in Working
      PROVE  LegsOf(x.request, new) = LegsOf(x.request, stored)
  BY <1>2, LegsKept DEF Working, Underway
<1>3. Within(x, new)
  BY <1>2 DEF Placed, Within
<1>4. FreshFrom(q, x, new)
  <2>1. CASE x.pc \notin Working
    BY <2>1 DEF Placed, Scans, FreshFrom
  <2>2. CASE x.pc \in Working
    <3>1. x.request \in Requests
      BY <2>2 DEF Placed, Asked, Underway, Working
    <3> DEFINE own == IF x.request.op = "delete" THEN {} ELSE {q}
               before == Laid(q, x.request, stored)
               after == Laid(q, x.request, new)
    <3>2. DOMAIN before = DOMAIN stored \cup own /\ DOMAIN after = DOMAIN new \cup own
      BY <3>1, LaidDomain, Zenon
    <3>3. DOMAIN stored \subseteq DOMAIN new
      BY DEF Over
    <3>4. FreshFrom(q, x, stored)
      BY DEF Placed
    <3> HIDE DEF own
    <3>5. DOMAIN before \subseteq DOMAIN after
      BY <3>2, <3>3
    <3> QED
      BY <3>4, <3>5 DEF FreshFrom, From
  <2> QED
    BY <2>1, <2>2
<1> QED
  BY <1>1, <1>3, <1>4 DEF Placed

LEMMA HoldsLater ==
    ASSUME Basis, NEW r \in Sessions, Commit(r), NEW q \in Sessions \ {r}
    PROVE  Holds(session[q], batches')
<1>1. Holds(session[q], batches) /\ Apart(session[q], session[r])
  BY DEF Basis, Placed
<1>2. \A b \in session[q].cleared : b.consumptions # <<>>
  BY DEF Basis, Placed, Scans
<1>3. \A b \in session[r].gone : b.consumptions = <<>> \/ b \in session[r].cleared
  BY CommitEffect DEF Basis, Placed, Scans
<1>4. batches \ session[r].gone \subseteq batches'
  BY CommitEffect
<1> QED
  BY <1>1, <1>2, <1>3, <1>4 DEF Holds, Apart

LEMMA CommitBasis ==
    ASSUME Basis, NEW r \in Sessions, Commit(r)
    PROVE  Basis'
<1> DEFINE x == session[r]
           y == session'[r]
           later == batches'
<1>1. /\ Over(rows', rows, r, x.request) /\ AllSound(rows')
      /\ later = (batches \ x.gone) \cup x.fresh /\ rows' = Laid(r, x.request, rows)
      /\ y = Ended(r, "ok") /\ \A q \in Sessions \ {r} : session'[q] = session[q]
      /\ session' = [session EXCEPT ![r] = Ended(r, "ok")]
  BY CommitEffect
<1>2. session' = [q \in Sessions |-> session'[q]]
  BY <1>1 DEF Basis
<1>3. later \subseteq BatchRow /\ \A b \in later : b.lots # <<>> /\ From(b, rows')
  <2>1. \A b \in batches : b \in BatchRow /\ b.lots # <<>> /\ From(b, rows)
    BY DEF Basis
  <2>2. \A b \in x.fresh : b \in BatchRow /\ b.lots # <<>> /\ From(b, rows')
    BY <1>1 DEF Basis, Placed, SessionRow, Scans, FreshFrom
  <2>3. \A b \in batches : From(b, rows')
    BY <1>1, <2>1 DEF From, Over
  <2> QED
    BY <1>1, <2>1, <2>2, <2>3
<1>4. y \in SessionRow /\ IsEnded(y) /\ y.pc = "done"
  <2>1. "ok" \in Answers
    BY DEF Answers
  <2> QED
    BY <1>1, <2>1, EndedRow
<1>5. ASSUME NEW q \in Sessions \ {r}
      PROVE  Placed(q, session'[q], rows', later)
  <2>1. Placed(q, session[q], rows, batches) /\ Holds(session[q], later)
    BY HoldsLater DEF Basis
  <2>2. session'[q] = session[q] /\ q # r
    BY <1>1
  <2> HIDE DEF later
  <2>3. Placed(q, session[q], rows', later)
    BY <1>1, <2>1, <2>2, PlacedLater
  <2> QED
    BY <2>2, <2>3
<1> HIDE DEF y
<1>6. Placed(r, y, rows', later)
  BY <1>4, EndedPlaced
<1>7. \A q \in Sessions : Placed(q, session'[q], rows', later)
  BY <1>5, <1>6 DEF y
<1>8. \A q, p \in Sessions : q # p => Apart(session'[q], session'[p])
  <2> SUFFICES ASSUME NEW q \in Sessions, NEW p \in Sessions, q # p
               PROVE  Apart(session'[q], session'[p])
    OBVIOUS
  <2>1. CASE q # r /\ p # r
    BY <1>1, <2>1 DEF Basis
  <2>2. CASE q = r \/ p = r
    BY <1>4, <2>2, NothingHeld DEF y
  <2> QED
    BY <2>1, <2>2
<1> QED
  BY <1>1, <1>2, <1>3, <1>7, <1>8 DEF Basis

LEMMA OpeningSound ==
    /\ AllSound(Opening) /\ DOMAIN Opening = 1..Len(Opening)
    /\ [i \in DOMAIN Opening |-> Opening[i]] = Opening
<1>1. Opening \in Seq(Transaction)
  BY LedgerDBAssumption
<1>2. Len(Opening) \in Nat /\ DOMAIN Opening = 1..Len(Opening)
  BY <1>1
<1>3. [i \in DOMAIN Opening |-> Opening[i]] = Opening
  BY <1>1
<1>4. \A i \in DOMAIN Opening : Opening[i] \in Transaction
  BY <1>1
<1>5. IsFiniteSet(1..Len(Opening))
  BY <1>2, FS_Interval
<1>6. IsRows(Opening)
  BY <1>2, <1>4, <1>5 DEF IsRows
<1>7. \A i \in DOMAIN Opening :
        /\ Opening[i].type \in SingleLegTypes \cup MultiLegTypes /\ Opening[i].legs \in Seq(Leg)
        /\ Counts(Opening[i]) => Accepted(Opening[i].type, Opening[i].legs)
  BY <1>4, LedgerDBAssumption DEF Transaction
<1>8. \A i \in DOMAIN Opening : Counts(Opening[i]) => Shaped(Opening[i].type, Opening[i].legs)
  BY <1>7, AcceptedShape
<1>9. AllSound(Opening)
  BY <1>6, <1>8 DEF AllSound, FeeFree
<1> QED
  BY <1>2, <1>3, <1>9

LEMMA InitEffect ==
    ASSUME Init
    PROVE  /\ rows = Opening /\ AllSound(rows) /\ session = [r \in Sessions |-> Idle]
           /\ \A s \in Assets : /\ Exact(Rebuild(rows, Prices, s), rows, s)
                                /\ ~Rebuild(rows, Prices, s).short
           /\ batches = UNION {Fresh(0, s, Rebuild(rows, Prices, s)) : s \in Assets}
<1>1. rows = Opening /\ AllSound(rows) /\ session = [r \in Sessions |-> Idle]
  BY OpeningSound DEF Init
<1>2. \A s \in Assets : Exact(Rebuild(rows, Prices, s), rows, s) /\ ~Rebuild(rows, Prices, s).short
  BY <1>1, RebuildExact, LedgerDBAssumption
<1>3. batches = {b \in {Batch(0, s, Rebuild(rows, Prices, s)) : s \in Assets} : b.lots # <<>>}
  BY <1>1 DEF Init
<1>4. batches = UNION {Fresh(0, s, Rebuild(rows, Prices, s)) : s \in Assets}
  BY <1>3 DEF Fresh
<1> QED
  BY <1>1, <1>2, <1>4

LEMMA IdlePlaced ==
    ASSUME NEW r \in Sessions, NEW stored, NEW held, r \notin DOMAIN stored
    PROVE  Placed(r, Idle, stored, held) /\ IsEnded(Idle)
<1>1. Idle \in SessionRow /\ IsEnded(Idle)
  BY DEF Idle, SessionRow, IsEnded, Places
<1> QED
  BY <1>1, EndedPlaced

LEMMA BasisInit == Init => Basis
<1> SUFFICES ASSUME Init PROVE Basis
  OBVIOUS
<1>1. /\ rows = Opening /\ AllSound(rows) /\ session = [r \in Sessions |-> Idle]
      /\ \A s \in Assets : /\ Exact(Rebuild(rows, Prices, s), rows, s)
                           /\ ~Rebuild(rows, Prices, s).short
      /\ batches = UNION {Fresh(0, s, Rebuild(rows, Prices, s)) : s \in Assets}
  BY InitEffect
<1>2. ASSUME NEW s \in Assets, NEW b \in Fresh(0, s, Rebuild(rows, Prices, s))
      PROVE  b \in BatchRow /\ b.lots # <<>> /\ From(b, rows)
  <2> DEFINE rebuilt == Rebuild(rows, Prices, s)
  <2>1. Exact(rebuilt, rows, s) /\ ~rebuilt.short /\ 0 \in Nat
    BY <1>1
  <2>2. b \in Fresh(0, s, rebuilt)
    BY <1>2
  <2> HIDE DEF rebuilt
  <2> QED
    BY <2>1, <2>2, FreshBatch
<1>3. \A r \in Sessions : r \notin DOMAIN rows
  <2>1. DOMAIN rows = 1..Len(Opening) /\ Len(Opening) \in Nat
    BY <1>1, OpeningSound, LedgerDBAssumption
  <2>2. \A r \in Sessions : r \in Nat /\ r > Len(Opening)
    BY LedgerDBAssumption
  <2> QED
    BY <2>1, <2>2
<1>4. \A r \in Sessions : Placed(r, session[r], rows, batches) /\ IsEnded(session[r])
  BY <1>1, <1>3, IdlePlaced
<1>5. \A q, r \in Sessions : Apart(session[q], session[r])
  BY <1>4, NothingHeld
<1>6. session = [r \in Sessions |-> session[r]]
  BY <1>1
<1>7. batches \subseteq BatchRow /\ \A b \in batches : b.lots # <<>> /\ From(b, rows)
  BY <1>1, <1>2
<1> QED
  BY <1>1, <1>4, <1>5, <1>6, <1>7 DEF Basis

LEMMA BasisStep == Basis /\ [Next]_vars => Basis'
<1> SUFFICES ASSUME Basis, [Next]_vars PROVE Basis'
  OBVIOUS
<1>1. CASE UNCHANGED vars
  BY <1>1 DEF Basis, vars
<1> QED
  BY <1>1, NextCases, BeginBasis, FailsBasis, GoesOnBasis, CommitBasis

LEMMA BasisHolds == Spec => []Basis
BY BasisInit, BasisStep, PTL DEF Spec

(* The tables hold rows and batches, and no request holds what is no       *)
(* longer there: whoever waits for a lock finds the row deleted or takes   *)
(* it (TypeOK of LedgerDB, for any number of requests).                    *)
THEOREM LedgerDBTypeOK == Spec => []TypeOK
<1>1. Basis => TypeOK
  BY DEF Basis, AllSound, IsRows, TypeOK, BatchRow, Placed, Holds
<1> QED
  BY <1>1, BasisHolds, PTL

-----------------------------------------------------------------------------
(* No lot is lost.                                                         *)
LEMMA FreshArrives ==
    ASSUME NEW r, NEW s, NEW stored, AllSound(stored), FeeFree, NEW rebuilt,
           Exact(rebuilt, stored, s), ~rebuilt.short,
           NEW i \in Relevant(stored, s), NEW l \in LegsIn(stored[i], s),
           stored[i].legs[l].quantity > 0
    PROVE  HasLotIn(Fresh(r, s, rebuilt), s, <<i, l>>)
<1>1. Whole(stored[i].type, stored[i].legs)
  BY DEF AllSound, Relevant
<1>2. HasLot(rebuilt.lots, <<i, l>>)
  BY <1>1 DEF Exact, Sound, Arrived
<1>3. rebuilt.lots # <<>>
  BY <1>2 DEF HasLot
<1> DEFINE b == Batch(r, s, rebuilt)
<1>4. b.asset = s /\ b.lots = rebuilt.lots
  BY DEF Batch
<1> HIDE DEF b
<1>5. b \in Fresh(r, s, rebuilt)
  BY <1>3, <1>4 DEF Fresh, b
<1> QED
  BY <1>2, <1>4, <1>5 DEF HasLotIn

LEMMA KeptInit == Basis /\ Init => Kept
<1> SUFFICES ASSUME Init, FeeFree PROVE Kept
  BY DEF Kept
<1>1. /\ AllSound(rows) /\ session = [r \in Sessions |-> Idle]
      /\ \A s \in Assets : /\ Exact(Rebuild(rows, Prices, s), rows, s)
                           /\ ~Rebuild(rows, Prices, s).short
      /\ batches = UNION {Fresh(0, s, Rebuild(rows, Prices, s)) : s \in Assets}
  BY InitEffect
<1>2. ASSUME NEW s \in Assets, NEW i \in Relevant(rows, s), NEW l \in LegsIn(rows[i], s),
             rows[i].legs[l].quantity > 0
      PROVE  HasLotIn(batches, s, <<i, l>>)
  <2> DEFINE rebuilt == Rebuild(rows, Prices, s)
             fresh == Fresh(0, s, rebuilt)
  <2>1. Exact(rebuilt, rows, s) /\ ~rebuilt.short
    BY <1>1
  <2>2. fresh \subseteq batches
    BY <1>1
  <2> HIDE DEF rebuilt
  <2>3. HasLotIn(fresh, s, <<i, l>>)
    BY <1>1, <1>2, <2>1, FreshArrives
  <2> HIDE DEF fresh
  <2> QED
    BY <2>2, <2>3 DEF HasLotIn
<1>3. \A r \in Sessions : Rebuilt(session[r], rows) = {}
  BY <1>1 DEF Rebuilt, Idle, Working
<1> QED
  BY <1>2, <1>3 DEF Kept, AllKept, Carried

LEMMA RebuiltOfEnded ==
    ASSUME NEW x, IsEnded(x) \/ x.pc \in {"read", "write", "check"}, NEW stored
    PROVE  Rebuilt(x, stored) = {}
BY DEF IsEnded, Rebuilt, Working

LEMMA CarriedOnward ==
    ASSUME NEW r, NEW x, NEW y, NEW stored, NEW held, Onward(r, x, y, stored, held),
           Carried(r, x, stored)
    PROVE  Carried(r, y, stored)
<1>1. /\ y.request = x.request /\ y.fresh = x.fresh /\ Rebuilt(y, stored) = Rebuilt(x, stored)
      /\ \A b \in y.gone \ x.gone : b.asset \in Current(x)
  BY DEF Onward
<1>2. \A s \in Rebuilt(x, stored) : s \notin Current(x)
  BY DEF Rebuilt
<1>3. ASSUME NEW s \in Rebuilt(x, stored), NEW leg, HasLotIn(y.gone, s, leg)
      PROVE  HasLotIn(x.gone, s, leg)
  BY <1>1, <1>2, <1>3 DEF HasLotIn
<1> QED
  BY <1>1, <1>3 DEF Carried

LEMMA CarriedRebuilds ==
    ASSUME FeeFree, NEW r \in Sessions, NEW x, NEW y, NEW s, NEW stored, AllSound(stored), NEW held,
           Placed(r, x, stored, held), Rebuilds(r, x, y, s, stored, held), Carried(r, x, stored)
    PROVE  Carried(r, y, stored)
<1> DEFINE laid == Laid(r, x.request, stored)
           rebuilt == Rebuild(laid, Prices, s)
           new == Fresh(r, s, rebuilt)
<1>1. /\ y.request = x.request /\ y.fresh = x.fresh \cup new /\ y.gone = x.gone
      /\ Rebuilt(y, stored) = Rebuilt(x, stored) \cup {s} /\ s \in Assets /\ ~rebuilt.short
  BY DEF Rebuilds
<1>2. AllSound(laid)
  <2>1. Fits(r, x.request, stored)
    BY PlacedFits DEF Rebuilds, Placed
  <2> QED
    BY <2>1, LaidOver
<1> HIDE DEF laid
<1>3. Exact(rebuilt, laid, s)
  BY <1>1, <1>2, RebuildExact
<1> HIDE DEF rebuilt
<1>4. \A i \in Relevant(laid, s) : \A l \in LegsIn(laid[i], s) :
        laid[i].legs[l].quantity > 0 => HasLotIn(new, s, <<i, l>>)
  BY <1>1, <1>2, <1>3, FreshArrives
<1>5. \A leg, t : /\ HasLotIn(new, t, leg) => HasLotIn(y.fresh, t, leg)
                  /\ HasLotIn(x.fresh, t, leg) => HasLotIn(y.fresh, t, leg)
  BY <1>1 DEF HasLotIn
<1> HIDE DEF new
<1> QED
  BY <1>1, <1>4, <1>5 DEF Carried, laid

(* What is met in the later rows was there in the earlier ones.            *)
LEMMA LaterRelevant ==
    ASSUME NEW stored, NEW r, NEW request, Fits(r, request, stored),
           NEW later, AllSound(later), Over(later, stored, r, request),
           NEW q, q # r, NEW other, Fits(q, other, stored), Fits(q, other, later),
           NEW s, NEW i \in Relevant(Laid(q, other, later), s), i = q \/ i \in DOMAIN stored
    PROVE  /\ i \in Relevant(Laid(q, other, stored), s)
           /\ Laid(q, other, stored)[i] = Laid(q, other, later)[i]
<1> DEFINE old == Laid(q, other, stored)
           new == Laid(q, other, later)
<1>1. Over(old, stored, q, other) /\ Over(new, later, q, other)
  BY LaidOver
<1> HIDE DEF old, new
<1>2. i \in DOMAIN new /\ Counts(new[i]) /\ LegsIn(new[i], s) # {}
  BY DEF Relevant, new
<1>3. CASE i = q
  <2>1. other.op = "create"
    BY <1>1, <1>2, <1>3 DEF Over
  <2>2. q \in DOMAIN old /\ old[q] = new[q]
    BY <1>1, <2>1 DEF Over
  <2> QED
    BY <1>2, <1>3, <2>2 DEF Relevant, old, new
<1>4. CASE i # q
  <2>1. i \in DOMAIN stored /\ i # r
    BY <1>4 DEF Fits
  <2>2. i \in DOMAIN later /\ new[i] = later[i]
    BY <1>1, <1>2, <2>1 DEF Over
  <2>3. later[i] = stored[i]
    BY <1>2, <2>1, <2>2 DEF Over
  <2>4. other.op = "create" \/ i # other.target
    BY <1>1, <1>2 DEF Over
  <2>5. i \in DOMAIN old /\ old[i] = stored[i]
    BY <1>1, <2>1, <2>4 DEF Over
  <2> QED
    BY <1>2, <2>2, <2>3, <2>5 DEF Relevant, old, new
<1> QED
  BY <1>3, <1>4

LEMMA CarriedLater ==
    ASSUME NEW stored, NEW r, NEW request, Fits(r, request, stored),
           NEW later, AllSound(later), Over(later, stored, r, request),
           NEW q \in Sessions, q # r, NEW held, \A b \in held : From(b, stored),
           NEW x, Placed(q, x, stored, held), Asked(q, x, later), Carried(q, x, stored)
    PROVE  Carried(q, x, later)
<1>1. CASE x.pc \notin Working
  BY <1>1 DEF Carried, Rebuilt
<1>2. CASE x.pc \in Working
  <2> DEFINE old == Laid(q, x.request, stored)
             new == Laid(q, x.request, later)
  <2>1. Underway(x) /\ x.pc # "read" /\ x.pc # "done"
    BY <1>2 DEF Underway, Working
  <2>2. Fits(q, x.request, stored) /\ Fits(q, x.request, later)
    BY <2>1, PlacedFits DEF Placed, Fits
  <2>3. Rebuilt(x, later) = Rebuilt(x, stored)
    BY <2>1, LegsKept
  <2> SUFFICES ASSUME NEW s \in Rebuilt(x, stored), NEW i \in Relevant(new, s),
                      NEW l \in LegsIn(new[i], s), new[i].legs[l].quantity > 0,
                      i = q \/ HasLotIn(x.gone, s, <<i, l>>)
               PROVE  HasLotIn(x.fresh, s, <<i, l>>)
    BY <2>3 DEF Carried
  <2>4. HasLotIn(x.gone, s, <<i, l>>) => i \in DOMAIN stored
    <3> SUFFICES ASSUME NEW b \in x.gone, HasLot(b.lots, <<i, l>>) PROVE i \in DOMAIN stored
      BY DEF HasLotIn
    <3>1. From(b, stored)
      BY DEF Placed, Holds
    <3> QED
      BY <3>1 DEF From, HasLot
  <2>5. i \in Relevant(old, s) /\ old[i] = new[i]
    BY <2>2, <2>4, LaterRelevant
  <2> QED
    BY <2>5 DEF Carried
<1> QED
  BY <1>1, <1>2

LEMMA KeptCommit ==
    ASSUME Basis, Kept, FeeFree, NEW r \in Sessions, Commit(r)
    PROVE  /\ AllKept(rows', batches')
           /\ \A q \in Sessions \ {r} : Carried(q, session[q], rows')
<1> DEFINE x == session[r]
           legs == LegsOf(x.request, rows)
<1>1. /\ Fits(r, x.request, rows) /\ Over(rows', rows, r, x.request) /\ AllSound(rows')
      /\ rows' = Laid(r, x.request, rows) /\ batches' = (batches \ x.gone) \cup x.fresh
      /\ x.pc = "commit" /\ x.todo = {}
  BY CommitEffect
<1>2. Placed(r, x, rows, batches) /\ Carried(r, x, rows) /\ AllKept(rows, batches)
  BY DEF Basis, Kept
<1>3. Rebuilt(x, rows) = AssetsOf(legs)
  BY <1>1 DEF Rebuilt, Working, Current, Scanning
<1> HIDE DEF x
<1>4. ASSUME NEW s \in Assets, NEW i \in Relevant(rows', s), NEW l \in LegsIn(rows'[i], s),
             rows'[i].legs[l].quantity > 0
      PROVE  HasLotIn(batches', s, <<i, l>>)
  <2>1. HasLotIn(x.fresh, s, <<i, l>>) => HasLotIn(batches', s, <<i, l>>)
    BY <1>1 DEF HasLotIn
  <2>2. ASSUME s \in AssetsOf(legs), i = r \/ HasLotIn(x.gone, s, <<i, l>>)
        PROVE  HasLotIn(x.fresh, s, <<i, l>>)
    BY <1>1, <1>2, <1>3, <1>4, <2>2 DEF Carried
  <2>3. CASE i = r
    <3>1. rows'[i].legs = legs
      BY <1>1, <2>3, OverRows
    <3>2. s \in AssetsOf(legs)
      BY <3>1 DEF AssetsOf, LegsIn
    <3> QED
      BY <2>1, <2>2, <2>3, <3>2
  <2>4. CASE i # r
    <3>1. i \in Relevant(rows, s) /\ rows'[i] = rows[i]
      BY <1>1, <2>4, OverRows
    <3>2. PICK b \in batches : b.asset = s /\ HasLot(b.lots, <<i, l>>)
      BY <1>2, <1>4, <3>1 DEF AllKept, HasLotIn
    <3>3. CASE b \notin x.gone
      BY <1>1, <3>2, <3>3 DEF HasLotIn
    <3>4. CASE b \in x.gone
      <4>1. s \in AssetsOf(legs)
        BY <1>1, <1>2, <3>2, <3>4 DEF Placed, Within, Working
      <4>2. HasLotIn(x.gone, s, <<i, l>>)
        BY <3>2, <3>4 DEF HasLotIn
      <4> QED
        BY <2>1, <2>2, <4>1, <4>2
    <3> QED
      BY <3>3, <3>4
  <2> QED
    BY <2>3, <2>4
<1>5. ASSUME NEW q \in Sessions \ {r}
      PROVE  Carried(q, session[q], rows')
  <2> DEFINE z == session[q]
  <2>1. Placed(q, z, rows, batches) /\ Carried(q, z, rows) /\ \A b \in batches : From(b, rows)
    BY DEF Basis, Kept
  <2>2. Placed(q, z, rows', batches')
    <3>1. Holds(z, batches')
      BY HoldsLater
    <3> DEFINE later == batches'
    <3> HIDE DEF z, later
    <3>2. Placed(q, z, rows', later)
      BY <1>1, <2>1, <3>1, PlacedLater DEF later
    <3> QED
      BY <3>2 DEF later
  <2>3. Asked(q, z, rows')
    BY <2>2 DEF Placed
  <2> HIDE DEF z
  <2>4. Carried(q, z, rows')
    BY <1>1, <2>1, <2>3, CarriedLater
  <2> QED
    BY <2>4 DEF z
<1> QED
  BY <1>4, <1>5 DEF AllKept

LEMMA KeptStep == Basis /\ Kept /\ [Next]_vars => Kept'
<1> SUFFICES ASSUME Basis, Kept, [Next]_vars, FeeFree PROVE Kept'
  BY DEF Kept
<1>1. AllKept(rows, batches) /\ \A r \in Sessions : Carried(r, session[r], rows)
  BY DEF Kept
<1>2. ASSUME NEW r \in Sessions, NEW y, UNCHANGED <<rows, batches>>,
             session' = [session EXCEPT ![r] = y], Carried(r, y, rows)
      PROVE  Kept'
  <2>1. session'[r] = y /\ \A q \in Sessions \ {r} : session'[q] = session[q]
    BY <1>2 DEF Basis
  <2>2. \A q \in Sessions : Carried(q, session'[q], rows)
    BY <1>1, <1>2, <2>1
  <2> QED
    BY <1>1, <1>2, <2>2 DEF Kept
<1>3. ASSUME NEW r \in Sessions, NEW why \in Answers
      PROVE  /\ Carried(r, Ended(r, why), rows)
             /\ \A stored : Carried(r, Ended(r, why), stored)
  BY EndedRow, RebuiltOfEnded DEF Carried
<1>4. CASE UNCHANGED vars
  BY <1>1, <1>4 DEF Kept, vars
<1>5. ASSUME NEW r \in Sessions, NEW request \in Requests, Begin(r, request)
      PROVE  Kept'
  <2>1. /\ UNCHANGED <<rows, batches>> /\ BegunAs(r, request, session'[r])
        /\ \A q \in Sessions \ {r} : \/ session'[q] = [session[q] EXCEPT !.met = @ \cup {r}]
                                     \/ session'[q] = session[q]
    BY <1>5, BeginEffect
  <2>2. Rebuilt(session'[r], rows) = {}
    <3>1. session'[r].pc \in {"read", "write"}
      BY <2>1, BegunRow
    <3> QED
      BY <3>1 DEF Rebuilt, Working
  <2>3. ASSUME NEW q \in Sessions \ {r}
        PROVE  Carried(q, session'[q], rows)
    <3>1. Placed(q, session[q], rows, batches) /\ Carried(q, session[q], rows)
      BY <1>1 DEF Basis
    <3>2. CASE session'[q] = [session[q] EXCEPT !.met = @ \cup {r}]
      <4>1. /\ session'[q].gone = session[q].gone /\ session'[q].fresh = session[q].fresh
            /\ session'[q].request = session[q].request
            /\ Rebuilt(session'[q], rows) = Rebuilt(session[q], rows)
        BY <3>1, <3>2, MetPlaced
      <4> QED
        BY <3>1, <4>1 DEF Carried
    <3> QED
      BY <2>1, <3>1, <3>2
  <2>4. \A q \in Sessions : Carried(q, session'[q], rows)
    BY <2>2, <2>3 DEF Carried
  <2> QED
    BY <1>1, <2>1, <2>4 DEF Kept
<1>6. ASSUME NEW r \in Sessions, Fails(r)
      PROVE  Kept'
  BY <1>2, <1>3, <1>6 DEF Fails, Abort
<1>7. ASSUME NEW r \in Sessions, GoesOn(r)
      PROVE  Kept'
  <2>1. PICK y : Advance(r, y) /\ Onward(r, session[r], y, rows, batches)
    BY <1>7 DEF GoesOn
  <2>2. Carried(r, y, rows)
    BY <1>1, <2>1, CarriedOnward
  <2> QED
    BY <1>2, <2>1, <2>2 DEF Advance
<1>8. ASSUME NEW r \in Sessions, RebuildsOne(r)
      PROVE  Kept'
  <2>1. PICK y, s : Advance(r, y) /\ Rebuilds(r, session[r], y, s, rows, batches)
    BY <1>8 DEF RebuildsOne
  <2>2. Placed(r, session[r], rows, batches) /\ AllSound(rows)
    BY DEF Basis
  <2>3. Carried(r, y, rows)
    BY <1>1, <2>1, <2>2, CarriedRebuilds
  <2> QED
    BY <1>2, <2>1, <2>3 DEF Advance
<1>9. ASSUME NEW r \in Sessions, Commit(r)
      PROVE  Kept'
  <2>1. /\ AllKept(rows', batches')
        /\ \A q \in Sessions \ {r} : Carried(q, session[q], rows')
    BY <1>9, KeptCommit
  <2>2. session'[r] = Ended(r, "ok") /\ \A q \in Sessions \ {r} : session'[q] = session[q]
    BY <1>9, CommitEffect
  <2>3. Carried(r, Ended(r, "ok"), rows')
    BY <1>3 DEF Answers
  <2>4. \A q \in Sessions : Carried(q, session'[q], rows')
    BY <2>1, <2>2, <2>3
  <2> QED
    BY <2>1, <2>4 DEF Kept
<1> QED
  BY <1>4, <1>5, <1>6, <1>7, <1>8, <1>9, NextCases

(* No inflow loses its lot (NoLotLost of LedgerDB), however many requests  *)
(* delete and insert lots at once, where all that is sent arrives: what a  *)
(* request deletes it has written again from its own rows, and the batches *)
(* it does not meet stay.                                                  *)
THEOREM LedgerDBNoLotLost ==
    ASSUME FeeFree
    PROVE  Spec => []NoLotLost
<1>1. Basis /\ Kept => NoLotLost
  <2> SUFFICES ASSUME Basis, Kept, NEW i \in Active(rows), NEW l \in DOMAIN rows[i].legs,
                      rows[i].legs[l].quantity > 0
               PROVE  \E b \in BatchesOf(rows[i].legs[l].asset) :
                          \E lot \in ToSet(b.lots) : lot.source_leg = <<i, l>>
    BY DEF NoLotLost
  <2> DEFINE s == rows[i].legs[l].asset
  <2>1. i \in DOMAIN rows /\ Counts(rows[i]) /\ rows[i].legs \in Seq(Leg)
    BY DEF Active, Basis, AllSound, IsRows, Transaction
  <2>2. rows[i].legs[l] \in Leg
    BY <2>1
  <2>3. s \in Assets
    BY <2>2 DEF Leg
  <2>4. l \in LegsIn(rows[i], s)
    BY DEF LegsIn
  <2>5. i \in Relevant(rows, s)
    BY <2>1, <2>4 DEF Relevant
  <2> HIDE DEF s
  <2>6. HasLotIn(batches, s, <<i, l>>)
    BY <2>3, <2>4, <2>5 DEF Kept, AllKept
  <2>7. PICK b \in batches : b.asset = s /\ HasLot(b.lots, <<i, l>>)
    BY <2>6 DEF HasLotIn
  <2>8. PICK k \in DOMAIN b.lots : b.lots[k].source_leg = <<i, l>>
    BY <2>7 DEF HasLot
  <2>9. b.lots[k] \in ToSet(b.lots)
    BY DEF ToSet
  <2> QED
    BY <2>7, <2>8, <2>9 DEF BatchesOf, s
<1>2. Init => Basis /\ Kept
  BY BasisInit, KeptInit
<1>3. (Basis /\ Kept) /\ [Next]_vars => (Basis /\ Kept)'
  BY BasisStep, KeptStep
<1> QED
  BY <1>1, <1>2, <1>3, PTL DEF Spec

-----------------------------------------------------------------------------
(* Requests that are under way at once have met each other.                *)
LEMMA TogetherStep == Basis /\ Together /\ [Next]_vars => Together'
<1> SUFFICES ASSUME Basis, Together, [Next]_vars PROVE Together'
  OBVIOUS
<1>1. ASSUME NEW r \in Sessions, NEW y, session' = [session EXCEPT ![r] = y],
             Underway(y) => Underway(session[r]) /\ y.met = session[r].met
      PROVE  Together'
  <2>1. session'[r] = y /\ \A q \in Sessions \ {r} : session'[q] = session[q]
    BY <1>1 DEF Basis
  <2> QED
    BY <1>1, <2>1 DEF Together
<1>2. CASE UNCHANGED vars
  BY <1>2 DEF Together, vars
<1>3. ASSUME NEW r \in Sessions, NEW request \in Requests, Begin(r, request)
      PROVE  Together'
  <2>1. /\ BegunAs(r, request, session'[r]) /\ session[r].pc = "idle"
        /\ \A q \in Sessions \ {r} :
                IF Live(q) THEN session'[q] = [session[q] EXCEPT !.met = @ \cup {r}]
                ELSE session'[q] = session[q]
    BY <1>3, BeginEffect
  <2>2. session'[r].met = Peers(r)
    BY <2>1, BegunRow
  <2>3. ASSUME NEW q \in Sessions \ {r}, Underway(session'[q])
        PROVE  q \in session'[r].met /\ session'[q].met = session[q].met \cup {r} /\ Underway(session[q])
    <3>1. session[q] \in SessionRow
      BY DEF Basis, Placed
    <3>2. CASE Live(q)
      <4>1. session'[q].met = session[q].met \cup {r}
        BY <2>1, <3>1, <3>2 DEF SessionRow
      <4> QED
        BY <2>2, <3>2, <4>1 DEF Peers, Live, Underway
    <3>3. CASE ~Live(q)
      BY <2>1, <2>3, <3>3 DEF Live, Underway
    <3> QED
      BY <3>2, <3>3
  <2> SUFFICES ASSUME NEW q \in Sessions, NEW p \in Sessions, q # p,
                      Underway(session'[q]), Underway(session'[p])
               PROVE  q \in session'[p].met
    BY DEF Together
  <2>4. CASE p = r
    BY <2>3, <2>4
  <2>5. CASE p # r /\ q = r
    BY <2>3, <2>5
  <2>6. CASE p # r /\ q # r
    BY <2>3, <2>6 DEF Together
  <2> QED
    BY <2>4, <2>5, <2>6
<1>4. ASSUME NEW r \in Sessions, NEW why \in Answers, session' = [session EXCEPT ![r] = Ended(r, why)]
      PROVE  Together'
  BY <1>1, <1>4, EndedRow DEF Underway
<1>5. ASSUME NEW r \in Sessions, Fails(r)
      PROVE  Together'
  BY <1>4, <1>5 DEF Fails, Abort
<1>6. ASSUME NEW r \in Sessions, GoesOn(r) \/ RebuildsOne(r)
      PROVE  Together'
  BY <1>1, <1>6 DEF GoesOn, RebuildsOne, Onward, Rebuilds, Advance
<1>7. ASSUME NEW r \in Sessions, Commit(r)
      PROVE  Together'
  BY <1>4, <1>7, CommitEffect DEF Answers
<1> QED
  BY <1>2, <1>3, <1>5, <1>6, <1>7, NextCases

-----------------------------------------------------------------------------
(* What a request has rebuilt is right as long as nobody it has met        *)
(* commits.                                                                *)
Present(projection, s) == {b \in projection : b.asset = s}

LEMMA ProjectsDepends ==
    ASSUME NEW stored, NEW s, NEW one, NEW other, Present(one, s) = Present(other, s),
           Projects(stored, s, one)
    PROVE  Projects(stored, s, other)
BY DEF Projects, Present

LEMMA RightOnward ==
    ASSUME NEW r, NEW x, NEW y, NEW stored, NEW held, Onward(r, x, y, stored, held),
           Right(r, x, stored, held)
    PROVE  Right(r, y, stored, held)
<1>1. /\ y.request = x.request /\ y.fresh = x.fresh /\ Rebuilt(y, stored) = Rebuilt(x, stored)
      /\ x.gone \subseteq y.gone /\ \A b \in y.gone \ x.gone : b.asset \in Current(x)
  BY DEF Onward
<1> SUFFICES ASSUME NEW s \in Rebuilt(x, stored)
             PROVE  Projects(Laid(r, x.request, stored), s, (held \ y.gone) \cup y.fresh)
  BY <1>1 DEF Right
<1>2. s \notin Current(x)
  BY DEF Rebuilt
<1> DEFINE one == (held \ x.gone) \cup x.fresh
           other == (held \ y.gone) \cup y.fresh
<1>3. Present(one, s) = Present(other, s)
  BY <1>1, <1>2 DEF Present
<1>4. Projects(Laid(r, x.request, stored), s, one)
  BY DEF Right
<1> HIDE DEF one, other
<1>5. Projects(Laid(r, x.request, stored), s, other)
  BY <1>3, <1>4, ProjectsDepends
<1> QED
  BY <1>5 DEF other

LEMMA FreshProjects ==
    ASSUME NEW r, NEW s, NEW stored, NEW rebuilt, rebuilt = Rebuild(stored, Prices, s),
           Exact(rebuilt, stored, s), ~rebuilt.short
    PROVE  Projects(stored, s, Fresh(r, s, rebuilt))
<1> DEFINE b == Batch(r, s, rebuilt)
           new == Fresh(r, s, rebuilt)
           right == <<rebuilt.lots, rebuilt.consumptions>>
           nothing == <<<<>>, <<>>>>
<1>1. b.asset = s /\ b.lots = rebuilt.lots /\ b.consumptions = rebuilt.consumptions
  BY DEF Batch
<1>2. rebuilt.lots \in Seq(LotRow) /\ rebuilt.consumptions \in Seq(SaleRow)
  BY DEF Exact, ReplayState
<1>3. \A k \in DOMAIN rebuilt.consumptions : rebuilt.consumptions[k].lot \in DOMAIN rebuilt.lots
  BY DEF Exact, Sound, FromSales
<1>4. ASSUME rebuilt.lots = <<>>
      PROVE  rebuilt.consumptions = <<>>
  <2>1. DOMAIN rebuilt.lots = {}
    BY <1>4
  <2> DEFINE sales == rebuilt.consumptions
  <2>2. sales \in Seq(SaleRow) /\ DOMAIN sales = {}
    BY <1>2, <1>3, <2>1
  <2> HIDE DEF sales
  <2>3. DOMAIN sales = 1..Len(sales) /\ Len(sales) \in Nat
    BY <2>2
  <2>4. Len(sales) = 0
    BY <2>2, <2>3
  <2>5. sales = <<>>
    BY <2>2, <2>4
  <2> QED
    BY <2>5 DEF sales
<1>5. new = IF b.lots = <<>> THEN {} ELSE {b}
  BY DEF Fresh
<1> HIDE DEF b, new
<1>6. {c \in new : c.asset = s} = new
  BY <1>1, <1>5
<1>7. Cardinality(new) <= 1
  <2>1. Cardinality({}) = 0 /\ Cardinality({b}) = 1
    BY FS_EmptySet, FS_Singleton
  <2> QED
    BY <1>5, <2>1
<1>8. {<<c.lots, c.consumptions>> : c \in new} = {right} \ {nothing}
  <2>1. CASE rebuilt.lots = <<>>
    <3>1. right = nothing /\ new = {}
      BY <1>1, <1>4, <1>5, <2>1
    <3> QED
      BY <3>1
  <2>2. CASE rebuilt.lots # <<>>
    <3>1. right # nothing /\ new = {b} /\ <<b.lots, b.consumptions>> = right
      BY <1>1, <1>5, <2>2
    <3> QED
      BY <3>1
  <2> QED
    BY <2>1, <2>2
<1> QED
  BY <1>6, <1>7, <1>8 DEF Projects, new

LEMMA RightRebuilds ==
    ASSUME NEW r \in Sessions, NEW x, NEW y, NEW s, NEW stored, AllSound(stored), NEW held,
           Placed(r, x, stored, held), Rebuilds(r, x, y, s, stored, held),
           Swept(x, stored, held), Right(r, x, stored, held)
    PROVE  Right(r, y, stored, held)
<1> DEFINE laid == Laid(r, x.request, stored)
           rebuilt == Rebuild(laid, Prices, s)
           new == Fresh(r, s, rebuilt)
           after == (held \ y.gone) \cup y.fresh
<1>1. /\ y.request = x.request /\ y.gone = x.gone /\ y.fresh = x.fresh \cup new
      /\ s \in Assets /\ s \notin Rebuilt(x, stored) /\ ~rebuilt.short
      /\ Rebuilt(y, stored) = Rebuilt(x, stored) \cup {s}
      /\ \A b \in x.fresh : b.asset # s
      /\ \A b \in held : b.asset = s => b \in x.gone
  BY DEF Rebuilds
<1>2. AllSound(laid)
  <2>1. Fits(r, x.request, stored)
    BY PlacedFits DEF Rebuilds, Placed
  <2> QED
    BY <2>1, LaidOver
<1> HIDE DEF laid
<1>3. Exact(rebuilt, laid, s)
  BY <1>1, <1>2, RebuildExact
<1>4. Projects(laid, s, new)
  BY <1>1, <1>3, FreshProjects
<1>5. \A b \in new : b.asset = s
  BY DEF Fresh, Batch
<1> HIDE DEF rebuilt, new
<1>6. Present(new, s) = Present(after, s)
  BY <1>1, <1>5 DEF Present
<1> HIDE DEF after
<1>7. Projects(laid, s, after)
  BY <1>4, <1>6, ProjectsDepends
<1>8. ASSUME NEW t \in Rebuilt(x, stored)
      PROVE  Projects(laid, t, after)
  <2> DEFINE before == (held \ x.gone) \cup x.fresh
  <2>1. Projects(laid, t, before)
    BY DEF Right, laid
  <2>2. Present(before, t) = Present(after, t)
    BY <1>1, <1>5 DEF Present, after
  <2> HIDE DEF before
  <2> QED
    BY <2>1, <2>2, ProjectsDepends
<1> QED
  BY <1>1, <1>7, <1>8 DEF Right, laid, after

LEMMA CleanStep == Basis /\ Together /\ Clean /\ [Next]_vars => Clean'
<1> SUFFICES ASSUME Basis, Together, Clean, [Next]_vars PROVE Clean'
  OBVIOUS
<1>1. CASE UNCHANGED vars
  BY <1>1 DEF Clean, Quiet, vars
<1>2. ASSUME NEW r \in Sessions, NEW y, UNCHANGED <<rows, batches>>, Underway(session[r]),
             session' = [session EXCEPT ![r] = y],
             Underway(y) => /\ y.met = session[r].met
                            /\ /\ Swept(session[r], rows, batches)
                               /\ Right(r, session[r], rows, batches)
                               => Swept(y, rows, batches) /\ Right(r, y, rows, batches)
      PROVE  Clean'
  <2>1. session'[r] = y /\ \A q \in Sessions \ {r} : session'[q] = session[q]
    BY <1>2 DEF Basis
  <2>2. ASSUME NEW q \in Sessions, Underway(session'[q]), Quiet(session'[q], session')
        PROVE  Quiet(session[q], session) /\ Underway(session[q])
    <3>1. session[q].met = session'[q].met /\ session[q].met \subseteq Sessions
      BY <1>2, <2>1, <2>2 DEF Basis, Placed, SessionRow
    <3>2. \A p \in Sessions : session[p].pc = "done" => session'[p] = session[p]
      BY <1>2, <2>1 DEF Underway
    <3> QED
      BY <1>2, <2>1, <2>2, <3>1, <3>2 DEF Quiet
  <2>3. \A q \in Sessions : Underway(session'[q]) /\ Quiet(session'[q], session') =>
            Swept(session'[q], rows, batches) /\ Right(q, session'[q], rows, batches)
    BY <1>2, <2>1, <2>2 DEF Clean
  <2> QED
    BY <1>2, <2>3 DEF Clean
<1>3. ASSUME NEW r \in Sessions, NEW request \in Requests, Begin(r, request)
      PROVE  Clean'
  <2>1. /\ UNCHANGED <<rows, batches>> /\ BegunAs(r, request, session'[r])
        /\ session[r].pc = "idle"
        /\ \A q \in Sessions \ {r} : \/ session'[q] = [session[q] EXCEPT !.met = @ \cup {r}]
                                     \/ session'[q] = session[q]
    BY <1>3, BeginEffect
  <2>2. Swept(session'[r], rows, batches) /\ Right(r, session'[r], rows, batches)
    <3>1. session'[r].pc \in {"read", "write"}
      BY <2>1, BegunRow
    <3>2. Rebuilt(session'[r], rows) = {}
      BY <3>1 DEF Rebuilt, Working
    <3> QED
      BY <3>1, <3>2 DEF Swept, Right
  <2>3. ASSUME NEW q \in Sessions \ {r}
        PROVE  /\ session'[q].pc = session[q].pc /\ session'[q].answer = session[q].answer
               /\ session[q].met \subseteq session'[q].met
               /\ Swept(session[q], rows, batches) => Swept(session'[q], rows, batches)
               /\ Right(q, session[q], rows, batches) => Right(q, session'[q], rows, batches)
    <3>1. Placed(q, session[q], rows, batches)
      BY DEF Basis
    <3>2. CASE session'[q] = [session[q] EXCEPT !.met = @ \cup {r}]
      <4>1. /\ session'[q].pc = session[q].pc /\ session'[q].answer = session[q].answer
            /\ session'[q].gone = session[q].gone /\ session'[q].fresh = session[q].fresh
            /\ session'[q].request = session[q].request
            /\ session'[q].met = session[q].met \cup {r}
            /\ Rebuilt(session'[q], rows) = Rebuilt(session[q], rows)
            /\ Swept(session[q], rows, batches) => Swept(session'[q], rows, batches)
        BY <3>1, <3>2, MetPlaced
      <4> QED
        BY <4>1 DEF Right
    <3> QED
      BY <2>1, <3>2
  <2>4. ASSUME NEW q \in Sessions \ {r}, Quiet(session'[q], session')
        PROVE  Quiet(session[q], session)
    <3>1. session[q].met \subseteq Sessions
      BY DEF Basis, Placed, SessionRow
    <3> QED
      BY <2>1, <2>3, <2>4, <3>1 DEF Quiet
  <2>5. \A q \in Sessions \ {r} : Underway(session'[q]) /\ Quiet(session'[q], session') =>
            Swept(session'[q], rows, batches) /\ Right(q, session'[q], rows, batches)
    BY <2>3, <2>4 DEF Clean, Underway
  <2>6. \A q \in Sessions : Underway(session'[q]) /\ Quiet(session'[q], session') =>
            Swept(session'[q], rows, batches) /\ Right(q, session'[q], rows, batches)
    BY <2>2, <2>5
  <2> QED
    BY <2>1, <2>6 DEF Clean
<1>4. ASSUME NEW r \in Sessions, Fails(r)
      PROVE  Clean'
  <2>1. PICK why \in Answers : Abort(r, why) /\ Live(r)
    BY <1>4 DEF Fails
  <2>2. ~Underway(Ended(r, why))
    BY EndedRow DEF Underway
  <2> QED
    BY <1>2, <2>1, <2>2 DEF Abort, Live, Underway
<1>5. ASSUME NEW r \in Sessions, GoesOn(r)
      PROVE  Clean'
  <2>1. PICK y : Advance(r, y) /\ Onward(r, session[r], y, rows, batches)
    BY <1>5 DEF GoesOn
  <2>2. /\ Underway(session[r]) /\ y.met = session[r].met
        /\ Swept(session[r], rows, batches) => Swept(y, rows, batches)
    BY <2>1 DEF Onward
  <2>3. Right(r, session[r], rows, batches) => Right(r, y, rows, batches)
    BY <2>1, RightOnward
  <2> QED
    BY <1>2, <2>1, <2>2, <2>3 DEF Advance
<1>6. ASSUME NEW r \in Sessions, RebuildsOne(r)
      PROVE  Clean'
  <2>1. PICK y, s : Advance(r, y) /\ Rebuilds(r, session[r], y, s, rows, batches)
    BY <1>6 DEF RebuildsOne
  <2>2. /\ Underway(session[r]) /\ y.met = session[r].met
        /\ Swept(session[r], rows, batches) => Swept(y, rows, batches)
    BY <2>1 DEF Rebuilds
  <2>3. Placed(r, session[r], rows, batches) /\ AllSound(rows)
    BY DEF Basis
  <2>4. Swept(session[r], rows, batches) /\ Right(r, session[r], rows, batches)
            => Right(r, y, rows, batches)
    BY <2>1, <2>3, RightRebuilds
  <2> QED
    BY <1>2, <2>1, <2>2, <2>4 DEF Advance
<1>7. ASSUME NEW r \in Sessions, Commit(r)
      PROVE  Clean'
  <2>1. /\ Underway(session[r]) /\ session'[r] = Ended(r, "ok")
        /\ \A q \in Sessions \ {r} : session'[q] = session[q]
    BY <1>7, CommitEffect
  <2>2. session'[r].pc = "done" /\ session'[r].answer = "ok"
    BY <2>1, EndedRow DEF Answers
  <2>3. ASSUME NEW q \in Sessions, Underway(session'[q])
        PROVE  ~Quiet(session'[q], session')
    <3>1. q # r
      BY <2>2, <2>3 DEF Underway
    <3>2. r \in session'[q].met
      BY <2>1, <2>3, <3>1 DEF Together
    <3> QED
      BY <2>2, <3>2 DEF Quiet
  <2> QED
    BY <2>3 DEF Clean
<1> QED
  BY <1>1, <1>3, <1>4, <1>5, <1>6, <1>7, NextCases

(* A request that overlaps no other commits a projection that is right for *)
(* every asset it touches (HealedAlone of LedgerDB), whatever was left     *)
(* there before: it has deleted all of the asset's batches and what it     *)
(* writes in their place is the rebuild of the rows it commits.            *)
THEOREM LedgerDBHealedAlone == Spec => []HealedAlone
<1>1. Basis /\ Clean => HealedAlone
  <2> SUFFICES ASSUME Basis, Clean, NEW r \in Sessions,
                      session[r].pc = "commit", session[r].met = {},
                      NEW s \in AssetsOf(Legs(r))
               PROVE  Projects(View(r), s, (batches \ session[r].gone) \cup session[r].fresh)
    BY DEF HealedAlone
  <2> DEFINE x == session[r]
  <2>1. Underway(x) /\ Quiet(x, session)
    BY DEF Underway, Quiet
  <2>2. Right(r, x, rows, batches)
    BY <2>1 DEF Clean
  <2>3. x.todo = {} /\ Current(x) = {}
    BY DEF Basis, Placed, Scans, Current, Scanning
  <2>4. Legs(r) = LegsOf(x.request, rows) /\ View(r) = Laid(r, x.request, rows)
    BY DEF Legs, LegsOf, View, Written, Laid
  <2>5. s \in Rebuilt(x, rows)
    BY <2>3, <2>4 DEF Rebuilt, Working
  <2> QED
    BY <2>2, <2>4, <2>5 DEF Right
<1>2. Init => Basis /\ Together /\ Clean
  <2>1. Init => Together /\ Clean
    BY DEF Init, Idle, Together, Clean, Underway
  <2> QED
    BY <2>1, BasisInit
<1>3. (Basis /\ Together /\ Clean) /\ [Next]_vars => (Basis /\ Together /\ Clean)'
  BY BasisStep, TogetherStep, CleanStep
<1> QED
  BY <1>1, <1>2, <1>3, PTL DEF Spec

-----------------------------------------------------------------------------
(* Balances: what an account owes depends on the rows of the asset alone.  *)
LEMMA SumKept ==
    ASSUME NEW old, NEW new, NEW pair, NEW ids, \A i \in ids : new[i] = old[i]
    PROVE  LegSum(new, pair, ids) = LegSum(old, pair, ids)
<1>1. \A i \in ids : \A l \in DOMAIN old[i].legs :
        <<old[i].legs[l].account, old[i].legs[l].asset>> = pair
            => i \in ids /\ new[i].legs = old[i].legs
  OBVIOUS
<1>2. \A i \in ids : \A l \in DOMAIN new[i].legs :
        <<new[i].legs[l].account, new[i].legs[l].asset>> = pair
            => i \in ids /\ new[i].legs = old[i].legs
  OBVIOUS
<1> QED
  BY <1>1, <1>2, LegSumDepends

LEMMA CoveredDepends ==
    ASSUME NEW old, NEW new, NEW s, Relevant(new, s) = Relevant(old, s),
           \A i \in Relevant(old, s) : new[i] = old[i], Covered(old, s)
    PROVE  Covered(new, s)
<1> DEFINE R == Relevant(old, s)
<1>1. \A i, j \in R : ReplayBefore(new, i, j) <=> ReplayBefore(old, i, j)
  BY DEF ReplayBefore
<1>2. \A i \in R : UpTo(new, s, i) = UpTo(old, s, i) /\ UpTo(old, s, i) \in SUBSET R
  BY <1>1 DEF UpTo
<1>3. ASSUME NEW i \in R, NEW a
      PROVE  LegSum(new, <<a, s>>, UpTo(new, s, i)) = LegSum(old, <<a, s>>, UpTo(old, s, i))
  <2> DEFINE ids == UpTo(old, s, i)
  <2>1. \A j \in ids : new[j] = old[j]
    BY <1>2
  <2> HIDE DEF ids
  <2>2. LegSum(new, <<a, s>>, ids) = LegSum(old, <<a, s>>, ids)
    BY <2>1, SumKept
  <2> QED
    BY <1>2, <2>2 DEF ids
<1>4. \A i \in R : Overdrawn(new, s, UpTo(new, s, i)) => Overdrawn(old, s, UpTo(old, s, i))
  BY <1>3 DEF Overdrawn
<1> QED
  BY <1>4 DEF Covered

LEMMA FirstRow ==
    ASSUME NEW stored, IsRows(stored), NEW s, Relevant(stored, s) # {}
    PROVE  \E i \in Relevant(stored, s) : UpTo(stored, s, i) = {i}
<1> DEFINE order == Replayed(stored, s)
           before == Earlier(stored, s)
           S == Relevant(stored, s)
<1>1. /\ Len(order) \in Nat /\ DOMAIN order = 1..Len(order)
      /\ \A k \in DOMAIN order : order[k] \in S
      /\ \A x \in S : \E k \in DOMAIN order : order[k] = x
      /\ \A k, m \in DOMAIN order : k < m => <<order[k], order[m]>> \in before
  BY ReplayOrder DEF IsListing
<1> HIDE DEF order
<1>2. 1 \in DOMAIN order
  BY <1>1
<1> DEFINE i == order[1]
<1>3. i \in S
  BY <1>1, <1>2
<1>4. ASSUME NEW m \in S, m # i
      PROVE  ~ReplayBefore(stored, m, i)
  <2>1. PICK k \in DOMAIN order : order[k] = m
    BY <1>1
  <2>2. k > 1
    BY <1>1, <1>4, <2>1
  <2>3. ReplayBefore(stored, i, m)
    BY <1>1, <1>2, <2>1, <2>2 DEF Earlier
  <2>4. /\ i \in Int /\ m \in Int
        /\ stored[i].occurred_at \in Int /\ stored[m].occurred_at \in Int
    BY <1>3, RelevantRows
  <2> QED
    BY <2>3, <2>4 DEF ReplayBefore
<1>5. UpTo(stored, s, i) = {i}
  BY <1>3, <1>4 DEF UpTo
<1> QED
  BY <1>3, <1>5

(* What nobody has received nobody has sent.                               *)
LEMMA NothingReceived ==
    ASSUME NEW stored, AllSound(stored), NEW s, Covered(stored, s),
           \A i \in Relevant(stored, s) : \A l \in LegsIn(stored[i], s) :
               ~(stored[i].legs[l].quantity > 0)
    PROVE  Relevant(stored, s) = {}
<1> SUFFICES ASSUME Relevant(stored, s) # {} PROVE FALSE
  OBVIOUS
<1>1. PICK i \in Relevant(stored, s) : UpTo(stored, s, i) = {i}
  BY FirstRow DEF AllSound
<1>2. /\ stored[i] \in Transaction /\ Shaped(stored[i].type, stored[i].legs)
      /\ LegsIn(stored[i], s) # {}
  BY DEF AllSound, IsRows, Relevant
<1>3. \A out, in : ~Carries(stored[i], s, out, in)
  BY DEF Carries
<1>4. \A l : ~Comes(stored[i], s, l)
  BY DEF Comes
<1>5. PICK l : Goes(stored[i], s, l)
  BY <1>2, <1>3, <1>4, ShapesOfRows
<1> DEFINE a == stored[i].legs[l].account
           pair == <<a, s>>
<1>6. /\ l \in DOMAIN stored[i].legs /\ LegsIn(stored[i], s) = {l} /\ stored[i].legs[l].quantity < 0
  BY <1>5 DEF Goes
<1>7. a \in Accounts
  <2>1. stored[i].legs[l] \in Leg
    BY <1>2, <1>6 DEF Transaction
  <2> QED
    BY <2>1 DEF Leg
<1>8. IsPair(pair, a, s)
  BY DEF IsPair
<1> HIDE DEF a, pair
<1>9. IsGain(LegSum(stored, pair, {i}), stored[i], l, a)
  BY <1>2, <1>6, <1>8, OneLegSum
<1>10. LegSum(stored, pair, {i}) < 0
  BY <1>6, <1>9 DEF IsGain, a
<1>11. Overdrawn(stored, s, {i})
  BY <1>7, <1>10 DEF Overdrawn, pair
<1> QED
  BY <1>1, <1>11 DEF Covered

Credits(stored, s, i) == \A a \in Accounts : LegSum(stored, <<a, s>>, {i}) >= 0

LEMMA AloneCredits ==
    ASSUME NEW stored, AllSound(stored), NEW s, NEW i \in Relevant(stored, s),
           Relevant(stored, s) \subseteq {i}, Covered(stored, s)
    PROVE  Credits(stored, s, i)
<1>1. UpTo(stored, s, i) = {i}
  BY DEF UpTo
<1>2. ~Overdrawn(stored, s, {i})
  BY <1>1 DEF Covered
<1>3. IsRows(stored) /\ {i} \in SUBSET DOMAIN stored
  BY DEF AllSound, Relevant
<1>4. \A a : LegSum(stored, <<a, s>>, {i}) \in Int
  BY <1>3, LegSumIsInt
<1> QED
  BY <1>2, <1>4 DEF Overdrawn, Credits

LEMMA TwoCredit ==
    ASSUME NEW stored, AllSound(stored), NEW s, NEW q, NEW r, Relevant(stored, s) \subseteq {q, r},
           \A i \in Relevant(stored, s) : Credits(stored, s, i)
    PROVE  Covered(stored, s)
<1> SUFFICES ASSUME NEW i \in Relevant(stored, s), NEW a \in Accounts,
                    LegSum(stored, <<a, s>>, UpTo(stored, s, i)) < 0
             PROVE  FALSE
  BY DEF Covered, Overdrawn
<1> DEFINE ids == UpTo(stored, s, i)
           pair == <<a, s>>
           one == LegSum(stored, pair, {i})
<1>1. ids \subseteq Relevant(stored, s) /\ i \in ids /\ IsRows(stored)
      /\ Relevant(stored, s) \subseteq DOMAIN stored
  BY DEF UpTo, Relevant, AllSound
<1>2. one >= 0
  BY DEF Credits
<1>3. {i} \in SUBSET DOMAIN stored
  BY <1>1
<1> HIDE DEF ids, pair
<1>4. one \in Int
  BY <1>1, <1>3, LegSumIsInt
<1>5. CASE ids = {i}
  BY <1>2, <1>4, <1>5 DEF ids, pair
<1>6. CASE ids # {i}
  <2>1. PICK j \in ids : j # i
    BY <1>1, <1>6
  <2> DEFINE other == LegSum(stored, pair, {j})
  <2>2. ids = {i} \cup {j} /\ j \in Relevant(stored, s) /\ j \in DOMAIN stored /\ {j} \in SUBSET DOMAIN stored
    BY <1>1, <2>1
  <2>3. LegSum(stored, pair, {i} \cup {j}) = one + other
    BY <1>1, <1>3, <2>1, <2>2, LegSumWith
  <2>4. other \in Int
    BY <1>1, <2>2, LegSumIsInt
  <2>5. other >= 0
    BY <2>2 DEF Credits, pair
  <2> HIDE DEF one, other
  <2>6. one + other >= 0
    BY <1>2, <1>4, <2>4, <2>5
  <2>7. LegSum(stored, pair, ids) = one + other
    BY <2>2, <2>3
  <2>8. one + other < 0
    BY <2>7 DEF ids, pair
  <2> QED
    BY <1>4, <2>4, <2>6, <2>8
<1> QED
  BY <1>5, <1>6

(* What a request lays over rows that another has changed.                 *)
LEMMA LaterSame ==
    ASSUME NEW stored, NEW r, NEW request, Fits(r, request, stored),
           NEW later, AllSound(later), Over(later, stored, r, request),
           NEW q, q # r, NEW other, Fits(q, other, stored), Fits(q, other, later),
           NEW s, s \notin AssetsOf(LegsOf(request, stored)),
           Covered(Laid(q, other, stored), s)
    PROVE  Covered(Laid(q, other, later), s)
<1> DEFINE old == Laid(q, other, stored)
           new == Laid(q, other, later)
<1>1. Over(old, stored, q, other) /\ Over(new, later, q, other)
  BY LaidOver
<1>2. /\ Relevant(later, s) = Relevant(stored, s)
      /\ \A i \in Relevant(stored, s) : later[i] = stored[i]
  BY OverRows
<1>3. ASSUME NEW i \in Relevant(new, s)
      PROVE  i \in Relevant(old, s) /\ old[i] = new[i]
  <2>1. i = q \/ i \in Relevant(later, s)
    BY <1>1, OverRows
  <2>2. i = q \/ i \in DOMAIN stored
    BY <1>2, <2>1 DEF Relevant
  <2> QED
    BY <2>2, LaterRelevant
<1>4. ASSUME NEW i \in Relevant(old, s)
      PROVE  i \in Relevant(new, s) /\ old[i] = new[i]
  <2> HIDE DEF old, new
  <2>1. i \in DOMAIN old /\ Counts(old[i]) /\ LegsIn(old[i], s) # {}
    BY DEF Relevant
  <2>2. CASE i = q
    <3>1. other.op = "create"
      BY <1>1, <2>1, <2>2 DEF Over
    <3>2. q \in DOMAIN new /\ old[q] = new[q]
      BY <1>1, <3>1 DEF Over
    <3> QED
      BY <2>1, <2>2, <3>2 DEF Relevant
  <2>3. CASE i # q
    <3>1. i \in DOMAIN stored /\ old[i] = stored[i]
      BY <1>1, <2>1, <2>3 DEF Over
    <3>2. i \in Relevant(stored, s)
      BY <2>1, <3>1 DEF Relevant
    <3>3. later[i] = stored[i] /\ i \in DOMAIN later
      BY <1>2, <3>2 DEF Relevant
    <3>4. other.op = "create" \/ i # other.target
      BY <1>1, <2>1 DEF Over
    <3>5. i \in DOMAIN new /\ new[i] = later[i]
      BY <1>1, <3>3, <3>4 DEF Over
    <3> QED
      BY <2>1, <3>1, <3>3, <3>5 DEF Relevant
  <2> QED
    BY <2>2, <2>3
<1>5. Covered(old, s)
  OBVIOUS
<1> HIDE DEF old, new
<1>6. Relevant(new, s) = Relevant(old, s) /\ \A i \in Relevant(old, s) : new[i] = old[i]
  BY <1>3, <1>4
<1>7. Covered(new, s)
  BY <1>5, <1>6, CoveredDepends
<1> QED
  BY <1>7 DEF new

LEMMA LaterCredits ==
    ASSUME NEW stored, NEW r, NEW request, Fits(r, request, stored),
           NEW later, AllSound(later), Over(later, stored, r, request),
           NEW q, q # r, NEW other, Fits(q, other, stored), Fits(q, other, later),
           NEW s, Relevant(stored, s) = {}, Covered(later, s),
           Covered(Laid(q, other, stored), s)
    PROVE  Covered(Laid(q, other, later), s)
<1> DEFINE old == Laid(q, other, stored)
           new == Laid(q, other, later)
<1>1. /\ Over(old, stored, q, other) /\ Over(new, later, q, other)
      /\ AllSound(old) /\ AllSound(new)
  BY LaidOver
<1>2. Relevant(later, s) \subseteq {r} /\ Relevant(old, s) \subseteq {q}
  BY <1>1, OverRows
<1>3. /\ Relevant(new, s) \subseteq Relevant(later, s) \cup {q}
      /\ \A i \in Relevant(new, s) : i # q => new[i] = later[i]
  BY <1>1, OverRows
<1>4. Relevant(new, s) \subseteq {r, q}
  BY <1>2, <1>3
<1>5. ASSUME NEW i \in Relevant(new, s), i # q
      PROVE  Credits(new, s, i)
  <2>1. i \in Relevant(later, s) /\ Relevant(later, s) \subseteq {i} /\ new[i] = later[i]
    BY <1>2, <1>3, <1>5
  <2>2. Credits(later, s, i)
    BY <2>1, AloneCredits
  <2> HIDE DEF new
  <2>3. \A a : LegSum(new, <<a, s>>, {i}) = LegSum(later, <<a, s>>, {i})
    BY <2>1, SumKept
  <2> QED
    BY <2>2, <2>3 DEF Credits
<1>6. ASSUME q \in Relevant(new, s)
      PROVE  Credits(new, s, q)
  <2>1. q \in Relevant(old, s) /\ old[q] = new[q]
    BY <1>6, LaterRelevant
  <2>2. Covered(old, s)
    OBVIOUS
  <2> HIDE DEF old, new
  <2>3. Credits(old, s, q)
    BY <1>1, <1>2, <2>1, <2>2, AloneCredits
  <2>4. \A a : LegSum(new, <<a, s>>, {q}) = LegSum(old, <<a, s>>, {q})
    BY <2>1, SumKept
  <2> QED
    BY <2>3, <2>4 DEF Credits
<1> HIDE DEF old, new
<1>7. Covered(new, s)
  BY <1>1, <1>4, <1>5, <1>6, TwoCredit
<1> QED
  BY <1>7 DEF new

-----------------------------------------------------------------------------
(* Requests that overlap two by two never overdraw.                        *)
LEMMA ExactCovers ==
    ASSUME FeeFree, NEW stored, AllSound(stored), NEW s, NEW rebuilt, Exact(rebuilt, stored, s),
           ~rebuilt.short
    PROVE  Covered(stored, s)
<1>1. AllWhole(stored, s)
  BY DEF AllWhole, AllSound, Relevant
<1> QED
  BY <1>1 DEF Exact, Covered

LEMMA MetGrows ==
    ASSUME Basis, [Next]_vars
    PROVE  InPairs' => InPairs
<1>1. \A q \in Sessions : session[q] \in SessionRow /\ session'[q] \in SessionRow
  BY BasisStep DEF Basis, Placed
<1>2. ASSUME \A q \in Sessions : session[q].pc # "idle" =>
               session'[q].pc # "idle" /\ session[q].met \subseteq session'[q].met
      PROVE  InPairs' => InPairs
  <2> SUFFICES ASSUME InPairs', NEW q \in Sessions, session[q].pc # "idle"
               PROVE  Cardinality(session[q].met) <= 1
    BY DEF InPairs
  <2> DEFINE old == session[q].met
             new == session'[q].met
  <2>1. old \subseteq new /\ new \subseteq Sessions /\ Cardinality(new) <= 1
    BY <1>1, <1>2 DEF InPairs, SessionRow
  <2> HIDE DEF old, new
  <2>2. IsFiniteSet(new)
    BY <2>1, FS_Subset, LedgerDBAssumption
  <2>3. IsFiniteSet(old) /\ Cardinality(old) <= Cardinality(new)
    BY <2>1, <2>2, FS_Subset
  <2>4. Cardinality(old) \in Nat /\ Cardinality(new) \in Nat
    BY <2>2, <2>3, FS_CardinalityType
  <2>5. Cardinality(old) <= 1
    BY <2>1, <2>3, <2>4
  <2> QED
    BY <2>5 DEF old
<1>3. ASSUME NEW r \in Sessions, NEW y, session' = [session EXCEPT ![r] = y],
             y.met = session[r].met, y.pc # "idle"
      PROVE  InPairs' => InPairs
  <2>1. session'[r] = y /\ \A q \in Sessions \ {r} : session'[q] = session[q]
    BY <1>3 DEF Basis
  <2>2. \A q \in Sessions : session[q].pc # "idle" =>
           session'[q].pc # "idle" /\ session[q].met \subseteq session'[q].met
    BY <1>3, <2>1
  <2> QED
    BY <1>2, <2>2
<1>4. CASE UNCHANGED vars
  BY <1>4 DEF InPairs, vars
<1>5. ASSUME NEW r \in Sessions, NEW request \in Requests, Begin(r, request)
      PROVE  InPairs' => InPairs
  <2>1. /\ session[r].pc = "idle"
        /\ \A q \in Sessions \ {r} : \/ session'[q] = [session[q] EXCEPT !.met = @ \cup {r}]
                                     \/ session'[q] = session[q]
    BY <1>5, BeginEffect
  <2>2. ASSUME NEW q \in Sessions \ {r}
        PROVE  session'[q].pc = session[q].pc /\ session[q].met \subseteq session'[q].met
    BY <1>1, <2>1 DEF SessionRow
  <2> QED
    BY <1>2, <2>1, <2>2
<1>6. ASSUME NEW r \in Sessions, Fails(r) \/ GoesOn(r) \/ RebuildsOne(r) \/ Commit(r)
      PROVE  InPairs' => InPairs
  <2>1. CASE Fails(r)
    BY <1>3, <2>1, EndedRow DEF Fails, Abort
  <2>2. CASE GoesOn(r) \/ RebuildsOne(r)
    BY <1>3, <2>2 DEF GoesOn, RebuildsOne, Onward, Rebuilds, Advance, Underway
  <2>3. CASE Commit(r)
    BY <1>3, <2>3, CommitEffect, EndedRow DEF Answers
  <2> QED
    BY <1>6, <2>1, <2>2, <2>3
<1> QED
  BY <1>4, <1>5, <1>6, NextCases

LEMMA ShelteredOfNone ==
    ASSUME NEW r, NEW x, NEW stored, Rebuilt(x, stored) = {}
    PROVE  Sheltered(r, x, stored)
BY DEF Sheltered

LEMMA ShelteredRebuilds ==
    ASSUME FeeFree, NEW r \in Sessions, NEW x, NEW y, NEW s, NEW stored, AllSound(stored), NEW held,
           Placed(r, x, stored, held), Rebuilds(r, x, y, s, stored, held), Sheltered(r, x, stored)
    PROVE  Sheltered(r, y, stored)
<1> DEFINE laid == Laid(r, x.request, stored)
           rebuilt == Rebuild(laid, Prices, s)
<1>1. /\ y.request = x.request /\ Rebuilt(y, stored) = Rebuilt(x, stored) \cup {s}
      /\ s \in Assets /\ ~rebuilt.short
  BY DEF Rebuilds
<1>2. AllSound(laid)
  <2>1. Fits(r, x.request, stored)
    BY PlacedFits DEF Rebuilds, Placed
  <2> QED
    BY <2>1, LaidOver
<1> HIDE DEF laid
<1>3. Exact(rebuilt, laid, s)
  BY <1>1, <1>2, RebuildExact
<1> HIDE DEF rebuilt
<1>4. Covered(laid, s)
  BY <1>1, <1>2, <1>3, ExactCovers
<1> QED
  BY <1>1, <1>4 DEF Sheltered, laid

LEMMA CoveredRows ==
    ASSUME NEW stored, AllSound(stored)
    PROVE  NeverNegative(stored) <=> \A s \in Assets : Covered(stored, s)
<1>1. IsRows(stored)
  BY DEF AllSound
<1> QED
  BY <1>1, NeverNegativeRows DEF Covered

LEMMA SafeInit == Basis /\ Init => Safe
<1> SUFFICES ASSUME Init, FeeFree PROVE Safe
  BY DEF Safe
<1>1. /\ AllSound(rows) /\ session = [r \in Sessions |-> Idle]
      /\ \A s \in Assets : /\ Exact(Rebuild(rows, Prices, s), rows, s)
                           /\ ~Rebuild(rows, Prices, s).short
  BY InitEffect
<1>2. ASSUME NEW s \in Assets
      PROVE  Covered(rows, s)
  <2> DEFINE rebuilt == Rebuild(rows, Prices, s)
  <2>1. Exact(rebuilt, rows, s) /\ ~rebuilt.short
    BY <1>1
  <2> HIDE DEF rebuilt
  <2> QED
    BY <1>1, <2>1, ExactCovers
<1>3. NeverNegative(rows)
  BY <1>1, <1>2, CoveredRows
<1>4. \A r \in Sessions : Sheltered(r, session[r], rows)
  BY <1>1 DEF Sheltered, Rebuilt, Idle, Working
<1> QED
  BY <1>3, <1>4 DEF Safe

(* Two requests that have met nobody else rebuild no asset both, unless    *)
(* nobody has anything of it: the second would have waited for the first.  *)
LEMMA OneRebuilds ==
    ASSUME Basis, Kept, Together, Clean, Safe, FeeFree, InPairs, NEW r \in Sessions, NEW q \in Sessions, q # r,
           Underway(session[r]), Underway(session[q]), NEW s \in Assets,
           s \in Rebuilt(session[r], rows), s \in Rebuilt(session[q], rows)
    PROVE  Relevant(rows, s) = {}
<1>1. ASSUME NEW p \in Sessions, NEW o \in Sessions, p # o, Underway(session[p]), Underway(session[o])
      PROVE  Quiet(session[p], session)
  <2> DEFINE met == session[p].met
  <2>1. o \in met /\ met \subseteq Sessions /\ Cardinality(met) <= 1
    BY <1>1 DEF Together, InPairs, Underway, Basis, Placed, SessionRow
  <2> HIDE DEF met
  <2>2. IsFiniteSet(met) /\ IsFiniteSet(met \ {o})
    BY <2>1, FS_Subset, LedgerDBAssumption
  <2>3. Cardinality(met \ {o}) = Cardinality(met) - 1 /\ Cardinality(met) \in Nat
        /\ Cardinality(met \ {o}) \in Nat
    BY <2>1, <2>2, FS_RemoveElement, FS_CardinalityType
  <2>4. Cardinality(met \ {o}) = 0
    BY <2>1, <2>3
  <2>5. met = {o}
    BY <2>1, <2>2, <2>4, FS_EmptySet
  <2> QED
    BY <1>1, <2>5 DEF Quiet, Underway, met
<1>2. Quiet(session[r], session) /\ Quiet(session[q], session)
  BY <1>1
<1>3. \A b \in batches : b.asset = s => b \in session[r].gone /\ b \in session[q].gone
  BY <1>2 DEF Clean, Swept
<1>4. \A b \in batches : b.asset # s
  BY <1>3 DEF Basis, Apart
<1>5. \A i \in Relevant(rows, s) : \A l \in LegsIn(rows[i], s) : ~(rows[i].legs[l].quantity > 0)
  BY <1>4 DEF Kept, AllKept, HasLotIn
<1>6. AllSound(rows) /\ Covered(rows, s)
  BY CoveredRows DEF Basis, Safe
<1> QED
  BY <1>5, <1>6, NothingReceived

LEMMA SafeCommit ==
    ASSUME Basis, Kept, Together, Clean, Safe, FeeFree, InPairs, NEW r \in Sessions, Commit(r)
    PROVE  /\ NeverNegative(rows')
           /\ \A q \in Sessions \ {r} : Sheltered(q, session[q], rows')
<1> DEFINE x == session[r]
           legs == LegsOf(x.request, rows)
           later == rows'
<1>1. /\ Fits(r, x.request, rows) /\ Over(later, rows, r, x.request) /\ AllSound(later)
      /\ later = Laid(r, x.request, rows) /\ x.pc = "commit" /\ x.todo = {} /\ Underway(x)
  BY CommitEffect
<1>2. AllSound(rows) /\ NeverNegative(rows) /\ Sheltered(r, x, rows)
  BY DEF Basis, Safe
<1>3. Rebuilt(x, rows) = AssetsOf(legs)
  BY <1>1 DEF Rebuilt, Working, Current, Scanning
<1> HIDE DEF later
<1>4. ASSUME NEW s \in Assets
      PROVE  Covered(later, s)
  <2>1. CASE s \in AssetsOf(legs)
    BY <1>1, <1>2, <1>3, <2>1 DEF Sheltered
  <2>2. CASE s \notin AssetsOf(legs)
    <3>1. /\ Relevant(later, s) = Relevant(rows, s)
          /\ \A i \in Relevant(rows, s) : later[i] = rows[i]
      BY <1>1, <2>2, OverRows
    <3>2. Covered(rows, s)
      BY <1>2, CoveredRows
    <3> QED
      BY <3>1, <3>2, CoveredDepends
  <2> QED
    BY <2>1, <2>2
<1>5. NeverNegative(later)
  BY <1>1, <1>4, CoveredRows
<1>6. ASSUME NEW q \in Sessions \ {r}
      PROVE  Sheltered(q, session[q], later)
  <2> DEFINE z == session[q]
  <2>1. /\ Placed(q, z, rows, batches) /\ Sheltered(q, z, rows)
    BY DEF Basis, Safe
  <2>2. CASE z.pc \notin Working
    BY <2>2 DEF Sheltered, Rebuilt
  <2>3. CASE z.pc \in Working
    <3>1. Underway(z) /\ z.pc # "read"
      BY <2>3 DEF Underway, Working
    <3>2. Asked(q, z, later)
      BY <1>1, <2>1 DEF Placed, Asked, Over
    <3>3. Fits(q, z.request, rows) /\ Fits(q, z.request, later)
      BY <1>1, <1>2, <2>1, <3>1, <3>2, PlacedFits DEF Placed
    <3>4. /\ Rebuilt(z, later) = Rebuilt(z, rows)
          /\ LegsOf(z.request, rows) = LegsOf(z.request, later)
      BY <1>1, <2>1, <3>1, LegsKept
    <3>5. Rebuilt(z, rows) \subseteq Assets
      BY <1>2, <2>1, <3>1, LegsTyped DEF Placed, Rebuilt
    <3>6. ASSUME NEW s \in Rebuilt(z, rows)
          PROVE  Covered(Laid(q, z.request, later), s)
      <4>1. Covered(Laid(q, z.request, rows), s)
        BY <2>1 DEF Sheltered
      <4>2. CASE s \notin AssetsOf(legs)
        BY <1>1, <3>3, <4>1, <4>2, LaterSame
      <4>3. CASE s \in AssetsOf(legs)
        <5>1. Relevant(rows, s) = {}
          BY <1>1, <1>3, <3>1, <3>5, <4>3, OneRebuilds
        <5>2. Covered(later, s)
          BY <1>4, <3>5
        <5> QED
          BY <1>1, <3>3, <4>1, <5>1, <5>2, LaterCredits
      <4> QED
        BY <4>2, <4>3
    <3> QED
      BY <3>4, <3>6 DEF Sheltered
  <2> QED
    BY <2>2, <2>3
<1> QED
  BY <1>5, <1>6 DEF later

LEMMA SafeStep == Basis /\ Kept /\ Together /\ Clean /\ Safe /\ [Next]_vars => Safe'
<1> SUFFICES ASSUME Basis, Kept, Together, Clean, Safe, [Next]_vars, FeeFree, InPairs' PROVE Safe'
  BY DEF Safe
<1>1. /\ InPairs /\ AllSound(rows) /\ NeverNegative(rows)
      /\ \A q \in Sessions : Sheltered(q, session[q], rows)
  BY MetGrows DEF Safe, Basis
<1>2. ASSUME NEW r \in Sessions, NEW y, UNCHANGED rows, session' = [session EXCEPT ![r] = y],
             Sheltered(r, y, rows)
      PROVE  Safe'
  <2>1. session'[r] = y /\ \A q \in Sessions \ {r} : session'[q] = session[q]
    BY <1>2 DEF Basis
  <2>2. \A q \in Sessions : Sheltered(q, session'[q], rows)
    BY <1>1, <1>2, <2>1
  <2> QED
    BY <1>1, <1>2, <2>2 DEF Safe
<1>3. ASSUME NEW r \in Sessions, NEW why \in Answers
      PROVE  \A stored : Sheltered(r, Ended(r, why), stored)
  BY EndedRow, RebuiltOfEnded, ShelteredOfNone
<1>4. CASE UNCHANGED vars
  BY <1>1, <1>4 DEF Safe, vars
<1>5. ASSUME NEW r \in Sessions, NEW request \in Requests, Begin(r, request)
      PROVE  Safe'
  <2>1. /\ UNCHANGED <<rows, batches>> /\ BegunAs(r, request, session'[r])
        /\ \A q \in Sessions \ {r} : \/ session'[q] = [session[q] EXCEPT !.met = @ \cup {r}]
                                     \/ session'[q] = session[q]
    BY <1>5, BeginEffect
  <2>2. Sheltered(r, session'[r], rows)
    <3>1. session'[r].pc \in {"read", "write"}
      BY <2>1, BegunRow
    <3> QED
      BY <3>1 DEF Sheltered, Rebuilt, Working
  <2>3. ASSUME NEW q \in Sessions \ {r}
        PROVE  Sheltered(q, session'[q], rows)
    <3>1. Placed(q, session[q], rows, batches) /\ Sheltered(q, session[q], rows)
      BY <1>1 DEF Basis
    <3>2. CASE session'[q] = [session[q] EXCEPT !.met = @ \cup {r}]
      <4>1. /\ session'[q].request = session[q].request
            /\ Rebuilt(session'[q], rows) = Rebuilt(session[q], rows)
        BY <3>1, <3>2, MetPlaced
      <4> QED
        BY <3>1, <4>1 DEF Sheltered
    <3> QED
      BY <2>1, <3>1, <3>2
  <2>4. \A q \in Sessions : Sheltered(q, session'[q], rows)
    BY <2>2, <2>3
  <2> QED
    BY <1>1, <2>1, <2>4 DEF Safe
<1>6. ASSUME NEW r \in Sessions, Fails(r)
      PROVE  Safe'
  BY <1>2, <1>3, <1>6 DEF Fails, Abort
<1>7. ASSUME NEW r \in Sessions, GoesOn(r)
      PROVE  Safe'
  <2>1. PICK y : Advance(r, y) /\ Onward(r, session[r], y, rows, batches)
    BY <1>7 DEF GoesOn
  <2>2. Sheltered(r, y, rows)
    BY <1>1, <2>1 DEF Onward, Sheltered
  <2> QED
    BY <1>2, <2>1, <2>2 DEF Advance
<1>8. ASSUME NEW r \in Sessions, RebuildsOne(r)
      PROVE  Safe'
  <2>1. PICK y, s : Advance(r, y) /\ Rebuilds(r, session[r], y, s, rows, batches)
    BY <1>8 DEF RebuildsOne
  <2>2. Placed(r, session[r], rows, batches)
    BY DEF Basis
  <2>3. Sheltered(r, y, rows)
    BY <1>1, <2>1, <2>2, ShelteredRebuilds
  <2> QED
    BY <1>2, <2>1, <2>3 DEF Advance
<1>9. ASSUME NEW r \in Sessions, Commit(r)
      PROVE  Safe'
  <2>1. NeverNegative(rows') /\ \A q \in Sessions \ {r} : Sheltered(q, session[q], rows')
    BY <1>1, <1>9, SafeCommit
  <2>2. session'[r] = Ended(r, "ok") /\ \A q \in Sessions \ {r} : session'[q] = session[q]
    BY <1>9, CommitEffect
  <2>3. Sheltered(r, Ended(r, "ok"), rows')
    BY <1>3 DEF Answers
  <2>4. \A q \in Sessions : Sheltered(q, session'[q], rows')
    BY <2>1, <2>2, <2>3
  <2> QED
    BY <2>1, <2>4 DEF Safe
<1> QED
  BY <1>4, <1>5, <1>6, <1>7, <1>8, <1>9, NextCases

(* Requests that overlap two by two never overdraw an account              *)
(* (PairsNeverOverdraw of LedgerDB), where all that is sent arrives: of    *)
(* two requests that touch an asset the later has waited for the lots the  *)
(* earlier deleted, or there are none and nobody can send any.             *)
THEOREM LedgerDBPairsNeverOverdraw ==
    ASSUME FeeFree
    PROVE  Spec => []PairsNeverOverdraw
<1>1. Safe => PairsNeverOverdraw
  BY DEF Safe, InPairs, PairsNeverOverdraw, NeverOverdrawn
<1>2. Init => Basis /\ Kept /\ Together /\ Clean /\ Safe
  <2>1. Init => Together /\ Clean
    BY DEF Init, Idle, Together, Clean, Underway
  <2> QED
    BY <2>1, BasisInit, KeptInit, SafeInit
<1>3. (Basis /\ Kept /\ Together /\ Clean /\ Safe) /\ [Next]_vars
         => (Basis /\ Kept /\ Together /\ Clean /\ Safe)'
  BY BasisStep, KeptStep, TogetherStep, CleanStep, SafeStep
<1> QED
  BY <1>1, <1>2, <1>3, PTL DEF Spec
=============================================================================
