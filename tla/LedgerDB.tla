------------------------------ MODULE LedgerDB ------------------------------
(***************************************************************************)
(* Concurrent requests of one user on the ledger: every request is one     *)
(* database transaction (src/app/core/db.py), and its statements, in the   *)
(* order ledger.py and lots.py issue them, interleave with those of the    *)
(* others at PostgreSQL's READ COMMITTED, the level the engine is left at. *)
(*                                                                         *)
(* - A statement sees the rows committed when it starts and those of its   *)
(*   own request; no service takes a lock, so a peer's open work is unseen.*)
(* - UPDATE and DELETE wait for a row that an unfinished peer has changed. *)
(*   When the peer commits, a deleted row is skipped; rows that committed  *)
(*   after the statement started are not met.                              *)
(* - A cycle of waits costs one of the requests its life (HTTP 500).       *)
(*                                                                         *)
(* The lots one rebuild inserts become visible together and are deleted    *)
(* together: such a batch is the unit of locking here, met by every scan   *)
(* in one order.  Requests are numbered in the order they begin, which is  *)
(* the order of created_at, and a request's number is the id of its row.   *)
(***************************************************************************)
EXTENDS Transactions, SequencesExt

CONSTANTS
    Opening,   \* the sequence of rows committed before the requests begin
    Prices,    \* per asset, the price rows
    Sessions,  \* bound: the numbers of the requests, following the opening rows
    Requests   \* what a request may ask for

-----------------------------------------------------------------------------
(* What _build_specs lets through: one leg, signed as its type says, or    *)
(* the two legs of a trade or of a transfer with what it leaves as a fee.  *)
Accepted(type, legs) ==
    \/ /\ type \in SingleLegTypes /\ Len(legs) = 1
       /\ \E amount \in {legs[1].quantity, -legs[1].quantity} :
            amount > 0 /\ legs[1].quantity = SignedAmount(type, amount)
    \/ /\ type \in MultiLegTypes /\ Len(legs) = 2
       /\ \E fee \in {0, -(legs[1].quantity + legs[2].quantity)} :
            fee >= 0 /\ WellFormed(type, legs, fee)

(* The opening rows were committed by requests, with lots for every        *)
(* outflow, and what a new request may ask for is well formed.             *)
ASSUME LedgerDBAssumption ==
    /\ Opening \in Seq(Transaction)
    /\ \A i \in DOMAIN Opening :
         Counts(Opening[i]) => Accepted(Opening[i].type, Opening[i].legs)
    /\ Prices \in [Assets -> SUBSET [as_of : Days, price : Nat]]
    /\ \A s \in Assets : ~Rebuild(Opening, Prices, s).short
    /\ IsFiniteSet(Sessions) /\ Sessions \subseteq Nat
    /\ \A r \in Sessions : r > Len(Opening)
    /\ \A request \in Requests :
         \/ /\ request.op = "create"
            /\ Row(request.type, request.day, request.legs) \in Transaction
            /\ Accepted(request.type, request.legs)
         \/ request.op \in {"reverse", "delete"}

VARIABLES
    rows,      \* the committed transaction rows, by id
    batches,   \* the committed lots and consumptions, by the rebuild that wrote them
    audit,     \* the committed audit entries
    session    \* the requests, with what each has done and not committed

vars == <<rows, batches, audit, session>>

-----------------------------------------------------------------------------
Batch(r, s, rebuilt) ==
    [by |-> r, asset |-> s, lots |-> rebuilt.lots, consumptions |-> rebuilt.consumptions]

BatchesOf(s) == {b \in batches : b.asset = s}

Idle == [pc |-> "idle", request |-> None, todo |-> {}, asset |-> None, targets |-> {},
         cleared |-> {}, gone |-> {}, fresh |-> {}, answer |-> None, met |-> {}]

Init ==
    /\ rows = [i \in DOMAIN Opening |-> Opening[i]]
    /\ batches = {b \in {Batch(0, s, Rebuild(Opening, Prices, s)) : s \in Assets} :
                      b.lots # <<>>}
    /\ audit = <<>>
    /\ session = [r \in Sessions |-> Idle]

Begun(r) == session[r].pc # "idle"
Live(r) == session[r].pc \notin {"idle", "done"}
Flushed(r) == session[r].pc \in {"check", "rebuild", "consumptions", "lots", "replay", "commit"}
Peers(r) == {q \in Sessions \ {r} : Live(q)}

(* A table with a row inserted into it.                                    *)
Inserted(stored, id, row) ==
    [i \in DOMAIN stored \cup {id} |-> IF i = id THEN row ELSE stored[i]]

(* What the request has flushed, laid over committed rows.                 *)
Written(r, stored) ==
    LET req == session[r].request
    IN  CASE req.op = "create"  -> Inserted(stored, r, Row(req.type, req.day, req.legs))
          [] req.op = "reverse" -> Inserted([stored EXCEPT ![req.target].status = "reversed"],
                                            r, Reversal(stored[req.target], req.target))
          [] req.op = "delete"  -> [stored EXCEPT ![req.target].deleted = TRUE]

(* Fault: the reads of a request do not see what it has not flushed.       *)
Unflushed(r) == rows

View(r) == Written(r, rows)

Legs(r) == IF session[r].request.op = "create" THEN session[r].request.legs
           ELSE rows[session[r].request.target].legs

Entity(r) == IF session[r].request.op = "create" THEN r ELSE session[r].request.target

-----------------------------------------------------------------------------
(* Locks.  The batch a scan meets next, the batches whose lots the request *)
(* deletes under consumptions it has not seen, and whom it waits for.      *)
NextTarget(r) ==
    CHOOSE b \in session[r].targets : \A c \in session[r].targets : b.by <= c.by

Dangling(r) == {b \in session[r].gone \ session[r].cleared :
                   b.asset = session[r].asset /\ b.consumptions # <<>>}

(* Fault: a row that a peer is deleting is skipped.                        *)
NobodyAwaited(r) == {}

Awaited(r) ==
    {q \in Peers(r) :
        \/ /\ session[r].pc = "write" /\ session[r].request.op # "create"
           /\ Flushed(q) /\ session[q].request.op # "create"
           /\ session[q].request.target = session[r].request.target
        \/ /\ session[r].pc = "consumptions" /\ session[r].targets # {}
           /\ NextTarget(r) \in session[q].cleared
        \/ /\ session[r].pc = "lots" /\ session[r].targets # {}
           /\ NextTarget(r) \in session[q].gone
        \/ /\ session[r].pc = "lots" /\ session[r].targets = {}
           /\ Dangling(r) \cap session[q].cleared # {}}

(* Fault: no wait is ever broken.                                          *)
NeverDetected(r) == FALSE

(* The request is on a cycle: each of the requests there waits for one of  *)
(* them and is waited for by one.                                          *)
Deadlocked(r) ==
    \E cycle \in SUBSET Sessions :
        /\ r \in cycle
        /\ \A x \in cycle : (\E y \in cycle : y \in Awaited(x)) /\ (\E y \in cycle : x \in Awaited(y))

-----------------------------------------------------------------------------
Ended(r, answer) == [Idle EXCEPT !.pc = "done", !.answer = answer, !.met = session[r].met]

(* The request ends without a commit; its locks and its writes are gone.   *)
Abort(r, why) ==
    /\ session' = [session EXCEPT ![r] = Ended(r, why)]
    /\ UNCHANGED <<rows, batches, audit>>

Advance(r, new) ==
    /\ session' = [session EXCEPT ![r] = new]
    /\ UNCHANGED <<rows, batches, audit>>

(* The request is authenticated, which starts its transaction.  "met" is a *)
(* history variable: the requests it has overlapped.                       *)
Begin(r, request) ==
    /\ ~Begun(r)
    /\ \A q \in Sessions : q < r => Begun(q)
    /\ session' = [q \in Sessions |->
          IF q = r THEN [Idle EXCEPT !.pc = IF request.op = "create" THEN "write" ELSE "read",
                                     !.request = request,
                                     !.met = Peers(r)]
          ELSE IF Live(q) THEN [session[q] EXCEPT !.met = @ \cup {r}] ELSE session[q]]
    /\ UNCHANGED <<rows, batches, audit>>

(* get_transaction, and the status check of reverse_transaction.           *)
ReadTarget(r) ==
    LET target == session[r].request.target
        Visible == target \in DOMAIN rows /\ ~rows[target].deleted
        Reversible == session[r].request.op = "reverse" => rows[target].status = "active"
    IN  /\ session[r].pc = "read"
        /\ \/ ~Visible /\ Abort(r, "not_found")
           \/ Visible /\ ~Reversible /\ Abort(r, "not_active")
           \/ Visible /\ Reversible /\ Advance(r, [session[r] EXCEPT !.pc = "write"])

(* The flush: INSERT of the row with its legs, UPDATE of the target.       *)
Write(r) ==
    /\ session[r].pc = "write"
    /\ Awaited(r) = {}
    /\ Advance(r, [session[r] EXCEPT !.pc = "check"])

(* _assert_non_negative.                                                   *)
Check(r) ==
    LET Negative == \E pair \in PairsOf(Legs(r)) : Owed(View(r), pair)
    IN  /\ session[r].pc = "check"
        /\ \/ Negative /\ Abort(r, "insufficient_balance")
           \/ /\ ~Negative
              /\ Advance(r, [session[r] EXCEPT !.pc = "rebuild", !.todo = AssetsOf(Legs(r))])

(* rebuild_for_assets takes the assets in the order of a Python set; the   *)
(* rebuild of an asset starts with DELETE FROM lot_consumption.            *)
StartRebuild(r) ==
    /\ session[r].pc = "rebuild"
    /\ \E s \in session[r].todo :
         Advance(r, [session[r] EXCEPT
                        !.pc = "consumptions", !.asset = s, !.todo = @ \ {s},
                        !.targets = {b \in BatchesOf(s) : b.consumptions # <<>>}])

(* Each batch that is still there is locked and deleted; a peer that has   *)
(* it is waited for.                                                       *)
DeleteConsumptions(r) ==
    LET b == NextTarget(r)
    IN  /\ session[r].pc = "consumptions" /\ session[r].targets # {}
        /\ Awaited(r) = {}
        /\ Advance(r, [session[r] EXCEPT !.targets = @ \ {b}, !.cleared = @ \cup ({b} \cap batches)])

(* Fault: only the lots of the last rebuild are deleted.                   *)
LatestBatch(s) == {b \in BatchesOf(s) : \A c \in BatchesOf(s) : c.by <= b.by}

StaleLots(s) == BatchesOf(s)

(* DELETE FROM lot, with a snapshot of its own.                            *)
StartDeleteLots(r) ==
    /\ session[r].pc = "consumptions" /\ session[r].targets = {}
    /\ Advance(r, [session[r] EXCEPT !.pc = "lots", !.targets = StaleLots(session[r].asset)])

DeleteLots(r) ==
    LET b == NextTarget(r)
    IN  /\ session[r].pc = "lots" /\ session[r].targets # {}
        /\ Awaited(r) = {}
        /\ Advance(r, [session[r] EXCEPT !.targets = @ \ {b}, !.gone = @ \cup ({b} \cap batches)])

(* The foreign key of lot_consumption is checked when the statement ends:  *)
(* a consumption that came between the two statements fails the request.   *)
CheckReferences(r) ==
    /\ session[r].pc = "lots" /\ session[r].targets = {}
    /\ Awaited(r) = {}
    /\ \/ Dangling(r) # {} /\ Abort(r, "error")
       \/ Dangling(r) = {} /\ Advance(r, [session[r] EXCEPT !.pc = "replay"])

(* The SELECT of the rows, the replay and the INSERTs.                     *)
Replay(r) ==
    LET s == session[r].asset
        rebuilt == Rebuild(View(r), Prices, s)
    IN  /\ session[r].pc = "replay"
        /\ \/ rebuilt.short /\ Abort(r, "insufficient_lots")
           \/ /\ ~rebuilt.short
              /\ Advance(r, [session[r] EXCEPT
                    !.pc = IF session[r].todo = {} THEN "commit" ELSE "rebuild",
                    !.asset = None,
                    !.fresh = @ \cup {b \in {Batch(r, s, rebuilt)} : b.lots # <<>>}])

(* record_audit and COMMIT.                                                *)
Commit(r) ==
    /\ session[r].pc = "commit"
    /\ rows' = Written(r, rows)
    /\ batches' = (batches \ session[r].gone) \cup session[r].fresh
    /\ audit' = Append(audit, [entity |-> Entity(r), action |-> session[r].request.op])
    /\ session' = [session EXCEPT ![r] = Ended(r, "ok")]

(* PostgreSQL's deadlock detector ends one of the requests of a cycle.     *)
DeadlockVictim(r) == Awaited(r) # {} /\ Deadlocked(r) /\ Abort(r, "error")

(* The worker or its connection is lost before the commit.                 *)
Crash(r) == Live(r) /\ Abort(r, "error")

Step(r) ==
    \/ ReadTarget(r) \/ Write(r) \/ Check(r) \/ StartRebuild(r) \/ DeleteConsumptions(r)
    \/ StartDeleteLots(r) \/ DeleteLots(r) \/ CheckReferences(r) \/ Replay(r) \/ Commit(r)

Next == \E r \in Sessions :
    \/ \E request \in Requests : Begin(r, request)
    \/ Step(r)
    \/ DeadlockVictim(r)
    \/ Crash(r)

Spec == Init /\ [][Next]_vars

(* A request that has begun is served: its worker thread keeps running and *)
(* the detector looks at every wait that lasts.  This is weak fairness of  *)
(* Step(r) \/ DeadlockVictim(r), said with the condition that enables them *)
(* because a request takes finitely many steps.                            *)
Ready(r) == Live(r) /\ (Awaited(r) = {} \/ Deadlocked(r))

FairSpec == Spec /\ \A r \in Sessions : []<>~Ready(r)

TypeOK ==
    /\ \A i \in DOMAIN rows : rows[i] \in Transaction
    /\ \A b \in batches : b.asset \in Assets /\ b.lots # <<>>
    /\ \A r \in Sessions : /\ session[r].gone \subseteq batches
                           /\ session[r].cleared \subseteq batches

-----------------------------------------------------------------------------
(* The non-negative-balance invariant (ledger.py:2) of the committed rows: *)
(* no interleaving of requests that each passed the balance check and the  *)
(* replay leaves an account owing an asset at some row.                    *)
NeverOverdrawn == NeverNegative(rows)

(* Requests that overlap two by two never overdraw: the row locks of the   *)
(* lot deletion make the later of two replays see the earlier one.  It     *)
(* takes a request that has overlapped two others.                         *)
PairsNeverOverdraw ==
    (\A r \in Sessions : Cardinality(session[r].met) <= 1) => NeverOverdrawn

(* No inflow loses its lot: whatever was deleted and inserted meanwhile,   *)
(* each committed inflow that counts has a lot in some committed batch.    *)
NoLotLost ==
    \A i \in Active(rows) : \A l \in DOMAIN rows[i].legs :
        rows[i].legs[l].quantity > 0 =>
            \E b \in BatchesOf(rows[i].legs[l].asset) :
                \E lot \in ToSet(b.lots) : lot.source_leg = <<i, l>>

(* The projection of an asset is the one the rows give (lots.py:3-6: a     *)
(* deterministic function of the active transactions), stored once.        *)
Projects(stored, s, projection) ==
    LET rebuilt == Rebuild(stored, Prices, s)
        present == {b \in projection : b.asset = s}
    IN  /\ ~rebuilt.short
        /\ Cardinality(present) <= 1
        /\ {<<b.lots, b.consumptions>> : b \in present}
               = {<<rebuilt.lots, rebuilt.consumptions>>} \ {<<<<>>, <<>>>>}

(* A request that no other overlaps commits a projection that is right for *)
(* every asset it touches, whatever overlapping requests have left there.  *)
HealedAlone ==
    \A r \in Sessions : session[r].pc = "commit" /\ session[r].met = {} =>
        \A s \in AssetsOf(Legs(r)) :
            Projects(View(r), s, (batches \ session[r].gone) \cup session[r].fresh)

(* When no request is under way the projection is right.                   *)
ProjectionAtRest ==
    (\A r \in Sessions : ~Live(r)) => \A s \in Assets : Projects(rows, s, batches)

(* "Only active transactions can be reversed" (ledger.py:306): a row has   *)
(* at most one reversal.                                                   *)
ReversedOnce ==
    \A q, r \in DOMAIN rows : rows[q].reversal_of # 0 /\ rows[q].reversal_of = rows[r].reversal_of
                                => q = r

(* Every request that begins is answered, those that wait for each other's *)
(* rows included.                                                          *)
EveryRequestAnswered == \A r \in Sessions : Begun(r) ~> session[r].pc = "done"
=============================================================================
