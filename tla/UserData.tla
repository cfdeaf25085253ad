------------------------------ MODULE UserData ------------------------------
(***************************************************************************)
(* Concurrent requests on what users keep besides the ledger: the users    *)
(* themselves, accounts, assets, goals, assumptions, inflation rates       *)
(* (src/app/services/auth_service.py, account_service.py,                  *)
(* asset_service.py, goals.py, assumptions.py).                            *)
(*                                                                         *)
(* All of them are one pattern: find a row, insert one or set attributes   *)
(* of the one that was found, commit.  The session writes those columns    *)
(* only that differ from what it has read.  Statements interleave at READ  *)
(* COMMITTED; an INSERT waits for a peer that has the same unique key in   *)
(* flight, an UPDATE for a peer that has changed the row.                  *)
(*                                                                         *)
(* A row is created under the number of its request.  The columns of a     *)
(* table and their values are abstract.                                    *)
(***************************************************************************)
EXTENDS Inflation

CONSTANTS
    None,      \* what is absent
    Stored,    \* the rows there are before the requests begin, by id
    Sessions,  \* bound: the numbers of the requests
    Requests   \* what may be asked for

Tables == {"user", "assumptions", "inflation_rate", "account", "asset", "goal"}
(* The tables that a unique key keeps to one row for each key.             *)
KeyedTables == {"user", "assumptions", "inflation_rate"}

SameUniqueKey(row, other) ==
    /\ row.table \in KeyedTables
    /\ other.table = row.table /\ other.key = row.key

ASSUME UserDataAssumption ==
    /\ None \notin Sessions \cup DOMAIN Stored /\ None # "ok"
    /\ Sessions \cap DOMAIN Stored = {}
    /\ \A i \in DOMAIN Stored :
           /\ Stored[i] = [table |-> Stored[i].table, owner |-> Stored[i].owner,
                           deleted |-> Stored[i].deleted, key |-> Stored[i].key,
                           columns |-> Stored[i].columns]
           /\ Stored[i].table \in Tables
           /\ \A j \in DOMAIN Stored : SameUniqueKey(Stored[i], Stored[j]) => i = j
    /\ \A request \in Requests :
           /\ request.table \in Tables
           /\ request.op \in {"register", "upsert", "create", "change"}
           /\ request.op = "register" => request.table = "user"
           \* A row has every column of its table.
           /\ \A i \in DOMAIN Stored : Stored[i].table = request.table =>
                  DOMAIN request.set \subseteq DOMAIN Stored[i].columns
           /\ \A other \in Requests : other.table = request.table /\ other.op # "change" =>
                  DOMAIN request.set \subseteq DOMAIN other.set
    \* A rate is a number, and its key names a user and a period.
    /\ \A row \in {Stored[i] : i \in DOMAIN Stored} : row.table = "inflation_rate" =>
           row.key[2] \in Period /\ "rate" \in DOMAIN row.columns /\ row.columns["rate"] \in Int
    /\ \A request \in Requests : request.table = "inflation_rate" =>
           request.key[2] \in Period /\ "rate" \in DOMAIN request.set /\ request.set["rate"] \in Int

VARIABLES
    rows,      \* the committed rows, by id
    audit,     \* the committed audit entries about goals
    session    \* the requests, with what each has read and flushed

vars == <<rows, audit, session>>

-----------------------------------------------------------------------------
Idle == [pc |-> "idle", request |-> None, found |-> None, dirty |-> {},
         answer |-> None, met |-> {}]

Init ==
    /\ rows = Stored
    /\ audit = <<>>
    /\ session = [r \in Sessions |-> Idle]

Begun(r) == session[r].pc # "idle"
Live(r) == session[r].pc \notin {"idle", "done"}
Peers(r) == {q \in Sessions \ {r} : Live(q)}
Flushed(r) == session[r].pc = "commit"

RowsByKey(request) ==
    {i \in DOMAIN rows : rows[i].table = request.table /\ rows[i].key = request.key}

(* Fault: a row of anybody is found.                                       *)
AnyRowById(request) ==
    {i \in {request.target} \cap DOMAIN rows : rows[i].table = request.table}

(* get_account, get_own_asset, _get_goal: a row of one's own that is not   *)
(* deleted.                                                                *)
OwnRowById(request) ==
    {i \in {request.target} \cap DOMAIN rows :
        rows[i].table = request.table /\ rows[i].owner = request.user /\ ~rows[i].deleted}

(* What the SELECT of a request finds; a create looks for nothing.         *)
Sought(request) ==
    CASE request.op \in {"register", "upsert"} -> RowsByKey(request)
      [] request.op = "change"                 -> OwnRowById(request)
      [] request.op = "create"                 -> {}

(* Fault: nothing counts as changed.                                       *)
NothingDiffers(set, row) == {}

(* The columns that are set to something else than what was read.          *)
Differing(set, row) == {c \in DOMAIN set : set[c] # row.columns[c]}

(* The row a request leaves behind.  A change to a column that was read as *)
(* it is to be is not written.  Closing an account sets its deleted_at.    *)
Inserts(r) == session[r].found = None
Target(r) == IF Inserts(r) THEN r ELSE session[r].found

NewRow(r) ==
    LET request == session[r].request
    IN  [table |-> request.table, owner |-> request.user, deleted |-> FALSE,
         key |-> IF request.table \in KeyedTables THEN request.key ELSE None,
         columns |-> request.set]

ChangedRow(r) ==
    LET row == rows[session[r].found]
    IN  [row EXCEPT !.deleted = @ \/ session[r].request.closes,
                    !.columns = [c \in DOMAIN @ |-> IF c \in session[r].dirty
                                                    THEN session[r].request.set[c] ELSE @[c]]]

-----------------------------------------------------------------------------
(* An INSERT of a key waits for a peer that has inserted it; an UPDATE for *)
(* a peer that has updated the row.  What is not changed is not updated.   *)
Updates(r) == ~Inserts(r) /\ (session[r].dirty # {} \/ session[r].request.closes)

SameKey(r, q) ==
    /\ session[r].request.table \in KeyedTables
    /\ session[q].request.table = session[r].request.table
    /\ session[q].request.key = session[r].request.key

Contends(r, q) ==
    \/ Inserts(r) /\ Inserts(q) /\ SameKey(r, q)
    \/ Updates(r) /\ Updates(q) /\ session[q].found = session[r].found

(* Fault: a peer holds its lock since it has read.                         *)
AwaitedSinceRead(r) ==
    {q \in Peers(r) : session[r].pc = "write" /\ session[q].pc # "find" /\ Contends(r, q)}

Awaited(r) == {q \in Peers(r) : session[r].pc = "write" /\ Flushed(q) /\ Contends(r, q)}

(* Fault: the table has no unique key.                                     *)
KeyFree(r) == FALSE

KeyTaken(r) ==
    /\ session[r].request.table \in KeyedTables
    /\ \E i \in DOMAIN rows : /\ rows[i].table = session[r].request.table
                              /\ rows[i].key = session[r].request.key

Advance(r, new) ==
    /\ session' = [session EXCEPT ![r] = new]
    /\ UNCHANGED <<rows, audit>>

Ended(r, answer) == [Idle EXCEPT !.pc = "done", !.request = session[r].request,
                                 !.answer = answer, !.met = session[r].met]

Abort(r, why) == Advance(r, Ended(r, why))

(* "met" is a history variable: the requests this one has overlapped.      *)
Begin(r, request) ==
    /\ ~Begun(r)
    /\ \A q \in Sessions : q < r => Begun(q)
    /\ session' = [q \in Sessions |->
          IF q = r THEN [Idle EXCEPT !.pc = "find", !.request = request, !.met = Peers(r)]
          ELSE IF Live(q) THEN [session[q] EXCEPT !.met = @ \cup {r}] ELSE session[q]]
    /\ UNCHANGED <<rows, audit>>

(* The SELECT and what is decided on it.                                   *)
Find(r) ==
    LET request == session[r].request
        sought  == Sought(request)
    IN  /\ session[r].pc = "find"
        /\ \/ /\ request.op = "register" /\ sought # {}
              /\ Abort(r, "conflict")
           \/ /\ request.op = "change" /\ sought = {}
              /\ Abort(r, "not_found")
           \/ /\ request.op # "change" /\ sought = {}
              /\ Advance(r, [session[r] EXCEPT !.pc = "write"])
           \/ /\ request.op \in {"upsert", "change"}
              /\ \E i \in sought :
                    Advance(r, [session[r] EXCEPT !.pc = "write", !.found = i,
                                                  !.dirty = Differing(request.set, rows[i])])

(* The flush.  A key that a peer has committed meanwhile is a unique       *)
(* violation, which no handler catches.                                    *)
Write(r) ==
    /\ session[r].pc = "write"
    /\ Awaited(r) = {}
    /\ \/ /\ Inserts(r) /\ KeyTaken(r)
          /\ Abort(r, "error")
       \/ /\ ~(Inserts(r) /\ KeyTaken(r))
          /\ Advance(r, [session[r] EXCEPT !.pc = "commit"])

(* What record_audit is told of a goal: two columns of a new one, all that *)
(* was asked for, changed or not, of another.                              *)
Diff(request) ==
    IF request.op # "create" THEN request.set
    ELSE [c \in {"type", "title"} \cap DOMAIN request.set |-> request.set[c]]

(* The columns that were flushed, and record_audit where it is called.     *)
Commit(r) ==
    /\ session[r].pc = "commit"
    /\ rows' = [i \in DOMAIN rows \cup {Target(r)} |->
                   IF i # Target(r) THEN rows[i]
                   ELSE IF Inserts(r) THEN NewRow(r) ELSE ChangedRow(r)]
    /\ audit' = IF session[r].request.table # "goal" THEN audit
                ELSE Append(audit, [entity |-> Target(r), by |-> r, diff |-> Diff(session[r].request)])
    /\ session' = [session EXCEPT ![r] = Ended(r, "ok")]

(* The worker or its connection is lost before the commit.                 *)
Crash(r) == Live(r) /\ Abort(r, "error")

Step(r) == Find(r) \/ Write(r) \/ Commit(r)

Next == \E r \in Sessions :
    \/ \E request \in Requests : Begin(r, request)
    \/ Step(r)
    \/ Crash(r)

(* A request that has begun is served: its worker keeps running.           *)
Spec == Init /\ [][Next]_vars
FairSpec == Spec /\ \A r \in Sessions : WF_vars(Step(r))

(* Tables, entries and sessions are well formed; a request works on a row  *)
(* of its table only, and changes one of its own user only.                *)
TypeOK ==
    /\ \A i \in DOMAIN rows : rows[i].table \in Tables
    /\ \A k \in DOMAIN audit : audit[k].entity \in DOMAIN rows /\ rows[audit[k].entity].table = "goal"
    /\ \A r \in Sessions :
        /\ session[r].pc \in {"idle", "find", "write", "commit", "done"}
        /\ session[r].pc \in {"write", "commit"} /\ ~Inserts(r) =>
               /\ session[r].found \in DOMAIN rows
               /\ rows[session[r].found].table = session[r].request.table
               /\ session[r].request.op = "change" =>
                      rows[session[r].found].owner = session[r].request.user

-----------------------------------------------------------------------------
(* No two rows have the same unique key, and everybody who was told that   *)
(* an address is now theirs has the row to it: of two registrations or     *)
(* upserts that both find nothing, one is told so (auth_service.py:10-23,  *)
(* assumptions.py:31-34, 58-71).                                           *)
OneRowPerKey ==
    /\ \A i, j \in DOMAIN rows : SameUniqueKey(rows[i], rows[j]) => i = j
    /\ \A r \in Sessions :
           session[r].answer = "ok" /\ session[r].request.op = "register" =>
               r \in DOMAIN rows /\ rows[r].key = session[r].request.key

Latest(column, entries) ==
    audit[Max({k \in entries : column \in DOMAIN audit[k].diff})].diff[column]

(* The audit log tells how a goal came to be what it is: its diffs, laid   *)
(* over each other, are the goal, as long as no two requests on the goal   *)
(* overlapped (goals.py:57-100).                                           *)
AuditExplains ==
    \A g \in {audit[k].entity : k \in DOMAIN audit} :
        LET entries == {k \in DOMAIN audit : audit[k].entity = g}
            authors == {audit[k].by : k \in entries}
        IN  (\A q, r \in authors : q \notin session[r].met) =>
                \A k \in entries : \A c \in DOMAIN audit[k].diff :
                    rows[g].columns[c] = Latest(c, entries)

RatesOf(user) ==
    LET stored == {i \in DOMAIN rows : rows[i].table = "inflation_rate" /\ rows[i].owner = user}
    IN  [period \in {rows[i].key[2] : i \in stored} |->
            rows[CHOOSE i \in stored : rows[i].key[2] = period].columns["rate"]]

Product(w) == FoldFunction( *, 1, w)

(* Some day of the month p is in the window.                               *)
Meets(p, from, to) ==
    \E day \in 1..31 : ~Precedes(<<p[1], p[2], day>>, from) /\ ~Precedes(to, <<p[1], p[2], day>>)

(* Whatever is stored when, each month that a window meets counts once, at *)
(* its rate, and a month without one not at all, also across the turn of a *)
(* year and when the window ends before it begins (inflation.py:16-44).    *)
InflationCountsEachMonth ==
    \A user \in {rows[i].owner : i \in DOMAIN rows} :
        LET rates == RatesOf(user)
            months == DOMAIN rates \cup {Following(p) : p \in DOMAIN rates}
        IN  \A from, to \in {<<p[1], p[2], day>> : p \in months, day \in {1, 28}} :
                LET recorded == {p \in DOMAIN rates : Meets(p, from, to)}
                    factor   == CumulativeInflation(rates, from, to)
                IN  factor[1] * Product([p \in recorded |-> RateUnit])
                        = factor[2] * Product([p \in recorded |-> RateUnit + rates[p]])

(* Every request that begins is answered.                                  *)
EveryRequestAnswered == \A r \in Sessions : Begun(r) ~> session[r].pc = "done"
=============================================================================
