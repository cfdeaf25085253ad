------------------------------ MODULE Snapshots ------------------------------
(***************************************************************************)
(* The daily net-worth snapshots (src/app/services/snapshots.py): the      *)
(* rebuild requests of the users and the scheduler thread that builds the  *)
(* day of every user (src/app/jobs/snapshot_job.py), statement by          *)
(* statement at PostgreSQL's READ COMMITTED.                               *)
(*                                                                         *)
(* Building one row reads the assets, the assets by class and the debts in *)
(* three statements (net_worth.py), looks for the row of the (user, day)   *)
(* and inserts it, or updates the columns that differ from what was found, *)
(* as SQLAlchemy does.  Rows written stay locked, and unseen by others,    *)
(* until the session commits.  An INSERT waits for a peer that has         *)
(* inserted the same key, and fails when the peer commits.                 *)
(*                                                                         *)
(* The thread of the server and its requests live and die together.        *)
(***************************************************************************)
EXTENDS Integers, FiniteSets

CONSTANTS
    Users,
    Broken,            \* the users whose valuation raises (an FX rate of zero)
    LastDay,           \* bound: the days are 1..LastDay
    Rebuilds,          \* bound: the rebuild requests
    Job,               \* the session of the scheduler thread
    SchedulerEnabled,  \* settings.ENABLE_SCHEDULER
    MaxPosts,          \* bound: commits that change what a user is worth
    MaxRestarts        \* bound: restarts of the server

ASSUME SnapshotsAssumption ==
    /\ Users # {} /\ Broken \subseteq Users
    /\ LastDay \in Nat \ {0} /\ MaxPosts \in Nat /\ MaxRestarts \in Nat
    /\ Job \notin Rebuilds
    /\ SchedulerEnabled \in BOOLEAN

Days == 1..LastDay
Keys == Users \X Days
Sessions == Rebuilds \cup {Job}

VARIABLES
    worth,     \* per user and day: what a report at the end of the day reads
    chart,     \* the committed portfolio_snapshot rows
    session,   \* what each rebuild, and the thread, is doing
    clock,     \* the day, and whether its run time has passed
    target,    \* the day whose run time the thread sleeps until
    posts, restarts

vars == <<worth, chart, session, clock, target, posts, restarts>>

-----------------------------------------------------------------------------
Worth == [assets : Nat, debts : Nat]
Reading == [assets : Nat, by_class : Nat, debts : Nat]
Row == [key : Keys, assets : Nat, debts : Nat, net_worth : Int, breakdown : Reading]

Nothing == [assets |-> 0, by_class |-> 0, debts |-> 0]

(* The columns build_snapshot sets; the breakdown repeats what was read.   *)
Columns == {"assets", "debts", "net_worth", "breakdown"}

RowOf(k, reading) ==
    [key |-> k, assets |-> reading.assets, debts |-> reading.debts,
     net_worth |-> reading.assets - reading.debts, breakdown |-> reading]

KeysOf(rows) == {row.key : row \in rows}

(* The rows as they are once those written have been committed.            *)
Overlay(written, rows) == written \cup {row \in rows : row.key \notin KeysOf(written)}

(* A session: the key it builds, those it still has to build, what it has  *)
(* read of the key, the stored row it found, and the rows it wrote.        *)
Resting == [pc |-> "idle", key |-> <<>>, todo |-> {}, reading |-> Nothing,
            found |-> {}, written |-> {}, range |-> {}, alone |-> FALSE]

Building == {"assets", "by_class", "debts", "find", "store"}
Answers == {"ok", "error", "lost"}

Live(r) == session[r].pc \in Building \cup {"commit"}
Peers(r) == {q \in Sessions \ {r} : Live(q)}

(* _seconds_until_next_run: today, if its run time is still to come.       *)
NextRun == IF clock.late THEN clock.day + 1 ELSE clock.day

Init ==
    /\ worth = [u \in Users |-> [d \in Days |-> [assets |-> 0, debts |-> 0]]]
    /\ chart = {}
    /\ session = [r \in Sessions |-> Resting]
    /\ clock = [day |-> 1, late |-> FALSE]
    /\ target = 1
    /\ posts = 0 /\ restarts = 0

-----------------------------------------------------------------------------
More(w, kind) == [w EXCEPT ![kind] = w[kind] + 1]

(* A transaction, a price or a liability event dated a day changes what    *)
(* reports read at that day and at every later one.                        *)
Post(u, day, kind) ==
    /\ posts < MaxPosts
    /\ posts' = posts + 1
    /\ worth' = [worth EXCEPT ![u] = [d \in Days |->
                    IF d >= day THEN More(worth[u][d], kind) ELSE worth[u][d]]]
    /\ session' = [r \in Sessions |-> [session[r] EXCEPT !.alone = FALSE]]
    /\ UNCHANGED <<chart, clock, target, restarts>>

Unmoved == UNCHANGED <<worth, clock, posts, restarts>>

(* The days of a range are built in order, the users of a run in the order *)
(* a SELECT without ORDER BY returns them.  Fault: the days in any order.  *)
UpcomingUnordered(r, todo) == todo
Upcoming(r, todo) ==
    IF r = Job THEN todo ELSE {k \in todo : \A j \in todo : k[2] <= j[2]}

Start(r, keys) ==
    \E k \in Upcoming(r, keys) :
        session' = [q \in Sessions |->
            IF q = r THEN [Resting EXCEPT !.pc = "assets", !.key = k, !.todo = keys \ {k},
                                          !.range = keys, !.alone = Peers(r) = {}]
            ELSE [session[q] EXCEPT !.alone = FALSE]]

(* Fault: the range of a rebuild goes a day too far.                       *)
RangeBeyond(u, from, to) == {u} \X (from..(to + 1))
Range(u, from, to) == {u} \X (from..to)

(* backfill; an empty range is answered at once.                           *)
BeginRebuild(r, u, from, to) ==
    /\ session[r].pc = "idle"
    /\ \/ /\ to < from
          /\ session' = [session EXCEPT ![r].pc = "ok"]
       \/ /\ from <= to
          /\ Start(r, Range(u, from, to))
    /\ UNCHANGED <<chart, target>> /\ Unmoved

(* The thread wakes up at the run time it slept until.                     *)
Due == SchedulerEnabled /\ session[Job].pc = "idle" /\ clock.late /\ clock.day >= target

BeginRun ==
    /\ Due
    /\ Start(Job, Users \X {clock.day})
    /\ UNCHANGED <<chart, target>> /\ Unmoved

-----------------------------------------------------------------------------
(* How a session ends.  A run that raised is logged, and the loop goes on  *)
(* to sleep until the next run time; a request is answered.                *)
(* Fault: the exception ends the thread.                                   *)
EndOrDie(r, answer) ==
    /\ session' = [session EXCEPT ![r] = [Resting EXCEPT !.pc =
                      IF r = Job /\ answer = "ok" THEN "idle" ELSE answer]]
    /\ target' = IF r = Job /\ answer = "ok" THEN NextRun ELSE target
End(r, answer) ==
    /\ session' = [session EXCEPT ![r] = [Resting EXCEPT !.pc =
                      IF r = Job THEN "idle" ELSE answer]]
    /\ target' = IF r = Job THEN NextRun ELSE target

Fail(r) == End(r, "error") /\ UNCHANGED chart /\ Unmoved

Move(r, new) ==
    /\ session' = [session EXCEPT ![r] = new]
    /\ UNCHANGED <<chart, target>> /\ Unmoved

(* The next key, or the commit.                                            *)
Proceed(r, written) ==
    LET done == [session[r] EXCEPT !.written = written]
    IN  \/ /\ done.todo = {}
           /\ Move(r, [done EXCEPT !.pc = "commit"])
        \/ \E k \in Upcoming(r, done.todo) :
              Move(r, [done EXCEPT !.pc = "assets", !.key = k, !.todo = @ \ {k}])

-----------------------------------------------------------------------------
(* compute_live.                                                           *)
Read(r) == worth[session[r].key[1]][session[r].key[2]]

ComputeAssets(r) ==
    /\ session[r].pc = "assets"
    /\ \/ session[r].key[1] \in Broken /\ Fail(r)
       \/ /\ session[r].key[1] \notin Broken
          /\ Move(r, [session[r] EXCEPT !.pc = "by_class", !.reading.assets = Read(r).assets])

ComputeByClass(r) ==
    /\ session[r].pc = "by_class"
    /\ Move(r, [session[r] EXCEPT !.pc = "debts", !.reading.by_class = Read(r).assets])

ComputeDebts(r) ==
    /\ session[r].pc = "debts"
    /\ Move(r, [session[r] EXCEPT !.pc = "find", !.reading.debts = Read(r).debts])

(* build_snapshot: the SELECT of the stored row.                           *)
Find(r) ==
    /\ session[r].pc = "find"
    /\ Move(r, [session[r] EXCEPT !.pc = "store",
                                  !.found = {row \in chart : row.key = session[r].key}])

New(r) == RowOf(session[r].key, session[r].reading)

(* The columns the flush writes: all of a new row, or those that differ    *)
(* from the row that was found.  Faults: a stored row is kept as it is; a  *)
(* day worth nothing is not stored.                                        *)
NewRowsOnly(r) == IF session[r].found = {} THEN Columns ELSE {}
WorthOnly(r) == IF session[r].reading = Nothing THEN {} ELSE Columns
Dirty(r) == {c \in Columns : \A row \in session[r].found : row[c] # New(r)[c]}

(* The row of the key is held by a peer that wrote it.                     *)
Awaited(r) ==
    {q \in Peers(r) : /\ session[r].pc = "store" /\ Dirty(r) # {}
                      /\ session[r].key \in KeysOf(session[q].written)}

StoreInsert(r) ==
    /\ session[r].found = {}
    /\ \/ session[r].key \in KeysOf(chart) /\ Fail(r)
       \/ session[r].key \notin KeysOf(chart) /\ Proceed(r, session[r].written \cup {New(r)})

StoreUpdate(r) ==
    /\ session[r].found # {}
    /\ \E row \in chart :
         /\ row.key = session[r].key
         /\ Proceed(r, session[r].written \cup
                           {[c \in DOMAIN row |-> IF c \in Dirty(r) THEN New(r)[c] ELSE row[c]]})

(* The flush; a row without a change is not written and not waited for.    *)
Store(r) ==
    /\ session[r].pc = "store"
    /\ Awaited(r) = {}
    /\ \/ Dirty(r) # {} /\ StoreInsert(r)
       \/ Dirty(r) # {} /\ StoreUpdate(r)
       \/ Dirty(r) = {} /\ Proceed(r, session[r].written)

Commit(r) ==
    /\ session[r].pc = "commit"
    /\ chart' = Overlay(session[r].written, chart)
    /\ End(r, "ok")
    /\ Unmoved

Step(r) ==
    \/ ComputeAssets(r) \/ ComputeByClass(r) \/ ComputeDebts(r)
    \/ Find(r) \/ Store(r) \/ Commit(r)

-----------------------------------------------------------------------------
(* Half a day passes.  A run that is due starts, and ends, before that.    *)
Tick ==
    /\ ~Due /\ ~Live(Job)
    /\ \/ /\ ~clock.late
          /\ clock' = [clock EXCEPT !.late = TRUE]
       \/ /\ clock.late
          /\ clock.day < LastDay
          /\ clock' = [day |-> clock.day + 1, late |-> FALSE]
    /\ UNCHANGED <<worth, chart, session, target, posts, restarts>>

(* The server process dies and is started again.                           *)
Restart ==
    /\ restarts < MaxRestarts
    /\ restarts' = restarts + 1
    /\ session' = [r \in Sessions |->
                      IF r = Job THEN Resting
                      ELSE IF Live(r) THEN [Resting EXCEPT !.pc = "lost"] ELSE session[r]]
    /\ target' = NextRun
    /\ UNCHANGED <<worth, chart, clock, posts>>

Next ==
    \/ \E u \in Users, day \in Days, kind \in {"assets", "debts"} : Post(u, day, kind)
    \/ \E r \in Rebuilds, u \in Users, from \in Days, to \in Days : BeginRebuild(r, u, from, to)
    \/ BeginRun
    \/ \E r \in Sessions : Step(r)
    \/ Tick
    \/ Restart

Spec == Init /\ [][Next]_vars

(* Threads run, PostgreSQL answers, time passes; nobody has to ask for a   *)
(* rebuild and the server does not have to restart.                        *)
FairSpec == /\ Spec
            /\ \A r \in Sessions : WF_vars(Step(r))
            /\ WF_vars(BeginRun) /\ WF_vars(Tick)

-----------------------------------------------------------------------------
Session == [pc : Building \cup Answers \cup {"idle", "commit"}, key : Keys \cup {<<>>},
            todo : SUBSET Keys, reading : Reading, found : SUBSET Row, written : SUBSET Row,
            range : SUBSET Keys, alone : BOOLEAN]

TypeOK ==
    /\ worth \in [Users -> [Days -> Worth]]
    /\ chart \in SUBSET Row
    /\ session \in [Sessions -> Session]
    /\ \A r \in Sessions : Live(r) => session[r].key \in Keys
    /\ clock \in [day : Days, late : BOOLEAN]
    /\ target \in 1..(LastDay + 1)

(* What a waiting session waits on gets later and later: a rebuild holds   *)
(* days before the one it waits for, the run holds its own day only.  So   *)
(* no two sessions ever wait for each other, in a circle of any length.    *)
Rank(r) == 2 * session[r].key[2] + (IF r = Job THEN 1 ELSE 0)

WaitsAscend ==
    \A r, q \in Sessions : q \in Awaited(r) /\ Awaited(q) # {} => Rank(r) < Rank(q)

(* A rebuild or a run that nothing overlapped commits what the reports     *)
(* read, by class as in total, for every day of its range, whatever was    *)
(* stored there before.                                                    *)
RebuildIsExact ==
    \A r \in Sessions : session[r].pc = "commit" /\ session[r].alone =>
        \A k \in session[r].range :
            LET w == worth[k[1]][k[2]]
            IN  {row \in Overlay(session[r].written, chart) : row.key = k}
                    = {RowOf(k, [assets |-> w.assets, by_class |-> w.assets, debts |-> w.debts])}

(* A run that commits leaves no user without the snapshot of the day, and  *)
(* a rebuild no day of its range, although rows that exist may be skipped. *)
RangeCovered ==
    \A r \in Sessions : session[r].pc = "commit" =>
        session[r].range \subseteq KeysOf(Overlay(session[r].written, chart))

(* The answer of a rebuild comes, whoever holds its rows.                  *)
EveryRebuildAnswered ==
    \A r \in Rebuilds : Live(r) ~> session[r].pc \in Answers

(* The thread outlives a run that raised (snapshot_job.py: "keep the loop  *)
(* alive"): it never stops sleeping until a day it has not tried.          *)
SchedulerGoesOn == SchedulerEnabled => \A d \in Days : target = d ~> target > d

(* "the net-worth chart has no holes" (snapshots.py:6): every day the      *)
(* scheduler has had its run has the snapshot of every user.               *)
NoHoles ==
    SchedulerEnabled => \A u \in Users, d \in 1..(target - 1) : <<u, d>> \in KeysOf(chart)
=============================================================================
