-------------------------- MODULE SnapshotsProofs --------------------------
(***************************************************************************)
(* Theorems of Snapshots for every instance of its constants: types, and   *)
(* the order in which sessions wait for each other's rows.                 *)
(***************************************************************************)
EXTENDS Snapshots, TLAPS

-----------------------------------------------------------------------------
(* What a session that builds a row has written lies before it, and what   *)
(* it still has to build lies after it; the run of the thread stays on one *)
(* day.  A session that has nothing more to build waits for nobody.        *)
SessionOrder(r, s) ==
    s.pc \in Building =>
        /\ r = Job => \A k \in s.todo \cup KeysOf(s.written) : k[2] = s.key[2]
        /\ r # Job => /\ \A k \in s.todo : k[1] = s.key[1] /\ s.key[2] < k[2]
                      /\ \A k \in KeysOf(s.written) : k[2] < s.key[2]

LockOrder == \A r \in Sessions : SessionOrder(r, session[r])

LEMMA LockOrderAscends == TypeOK /\ LockOrder => WaitsAscend
<1> SUFFICES ASSUME TypeOK, LockOrder, NEW r \in Sessions, NEW q \in Sessions,
                    q \in Awaited(r), Awaited(q) # {}
             PROVE  Rank(r) < Rank(q)
  BY DEF WaitsAscend
<1>1. /\ session[r].pc = "store" /\ session[q].pc = "store" /\ q # r
      /\ session[r].key \in KeysOf(session[q].written)
  BY DEF Awaited, Peers
<1>2. session[r].key \in Keys /\ session[q].key \in Keys
  BY <1>1 DEF TypeOK, Live, Building
<1>3. session[r].key[2] \in Int /\ session[q].key[2] \in Int
  BY <1>2 DEF Keys, Days
<1>4. CASE q = Job
  <2>1. session[r].key[2] = session[q].key[2] /\ r # Job
    BY <1>1, <1>4 DEF LockOrder, SessionOrder, Building
  <2> QED
    BY <1>3, <1>4, <2>1 DEF Rank
<1>5. CASE q # Job
  <2>1. session[r].key[2] < session[q].key[2]
    BY <1>1, <1>5 DEF LockOrder, SessionOrder, Building
  <2> QED
    BY <1>3, <1>5, <2>1 DEF Rank
<1> QED
  BY <1>4, <1>5
-----------------------------------------------------------------------------
(* How a step changes the sessions: it starts one, ends one, moves one on  *)
(* inside the row it builds, or moves one on to its next row.              *)
LEMMA UpcomingKey ==
    ASSUME NEW r, NEW todo \in SUBSET Keys, NEW k \in Upcoming(r, todo)
    PROVE  /\ k \in todo
           /\ r # Job => \A j \in todo : k[2] <= j[2]
BY DEF Upcoming

LEMMA KeyOrder ==
    ASSUME NEW k \in Keys, NEW j \in Keys, k[1] = j[1], k[2] <= j[2], j # k
    PROVE  k[2] < j[2]
BY DEF Keys, Days

(* What a session that starts finds is in order.                           *)
LEMMA StartOrder ==
    ASSUME TypeOK, LockOrder, NEW r \in Sessions, NEW u, NEW day,
           NEW keys \in SUBSET Keys, Start(r, keys),
           r = Job => \A k \in keys : k[2] = day,
           r # Job => \A k \in keys : k[1] = u
    PROVE  LockOrder'
<1> PICK k \in Upcoming(r, keys) :
        session' = [q \in Sessions |->
            IF q = r THEN [Resting EXCEPT !.pc = "assets", !.key = k, !.todo = keys \ {k},
                                          !.range = keys, !.alone = Peers(r) = {}]
            ELSE [session[q] EXCEPT !.alone = FALSE]]
  BY DEF Start
<1>1. k \in keys /\ (r # Job => \A j \in keys : k[2] <= j[2])
  BY UpcomingKey
<1>2. SessionOrder(r, session'[r])
  <2>1. /\ session'[r].key = k /\ session'[r].todo = keys \ {k}
        /\ session'[r].written = {}
    BY DEF Resting
  <2>2. KeysOf({}) = {}
    BY DEF KeysOf
  <2>3. r # Job => \A j \in keys \ {k} : k[1] = j[1] /\ k[2] < j[2]
    BY <1>1, KeyOrder
  <2> QED
    BY <1>1, <2>1, <2>2, <2>3 DEF SessionOrder
<1>3. ASSUME NEW q \in Sessions, q # r
      PROVE  SessionOrder(q, session'[q])
  <2>1. session[q] \in Session
    BY DEF TypeOK
  <2>2. /\ session'[q].pc = session[q].pc /\ session'[q].key = session[q].key
        /\ session'[q].todo = session[q].todo /\ session'[q].written = session[q].written
    BY <1>3, <2>1 DEF Session
  <2> QED
    BY <2>2 DEF LockOrder, SessionOrder
<1> QED
  BY <1>2, <1>3 DEF LockOrder

LEMMA MoveOrder ==
    ASSUME TypeOK, LockOrder, NEW r \in Sessions, NEW new, SessionOrder(r, new),
           session' = [session EXCEPT ![r] = new]
    PROVE  LockOrder'
BY DEF TypeOK, LockOrder

LEMMA EndOrder ==
    ASSUME TypeOK, LockOrder, NEW r \in Sessions, NEW answer \in Answers, End(r, answer)
    PROVE  LockOrder'
<1> DEFINE new == [Resting EXCEPT !.pc = IF r = Job THEN "idle" ELSE answer]
<1>1. new.pc \notin Building
  BY DEF Resting, Building, Answers
<1>2. SessionOrder(r, new)
  BY <1>1 DEF SessionOrder
<1>3. session' = [session EXCEPT ![r] = new]
  BY DEF End
<1> HIDE DEF new
<1> QED
  BY <1>2, <1>3, MoveOrder

(* A session goes on within its row.                                       *)
LEMMA WithinOrder ==
    ASSUME TypeOK, LockOrder, NEW r \in Sessions, NEW new, session[r].pc \in Building,
           new.key = session[r].key, new.todo = session[r].todo,
           new.written = session[r].written, session' = [session EXCEPT ![r] = new]
    PROVE  LockOrder'
<1>1. SessionOrder(r, new)
  BY DEF LockOrder, SessionOrder
<1> QED
  BY <1>1, MoveOrder

LEMMA ProceedOrder ==
    ASSUME TypeOK, LockOrder, NEW r \in Sessions, NEW written,
           session[r].pc \in Building,
           KeysOf(written) \subseteq KeysOf(session[r].written) \cup {session[r].key},
           Proceed(r, written)
    PROVE  LockOrder'
<1> DEFINE done == [session[r] EXCEPT !.written = written]
<1>1. /\ session[r] \in Session /\ session[r].key \in Keys
      /\ session[r].todo \in SUBSET Keys
  BY DEF TypeOK, Live, Session
<1>2. /\ DOMAIN done = DOMAIN session[r]
      /\ done.key = session[r].key /\ done.todo = session[r].todo /\ done.written = written
  BY <1>1 DEF Session
<1>3. CASE Move(r, [done EXCEPT !.pc = "commit"])
  <2>1. [done EXCEPT !.pc = "commit"].pc = "commit"
    BY <1>1 DEF Session
  <2>2. SessionOrder(r, [done EXCEPT !.pc = "commit"])
    BY <2>1 DEF SessionOrder, Building
  <2> QED
    BY <1>3, <2>2, MoveOrder DEF Move
<1>4. ASSUME NEW k \in Upcoming(r, done.todo),
             Move(r, [done EXCEPT !.pc = "assets", !.key = k, !.todo = @ \ {k}])
      PROVE  LockOrder'
  <2> DEFINE new == [done EXCEPT !.pc = "assets", !.key = k, !.todo = @ \ {k}]
  <2>1. new.key = k /\ new.todo = session[r].todo \ {k} /\ new.written = written
    BY <1>1 DEF Session
  <2>2. k \in session[r].todo /\ (r # Job => \A j \in session[r].todo : k[2] <= j[2])
    BY <1>1, <1>2, UpcomingKey
  <2>3. SessionOrder(r, session[r])
    BY DEF LockOrder
  <2>4. ASSUME r = Job PROVE SessionOrder(r, new)
    BY <2>1, <2>2, <2>3, <2>4 DEF SessionOrder
  <2>5. ASSUME r # Job PROVE SessionOrder(r, new)
    <3>1. \A j \in session[r].todo : j[1] = session[r].key[1] /\ session[r].key[2] < j[2]
      BY <2>3, <2>5 DEF SessionOrder
    <3>2. \A j \in session[r].todo \ {k} : k[1] = j[1] /\ k[2] < j[2]
      BY <1>1, <2>2, <2>5, <3>1, KeyOrder
    <3>3. \A j \in KeysOf(session[r].written) : j[2] < session[r].key[2]
      BY <2>3, <2>5 DEF SessionOrder
    <3>4. ASSUME NEW j \in KeysOf(written)
          PROVE  j[2] < k[2]
      <4>1. \A i \in Keys : i[2] \in Int
        BY DEF Keys, Days
      <4>2. \A i \in KeysOf(session[r].written) : i \in Keys
        BY <1>1 DEF KeysOf, Session, Row
      <4>3. j \in Keys /\ k \in Keys
        BY <1>1, <2>2, <4>2
      <4> QED
        BY <1>1, <2>2, <3>1, <3>3, <4>1, <4>3
    <3> QED
      BY <2>1, <2>5, <3>2, <3>4 DEF SessionOrder
  <2>6. SessionOrder(r, new)
    BY <2>4, <2>5
  <2>7. session' = [session EXCEPT ![r] = new]
    BY <1>4 DEF Move
  <2> HIDE DEF new
  <2> QED
    BY <2>6, <2>7, MoveOrder
<1> QED
  BY <1>2, <1>3, <1>4 DEF Proceed

-----------------------------------------------------------------------------
LEMMA RowOfType ==
    ASSUME NEW k \in Keys, NEW reading \in Reading
    PROVE  RowOf(k, reading) \in Row
BY DEF RowOf, Reading, Row

(* The row an UPDATE leaves takes each column from one of two rows.        *)
LEMMA MergedType ==
    ASSUME NEW old \in Row, NEW new \in Row, NEW dirty
    PROVE  [c \in DOMAIN old |-> IF c \in dirty THEN new[c] ELSE old[c]] \in Row
<1> DEFINE row == [c \in DOMAIN old |-> IF c \in dirty THEN new[c] ELSE old[c]]
           Pick(c) == IF c \in dirty THEN new[c] ELSE old[c]
<1>1. DOMAIN old = {"key", "assets", "debts", "net_worth", "breakdown"}
  BY DEF Row
<1>2. row = [key |-> Pick("key"), assets |-> Pick("assets"), debts |-> Pick("debts"),
             net_worth |-> Pick("net_worth"), breakdown |-> Pick("breakdown")]
  BY <1>1
<1>3. /\ Pick("key") \in Keys /\ Pick("assets") \in Nat /\ Pick("debts") \in Nat
      /\ Pick("net_worth") \in Int /\ Pick("breakdown") \in Reading
  BY DEF Row
<1> HIDE DEF row, Pick
<1>4. row \in Row
  BY <1>2, <1>3 DEF Row
<1> QED
  BY <1>4 DEF row

LEMMA StartType ==
    ASSUME TypeOK, NEW r \in Sessions, NEW keys \in SUBSET Keys, Start(r, keys)
    PROVE  /\ session' \in [Sessions -> Session]
           /\ \A q \in Sessions : Live(q)' => session'[q].key \in Keys
<1> PICK k \in Upcoming(r, keys) :
        session' = [q \in Sessions |->
            IF q = r THEN [Resting EXCEPT !.pc = "assets", !.key = k, !.todo = keys \ {k},
                                          !.range = keys, !.alone = Peers(r) = {}]
            ELSE [session[q] EXCEPT !.alone = FALSE]]
  BY DEF Start
<1>1. k \in Keys
  BY UpcomingKey
<1> DEFINE new == [Resting EXCEPT !.pc = "assets", !.key = k, !.todo = keys \ {k},
                                  !.range = keys, !.alone = Peers(r) = {}]
<1>2. new \in Session /\ new.key = k
  BY <1>1 DEF Resting, Session, Building, Nothing, Reading
<1>3. ASSUME NEW q \in Sessions
      PROVE  /\ [session[q] EXCEPT !.alone = FALSE] \in Session
             /\ [session[q] EXCEPT !.alone = FALSE].pc = session[q].pc
             /\ [session[q] EXCEPT !.alone = FALSE].key = session[q].key
  <2>1. session[q] \in Session
    BY DEF TypeOK
  <2> QED
    BY <2>1 DEF Session
<1> HIDE DEF new
<1>4. session' = [q \in Sessions |-> IF q = r THEN new ELSE [session[q] EXCEPT !.alone = FALSE]]
  BY DEF new
<1>5. \A q \in Sessions : session'[q] = IF q = r THEN new ELSE [session[q] EXCEPT !.alone = FALSE]
  BY <1>4
<1>6. \A q \in Sessions : session'[q] \in Session
  BY <1>2, <1>3, <1>5
<1>7. session' \in [Sessions -> Session]
  BY <1>4, <1>5, <1>6
<1>8. ASSUME NEW q \in Sessions, Live(q)'
      PROVE  session'[q].key \in Keys
  BY <1>1, <1>2, <1>3, <1>5, <1>8 DEF TypeOK, Live
<1> QED
  BY <1>7, <1>8

LEMMA MoveType ==
    ASSUME TypeOK, NEW r \in Sessions, NEW new \in Session,
           new.pc \in Building \cup {"commit"} => new.key \in Keys,
           session' = [session EXCEPT ![r] = new]
    PROVE  /\ session' \in [Sessions -> Session]
           /\ \A q \in Sessions : Live(q)' => session'[q].key \in Keys
BY DEF TypeOK, Live

LEMMA NextRunType == TypeOK => NextRun \in 1..(LastDay + 1)
BY SnapshotsAssumption DEF TypeOK, NextRun, Days

LEMMA EndType ==
    ASSUME TypeOK, NEW r \in Sessions, NEW answer \in Answers, End(r, answer)
    PROVE  /\ session' \in [Sessions -> Session]
           /\ \A q \in Sessions : Live(q)' => session'[q].key \in Keys
           /\ target' \in 1..(LastDay + 1)
<1> DEFINE new == [Resting EXCEPT !.pc = IF r = Job THEN "idle" ELSE answer]
<1>1. new \in Session /\ new.pc \notin Building \cup {"commit"}
  BY DEF Resting, Session, Building, Answers, Nothing, Reading
<1>2. session' = [session EXCEPT ![r] = new]
  BY DEF End
<1> HIDE DEF new
<1>3. target' \in 1..(LastDay + 1)
  BY NextRunType DEF End, TypeOK
<1> QED
  BY <1>1, <1>2, <1>3, MoveType

LEMMA ProceedType ==
    ASSUME TypeOK, NEW r \in Sessions, Live(r), NEW written \in SUBSET Row, Proceed(r, written)
    PROVE  /\ session' \in [Sessions -> Session]
           /\ \A q \in Sessions : Live(q)' => session'[q].key \in Keys
           /\ UNCHANGED <<worth, chart, clock, target, posts, restarts>>
<1> DEFINE done == [session[r] EXCEPT !.written = written]
<1>1. session[r] \in Session /\ session[r].key \in Keys
  BY DEF TypeOK
<1>2. done \in Session /\ done.key = session[r].key /\ done.todo = session[r].todo
  BY <1>1 DEF Session
<1>3. PICK new : /\ \/ new = [done EXCEPT !.pc = "commit"]
                    \/ \E k \in Upcoming(r, done.todo) :
                         new = [done EXCEPT !.pc = "assets", !.key = k, !.todo = @ \ {k}]
                 /\ Move(r, new)
  BY DEF Proceed
<1> HIDE DEF done
<1>4. ASSUME NEW k \in Upcoming(r, done.todo),
             new = [done EXCEPT !.pc = "assets", !.key = k, !.todo = @ \ {k}]
      PROVE  new \in Session /\ new.key \in Keys
  <2>1. done.todo \in SUBSET Keys
    BY <1>2 DEF Session
  <2>2. k \in Keys
    BY <2>1, UpcomingKey
  <2> QED
    BY <1>2, <1>4, <2>2 DEF Session, Building
<1>5. new \in Session /\ new.key \in Keys
  <2>1. CASE new = [done EXCEPT !.pc = "commit"]
    BY <1>1, <1>2, <2>1 DEF Session
  <2> QED
    BY <1>3, <1>4, <2>1
<1> QED
  BY <1>3, <1>5, MoveType DEF Move, Unmoved

-----------------------------------------------------------------------------
Inv == TypeOK /\ LockOrder

(* What every statement of a session leaves typed, and what it keeps in    *)
(* order.                                                                  *)
LEMMA SessionStep ==
    ASSUME Inv, NEW r \in Sessions, Step(r)
    PROVE  Inv'
<1>1. /\ session[r] \in Session /\ Live(r) /\ session[r].key \in Keys /\ New(r) \in Row
      /\ chart \in SUBSET Row
  <2>1. Live(r)
    BY DEF Step, ComputeAssets, ComputeByClass, ComputeDebts, Find, Store, Commit, Live, Building
  <2>2. session[r] \in Session /\ session[r].key \in Keys /\ chart \in SUBSET Row
    BY <2>1 DEF Inv, TypeOK
  <2>3. session[r].reading \in Reading
    BY <2>2 DEF Session
  <2> QED
    BY <2>1, <2>2, <2>3, RowOfType DEF New
<1>2. Read(r) \in Worth
  BY <1>1 DEF Read, Inv, TypeOK, Keys
<1>3. ASSUME NEW new \in Session, Move(r, new), session[r].pc \in Building,
             new.key = session[r].key, new.todo = session[r].todo,
             new.written = session[r].written
      PROVE  Inv'
  <2>1. LockOrder'
    BY <1>3, WithinOrder DEF Inv, Move
  <2>2. TypeOK'
    BY <1>1, <1>3, MoveType DEF Inv, Move, Unmoved, TypeOK
  <2> QED
    BY <2>1, <2>2 DEF Inv
<1>4. ASSUME Fail(r)
      PROVE  Inv'
  <2>1. "error" \in Answers
    BY DEF Answers
  <2> QED
    BY <1>4, <2>1, EndOrder, EndType DEF Fail, Unmoved, Inv, TypeOK
<1>5. ASSUME NEW row \in Row, row.key = session[r].key, session[r].pc \in Building,
             Proceed(r, session[r].written \cup {row})
      PROVE  Inv'
  <2>1. session[r].written \cup {row} \in SUBSET Row
    BY <1>1 DEF Session
  <2>2. KeysOf(session[r].written \cup {row}) \subseteq KeysOf(session[r].written) \cup {session[r].key}
    BY <1>5 DEF KeysOf
  <2> QED
    BY <1>1, <1>5, <2>1, <2>2, ProceedOrder, ProceedType DEF Inv, TypeOK
<1>6. CASE ComputeAssets(r)
  <2>1. CASE Fail(r)
    BY <1>4, <2>1
  <2>2. CASE Move(r, [session[r] EXCEPT !.pc = "by_class", !.reading.assets = Read(r).assets])
    <3> DEFINE new == [session[r] EXCEPT !.pc = "by_class", !.reading.assets = Read(r).assets]
    <3>1. new \in Session /\ new.key = session[r].key /\ new.todo = session[r].todo
          /\ new.written = session[r].written
      BY <1>1, <1>2 DEF Session, Reading, Worth, Building
    <3> HIDE DEF new
    <3> QED
      BY <1>3, <1>6, <2>2, <3>1 DEF ComputeAssets, Building, new
  <2> QED
    BY <1>6, <2>1, <2>2 DEF ComputeAssets
<1>7. CASE ComputeByClass(r)
  <2> DEFINE new == [session[r] EXCEPT !.pc = "debts", !.reading.by_class = Read(r).assets]
  <2>1. new \in Session /\ new.key = session[r].key /\ new.todo = session[r].todo
        /\ new.written = session[r].written
    BY <1>1, <1>2 DEF Session, Reading, Worth, Building
  <2>2. session[r].pc \in Building /\ Move(r, new)
    BY <1>7 DEF ComputeByClass, Building
  <2> HIDE DEF new
  <2> QED
    BY <1>3, <2>1, <2>2
<1>8. CASE ComputeDebts(r)
  <2> DEFINE new == [session[r] EXCEPT !.pc = "find", !.reading.debts = Read(r).debts]
  <2>1. new \in Session /\ new.key = session[r].key /\ new.todo = session[r].todo
        /\ new.written = session[r].written
    BY <1>1, <1>2 DEF Session, Reading, Worth, Building
  <2>2. session[r].pc \in Building /\ Move(r, new)
    BY <1>8 DEF ComputeDebts, Building
  <2> HIDE DEF new
  <2> QED
    BY <1>3, <2>1, <2>2
<1>9. CASE Find(r)
  <2> DEFINE stored == {row \in chart : row.key = session[r].key}
             new == [session[r] EXCEPT !.pc = "store", !.found = stored]
  <2>1. stored \in SUBSET Row
    BY <1>1
  <2> HIDE DEF stored
  <2>2. new \in Session /\ new.key = session[r].key /\ new.todo = session[r].todo
        /\ new.written = session[r].written
    BY <1>1, <2>1 DEF Session, Building
  <2>3. session[r].pc \in Building /\ Move(r, new)
    BY <1>9 DEF Find, Building, stored
  <2> HIDE DEF new
  <2> QED
    BY <1>3, <2>2, <2>3
<1>10. CASE Store(r)
  <2>1. session[r].pc \in Building
    BY <1>10 DEF Store, Building
  <2>2. CASE StoreInsert(r)
    <3>1. New(r).key = session[r].key
      BY DEF New, RowOf
    <3> QED
      BY <1>1, <1>4, <1>5, <2>1, <2>2, <3>1 DEF StoreInsert
  <2>3. CASE StoreUpdate(r)
    <3>1. PICK row \in chart :
            /\ row.key = session[r].key
            /\ Proceed(r, session[r].written \cup
                   {[c \in DOMAIN row |-> IF c \in Dirty(r) THEN New(r)[c] ELSE row[c]]})
      BY <2>3 DEF StoreUpdate
    <3> DEFINE merged == [c \in DOMAIN row |-> IF c \in Dirty(r) THEN New(r)[c] ELSE row[c]]
    <3>2. row \in Row
      BY <1>1
    <3>3. merged \in Row
      BY <1>1, <3>2, MergedType
    <3>4. merged.key = session[r].key
      <4>1. "key" \in DOMAIN row
        BY <3>2 DEF Row
      <4>2. "key" \notin Dirty(r)
        BY DEF Dirty, Columns
      <4> QED
        BY <3>1, <4>1, <4>2
    <3>5. Proceed(r, session[r].written \cup {merged})
      BY <3>1
    <3> HIDE DEF merged
    <3> QED
      BY <1>5, <2>1, <3>3, <3>4, <3>5
  <2>4. CASE Proceed(r, session[r].written)
    <3>1. session[r].written \in SUBSET Row
      BY <1>1 DEF Session
    <3> QED
      BY <1>1, <2>1, <2>4, <3>1, ProceedOrder, ProceedType DEF Inv, TypeOK
  <2> QED
    BY <1>10, <2>2, <2>3, <2>4 DEF Store
<1>11. CASE Commit(r)
  <2>1. "ok" \in Answers
    BY DEF Answers
  <2>2. chart' \in SUBSET Row
    BY <1>1, <1>11 DEF Commit, Overlay, Session
  <2> QED
    BY <1>11, <2>1, <2>2, EndOrder, EndType DEF Commit, Unmoved, Inv, TypeOK
<1> QED
  BY <1>6, <1>7, <1>8, <1>9, <1>10, <1>11 DEF Step

-----------------------------------------------------------------------------
(* What a request or a run starts with is the days of one user, or the     *)
(* users of one day.                                                       *)
LEMMA StartStep ==
    ASSUME Inv, NEW r \in Sessions, NEW keys \in SUBSET Keys, NEW u, NEW day,
           Start(r, keys), r = Job => \A k \in keys : k[2] = day,
           r # Job => \A k \in keys : k[1] = u,
           UNCHANGED <<chart, target>>, Unmoved
    PROVE  Inv'
<1>1. LockOrder'
  BY StartOrder DEF Inv
<1>2. TypeOK'
  BY StartType DEF Inv, TypeOK, Unmoved
<1> QED
  BY <1>1, <1>2 DEF Inv

LEMMA PostStep ==
    ASSUME Inv, NEW u \in Users, NEW day \in Days, NEW kind \in {"assets", "debts"},
           Post(u, day, kind)
    PROVE  Inv'
<1>1. worth' \in [Users -> [Days -> Worth]]
  <2> DEFINE days == [d \in Days |-> IF d >= day THEN More(worth[u][d], kind) ELSE worth[u][d]]
  <2>1. \A d \in Days : worth[u][d] \in Worth /\ More(worth[u][d], kind) \in Worth
    BY DEF Inv, TypeOK, Worth, More
  <2>2. days \in [Days -> Worth]
    BY <2>1
  <2>3. worth' = [worth EXCEPT ![u] = days]
    BY DEF Post
  <2> HIDE DEF days
  <2> QED
    BY <2>2, <2>3 DEF Inv, TypeOK
<1>2. ASSUME NEW q \in Sessions
      PROVE  /\ session'[q] \in Session
             /\ session'[q].pc = session[q].pc /\ session'[q].key = session[q].key
             /\ session'[q].todo = session[q].todo /\ session'[q].written = session[q].written
  <2>1. session[q] \in Session
    BY DEF Inv, TypeOK
  <2>2. session'[q] = [session[q] EXCEPT !.alone = FALSE]
    BY DEF Post
  <2> QED
    BY <2>1, <2>2 DEF Session
<1>3. session' \in [Sessions -> Session]
  <2>1. session' = [q \in Sessions |-> [session[q] EXCEPT !.alone = FALSE]]
    BY DEF Post
  <2>2. \A q \in Sessions : [session[q] EXCEPT !.alone = FALSE] \in Session
    BY <1>2, <2>1
  <2> QED
    BY <2>1, <2>2
<1>4. TypeOK'
  BY <1>1, <1>2, <1>3 DEF Post, Inv, TypeOK, Live
<1>5. LockOrder'
  BY <1>2 DEF Inv, LockOrder, SessionOrder
<1> QED
  BY <1>4, <1>5 DEF Inv

LEMMA BeginRebuildStep ==
    ASSUME Inv, NEW r \in Rebuilds, NEW u \in Users, NEW from \in Days, NEW to \in Days,
           BeginRebuild(r, u, from, to)
    PROVE  Inv'
<1>1. r \in Sessions /\ r # Job
  BY SnapshotsAssumption DEF Sessions
<1>2. CASE Start(r, Range(u, from, to))
  <2>1. Range(u, from, to) \in SUBSET Keys
    BY SnapshotsAssumption DEF Range, Keys, Days
  <2>2. \A k \in Range(u, from, to) : k[1] = u
    BY DEF Range
  <2> QED
    BY <1>1, <1>2, <2>1, <2>2, StartStep DEF BeginRebuild
<1>3. CASE session' = [session EXCEPT ![r].pc = "ok"]
  <2> DEFINE new == [session[r] EXCEPT !.pc = "ok"]
  <2>1. session[r] \in Session
    BY <1>1 DEF Inv, TypeOK
  <2>2. new \in Session /\ new.pc \notin Building \cup {"commit"}
    BY <2>1 DEF Session, Answers, Building
  <2>3. session' = [session EXCEPT ![r] = new]
    BY <1>3
  <2> HIDE DEF new
  <2>4. LockOrder'
    BY <1>1, <2>2, <2>3, MoveOrder DEF Inv, SessionOrder
  <2>5. TypeOK'
    BY <1>1, <2>2, <2>3, MoveType DEF Inv, TypeOK, BeginRebuild, Unmoved
  <2> QED
    BY <2>4, <2>5 DEF Inv
<1> QED
  BY <1>2, <1>3 DEF BeginRebuild

LEMMA BeginRunStep == Inv /\ BeginRun => Inv'
<1> SUFFICES ASSUME Inv, BeginRun
             PROVE  Inv'
  OBVIOUS
<1>1. Job \in Sessions
  BY DEF Sessions
<1>2. Users \X {clock.day} \in SUBSET Keys
  BY DEF Inv, TypeOK, Keys
<1>3. \A k \in Users \X {clock.day} : k[2] = clock.day
  OBVIOUS
<1> QED
  BY <1>1, <1>2, <1>3, StartStep DEF BeginRun

LEMMA TickStep == Inv /\ Tick => Inv'
<1> SUFFICES ASSUME Inv, Tick
             PROVE  Inv'
  OBVIOUS
<1>1. clock' \in [day : Days, late : BOOLEAN]
  <2>1. clock.day \in Days /\ clock.day \in Int /\ clock.late \in BOOLEAN
    BY DEF Inv, TypeOK, Days
  <2>2. CASE clock' = [clock EXCEPT !.late = TRUE]
    BY <2>2 DEF Inv, TypeOK
  <2>3. CASE clock.day < LastDay /\ clock' = [day |-> clock.day + 1, late |-> FALSE]
    BY <2>1, <2>3, SnapshotsAssumption DEF Days
  <2> QED
    BY <2>2, <2>3 DEF Tick
<1> QED
  BY <1>1 DEF Tick, Inv, TypeOK, LockOrder, SessionOrder, Live

LEMMA RestartStep == Inv /\ Restart => Inv'
<1> SUFFICES ASSUME Inv, Restart
             PROVE  Inv'
  OBVIOUS
<1> DEFINE lost == [Resting EXCEPT !.pc = "lost"]
<1>1. /\ Resting \in Session /\ Resting.pc \notin Building \cup {"commit"}
      /\ lost \in Session /\ lost.pc \notin Building \cup {"commit"}
  BY DEF Resting, Session, Building, Answers, Nothing, Reading
<1> HIDE DEF lost
<1>2. session' = [q \in Sessions |-> IF q = Job THEN Resting
                                     ELSE IF Live(q) THEN lost ELSE session[q]]
  BY DEF Restart, lost
<1>3. ASSUME NEW q \in Sessions
      PROVE  session'[q] \in Session /\ session'[q].pc \notin Building \cup {"commit"}
  BY <1>1, <1>2 DEF Inv, TypeOK, Live
<1>4. session' \in [Sessions -> Session]
  BY <1>2, <1>3
<1>5. target' \in 1..(LastDay + 1)
  BY NextRunType DEF Restart, Inv
<1>6. TypeOK'
  BY <1>3, <1>4, <1>5 DEF Restart, Inv, TypeOK, Live
<1>7. LockOrder'
  BY <1>3 DEF LockOrder, SessionOrder
<1> QED
  BY <1>6, <1>7 DEF Inv

LEMMA InvHolds == Spec => []Inv
<1>1. Init => Inv
  <2> SUFFICES ASSUME Init
               PROVE  Inv
    OBVIOUS
  <2>1. Resting \in Session /\ Resting.pc \notin Building \cup {"commit"}
    BY DEF Resting, Session, Building, Answers, Nothing, Reading
  <2>2. LockOrder
    BY <2>1 DEF Init, LockOrder, SessionOrder
  <2>3. TypeOK
    BY <2>1, SnapshotsAssumption DEF Init, TypeOK, Live, Worth, Days
  <2> QED
    BY <2>2, <2>3 DEF Inv
<1>2. Inv /\ [Next]_vars => Inv'
  <2> SUFFICES ASSUME Inv, [Next]_vars
               PROVE  Inv'
    OBVIOUS
  <2>1. CASE UNCHANGED vars
    BY <2>1 DEF vars, Inv, TypeOK, LockOrder, SessionOrder, Live
  <2> QED
    BY <2>1, PostStep, BeginRebuildStep, BeginRunStep, SessionStep, TickStep, RestartStep
       DEF Next
<1> QED
  BY <1>1, <1>2, PTL DEF Spec

(* For every set of users, range of days and number of overlapping         *)
(* requests, restarts included, the table, the sessions and the schedule   *)
(* keep their types: a row has the columns of one key, a live session a    *)
(* key to build, and the thread a day to sleep until.                      *)
THEOREM SnapshotsTypeOK == Spec => []TypeOK
<1>1. Inv => TypeOK
  BY DEF Inv
<1> QED
  BY <1>1, InvHolds, PTL

(* However many rebuilds overlap, and whatever the thread does meanwhile,  *)
(* a session waits only for one that is at a later day, or for the run of  *)
(* its day: no circle of waiting sessions can close.                       *)
THEOREM SnapshotsWaitsAscend == Spec => []WaitsAscend
<1>1. Inv => WaitsAscend
  BY LockOrderAscends DEF Inv
<1> QED
  BY <1>1, InvHolds, PTL

-----------------------------------------------------------------------------
(* Of the range of a session, what is not yet to be built is stored or     *)
(* written; a row that was found is there.                                 *)
Covers(s, stored) ==
    /\ s.pc \in Building => s.range \subseteq s.todo \cup {s.key} \cup KeysOf(s.written) \cup stored
    /\ s.pc = "commit" => s.range \subseteq KeysOf(s.written) \cup stored
    /\ s.pc = "store" /\ s.found # {} => s.key \in stored

Covering == \A r \in Sessions : Covers(session[r], KeysOf(chart))

LEMMA OverlayKeys ==
    ASSUME NEW written, NEW rows
    PROVE  KeysOf(Overlay(written, rows)) = KeysOf(written) \cup KeysOf(rows)
BY DEF KeysOf, Overlay

LEMMA CoversMore ==
    ASSUME NEW s, NEW stored, NEW more, Covers(s, stored), stored \subseteq more
    PROVE  Covers(s, more)
<1>1. CASE s.pc \in Building
  BY <1>1 DEF Covers, Building
<1>2. CASE s.pc \notin Building
  BY <1>2 DEF Covers, Building
<1> QED
  BY <1>1, <1>2

(* One session goes on while the stored keys stay.                         *)
LEMMA OneCovers ==
    ASSUME TypeOK, Covering, NEW r \in Sessions, NEW new, Covers(new, KeysOf(chart)),
           session' = [session EXCEPT ![r] = new], KeysOf(chart) \subseteq KeysOf(chart')
    PROVE  Covering'
<1> SUFFICES ASSUME NEW q \in Sessions
             PROVE  Covers(session'[q], KeysOf(chart'))
  BY DEF Covering
<1>1. Covers(session'[q], KeysOf(chart))
  BY DEF TypeOK, Covering
<1> QED
  BY <1>1, CoversMore

(* A session whose pc, key, todo, range, written and found stay.           *)
LEMMA SameCovers ==
    ASSUME NEW s, NEW t, NEW stored, Covers(s, stored), t.pc = s.pc, t.key = s.key,
           t.todo = s.todo, t.range = s.range, t.written = s.written, t.found = s.found
    PROVE  Covers(t, stored)
BY DEF Covers

LEMMA StartCovers ==
    ASSUME TypeOK, Covering, NEW r \in Sessions, NEW keys \in SUBSET Keys, Start(r, keys),
           UNCHANGED chart
    PROVE  Covering'
<1> PICK k \in Upcoming(r, keys) :
        session' = [q \in Sessions |->
            IF q = r THEN [Resting EXCEPT !.pc = "assets", !.key = k, !.todo = keys \ {k},
                                          !.range = keys, !.alone = Peers(r) = {}]
            ELSE [session[q] EXCEPT !.alone = FALSE]]
  BY DEF Start
<1>1. Covers(session'[r], KeysOf(chart))
  <2>1. /\ session'[r].pc = "assets" /\ session'[r].key = k
        /\ session'[r].todo = keys \ {k} /\ session'[r].range = keys
    BY DEF Resting
  <2> QED
    BY <2>1 DEF Covers
<1>2. ASSUME NEW q \in Sessions, q # r
      PROVE  Covers(session'[q], KeysOf(chart))
  <2>1. session[q] \in Session /\ Covers(session[q], KeysOf(chart))
    BY DEF TypeOK, Covering
  <2>2. /\ session'[q].pc = session[q].pc /\ session'[q].key = session[q].key
        /\ session'[q].todo = session[q].todo /\ session'[q].range = session[q].range
        /\ session'[q].written = session[q].written /\ session'[q].found = session[q].found
    BY <1>2, <2>1 DEF Session
  <2> QED
    BY <2>1, <2>2, SameCovers
<1> QED
  BY <1>1, <1>2 DEF Covering

(* The row a session has read, or left as it is, need not be built again.  *)
LEMMA ProceedCovers ==
    ASSUME TypeOK, Covering, NEW r \in Sessions, session[r].pc \in Building,
           NEW written, session[r].written \subseteq written,
           session[r].key \in KeysOf(written) \cup KeysOf(chart), Proceed(r, written)
    PROVE  Covering'
<1> DEFINE done == [session[r] EXCEPT !.written = written]
<1>1. session[r] \in Session /\ session[r].todo \in SUBSET Keys
  BY DEF TypeOK, Session
<1>2. /\ done.key = session[r].key /\ done.todo = session[r].todo
      /\ done.range = session[r].range /\ done.written = written
  BY <1>1 DEF Session
<1>3. session[r].range \subseteq session[r].todo \cup KeysOf(written) \cup KeysOf(chart)
  <2>1. KeysOf(session[r].written) \subseteq KeysOf(written)
    BY DEF KeysOf
  <2> QED
    BY <2>1 DEF Covering, Covers
<1>4. CASE done.todo = {} /\ Move(r, [done EXCEPT !.pc = "commit"])
  <2> DEFINE new == [done EXCEPT !.pc = "commit"]
  <2>1. new.pc = "commit" /\ new.range = session[r].range /\ new.written = written
    BY <1>1 DEF Session
  <2>2. Covers(new, KeysOf(chart))
    BY <1>2, <1>3, <1>4, <2>1 DEF Covers, Building
  <2> HIDE DEF new
  <2> QED
    BY <1>4, <2>2, OneCovers DEF Move, new
<1>5. ASSUME NEW k \in Upcoming(r, done.todo),
             Move(r, [done EXCEPT !.pc = "assets", !.key = k, !.todo = @ \ {k}])
      PROVE  Covering'
  <2> DEFINE new == [done EXCEPT !.pc = "assets", !.key = k, !.todo = @ \ {k}]
  <2>1. /\ new.pc = "assets" /\ new.key = k /\ new.todo = session[r].todo \ {k}
        /\ new.range = session[r].range /\ new.written = written
    BY <1>1 DEF Session
  <2>2. Covers(new, KeysOf(chart))
    BY <1>3, <2>1 DEF Covers
  <2>3. session' = [session EXCEPT ![r] = new] /\ UNCHANGED chart
    BY <1>5 DEF Move
  <2> HIDE DEF new
  <2> QED
    BY <2>2, <2>3, OneCovers
<1> QED
  BY <1>4, <1>5 DEF Proceed

LEMMA EndCovers ==
    ASSUME TypeOK, Covering, NEW r \in Sessions, NEW answer \in Answers, End(r, answer),
           KeysOf(chart) \subseteq KeysOf(chart')
    PROVE  Covering'
<1> DEFINE new == [Resting EXCEPT !.pc = IF r = Job THEN "idle" ELSE answer]
<1>1. new.pc \notin Building \cup {"commit"}
  BY DEF Resting, Building, Answers
<1>2. Covers(new, KeysOf(chart))
  BY <1>1 DEF Covers, Building
<1>3. session' = [session EXCEPT ![r] = new]
  BY DEF End
<1> HIDE DEF new
<1> QED
  BY <1>2, <1>3, OneCovers

LEMMA SessionCovers ==
    ASSUME TypeOK, Covering, NEW r \in Sessions, Step(r)
    PROVE  Covering'
<1>1. session[r] \in Session /\ Covers(session[r], KeysOf(chart))
  BY DEF TypeOK, Covering
<1>2. ASSUME NEW new, Move(r, new), session[r].pc \in Building, new.pc \in Building \ {"store"},
             new.key = session[r].key, new.todo = session[r].todo,
             new.range = session[r].range, new.written = session[r].written
      PROVE  Covering'
  <2>1. Covers(new, KeysOf(chart))
    BY <1>1, <1>2 DEF Covers, Building
  <2> QED
    BY <1>2, <2>1, OneCovers DEF Move
<1>3. ASSUME Fail(r)
      PROVE  Covering'
  <2>1. "error" \in Answers
    BY DEF Answers
  <2> QED
    BY <1>3, <2>1, EndCovers DEF Fail
<1>4. CASE ComputeAssets(r)
  <2> DEFINE new == [session[r] EXCEPT !.pc = "by_class", !.reading.assets = Read(r).assets]
  <2>1. /\ new.pc = "by_class" /\ new.key = session[r].key /\ new.todo = session[r].todo
        /\ new.range = session[r].range /\ new.written = session[r].written
    BY <1>1 DEF Session
  <2>2. Fail(r) \/ Move(r, new)
    BY <1>4 DEF ComputeAssets
  <2>3. session[r].pc \in Building
    BY <1>4 DEF ComputeAssets, Building
  <2> HIDE DEF new
  <2>4. "by_class" \in Building \ {"store"}
    BY DEF Building
  <2> QED
    BY <1>2, <1>3, <2>1, <2>2, <2>3, <2>4
<1>5. CASE ComputeByClass(r)
  <2> DEFINE new == [session[r] EXCEPT !.pc = "debts", !.reading.by_class = Read(r).assets]
  <2>1. /\ new.pc = "debts" /\ new.key = session[r].key /\ new.todo = session[r].todo
        /\ new.range = session[r].range /\ new.written = session[r].written
    BY <1>1 DEF Session
  <2>2. session[r].pc \in Building /\ Move(r, new) /\ "debts" \in Building \ {"store"}
    BY <1>5 DEF ComputeByClass, Building
  <2> HIDE DEF new
  <2> QED
    BY <1>2, <2>1, <2>2
<1>6. CASE ComputeDebts(r)
  <2> DEFINE new == [session[r] EXCEPT !.pc = "find", !.reading.debts = Read(r).debts]
  <2>1. /\ new.pc = "find" /\ new.key = session[r].key /\ new.todo = session[r].todo
        /\ new.range = session[r].range /\ new.written = session[r].written
    BY <1>1 DEF Session
  <2>2. session[r].pc \in Building /\ Move(r, new) /\ "find" \in Building \ {"store"}
    BY <1>6 DEF ComputeDebts, Building
  <2> HIDE DEF new
  <2> QED
    BY <1>2, <2>1, <2>2
<1>7. CASE Find(r)
  <2> DEFINE stored == {row \in chart : row.key = session[r].key}
             new == [session[r] EXCEPT !.pc = "store", !.found = stored]
  <2>1. stored # {} => session[r].key \in KeysOf(chart)
    BY DEF KeysOf
  <2>2. Move(r, new)
    BY <1>7 DEF Find
  <2> HIDE DEF stored
  <2>3. /\ new.pc = "store" /\ new.key = session[r].key /\ new.todo = session[r].todo
        /\ new.range = session[r].range /\ new.written = session[r].written
        /\ new.found = stored
    BY <1>1 DEF Session
  <2>4. Covers(new, KeysOf(chart))
    BY <1>1, <1>7, <2>1, <2>3 DEF Covers, Find, Building
  <2> HIDE DEF new
  <2> QED
    BY <2>2, <2>4, OneCovers DEF Move
<1>8. CASE Store(r)
  <2>1. session[r].pc \in Building
    BY <1>8 DEF Store, Building
  <2>2. CASE StoreInsert(r)
    <3>1. New(r).key = session[r].key
      BY DEF New, RowOf
    <3>2. session[r].key \in KeysOf(session[r].written \cup {New(r)})
      BY <3>1 DEF KeysOf
    <3> QED
      BY <1>3, <2>1, <2>2, <3>2, ProceedCovers DEF StoreInsert
  <2>3. CASE StoreUpdate(r)
    <3>1. PICK row \in chart :
            /\ row.key = session[r].key
            /\ Proceed(r, session[r].written \cup
                   {[c \in DOMAIN row |-> IF c \in Dirty(r) THEN New(r)[c] ELSE row[c]]})
      BY <2>3 DEF StoreUpdate
    <3>2. session[r].key \in KeysOf(chart)
      BY <3>1 DEF KeysOf
    <3> QED
      BY <2>1, <3>1, <3>2, ProceedCovers
  <2>4. CASE Dirty(r) = {} /\ Proceed(r, session[r].written)
    <3>1. session[r].found # {}
      BY <2>4 DEF Dirty, Columns
    <3>2. session[r].key \in KeysOf(chart)
      BY <1>1, <1>8, <3>1 DEF Covers, Store
    <3> QED
      BY <2>1, <2>4, <3>2, ProceedCovers
  <2> QED
    BY <1>8, <2>2, <2>3, <2>4 DEF Store
<1>9. CASE Commit(r)
  <2>1. "ok" \in Answers
    BY DEF Answers
  <2>2. KeysOf(chart) \subseteq KeysOf(chart')
    BY <1>9, OverlayKeys DEF Commit
  <2> QED
    BY <1>9, <2>1, <2>2, EndCovers DEF Commit
<1> QED
  BY <1>4, <1>5, <1>6, <1>7, <1>8, <1>9 DEF Step

LEMMA CoveringStep ==
    ASSUME TypeOK, Covering, [Next]_vars
    PROVE  Covering'
<1>1. CASE UNCHANGED vars
  BY <1>1 DEF vars, Covering
<1>2. ASSUME NEW u \in Users, NEW day \in Days, NEW kind \in {"assets", "debts"},
             Post(u, day, kind)
      PROVE  Covering'
  <2> SUFFICES ASSUME NEW q \in Sessions
               PROVE  Covers(session'[q], KeysOf(chart))
    BY <1>2 DEF Covering, Post
  <2>1. session[q] \in Session /\ Covers(session[q], KeysOf(chart))
    BY DEF TypeOK, Covering
  <2>2. session'[q] = [session[q] EXCEPT !.alone = FALSE]
    BY <1>2 DEF Post
  <2>3. /\ session'[q].pc = session[q].pc /\ session'[q].key = session[q].key
        /\ session'[q].todo = session[q].todo /\ session'[q].range = session[q].range
        /\ session'[q].written = session[q].written /\ session'[q].found = session[q].found
    BY <2>1, <2>2 DEF Session
  <2> QED
    BY <2>1, <2>3, SameCovers
<1>3. ASSUME NEW r \in Rebuilds, NEW u \in Users, NEW from \in Days, NEW to \in Days,
             BeginRebuild(r, u, from, to)
      PROVE  Covering'
  <2>1. r \in Sessions /\ UNCHANGED chart
    BY <1>3 DEF Sessions, BeginRebuild
  <2>2. CASE Start(r, Range(u, from, to))
    <3> DEFINE keys == Range(u, from, to)
    <3>1. keys \in SUBSET Keys
      BY SnapshotsAssumption DEF Range, Keys, Days
    <3>2. Start(r, keys)
      BY <2>2
    <3> HIDE DEF keys
    <3> QED
      BY <2>1, <3>1, <3>2, StartCovers
  <2>3. CASE session' = [session EXCEPT ![r].pc = "ok"]
    <3> DEFINE new == [session[r] EXCEPT !.pc = "ok"]
    <3>1. session[r] \in Session
      BY <2>1 DEF TypeOK
    <3>2. new.pc = "ok"
      BY <3>1 DEF Session
    <3>3. Covers(new, KeysOf(chart))
      BY <3>2 DEF Covers, Building
    <3>4. session' = [session EXCEPT ![r] = new]
      BY <2>3
    <3> HIDE DEF new
    <3> QED
      BY <2>1, <3>3, <3>4, OneCovers
  <2> QED
    BY <1>3, <2>2, <2>3 DEF BeginRebuild
<1>4. CASE BeginRun
  <2>1. Job \in Sessions /\ Users \X {clock.day} \in SUBSET Keys
    BY DEF Sessions, TypeOK, Keys
  <2> QED
    BY <1>4, <2>1, StartCovers DEF BeginRun
<1>5. CASE Tick
  BY <1>5 DEF Tick, Covering
<1>6. CASE Restart
  <2> SUFFICES ASSUME NEW q \in Sessions
               PROVE  Covers(session'[q], KeysOf(chart))
    BY <1>6 DEF Covering, Restart
  <2>1. session'[q].pc \notin Building \cup {"commit"}
    BY <1>6 DEF Restart, Resting, Building, Live
  <2> QED
    BY <2>1 DEF Covers, Building
<1> QED
  BY <1>1, <1>2, <1>3, <1>4, <1>5, <1>6, SessionCovers DEF Next

(* Whatever overlaps a rebuild or a run, and whichever rows it finds, what *)
(* it commits leaves no day of its range, and no user of the run, without  *)
(* a snapshot.                                                             *)
THEOREM SnapshotsRangeCovered == Spec => []RangeCovered
<1>1. Init => Covering
  <2> SUFFICES ASSUME Init, NEW r \in Sessions
               PROVE  Covers(session[r], KeysOf(chart))
    BY DEF Covering
  <2>1. session[r].pc = "idle"
    BY DEF Init, Resting
  <2> QED
    BY <2>1 DEF Covers, Building
<1>2. Covering => RangeCovered
  BY OverlayKeys DEF Covering, Covers, RangeCovered
<1> QED
  BY <1>1, <1>2, CoveringStep, SnapshotsTypeOK, PTL DEF Spec

-----------------------------------------------------------------------------
(* A rebuild that nothing overlaps.  What is true of a day is read in      *)
(* three statements, stored or found, and kept until the commit.           *)
TrueReading(w, k) ==
    [assets |-> w[k[1]][k[2]].assets, by_class |-> w[k[1]][k[2]].assets,
     debts |-> w[k[1]][k[2]].debts]

RowsAt(rows, k) == {row \in rows : row.key = k}

Lively(s) == s.pc \in Building \cup {"commit"}

(* A session writes a row of each key once, and when it is its turn.       *)
WritesOnce(s) ==
    /\ \A a, b \in s.written : a.key = b.key => a = b
    /\ s.pc \in Building => /\ s.key \notin s.todo
                            /\ KeysOf(s.written) \cap ({s.key} \cup s.todo) = {}

ReadTruly(s, rows, w) ==
    /\ s.pc \in {"by_class", "debts", "find", "store"} =>
           s.reading.assets = w[s.key[1]][s.key[2]].assets
    /\ s.pc \in {"debts", "find", "store"} =>
           s.reading.by_class = w[s.key[1]][s.key[2]].assets
    /\ s.pc \in {"find", "store"} => s.reading.debts = w[s.key[1]][s.key[2]].debts
    /\ s.pc = "store" => s.found = RowsAt(rows, s.key)

StoredTruly(s, rows, w) ==
    \A k \in s.range : (s.pc \in Building => k \notin s.todo \cup {s.key}) =>
        RowsAt(Overlay(s.written, rows), k) = {RowOf(k, TrueReading(w, k))}

OneRowEach == \A a, b \in chart : a.key = b.key => a = b

Solitary == \A r, q \in Sessions : Live(r) /\ session[r].alone /\ Live(q) => q = r

Truthful(s, rows, w) ==
    Lively(s) => /\ WritesOnce(s)
                 /\ s.alone => ReadTruly(s, rows, w) /\ StoredTruly(s, rows, w)

AllTruthful == \A r \in Sessions : Truthful(session[r], chart, worth)

Undisturbed == OneRowEach /\ Solitary /\ AllTruthful

(* The rows of a key once the rows written are committed: those below of a  *)
(* key that was not written, and the one written of a key that was.        *)
LEMMA OverlayBelow ==
    ASSUME NEW written, NEW rows, NEW k, k \notin KeysOf(written)
    PROVE  RowsAt(Overlay(written, rows), k) = RowsAt(rows, k)
BY DEF RowsAt, Overlay, KeysOf

LEMMA OverlayElsewhere ==
    ASSUME NEW written, NEW rows, NEW row, NEW k, row.key # k
    PROVE  RowsAt(Overlay(written \cup {row}, rows), k) = RowsAt(Overlay(written, rows), k)
<1>1. KeysOf(written \cup {row}) = KeysOf(written) \cup {row.key}
  BY DEF KeysOf
<1> QED
  BY <1>1 DEF RowsAt, Overlay

LEMMA OverlayHere ==
    ASSUME NEW written, NEW rows, NEW row, NEW k, row.key = k, k \notin KeysOf(written)
    PROVE  RowsAt(Overlay(written \cup {row}, rows), k) = {row}
<1>1. KeysOf(written \cup {row}) = KeysOf(written) \cup {row.key}
  BY DEF KeysOf
<1>2. \A other \in written : other.key # k
  BY DEF KeysOf
<1> QED
  BY <1>1, <1>2 DEF RowsAt, Overlay

LEMMA RowsEqual ==
    ASSUME NEW a \in Row, NEW b \in Row, a.key = b.key, \A c \in Columns : a[c] = b[c]
    PROVE  a = b
<1>1. /\ a.assets = b.assets /\ a.debts = b.debts /\ a.net_worth = b.net_worth
      /\ a.breakdown = b.breakdown
  BY DEF Columns
<1> QED
  BY <1>1 DEF Row

(* An update of the columns that differ leaves the new row.                *)
LEMMA MergedIsNew ==
    ASSUME NEW old \in Row, NEW new \in Row, old.key = new.key, NEW dirty,
           \A c \in Columns : c \notin dirty => old[c] = new[c]
    PROVE  [c \in DOMAIN old |-> IF c \in dirty THEN new[c] ELSE old[c]] = new
<1> DEFINE merged == [c \in DOMAIN old |-> IF c \in dirty THEN new[c] ELSE old[c]]
<1>1. merged \in Row
  BY MergedType
<1>2. DOMAIN old = {"key", "assets", "debts", "net_worth", "breakdown"}
  BY DEF Row
<1>3. \A c \in DOMAIN old : merged[c] = IF c \in dirty THEN new[c] ELSE old[c]
  OBVIOUS
<1>4. merged["key"] = new["key"] /\ \A c \in Columns : merged[c] = new[c]
  BY <1>2, <1>3 DEF Columns
<1> HIDE DEF merged
<1>5. merged.key = new.key
  BY <1>4
<1>6. merged = new
  BY <1>1, <1>4, <1>5, RowsEqual
<1> QED
  BY <1>6 DEF merged

(* One session goes on.                                                    *)
LEMMA OneGoesOn ==
    ASSUME TypeOK, Undisturbed, NEW r \in Sessions, Live(r), NEW new,
           session' = [session EXCEPT ![r] = new], UNCHANGED <<chart, worth>>,
           new.alone => session[r].alone, Truthful(new, chart, worth)
    PROVE  Undisturbed'
<1>1. \A q \in Sessions : session'[q] = IF q = r THEN new ELSE session[q]
  BY DEF TypeOK
<1>2. OneRowEach'
  BY DEF Undisturbed, OneRowEach
<1>3. Solitary'
  BY <1>1 DEF Undisturbed, Solitary, Live
<1>4. AllTruthful'
  <2> SUFFICES ASSUME NEW q \in Sessions
               PROVE  Truthful(session'[q], chart, worth)
    BY DEF AllTruthful
  <2> QED
    BY <1>1 DEF Undisturbed, AllTruthful
<1> QED
  BY <1>2, <1>3, <1>4 DEF Undisturbed

LEMMA EndsUndisturbed ==
    ASSUME TypeOK, Undisturbed, NEW r \in Sessions, Live(r), NEW answer \in Answers,
           End(r, answer), UNCHANGED worth, OneRowEach', UNCHANGED chart \/ session[r].pc = "commit"
    PROVE  Undisturbed'
<1> DEFINE new == [Resting EXCEPT !.pc = IF r = Job THEN "idle" ELSE answer]
<1>1. ~Lively(new)
  BY DEF Resting, Answers, Building, Lively
<1>2. session' = [session EXCEPT ![r] = new]
  BY DEF End
<1> HIDE DEF new
<1>3. \A q \in Sessions : session'[q] = IF q = r THEN new ELSE session[q]
  BY <1>2 DEF TypeOK
<1>4. Solitary'
  BY <1>1, <1>3 DEF Undisturbed, Solitary, Live, Lively
<1>5. ASSUME NEW q \in Sessions
      PROVE  Truthful(session'[q], chart', worth)
  <2>1. CASE q = r
    BY <1>1, <1>3, <2>1 DEF Truthful
  <2>2. CASE q # r
    <3>1. session'[q] = session[q] /\ Truthful(session[q], chart, worth)
      BY <1>3, <2>2 DEF Undisturbed, AllTruthful
    <3>2. Lively(session[q]) => ~session[q].alone
      BY <2>2 DEF Undisturbed, Solitary, Live, Lively
    <3> QED
      BY <3>1, <3>2 DEF Truthful
  <2> QED
    BY <2>1, <2>2
<1>6. AllTruthful'
  BY <1>5 DEF AllTruthful
<1> QED
  BY <1>4, <1>6 DEF Undisturbed

(* A session that has its row goes on to the next.                         *)
LEMMA ProceedsUndisturbed ==
    ASSUME TypeOK, Undisturbed, NEW r \in Sessions, session[r].pc \in Building, NEW written,
           \/ written = session[r].written
           \/ \E row : row.key = session[r].key /\ written = session[r].written \cup {row},
           session[r].alone =>
               RowsAt(Overlay(written, chart), session[r].key)
                   = {RowOf(session[r].key, TrueReading(worth, session[r].key))},
           Proceed(r, written)
    PROVE  Undisturbed'
<1> DEFINE s == session[r]
           done == [s EXCEPT !.written = written]
<1>1. s \in Session /\ Live(r) /\ Truthful(s, chart, worth) /\ Lively(s)
  BY DEF TypeOK, Undisturbed, AllTruthful, Live, Lively
<1>2. /\ done.key = s.key /\ done.todo = s.todo /\ done.alone = s.alone
      /\ done.range = s.range /\ done.written = written
  BY <1>1 DEF Session
<1>3. /\ \A a, b \in written : a.key = b.key => a = b
      /\ KeysOf(written) \subseteq KeysOf(s.written) \cup {s.key}
  BY <1>1 DEF Truthful, WritesOnce, KeysOf
<1>4. s.key \notin s.todo /\ KeysOf(s.written) \cap ({s.key} \cup s.todo) = {}
  BY <1>1 DEF Truthful, WritesOnce
<1>5. ASSUME s.alone, NEW k \in s.range, k \notin s.todo
      PROVE  RowsAt(Overlay(written, chart), k) = {RowOf(k, TrueReading(worth, k))}
  <2>1. CASE k = s.key
    BY <1>5, <2>1
  <2>2. CASE k # s.key
    <3>1. RowsAt(Overlay(s.written, chart), k) = {RowOf(k, TrueReading(worth, k))}
      BY <1>1, <1>5, <2>2 DEF Truthful, StoredTruly
    <3>2. RowsAt(Overlay(written, chart), k) = RowsAt(Overlay(s.written, chart), k)
      BY <2>2, OverlayElsewhere
    <3> QED
      BY <3>1, <3>2
  <2> QED
    BY <2>1, <2>2
<1>6. CASE done.todo = {} /\ Move(r, [done EXCEPT !.pc = "commit"])
  <2> DEFINE new == [done EXCEPT !.pc = "commit"]
  <2>1. /\ new.pc = "commit" /\ new.range = s.range /\ new.written = written
        /\ new.alone = s.alone
    BY <1>1 DEF Session
  <2>2. Truthful(new, chart, worth)
    <3>1. WritesOnce(new)
      BY <1>3, <2>1 DEF WritesOnce, Building
    <3>2. new.alone => ReadTruly(new, chart, worth) /\ StoredTruly(new, chart, worth)
      BY <1>2, <1>5, <1>6, <2>1 DEF ReadTruly, StoredTruly
    <3> QED
      BY <3>1, <3>2 DEF Truthful
  <2>3. session' = [session EXCEPT ![r] = new] /\ UNCHANGED <<chart, worth>>
    BY <1>6 DEF Move, Unmoved
  <2> HIDE DEF new
  <2> QED
    BY <1>1, <2>1, <2>2, <2>3, OneGoesOn
<1>7. ASSUME NEW k \in Upcoming(r, done.todo),
             Move(r, [done EXCEPT !.pc = "assets", !.key = k, !.todo = @ \ {k}])
      PROVE  Undisturbed'
  <2> DEFINE new == [done EXCEPT !.pc = "assets", !.key = k, !.todo = @ \ {k}]
  <2>1. /\ new.pc = "assets" /\ new.key = k /\ new.todo = s.todo \ {k}
        /\ new.range = s.range /\ new.written = written /\ new.alone = s.alone
    BY <1>1 DEF Session
  <2>2. k \in s.todo
    BY <1>1, <1>2, <1>7 DEF Upcoming, Session
  <2>3. Truthful(new, chart, worth)
    <3>1. WritesOnce(new)
      BY <1>3, <1>4, <2>1, <2>2 DEF WritesOnce
    <3>2. new.alone => ReadTruly(new, chart, worth) /\ StoredTruly(new, chart, worth)
      BY <1>5, <2>1, <2>2 DEF ReadTruly, StoredTruly, Building
    <3> QED
      BY <3>1, <3>2 DEF Truthful
  <2>4. session' = [session EXCEPT ![r] = new] /\ UNCHANGED <<chart, worth>>
    BY <1>7 DEF Move, Unmoved
  <2> HIDE DEF new
  <2> QED
    BY <1>1, <2>1, <2>3, <2>4, OneGoesOn
<1> QED
  BY <1>6, <1>7 DEF Proceed

(* The rows of the chart have a key each, also once a session has written. *)
LEMMA CommitsOneRow ==
    ASSUME Undisturbed, NEW r \in Sessions, session[r].pc = "commit",
           chart' = Overlay(session[r].written, chart)
    PROVE  OneRowEach'
<1>1. \A a, b \in session[r].written : a.key = b.key => a = b
  BY DEF Undisturbed, AllTruthful, Truthful, Lively, WritesOnce
<1> QED
  BY <1>1 DEF Undisturbed, OneRowEach, Overlay, KeysOf

(* What a session that nothing overlaps stores is what it has read.        *)
LEMMA StoresUndisturbed ==
    ASSUME TypeOK, Undisturbed, NEW r \in Sessions, Store(r)
    PROVE  Undisturbed'
<1> DEFINE s == session[r]
           k == session[r].key
           true == RowOf(session[r].key, TrueReading(worth, session[r].key))
<1>1. /\ s.pc = "store" /\ s.pc \in Building /\ Live(r) /\ s \in Session /\ k \in Keys
      /\ s.written \in SUBSET Row /\ s.reading \in Reading /\ chart \in SUBSET Row
  <2>1. s.pc = "store" /\ s.pc \in Building /\ Live(r)
    BY DEF Store, Building, Live
  <2>2. s \in Session /\ k \in Keys /\ chart \in SUBSET Row
    BY <2>1 DEF TypeOK
  <2> QED
    BY <2>1, <2>2 DEF Session
<1>2. New(r) \in Row /\ New(r).key = k
  <2>1. New(r) \in Row
    BY <1>1, RowOfType DEF New
  <2> QED
    BY <2>1 DEF New, RowOf
<1>3. Truthful(s, chart, worth) /\ k \notin KeysOf(s.written)
  BY <1>1 DEF Undisturbed, AllTruthful, Truthful, Lively, WritesOnce
<1>4. ASSUME s.alone
      PROVE  New(r) = true /\ s.found = RowsAt(chart, k)
  <2>1. ReadTruly(s, chart, worth)
    BY <1>1, <1>3, <1>4 DEF Truthful, Lively
  <2>2. s.reading = TrueReading(worth, k)
    BY <1>1, <2>1 DEF ReadTruly, TrueReading, Reading
  <2> QED
    BY <1>1, <2>1, <2>2 DEF New, ReadTruly
<1>5. ASSUME StoreInsert(r)
      PROVE  Undisturbed'
  <2>1. CASE Fail(r)
    <3>1. "error" \in Answers /\ UNCHANGED <<chart, worth>> /\ OneRowEach'
      BY <2>1 DEF Answers, Fail, Unmoved, Undisturbed, OneRowEach
    <3> QED
      BY <1>1, <2>1, <3>1, EndsUndisturbed DEF Fail
  <2>2. CASE Proceed(r, s.written \cup {New(r)})
    <3>1. RowsAt(Overlay(s.written \cup {New(r)}, chart), k) = {New(r)}
      BY <1>2, <1>3, OverlayHere
    <3> QED
      BY <1>1, <1>2, <1>4, <2>2, <3>1, ProceedsUndisturbed
  <2> QED
    BY <1>5, <2>1, <2>2 DEF StoreInsert
<1>6. ASSUME StoreUpdate(r)
      PROVE  Undisturbed'
  <2>1. PICK row \in chart :
          /\ row.key = k
          /\ Proceed(r, s.written \cup
                 {[c \in DOMAIN row |-> IF c \in Dirty(r) THEN New(r)[c] ELSE row[c]]})
    BY <1>6 DEF StoreUpdate
  <2> DEFINE merged == [c \in DOMAIN row |-> IF c \in Dirty(r) THEN New(r)[c] ELSE row[c]]
  <2>2. row \in Row /\ merged \in Row
    BY <1>1, <1>2, <2>1, MergedType
  <2>3. merged.key = k
    BY <1>2, <2>1, <2>2 DEF Row
  <2>4. ASSUME s.alone
        PROVE  merged = New(r)
    <3>1. row \in s.found
      BY <1>4, <2>1, <2>4 DEF RowsAt
    <3>2. \A other \in s.found : other = row
      BY <1>4, <2>1, <2>4 DEF RowsAt, Undisturbed, OneRowEach
    <3>3. \A c \in Columns : c \notin Dirty(r) => row[c] = New(r)[c]
      BY <3>1, <3>2 DEF Dirty
    <3>4. row.key = New(r).key
      BY <1>2, <2>1
    <3> QED
      BY <1>2, <2>2, <3>3, <3>4, MergedIsNew
  <2>5. Proceed(r, s.written \cup {merged})
    BY <2>1
  <2> HIDE DEF merged
  <2>6. RowsAt(Overlay(s.written \cup {merged}, chart), k) = {merged}
    BY <1>3, <2>3, OverlayHere
  <2>7. s.alone => RowsAt(Overlay(s.written \cup {merged}, chart), k) = {true}
    BY <1>4, <2>4, <2>6
  <2> QED
    BY <1>1, <2>3, <2>5, <2>7, ProceedsUndisturbed
<1>7. ASSUME Dirty(r) = {}, Proceed(r, s.written)
      PROVE  Undisturbed'
  <2>1. ASSUME s.alone
        PROVE  RowsAt(Overlay(s.written, chart), k) = {true}
    <3>1. s.found # {}
      BY <1>7 DEF Dirty, Columns
    <3>2. PICK row \in chart : row.key = k /\ row \in s.found
      BY <1>4, <2>1, <3>1 DEF RowsAt
    <3>3. s.found = {row}
      BY <1>4, <2>1, <3>2 DEF RowsAt, Undisturbed, OneRowEach
    <3>4. \A c \in Columns : row[c] = New(r)[c]
      BY <1>7, <3>3 DEF Dirty
    <3>5. row = New(r)
      BY <1>1, <1>2, <3>2, <3>4, RowsEqual
    <3>6. RowsAt(Overlay(s.written, chart), k) = RowsAt(chart, k)
      BY <1>3, OverlayBelow
    <3> QED
      BY <1>4, <2>1, <3>3, <3>5, <3>6
  <2> QED
    BY <1>1, <1>7, <2>1, ProceedsUndisturbed
<1> QED
  BY <1>5, <1>6, <1>7 DEF Store

LEMMA SessionUndisturbed ==
    ASSUME TypeOK, Undisturbed, NEW r \in Sessions, Step(r)
    PROVE  Undisturbed'
<1> DEFINE s == session[r]
           k == session[r].key
<1>1. Live(r) /\ s \in Session /\ s.reading \in Reading /\ Lively(s) /\ Truthful(s, chart, worth)
  <2>1. Live(r)
    BY DEF Step, ComputeAssets, ComputeByClass, ComputeDebts, Find, Store, Commit, Live, Building
  <2>2. s \in Session
    BY DEF TypeOK
  <2> QED
    BY <2>1, <2>2 DEF Session, Live, Lively, Undisturbed, AllTruthful
<1>2. ASSUME Fail(r)
      PROVE  Undisturbed'
  <2>1. "error" \in Answers /\ UNCHANGED <<chart, worth>> /\ OneRowEach'
    BY <1>2 DEF Answers, Fail, Unmoved, Undisturbed, OneRowEach
  <2> QED
    BY <1>1, <1>2, <2>1, EndsUndisturbed DEF Fail
<1>3. ASSUME NEW new, Move(r, new), s.pc \in Building, new.pc \in Building,
             new.key = k, new.todo = s.todo, new.range = s.range, new.written = s.written,
             new.alone = s.alone, s.alone => ReadTruly(new, chart, worth)
      PROVE  Undisturbed'
  <2>1. WritesOnce(new) /\ (s.alone => StoredTruly(new, chart, worth))
    BY <1>1, <1>3 DEF Truthful, WritesOnce, StoredTruly
  <2>2. Truthful(new, chart, worth)
    BY <1>3, <2>1 DEF Truthful
  <2>3. session' = [session EXCEPT ![r] = new] /\ UNCHANGED <<chart, worth>>
    BY <1>3 DEF Move, Unmoved
  <2> QED
    BY <1>1, <1>3, <2>2, <2>3, OneGoesOn
<1>4. s.alone => ReadTruly(s, chart, worth)
  BY <1>1 DEF Truthful
<1>5. CASE ComputeAssets(r)
  <2> DEFINE new == [s EXCEPT !.pc = "by_class", !.reading.assets = Read(r).assets]
  <2>1. /\ new.pc = "by_class" /\ new.key = k /\ new.todo = s.todo /\ new.range = s.range
        /\ new.written = s.written /\ new.alone = s.alone
        /\ new.reading.assets = worth[k[1]][k[2]].assets
    BY <1>1 DEF Session, Reading, Read
  <2>2. (Fail(r) \/ Move(r, new)) /\ s.pc \in Building /\ new.pc \in Building
    BY <1>5, <2>1 DEF ComputeAssets, Building
  <2> HIDE DEF new
  <2>3. ReadTruly(new, chart, worth)
    BY <2>1 DEF ReadTruly
  <2> QED
    BY <1>2, <1>3, <2>1, <2>2, <2>3
<1>6. CASE ComputeByClass(r)
  <2> DEFINE new == [s EXCEPT !.pc = "debts", !.reading.by_class = Read(r).assets]
  <2>1. /\ new.pc = "debts" /\ new.key = k /\ new.todo = s.todo /\ new.range = s.range
        /\ new.written = s.written /\ new.alone = s.alone
        /\ new.reading.assets = s.reading.assets
        /\ new.reading.by_class = worth[k[1]][k[2]].assets
    BY <1>1 DEF Session, Reading, Read
  <2>2. Move(r, new) /\ s.pc = "by_class" /\ s.pc \in Building /\ new.pc \in Building
    BY <1>6, <2>1 DEF ComputeByClass, Building
  <2> HIDE DEF new
  <2>3. s.alone => ReadTruly(new, chart, worth)
    BY <1>4, <2>1, <2>2 DEF ReadTruly
  <2> QED
    BY <1>3, <2>1, <2>2, <2>3
<1>7. CASE ComputeDebts(r)
  <2> DEFINE new == [s EXCEPT !.pc = "find", !.reading.debts = Read(r).debts]
  <2>1. /\ new.pc = "find" /\ new.key = k /\ new.todo = s.todo /\ new.range = s.range
        /\ new.written = s.written /\ new.alone = s.alone
        /\ new.reading.assets = s.reading.assets /\ new.reading.by_class = s.reading.by_class
        /\ new.reading.debts = worth[k[1]][k[2]].debts
    BY <1>1 DEF Session, Reading, Read
  <2>2. Move(r, new) /\ s.pc = "debts" /\ s.pc \in Building /\ new.pc \in Building
    BY <1>7, <2>1 DEF ComputeDebts, Building
  <2> HIDE DEF new
  <2>3. s.alone => ReadTruly(new, chart, worth)
    BY <1>4, <2>1, <2>2 DEF ReadTruly
  <2> QED
    BY <1>3, <2>1, <2>2, <2>3
<1>8. CASE Find(r)
  <2> DEFINE stored == {row \in chart : row.key = session[r].key}
             new == [s EXCEPT !.pc = "store", !.found = stored]
  <2>1. Move(r, new) /\ s.pc = "find" /\ s.pc \in Building /\ stored = RowsAt(chart, k)
    BY <1>8 DEF Find, Building, RowsAt
  <2> HIDE DEF stored
  <2>2. /\ new.pc = "store" /\ new.key = k /\ new.todo = s.todo /\ new.range = s.range
        /\ new.written = s.written /\ new.alone = s.alone /\ new.reading = s.reading
        /\ new.found = stored
    BY <1>1 DEF Session
  <2>3. new.pc \in Building
    BY <2>2 DEF Building
  <2> HIDE DEF new
  <2>4. s.alone => ReadTruly(new, chart, worth)
    BY <1>4, <2>1, <2>2 DEF ReadTruly
  <2> QED
    BY <1>3, <2>1, <2>2, <2>3, <2>4
<1>9. CASE Store(r)
  BY <1>9, StoresUndisturbed
<1>10. CASE Commit(r)
  <2>1. "ok" \in Answers /\ UNCHANGED worth /\ s.pc = "commit"
    BY <1>10 DEF Answers, Commit, Unmoved
  <2>2. OneRowEach'
    BY <1>10, <2>1, CommitsOneRow DEF Commit
  <2> QED
    BY <1>1, <1>10, <2>1, <2>2, EndsUndisturbed DEF Commit
<1> QED
  BY <1>5, <1>6, <1>7, <1>8, <1>9, <1>10 DEF Step

(* A session that is overtaken, or ended, has nothing left to be true.     *)
Overtaken(new, old) ==
    /\ ~new.alone
    /\ Lively(new) => Lively(old) /\ new.pc = old.pc /\ new.key = old.key
                      /\ new.todo = old.todo /\ new.written = old.written

LEMMA OvertakenTruthful ==
    ASSUME NEW new, NEW old, NEW rows, NEW w, NEW rows2, NEW w2,
           Overtaken(new, old), Truthful(old, rows, w)
    PROVE  Truthful(new, rows2, w2)
BY DEF Overtaken, Truthful, WritesOnce

LEMMA OvertakeUndisturbed ==
    ASSUME Undisturbed, UNCHANGED chart, \A q \in Sessions : Overtaken(session'[q], session[q])
    PROVE  Undisturbed'
<1>1. OneRowEach'
  BY DEF Undisturbed, OneRowEach
<1>2. Solitary'
  BY DEF Solitary, Overtaken
<1>3. ASSUME NEW q \in Sessions
      PROVE  Truthful(session'[q], chart', worth')
  BY OvertakenTruthful DEF Undisturbed, AllTruthful
<1>4. AllTruthful'
  BY <1>3 DEF AllTruthful
<1> QED
  BY <1>1, <1>2, <1>4 DEF Undisturbed

(* A session that starts is alone when nobody else is at work; everybody   *)
(* else no longer is.                                                      *)
LEMMA StartsUndisturbed ==
    ASSUME TypeOK, Undisturbed, NEW r \in Sessions, NEW keys, Start(r, keys),
           UNCHANGED <<chart, worth>>
    PROVE  Undisturbed'
<1>1. PICK k \in Upcoming(r, keys) :
        session' = [q \in Sessions |->
            IF q = r THEN [Resting EXCEPT !.pc = "assets", !.key = k, !.todo = keys \ {k},
                                          !.range = keys, !.alone = Peers(r) = {}]
            ELSE [session[q] EXCEPT !.alone = FALSE]]
  BY DEF Start
<1> DEFINE new == [Resting EXCEPT !.pc = "assets", !.key = k, !.todo = keys \ {k},
                                  !.range = keys, !.alone = Peers(r) = {}]
<1>2. /\ new.pc = "assets" /\ new.key = k /\ new.todo = keys \ {k} /\ new.written = {}
      /\ new.range = keys /\ (new.alone <=> Peers(r) = {})
  BY DEF Resting
<1>3. session'[r] = new
  BY <1>1
<1> HIDE DEF new
<1>4. ASSUME NEW q \in Sessions, q # r
      PROVE  Overtaken(session'[q], session[q]) /\ (Lively(session'[q]) <=> Lively(session[q]))
  <2>1. session'[q] = [session[q] EXCEPT !.alone = FALSE] /\ session[q] \in Session
    BY <1>1, <1>4 DEF TypeOK
  <2>2. /\ session'[q].alone = FALSE /\ session'[q].pc = session[q].pc
        /\ session'[q].key = session[q].key /\ session'[q].todo = session[q].todo
        /\ session'[q].written = session[q].written
    BY <2>1 DEF Session
  <2> QED
    BY <2>2 DEF Overtaken, Lively
<1>5. OneRowEach'
  BY DEF Undisturbed, OneRowEach
<1>6. Solitary'
  <2> SUFFICES ASSUME NEW p \in Sessions, NEW q \in Sessions,
                      Lively(session'[p]), session'[p].alone, Lively(session'[q])
               PROVE  q = p
    BY DEF Solitary, Live, Lively
  <2>1. p = r
    BY <1>4 DEF Overtaken
  <2>2. Peers(r) = {}
    BY <1>2, <1>3, <2>1
  <2> QED
    BY <1>4, <2>1, <2>2 DEF Peers, Live, Lively
<1>7. Truthful(new, chart, worth)
  <2>1. WritesOnce(new)
    BY <1>2 DEF WritesOnce, KeysOf
  <2>2. ReadTruly(new, chart, worth) /\ StoredTruly(new, chart, worth)
    BY <1>2 DEF ReadTruly, StoredTruly, Building
  <2> QED
    BY <2>1, <2>2 DEF Truthful
<1>8. ASSUME NEW q \in Sessions
      PROVE  Truthful(session'[q], chart', worth')
  <2>1. CASE q = r
    BY <1>3, <1>7, <2>1
  <2>2. CASE q # r
    BY <1>4, <2>2, OvertakenTruthful DEF Undisturbed, AllTruthful
  <2> QED
    BY <2>1, <2>2
<1>9. AllTruthful'
  BY <1>8 DEF AllTruthful
<1> QED
  BY <1>5, <1>6, <1>9 DEF Undisturbed

LEMMA UndisturbedStep ==
    ASSUME TypeOK, Undisturbed, [Next]_vars
    PROVE  Undisturbed'
<1>1. ASSUME NEW u \in Users, NEW day \in Days, NEW kind \in {"assets", "debts"},
             Post(u, day, kind)
      PROVE  Undisturbed'
  <2>1. UNCHANGED chart
    BY <1>1 DEF Post
  <2>2. ASSUME NEW q \in Sessions
        PROVE  Overtaken(session'[q], session[q])
    <3>1. session'[q] = [session[q] EXCEPT !.alone = FALSE] /\ session[q] \in Session
      BY <1>1 DEF Post, TypeOK
    <3>2. /\ session'[q].alone = FALSE /\ session'[q].pc = session[q].pc
          /\ session'[q].key = session[q].key /\ session'[q].todo = session[q].todo
          /\ session'[q].written = session[q].written
      BY <3>1 DEF Session
    <3> QED
      BY <3>2 DEF Overtaken, Lively
  <2> QED
    BY <2>1, <2>2, OvertakeUndisturbed
<1>2. ASSUME NEW r \in Rebuilds, NEW u \in Users, NEW from \in Days, NEW to \in Days,
             BeginRebuild(r, u, from, to)
      PROVE  Undisturbed'
  <2> r \in Sessions
    BY DEF Sessions
  <2>1. UNCHANGED <<chart, worth>> /\ session[r].pc = "idle"
    BY <1>2 DEF BeginRebuild, Unmoved
  <2>2. CASE session' = [session EXCEPT ![r].pc = "ok"]
    <3>1. ASSUME NEW q \in Sessions
          PROVE  IF q = r THEN ~Lively(session'[q]) ELSE session'[q] = session[q]
      <4>1. session[q] \in Session /\ session \in [Sessions -> Session]
        BY DEF TypeOK
      <4>2. CASE q = r
        <5>1. session'[q].pc = "ok"
          BY <2>2, <4>1, <4>2 DEF Session
        <5> QED
          BY <4>2, <5>1 DEF Lively, Building
      <4>3. CASE q # r
        BY <2>2, <4>1, <4>3
      <4> QED
        BY <4>2, <4>3
    <3>2. OneRowEach'
      BY <2>1 DEF Undisturbed, OneRowEach
    <3>3. Solitary'
      BY <3>1 DEF Undisturbed, Solitary, Live, Lively
    <3>4. AllTruthful'
      <4> SUFFICES ASSUME NEW q \in Sessions
                   PROVE  Truthful(session'[q], chart, worth)
        BY <2>1 DEF AllTruthful
      <4> QED
        BY <3>1 DEF Undisturbed, AllTruthful, Truthful
    <3> QED
      BY <3>2, <3>3, <3>4 DEF Undisturbed
  <2>3. CASE Start(r, Range(u, from, to))
    BY <2>1, <2>3, StartsUndisturbed
  <2> QED
    BY <1>2, <2>2, <2>3 DEF BeginRebuild
<1>3. CASE BeginRun
  <2>1. Job \in Sessions /\ UNCHANGED <<chart, worth>> /\ Start(Job, Users \X {clock.day})
    BY <1>3 DEF BeginRun, Unmoved, Sessions
  <2> QED
    BY <2>1, StartsUndisturbed
<1>4. ASSUME NEW r \in Sessions, Step(r)
      PROVE  Undisturbed'
  BY <1>4, SessionUndisturbed
<1>5. ASSUME UNCHANGED <<worth, chart, session>>
      PROVE  Undisturbed'
  BY <1>5 DEF Undisturbed, OneRowEach, Solitary, AllTruthful, Live
<1>6. CASE Tick
  BY <1>5, <1>6 DEF Tick
<1>7. CASE Restart
  <2>1. UNCHANGED chart
    BY <1>7 DEF Restart
  <2>2. ASSUME NEW q \in Sessions
        PROVE  ~Lively(session'[q])
    <3>1. CASE Live(q) \/ q = Job
      <4>1. session'[q].pc \in {"idle", "lost"}
        BY <1>7, <3>1 DEF Restart, Resting
      <4> QED
        BY <4>1 DEF Lively, Building
    <3>2. CASE ~Live(q) /\ q # Job
      BY <1>7, <3>2 DEF Restart, Lively, Live
    <3> QED
      BY <3>1, <3>2
  <2>3. OneRowEach'
    BY <2>1 DEF Undisturbed, OneRowEach
  <2>4. Solitary' /\ AllTruthful'
    BY <2>2 DEF Solitary, AllTruthful, Truthful, Live, Lively
  <2> QED
    BY <2>3, <2>4 DEF Undisturbed
<1>8. CASE UNCHANGED vars
  BY <1>5, <1>8 DEF vars
<1> QED
  BY <1>1, <1>2, <1>3, <1>4, <1>6, <1>7, <1>8 DEF Next

(* A rebuild, or a run of the thread, during which no other session and no *)
(* commit fell, commits for every day of its range exactly one row, with   *)
(* what the reports read: the total by class equal to the total, whatever  *)
(* rows earlier sessions left there and however few columns it updated     *)
(* (snapshots.py:37-95).                                                   *)
THEOREM SnapshotsRebuildIsExact == Spec => []RebuildIsExact
<1>1. Init => Undisturbed
  <2> SUFFICES ASSUME Init
               PROVE  Undisturbed
    OBVIOUS
  <2>1. \A r \in Sessions : ~Lively(session[r])
    BY DEF Init, Resting, Lively, Building
  <2> QED
    BY <2>1 DEF Init, Undisturbed, OneRowEach, Solitary, AllTruthful, Truthful, Live, Lively
<1>2. Undisturbed => RebuildIsExact
  <2> SUFFICES ASSUME Undisturbed, NEW r \in Sessions, session[r].pc = "commit",
                      session[r].alone, NEW k \in session[r].range
               PROVE  RowsAt(Overlay(session[r].written, chart), k)
                          = {RowOf(k, TrueReading(worth, k))}
    BY DEF RebuildIsExact, RowsAt, TrueReading
  <2>1. StoredTruly(session[r], chart, worth)
    BY DEF Undisturbed, AllTruthful, Truthful, Lively
  <2> QED
    BY <2>1 DEF StoredTruly, Building
<1> QED
  BY <1>1, <1>2, UndisturbedStep, SnapshotsTypeOK, PTL DEF Spec
=============================================================================
