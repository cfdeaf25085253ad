--------------------------- MODULE UserDataProofs ---------------------------
(***************************************************************************)
(* Proofs about UserData, for any requests in any number: TypeOK, and      *)
(* OneRowPerKey, which neither follows from what a request reads nor from  *)
(* the unique key alone: it takes both that an INSERT waits for a peer     *)
(* with its key in flight and that it then fails; then that changes stay   *)
(* within the user's own rows, what the audit log tells of goals, and that *)
(* inflation counts each recorded month once.                              *)
(***************************************************************************)
EXTENDS UserData, SumTheorems

Ids == DOMAIN Stored \cup Sessions
Phases == {"idle", "find", "write", "commit", "done"}
Answers == {None, "ok", "conflict", "not_found", "error"}
SomeColumns == UNION {DOMAIN request.set : request \in Requests}

SessionType ==
    [pc : Phases, request : Requests \cup {None}, found : Ids \cup {None},
     dirty : SUBSET SomeColumns, answer : Answers, met : SUBSET Sessions]

EntryType == [entity : Ids, by : Sessions, diff : {Diff(request) : request \in Requests}]

IsRow(row) ==
    row = [table |-> row.table, owner |-> row.owner, deleted |-> row.deleted,
           key |-> row.key, columns |-> row.columns]

Shapes ==
    /\ session \in [Sessions -> SessionType]
    /\ audit \in Seq(EntryType)
    /\ DOMAIN rows \subseteq Ids
    /\ \A i \in DOMAIN rows : IsRow(rows[i]) /\ rows[i].table \in Tables

(* What a request knows of the row it has found is still true of it, and a *)
(* row with the number of a request is there only once it has been served. *)
FoundRow(r) ==
    /\ session[r].found \in DOMAIN rows
    /\ rows[session[r].found].table = session[r].request.table
    /\ session[r].request.op = "change" =>
           rows[session[r].found].owner = session[r].request.user

Progress(r) ==
    /\ session[r].pc # "idle" => session[r].request \in Requests
    /\ session[r].pc \in {"idle", "find"} => session[r].found = None
    /\ session[r].pc \in {"write", "commit"} /\ session[r].found # None =>
           session[r].request.op # "register" /\ FoundRow(r)
    /\ session[r].answer = "ok" =>
           /\ session[r].pc = "done"
           /\ session[r].request.op = "register" =>
                  r \in DOMAIN rows /\ rows[r].key = session[r].request.key
    /\ r \in DOMAIN rows => session[r].pc = "done"

EntriesOfGoals ==
    \A k \in DOMAIN audit :
        audit[k].entity \in DOMAIN rows /\ rows[audit[k].entity].table = "goal"

RowsOfKeys == \A i, j \in DOMAIN rows : SameUniqueKey(rows[i], rows[j]) => i = j

(* A key that has been flushed is no other's.                              *)
Exclusive(r) ==
    Flushed(r) /\ Inserts(r) =>
        /\ ~KeyTaken(r)
        /\ \A q \in Sessions \ {r} : Flushed(q) /\ Inserts(q) => ~SameKey(r, q)

IInv ==
    /\ Shapes
    /\ \A r \in Sessions : Progress(r)
    /\ EntriesOfGoals
    /\ RowsOfKeys
    /\ \A r \in Sessions : Exclusive(r)

-----------------------------------------------------------------------------
(* What a step leaves alone.                                               *)
Same(q) ==
    /\ session'[q].pc = session[q].pc /\ session'[q].request = session[q].request
    /\ session'[q].found = session[q].found /\ session'[q].answer = session[q].answer

RowsKept ==
    \A i \in DOMAIN rows :
        /\ i \in DOMAIN rows' /\ IsRow(rows'[i])
        /\ rows'[i].table = rows[i].table /\ rows'[i].owner = rows[i].owner
        /\ rows'[i].key = rows[i].key

OthersSame(r) == \A q \in Sessions \ {r} : Same(q)

(* A request that does not move keeps what it knows, whatever is added to  *)
(* or changed in the rows by others.                                       *)
LEMMA ProgressKept ==
    ASSUME NEW q \in Sessions, Progress(q), Same(q), RowsKept,
           q \in DOMAIN rows' => q \in DOMAIN rows
    PROVE  Progress(q)'
  BY DEF Progress, FoundRow, Same, RowsKept

(* A step that changes no row and lets no request through to its commit    *)
(* keeps the flushed keys exclusive.                                       *)
LEMMA ExclusiveKept ==
    ASSUME NEW r \in Sessions, \A q \in Sessions : Exclusive(q), OthersSame(r),
           rows' = rows, session'[r].pc # "commit"
    PROVE  \A q \in Sessions : Exclusive(q)'
  BY DEF Exclusive, OthersSame, Same, Flushed, Inserts, KeyTaken, SameKey

LEMMA RowsUnchanged ==
    ASSUME Shapes, rows' = rows
    PROVE  RowsKept
  BY DEF Shapes, RowsKept

(* What the three ways of moving one request on do to the sessions.        *)
LEMMA Advanced ==
    ASSUME Shapes, NEW r \in Sessions, NEW new \in SessionType, Advance(r, new)
    PROVE  /\ Shapes' /\ OthersSame(r)
           /\ session'[r] = new /\ rows' = rows /\ audit' = audit
  BY DEF Shapes, Advance, OthersSame, Same

LEMMA EndedType ==
    ASSUME Shapes, NEW r \in Sessions, NEW answer \in Answers
    PROVE  /\ Ended(r, answer) \in SessionType
           /\ Ended(r, answer).pc = "done" /\ Ended(r, answer).answer = answer
           /\ Ended(r, answer).request = session[r].request
  BY DEF Shapes, SessionType, Ended, Idle, Phases

(* A request that changes no row and is not let through keeps the          *)
(* invariant, provided what it knows then is true.                         *)
LEMMA AdvanceKeeps ==
    ASSUME IInv, NEW r \in Sessions, NEW new \in SessionType, Advance(r, new),
           Progress(r)', new.pc # "commit"
    PROVE  IInv'
<1>1. Shapes' /\ OthersSame(r) /\ session'[r] = new /\ rows' = rows /\ audit' = audit
  BY Advanced DEF IInv
<1>2. \A q \in Sessions : Progress(q)'
  <2>1. RowsKept
    BY <1>1, RowsUnchanged DEF IInv
  <2> QED
    BY <1>1, <2>1, ProgressKept DEF IInv, OthersSame
<1>3. \A q \in Sessions : Exclusive(q)'
  BY <1>1, ExclusiveKept DEF IInv
<1> QED
  BY <1>1, <1>2, <1>3 DEF IInv, EntriesOfGoals, RowsOfKeys, SameUniqueKey

LEMMA AbortKeeps ==
    ASSUME IInv, NEW r \in Sessions, Live(r), NEW why \in Answers, why # "ok", Abort(r, why)
    PROVE  IInv'
<1>1. /\ Ended(r, why) \in SessionType /\ Ended(r, why).pc = "done"
      /\ Ended(r, why).answer = why /\ Ended(r, why).request = session[r].request
  BY EndedType DEF IInv
<1>2. Advance(r, Ended(r, why))
  BY DEF Abort
<1>3. session'[r] = Ended(r, why) /\ rows' = rows
  BY <1>1, <1>2, Advanced DEF IInv
<1>4. Progress(r)'
  BY <1>1, <1>3 DEF IInv, Progress, Live
<1> QED
  BY <1>1, <1>2, <1>4, AdvanceKeeps

-----------------------------------------------------------------------------
LEMMA InitIInv == Init => IInv
<1> SUFFICES ASSUME Init PROVE IInv
  OBVIOUS
<1>1. Shapes
  <2>1. audit \in Seq(EntryType)
    BY DEF Init
  <2>2. Idle \in SessionType
    BY DEF Idle, SessionType, Phases, Answers
  <2>3. \A i \in DOMAIN rows : IsRow(rows[i]) /\ rows[i].table \in Tables
    BY UserDataAssumption DEF Init, IsRow
  <2> QED
    BY <2>1, <2>2, <2>3 DEF Init, Shapes, Ids
<1>2. \A r \in Sessions : Progress(r)
  BY UserDataAssumption DEF Init, Idle, Progress
<1>3. EntriesOfGoals
  BY DEF Init, EntriesOfGoals
<1>4. RowsOfKeys
  BY UserDataAssumption DEF Init, RowsOfKeys
<1>5. \A r \in Sessions : Exclusive(r)
  BY DEF Init, Idle, Exclusive, Flushed
<1> QED
  BY <1>1, <1>2, <1>3, <1>4, <1>5 DEF IInv

LEMMA BeginKeeps ==
    ASSUME IInv, NEW r \in Sessions, NEW request \in Requests, Begin(r, request)
    PROVE  IInv'
<1>1. rows' = rows /\ audit' = audit /\ session[r].pc = "idle"
  BY DEF Begin, Begun
<1>2. \A q \in Sessions : session[q] \in SessionType
  BY DEF IInv, Shapes
<1> DEFINE new == [Idle EXCEPT !.pc = "find", !.request = request, !.met = Peers(r)]
<1>3. /\ new \in SessionType /\ new.pc = "find" /\ new.request = request
      /\ new.found = None /\ new.answer = None
  BY DEF Idle, SessionType, Phases, Answers, Peers
<1>4. session'[r] = new /\ session' \in [Sessions -> SessionType] /\ OthersSame(r)
  <2>1. \A q \in Sessions :
            [session[q] EXCEPT !.met = @ \cup {r}] \in SessionType
    BY <1>2 DEF SessionType
  <2>2. session' = [q \in Sessions |->
            IF q = r THEN new
            ELSE IF Live(q) THEN [session[q] EXCEPT !.met = @ \cup {r}] ELSE session[q]]
    BY DEF Begin
  <2>3. \A q \in Sessions : session'[q] \in SessionType
    BY <1>2, <1>3, <2>1, <2>2
  <2>4. OthersSame(r)
    BY <1>2, <2>2 DEF OthersSame, Same, SessionType
  <2> QED
    BY <2>2, <2>3, <2>4
<1>5. Shapes'
  BY <1>1, <1>4 DEF IInv, Shapes
<1>6. \A q \in Sessions : Progress(q)'
  <2>1. RowsKept
    BY <1>1, RowsUnchanged DEF IInv
  <2>2. Progress(r)'
    BY <1>1, <1>3, <1>4, UserDataAssumption DEF IInv, Progress
  <2> QED
    BY <1>1, <1>4, <2>1, <2>2, ProgressKept DEF IInv, OthersSame
<1>7. \A q \in Sessions : Exclusive(q)'
  BY <1>1, <1>3, <1>4, ExclusiveKept DEF IInv
<1> QED
  BY <1>1, <1>5, <1>6, <1>7 DEF IInv, EntriesOfGoals, RowsOfKeys, SameUniqueKey

LEMMA FindKeeps ==
    ASSUME IInv, NEW r \in Sessions, Find(r)
    PROVE  IInv'
<1> DEFINE request == session[r].request
           sought  == Sought(request)
<1>1. /\ session[r] \in SessionType /\ session[r].pc = "find" /\ Live(r)
      /\ request \in Requests /\ session[r].found = None
      /\ session[r].answer # "ok" /\ r \notin DOMAIN rows
  BY DEF IInv, Shapes, Progress, Find, Live
<1>2. CASE request.op = "register" /\ sought # {} /\ Abort(r, "conflict")
  BY <1>1, <1>2, AbortKeeps DEF Answers
<1>3. CASE request.op = "change" /\ sought = {} /\ Abort(r, "not_found")
  BY <1>1, <1>3, AbortKeeps DEF Answers
<1>4. CASE /\ request.op # "change" /\ sought = {}
           /\ Advance(r, [session[r] EXCEPT !.pc = "write"])
  <2> DEFINE new == [session[r] EXCEPT !.pc = "write"]
  <2>1. /\ new \in SessionType /\ new.pc = "write" /\ new.request = request
        /\ new.found = None /\ new.answer = session[r].answer
    BY <1>1 DEF SessionType, Phases
  <2>2. session'[r] = new /\ rows' = rows
    BY <1>4, <2>1, Advanced DEF IInv
  <2>3. Progress(r)'
    BY <1>1, <2>1, <2>2 DEF Progress
  <2> QED
    BY <1>4, <2>1, <2>3, AdvanceKeeps
<1>5. CASE /\ request.op \in {"upsert", "change"}
           /\ \E i \in sought :
                  Advance(r, [session[r] EXCEPT !.pc = "write", !.found = i,
                                                !.dirty = Differing(request.set, rows[i])])
  <2>1. PICK i \in sought :
            Advance(r, [session[r] EXCEPT !.pc = "write", !.found = i,
                                          !.dirty = Differing(request.set, rows[i])])
    BY <1>5
  <2> DEFINE new == [session[r] EXCEPT !.pc = "write", !.found = i,
                                       !.dirty = Differing(request.set, rows[i])]
  <2>2. /\ i \in DOMAIN rows /\ rows[i].table = request.table
        /\ request.op = "change" => rows[i].owner = request.user
    BY <1>5 DEF Sought, RowsByKey, OwnRowById
  <2>3. /\ new \in SessionType /\ new.pc = "write" /\ new.request = request
        /\ new.found = i /\ new.answer = session[r].answer
    <3>1. Differing(request.set, rows[i]) \subseteq SomeColumns
      BY <1>1 DEF Differing, SomeColumns
    <3>2. i \in Ids
      BY <2>2 DEF IInv, Shapes
    <3> QED
      BY <1>1, <3>1, <3>2 DEF SessionType, Phases
  <2>4. session'[r] = new /\ rows' = rows
    BY <2>1, <2>3, Advanced DEF IInv
  <2>5. Progress(r)'
    BY <1>1, <1>5, <2>2, <2>3, <2>4 DEF Progress, FoundRow
  <2> QED
    BY <2>1, <2>3, <2>5, AdvanceKeeps
<1> QED
  BY <1>2, <1>3, <1>4, <1>5 DEF Find

(* The wait and the check together: after both, nobody has the key.        *)
LEMMA WriteKeeps ==
    ASSUME IInv, NEW r \in Sessions, Write(r)
    PROVE  IInv'
<1>1. /\ session[r] \in SessionType /\ session[r].pc = "write" /\ Live(r)
      /\ Progress(r) /\ session[r].answer # "ok" /\ Awaited(r) = {}
  BY DEF IInv, Shapes, Progress, Write, Live
<1>2. CASE Abort(r, "error")
  BY <1>1, <1>2, AbortKeeps DEF Answers
<1>3. CASE /\ ~(Inserts(r) /\ KeyTaken(r))
           /\ Advance(r, [session[r] EXCEPT !.pc = "commit"])
  <2> DEFINE new == [session[r] EXCEPT !.pc = "commit"]
  <2>1. /\ new \in SessionType /\ new.pc = "commit" /\ new.request = session[r].request
        /\ new.found = session[r].found /\ new.answer = session[r].answer
    BY <1>1 DEF SessionType, Phases
  <2>2. Shapes' /\ OthersSame(r) /\ session'[r] = new /\ rows' = rows /\ audit' = audit
    BY <1>3, <2>1, Advanced DEF IInv
  <2>3. \A q \in Sessions : Progress(q)'
    <3>1. RowsKept
      BY <2>2, RowsUnchanged DEF IInv
    <3>2. Progress(r)'
      BY <1>1, <2>1, <2>2 DEF Progress, FoundRow
    <3> QED
      BY <2>2, <3>1, <3>2, ProgressKept DEF IInv, OthersSame
  <2>4. Inserts(r) => \A q \in Sessions \ {r} : Flushed(q) /\ Inserts(q) => ~SameKey(r, q)
    BY <1>1 DEF Awaited, Peers, Live, Flushed, Contends
  <2>5. \A q \in Sessions : Exclusive(q)'
    <3>1. ASSUME NEW q \in Sessions \ {r} PROVE Exclusive(q)'
      <4>1. Exclusive(q)
        BY DEF IInv
      <4>2. Inserts(r) /\ Flushed(q) /\ Inserts(q) => ~SameKey(q, r)
        BY <2>4 DEF SameKey
      <4>3. \A p \in Sessions :
                /\ session'[p].request = session[p].request
                /\ session'[p].found = session[p].found
                /\ p # r => session'[p].pc = session[p].pc
        BY <2>1, <2>2 DEF OthersSame, Same
      <4>4. ASSUME Flushed(q)', Inserts(q)' PROVE ~KeyTaken(q)'
        BY <2>2, <4>1, <4>3, <4>4 DEF Exclusive, Flushed, Inserts, KeyTaken
      <4>5. ASSUME Flushed(q)', Inserts(q)', NEW p \in Sessions \ {q}, Flushed(p)', Inserts(p)'
            PROVE  ~SameKey(q, p)'
        BY <4>1, <4>2, <4>3, <4>5 DEF Exclusive, Flushed, Inserts, SameKey
      <4> QED
        BY <4>4, <4>5 DEF Exclusive
    <3>2. Exclusive(r)'
      BY <1>3, <2>1, <2>2, <2>4
         DEF Exclusive, OthersSame, Same, Flushed, Inserts, KeyTaken, SameKey
    <3> QED
      BY <3>1, <3>2
  <2> QED
    BY <2>2, <2>3, <2>5 DEF IInv, EntriesOfGoals, RowsOfKeys, SameUniqueKey
<1> QED
  BY <1>2, <1>3 DEF Write

(* The row a commit leaves: a new one of a key nobody has, or the one that *)
(* was found with its key and owner.                                       *)
LEMMA CommitRows ==
    ASSUME IInv, NEW r \in Sessions, Commit(r)
    PROVE  /\ RowsKept
           /\ DOMAIN rows' = DOMAIN rows \cup {Target(r)}
           /\ Target(r) \in Ids /\ IsRow(rows'[Target(r)])
           /\ rows'[Target(r)].table = session[r].request.table
           /\ session[r].request \in Requests
           /\ Inserts(r) => /\ Target(r) = r /\ r \notin DOMAIN rows
                            /\ session[r].request.table \in KeyedTables =>
                                   rows'[r].key = session[r].request.key
<1>1. session[r].pc = "commit" /\ Progress(r) /\ session[r].request \in Requests
  BY DEF IInv, Commit, Progress
<1>2. /\ DOMAIN rows' = DOMAIN rows \cup {Target(r)}
      /\ \A i \in DOMAIN rows \ {Target(r)} : rows'[i] = rows[i]
      /\ rows'[Target(r)] = IF Inserts(r) THEN NewRow(r) ELSE ChangedRow(r)
  BY DEF Commit
<1>3. \A i \in DOMAIN rows : IsRow(rows[i])
  BY DEF IInv, Shapes
<1>4. CASE Inserts(r)
  <2>1. Target(r) = r /\ r \notin DOMAIN rows
    BY <1>1, <1>4 DEF Target, Progress
  <2>2. rows'[r] = NewRow(r)
    BY <1>2, <1>4, <2>1
  <2>3. /\ IsRow(rows'[r]) /\ rows'[r].table = session[r].request.table
        /\ session[r].request.table \in KeyedTables => rows'[r].key = session[r].request.key
    BY <2>2 DEF NewRow, IsRow
  <2>4. RowsKept
    BY <1>2, <1>3, <2>1 DEF RowsKept
  <2> QED
    BY <1>1, <1>2, <2>1, <2>3, <2>4 DEF Ids
<1>5. CASE ~Inserts(r)
  <2> DEFINE i == session[r].found
  <2>1. Target(r) = i /\ i \in DOMAIN rows /\ rows[i].table = session[r].request.table
    BY <1>1, <1>5 DEF Target, Inserts, Progress, FoundRow
  <2>2. rows'[i] = ChangedRow(r)
    BY <1>2, <1>5, <2>1
  <2>3. IsRow(rows[i])
    BY <1>3, <2>1
  <2>4. /\ IsRow(rows'[i]) /\ rows'[i].table = rows[i].table
        /\ rows'[i].owner = rows[i].owner /\ rows'[i].key = rows[i].key
    BY <2>2, <2>3 DEF ChangedRow, IsRow
  <2>5. RowsKept
    BY <1>2, <1>3, <2>1, <2>4 DEF RowsKept
  <2>6. i \in Ids
    BY <2>1 DEF IInv, Shapes
  <2> QED
    BY <1>1, <1>2, <1>5, <2>1, <2>4, <2>5, <2>6
<1> QED
  BY <1>4, <1>5

LEMMA CommitKeeps ==
    ASSUME IInv, NEW r \in Sessions, Commit(r)
    PROVE  IInv'
<1>1. /\ RowsKept /\ DOMAIN rows' = DOMAIN rows \cup {Target(r)}
      /\ Target(r) \in Ids /\ IsRow(rows'[Target(r)])
      /\ rows'[Target(r)].table = session[r].request.table
      /\ session[r].request \in Requests
      /\ Inserts(r) => /\ Target(r) = r /\ r \notin DOMAIN rows
                       /\ session[r].request.table \in KeyedTables =>
                              rows'[r].key = session[r].request.key
  BY CommitRows
<1>2. /\ session[r].pc = "commit" /\ session[r] \in SessionType
      /\ Progress(r) /\ Exclusive(r)
  BY DEF IInv, Commit, Shapes
<1>3. ~Inserts(r) => Target(r) = session[r].found /\ Target(r) \in DOMAIN rows
  BY <1>2 DEF Target, Inserts, Progress, FoundRow
<1>4. /\ Ended(r, "ok") \in SessionType /\ Ended(r, "ok").pc = "done"
      /\ Ended(r, "ok").answer = "ok" /\ Ended(r, "ok").request = session[r].request
  BY EndedType DEF IInv, Answers
<1>5. /\ session' = [session EXCEPT ![r] = Ended(r, "ok")]
      /\ session'[r] = Ended(r, "ok") /\ OthersSame(r)
  <2>1. session' = [session EXCEPT ![r] = Ended(r, "ok")]
    BY DEF Commit
  <2>2. session \in [Sessions -> SessionType]
    BY DEF IInv, Shapes
  <2> QED
    BY <2>1, <2>2 DEF OthersSame, Same
<1> DEFINE entry == [entity |-> Target(r), by |-> r, diff |-> Diff(session[r].request)]
<1>6. entry \in EntryType
  BY <1>1 DEF EntryType
<1>7. /\ audit \in Seq(EntryType)
      /\ audit' = IF session[r].request.table # "goal" THEN audit ELSE Append(audit, entry)
  BY DEF Commit, IInv, Shapes
<1>8. Shapes'
  <2>1. session' \in [Sessions -> SessionType]
    BY <1>4, <1>5 DEF IInv, Shapes
  <2>2. audit' \in Seq(EntryType)
    BY <1>6, <1>7
  <2>3. DOMAIN rows' \subseteq Ids
    BY <1>1 DEF IInv, Shapes
  <2>4. \A i \in DOMAIN rows' : IsRow(rows'[i]) /\ rows'[i].table \in Tables
    <3>1. rows'[Target(r)].table \in Tables
      BY <1>1, UserDataAssumption
    <3> QED
      BY <1>1, <3>1 DEF RowsKept, IInv, Shapes
  <2> QED
    BY <2>1, <2>2, <2>3, <2>4 DEF Shapes
<1>9. \A q \in Sessions : Progress(q)'
  <2>1. ASSUME NEW q \in Sessions \ {r} PROVE Progress(q)'
    <3>1. q \in DOMAIN rows' => q \in DOMAIN rows
      BY <1>1, <1>3
    <3> QED
      BY <1>1, <1>5, <2>1, <3>1, ProgressKept DEF IInv, OthersSame
  <2>2. Progress(r)'
    <3>1. session[r].request.op = "register" =>
              r \in DOMAIN rows' /\ rows'[r].key = session[r].request.key
      <4>1. session[r].request.op = "register" =>
                Inserts(r) /\ session[r].request.table \in KeyedTables
        BY <1>1, <1>2, UserDataAssumption DEF Progress, Inserts, KeyedTables
      <4> QED
        BY <1>1, <4>1
    <3> QED
      BY <1>1, <1>4, <1>5, <3>1 DEF Progress
  <2> QED
    BY <2>1, <2>2
<1>10. EntriesOfGoals'
  <2>1. CASE audit' = audit
    BY <1>1, <2>1 DEF IInv, EntriesOfGoals, RowsKept
  <2>2. CASE session[r].request.table = "goal" /\ audit' = Append(audit, entry)
    <3> HIDE DEF entry
    <3>1. ASSUME NEW k \in DOMAIN audit'
          PROVE  (k \in DOMAIN audit /\ audit'[k] = audit[k]) \/ audit'[k] = entry
      BY <1>6, <1>7, <2>2
    <3>2. entry.entity = Target(r)
      BY DEF entry
    <3> QED
      BY <1>1, <2>2, <3>1, <3>2 DEF IInv, EntriesOfGoals, RowsKept
  <2> QED
    BY <1>7, <2>1, <2>2
<1>11. RowsOfKeys'
  <2>1. \A i \in DOMAIN rows' : i \in DOMAIN rows \/ (i = r /\ Inserts(r))
    BY <1>1, <1>3
  <2>2. Inserts(r) => \A i \in DOMAIN rows :
            /\ ~SameUniqueKey(rows'[i], rows'[r]) /\ ~SameUniqueKey(rows'[r], rows'[i])
    BY <1>1, <1>2 DEF RowsKept, Exclusive, Flushed, KeyTaken, SameUniqueKey
  <2>3. \A i, j \in DOMAIN rows : SameUniqueKey(rows'[i], rows'[j]) => i = j
    BY <1>1 DEF IInv, RowsOfKeys, RowsKept, SameUniqueKey
  <2> QED
    BY <2>1, <2>2, <2>3 DEF RowsOfKeys
<1>12. \A q \in Sessions : Exclusive(q)'
  <2>1. ~Exclusive(r)' => FALSE
    BY <1>4, <1>5 DEF Exclusive, Flushed
  <2>2. ASSUME NEW q \in Sessions \ {r}, Flushed(q), Inserts(q) PROVE ~KeyTaken(q)'
    <3>1. Exclusive(q) /\ ~KeyTaken(q) /\ (Inserts(r) => ~SameKey(q, r))
      BY <1>2, <2>2 DEF IInv, Exclusive, Flushed
    <3>2. \A i \in DOMAIN rows : ~ (/\ session[q].request.table \in KeyedTables
                                   /\ rows'[i].table = session[q].request.table
                                   /\ rows'[i].key = session[q].request.key)
      BY <1>1, <3>1 DEF RowsKept, KeyTaken
    <3>3. Inserts(r) => ~ (/\ session[q].request.table \in KeyedTables
                           /\ rows'[r].table = session[q].request.table
                           /\ rows'[r].key = session[q].request.key)
      BY <1>1, <3>1 DEF SameKey
    <3> QED
      BY <1>1, <1>3, <1>5, <3>2, <3>3 DEF KeyTaken, OthersSame, Same
  <2>3. ASSUME NEW q \in Sessions \ {r}, Flushed(q)', Inserts(q)' PROVE Exclusive(q)'
    <3>1. /\ session'[q].pc = session[q].pc /\ session'[q].request = session[q].request
          /\ session'[q].found = session[q].found
      BY <1>5, <2>3 DEF OthersSame, Same
    <3>2. ~KeyTaken(q)'
      BY <2>2, <2>3, <3>1 DEF Flushed, Inserts
    <3>3. ASSUME NEW p \in Sessions \ {q}, Flushed(p)', Inserts(p)' PROVE ~SameKey(q, p)'
      <4>1. /\ p # r /\ session'[p].pc = session[p].pc
            /\ session'[p].request = session[p].request /\ session'[p].found = session[p].found
        BY <1>4, <1>5, <3>3 DEF OthersSame, Same, Flushed
      <4> QED
        BY <2>3, <3>1, <3>3, <4>1 DEF IInv, Exclusive, Flushed, Inserts, SameKey
    <3> QED
      BY <3>2, <3>3 DEF Exclusive
  <2> QED
    BY <2>1, <2>3 DEF Exclusive
<1> QED
  BY <1>8, <1>9, <1>10, <1>11, <1>12 DEF IInv

LEMMA NextIInv == IInv /\ [Next]_vars => IInv'
<1> SUFFICES ASSUME IInv, [Next]_vars PROVE IInv'
  OBVIOUS
<1>1. ASSUME NEW r \in Sessions, NEW request \in Requests, Begin(r, request) PROVE IInv'
  BY <1>1, BeginKeeps
<1>2. ASSUME NEW r \in Sessions, Find(r) PROVE IInv'
  BY <1>2, FindKeeps
<1>3. ASSUME NEW r \in Sessions, Write(r) PROVE IInv'
  BY <1>3, WriteKeeps
<1>4. ASSUME NEW r \in Sessions, Commit(r) PROVE IInv'
  BY <1>4, CommitKeeps
<1>5. ASSUME NEW r \in Sessions, Crash(r) PROVE IInv'
  BY <1>5, AbortKeeps DEF Crash, Answers
<1>6. CASE UNCHANGED vars
  BY <1>6 DEF vars, IInv, Shapes, Progress, FoundRow, EntriesOfGoals, RowsOfKeys, Exclusive,
              Flushed, Inserts, KeyTaken, SameKey
<1> QED
  BY <1>1, <1>2, <1>3, <1>4, <1>5, <1>6 DEF Next, Step

-----------------------------------------------------------------------------
(* Tables, entries and sessions are well formed, and a request works on a  *)
(* row of its table, and of its user when it changes one by id, whatever   *)
(* the requests are and however they interleave (account_service.py:34-40, *)
(* asset_service.py:55-66, goals.py:25-35).                                *)
THEOREM TypeCorrect == Spec => []TypeOK
<1>1. IInv => TypeOK
  BY DEF IInv, Shapes, Progress, FoundRow, EntriesOfGoals, TypeOK, SessionType, Phases, Inserts
<1> QED
  BY <1>1, InitIInv, NextIInv, PTL DEF Spec

(* No two rows have the same unique key, and everybody who was told that   *)
(* an address is now theirs has the row to it: of registrations or upserts *)
(* that find nothing together, one inserts (auth_service.py:10-23,         *)
(* assumptions.py:31-34, 58-71).                                           *)
THEOREM KeysAreUnique == Spec => []OneRowPerKey
<1>1. IInv => OneRowPerKey
  BY DEF IInv, Progress, RowsOfKeys, OneRowPerKey
<1> QED
  BY <1>1, InitIInv, NextIInv, PTL DEF Spec

(* The rows that a step changes or adds.                                   *)
Touched == {i \in DOMAIN rows' : i \in DOMAIN rows => rows'[i] # rows[i]}

(* No row goes away or changes its table, owner or key, and a change by id *)
(* reaches rows of that user only, also when it was decided on a row read  *)
(* some steps before the commit (account_service.py:57-71,                 *)
(* asset_service.py:85-93, goals.py:83-100).                               *)
THEOREM OwnRowsOnly ==
    Spec => [][/\ RowsKept
               /\ \A r \in Sessions : Commit(r) /\ session[r].request.op = "change" =>
                      \A i \in Touched \cap DOMAIN rows :
                          rows[i].owner = session[r].request.user]_vars
<1> DEFINE Kept ==
        /\ RowsKept
        /\ \A r \in Sessions : Commit(r) /\ session[r].request.op = "change" =>
               \A i \in Touched \cap DOMAIN rows : rows[i].owner = session[r].request.user
<1>1. ASSUME IInv, Next PROVE Kept
  <2>1. RowsKept
    <3>1. CASE \E r \in Sessions : Commit(r)
      BY <1>1, <3>1, CommitRows
    <3>2. CASE rows' = rows
      BY <1>1, <3>2, RowsUnchanged DEF IInv
    <3>3. ASSUME NEW r \in Sessions,
                 Find(r) \/ Write(r) \/ Crash(r) \/ \E request \in Requests : Begin(r, request)
          PROVE  rows' = rows
      BY <3>3 DEF Find, Write, Crash, Begin, Abort, Advance
    <3> QED
      BY <1>1, <3>1, <3>2, <3>3 DEF Next, Step
  <2>2. ASSUME NEW r \in Sessions, Commit(r), session[r].request.op = "change",
               NEW i \in Touched \cap DOMAIN rows
        PROVE  rows[i].owner = session[r].request.user
    <3>1. i = Target(r) /\ i \in DOMAIN rows
      BY <2>2 DEF Commit, Touched
    <3>2. session[r].pc = "commit" /\ Progress(r)
      BY <1>1, <2>2 DEF IInv, Commit
    <3>3. CASE Inserts(r)
      BY <3>1, <3>2, <3>3 DEF Target, Progress
    <3>4. CASE ~Inserts(r)
      BY <2>2, <3>1, <3>2, <3>4 DEF Target, Inserts, Progress, FoundRow
    <3> QED
      BY <3>3, <3>4
  <2> QED
    BY <2>1, <2>2
<1>2. IInv /\ [Next]_vars => [Kept]_vars
  BY <1>1
<1> QED
  BY <1>2, InitIInv, NextIInv, PTL DEF Spec

-----------------------------------------------------------------------------
(* What the audit log tells of a goal whose authors did not overlap: of    *)
(* each column that an entry names, the last entry that does has what the  *)
(* goal has now.                                                           *)
EntriesOf(g) == {k \in DOMAIN audit : audit[k].entity = g}
Authors(g) == {audit[k].by : k \in EntriesOf(g)}
Solo(g) == \A q, r \in Authors(g) : q \notin session[r].met

Told(g) ==
    \A k \in EntriesOf(g) : \A c \in DOMAIN audit[k].diff :
        \E m \in EntriesOf(g) :
            /\ c \in DOMAIN audit[m].diff /\ rows[g].columns[c] = audit[m].diff[c]
            /\ \A j \in EntriesOf(g) : c \in DOMAIN audit[j].diff => j <= m

(* A request still knows the row it has read, unless an author of the row  *)
(* has met it.                                                             *)
Knowing(r) ==
    /\ session[r].pc \in {"write", "commit"} /\ session[r].found # None
    /\ session[r].request.table = "goal"
    /\ Authors(session[r].found) \cap session[r].met = {}
    => session[r].dirty = Differing(session[r].request.set, rows[session[r].found])

(* A change by id has a row; a create has looked for none.                 *)
Decided(r) ==
    session[r].pc \in {"write", "commit"} =>
        /\ session[r].request.op = "change" => session[r].found # None
        /\ session[r].request.op = "create" => session[r].found = None

Together == \A q, r \in Sessions : q # r /\ Live(q) /\ Live(r) => q \in session[r].met

ColumnsKept ==
    \A i \in DOMAIN rows, request \in Requests :
        rows[i].table = request.table => DOMAIN request.set \subseteq DOMAIN rows[i].columns

EntriesFit ==
    \A k \in DOMAIN audit :
        /\ session[audit[k].by].pc = "done"
        /\ DOMAIN audit[k].diff \subseteq DOMAIN rows[audit[k].entity].columns

AuditInv ==
    /\ Together /\ ColumnsKept /\ EntriesFit
    /\ \A r \in Sessions : Knowing(r) /\ Decided(r)
    /\ \A g \in DOMAIN rows : Solo(g) => Told(g)

(* Steps that commit nothing, and keep what those served have met.         *)
LEMMA QuietKeeps ==
    ASSUME IInv, AuditInv, rows' = rows, audit' = audit,
           \A q \in Sessions : session[q].pc = "done" => session'[q] = session[q],
           Together', \A q \in Sessions : Knowing(q)' /\ Decided(q)'
    PROVE  AuditInv'
<1>1. ColumnsKept'
  BY DEF AuditInv, ColumnsKept
<1>2. ASSUME NEW k \in DOMAIN audit
      PROVE  audit[k].by \in Sessions /\ session[audit[k].by].pc = "done"
  <2>1. audit[k] \in EntryType
    BY DEF IInv, Shapes
  <2>2. audit[k].by \in Sessions
    BY <2>1 DEF EntryType
  <2> QED
    BY <2>2 DEF AuditInv, EntriesFit
<1>3. EntriesFit'
  BY <1>2 DEF AuditInv, EntriesFit
<1>4. ASSUME NEW g \in DOMAIN rows, Solo(g)'
      PROVE  Told(g)'
  <2>1. \A r \in Authors(g) : session'[r] = session[r]
    BY <1>2 DEF Authors, EntriesOf
  <2>2. Authors(g)' = Authors(g) /\ EntriesOf(g)' = EntriesOf(g)
    BY DEF Authors, EntriesOf
  <2>3. Solo(g)
    BY <1>4, <2>1, <2>2 DEF Solo
  <2> QED
    BY <2>2, <2>3 DEF AuditInv, Told
<1> QED
  BY <1>1, <1>3, <1>4 DEF AuditInv

LEMMA KnowingKept ==
    ASSUME NEW q \in Sessions, Knowing(q), Decided(q), Same(q),
           session'[q].dirty = session[q].dirty,
           session[q].met \subseteq session'[q].met, rows' = rows, audit' = audit
    PROVE  Knowing(q)' /\ Decided(q)'
BY DEF Knowing, Decided, Same, Authors, EntriesOf

(* A request that moves on alone, without a commit.                        *)
LEMMA MovingKeeps ==
    ASSUME IInv, AuditInv, NEW r \in Sessions, Live(r), NEW new, Advance(r, new),
           new.met = session[r].met, Knowing(r)', Decided(r)'
    PROVE  AuditInv'
<1>1. /\ \A q \in Sessions : session'[q] = IF q = r THEN new ELSE session[q]
      /\ rows' = rows /\ audit' = audit
  BY DEF Advance, IInv, Shapes
<1>2. Together'
  BY <1>1 DEF AuditInv, Together, Live
<1>3. ASSUME NEW q \in Sessions
      PROVE  Knowing(q)' /\ Decided(q)'
  <2>1. CASE q = r
    BY <2>1
  <2>2. CASE q # r
    BY <1>1, <2>2, KnowingKept DEF AuditInv, Same
  <2> QED
    BY <2>1, <2>2
<1>4. \A q \in Sessions : session[q].pc = "done" => session'[q] = session[q]
  BY <1>1 DEF Live
<1> QED
  BY <1>1, <1>2, <1>3, <1>4, QuietKeeps

LEMMA AbortTells ==
    ASSUME IInv, AuditInv, NEW r \in Sessions, Live(r), NEW why \in Answers, Abort(r, why)
    PROVE  AuditInv'
<1>1. /\ Ended(r, why).pc = "done" /\ Ended(r, why).met = session[r].met
      /\ Ended(r, why).found = None
  BY DEF Ended, Idle
<1>2. session'[r] = Ended(r, why) /\ Advance(r, Ended(r, why))
  BY DEF Abort, Advance, IInv, Shapes
<1>3. Knowing(r)' /\ Decided(r)'
  BY <1>1, <1>2 DEF Decided, Knowing
<1> QED
  BY <1>1, <1>2, <1>3, MovingKeeps

LEMMA BeginTells ==
    ASSUME IInv, AuditInv, NEW r \in Sessions, NEW request \in Requests, Begin(r, request)
    PROVE  AuditInv'
<1> DEFINE new == [Idle EXCEPT !.pc = "find", !.request = request, !.met = Peers(r)]
<1>1. /\ session' = [q \in Sessions |->
            IF q = r THEN new
            ELSE IF Live(q) THEN [session[q] EXCEPT !.met = @ \cup {r}] ELSE session[q]]
      /\ rows' = rows /\ audit' = audit /\ session[r].pc = "idle"
  BY DEF Begin, Begun
<1>2. new.pc = "find" /\ new.met = Peers(r)
  BY DEF Idle
<1>3. session'[r] = new
  BY <1>1
<1> HIDE DEF new
<1>4. ASSUME NEW q \in Sessions, q # r
      PROVE  /\ Same(q) /\ session'[q].dirty = session[q].dirty
             /\ session[q].met \subseteq session'[q].met
             /\ Live(q) => r \in session'[q].met
             /\ ~Live(q) => session'[q] = session[q]
  <2>1. session[q] \in SessionType
    BY DEF IInv, Shapes
  <2>2. CASE Live(q)
    <3>1. session'[q] = [session[q] EXCEPT !.met = @ \cup {r}]
      BY <1>1, <1>4, <2>2
    <3> QED
      BY <2>1, <2>2, <3>1 DEF SessionType, Same
  <2>3. CASE ~Live(q)
    BY <1>1, <1>4, <2>3 DEF Same
  <2> QED
    BY <2>2, <2>3
<1>5. Together'
  <2> SUFFICES ASSUME NEW p \in Sessions, NEW q \in Sessions, p # q, Live(p)', Live(q)'
               PROVE  p \in session'[q].met
    BY DEF Together
  <2>1. CASE q = r
    <3>1. Live(p)
      BY <1>4, <2>1 DEF Same, Live
    <3> QED
      BY <1>2, <1>3, <2>1, <3>1 DEF Peers
  <2>2. CASE p = r
    <3>1. Live(q)
      BY <1>4, <2>2 DEF Same, Live
    <3> QED
      BY <1>4, <2>2, <3>1
  <2>3. CASE p # r /\ q # r
    <3>1. Live(p) /\ Live(q)
      BY <1>4, <2>3 DEF Same, Live
    <3> QED
      BY <1>4, <2>3, <3>1 DEF AuditInv, Together
  <2> QED
    BY <2>1, <2>2, <2>3
<1>6. ASSUME NEW q \in Sessions
      PROVE  Knowing(q)' /\ Decided(q)'
  <2>1. CASE q = r
    BY <1>2, <1>3, <2>1 DEF Knowing, Decided
  <2>2. CASE q # r
    BY <1>1, <1>4, <2>2, KnowingKept DEF AuditInv
  <2> QED
    BY <2>1, <2>2
<1>7. \A q \in Sessions : session[q].pc = "done" => session'[q] = session[q]
  BY <1>1, <1>4 DEF Live
<1> QED
  BY <1>1, <1>5, <1>6, <1>7, QuietKeeps

LEMMA FindTells ==
    ASSUME IInv, AuditInv, NEW r \in Sessions, Find(r)
    PROVE  AuditInv'
<1>1. session[r].pc = "find" /\ session[r].found = None /\ Live(r) /\ session[r] \in SessionType
  BY DEF Find, IInv, Progress, Shapes, Live
<1>2. ASSUME NEW why \in Answers, Abort(r, why)
      PROVE  AuditInv'
  BY <1>1, <1>2, AbortTells
<1>3. CASE session[r].request.op # "change" /\ Advance(r, [session[r] EXCEPT !.pc = "write"])
  <2> DEFINE new == [session[r] EXCEPT !.pc = "write"]
  <2>1. /\ new.found = None /\ new.met = session[r].met
        /\ new.request = session[r].request
    BY <1>1 DEF SessionType
  <2>2. session'[r] = new /\ Advance(r, new)
    BY <1>3 DEF Advance, IInv, Shapes
  <2> HIDE DEF new
  <2>3. Knowing(r)' /\ Decided(r)'
    BY <1>3, <2>1, <2>2 DEF Decided, Knowing
  <2> QED
    BY <1>1, <2>1, <2>2, <2>3, MovingKeeps
<1>4. ASSUME NEW i, i # None, session[r].request.op # "create",
             Advance(r, [session[r] EXCEPT !.pc = "write", !.found = i,
                             !.dirty = Differing(session[r].request.set, rows[i])])
      PROVE  AuditInv'
  <2> DEFINE new == [session[r] EXCEPT !.pc = "write", !.found = i,
                             !.dirty = Differing(session[r].request.set, rows[i])]
  <2>1. /\ new.found = i /\ new.met = session[r].met /\ new.request = session[r].request
        /\ new.dirty = Differing(session[r].request.set, rows[i])
    BY <1>1 DEF SessionType
  <2>2. session'[r] = new /\ rows' = rows /\ Advance(r, new)
    BY <1>4 DEF Advance, IInv, Shapes
  <2> HIDE DEF new
  <2>3. Knowing(r)' /\ Decided(r)'
    BY <1>4, <2>1, <2>2 DEF Decided, Knowing, Differing
  <2> QED
    BY <1>1, <2>1, <2>2, <2>3, MovingKeeps
<1>5. ASSUME session[r].request.op \in {"upsert", "change"}
      PROVE  \A i \in Sought(session[r].request) : i \in DOMAIN rows
  BY <1>5 DEF Sought, RowsByKey, OwnRowById
<1>6. None \notin DOMAIN rows
  BY UserDataAssumption DEF IInv, Shapes, Ids
<1> QED
  BY <1>2, <1>3, <1>4, <1>5, <1>6 DEF Find, Answers

LEMMA WriteTells ==
    ASSUME IInv, AuditInv, NEW r \in Sessions, Write(r)
    PROVE  AuditInv'
<1>1. session[r].pc = "write" /\ Live(r) /\ session[r] \in SessionType
  BY DEF Write, IInv, Shapes, Live
<1>2. CASE Abort(r, "error")
  BY <1>1, <1>2, AbortTells DEF Answers
<1>3. CASE Advance(r, [session[r] EXCEPT !.pc = "commit"])
  <2> DEFINE new == [session[r] EXCEPT !.pc = "commit"]
  <2>1. /\ new.found = session[r].found /\ new.met = session[r].met
        /\ new.request = session[r].request /\ new.dirty = session[r].dirty
    BY <1>1 DEF SessionType
  <2>2. session'[r] = new /\ rows' = rows /\ audit' = audit /\ Advance(r, new)
    BY <1>3 DEF Advance, IInv, Shapes
  <2> HIDE DEF new
  <2>3. Knowing(r)' /\ Decided(r)'
    BY <1>1, <2>1, <2>2 DEF Decided, AuditInv, Knowing, Authors, EntriesOf
  <2> QED
    BY <1>1, <2>1, <2>2, <2>3, MovingKeeps
<1> QED
  BY <1>2, <1>3 DEF Write

(* What a commit leaves of the row: the columns its request has set, and   *)
(* the others as they were.                                                *)
LEMMA CommittedColumns ==
    ASSUME IInv, AuditInv, NEW r \in Sessions, Commit(r)
    PROVE  LET set == session[r].request.set
               columns == rows'[Target(r)].columns
           IN  /\ DOMAIN set \subseteq DOMAIN columns
               /\ \A i \in DOMAIN rows \ {Target(r)} : rows'[i] = rows[i]
               /\ Inserts(r) => columns = set
               /\ ~Inserts(r) =>
                      LET before == rows[Target(r)].columns
                      IN  /\ DOMAIN columns = DOMAIN before
                          /\ \A c \in DOMAIN before :
                                 columns[c] = IF c \in session[r].dirty THEN set[c] ELSE before[c]
<1>1. session[r].pc = "commit" /\ Progress(r) /\ session[r].request \in Requests
  BY DEF IInv, Commit, Progress
<1>2. /\ \A i \in DOMAIN rows \ {Target(r)} : rows'[i] = rows[i]
      /\ rows'[Target(r)] = IF Inserts(r) THEN NewRow(r) ELSE ChangedRow(r)
  BY DEF Commit
<1>3. CASE Inserts(r)
  BY <1>2, <1>3 DEF NewRow
<1>4. CASE ~Inserts(r)
  <2>1. /\ Target(r) = session[r].found /\ Target(r) \in DOMAIN rows
        /\ rows[Target(r)].table = session[r].request.table
    BY <1>1, <1>4 DEF Target, Inserts, Progress, FoundRow
  <2>2. IsRow(rows[Target(r)])
    BY <2>1 DEF IInv, Shapes
  <2>3. rows'[Target(r)].columns
            = [c \in DOMAIN rows[Target(r)].columns |->
                  IF c \in session[r].dirty THEN session[r].request.set[c]
                                            ELSE rows[Target(r)].columns[c]]
    BY <1>2, <1>4, <2>1, <2>2 DEF ChangedRow, IsRow
  <2>4. DOMAIN session[r].request.set \subseteq DOMAIN rows[Target(r)].columns
    BY <1>1, <2>1 DEF AuditInv, ColumnsKept
  <2> QED
    BY <1>2, <1>4, <2>3, <2>4
<1> QED
  BY <1>3, <1>4

LEMMA CommitKeepsColumns ==
    ASSUME IInv, AuditInv, NEW r \in Sessions, Commit(r)
    PROVE  /\ ColumnsKept'
           /\ \A i \in DOMAIN rows : DOMAIN rows[i].columns \subseteq DOMAIN rows'[i].columns
<1> DEFINE t == Target(r)
<1>1. /\ RowsKept /\ DOMAIN rows' = DOMAIN rows \cup {t}
      /\ rows'[t].table = session[r].request.table /\ session[r].request \in Requests
      /\ Inserts(r) => t \notin DOMAIN rows
  BY CommitRows
<1>2. /\ \A i \in DOMAIN rows \ {t} : rows'[i] = rows[i]
      /\ Inserts(r) => rows'[t].columns = session[r].request.set
      /\ ~Inserts(r) => DOMAIN rows'[t].columns = DOMAIN rows[t].columns
  BY CommittedColumns
<1>3. ~Inserts(r) => t \in DOMAIN rows
  BY DEF IInv, Commit, Target, Inserts, Progress, FoundRow
<1>4. session[r].request.op = "change" => ~Inserts(r)
  BY DEF AuditInv, Decided, Commit, Inserts
<1>5. \A i \in DOMAIN rows : DOMAIN rows[i].columns \subseteq DOMAIN rows'[i].columns
  BY <1>1, <1>2
<1>6. ASSUME NEW i \in DOMAIN rows', NEW request \in Requests, rows'[i].table = request.table
      PROVE  DOMAIN request.set \subseteq DOMAIN rows'[i].columns
  <2>1. CASE i \in DOMAIN rows
    <3>1. DOMAIN request.set \subseteq DOMAIN rows[i].columns
      BY <1>1, <1>6, <2>1 DEF AuditInv, ColumnsKept, RowsKept
    <3> QED
      BY <1>5, <2>1, <3>1
  <2>2. CASE i \notin DOMAIN rows
    <3>1. i = t /\ Inserts(r)
      BY <1>1, <1>3, <1>6, <2>2
    <3> QED
      BY <1>1, <1>2, <1>4, <1>6, <3>1, UserDataAssumption
  <2> QED
    BY <2>1, <2>2
<1>7. ColumnsKept'
  BY <1>6 DEF ColumnsKept
<1> QED
  BY <1>5, <1>7

(* The entry a commit adds, if its row is a goal.                          *)
LEMMA CommitEntry ==
    ASSUME IInv, AuditInv, NEW r \in Sessions, Commit(r), session[r].request.table = "goal"
    PROVE  LET last == Len(audit) + 1
               diff == audit'[last].diff
           IN  /\ DOMAIN audit' = DOMAIN audit \cup {last}
               /\ last \in Nat /\ \A k \in DOMAIN audit : k \in Nat /\ k < last
               /\ \A k \in DOMAIN audit : audit'[k] = audit[k]
               /\ audit'[last].entity = Target(r) /\ audit'[last].by = r
               /\ diff = Diff(session[r].request)
               /\ DOMAIN diff \subseteq DOMAIN session[r].request.set
               /\ \A c \in DOMAIN diff : diff[c] = session[r].request.set[c]
               /\ session[r].request.op # "create" => DOMAIN diff = DOMAIN session[r].request.set
<1> DEFINE entry == [entity |-> Target(r), by |-> r, diff |-> Diff(session[r].request)]
<1>1. audit' = Append(audit, entry) /\ audit \in Seq(EntryType)
  BY DEF Commit, IInv, Shapes
<1>2. /\ entry.entity = Target(r) /\ entry.by = r /\ entry.diff = Diff(session[r].request)
  OBVIOUS
<1> HIDE DEF entry
<1>3. /\ DOMAIN audit' = DOMAIN audit \cup {Len(audit) + 1} /\ Len(audit) \in Nat
      /\ \A k \in DOMAIN audit : k \in Nat /\ k < Len(audit) + 1
      /\ \A k \in DOMAIN audit : audit'[k] = audit[k]
      /\ audit'[Len(audit) + 1] = entry
  BY <1>1
<1>4. /\ DOMAIN Diff(session[r].request) \subseteq DOMAIN session[r].request.set
      /\ \A c \in DOMAIN Diff(session[r].request) :
             Diff(session[r].request)[c] = session[r].request.set[c]
      /\ session[r].request.op # "create" =>
             DOMAIN Diff(session[r].request) = DOMAIN session[r].request.set
  BY DEF Diff
<1> QED
  BY <1>2, <1>3, <1>4

(* A commit tells of its goal: it sets what its request asks for, written  *)
(* or already there, and leaves the rest.                                  *)
LEMMA CommitTells ==
    ASSUME IInv, AuditInv, NEW r \in Sessions, Commit(r)
    PROVE  AuditInv'
<1>0. PICK t, last, set :
        t = Target(r) /\ last = Len(audit) + 1 /\ set = session[r].request.set
  OBVIOUS
<1>1. /\ session[r].pc = "commit" /\ session[r] \in SessionType /\ Progress(r) /\ Knowing(r)
      /\ Decided(r) /\ Live(r)
  BY DEF IInv, AuditInv, Commit, Shapes, Live
<1>2. /\ RowsKept /\ DOMAIN rows' = DOMAIN rows \cup {t}
      /\ rows'[t].table = session[r].request.table
      /\ Inserts(r) => t = r /\ t \notin DOMAIN rows
  BY <1>0, CommitRows
<1>3. ~Inserts(r) => t = session[r].found /\ t \in DOMAIN rows /\ session[r].found # None
  BY <1>0, <1>1 DEF Target, Inserts, Progress, FoundRow
<1>4. /\ \A q \in Sessions : session'[q] = IF q = r THEN Ended(r, "ok") ELSE session[q]
      /\ Ended(r, "ok").pc = "done" /\ Ended(r, "ok").met = session[r].met
  BY DEF Commit, IInv, Shapes, Ended, Idle
<1>5. Together'
  BY <1>4 DEF AuditInv, Together, Live
<1>6. \A k \in DOMAIN audit :
          /\ audit[k].by \in Sessions /\ session[audit[k].by].pc = "done" /\ audit[k].by # r
          /\ audit[k].entity \in DOMAIN rows /\ rows[audit[k].entity].table = "goal"
          /\ DOMAIN audit[k].diff \subseteq DOMAIN rows[audit[k].entity].columns
  <2> SUFFICES ASSUME NEW k \in DOMAIN audit
               PROVE  /\ audit[k].by \in Sessions
                      /\ session[audit[k].by].pc = "done" /\ audit[k].by # r
                      /\ audit[k].entity \in DOMAIN rows /\ rows[audit[k].entity].table = "goal"
                      /\ DOMAIN audit[k].diff \subseteq DOMAIN rows[audit[k].entity].columns
    OBVIOUS
  <2>1. audit[k] \in EntryType
    BY DEF IInv, Shapes
  <2>2. audit[k].by \in Sessions
    BY <2>1 DEF EntryType
  <2>3. /\ session[audit[k].by].pc = "done"
        /\ DOMAIN audit[k].diff \subseteq DOMAIN rows[audit[k].entity].columns
    BY DEF AuditInv, EntriesFit
  <2>4. audit[k].entity \in DOMAIN rows /\ rows[audit[k].entity].table = "goal"
    BY DEF IInv, EntriesOfGoals
  <2> QED
    BY <1>1, <2>2, <2>3, <2>4
<1>7. /\ ColumnsKept'
      /\ \A i \in DOMAIN rows : DOMAIN rows[i].columns \subseteq DOMAIN rows'[i].columns
  BY CommitKeepsColumns
<1>8. \A q \in Sessions : Decided(q)'
  BY <1>4 DEF AuditInv, Decided
<1>9. CASE session[r].request.table # "goal"
  <2>1. audit' = audit
    BY <1>9 DEF Commit
  <2>2. \A i \in DOMAIN rows : rows[i].table = "goal" => i # t /\ rows'[i] = rows[i]
    BY <1>0, <1>2, <1>9, CommittedColumns DEF RowsKept
  <2>3. EntriesFit'
    BY <1>4, <1>6, <2>1, <2>2 DEF EntriesFit
  <2>4. ASSUME NEW q \in Sessions
        PROVE  Knowing(q)'
    <3>1. CASE q = r
      BY <1>4, <3>1 DEF Knowing
    <3>2. CASE q # r /\ session[q].request.table = "goal" /\ session[q].pc \in {"write", "commit"}
               /\ session[q].found # None
      <4>1. session'[q] = session[q] /\ Knowing(q)
        BY <1>4, <3>2 DEF AuditInv
      <4>2. rows'[session[q].found] = rows[session[q].found]
        BY <2>2, <3>2 DEF IInv, Progress, FoundRow
      <4>3. Authors(session[q].found)' = Authors(session[q].found)
        BY <2>1, <4>1 DEF Authors, EntriesOf
      <4> QED
        BY <4>1, <4>2, <4>3 DEF Knowing
    <3> QED
      BY <1>4, <3>1, <3>2 DEF Knowing
  <2>5. ASSUME NEW g \in DOMAIN rows', Solo(g)'
        PROVE  Told(g)'
    <3>1. EntriesOf(g)' = EntriesOf(g) /\ Authors(g)' = Authors(g)
      BY <2>1 DEF EntriesOf, Authors
    <3>2. CASE EntriesOf(g) = {}
      BY <3>1, <3>2 DEF Told
    <3>3. CASE EntriesOf(g) # {}
      <4>1. g \in DOMAIN rows /\ rows'[g] = rows[g]
        BY <1>6, <2>2, <3>3 DEF EntriesOf
      <4>2. \A q \in Authors(g) : session'[q] = session[q]
        BY <1>4, <1>6 DEF Authors, EntriesOf
      <4>3. Solo(g)
        BY <2>5, <3>1, <4>2 DEF Solo
      <4> QED
        BY <2>1, <3>1, <4>1, <4>3 DEF AuditInv, Told
    <3> QED
      BY <3>2, <3>3
  <2> QED
    BY <1>5, <1>7, <1>8, <2>3, <2>4, <2>5 DEF AuditInv
<1>10. CASE session[r].request.table = "goal"
  <2> DEFINE diff == audit'[last].diff
  <2>1. /\ DOMAIN audit' = DOMAIN audit \cup {last}
        /\ last \in Nat /\ \A k \in DOMAIN audit : k \in Nat /\ k < last
        /\ \A k \in DOMAIN audit : audit'[k] = audit[k]
        /\ audit'[last].entity = t /\ audit'[last].by = r
        /\ DOMAIN diff \subseteq DOMAIN set
        /\ \A c \in DOMAIN diff : diff[c] = set[c]
        /\ session[r].request.op # "create" => DOMAIN diff = DOMAIN set
    BY <1>0, <1>10, CommitEntry
  <2>2. /\ DOMAIN set \subseteq DOMAIN rows'[t].columns
        /\ \A i \in DOMAIN rows \ {t} : rows'[i] = rows[i]
        /\ Inserts(r) => rows'[t].columns = set
        /\ ~Inserts(r) =>
               \A c \in DOMAIN rows[t].columns :
                   rows'[t].columns[c] = IF c \in session[r].dirty THEN set[c]
                                                                    ELSE rows[t].columns[c]
    BY <1>0, CommittedColumns
  <2> HIDE DEF diff
  <2>3. EntriesFit'
    <3> SUFFICES ASSUME NEW k \in DOMAIN audit'
                 PROVE  /\ session'[audit'[k].by].pc = "done"
                        /\ DOMAIN audit'[k].diff \subseteq DOMAIN rows'[audit'[k].entity].columns
      BY DEF EntriesFit
    <3>1. CASE k = last
      BY <1>4, <2>1, <2>2, <3>1 DEF diff
    <3>2. CASE k \in DOMAIN audit
      BY <1>4, <1>6, <1>7, <2>1, <3>2
    <3> QED
      BY <2>1, <3>1, <3>2
  <2>4. /\ EntriesOf(t)' = EntriesOf(t) \cup {last} /\ Authors(t)' = Authors(t) \cup {r}
        /\ \A g : g # t => EntriesOf(g)' = EntriesOf(g) /\ Authors(g)' = Authors(g)
    BY <2>1 DEF EntriesOf, Authors
  <2>5. ASSUME NEW q \in Sessions
        PROVE  Knowing(q)'
    <3>1. CASE q = r
      BY <1>4, <3>1 DEF Knowing
    <3>2. CASE q # r /\ session[q].pc \in {"write", "commit"} /\ session[q].found # None
      <4>1. session'[q] = session[q] /\ Knowing(q)
        BY <1>4, <3>2 DEF AuditInv
      <4>2. CASE session[q].found = t
        <5>1. r \in session[q].met
          BY <1>1, <3>2 DEF AuditInv, Together, Live
        <5> QED
          BY <2>4, <4>1, <4>2, <5>1 DEF Knowing
      <4>3. CASE session[q].found # t
        <5>1. rows'[session[q].found] = rows[session[q].found]
          BY <2>2, <3>2, <4>3 DEF IInv, Progress, FoundRow
        <5>2. Authors(session[q].found)' = Authors(session[q].found)
          BY <2>4, <4>1, <4>3
        <5> QED
          BY <4>1, <5>1, <5>2 DEF Knowing
      <4> QED
        BY <4>2, <4>3
    <3> QED
      BY <1>4, <3>1, <3>2 DEF Knowing
  <2>6. ASSUME NEW g \in DOMAIN rows', g # t, Solo(g)'
        PROVE  Told(g)'
    <3>1. g \in DOMAIN rows /\ rows'[g] = rows[g]
      BY <1>2, <2>2, <2>6
    <3>2. EntriesOf(g)' = EntriesOf(g) /\ Authors(g)' = Authors(g)
      BY <2>4, <2>6
    <3>3. \A q \in Authors(g) : session'[q] = session[q]
      BY <1>4, <1>6 DEF Authors, EntriesOf
    <3>4. Solo(g)
      BY <2>6, <3>2, <3>3 DEF Solo
    <3>5. \A k \in EntriesOf(g) : audit'[k] = audit[k]
      BY <2>1 DEF EntriesOf
    <3> QED
      BY <3>1, <3>2, <3>4, <3>5 DEF AuditInv, Told
  <2>7. ASSUME Solo(t)'
        PROVE  Told(t)'
    <3>1. \A q \in Authors(t) : session'[q] = session[q] /\ q \in Sessions
      BY <1>4, <1>6 DEF Authors, EntriesOf
    <3>2. session'[r].met = session[r].met
      BY <1>4
    <3>3. Solo(t) /\ Authors(t) \cap session[r].met = {}
      BY <2>4, <2>7, <3>1, <3>2 DEF Solo
    <3>4. ASSUME ~Inserts(r)
          PROVE  /\ session[r].dirty = Differing(set, rows[t]) /\ t \in DOMAIN rows
                 /\ DOMAIN diff = DOMAIN set /\ Told(t)
      <4>1. t = session[r].found /\ session[r].found # None /\ t \in DOMAIN rows
        BY <1>3, <3>4
      <4> QED
        BY <1>0, <1>1, <1>10, <2>1, <3>3, <4>1 DEF Knowing, Decided, AuditInv
    <3>5. ASSUME Inserts(r)
          PROVE  EntriesOf(t) = {}
      BY <1>2, <1>6, <3>5 DEF EntriesOf
    <3>6. \A c \in DOMAIN diff : rows'[t].columns[c] = diff[c]
      <4> SUFFICES ASSUME NEW c \in DOMAIN diff
                   PROVE  rows'[t].columns[c] = set[c]
        BY <2>1
      <4>1. CASE Inserts(r)
        BY <2>2, <4>1
      <4>2. CASE ~Inserts(r)
        <5>1. c \in DOMAIN set /\ c \in DOMAIN rows[t].columns
          BY <1>0, <1>1, <1>3, <2>1, <4>2 DEF AuditInv, ColumnsKept, Progress, FoundRow
        <5> QED
          BY <2>2, <3>4, <4>2, <5>1 DEF Differing
      <4> QED
        BY <4>1, <4>2
    <3>7. ASSUME NEW k \in EntriesOf(t)', NEW c \in DOMAIN audit'[k].diff
          PROVE  \E m \in EntriesOf(t)' :
                     /\ c \in DOMAIN audit'[m].diff /\ rows'[t].columns[c] = audit'[m].diff[c]
                     /\ \A j \in EntriesOf(t)' : c \in DOMAIN audit'[j].diff => j <= m
      <4>1. \A j \in EntriesOf(t) : /\ j \in DOMAIN audit /\ j \in Nat /\ j < last
                                     /\ audit'[j] = audit[j]
        BY <2>1 DEF EntriesOf
      <4>2. CASE c \in DOMAIN diff
        <5>1. /\ last \in EntriesOf(t)' /\ c \in DOMAIN audit'[last].diff
              /\ rows'[t].columns[c] = audit'[last].diff[c]
          BY <2>4, <3>6, <4>2 DEF diff
        <5>2. \A j \in EntriesOf(t)' : j <= last
          BY <2>1, <2>4, <4>1
        <5> QED
          BY <5>1, <5>2
      <4>3. CASE c \notin DOMAIN diff
        <5>1. k \in EntriesOf(t) /\ c \in DOMAIN audit[k].diff
          BY <2>4, <3>7, <4>1, <4>3 DEF diff
        <5>2. ~Inserts(r)
          BY <3>5, <5>1
        <5>3. PICK m \in EntriesOf(t) :
                /\ c \in DOMAIN audit[m].diff /\ rows[t].columns[c] = audit[m].diff[c]
                /\ \A j \in EntriesOf(t) : c \in DOMAIN audit[j].diff => j <= m
          BY <3>4, <5>1, <5>2 DEF Told
        <5>4. c \in DOMAIN rows[t].columns
          BY <1>6, <5>1 DEF EntriesOf
        <5>5. c \notin session[r].dirty
          BY <3>4, <4>3, <5>2 DEF Differing
        <5>6. rows'[t].columns[c] = rows[t].columns[c]
          BY <2>2, <5>2, <5>4, <5>5
        <5>7. \A j \in EntriesOf(t)' : c \in DOMAIN audit'[j].diff => j \in EntriesOf(t)
          BY <2>4, <4>3 DEF diff
        <5>8. /\ c \in DOMAIN audit'[m].diff /\ rows'[t].columns[c] = audit'[m].diff[c]
              /\ m \in EntriesOf(t)'
          BY <2>4, <4>1, <5>3, <5>6
        <5>9. \A j \in EntriesOf(t)' : c \in DOMAIN audit'[j].diff => j <= m
          BY <4>1, <5>3, <5>7
        <5> QED
          BY <5>8, <5>9
      <4> QED
        BY <4>2, <4>3
    <3> QED
      BY <3>7 DEF Told
  <2> QED
    BY <1>5, <1>7, <1>8, <2>3, <2>5, <2>6, <2>7 DEF AuditInv
<1> QED
  BY <1>9, <1>10

LEMMA NextTells == IInv /\ AuditInv /\ [Next]_vars => AuditInv'
<1> SUFFICES ASSUME IInv, AuditInv, [Next]_vars PROVE AuditInv'
  OBVIOUS
<1>1. ASSUME NEW r \in Sessions, NEW request \in Requests, Begin(r, request) PROVE AuditInv'
  BY <1>1, BeginTells
<1>2. ASSUME NEW r \in Sessions, Find(r) PROVE AuditInv'
  BY <1>2, FindTells
<1>3. ASSUME NEW r \in Sessions, Write(r) PROVE AuditInv'
  BY <1>3, WriteTells
<1>4. ASSUME NEW r \in Sessions, Commit(r) PROVE AuditInv'
  BY <1>4, CommitTells
<1>5. ASSUME NEW r \in Sessions, Crash(r) PROVE AuditInv'
  BY <1>5, AbortTells DEF Crash, Answers
<1>6. CASE UNCHANGED vars
  <2>1. rows' = rows /\ audit' = audit /\ session' = session
    BY <1>6 DEF vars
  <2> QED
    BY <2>1, QuietKeeps DEF AuditInv, Together, Knowing, Decided, Live, Authors, EntriesOf
<1> QED
  BY <1>1, <1>2, <1>3, <1>4, <1>5, <1>6 DEF Next, Step

LEMMA InitAuditInv == Init => AuditInv
<1> SUFFICES ASSUME Init
             PROVE  AuditInv
  OBVIOUS
<1>1. /\ rows = Stored /\ DOMAIN audit = {}
      /\ \A r \in Sessions : session[r].pc = "idle"
  BY DEF Init, Idle
<1>2. ColumnsKept
  BY <1>1, UserDataAssumption DEF ColumnsKept
<1>3. \A g : EntriesOf(g) = {}
  BY <1>1 DEF EntriesOf
<1> QED
  BY <1>1, <1>2, <1>3
     DEF AuditInv, Together, EntriesFit, Knowing, Decided, Told, Live

(* The diffs in the audit log of a goal, laid over each other, are the     *)
(* goal, as long as no two requests on it overlapped: an update that finds *)
(* a column as it is to be writes nothing, but its diff names it, and a    *)
(* create names two of the columns it sets (goals.py:57-100).              *)
THEOREM AuditTellsGoals == Spec => []AuditExplains
<1>1. IInv /\ AuditInv => AuditExplains
  <2> SUFFICES ASSUME IInv, AuditInv, NEW n \in DOMAIN audit,
                      \A q, r \in Authors(audit[n].entity) : q \notin session[r].met,
                      NEW k \in EntriesOf(audit[n].entity), NEW c \in DOMAIN audit[k].diff
               PROVE  rows[audit[n].entity].columns[c] = Latest(c, EntriesOf(audit[n].entity))
    BY DEF AuditExplains, EntriesOf, Authors
  <2> DEFINE g == audit[n].entity
             naming == {j \in EntriesOf(g) : c \in DOMAIN audit[j].diff}
  <2>1. Told(g)
    BY DEF AuditInv, IInv, EntriesOfGoals, Solo
  <2>2. PICK m \in naming : /\ rows[g].columns[c] = audit[m].diff[c]
                            /\ \A j \in naming : j <= m
    BY <2>1 DEF Told
  <2>3. \A j \in naming : j \in Int
    BY DEF EntriesOf, IInv, Shapes
  <2> HIDE DEF naming
  <2>4. Max(naming) = m
    BY <2>2, <2>3 DEF Max
  <2> QED
    BY <2>2, <2>4 DEF Latest, naming
<1> QED
  BY InitAuditInv, <1>1, NextTells, InitIInv, NextIInv, PTL DEF Spec

-----------------------------------------------------------------------------
(* Inflation.  The months are numbered through, from year to year.         *)
Number(p) == 12 * p[1] + p[2]
Month(n) == <<(n - 1) \div 12, ((n - 1) % 12) + 1>>

LEMMA MonthsInOrder ==
    ASSUME NEW p \in Period, NEW q \in Period
    PROVE  /\ Number(p) \in Int
           /\ NotLater(p, q) <=> Number(p) <= Number(q)
           /\ Number(p) = Number(q) => p = q
<1>1. p[1] \in Int /\ p[2] \in 1..12 /\ p = <<p[1], p[2]>>
  BY DEF Period
<1>2. q[1] \in Int /\ q[2] \in 1..12 /\ q = <<q[1], q[2]>>
  BY DEF Period
<1>3. /\ Number(p) \in Int
      /\ NotLater(p, q) <=> Number(p) <= Number(q)
  BY <1>1, <1>2 DEF Number, NotLater
<1>4. ASSUME Number(p) = Number(q) PROVE p[1] = q[1] /\ p[2] = q[2]
  BY <1>1, <1>2, <1>4 DEF Number
<1> QED
  BY <1>1, <1>2, <1>3, <1>4

LEMMA NextMonth ==
    ASSUME NEW p \in Period
    PROVE  Following(p) \in Period /\ Number(Following(p)) = Number(p) + 1
<1>1. p[1] \in Int /\ p[2] \in 1..12
  BY DEF Period
<1> QED
  BY <1>1 DEF Period, Following, Number

LEMMA MonthOfNumber ==
    ASSUME NEW n \in Int
    PROVE  Month(n) \in Period /\ Number(Month(n)) = n
<1>1. (n - 1) \div 12 \in Int /\ (n - 1) % 12 \in 0..11
  OBVIOUS
<1>2. n - 1 = 12 * ((n - 1) \div 12) + ((n - 1) % 12)
  OBVIOUS
<1> HIDE DEF Month
<1>3. Month(n)[1] = (n - 1) \div 12 /\ Month(n)[2] = ((n - 1) % 12) + 1
  BY DEF Month
<1>4. Month(n) \in Period
  BY <1>1 DEF Period, Month
<1>5. Number(Month(n)) = 12 * ((n - 1) \div 12) + (((n - 1) % 12) + 1)
  BY <1>3 DEF Number
<1> QED
  BY <1>1, <1>2, <1>4, <1>5

(* The months of a window, written down.                                   *)
Length(from, to) == IF NotLater(from, to) THEN Number(to) - Number(from) + 1 ELSE 0
Months(from, to) == [k \in 1..Length(from, to) |-> Month(Number(from) + k - 1)]

MonthsBody(m, to) ==
    [p \in Period |-> IF NotLater(p, to) THEN <<p>> \o m[Following(p)] ELSE <<>>]

LEMMA WindowLength ==
    ASSUME NEW p \in Period, NEW to \in Period
    PROVE  /\ Length(p, to) \in Nat
           /\ NotLater(p, to) => Length(p, to) = Length(Following(p), to) + 1
           /\ ~NotLater(p, to) => Length(p, to) = 0
<1>1. /\ Number(p) \in Int /\ Number(to) \in Int
      /\ NotLater(p, to) <=> Number(p) <= Number(to)
  BY MonthsInOrder
<1>2. Following(p) \in Period /\ Number(Following(p)) = Number(p) + 1
  BY NextMonth
<1>3. NotLater(Following(p), to) <=> Number(p) + 1 <= Number(to)
  BY <1>2, MonthsInOrder
<1> QED
  BY <1>1, <1>2, <1>3 DEF Length

LEMMA MonthsType ==
    ASSUME NEW p \in Period, NEW to \in Period
    PROVE  Months(p, to) \in Seq(Period) /\ Len(Months(p, to)) = Length(p, to)
<1>1. Length(p, to) \in Nat /\ Number(p) \in Int
  BY WindowLength, MonthsInOrder
<1>2. \A k \in 1..Length(p, to) : Month(Number(p) + k - 1) \in Period
  BY <1>1, MonthOfNumber
<1> QED
  BY <1>1, <1>2 DEF Months

LEMMA MonthsUnfold ==
    ASSUME NEW p \in Period, NEW to \in Period
    PROVE  Months(p, to) = IF NotLater(p, to) THEN <<p>> \o Months(Following(p), to) ELSE <<>>
<1>1. Following(p) \in Period /\ Number(Following(p)) = Number(p) + 1 /\ Number(p) \in Int
  BY NextMonth, MonthsInOrder
<1>2. /\ Months(p, to) \in Seq(Period) /\ Len(Months(p, to)) = Length(p, to)
      /\ Months(Following(p), to) \in Seq(Period)
      /\ Len(Months(Following(p), to)) = Length(Following(p), to)
  BY <1>1, MonthsType
<1>3. CASE ~NotLater(p, to)
  BY <1>2, <1>3, WindowLength
<1>4. CASE NotLater(p, to)
  <2> DEFINE all == <<p>> \o Months(Following(p), to)
  <2>1. Length(p, to) = Length(Following(p), to) + 1 /\ Length(Following(p), to) \in Nat
    BY <1>1, <1>4, WindowLength
  <2>2. all \in Seq(Period) /\ Len(all) = Length(p, to)
    BY <1>2, <2>1
  <2>3. ASSUME NEW k \in 1..Length(p, to) PROVE Months(p, to)[k] = all[k]
    <3>1. Months(p, to)[k] = Month(Number(p) + k - 1)
      BY DEF Months
    <3>2. CASE k = 1
      <4>1. Month(Number(p)) = p
        BY <1>1, MonthOfNumber, MonthsInOrder
      <4>2. all[1] = p
        BY <1>2
      <4> QED
        BY <1>1, <3>1, <3>2, <4>1, <4>2
    <3>3. CASE k # 1
      <4>1. k - 1 \in 1..Length(Following(p), to)
        BY <2>1, <3>3
      <4>2. Months(Following(p), to)[k - 1] = Month(Number(p) + 1 + (k - 1) - 1)
        BY <1>1, <4>1 DEF Months
      <4>3. all[k] = Months(Following(p), to)[k - 1]
        BY <1>2, <2>1, <3>3, <4>1
      <4>4. Number(p) + 1 + (k - 1) - 1 = Number(p) + k - 1
        BY <1>1
      <4> QED
        BY <3>1, <4>2, <4>3, <4>4
    <3> QED
      BY <3>2, <3>3
  <2> QED
    BY <1>2, <1>4, <2>2, <2>3
<1> QED
  BY <1>3, <1>4

(* The loop lists them.                                                    *)
LEMMA LoopListsMonths ==
    ASSUME NEW from \in Period, NEW to \in Period
    PROVE  MonthsInRange(from, to) = Months(from, to)
<1> DEFINE all == [p \in Period |-> Months(p, to)]
           m == CHOOSE g : g = MonthsBody(g, to)
<1>1. all = MonthsBody(all, to)
  <2>1. \A p \in Period : all[p] = MonthsBody(all, to)[p]
    BY MonthsUnfold, NextMonth DEF MonthsBody
  <2> QED
    BY <2>1 DEF MonthsBody
<1>2. m = MonthsBody(m, to)
  BY <1>1
<1>3. MonthsInRange(from, to) = m[from]
  BY DEF MonthsInRange, MonthsBody
<1> HIDE DEF m, all
<1> DEFINE Good == {n \in Nat : \A p \in Period : Length(p, to) = n => m[p] = Months(p, to)}
<1>4. \A p \in Period : m[p] = IF NotLater(p, to) THEN <<p>> \o m[Following(p)] ELSE <<>>
  BY <1>2 DEF MonthsBody
<1>5. 0 \in Good
  <2>1. ASSUME NEW p \in Period, Length(p, to) = 0 PROVE ~NotLater(p, to)
    BY <2>1, WindowLength, NextMonth
  <2> QED
    BY <1>4, <2>1, MonthsUnfold
<1>6. ASSUME NEW n \in Nat, n \in Good PROVE n + 1 \in Good
  <2>1. ASSUME NEW p \in Period, Length(p, to) = n + 1 PROVE m[p] = Months(p, to)
    <3>1. NotLater(p, to) /\ Following(p) \in Period /\ Length(Following(p), to) \in Nat
      BY <2>1, WindowLength, NextMonth
    <3>2. Length(Following(p), to) = n
      BY <2>1, <3>1, WindowLength
    <3>3. m[Following(p)] = Months(Following(p), to)
      BY <1>6, <3>1, <3>2
    <3> QED
      BY <1>4, <3>1, <3>3, MonthsUnfold
  <2> QED
    BY <2>1
<1>7. Nat \subseteq Good
  <2> HIDE DEF Good
  <2> QED
    BY <1>5, <1>6, NatSetInduction
<1>8. Length(from, to) \in Nat
  BY WindowLength
<1> QED
  BY <1>3, <1>7, <1>8

(* What compounding does: the numerator is the product of what the months  *)
(* of the window have grown by, the denominator that of as many units.     *)
Growth(rates, p) == RateUnit + (IF p \in DOMAIN rates THEN rates[p] ELSE 0)
Growths(rates, periods) == [k \in DOMAIN periods |-> Growth(rates, periods[k])]
Units(S) == [x \in S |-> RateUnit]

FactorBody(f, rates, periods) ==
    [s \in SUBSET DOMAIN periods |->
        IF s = {} THEN <<1, 1>>
        ELSE <<f[s \ {Max(s)}][1] * Growth(rates, periods[Max(s)]),
               f[s \ {Max(s)}][2] * RateUnit>>]

Factors(rates, periods) ==
    [s \in SUBSET DOMAIN periods |->
        <<ProductOver(Growths(rates, periods), s), ProductOver(Units(DOMAIN periods), s)>>]

RatesType(rates) == DOMAIN rates \subseteq Period /\ \A p \in DOMAIN rates : rates[p] \in Int

LEMMA FactorsUnfold ==
    ASSUME NEW rates, RatesType(rates), NEW periods \in Seq(Period),
           NEW s \in SUBSET DOMAIN periods
    PROVE  /\ s = {} => Factors(rates, periods)[s] = <<1, 1>>
           /\ s # {} => /\ Max(s) \in s
                        /\ Factors(rates, periods)[s] =
                               <<Factors(rates, periods)[s \ {Max(s)}][1]
                                     * Growth(rates, periods[Max(s)]),
                                 Factors(rates, periods)[s \ {Max(s)}][2] * RateUnit>>
<1> DEFINE v == Growths(rates, periods)
           u == Units(DOMAIN periods)
<1>1. DOMAIN periods = 1..Len(periods) /\ IsFiniteSet(s) /\ IsFiniteSet(DOMAIN periods)
  <2>1. DOMAIN periods = 1..Len(periods) /\ IsFiniteSet(1..Len(periods))
    BY FS_Interval
  <2> QED
    BY <2>1, FS_Subset
<1>2. \A k \in DOMAIN periods : /\ v[k] = Growth(rates, periods[k]) /\ v[k] \in Int
                                /\ u[k] = RateUnit /\ u[k] \in Int
  BY InflationAssumption DEF Growths, Growth, Units, RatesType
<1> HIDE DEF v, u
<1>3. \A t \in SUBSET DOMAIN periods :
          Factors(rates, periods)[t] = <<ProductOver(v, t), ProductOver(u, t)>>
  BY DEF Factors, v, u
<1>4. CASE s = {}
  BY <1>3, <1>4, ProductOfNone
<1>5. CASE s # {}
  <2>1. s \in SUBSET Int
    BY <1>1
  <2>2. Max(s) \in s
    BY <1>1, <1>5, <2>1, Extremes
  <2> DEFINE k == Max(s)
             t == s \ {k}
  <2> HIDE DEF k
  <2>3. k \in s /\ k \in DOMAIN periods /\ t \in SUBSET DOMAIN periods
    BY <2>2 DEF k
  <2>4. /\ ProductOver(v, s) = v[k] * ProductOver(v, t)
        /\ ProductOver(u, s) = u[k] * ProductOver(u, t)
    BY <1>1, <1>2, <2>3, ProductOfOneMore
  <2>5. ProductOver(v, t) \in Int /\ ProductOver(u, t) \in Int
    BY <1>1, <1>2, <2>3, ProductIsInt, FS_Subset
  <2>6. /\ v[k] * ProductOver(v, t) = ProductOver(v, t) * Growth(rates, periods[k])
        /\ u[k] * ProductOver(u, t) = ProductOver(u, t) * RateUnit
    BY <1>2, <2>3, <2>5
  <2>7. Factors(rates, periods)[t][1] = ProductOver(v, t)
        /\ Factors(rates, periods)[t][2] = ProductOver(u, t)
    BY <1>3, <2>3
  <2>8. Factors(rates, periods)[s] =
            <<Factors(rates, periods)[t][1] * Growth(rates, periods[k]),
              Factors(rates, periods)[t][2] * RateUnit>>
    BY <1>3, <2>4, <2>6, <2>7
  <2> QED
    BY <1>5, <2>2, <2>8 DEF k
<1> QED
  BY <1>4, <1>5

LEMMA CompoundedIsProducts ==
    ASSUME NEW rates, RatesType(rates), NEW periods \in Seq(Period)
    PROVE  Compounded(rates, periods) =
               <<ProductOver(Growths(rates, periods), DOMAIN periods),
                 ProductOver(Units(DOMAIN periods), DOMAIN periods)>>
<1> DEFINE D == DOMAIN periods
           all == Factors(rates, periods)
           f == CHOOSE g : g = FactorBody(g, rates, periods)
<1>1. IsFiniteSet(D)
  <2>1. DOMAIN periods = 1..Len(periods) /\ IsFiniteSet(1..Len(periods))
    BY FS_Interval
  <2> QED
    BY <2>1
<1>1a. \A s \in SUBSET D :
          /\ s = {} => all[s] = <<1, 1>>
          /\ s # {} => /\ Max(s) \in s
                       /\ all[s] = <<all[s \ {Max(s)}][1] * Growth(rates, periods[Max(s)]),
                                     all[s \ {Max(s)}][2] * RateUnit>>
  <2> SUFFICES ASSUME NEW s \in SUBSET DOMAIN periods
               PROVE  /\ s = {} => Factors(rates, periods)[s] = <<1, 1>>
                      /\ s # {} => /\ Max(s) \in s
                                   /\ Factors(rates, periods)[s] =
                                          <<Factors(rates, periods)[s \ {Max(s)}][1]
                                                * Growth(rates, periods[Max(s)]),
                                            Factors(rates, periods)[s \ {Max(s)}][2] * RateUnit>>
    OBVIOUS
  <2> QED
    BY FactorsUnfold
<1>2. all = FactorBody(all, rates, periods)
  <2>1. \A s \in SUBSET D : all[s] = FactorBody(all, rates, periods)[s]
    <3> HIDE DEF all
    <3> SUFFICES ASSUME NEW s \in SUBSET D
                 PROVE  all[s] = FactorBody(all, rates, periods)[s]
      OBVIOUS
    <3>1. FactorBody(all, rates, periods)[s] =
              IF s = {} THEN <<1, 1>>
              ELSE <<all[s \ {Max(s)}][1] * Growth(rates, periods[Max(s)]),
                     all[s \ {Max(s)}][2] * RateUnit>>
      BY DEF FactorBody
    <3> QED
      BY <3>1, <1>1a
  <2> QED
    BY <2>1 DEF FactorBody, Factors
<1>3. f = FactorBody(f, rates, periods)
  BY <1>2
<1>4. Compounded(rates, periods) = f[D]
  BY DEF Compounded, FoldLeft, MapThenFoldSet, FactorBody, Growth
<1> HIDE DEF f, all
<1> DEFINE Good == {s \in SUBSET D : f[s] = all[s]}
<1>5. \A s \in SUBSET D : f[s] = IF s = {} THEN <<1, 1>>
                                 ELSE <<f[s \ {Max(s)}][1] * Growth(rates, periods[Max(s)]),
                                        f[s \ {Max(s)}][2] * RateUnit>>
  BY <1>3 DEF FactorBody
<1>6. ASSUME NEW T \in SUBSET D, \A U \in SUBSET T : U # T => U \in Good
      PROVE  T \in Good
  <2>1. CASE T = {}
    <3>1. all[T] = <<1, 1>>
      BY <2>1, <1>1a
    <3> QED
      BY <1>5, <2>1, <3>1
  <2>2. CASE T # {}
    <3>1. /\ Max(T) \in T
          /\ all[T] = <<all[T \ {Max(T)}][1] * Growth(rates, periods[Max(T)]),
                        all[T \ {Max(T)}][2] * RateUnit>>
      BY <2>2, <1>1a
    <3>2. f[T \ {Max(T)}] = all[T \ {Max(T)}]
      BY <1>6, <3>1
    <3> QED
      BY <1>5, <2>2, <3>1, <3>2
  <2> QED
    BY <2>1, <2>2
<1>7. SUBSET D \subseteq Good
  <2> HIDE DEF Good
  <2> QED
    BY <1>1, <1>6, SubsetInduction
<1>8. f[D] = all[D]
  BY <1>7
<1> QED
  BY <1>4, <1>8 DEF all, Factors

(* The months of a window with a rate are those periods with one that are  *)
(* not earlier than its first and not later than its last, each of them    *)
(* once.                                                                   *)
Recorded(rates, from, to) == {p \in DOMAIN rates : NotLater(from, p) /\ NotLater(p, to)}
Listed(rates, periods) == {k \in DOMAIN periods : periods[k] \in DOMAIN rates}

LEMMA RecordedAreListed ==
    ASSUME NEW rates, RatesType(rates), NEW from \in Period, NEW to \in Period
    PROVE  IsNaming(Months(from, to), Listed(rates, Months(from, to)), Recorded(rates, from, to))
<1> DEFINE ms == Months(from, to)
           R == Listed(rates, ms)
<1>1. /\ Number(from) \in Int /\ Number(to) \in Int
      /\ NotLater(from, to) <=> Number(from) <= Number(to)
  BY MonthsInOrder
<1>2. \A k \in 1..Length(from, to) : /\ ms[k] \in Period /\ Number(ms[k]) = Number(from) + k - 1
  <2> SUFFICES ASSUME NEW k \in 1..Length(from, to)
               PROVE  ms[k] \in Period /\ Number(ms[k]) = Number(from) + k - 1
    OBVIOUS
  <2>1. Number(from) + k - 1 \in Int
    BY <1>1, WindowLength
  <2>2. ms[k] = Month(Number(from) + k - 1)
    BY DEF Months
  <2> QED
    BY <2>1, <2>2, MonthOfNumber
<1>3. DOMAIN ms = 1..Length(from, to)
  BY DEF Months
<1> HIDE DEF ms
<1>4. ASSUME NEW k \in R PROVE ms[k] \in Recorded(rates, from, to)
  <2>1. k \in 1..Length(from, to) /\ ms[k] \in DOMAIN rates
    BY <1>3 DEF Listed
  <2>2. ms[k] \in Period /\ Number(ms[k]) = Number(from) + k - 1
    BY <1>2, <2>1
  <2>3. NotLater(from, to) /\ k <= Number(to) - Number(from) + 1 /\ 1 <= k /\ k \in Int
    BY <1>1, <2>1 DEF Length
  <2>4. Number(from) <= Number(ms[k]) /\ Number(ms[k]) <= Number(to)
    BY <1>1, <2>2, <2>3
  <2>5. NotLater(from, ms[k]) /\ NotLater(ms[k], to)
    BY <2>2, <2>4, MonthsInOrder
  <2> QED
    BY <2>1, <2>5 DEF Recorded
<1>5. ASSUME NEW p \in Recorded(rates, from, to) PROVE \E k \in R : ms[k] = p
  <2>1. p \in DOMAIN rates /\ p \in Period /\ NotLater(from, p) /\ NotLater(p, to)
    BY DEF Recorded, RatesType
  <2>2. Number(p) \in Int /\ Number(from) <= Number(p) /\ Number(p) <= Number(to)
    BY <2>1, MonthsInOrder
  <2> DEFINE k == Number(p) - Number(from) + 1
  <2>3. k \in 1..Length(from, to) /\ Number(from) + k - 1 = Number(p)
    BY <1>1, <2>2 DEF Length
  <2> HIDE DEF k
  <2>4. ms[k] \in Period /\ Number(ms[k]) = Number(p)
    BY <1>2, <2>3
  <2>5. ms[k] = p
    BY <2>1, <2>4, MonthsInOrder
  <2>6. k \in R
    BY <1>3, <2>1, <2>3, <2>5 DEF Listed
  <2> QED
    BY <2>5, <2>6
<1>6. ASSUME NEW j \in R, NEW k \in R, ms[j] = ms[k] PROVE j = k
  <2>1. j \in 1..Length(from, to) /\ k \in 1..Length(from, to)
    BY <1>3 DEF Listed
  <2>2. Number(from) + j - 1 = Number(from) + k - 1
    BY <1>2, <1>6, <2>1
  <2>3. j \in Int /\ k \in Int
    BY <2>1
  <2> QED
    BY <1>1, <2>2, <2>3
<1> QED
  BY <1>4, <1>5, <1>6 DEF IsNaming, ms

LEMMA ProductIs == ASSUME NEW w PROVE Product(w) = ProductOver(w, DOMAIN w)
BY DEF Product, FoldFunction, ProductOver

Grown(rates, S) == [p \in S |-> RateUnit + rates[p]]

CountedOnce(factor, rates, S) ==
    factor[1] * ProductOver(Units(S), S) = factor[2] * ProductOver(Grown(rates, S), S)

LEMMA EachMonthOnce ==
    ASSUME NEW rates, RatesType(rates), NEW from \in Period, NEW to \in Period,
           NEW recorded, recorded = Recorded(rates, from, to),
           NEW factor, factor = Compounded(rates, MonthsInRange(from, to))
    PROVE  CountedOnce(factor, rates, recorded)
<1> DEFINE ms == Months(from, to)
           D == DOMAIN ms
           R == Listed(rates, ms)
           v == Growths(rates, ms)
           u == Units(D)
           a == ProductOver(v, R)
           b == ProductOver(u, R)
           c == ProductOver(u, D \ R)
<1>1. ms \in Seq(Period) /\ IsFiniteSet(D) /\ D = 1..Length(from, to)
  <2>1. ms \in Seq(Period) /\ D = 1..Length(from, to) /\ Length(from, to) \in Nat
    BY MonthsType, WindowLength DEF Months
  <2> QED
    BY <2>1, FS_Interval
<1>2. factor = <<ProductOver(v, D), ProductOver(u, D)>>
  <2>1. factor = Compounded(rates, ms)
    BY LoopListsMonths
  <2> HIDE DEF ms
  <2> QED
    BY <1>1, <2>1, CompoundedIsProducts
<1>3. IsNaming(ms, R, recorded)
  BY RecordedAreListed
<1>4. /\ R \subseteq D /\ IsFiniteSet(R) /\ IsFiniteSet(D \ R)
      /\ R \cap (D \ R) = {} /\ R \cup (D \ R) = D
  <2>1. R \subseteq D
    BY DEF Listed
  <2> QED
    BY <1>1, <2>1, FS_Subset
<1>5. /\ \A k \in D : v[k] \in Int /\ u[k] = RateUnit
      /\ \A k \in D \ R : v[k] = u[k]
      /\ \A k \in R : v[k] = RateUnit + rates[ms[k]]
      /\ RateUnit \in Int
  <2> HIDE DEF ms
  <2> QED
    BY InflationAssumption DEF Growths, Growth, Units, Listed, RatesType
<1>6. recorded \subseteq DOMAIN rates
  BY DEF Recorded
<1> HIDE DEF ms, D, R, v, u
<1>7. ProductOver(v, D) = a * c /\ ProductOver(u, D) = b * c /\ a \in Int /\ b \in Int /\ c \in Int
  <2>1. /\ \A k \in R \cup (D \ R) : v[k] \in Int
        /\ \A k \in R \cup (D \ R) : u[k] \in Int
    BY <1>4, <1>5
  <2>2. ProductOver(v, R \cup (D \ R)) = ProductOver(v, R) * ProductOver(v, D \ R)
    BY <1>4, <2>1, ProductOfBoth
  <2>3. ProductOver(u, R \cup (D \ R)) = ProductOver(u, R) * ProductOver(u, D \ R)
    BY <1>4, <2>1, ProductOfBoth
  <2>4. ProductOver(v, D \ R) = ProductOver(u, D \ R)
    BY <1>4, <1>5, ProductAgrees
  <2>5. a \in Int /\ b \in Int /\ c \in Int
    BY <1>4, <2>1, ProductIsInt
  <2> QED
    BY <1>4, <2>2, <2>3, <2>4, <2>5
<1>8. ProductOver(Grown(rates, recorded), recorded) = a
  <2> DEFINE w == Grown(rates, recorded)
  <2>1. \A p \in recorded : w[p] = RateUnit + rates[p] /\ w[p] \in Int
    BY <1>5, <1>6 DEF Grown, RatesType
  <2> HIDE DEF w
  <2>2. ProductOver(w, recorded) = ProductOver(Renamed(w, ms, R), R)
    BY <1>3, <1>4, <2>1, ProductRenamed
  <2>3. \A k \in R : Renamed(w, ms, R)[k] = v[k]
    BY <1>3, <1>5, <2>1 DEF Renamed, IsNaming
  <2>4. ProductOver(Renamed(w, ms, R), R) = ProductOver(v, R)
    BY <1>4, <2>3, ProductAgrees
  <2> QED
    BY <2>2, <2>4 DEF w
<1>9. ProductOver(Units(recorded), recorded) = b
  <2> DEFINE w == Units(recorded)
  <2>1. \A p \in recorded : w[p] = RateUnit /\ w[p] \in Int
    BY <1>5 DEF Units
  <2> HIDE DEF w
  <2>2. ProductOver(w, recorded) = ProductOver(Renamed(w, ms, R), R)
    BY <1>3, <1>4, <2>1, ProductRenamed
  <2>3. \A k \in R : Renamed(w, ms, R)[k] = u[k]
    BY <1>3, <1>4, <1>5, <2>1 DEF Renamed, IsNaming
  <2>4. ProductOver(Renamed(w, ms, R), R) = ProductOver(u, R)
    BY <1>4, <2>3, ProductAgrees
  <2> QED
    BY <2>2, <2>4 DEF w
<1>10. factor[1] = a * c /\ factor[2] = b * c
  BY <1>2, <1>7
<1> HIDE DEF a, b, c
<1>11. (a * c) * b = (b * c) * a
  BY <1>7
<1> QED
  BY <1>8, <1>9, <1>10, <1>11 DEF CountedOnce

(* The months that a window meets are those from the month of its first    *)
(* day to that of its last; one that ends before it begins meets none.     *)
MetIn(rates, from, to) == {p \in DOMAIN rates : Meets(p, from, to)}

LEMMA MonthsMet ==
    ASSUME NEW from \in Date, NEW to \in Date, NEW p \in Period
    PROVE  Meets(p, from, to) <=>
               ~Precedes(to, from) /\ NotLater(MonthOf(from), p) /\ NotLater(p, MonthOf(to))
<1>1. /\ from[1] \in Int /\ from[2] \in Int /\ from[3] \in 1..31
      /\ to[1] \in Int /\ to[2] \in Int /\ to[3] \in 1..31
      /\ p[1] \in Int /\ p[2] \in Int
  BY DEF Date, Period
<1> DEFINE Within(day) == ~Precedes(<<p[1], p[2], day>>, from) /\ ~Precedes(to, <<p[1], p[2], day>>)
           Inside == ~Precedes(to, from) /\ NotLater(MonthOf(from), p) /\ NotLater(p, MonthOf(to))
<1>2. ASSUME NEW day \in 1..31, Within(day) PROVE Inside
  BY <1>1, <1>2 DEF Precedes, NotLater, MonthOf
<1>3. ASSUME Inside PROVE \E day \in 1..31 : Within(day)
  <2>1. CASE p[1] = from[1] /\ p[2] = from[2]
    BY <1>1, <1>3, <2>1 DEF Precedes, NotLater, MonthOf
  <2>2. CASE p[1] = to[1] /\ p[2] = to[2]
    BY <1>1, <1>3, <2>2 DEF Precedes, NotLater, MonthOf
  <2>3. CASE ~(p[1] = from[1] /\ p[2] = from[2]) /\ ~(p[1] = to[1] /\ p[2] = to[2])
    <3>1. Within(1)
      BY <1>1, <1>3, <2>3 DEF Precedes, NotLater, MonthOf
    <3> QED
      BY <3>1
  <2> QED
    BY <2>1, <2>2, <2>3
<1> QED
  BY <1>2, <1>3 DEF Meets

LEMMA EachMonthMetOnce ==
    ASSUME NEW rates, RatesType(rates), NEW from \in Date, NEW to \in Date
    PROVE  CountedOnce(CumulativeInflation(rates, from, to), rates, MetIn(rates, from, to))
<1> DEFINE met == MetIn(rates, from, to)
<1>1. MonthOf(from) \in Period /\ MonthOf(to) \in Period
  BY DEF Date, Period, MonthOf
<1>2. \A p \in DOMAIN rates : p \in Period
  BY DEF RatesType
<1>3. CASE Precedes(to, from)
  <2>1. met = {}
    BY <1>2, <1>3, MonthsMet DEF MetIn
  <2>2. CumulativeInflation(rates, from, to) = <<1, 1>>
    BY <1>3 DEF CumulativeInflation
  <2>3. ProductOver(Units({}), {}) = 1 /\ ProductOver(Grown(rates, {}), {}) = 1
    BY ProductOfNone
  <2> HIDE DEF met
  <2> QED
    BY <2>1, <2>2, <2>3 DEF CountedOnce, met
<1>4. CASE ~Precedes(to, from)
  <2>1. met = Recorded(rates, MonthOf(from), MonthOf(to))
    BY <1>2, <1>4, MonthsMet DEF MetIn, Recorded
  <2>2. CumulativeInflation(rates, from, to)
            = Compounded(rates, MonthsInRange(MonthOf(from), MonthOf(to)))
    BY <1>4 DEF CumulativeInflation
  <2> HIDE DEF met
  <2> QED
    BY <1>1, <2>1, <2>2, EachMonthOnce DEF met
<1> QED
  BY <1>3, <1>4

(* The rates that are stored are numbers, and of a period.                 *)
IsRate(row) ==
    row.key[2] \in Period /\ "rate" \in DOMAIN row.columns /\ row.columns["rate"] \in Int

RatesStored == \A i \in DOMAIN rows : rows[i].table = "inflation_rate" => IsRate(rows[i])

LEMMA CommitKeepsRates ==
    ASSUME IInv, AuditInv, RatesStored, NEW r \in Sessions, Commit(r)
    PROVE  RatesStored'
<1> DEFINE t == Target(r)
           set == session[r].request.set
           columns == rows'[t].columns
<1>1. /\ RowsKept /\ DOMAIN rows' = DOMAIN rows \cup {t}
      /\ rows'[t].table = session[r].request.table /\ session[r].request \in Requests
      /\ Inserts(r) => /\ t = r
                       /\ session[r].request.table \in KeyedTables =>
                              rows'[t].key = session[r].request.key
  BY CommitRows
<1>2. /\ \A i \in DOMAIN rows \ {t} : rows'[i] = rows[i]
      /\ Inserts(r) => columns = set
      /\ ~Inserts(r) => /\ DOMAIN columns = DOMAIN rows[t].columns
                        /\ \A c \in DOMAIN columns : columns[c] = set[c]
                                                     \/ columns[c] = rows[t].columns[c]
  BY CommittedColumns
<1>3. ~Inserts(r) => t \in DOMAIN rows
  BY DEF IInv, Commit, Target, Inserts, Progress, FoundRow
<1> SUFFICES ASSUME rows'[t].table = "inflation_rate"
             PROVE  IsRate(rows'[t])
  BY <1>1, <1>2 DEF RatesStored, IsRate
<1>4. /\ session[r].request.key[2] \in Period
      /\ "rate" \in DOMAIN set /\ set["rate"] \in Int
  BY <1>1, UserDataAssumption
<1>5. CASE Inserts(r)
  BY <1>1, <1>2, <1>4, <1>5 DEF IsRate, KeyedTables
<1>6. CASE ~Inserts(r)
  <2>1. t \in DOMAIN rows /\ rows'[t].key = rows[t].key /\ rows[t].table = "inflation_rate"
    BY <1>1, <1>3, <1>6 DEF RowsKept
  <2>2. IsRate(rows[t])
    BY <2>1 DEF RatesStored
  <2> HIDE DEF t
  <2>3. "rate" \in DOMAIN columns /\ columns["rate"] \in Int
    BY <1>2, <1>4, <1>6, <2>2 DEF IsRate
  <2> QED
    BY <2>1, <2>2, <2>3 DEF IsRate
<1> QED
  BY <1>5, <1>6

LEMMA NextKeepsRates ==
    ASSUME IInv, AuditInv, RatesStored, [Next]_vars
    PROVE  RatesStored'
<1>1. ASSUME rows' = rows PROVE RatesStored'
  BY <1>1 DEF RatesStored, IsRate
<1>2. CASE UNCHANGED vars
  BY <1>1, <1>2 DEF vars
<1>3. ASSUME NEW r \in Sessions, Commit(r) PROVE RatesStored'
  BY <1>3, CommitKeepsRates
<1>4. ASSUME NEW r \in Sessions,
             (\E request \in Requests : Begin(r, request)) \/ Find(r) \/ Write(r) \/ Crash(r)
      PROVE  rows' = rows
  BY <1>4 DEF Begin, Find, Write, Crash, Abort, Advance
<1> QED
  BY <1>1, <1>2, <1>3, <1>4 DEF Next, Step

LEMMA RatesOfUser ==
    ASSUME RatesStored, NEW user
    PROVE  RatesType(RatesOf(user))
<1> DEFINE stored == {i \in DOMAIN rows : rows[i].table = "inflation_rate" /\ rows[i].owner = user}
           at(period) == CHOOSE i \in stored : rows[i].key[2] = period
<1>1. /\ DOMAIN RatesOf(user) = {rows[i].key[2] : i \in stored}
      /\ \A period \in DOMAIN RatesOf(user) : RatesOf(user)[period] = rows[at(period)].columns["rate"]
  BY DEF RatesOf
<1>2. \A i \in stored : IsRate(rows[i])
  BY DEF RatesStored
<1>3. \A period \in DOMAIN RatesOf(user) : at(period) \in stored
  BY <1>1
<1> HIDE DEF stored, at
<1> QED
  BY <1>1, <1>2, <1>3 DEF RatesType, IsRate

(* The factor of a window, whatever rates are stored when, is the product  *)
(* of one plus the rate of each recorded month that the window meets,      *)
(* each of them once, and a month without a rate changes nothing: the loop *)
(* runs from month to month across the turn of a year and ends after the   *)
(* last (inflation.py:16-44).                                              *)
THEOREM MonthsCountOnce == Spec => []InflationCountsEachMonth
<1>1. Init => RatesStored
  BY UserDataAssumption DEF Init, RatesStored, IsRate
<1>2. RatesStored => InflationCountsEachMonth
  <2> DEFINE Periods(rates) == DOMAIN rates \cup {Following(p) : p \in DOMAIN rates}
             Dates(rates) == {<<p[1], p[2], day>> : p \in Periods(rates), day \in {1, 28}}
             Equal(rates, from, to) ==
                 CumulativeInflation(rates, from, to)[1] * Product(Units(MetIn(rates, from, to)))
                     = CumulativeInflation(rates, from, to)[2]
                           * Product(Grown(rates, MetIn(rates, from, to)))
  <2> SUFFICES ASSUME RatesStored, NEW user,
                      NEW from \in Dates(RatesOf(user)), NEW to \in Dates(RatesOf(user))
               PROVE  Equal(RatesOf(user), from, to)
    BY DEF InflationCountsEachMonth, MetIn, Units, Grown
  <2> DEFINE rates == RatesOf(user)
             recorded == MetIn(rates, from, to)
             factor == CumulativeInflation(rates, from, to)
  <2>1. RatesType(rates)
    BY RatesOfUser
  <2>2. from \in Date /\ to \in Date
    <3>1. \A p \in Periods(rates) : p \in Period
      BY <2>1, NextMonth DEF RatesType
    <3> HIDE DEF Periods, rates
    <3> QED
      BY <3>1 DEF Period, Date, rates
  <2> HIDE DEF rates
  <2>3. CountedOnce(factor, rates, recorded)
    BY <2>1, <2>2, EachMonthMetOnce
  <2>4. DOMAIN Units(recorded) = recorded /\ DOMAIN Grown(rates, recorded) = recorded
    BY DEF Units, Grown
  <2>5. /\ Product(Units(recorded)) = ProductOver(Units(recorded), recorded)
        /\ Product(Grown(rates, recorded)) = ProductOver(Grown(rates, recorded), recorded)
    BY <2>4, ProductIs
  <2> QED
    BY <2>3, <2>5 DEF CountedOnce, rates
<1>3. Init => AuditInv
  BY InitAuditInv
<1> QED
  BY <1>1, <1>2, <1>3, NextKeepsRates, NextTells, InitIInv, NextIInv, PTL DEF Spec
=============================================================================
