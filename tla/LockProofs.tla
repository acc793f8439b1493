----------------------------- MODULE LockProofs -----------------------------
(***************************************************************************)
(* Who waits for whom: for any number of workers, transactions that wait   *)
(* for each other in a circle write daily rows, and one of them recomputes *)
(* a month.                                                                *)
(***************************************************************************)
EXTENDS DaysProofs

-----------------------------------------------------------------------------
(* The locks that a session holds, and the day that it writes next. *)

Writers == {"punch", "punch_fix", "leave"} \cup Rebuilding

\* No row is locked before the flush of the request, a day that is still to be
\* written is not locked, and the day that is written next is one of those.
LocksOK(w) ==
    /\ pc[w] \in {"idle", "balance", "guard", "validate", "flush"} => buf[w] = NoRows
    /\ \A d \in job[w].todo : buf[w][d] = None
    /\ pc[w] \in {"punches", "daily", "write"} => Kind(w) \in Writers
    /\ pc[w] = "write" \/ (pc[w] = "daily" /\ Kind(w) # "leave")
          => seen[w].day \in job[w].todo
    /\ pc[w] = "validate" => job[w].op = "punch"

\* A row is locked by one transaction at a time.
Exclusive == \A v, w \in Workers : v # w => Held(v) \cap Held(w) = {}

LockInv == (\A w \in Workers : LocksOK(w)) /\ Exclusive

-----------------------------------------------------------------------------
(* The step of one worker. *)

\* A transaction that begins has nothing locked.
LEMMA BeginLocks ==
    ASSUME Inv, NEW w \in Workers, LocksOK(w), Begin(w)
    PROVE  LocksOK(w)' /\ Held(w)' = {}
<1>1. /\ pc[w] = "idle" /\ UNCHANGED <<tables, seen, buf>>
      /\ pc'[w] \in {"flush", "balance", "guard", "punches", "sum", "closing"}
      /\ pc'[w] \in {"punches", "sum"} => job'[w].op \in Rebuilding
  BY BeginFacts
<1>2. buf'[w] = NoRows
  BY <1>1 DEF LocksOK
<1>3. job'[w].todo \subseteq Days
  <2>1. job \in [Workers -> Job]
    BY DEF Inv, TypeOK, SessionsTyped
  <2>2. CASE \/ \E r \in Reqs : BeginCancel(w, r)
             \/ \E e \in Employees : BeginReopen(w, e)
    BY <2>1, <2>2 DEF BeginCancel, BeginReopen, NoJob
  <2>3. CASE \E r \in Reqs, a \in Approvers, op \in {"approve", "reject"} :
               BeginDecide(w, op, a, r)
    BY <2>1, <2>3, ConstantsAssumption DEF BeginDecide, DaysToWrite, ConstantsAssumption
  <2>4. CASE \E e \in Employees, type \in PunchTypes : BeginPunch(w, e, type)
    BY <2>1, <2>4 DEF BeginPunch
  <2>5. CASE \E e \in Employees, op \in Rebuilding : BeginRebuild(w, op, e)
    <3>1. PICK e \in Employees, op \in Rebuilding : BeginRebuild(w, op, e)
      BY <2>5
    <3>2. job'[w].todo = {d \in Days : punches[e][d] # <<>>}
      BY <2>1, <3>1 DEF BeginRebuild, NoJob
    <3> QED
      BY <3>2
  <2> QED
    BY <2>2, <2>3, <2>4, <2>5 DEF Begin
<1>4. \A d \in Days : buf'[w][d] = None
  BY <1>2 DEF NoRows
<1>5. pc'[w] = "punches" => Kind(w)' \in Writers
  BY <1>1 DEF Kind, Writers, Rebuilding
<1>6. LocksOK(w)'
  BY <1>1, <1>2, <1>3, <1>4, <1>5 DEF LocksOK
<1>7. pc'[w] = "punches" => job'[w].op \notin Settling
  BY <1>1 DEF Rebuilding, Settling
<1> QED
  BY <1>1, <1>4, <1>6, <1>7 DEF Held

\* A transaction that ends has let go of everything.
LEMMA EndedLocks ==
    ASSUME NEW w \in Workers, Ended(w)
    PROVE  LocksOK(w)' /\ Held(w)' = {}
<1>1. pc'[w] = "idle" /\ job'[w] = NoJob /\ buf'[w] = NoRows
  BY DEF Ended
<1>2. job'[w].todo = {} /\ \A d \in Days : buf'[w][d] = None
  BY <1>1 DEF NoJob, NoRows
<1> QED
  BY <1>1, <1>2 DEF LocksOK, Held

\* A worker that does not move keeps its locks.
LEMMA SameLocks ==
    ASSUME NEW w \in Workers, Same(w)
    PROVE  /\ LocksOK(w) => LocksOK(w)'
           /\ Held(w)' = Held(w)
<1>1. pc'[w] = pc[w] /\ job'[w] = job[w] /\ seen'[w] = seen[w] /\ buf'[w] = buf[w]
  BY DEF Same
<1>2. Kind(w)' = Kind(w) /\ NewClosing(w)' = NewClosing(w)
  BY <1>1 DEF Kind, NewClosing
<1>3. RequestRows(w)' = RequestRows(w)
  BY <1>1, <1>2 DEF RequestRows
<1> QED
  BY <1>1, <1>2, <1>3 DEF LocksOK, Held

\* Work on the loaded rows locks only days that are no longer to be written.
LEMMA WorkLocks ==
    ASSUME Inv, NEW w \in Workers, LocksOK(w), Works(w)
    PROVE  LocksOK(w)'
<1>1. /\ pc \in [Workers -> Labels] /\ job \in [Workers -> Job] /\ JobOK(w)
      /\ seen \in [Workers -> Loaded] /\ buf \in [Workers -> [Days -> Row \cup {None}]]
  BY DEF Inv, TypeOK, SessionsTyped, SessionsOK
<1>2. /\ Kind(w)' = Kind(w) /\ job'[w].op = job[w].op
      /\ ~WriteDay(w) => job' = job /\ buf' = buf
  BY WorksFacts
<1>3. CASE ReadBalance(w) \/ CheckMonthOpen(w) \/ SumMonth(w) \/ ReadClosing(w) \/ SaveClosing(w)
  <2>1. /\ pc'[w] \in {"flush", "validate", "closing", "save", "commit"}
        /\ pc'[w] \in {"flush", "validate"} => pc[w] \in {"balance", "guard"}
        /\ job' = job /\ buf' = buf
        /\ pc'[w] = "validate" => job[w].op = "punch"
    BY <1>1, <1>3 DEF ReadBalance, CheckMonthOpen, SumMonth, ReadClosing, SaveClosing, Goto
  <2> QED
    BY <2>1 DEF LocksOK
<1>4. CASE FlushRequest(w)
  <2>1. /\ pc'[w] \in {"punches", "daily", "commit"} /\ job' = job /\ buf' = buf
        /\ pc'[w] = "punches" => Kind(w) = "punch_fix"
        /\ pc'[w] = "daily" => Kind(w) = "leave"
    BY <1>1, <1>4 DEF FlushRequest, Goto
  <2> QED
    BY <1>2, <2>1 DEF LocksOK, Writers
<1>5. CASE ValidatePunch(w)
  <2>1. pc'[w] = "punches" /\ job' = job /\ buf' = buf /\ Inserts(w)
    BY <1>1, <1>5 DEF ValidatePunch, Goto, JobOK
  <2> QED
    BY <1>2, <2>1 DEF LocksOK, Writers, Inserts
<1>6. CASE ReadPunches(w)
  <2>1. /\ pc'[w] = "daily" /\ job' = job /\ buf' = buf /\ pc[w] = "punches"
        /\ seen'[w].day \in job[w].todo
    BY <1>1, <1>6 DEF ReadPunches, Goto, Loaded
  <2> QED
    BY <1>2, <2>1 DEF LocksOK
<1>7. CASE ReadDaily(w)
  <2>1. pc'[w] = "write" /\ job' = job /\ buf' = buf /\ pc[w] = "daily"
    BY <1>1, <1>7 DEF ReadDaily, Goto
  <2>2. seen'[w].day \in IF Kind(w) = "leave" THEN FirstDay(job[w].todo) ELSE {seen[w].day}
    BY <1>1, <1>7 DEF ReadDaily, Loaded
  <2>3. FirstDay(job[w].todo) \subseteq job[w].todo
    BY DEF FirstDay
  <2> QED
    BY <1>2, <2>1, <2>2, <2>3 DEF LocksOK
<1>8. CASE WriteDay(w)
  <2> DEFINE d == seen[w].day
  <2>1. /\ pc[w] = "write" /\ job'[w].todo = job[w].todo \ {d}
        /\ pc'[w] \in {"daily", "punches", "sum", "commit"}
        /\ pc'[w] = "daily" => Kind(w) = "leave"
        /\ pc'[w] = "punches" => Kind(w) # "leave"
    BY <1>1, <1>8 DEF WriteDay, Goto
  <2>2. \A x \in Days \ {d} : buf'[w][x] = buf[w][x]
    BY <1>1, <1>8 DEF WriteDay
  <2>3. job[w].todo \subseteq Days
    BY <1>1 DEF Job
  <2> QED
    BY <1>2, <2>1, <2>2, <2>3 DEF LocksOK
<1> QED
  BY <1>3, <1>4, <1>5, <1>6, <1>7, <1>8 DEF Works

\* A step takes no lock, or those that the worker wants and nobody holds.
LEMMA WorkHeld ==
    ASSUME Inv, NEW w \in Workers, LocksOK(w), Works(w)
    PROVE  Held(w)' \subseteq Held(w) \/ (Blockers(w) = {} /\ Held(w)' \subseteq Held(w) \cup Wanted(w))
<1>1. /\ pc \in [Workers -> Labels] /\ job \in [Workers -> Job] /\ JobOK(w)
      /\ seen \in [Workers -> Loaded] /\ buf \in [Workers -> [Days -> Row \cup {None}]]
  BY DEF Inv, TypeOK, SessionsTyped, SessionsOK
<1>2. /\ Kind(w)' = Kind(w) /\ job'[w].op = job[w].op /\ job'[w].emp = job[w].emp
      /\ job'[w].req = job[w].req
      /\ ~WriteDay(w) => job' = job /\ buf' = buf
  BY WorksFacts
<1>3. RequestRows(w)' = RequestRows(w)
  BY <1>2 DEF RequestRows
<1> DEFINE DayLocks     == {<<"daily", job[w].emp, d>> : d \in {x \in Days : buf[w][x] # None}}
           RequestLocks == IF job[w].op \in Settling
                                 /\ pc[w] \in {"punches", "daily", "write", "commit"}
                           THEN RequestRows(w) ELSE {}
           ClosingLocks == IF job[w].op \in Rebuilding \cup {"reopen"} /\ pc[w] = "commit"
                                 /\ NewClosing(w) # seen[w].closing
                           THEN {<<"closing", job[w].emp>>} ELSE {}
<1>4. Held(w) = DayLocks \cup RequestLocks \cup ClosingLocks
  BY DEF Held
<1>5. Held(w)' = DayLocks' \cup RequestLocks' \cup ClosingLocks'
  BY DEF Held
<1>6. ~WriteDay(w) => DayLocks' = DayLocks
  BY <1>2
<1>7. job[w].op \in Settling => job[w].op \notin Rebuilding \cup {"reopen"}
  BY DEF Settling, Rebuilding
<1>8. CASE \/ ReadBalance(w) \/ CheckMonthOpen(w) \/ ValidatePunch(w)
           \/ SumMonth(w) \/ ReadClosing(w)
  <2>1. pc'[w] \in {"flush", "validate", "punches", "closing", "save"} /\ ~WriteDay(w)
    BY <1>1, <1>8 DEF ReadBalance, CheckMonthOpen, ValidatePunch, SumMonth, ReadClosing, Goto,
                      WriteDay
  <2>2. pc'[w] = "punches" => job[w].op = "punch"
    BY <1>1, <1>8 DEF ReadBalance, CheckMonthOpen, ValidatePunch, SumMonth, ReadClosing, Goto,
                      LocksOK
  <2>3. RequestLocks' = {} /\ ClosingLocks' = {}
    BY <1>2, <2>1, <2>2 DEF Settling
  <2> QED
    BY <1>4, <1>5, <1>6, <2>1, <2>3
<1>9. CASE FlushRequest(w)
  <2>1. Blockers(w) = {} /\ pc[w] = "flush" /\ ~WriteDay(w) /\ job[w].op \in Settling
    BY <1>9 DEF FlushRequest, WriteDay, JobOK, Inv, SessionsOK
  <2>2. Wanted(w) = RequestRows(w)
    BY <2>1 DEF Wanted
  <2>3. ClosingLocks' = {} /\ RequestLocks' \subseteq RequestRows(w)
    BY <1>2, <1>3, <1>7, <2>1
  <2> QED
    BY <1>4, <1>5, <1>6, <2>1, <2>2, <2>3
<1>10. CASE ReadPunches(w) \/ ReadDaily(w)
  <2>1. /\ pc[w] \in {"punches", "daily"} /\ pc'[w] \in {"daily", "write"} /\ ~WriteDay(w)
    BY <1>1, <1>10 DEF ReadPunches, ReadDaily, Goto, WriteDay
  <2>2. RequestLocks' = RequestLocks /\ ClosingLocks' = {}
    BY <1>2, <1>3, <2>1
  <2> QED
    BY <1>4, <1>5, <1>6, <2>1, <2>2
<1>11. CASE SaveClosing(w)
  <2>1. /\ Blockers(w) = {} /\ pc[w] = "save" /\ ~WriteDay(w) /\ seen' = seen /\ job' = job
        /\ job[w].op \in Rebuilding \cup {"reopen"}
    BY <1>1, <1>11 DEF SaveClosing, WriteDay, JobOK
  <2>2. NewClosing(w)' = NewClosing(w)
    BY <2>1 DEF NewClosing
  <2>3. Wanted(w) = IF NewClosing(w) # seen[w].closing THEN {<<"closing", job[w].emp>>} ELSE {}
    BY <2>1 DEF Wanted
  <2>4. ClosingLocks' \subseteq Wanted(w) /\ RequestLocks' = {}
    BY <1>2, <1>7, <2>1, <2>2, <2>3
  <2> QED
    BY <1>4, <1>5, <1>6, <2>1, <2>4
<1>12. CASE WriteDay(w)
  <2> DEFINE d == seen[w].day
  <2>1. /\ Blockers(w) = {} /\ pc[w] = "write"
        /\ pc'[w] = "commit" => job[w].op \notin Rebuilding
        /\ pc'[w] \in {"daily", "punches", "sum", "commit"}
    BY <1>1, <1>12 DEF WriteDay, Goto
  <2>2. job[w].op # "reopen"
    BY <2>1 DEF LocksOK, Kind, Writers, Rebuilding
  <2>3. ClosingLocks' = {}
    BY <1>2, <2>1, <2>2
  <2>4. pc'[w] = "sum" => job[w].op \in Rebuilding
    BY <1>1, <1>12 DEF WriteDay, Goto
  <2>5. RequestLocks' = RequestLocks
    BY <1>2, <1>3, <1>7, <2>1, <2>4
  <2>6. \A x \in Days \ {d} : buf'[w][x] = buf[w][x]
    BY <1>1, <1>12 DEF WriteDay
  <2>7. CASE NewRow(w) = seen[w].row
    <3>1. buf' = buf
      BY <2>7, <1>12 DEF WriteDay
    <3> QED
      BY <1>2, <1>4, <1>5, <2>3, <2>5, <3>1
  <2>8. CASE NewRow(w) # seen[w].row
    <3>1. Wanted(w) = {<<"daily", job[w].emp, d>>}
      BY <2>1, <2>8 DEF Wanted
    <3>2. DayLocks' \subseteq DayLocks \cup {<<"daily", job[w].emp, d>>}
      BY <1>2, <2>6
    <3> QED
      BY <1>4, <1>5, <2>1, <2>3, <2>5, <3>1, <3>2
  <2> QED
    BY <2>7, <2>8
<1> QED
  BY <1>8, <1>9, <1>10, <1>11, <1>12 DEF Works

-----------------------------------------------------------------------------
(* The locks of all sessions. *)

\* One worker moves at a time.
LEMMA OneMoves ==
    ASSUME Inv, [Next]_vars
    PROVE  \/ \A v \in Workers : Same(v)
           \/ \E w \in Workers : /\ \A v \in Workers \ {w} : Same(v)
                                 /\ Begin(w) \/ Works(w) \/ Ended(w)
<1>1. /\ pc \in [Workers -> Labels] /\ job \in [Workers -> Job]
      /\ seen \in [Workers -> Loaded] /\ buf \in [Workers -> [Days -> Row \cup {None}]]
  BY DEF Inv, TypeOK, SessionsTyped
<1>2. ASSUME NEW w \in Workers, Begin(w) PROVE \A v \in Workers \ {w} : Same(v)
  BY <1>1, <1>2 DEF Begin, BeginCancel, BeginDecide, BeginPunch, BeginRebuild, BeginReopen,
                    Goto, Same
<1>3. ASSUME NEW w \in Workers, Works(w) PROVE \A v \in Workers \ {w} : Same(v)
  BY <1>1, <1>3 DEF Works, ReadBalance, FlushRequest, CheckMonthOpen, ValidatePunch,
                    ReadPunches, ReadDaily, WriteDay, SumMonth, ReadClosing, SaveClosing,
                    Goto, Same
<1>4. ASSUME NEW w \in Workers, Release(w)
      PROVE  Ended(w) /\ \A v \in Workers \ {w} : Same(v)
  BY <1>1, <1>4 DEF Release, Same, Ended
<1>5. CASE \E w \in Workers : Serve(w) \/ Fail(w)
  <2>1. PICK w \in Workers : Serve(w) \/ Fail(w)
    BY <1>5
  <2>2. Works(w) \/ Release(w)
    BY <2>1 DEF Serve, Fail, Works, CommitRequest, CommitPunch, CommitClosing, Refuse,
                UniqueViolation, DeadlockVictim
  <2> QED
    BY <1>3, <1>4, <2>2
<1>6. CASE (\E r \in Reqs : CreateRequest(r)) \/ Tick \/ UNCHANGED vars
  BY <1>6 DEF CreateRequest, Tick, vars, session, Same
<1> QED
  BY <1>2, <1>5, <1>6 DEF Next

\* Every step keeps the days to be written free, and a row with one holder.
LEMMA LockInvStep ==
    ASSUME Inv, LockInv, [Next]_vars
    PROVE  LockInv'
<1>1. CASE \A v \in Workers : Same(v)
  BY <1>1, SameLocks DEF LockInv, Exclusive
<1>2. ASSUME NEW w \in Workers, \A v \in Workers \ {w} : Same(v),
             Begin(w) \/ Works(w) \/ Ended(w)
      PROVE  LockInv'
  <2>1. LocksOK(w)'
    BY <1>2, BeginLocks, WorkLocks, EndedLocks DEF LockInv
  <2>2. \A v \in Workers \ {w} : LocksOK(v)' /\ Held(v)' = Held(v)
    BY <1>2, SameLocks DEF LockInv
  <2>3. ASSUME NEW v \in Workers \ {w}
        PROVE  Held(v)' \cap Held(w)' = {}
    <3>1. Held(v) \cap Held(w) = {}
      BY DEF LockInv, Exclusive
    <3>2. Held(w)' \subseteq Held(w) \/ (Blockers(w) = {} /\ Held(w)' \subseteq Held(w) \cup Wanted(w))
      BY <1>2, BeginLocks, WorkHeld, EndedLocks DEF LockInv
    <3>3. Blockers(w) = {} => Held(v) \cap Wanted(w) = {}
      BY DEF Blockers
    <3> QED
      BY <2>2, <3>1, <3>2, <3>3
  <2>4. ASSUME NEW u \in Workers, NEW v \in Workers, u # v
        PROVE  Held(u)' \cap Held(v)' = {}
    <3>1. CASE u = w
      BY <2>3, <2>4, <3>1
    <3>2. CASE v = w
      BY <2>3, <2>4, <3>2
    <3>3. CASE u # w /\ v # w
      BY <2>2, <2>4, <3>3 DEF LockInv, Exclusive
    <3> QED
      BY <3>1, <3>2, <3>3
  <2> QED
    BY <2>1, <2>2, <2>4 DEF LockInv, Exclusive
<1> QED
  BY <1>1, <1>2, OneMoves

\* The inductive invariant of the locks, for any number of workers.
LEMMA LockInvariance == Spec => []LockInv
<1>1. Init => LockInv
  <2> SUFFICES ASSUME Init PROVE LockInv
    OBVIOUS
  <2>1. \A w \in Workers : /\ pc[w] = "idle" /\ buf[w] = NoRows
                           /\ job[w].op = "idle" /\ job[w].todo = {}
    BY DEF Init, NoJob
  <2>2. \A w \in Workers : LocksOK(w)
    BY <2>1 DEF LocksOK
  <2>3. \A w \in Workers : Held(w) = {}
    BY <2>1 DEF Held, NoRows
  <2> QED
    BY <2>2, <2>3 DEF LockInv, Exclusive
<1>2. Inv /\ LockInv /\ [Next]_vars => LockInv'
  BY LockInvStep
<1> QED
  BY <1>1, <1>2, Invariance, PTL DEF Spec

-----------------------------------------------------------------------------
(* Circles. *)

\* In a circle, everyone waits for a row of someone else in it, and holds one that
\* someone else in it waits for.
LEMMA InCircle ==
    ASSUME NEW S \in SUBSET Workers, Deadlocked(S), NEW w \in S
    PROVE  /\ \E v \in S \ {w} : Held(v) \cap Wanted(w) # {}
           /\ \E v \in S \ {w} : Held(w) \cap Wanted(v) # {}
<1>1. PICK v \in S : Blockers(v) \cap S # {}
  BY DEF Deadlocked
<1>2. S # {w}
  BY <1>1 DEF Blockers
<1>3. PICK u \in {w} : Blockers(u) \cap (S \ {w}) # {}
  <2>1. {w} \in (SUBSET S) \ {{}, S}
    BY <1>2
  <2> QED
    BY <2>1 DEF Deadlocked
<1>4. PICK x \in S \ {w} : Blockers(x) \cap (S \ (S \ {w})) # {}
  <2>1. S \ {w} \in (SUBSET S) \ {{}, S}
    BY <1>2
  <2> QED
    BY <2>1 DEF Deadlocked
<1>5. w \in Blockers(x)
  BY <1>4
<1> QED
  BY <1>3, <1>4, <1>5 DEF Blockers

\* Who waits in a circle is about to write a row of a day, and has written another.
LEMMA CircleWrites ==
    ASSUME Inv, DaysInv, LockInv, NEW S \in SUBSET Workers, Deadlocked(S), NEW w \in S
    PROVE  /\ pc[w] = "write"
           /\ Wanted(w) \subseteq {<<"daily", job[w].emp, seen[w].day>>}
           /\ Kind(w) \in Rebuilding \cup {"leave"}
<1>1. \A v \in S : LocksOK(v) /\ OneDay(v)
  BY DEF LockInv, DaysInv, DaysOK
<1>2. \A v \in S : Held(v) # {} /\ Wanted(v) # {}
  BY InCircle
<1>3. ASSUME NEW v \in S PROVE pc[v] \in {"write", "save"}
  <2>1. pc[v] \in {"flush", "write", "save"}
    BY <1>2 DEF Wanted
  <2>2. ASSUME pc[v] = "flush" PROVE FALSE
    <3>1. \A d \in Days : buf[v][d] = None
      BY <1>1, <2>2 DEF LocksOK, NoRows
    <3>2. Held(v) = {}
      BY <2>2, <3>1 DEF Held
    <3> QED
      BY <1>2, <3>2
  <2> QED
    BY <2>1, <2>2
<1>4. ASSUME NEW v \in S PROVE \A x \in Held(v) : x[1] # "closing"
  <2>1. \A x \in RequestRows(v) : x[1] # "closing"
    BY DEF RequestRows
  <2>2. pc[v] # "commit"
    BY <1>3
  <2> QED
    BY <2>1, <2>2 DEF Held
<1>5. ASSUME NEW v \in S PROVE pc[v] = "write"
  <2>1. ASSUME pc[v] = "save" PROVE FALSE
    <3>1. \A x \in Wanted(v) : x[1] = "closing"
      BY <2>1 DEF Wanted
    <3>2. PICK u \in S : Held(u) \cap Wanted(v) # {}
      BY InCircle
    <3>3. PICK x \in Held(u) : x[1] = "closing"
      BY <3>1, <3>2
    <3> QED
      BY <1>4, <3>3
  <2> QED
    BY <1>3, <2>1
<1>6. ASSUME NEW v \in S
      PROVE  Wanted(v) \subseteq {<<"daily", job[v].emp, seen[v].day>>}
  BY <1>5 DEF Wanted
<1>7. PICK d \in Days : buf[w][d] # None
  <2>1. PICK v \in S : \E x \in Held(w) : x = <<"daily", job[v].emp, seen[v].day>>
    BY <1>6, InCircle
  <2>2. \A x \in RequestRows(w) : x[1] # "daily"
    BY DEF RequestRows
  <2>3. PICK x \in Held(w) : x[1] = "daily"
    BY <2>1
  <2>4. pc[w] # "commit"
    BY <1>5
  <2> QED
    BY <2>2, <2>3, <2>4 DEF Held
<1>8. Kind(w) \in Rebuilding \cup {"leave"}
  <2>1. seen[w].day \in job[w].todo /\ Kind(w) \in Writers
    BY <1>1, <1>5 DEF LocksOK
  <2>2. d # seen[w].day
    BY <1>1, <1>7, <2>1 DEF LocksOK
  <2>3. ~Inserts(w)
    BY <1>1, <1>5, <1>7, <2>2 DEF OneDay
  <2> QED
    BY <2>1, <2>3 DEF Inserts, Writers
<1> QED
  BY <1>5, <1>6, <1>8

\* Two leaves of one employee would both hold the balance, so someone recomputes.
LEMMA CircleRebuilds ==
    ASSUME Inv, DaysInv, LockInv, NEW S \in SUBSET Workers, Deadlocked(S)
    PROVE  \E w \in S : job[w].op \in Rebuilding
<1> SUFFICES ASSUME \A w \in S : job[w].op \notin Rebuilding PROVE FALSE
  OBVIOUS
<1>1. PICK w \in S : TRUE
  BY DEF Deadlocked
<1>2. PICK v \in S \ {w} : Held(v) \cap Wanted(w) # {}
  BY <1>1, InCircle
<1>3. ASSUME NEW u \in S
      PROVE  pc[u] = "write" /\ Kind(u) = "leave" /\ job[u].op = "approve"
  <2>1. pc[u] = "write" /\ Kind(u) \in Rebuilding \cup {"leave"}
    BY CircleWrites
  <2>2. job[u].op # "leave"
    BY <2>1 DEF Inv, SessionsOK, JobOK, Endpoints, Settling, Rebuilding
  <2> QED
    BY <2>1, <2>2, ConstantsAssumption
       DEF Kind, Rebuilding, ConstantsAssumption, Types, Inv, SessionsOK, JobOK, Settling
<1>4. job[v].emp = job[w].emp
  <2>1. <<"daily", job[w].emp, seen[w].day>> \in Held(v)
    BY <1>2, CircleWrites
  <2>2. \A x \in RequestRows(v) : x[1] # "daily"
    BY DEF RequestRows
  <2>3. pc[v] # "commit"
    BY <1>3
  <2>4. PICK d \in Days : <<"daily", job[w].emp, seen[w].day>> = <<"daily", job[v].emp, d>>
    BY <2>1, <2>2, <2>3 DEF Held
  <2> QED
    BY <2>4
<1>5. ASSUME NEW u \in S PROVE <<"balance", job[u].emp>> \in Held(u)
  <2>1. <<"balance", job[u].emp>> \in RequestRows(u)
    BY <1>3 DEF RequestRows
  <2> QED
    BY <1>3, <2>1 DEF Held, Settling
<1>6. v # w /\ v \in Workers /\ w \in Workers /\ Held(v) \cap Held(w) = {}
  BY <1>1, <1>2 DEF LockInv, Exclusive
<1> QED
  BY <1>4, <1>5, <1>6

\* Transactions that wait for each other in a circle recompute a month or approve a
\* leave, and one of them recomputes: everything else locks its rows in one order.
THEOREM CirclesRecompute == Spec => []DeadlocksNeedRebuild
<1>1. Inv /\ DaysInv /\ LockInv => DeadlocksNeedRebuild
  BY CircleWrites, CircleRebuilds DEF DeadlocksNeedRebuild
<1> QED
  BY <1>1, Invariance, DaysInvariance, LockInvariance, PTL
=============================================================================
