----------------------------- MODULE DaysProofs -----------------------------
(***************************************************************************)
(* The daily rows, however many transactions write them at once: a day     *)
(* with a punch has a row, and a row that counts as worked is one of a day *)
(* that was clocked in and out.                                            *)
(***************************************************************************)
EXTENDS WorkflowProofs

-----------------------------------------------------------------------------
(* Punches of a day are only added. *)

LEMMA PunchTimesAppend ==
    \A ps \in Seq(Punch), p \in Punch, type \in {"clock_in", "clock_out"} :
        PunchTimes(Append(ps, p), type) =
            PunchTimes(ps, type) \cup (IF p.type = type THEN {p.at} ELSE {})
<1> SUFFICES ASSUME NEW ps \in Seq(Punch), NEW p \in Punch,
                    NEW type \in {"clock_in", "clock_out"}
             PROVE  PunchTimes(Append(ps, p), type) =
                      PunchTimes(ps, type) \cup (IF p.type = type THEN {p.at} ELSE {})
  OBVIOUS
<1>1. PICK qs : qs = Append(ps, p)
  OBVIOUS
<1>2. PICK n : n = Len(ps) + 1
  OBVIOUS
<1>3. /\ DOMAIN qs = DOMAIN ps \cup {n}
      /\ \A i \in DOMAIN ps : qs[i] = ps[i]
      /\ qs[n] = p
  BY <1>1, <1>2
<1>4. \A x : x \in PunchTimes(ps, type) <=>
              \E i \in DOMAIN ps : ps[i].type = type /\ x = ps[i].at
  BY Zenon DEF PunchTimes
<1>5. \A x : x \in PunchTimes(qs, type) <=>
              \E i \in DOMAIN qs : qs[i].type = type /\ x = qs[i].at
  BY Zenon DEF PunchTimes
<1>6. \A x : x \in PunchTimes(qs, type) <=>
              x \in PunchTimes(ps, type) \/ (p.type = type /\ x = p.at)
  BY <1>3, <1>4, <1>5
<1>7. PunchTimes(qs, type) =
        PunchTimes(ps, type) \cup (IF p.type = type THEN {p.at} ELSE {})
  BY <1>6
<1> QED
  BY <1>1, <1>7

\* A day that is clocked in and out stays so, whatever is punched after.
LEMMA DoneStays ==
    \A ps \in Seq(Punch), p \in Punch :
        PunchState(ps) = "done" => PunchState(Append(ps, p)) = "done"
BY PunchTimesAppend DEF PunchState

\* It also stays so when another punch comes before the last one.
LEMMA DoneStaysUnder ==
    \A ps \in Seq(Punch), p, q \in Punch :
        PunchState(Append(ps, p)) = "done"
           => PunchState(Append(Append(ps, q), p)) = "done"
<1> SUFFICES ASSUME NEW ps \in Seq(Punch), NEW p \in Punch, NEW q \in Punch,
                    PunchState(Append(ps, p)) = "done"
             PROVE  PunchState(Append(Append(ps, q), p)) = "done"
  OBVIOUS
<1>1. Append(ps, q) \in Seq(Punch)
  OBVIOUS
<1>2. ASSUME NEW type \in {"clock_in", "clock_out"}
      PROVE  PunchTimes(Append(ps, p), type) \subseteq PunchTimes(Append(Append(ps, q), p), type)
  <2>1. PunchTimes(Append(ps, q), type) =
          PunchTimes(ps, type) \cup (IF q.type = type THEN {q.at} ELSE {})
    BY PunchTimesAppend
  <2>2. PunchTimes(Append(ps, p), type) =
          PunchTimes(ps, type) \cup (IF p.type = type THEN {p.at} ELSE {})
    BY PunchTimesAppend
  <2>3. PunchTimes(Append(Append(ps, q), p), type) =
          PunchTimes(Append(ps, q), type) \cup (IF p.type = type THEN {p.at} ELSE {})
    BY <1>1, PunchTimesAppend
  <2> QED
    BY <2>1, <2>2, <2>3
<1>3. /\ PunchTimes(Append(ps, p), "clock_in") # {}
      /\ PunchTimes(Append(ps, p), "clock_out") # {}
  BY DEF PunchState
<1> QED
  BY <1>2, <1>3 DEF PunchState

-----------------------------------------------------------------------------
(* What a session knows of the days it writes. *)

\* The punch of a session goes to one day, and it writes no other.
OneDay(w) ==
    Inserts(w) => \E x \in Days :
        /\ job[w].todo \subseteq {x}
        /\ \A d \in Days \ {x} : buf[w][d] = None
        /\ pc[w] \in {"daily", "write", "commit"} => seen[w].day = x

\* What a session has flushed for a day is a row, which counts as worked only if
\* the punches that the session sees say so.
FlushedOK(w) ==
    \A d \in Days : buf[w][d] # None =>
        /\ pc[w] # "idle"
        /\ buf[w][d].exists
        /\ buf[w][d].status = "normal" => PunchState(VisiblePunches(w, d)) = "done"

\* What a session has loaded to write a day is a past state of what it sees now.
LoadedOK(w) ==
    /\ pc[w] = "write" /\ seen[w].row.exists => VisibleRow(w, seen[w].day).exists
    /\ pc[w] \in {"daily", "write"} /\ Kind(w) # "leave"
         => (PunchState(seen[w].punches) = "done"
               => PunchState(VisiblePunches(w, seen[w].day)) = "done")

\* A punch is committed with the row of its day.
WrittenOK(w) == pc[w] = "commit" /\ Inserts(w) => VisibleRow(w, seen[w].day).exists

DaysOK == \A w \in Workers : OneDay(w) /\ FlushedOK(w) /\ LoadedOK(w) /\ WrittenOK(w)

DaysInv == DaysOK /\ PunchedDayHasRow /\ NormalDayWasClockedOut

-----------------------------------------------------------------------------
(* What a step does to the punches and the rows of a day. *)

LEMMA RowsStay ==
    ASSUME Inv, DaysOK, [Next]_vars, NEW e \in Employees, NEW d \in Days,
           daily[e][d].exists
    PROVE  daily'[e][d].exists
<1>1. CASE \E w \in Workers : Commits(w)
  <2>1. PICK w \in Workers : Commits(w)
    BY <1>1
  <2>2. e = job[w].emp => VisibleRow(w, d).exists
    BY DEF DaysOK, FlushedOK, VisibleRow
  <2> QED
    BY <2>1, <2>2, CommittedDay
<1>2. CASE \E r \in Reqs : CreateRequest(r)
  BY <1>2 DEF CreateRequest
<1>3. CASE UNCHANGED tables
  BY <1>3 DEF tables
<1> QED
  BY <1>1, <1>2, <1>3, TableSteps

\* While another worker steps, a session sees as much as before.
LEMMA VisibleStays ==
    ASSUME Inv, DaysOK, [Next]_vars, NEW w \in Workers, Same(w), pc[w] # "idle",
           NEW d \in Days
    PROVE  /\ VisibleRow(w, d).exists => VisibleRow(w, d)'.exists
           /\ PunchState(VisiblePunches(w, d)) = "done"
                => PunchState(VisiblePunches(w, d)') = "done"
<1>1. PICK e \in Employees : e = job[w].emp
  BY DEF Inv, SessionsOK, JobOK
<1>2. VisibleRow(w, d).exists => VisibleRow(w, d)'.exists
  BY <1>1, RowsStay DEF VisibleRow, Same
<1>3. PICK ps \in Seq(Punch) : ps = punches[e][d]
  BY DEF Inv, TypeOK, TablesTyped
<1>4. PICK qs : qs = punches'[e][d]
  OBVIOUS
<1>5. qs = ps \/ \E q \in Punch : qs = Append(ps, q)
  BY <1>3, <1>4, PunchesGrow
<1>6. CASE Inserts(w)
  <2>1. PICK p \in Punch : p = job[w].punch
    BY <1>6, InsertedPunch
  <2>2. VisiblePunches(w, d) = Append(ps, p)
    BY <1>1, <1>3, <1>6, <2>1 DEF VisiblePunches
  <2>3. VisiblePunches(w, d)' = Append(qs, p)
    BY <1>1, <1>4, <1>6, <2>1 DEF VisiblePunches, Inserts, Kind, Same
  <2> QED
    BY <1>2, <1>5, <2>2, <2>3, DoneStaysUnder
<1>7. CASE ~Inserts(w)
  <2>1. VisiblePunches(w, d) = ps
    BY <1>1, <1>3, <1>7 DEF VisiblePunches
  <2>2. VisiblePunches(w, d)' = qs
    BY <1>1, <1>4, <1>7 DEF VisiblePunches, Inserts, Kind, Same
  <2> QED
    BY <1>2, <1>5, <2>1, <2>2, DoneStays
<1> QED
  BY <1>6, <1>7

-----------------------------------------------------------------------------
(* The step of one worker, and the properties. *)

\* The parts of DaysOK about one worker.
DaysOfWorker(w) == OneDay(w) /\ FlushedOK(w) /\ LoadedOK(w) /\ WrittenOK(w)

\* What a session sees of a row, or computes for it, counts as worked only if its
\* punches say so.
LEMMA NormalIsDone ==
    ASSUME Inv, DaysOK, NormalDayWasClockedOut, NEW w \in Workers, pc[w] # "idle",
           NEW d \in Days, VisibleRow(w, d).status = "normal"
    PROVE  PunchState(VisiblePunches(w, d)) = "done"
<1>1. CASE buf[w][d] # None
  BY <1>1 DEF DaysOK, FlushedOK, VisibleRow
<1>2. CASE buf[w][d] = None
  <2>1. PICK e \in Employees : e = job[w].emp
    BY DEF Inv, SessionsOK, JobOK
  <2>2. PICK ps \in Seq(Punch) : ps = punches[e][d]
    BY DEF Inv, TypeOK, TablesTyped
  <2>3. PunchState(ps) = "done"
    BY <1>2, <2>1, <2>2 DEF VisibleRow, NormalDayWasClockedOut
  <2> QED
    BY <2>1, <2>2, <2>3, InsertedPunch, DoneStays DEF VisiblePunches
<1> QED
  BY <1>1, <1>2

LEMMA WriteKeepsDays ==
    ASSUME Inv, DaysOK, NormalDayWasClockedOut, NEW w \in Workers, WriteDay(w)
    PROVE  DaysOfWorker(w)'
<1>1. /\ pc[w] = "write" /\ job[w].emp \in Employees /\ job[w].op \in Endpoints
      /\ pc'[w] \in {"daily", "punches", "sum", "commit"} /\ seen'[w] = seen[w]
      /\ pc'[w] = "daily" => Kind(w) = "leave"
      /\ UNCHANGED tables
  BY DEF WriteDay, Goto, Inv, SessionsOK, JobOK, TypeOK, SessionsTyped
<1>2. PICK d \in Days : d = seen[w].day
  BY <1>1 DEF Inv, SessionsOK, DayOK
<1>3. /\ job'[w] = [job[w] EXCEPT !.todo = @ \ {d}]
      /\ job[w] \in Job
  BY <1>2 DEF WriteDay, Inv, TypeOK, SessionsTyped
<1>4. /\ job'[w].op = job[w].op /\ job'[w].req = job[w].req /\ job'[w].emp = job[w].emp
      /\ job'[w].punch = job[w].punch /\ job'[w].todo \subseteq job[w].todo
  BY <1>3 DEF Job
<1>5. Inserts(w)' = Inserts(w) /\ Kind(w)' = Kind(w)
  BY <1>4 DEF Inserts, Kind
<1>6. ASSUME NEW x \in Days PROVE VisiblePunches(w, x)' = VisiblePunches(w, x)
  BY <1>1, <1>4, <1>5 DEF VisiblePunches, tables
<1>7. PICK cur \in Row, row \in Row, new \in Row :
        cur = VisibleRow(w, d) /\ row = seen[w].row /\ new = NewRow(w)
  BY <1>1, VisibleType, NewValuesType DEF Inv, TypeOK, SessionsTyped, Loaded
<1>8. new.exists
  BY <1>7 DEF NewRow, LeaveRow, Metrics
<1>9. new.status = "normal" => PunchState(VisiblePunches(w, d)) = "done"
  BY <1>1, <1>2, <1>7 DEF NewRow, LeaveRow, Metrics, DaysOK, LoadedOK
<1>10. cur.status = "normal" => PunchState(VisiblePunches(w, d)) = "done"
  BY <1>1, <1>7, NormalIsDone
<1>11. OneDay(w)'
  <2>1. ASSUME Inserts(w) PROVE \A x \in Days \ {d} : buf[w][x] = None
    BY <1>1, <1>2, <2>1 DEF DaysOK, OneDay
  <2>2. ASSUME Inserts(w) PROVE job[w].todo \subseteq {d}
    BY <1>1, <1>2, <2>2 DEF DaysOK, OneDay
  <2>3. \A x \in Days \ {d} : buf'[w][x] = buf[w][x]
    BY <1>2 DEF WriteDay, Inv, TypeOK, SessionsTyped
  <2> QED
    BY <1>1, <1>2, <1>4, <1>5, <2>1, <2>2, <2>3 DEF OneDay
<1>12. CASE new = row
  <2>1. buf' = buf
    BY <1>7, <1>12 DEF WriteDay
  <2>2. FlushedOK(w)'
    BY <1>1, <1>6, <2>1 DEF FlushedOK, DaysOK
  <2>3. VisibleRow(w, d)' = cur
    BY <1>1, <1>4, <1>7, <2>1 DEF VisibleRow, tables
  <2>4. cur.exists
    BY <1>1, <1>2, <1>7, <1>8, <1>12 DEF DaysOK, LoadedOK
  <2> QED
    BY <1>1, <1>2, <1>5, <1>11, <2>2, <2>3, <2>4 DEF DaysOfWorker, LoadedOK, WrittenOK
<1>13. CASE new # row
  <2>1. PICK upd \in Row : upd = UpdateRow(cur, row, new)
    BY <1>7, UpdateRowType
  <2>2. upd.exists /\ (upd.status = "normal" =>
                         PunchState(VisiblePunches(w, d)) = "done")
    BY <1>9, <1>10, <2>1 DEF UpdateRow, Column
  <2>3. buf' = [buf EXCEPT ![w][d] = upd]
    BY <1>2, <1>7, <1>13, <2>1 DEF WriteDay
  <2>4. upd # None
    BY <2>1, ConstantsAssumption DEF ConstantsAssumption
  <2>5. buf'[w][d] = upd /\ \A x \in Days : x # d => buf'[w][x] = buf[w][x]
    BY <2>3 DEF Inv, TypeOK, SessionsTyped
  <2>6. FlushedOK(w)'
    BY <1>1, <1>6, <2>2, <2>5 DEF FlushedOK, DaysOK
  <2>7. VisibleRow(w, d)' = upd
    BY <2>4, <2>5 DEF VisibleRow
  <2> QED
    BY <1>1, <1>2, <1>5, <1>11, <2>2, <2>6, <2>7 DEF DaysOfWorker, LoadedOK, WrittenOK
<1> QED
  BY <1>12, <1>13

LEMMA BeginKeepsDays ==
    ASSUME Inv, DaysOK, NEW w \in Workers, Begin(w), UNCHANGED tables
    PROVE  DaysOfWorker(w)'
<1>1. /\ pc[w] = "idle" /\ buf' = buf
      /\ pc'[w] \notin {"daily", "write", "commit"}
  BY DEF Begin, BeginCancel, BeginDecide, BeginPunch, BeginRebuild, BeginReopen, Goto,
         Inv, TypeOK, SessionsTyped
<1>2. \A d \in Days : buf'[w][d] = None
  BY <1>1 DEF DaysOK, FlushedOK
<1>3. OneDay(w)'
  <2>1. job \in [Workers -> Job]
    BY DEF Inv, TypeOK, SessionsTyped
  <2>2. CASE \E r \in Reqs, a \in Approvers, op \in {"approve", "reject"} :
               BeginDecide(w, op, a, r)
    <3>1. PICK r \in Reqs, a \in Approvers, op \in {"approve", "reject"} :
                 BeginDecide(w, op, a, r)
      BY <2>2
    <3>2. job'[w].op = op /\ job'[w].req = r
          /\ job'[w].todo = IF op = "approve" THEN Payload[r].days ELSE {}
      BY <2>1, <3>1 DEF BeginDecide, DaysToWrite
    <3>3. Inserts(w)' => Payload[r].type = "punch_fix" /\ op = "approve"
      BY <3>1, <3>2, ConstantsAssumption DEF Inserts, Kind, ConstantsAssumption, Types
    <3>4. Payload[r].type = "punch_fix" => \E x \in Days : Payload[r].days = {x}
      BY ConstantsAssumption DEF ConstantsAssumption
    <3> QED
      BY <1>1, <1>2, <3>2, <3>3, <3>4 DEF OneDay
  <2>3. CASE \E e \in Employees, type \in PunchTypes : BeginPunch(w, e, type)
    <3>1. now.day \in Days /\ job'[w].todo = {now.day}
      BY <2>1, <2>3 DEF BeginPunch
    <3> QED
      BY <1>1, <1>2, <3>1 DEF OneDay
  <2>4. CASE \/ \E r \in Reqs : BeginCancel(w, r)
             \/ \E e \in Employees, op \in Rebuilding : BeginRebuild(w, op, e)
             \/ \E e \in Employees : BeginReopen(w, e)
    <3>1. job'[w].op \in {"cancel", "reopen"} \cup Rebuilding
      BY <2>1, <2>4 DEF BeginCancel, BeginRebuild, BeginReopen, NoJob
    <3> QED
      BY <3>1 DEF OneDay, Inserts, Kind, Rebuilding
  <2> QED
    BY <2>2, <2>3, <2>4 DEF Begin
<1> QED
  BY <1>1, <1>2, <1>3 DEF DaysOfWorker, FlushedOK, LoadedOK, WrittenOK

\* The steps that load something.
LEMMA ReadKeepsDays ==
    ASSUME Inv, DaysOK, NEW w \in Workers, Works(w), ~WriteDay(w), UNCHANGED tables
    PROVE  DaysOfWorker(w)'
<1>1. /\ job' = job /\ buf' = buf
      /\ pc[w] # "idle" /\ (pc'[w] \notin {"idle", "write"} \/ ReadDaily(w))
  BY DEF Works, ReadBalance, FlushRequest, CheckMonthOpen, ValidatePunch, ReadPunches,
         ReadDaily, WriteDay, SumMonth, ReadClosing, SaveClosing, Goto,
         Inv, TypeOK, SessionsTyped
<1>2. Inserts(w)' = Inserts(w) /\ Kind(w)' = Kind(w)
  BY <1>1 DEF Inserts, Kind
<1>3. \A d \in Days : /\ VisiblePunches(w, d)' = VisiblePunches(w, d)
                      /\ VisibleRow(w, d)' = VisibleRow(w, d)
  BY <1>1, <1>2 DEF VisiblePunches, VisibleRow, tables
<1>4. pc \in [Workers -> Labels] /\ seen \in [Workers -> Loaded] /\ JobOK(w)
  BY DEF Inv, TypeOK, SessionsTyped, SessionsOK
<1>5. FlushedOK(w)'
  <2>1. pc'[w] # "idle"
    BY <1>1, <1>4 DEF ReadDaily, Goto
  <2> QED
    BY <1>1, <1>3, <2>1 DEF FlushedOK, DaysOK
<1>6. CASE ReadPunches(w)
  <2>1. PICK d \in job[w].todo :
               seen' = [seen EXCEPT ![w] = [@ EXCEPT !.day = d, !.now = ReferenceNow(w),
                                                     !.punches = VisiblePunches(w, d)]]
    BY <1>6 DEF ReadPunches
  <2>2. d \in Days
    BY DEF Inv, TypeOK, SessionsTyped, Job
  <2>3. seen'[w].day = d /\ seen'[w].punches = VisiblePunches(w, d) /\ pc'[w] = "daily"
    BY <1>4, <1>6, <2>1 DEF ReadPunches, Goto, Loaded
  <2> QED
    BY <1>1, <1>2, <1>3, <1>5, <2>2, <2>3
       DEF DaysOfWorker, DaysOK, OneDay, LoadedOK, WrittenOK
<1>7. CASE ReadDaily(w)
  <2>1. PICK d \in IF Kind(w) = "leave" THEN FirstDay(job[w].todo) ELSE {seen[w].day} :
               seen' = [seen EXCEPT ![w] = [@ EXCEPT !.day = d, !.row = VisibleRow(w, d)]]
    BY <1>7 DEF ReadDaily
  <2>2. d \in Days
    BY <1>7 DEF ReadDaily, FirstDay, Inv, TypeOK, SessionsTyped, Job, SessionsOK, DayOK
  <2>3. /\ seen'[w].day = d /\ seen'[w].row = VisibleRow(w, d)
        /\ seen'[w].punches = seen[w].punches
        /\ pc[w] = "daily" /\ pc'[w] = "write"
    BY <1>4, <1>7, <2>1 DEF ReadDaily, Goto, Loaded
  <2>4. Kind(w) # "leave" => d = seen[w].day
    BY <2>1
  <2>5. Inserts(w) => Kind(w) # "leave"
    BY DEF Inserts
  <2> QED
    BY <1>1, <1>2, <1>3, <1>5, <2>2, <2>3, <2>4, <2>5
       DEF DaysOfWorker, DaysOK, OneDay, LoadedOK, WrittenOK
<1>8. CASE ~ReadPunches(w) /\ ~ReadDaily(w)
  <2>1. /\ pc'[w] \notin {"daily", "write", "commit"} \/ ~Inserts(w)
        /\ pc'[w] # "write" /\ (pc'[w] = "daily" => Kind(w) = "leave")
    <3>1. CASE FlushRequest(w)
      <4>1. pc[w] = "flush" /\ job[w].op \in Settling
        BY <1>4, <3>1 DEF FlushRequest, JobOK
      <4>2. Kind(w) # "punch"
        BY <4>1, ConstantsAssumption DEF Kind, JobOK, Settling, ConstantsAssumption, Types, Inv, SessionsOK
      <4>3. pc'[w] = CASE Kind(w) = "punch_fix" -> "punches"
                       [] Kind(w) = "leave"     -> "daily"
                       [] OTHER                 -> "commit"
        BY <1>4, <3>1 DEF FlushRequest, Goto
      <4> QED
        BY <4>2, <4>3 DEF Inserts
    <3>2. CASE SaveClosing(w)
      <4>1. job[w].op \in Rebuilding \cup {"reopen"} /\ pc'[w] = "commit"
        BY <1>4, <3>2 DEF SaveClosing, JobOK, Goto
      <4> QED
        BY <4>1 DEF Inserts, Kind, Rebuilding
    <3>3. CASE ReadBalance(w) \/ CheckMonthOpen(w) \/ ValidatePunch(w) \/ SumMonth(w)
                 \/ ReadClosing(w)
      BY <1>4, <3>3 DEF ReadBalance, CheckMonthOpen, ValidatePunch, SumMonth, ReadClosing, Goto
    <3> QED
      BY <1>8, <3>1, <3>2, <3>3 DEF Works
  <2> QED
    BY <1>1, <1>2, <1>5, <2>1 DEF DaysOfWorker, DaysOK, OneDay, LoadedOK, WrittenOK
<1> QED
  BY <1>6, <1>7, <1>8

LEMMA DaysStep ==
    ASSUME Inv, DaysOK, NormalDayWasClockedOut, [Next]_vars, NEW w \in Workers
    PROVE  DaysOfWorker(w)'
<1>1. CASE Ended(w)
  BY <1>1 DEF Ended, DaysOfWorker, OneDay, FlushedOK, LoadedOK, WrittenOK, Inserts, Kind,
              NoJob, NoRows
<1>2. CASE Same(w)
  <2>1. Inserts(w)' = Inserts(w) /\ Kind(w)' = Kind(w)
    BY <1>2 DEF Same, Inserts, Kind
  <2>2. OneDay(w)'
    BY <1>2, <2>1 DEF Same, DaysOK, OneDay
  <2>3. ASSUME NEW d \in Days, pc[w] # "idle"
        PROVE  /\ VisibleRow(w, d).exists => VisibleRow(w, d)'.exists
               /\ PunchState(VisiblePunches(w, d)) = "done"
                    => PunchState(VisiblePunches(w, d)') = "done"
    BY <1>2, <2>3, VisibleStays
  <2>4. FlushedOK(w)'
    BY <1>2, <2>3 DEF Same, DaysOK, FlushedOK
  <2>5. pc[w] = "write" \/ (pc[w] = "daily" /\ Kind(w) # "leave")
          \/ (pc[w] = "commit" /\ Inserts(w)) => seen[w].day \in Days
    BY DEF Inv, SessionsOK, DayOK
  <2>6. PICK d : d = seen[w].day /\ d = seen'[w].day
    BY <1>2 DEF Same
  <2>7. LoadedOK(w)' /\ WrittenOK(w)'
    BY <1>2, <2>1, <2>3, <2>5, <2>6 DEF Same, DaysOK, LoadedOK, WrittenOK
  <2> QED
    BY <2>2, <2>4, <2>7 DEF DaysOfWorker
<1> QED
  BY <1>1, <1>2, SessionSteps, BeginKeepsDays, ReadKeepsDays, WriteKeepsDays

LEMMA DaysInvStep ==
    ASSUME Inv, DaysInv, [Next]_vars
    PROVE  DaysInv'
<1>1. DaysOK /\ PunchedDayHasRow /\ NormalDayWasClockedOut
  BY DEF DaysInv
<1>2. DaysOK'
  BY <1>1, DaysStep DEF DaysOK, DaysOfWorker
<1>3. ASSUME NEW e \in Employees, NEW d \in Days
      PROVE  /\ punches'[e][d] # <<>> => daily'[e][d].exists
             /\ daily'[e][d].status = "normal" => PunchState(punches'[e][d]) = "done"
  <2>1. CASE \E w \in Workers : Commits(w)
    <3>1. PICK w \in Workers : Commits(w)
      BY <2>1
    <3>2. pc[w] = "commit"
      BY <3>1, CommitSteps
    <3>3. CASE e # job[w].emp
      BY <1>1, <3>1, <3>3, CommittedDay DEF PunchedDayHasRow, NormalDayWasClockedOut
    <3>4. CASE e = job[w].emp
      <4>1. daily'[e][d] = VisibleRow(w, d)
        BY <3>1, <3>4, CommittedDay
      <4>2. CASE Inserts(w) /\ d = seen[w].day
        <5>1. punches'[e][d] = VisiblePunches(w, d)
          BY <3>1, <3>4, <4>2, CommittedDay DEF VisiblePunches
        <5>2. VisibleRow(w, d).exists
          BY <1>1, <3>2, <4>2 DEF DaysOK, WrittenOK
        <5> QED
          BY <1>1, <3>2, <4>1, <5>1, <5>2, NormalIsDone
      <4>3. CASE Inserts(w) /\ d # seen[w].day
        <5>1. punches'[e][d] = punches[e][d]
          BY <3>1, <4>3, CommittedDay
        <5>2. buf[w][d] = None
          BY <1>1, <3>2, <4>3 DEF DaysOK, OneDay
        <5>3. daily'[e][d] = daily[e][d]
          BY <3>4, <4>1, <5>2 DEF VisibleRow
        <5> QED
          BY <1>1, <5>1, <5>3 DEF PunchedDayHasRow, NormalDayWasClockedOut
      <4>4. CASE ~Inserts(w)
        <5>1. punches'[e][d] = punches[e][d] /\ punches[e][d] = VisiblePunches(w, d)
          BY <3>1, <3>4, <4>4, CommittedDay DEF VisiblePunches
        <5>2. punches[e][d] # <<>> => daily'[e][d].exists
          BY <1>1, RowsStay DEF PunchedDayHasRow
        <5> QED
          BY <1>1, <3>2, <4>1, <5>1, <5>2, NormalIsDone
      <4> QED
        BY <4>2, <4>3, <4>4
    <3> QED
      BY <3>3, <3>4
  <2>2. CASE \E r \in Reqs : CreateRequest(r)
    BY <1>1, <2>2 DEF CreateRequest, PunchedDayHasRow, NormalDayWasClockedOut
  <2>3. CASE UNCHANGED tables
    BY <1>1, <2>3 DEF tables, PunchedDayHasRow, NormalDayWasClockedOut
  <2> QED
    BY <2>1, <2>2, <2>3, TableSteps
<1> QED
  BY <1>2, <1>3 DEF DaysInv, PunchedDayHasRow, NormalDayWasClockedOut

LEMMA DaysInvariance == Spec => []DaysInv
<1>1. Init => DaysInv
  BY DEF Init, DaysInv, DaysOK, OneDay, FlushedOK, LoadedOK, WrittenOK, Inserts, Kind,
         NoJob, NoRows, NoRow, PunchedDayHasRow, NormalDayWasClockedOut
<1>2. Inv /\ DaysInv /\ [Next]_vars => DaysInv'
  BY DaysInvStep
<1> QED
  BY <1>1, <1>2, Invariance, PTL DEF Spec

\* Closings and exports read the daily rows: a day with a punch has one, however
\* many transactions insert punches and rows at once and whichever of them fail.
THEOREM PunchedDaysHaveRows == Spec => []PunchedDayHasRow
<1>1. DaysInv => PunchedDayHasRow
  BY DEF DaysInv
<1> QED
  BY <1>1, DaysInvariance, PTL

\* A day counts as worked only if it was clocked in and out, even when an UPDATE
\* writes one column computed from punches that are no longer all there are.
THEOREM NormalDaysAreDone == Spec => []NormalDayWasClockedOut
<1>1. DaysInv => NormalDayWasClockedOut
  BY DEF DaysInv
<1> QED
  BY <1>1, DaysInvariance, PTL
=============================================================================
