---------------------------- MODULE SerialProofs ----------------------------
(***************************************************************************)
(* One transaction at a time.  When a single worker serves the requests,   *)
(* what a session has loaded is still true when it commits, and the rules  *)
(* of the services are right: balances are the approved leaves, a daily    *)
(* row is what its punches compute for some moment up to now, the totals   *)
(* of a closed month are those of its days and stay put but for the days   *)
(* that are still open, and the handling of requests implements Settlement.*)
(***************************************************************************)
EXTENDS DaysProofs, AuditProofs

-----------------------------------------------------------------------------
(* What the only session knows. *)

\* The jobs that write daily rows.
DayJobs == {"leave", "punch", "punch_fix"} \cup Rebuilding

\* A leave knows the used days as they are.
BalanceFresh(w) ==
    Kind(w) = "leave" /\ pc[w] \in {"flush", "daily", "write", "commit"}
       => seen[w].used = used[job[w].emp]

\* A session that adds a punch does so to an open month.
MonthFresh(w) ==
    Inserts(w) /\ pc[w] \notin {"idle", "guard"} => ~closings[job[w].emp].closed

\* A session that saves a closing has loaded it as it is, and found no conflict.
ClosingFresh(w) ==
    job[w].op \in Rebuilding \cup {"reopen"} /\ pc[w] \in {"save", "commit"}
       => seen[w].closing = closings[job[w].emp] /\ ~ClosingConflict(w)

\* What _sum_month has added up are the rows that will be committed.
TotalFresh(w) ==
    job[w].op \in Rebuilding /\ pc[w] \in {"closing", "save", "commit"}
       => \A d \in Days : seen[w].total[d] = VisibleRow(w, d).worked

\* The punches and the row of the day that is written are those the session sees.
DayFresh(w) ==
    /\ pc[w] \in {"daily", "write"} /\ Kind(w) # "leave"
         => seen[w].punches = VisiblePunches(w, seen[w].day)
    /\ pc[w] = "write" => seen[w].row = VisibleRow(w, seen[w].day)

\* A leave writes its own days, a closing those that have punches.
DayOfJob(w, d) ==
    /\ Kind(w) \in DayJobs
    /\ Kind(w) = "leave" => d \in Payload[job[w].req].days
    /\ job[w].op \in Rebuilding => punches[job[w].emp][d] # <<>>

DaysOfJob(w) ==
    /\ pc[w] \in {"punches", "daily", "write"} => Kind(w) \in DayJobs
    /\ Kind(w) \in DayJobs => \A d \in job[w].todo : DayOfJob(w, d)
    /\ pc[w] = "write" \/ (pc[w] = "daily" /\ Kind(w) # "leave") => DayOfJob(w, seen[w].day)

\* The moments that a session computes its days for have come.
TimeFresh(w) ==
    /\ job[w].op \in {"punch"} \cup Rebuilding => job[w].now \in Past
    /\ pc[w] \in {"daily", "write"} /\ Kind(w) # "leave" => seen[w].now \in Past

\* The row is one that the job may have computed for a day.
RowOfJob(w, d, row) ==
    IF Kind(w) = "leave"
    THEN row = LeaveRow(daily[job[w].emp][d], Payload[job[w].req].half)
    ELSE \E m \in Past : row = Metrics(VisiblePunches(w, d), d, m)

FlushedRows(w) ==
    /\ \A d \in Days : buf[w][d] # None =>
          pc[w] # "idle" /\ DayOfJob(w, d) /\ RowOfJob(w, d, buf[w][d])
    /\ pc[w] = "commit" /\ Inserts(w)
          => RowOfJob(w, seen[w].day, VisibleRow(w, seen[w].day))

FreshSession(w) ==
    /\ BalanceFresh(w) /\ MonthFresh(w) /\ ClosingFresh(w) /\ TotalFresh(w)
    /\ DayFresh(w) /\ DaysOfJob(w) /\ TimeFresh(w) /\ FlushedRows(w)

\* RowMatchesPunches, also while a transaction is running.
RowMatches(e, d) ==
    punches[e][d] # <<>> => \E m \in Past :
       \/ daily[e][d] = Metrics(punches[e][d], d, m)
       \/ \E half \in BOOLEAN :
             /\ LeaveApproved(e, d, half)
             /\ daily[e][d] = LeaveRow(Metrics(punches[e][d], d, m), half)

SerialDays ==
    /\ \A w \in Workers : FreshSession(w)
    /\ \A e \in Employees, d \in Days : RowMatches(e, d)
    /\ TotalsMatchDays
    /\ \A e \in Employees : used[e] = Cardinality(HalfDaysApproved(e))

-----------------------------------------------------------------------------
(* Time. *)

\* What has been stays in the past, and now belongs to it.
LEMMA PastGrows ==
    ASSUME Inv, [Next]_vars
    PROVE  now \in Past /\ Past \subseteq Past'
<1>1. /\ now \in Moment /\ LastDate \in Nat /\ LastMinute \in Nat
      /\ now.day \in 0 .. LastDate /\ now.at \in 0 .. LastMinute
  BY ConstantsAssumption DEF Inv, TypeOK, Moment, ConstantsAssumption
<1>2. now \in Past
  BY <1>1 DEF Past
<1>3. \/ now' = now
      \/ now'.day = now.day /\ now'.at = now.at + 1
      \/ now'.day = now.day + 1
  BY <1>1 DEF Next, Tick, vars, Moment
<1>4. ASSUME NEW m \in Past PROVE m \in Past'
  <2>1. /\ m \in Moment /\ m.day \in 0 .. LastDate /\ m.at \in 0 .. LastMinute
        /\ m.day < now.day \/ (m.day = now.day /\ m.at <= now.at)
    BY DEF Past, Moment
  <2>2. m.day < now'.day \/ (m.day = now'.day /\ m.at <= now'.at)
    BY <1>1, <1>3, <2>1
  <2> QED
    BY <2>1, <2>2 DEF Past
<1> QED
  BY <1>2, <1>4

\* The minutes of a day that is not open do not depend on the moment.
LEMMA WorkedOfDone ==
    ASSUME NEW ps, PunchState(ps) # "working", NEW d, NEW m, NEW n
    PROVE  Worked(ps, d, m) = Worked(ps, d, n)
<1>1. CASE PunchTimes(ps, "clock_in") = {}
  BY <1>1 DEF Worked
<1>2. CASE PunchTimes(ps, "clock_out") # {}
  <2>1. Ends(ps, d, m) = Ends(ps, d, n)
    BY <1>2 DEF Ends
  <2> QED
    BY <2>1 DEF Worked
<1> QED
  BY <1>1, <1>2 DEF PunchState

-----------------------------------------------------------------------------
(* Steps when there is one worker. *)

\* Nothing runs: a request is submitted, or nothing happens.
Quiet ==
    /\ UNCHANGED <<session, used, auditLogs, punches, daily, closings>>
    /\ \A r \in Reqs : status[r] # "none" => status'[r] = status[r]
    /\ \A r \in Reqs : status[r] = "none" => status'[r] \in {"none", "pending"}

LEMMA SerialSteps ==
    ASSUME OneWorker, Inv, [Next]_vars, NEW w \in Workers
    PROVE  \/ Quiet
           \/ Begin(w) /\ UNCHANGED tables
           \/ Works(w) /\ UNCHANGED tables
           \/ Commits(w)
           \/ Ended(w) /\ UNCHANGED tables
<1>1. status \in [Reqs -> {"none", "pending", "approved", "rejected", "canceled"}]
  BY DEF Inv, TypeOK, TablesTyped
<1>2. CASE \E r \in Reqs : CreateRequest(r)
  BY <1>1, <1>2 DEF CreateRequest, Quiet
<1>3. CASE Tick \/ UNCHANGED vars
  BY <1>1, <1>3 DEF Tick, vars, tables, session, Quiet
<1>4. CASE Begin(w)
  BY <1>4, BeginFacts
<1>5. CASE Serve(w) \/ Fail(w)
  <2>1. Works(w) \/ Commits(w) \/ (Release(w) /\ UNCHANGED tables)
    BY <1>5 DEF Serve, Fail, Works, Commits, Refuse, UniqueViolation, DeadlockVictim
  <2>2. Release(w) => Ended(w)
    BY DEF Release, Ended, Inv, TypeOK, SessionsTyped
  <2> QED
    BY <2>1, <2>2, WorksFacts
<1>6. CASE \E v \in Workers : Begin(v) \/ Serve(v) \/ Fail(v)
  BY <1>4, <1>5, <1>6 DEF OneWorker
<1> QED
  BY <1>2, <1>3, <1>6 DEF Next

LEMMA EndedIsFresh ==
    ASSUME NEW w \in Workers, Ended(w)
    PROVE  FreshSession(w)'
<1>1. /\ pc'[w] = "idle" /\ job'[w].op = "idle" /\ job'[w].todo = {}
      /\ \A d \in Days : buf'[w][d] = None
  BY DEF Ended, NoJob, NoRows
<1>2. Kind(w)' = "idle" /\ ~Inserts(w)'
  BY <1>1 DEF Kind, Inserts
<1> QED
  BY <1>1, <1>2
     DEF FreshSession, BalanceFresh, MonthFresh, ClosingFresh, TotalFresh, DayFresh,
         DaysOfJob, TimeFresh, FlushedRows, DayJobs, Rebuilding

LEMMA QuietIsFresh ==
    ASSUME NEW w \in Workers, FreshSession(w), Quiet, Past \subseteq Past'
    PROVE  FreshSession(w)'
<1>1. UNCHANGED <<pc, job, seen, buf, used, punches, daily, closings>>
  BY DEF Quiet, session
<1>2. Kind(w)' = Kind(w) /\ Inserts(w)' = Inserts(w)
  BY <1>1 DEF Kind, Inserts
<1>3. /\ \A d : VisibleRow(w, d)' = VisibleRow(w, d)
      /\ \A d : VisiblePunches(w, d)' = VisiblePunches(w, d)
      /\ \A d : DayOfJob(w, d)' = DayOfJob(w, d)
      /\ ClosingConflict(w)' = ClosingConflict(w)
  BY <1>1, <1>2 DEF VisibleRow, VisiblePunches, DayOfJob, ClosingConflict
<1>4. \A d, row : RowOfJob(w, d, row) => RowOfJob(w, d, row)'
  BY <1>1, <1>2, <1>3 DEF RowOfJob
<1>5. BalanceFresh(w)' /\ MonthFresh(w)' /\ ClosingFresh(w)' /\ TotalFresh(w)'
  BY <1>1, <1>2, <1>3
     DEF FreshSession, BalanceFresh, MonthFresh, ClosingFresh, TotalFresh
<1>6. DayFresh(w)' /\ DaysOfJob(w)' /\ TimeFresh(w)'
  BY <1>1, <1>2, <1>3 DEF FreshSession, DayFresh, DaysOfJob, TimeFresh
<1>7. FlushedRows(w)'
  BY <1>1, <1>2, <1>3, <1>4 DEF FreshSession, FlushedRows
<1> QED
  BY <1>5, <1>6, <1>7 DEF FreshSession

LEMMA BeginIsFresh ==
    ASSUME Inv, NEW w \in Workers, FreshSession(w), Begin(w),
           now \in Past, Past \subseteq Past'
    PROVE  FreshSession(w)'
<1>1. /\ pc[w] = "idle" /\ UNCHANGED <<tables, seen, buf>>
      /\ pc'[w] \in {"flush", "balance", "guard", "punches", "sum", "closing"}
      /\ pc'[w] = "flush" => Kind(w)' # "leave"
      /\ pc'[w] \in {"punches", "sum"} => job'[w].op \in Rebuilding
      /\ pc'[w] = "closing" => job'[w].op = "reopen"
      /\ Inserts(w)' => pc'[w] = "guard"
      /\ Kind(w)' = "leave" => job'[w].todo = Payload[job'[w].req].days
      /\ job'[w].op \in Rebuilding =>
            \A d \in job'[w].todo : punches[job'[w].emp][d] # <<>>
      /\ job'[w].op \in {"punch"} \cup Rebuilding => job'[w].now = now
  BY BeginFacts
<1>2. \A d \in Days : buf'[w][d] = None
  BY <1>1 DEF FreshSession, FlushedRows
<1>3. job'[w].op \in Rebuilding => Kind(w)' = job'[w].op
  BY DEF Kind, Rebuilding
<1>4. DaysOfJob(w)'
  BY <1>1, <1>3 DEF DaysOfJob, DayOfJob, DayJobs, tables
<1>5. BalanceFresh(w)' /\ MonthFresh(w)' /\ ClosingFresh(w)' /\ TotalFresh(w)'
  BY <1>1 DEF BalanceFresh, MonthFresh, ClosingFresh, TotalFresh, Rebuilding
<1>6. DayFresh(w)' /\ FlushedRows(w)'
  BY <1>1, <1>2 DEF DayFresh, FlushedRows
<1>7. TimeFresh(w)'
  BY <1>1 DEF TimeFresh
<1> QED
  BY <1>4, <1>5, <1>6, <1>7 DEF FreshSession

\* The steps that load something.
LEMMA ReadIsFresh ==
    ASSUME Inv, NEW w \in Workers, FreshSession(w), Works(w), ~WriteDay(w),
           now \in Past, Past \subseteq Past'
    PROVE  FreshSession(w)'
<1>1. /\ pc \in [Workers -> Labels] /\ seen \in [Workers -> Loaded]
      /\ job \in [Workers -> Job] /\ JobOK(w)
  BY DEF Inv, TypeOK, SessionsTyped, SessionsOK
<1>2. /\ job' = job /\ buf' = buf /\ UNCHANGED tables
      /\ job[w].emp \in Employees /\ job[w].op \in Endpoints
      /\ Kind(w)' = Kind(w) /\ Inserts(w)' = Inserts(w)
  BY WorksFacts
<1>3. UNCHANGED <<used, punches, daily, closings>>
  BY <1>2 DEF tables
<1>4. /\ \A d : VisibleRow(w, d)' = VisibleRow(w, d)
      /\ \A d : VisiblePunches(w, d)' = VisiblePunches(w, d)
      /\ \A d : DayOfJob(w, d)' = DayOfJob(w, d)
      /\ ClosingConflict(w)' = ClosingConflict(w)
  BY <1>2, <1>3 DEF VisibleRow, VisiblePunches, DayOfJob, Kind, Inserts, ClosingConflict
<1>a. \A d, row : RowOfJob(w, d, row) => RowOfJob(w, d, row)'
  BY <1>2, <1>3, <1>4 DEF RowOfJob
<1>5. /\ pc[w] # "idle" /\ pc'[w] # "guard"
      /\ pc'[w] = "write" => ReadDaily(w)
      /\ pc'[w] = "daily" => ReadPunches(w) \/ Kind(w) = "leave"
      /\ pc'[w] = "punches" => Inserts(w)
      /\ pc'[w] = "closing" => SumMonth(w)
      /\ pc'[w] = "save" => ReadClosing(w)
      /\ pc'[w] = "commit" => SaveClosing(w) \/ (job[w].op \in Settling /\ ~Inserts(w))
  <2>1. CASE FlushRequest(w)
    <3>1. pc[w] = "flush" /\ job[w].op \in Settling
      BY <1>1, <2>1 DEF FlushRequest, JobOK
    <3>2. Kind(w) # "punch"
      BY <1>1, <3>1, ConstantsAssumption
         DEF Kind, JobOK, Settling, ConstantsAssumption, Types
    <3>3. seen' = seen
          /\ pc'[w] = CASE Kind(w) = "punch_fix" -> "punches"
                        [] Kind(w) = "leave"     -> "daily"
                        [] OTHER                 -> "commit"
      BY <1>1, <2>1 DEF FlushRequest, Goto
    <3> QED
      BY <3>1, <3>2, <3>3 DEF Inserts
  <2>2. CASE SaveClosing(w)
    BY <1>1, <2>2 DEF SaveClosing, Goto
  <2>3. CASE CheckMonthOpen(w) \/ ValidatePunch(w)
    BY <1>1, <2>3 DEF CheckMonthOpen, ValidatePunch, Goto, JobOK
  <2>4. CASE ReadBalance(w) \/ ReadPunches(w) \/ ReadDaily(w) \/ SumMonth(w)
               \/ ReadClosing(w)
    BY <1>1, <2>4 DEF ReadBalance, ReadPunches, ReadDaily, SumMonth, ReadClosing, Goto
  <2> QED
    BY <2>1, <2>2, <2>3, <2>4 DEF Works
<1>6. BalanceFresh(w)'
  <2>1. CASE ReadBalance(w)
    BY <1>1, <1>2, <1>3, <2>1 DEF ReadBalance, BalanceFresh, Loaded
  <2>2. CASE ~ReadBalance(w)
    BY <1>2, <1>3, <2>2, LeaveStages DEF BalanceFresh, FreshSession
  <2> QED
    BY <2>1, <2>2
<1>7. MonthFresh(w)'
  <2>1. CASE pc[w] = "guard"
    <3>1. CheckMonthOpen(w)
      BY <2>1 DEF Works, ReadBalance, FlushRequest, ValidatePunch, ReadPunches, WriteDay,
                  ReadDaily, SumMonth, ReadClosing, SaveClosing
    <3> QED
      BY <1>2, <1>3, <3>1 DEF CheckMonthOpen, MonthOpen, MonthFresh
  <2>2. CASE pc[w] # "guard"
    BY <1>2, <1>3, <1>5, <2>2 DEF MonthFresh, FreshSession
  <2> QED
    BY <2>1, <2>2
<1>8. ClosingFresh(w)'
  <2>1. CASE ReadClosing(w)
    BY <1>1, <1>2, <1>3, <1>4, <2>1 DEF ReadClosing, ClosingFresh, Loaded
  <2>2. CASE SaveClosing(w)
    BY <1>1, <1>2, <1>3, <1>4, <2>2 DEF SaveClosing, ClosingFresh, FreshSession
  <2>3. CASE ~ReadClosing(w) /\ ~SaveClosing(w)
    BY <1>2, <1>5, <2>3 DEF ClosingFresh, Rebuilding, Settling
  <2> QED
    BY <2>1, <2>2, <2>3
<1>9. TotalFresh(w)'
  <2>1. CASE SumMonth(w)
    BY <1>1, <1>4, <2>1 DEF SumMonth, TotalFresh, Loaded
  <2>2. CASE ReadClosing(w) \/ SaveClosing(w)
    <3>1. pc[w] \in {"closing", "save"} /\ seen'[w].total = seen[w].total
      BY <1>1, <2>2 DEF ReadClosing, SaveClosing, Loaded
    <3> QED
      BY <1>2, <1>4, <3>1 DEF TotalFresh, FreshSession
  <2>3. CASE ~SumMonth(w) /\ ~ReadClosing(w) /\ ~SaveClosing(w)
    BY <1>2, <1>5, <2>3 DEF TotalFresh, Rebuilding, Settling
  <2> QED
    BY <2>1, <2>2, <2>3
<1>10. DayFresh(w)' /\ DaysOfJob(w)' /\ TimeFresh(w)'
  <2>a. job'[w].op \in {"punch"} \cup Rebuilding => job'[w].now \in Past'
    BY <1>2 DEF FreshSession, TimeFresh
  <2>1. CASE ReadPunches(w)
    <3>1. PICK d \in job[w].todo :
                 seen' = [seen EXCEPT ![w] = [@ EXCEPT !.day = d, !.now = ReferenceNow(w),
                                                       !.punches = VisiblePunches(w, d)]]
      BY <2>1 DEF ReadPunches
    <3>2. /\ seen'[w].day = d /\ seen'[w].punches = VisiblePunches(w, d)
          /\ seen'[w].now = ReferenceNow(w)
          /\ pc[w] = "punches" /\ pc'[w] = "daily"
      <4>1. seen[w] \in Loaded /\ DOMAIN seen = Workers
        BY <1>1
      <4>2. pc[w] = "punches" /\ pc'[w] = "daily"
        BY <1>1, <2>1 DEF ReadPunches, Goto
      <4>3. seen'[w] = [seen[w] EXCEPT !.day = d, !.now = ReferenceNow(w),
                                       !.punches = VisiblePunches(w, d)]
        BY <3>1, <4>1
      <4> QED
        BY <4>1, <4>2, <4>3 DEF Loaded
    <3>3. DayOfJob(w, d) /\ Kind(w) \in DayJobs
      BY <3>2 DEF FreshSession, DaysOfJob
    <3>4. ReferenceNow(w) \in Past
      BY <1>2, <3>3 DEF ReferenceNow, FreshSession, TimeFresh, Kind, DayJobs, Rebuilding,
                          Endpoints, Settling
    <3>5. TimeFresh(w)'
      BY <2>a, <3>2, <3>4 DEF TimeFresh
    <3> QED
      BY <1>2, <1>4, <3>2, <3>3, <3>5 DEF DayFresh, DaysOfJob, FreshSession
  <2>2. CASE ReadDaily(w)
    <3>1. PICK d \in IF Kind(w) = "leave" THEN FirstDay(job[w].todo) ELSE {seen[w].day} :
                 seen' = [seen EXCEPT ![w] = [@ EXCEPT !.day = d, !.row = VisibleRow(w, d)]]
      BY <2>2 DEF ReadDaily
    <3>2. /\ seen'[w].day = d /\ seen'[w].row = VisibleRow(w, d)
          /\ seen'[w].punches = seen[w].punches /\ seen'[w].now = seen[w].now
          /\ pc[w] = "daily" /\ pc'[w] = "write"
      <4>1. seen[w] \in Loaded /\ DOMAIN seen = Workers
        BY <1>1
      <4>2. pc[w] = "daily" /\ pc'[w] = "write"
        BY <1>1, <2>2 DEF ReadDaily, Goto
      <4>3. seen'[w] = [seen[w] EXCEPT !.day = d, !.row = VisibleRow(w, d)]
        BY <3>1, <4>1
      <4> QED
        BY <4>1, <4>2, <4>3 DEF Loaded
    <3>3. IF Kind(w) = "leave" THEN d \in job[w].todo ELSE d = seen[w].day
      BY <3>1 DEF FirstDay
    <3>4. Kind(w) \in DayJobs /\ DayOfJob(w, d)
      BY <3>2, <3>3 DEF FreshSession, DaysOfJob
    <3>5. TimeFresh(w)'
      BY <1>2, <2>a, <3>2 DEF FreshSession, TimeFresh
    <3> QED
      BY <1>2, <1>4, <3>2, <3>3, <3>4, <3>5 DEF DayFresh, DaysOfJob, FreshSession
  <2>3. CASE ~ReadPunches(w) /\ ~ReadDaily(w)
    <3>1. pc'[w] # "write" /\ (pc'[w] = "daily" => Kind(w) = "leave")
          /\ (pc'[w] = "punches" => Inserts(w))
      BY <1>5, <2>3
    <3>2. TimeFresh(w)'
      BY <1>2, <2>a, <3>1 DEF TimeFresh
    <3> QED
      BY <1>2, <1>4, <3>1, <3>2 DEF DayFresh, DaysOfJob, FreshSession, DayJobs, Inserts
  <2> QED
    BY <2>1, <2>2, <2>3
<1>11. FlushedRows(w)'
  <2>1. pc'[w] # "idle"
    BY <1>1 DEF Works, ReadBalance, FlushRequest, CheckMonthOpen, ValidatePunch, ReadPunches,
                ReadDaily, SumMonth, ReadClosing, SaveClosing, Goto
  <2>2. pc'[w] = "commit" => ~Inserts(w)
    BY <1>1, <1>5 DEF SaveClosing, JobOK, Inserts, Kind, Rebuilding
  <2> QED
    BY <1>2, <1>4, <1>a, <2>1, <2>2 DEF FlushedRows, FreshSession
<1> QED
  BY <1>6, <1>7, <1>8, <1>9, <1>10, <1>11 DEF FreshSession


\* A row that is computed from fresh values is the row of the job.
LEMMA NewRowIsFresh ==
    ASSUME Inv, NEW w \in Workers, FreshSession(w), pc[w] = "write"
    PROVE  /\ RowOfJob(w, seen[w].day, NewRow(w))
           /\ NewRow(w) \in Row /\ NewRow(w).exists
           /\ UpdateRow(VisibleRow(w, seen[w].day), seen[w].row, NewRow(w)) = NewRow(w)
<1>1. PICK d \in Days : d = seen[w].day
  BY DEF Inv, SessionsOK, DayOK
<1>2. PICK row \in Row : row = seen[w].row /\ row = VisibleRow(w, d)
  BY <1>1, VisibleType DEF FreshSession, DayFresh
<1>3. PICK new \in Row : new = NewRow(w)
  BY NewValuesType
<1>4. new.exists
  BY <1>3 DEF NewRow, LeaveRow, Metrics
<1>5. UpdateRow(row, row, new) = new
  BY <1>4 DEF UpdateRow, Column, Row
<1>6. CASE Kind(w) = "leave"
  <2>1. PICK half \in BOOLEAN : half = Payload[job[w].req].half
    BY <1>6, ConstantsAssumption
       DEF ConstantsAssumption, Inv, SessionsOK, JobOK, Kind, Endpoints, Settling, Rebuilding
  <2>2. PICK old \in Row : old = daily[job[w].emp][d]
    BY DEF Inv, SessionsOK, JobOK, TypeOK, TablesTyped
  <2>3. row = old \/ row = LeaveRow(old, half)
    BY <1>1, <1>2, <1>6, <2>1, <2>2 DEF VisibleRow, FreshSession, FlushedRows, RowOfJob
  <2>4. LeaveRow(row, half) = LeaveRow(old, half)
    <3>1. half => row.worked = old.worked
      BY <2>3 DEF LeaveRow
    <3>2. (IF half THEN row.worked ELSE 0) = (IF half THEN old.worked ELSE 0)
      BY <3>1
    <3> QED
      BY <3>2 DEF LeaveRow
  <2>5. NewRow(w) = LeaveRow(row, half)
    BY <1>2, <1>6, <2>1 DEF NewRow
  <2>6. RowOfJob(w, d, LeaveRow(old, half))
    BY <1>6, <2>1, <2>2 DEF RowOfJob
  <2> QED
    BY <1>1, <1>2, <1>3, <1>4, <1>5, <2>4, <2>5, <2>6
<1>7. CASE Kind(w) # "leave"
  <2>1. NewRow(w) = Metrics(VisiblePunches(w, d), d, seen[w].now) /\ seen[w].now \in Past
    BY <1>1, <1>7 DEF NewRow, FreshSession, DayFresh, TimeFresh
  <2>2. RowOfJob(w, d, NewRow(w))
    BY <1>7, <2>1 DEF RowOfJob
  <2> QED
    BY <1>1, <1>2, <1>3, <1>4, <1>5, <2>2
<1> QED
  BY <1>6, <1>7

LEMMA WriteIsFresh ==
    ASSUME Inv, NEW w \in Workers, FreshSession(w), WriteDay(w),
           now \in Past, Past \subseteq Past'
    PROVE  FreshSession(w)'
<1>1. /\ pc[w] = "write" /\ seen' = seen /\ UNCHANGED tables
      /\ pc'[w] \in {"daily", "punches", "sum", "commit"}
      /\ pc'[w] = "daily" => Kind(w) = "leave"
      /\ pc'[w] = "commit" => job[w].op \notin Rebuilding
  BY DEF WriteDay, Goto, Inv, TypeOK, SessionsTyped
<1>2. /\ job[w].emp \in Employees
      /\ job'[w].op = job[w].op /\ job'[w].req = job[w].req
      /\ job'[w].emp = job[w].emp /\ job'[w].punch = job[w].punch
      /\ job'[w].todo \subseteq job[w].todo /\ job'[w].now = job[w].now
      /\ Kind(w)' = Kind(w) /\ Inserts(w)' = Inserts(w)
  BY WorksFacts DEF Works
<1>3. UNCHANGED <<used, punches, daily, closings>>
  BY <1>1 DEF tables
<1>4. /\ \A d : VisiblePunches(w, d)' = VisiblePunches(w, d)
      /\ \A d : DayOfJob(w, d)' = DayOfJob(w, d)
  BY <1>2, <1>3 DEF VisiblePunches, DayOfJob
<1>a. \A d, row : RowOfJob(w, d, row) => RowOfJob(w, d, row)'
  BY <1>2, <1>3, <1>4 DEF RowOfJob
<1>5. PICK d \in Days : d = seen[w].day
  BY <1>1 DEF Inv, SessionsOK, DayOK
<1>6. DayOfJob(w, d) /\ Kind(w) \in DayJobs
  BY <1>1, <1>5 DEF FreshSession, DaysOfJob
<1>7. PICK new \in Row : /\ new = NewRow(w) /\ RowOfJob(w, d, new) /\ new.exists
                         /\ UpdateRow(VisibleRow(w, d), seen[w].row, new) = new
  BY <1>1, <1>5, NewRowIsFresh
<1>8. new # None
  BY ConstantsAssumption DEF ConstantsAssumption
<1>9. /\ \A x \in Days : x # d => buf'[w][x] = buf[w][x]
      /\ buf'[w][d] = buf[w][d] \/ buf'[w][d] = new
      /\ VisibleRow(w, d)' = new
  <2>1. CASE new = seen[w].row
    <3>1. buf' = buf
      BY <1>7, <2>1 DEF WriteDay
    <3>2. VisibleRow(w, d) = new
      BY <1>1, <1>5, <2>1 DEF FreshSession, DayFresh
    <3> QED
      BY <1>2, <1>3, <3>1, <3>2 DEF VisibleRow
  <2>2. CASE new # seen[w].row
    <3>1. buf' = [buf EXCEPT ![w][d] = new]
      BY <1>5, <1>7, <2>2 DEF WriteDay
    <3>2. buf'[w][d] = new /\ \A x \in Days : x # d => buf'[w][x] = buf[w][x]
      BY <3>1 DEF Inv, TypeOK, SessionsTyped
    <3> QED
      BY <1>8, <3>2 DEF VisibleRow
  <2> QED
    BY <2>1, <2>2
<1>10. FlushedRows(w)'
  <2>1. ASSUME NEW x \in Days, buf'[w][x] # None
        PROVE  DayOfJob(w, x) /\ RowOfJob(w, x, buf'[w][x])
    BY <1>6, <1>7, <1>9, <2>1 DEF FreshSession, FlushedRows
  <2> QED
    BY <1>1, <1>4, <1>a, <1>5, <1>7, <1>9, <2>1 DEF FlushedRows
<1>11. DaysOfJob(w)'
  BY <1>1, <1>2, <1>4, <1>6 DEF DaysOfJob, FreshSession
<1>12. BalanceFresh(w)' /\ MonthFresh(w)' /\ DayFresh(w)' /\ TimeFresh(w)'
  BY <1>1, <1>2, <1>3 DEF BalanceFresh, MonthFresh, DayFresh, TimeFresh, FreshSession
<1>13. ClosingFresh(w)' /\ TotalFresh(w)'
  <2>1. job[w].op # "reopen"
    BY <1>6 DEF Kind, DayJobs, Rebuilding
  <2> QED
    BY <1>1, <1>2, <2>1 DEF ClosingFresh, TotalFresh
<1> QED
  BY <1>10, <1>11, <1>12, <1>13 DEF FreshSession

-----------------------------------------------------------------------------
(* What a commit makes of the tables. *)

\* An approved leave stays approved.
LEMMA LeavesStay ==
    ASSUME Inv, SerialInv, [Next]_vars, NEW e, NEW d, NEW half, LeaveApproved(e, d, half)
    PROVE  LeaveApproved(e, d, half)'
<1>1. status \in [Reqs -> {"none", "pending", "approved", "rejected", "canceled"}]
  BY DEF Inv, TypeOK, TablesTyped
<1>2. \A r \in Reqs : status[r] = "approved" => status'[r] = "approved"
  <2>1. CASE \E r \in Reqs : CreateRequest(r)
    BY <1>1, <2>1 DEF CreateRequest
  <2>2. CASE \E w \in Workers : CommitRequest(w)
    BY <1>1, <2>2, Settlements DEF SerialInv
  <2> QED
    BY <2>1, <2>2, RequestSteps
<1> QED
  BY <1>2 DEF LeaveApproved

\* The commit of a leave approves it.
LEMMA LeaveTaken ==
    ASSUME Inv, NEW w \in Workers, Commits(w), Kind(w) = "leave",
           NEW e, e = job[w].emp, NEW d \in Payload[job[w].req].days
    PROVE  \E half \in BOOLEAN :
              half = Payload[job[w].req].half /\ LeaveApproved(e, d, half)'
<1>1. CommitRequest(w) /\ job[w].op = "approve"
  BY ConstantsAssumption
     DEF Commits, CommitPunch, CommitClosing, Kind, Rebuilding, CommitRequest, Settling
<1>2. PICK r \in Reqs : r = job[w].req
  BY <1>1, Settlements
<1>3. status' = [status EXCEPT ![r] = "approved"]
  BY <1>1, <1>2, Settlements DEF NewStatus, Decision
<1>4. status'[r] = "approved"
  BY <1>3 DEF Inv, TypeOK, TablesTyped
<1>5. job[w].emp = Owner[r] /\ Payload[r].type = "leave"
  BY <1>1, <1>2, Settlements DEF JobOK, Kind
<1>6. Payload[r].half \in BOOLEAN
  BY ConstantsAssumption DEF ConstantsAssumption
<1> QED
  BY <1>2, <1>4, <1>5, <1>6 DEF LeaveApproved

\* Two leaves of one day leave it as one of them does.
LEMMA LeaveOfLeave ==
    ASSUME NEW row \in Row, NEW h \in BOOLEAN, NEW half \in BOOLEAN
    PROVE  LeaveRow(LeaveRow(row, h), half) = LeaveRow(row, h /\ half)
<1>1. LeaveRow(row, h).worked = IF h THEN row.worked ELSE 0
  BY DEF LeaveRow
<1>2. (IF half THEN LeaveRow(row, h).worked ELSE 0) = IF h /\ half THEN row.worked ELSE 0
  BY <1>1
<1> QED
  BY <1>2 DEF LeaveRow

\* What a session commits for a day.
LEMMA CommittedRow ==
    ASSUME Inv, DaysInv, NEW w \in Workers, FreshSession(w), Commits(w), NEW d \in Days
    PROVE  \/ /\ VisibleRow(w, d) = daily[job[w].emp][d]
              /\ ~(Inserts(w) /\ d = seen[w].day)
           \/ /\ Inserts(w) /\ d = seen[w].day
              /\ \E m \in Past : VisibleRow(w, d) =
                    Metrics(Append(punches[job[w].emp][d], job[w].punch), d, m)
           \/ /\ job[w].op \in Rebuilding
              /\ \E m \in Past : VisibleRow(w, d) = Metrics(punches[job[w].emp][d], d, m)
              /\ punches[job[w].emp][d] # <<>>
           \/ /\ Kind(w) = "leave" /\ d \in Payload[job[w].req].days
              /\ VisibleRow(w, d) = LeaveRow(daily[job[w].emp][d], Payload[job[w].req].half)
<1>1. pc[w] = "commit" /\ job[w].op \in Endpoints /\ JobOK(w)
  BY CommitSteps DEF Inv, SessionsOK
<1>2. CASE Inserts(w) /\ d = seen[w].day
  <2>1. RowOfJob(w, d, VisibleRow(w, d))
    BY <1>1, <1>2 DEF FreshSession, FlushedRows
  <2>2. Kind(w) # "leave"
    BY <1>2 DEF Inserts
  <2> QED
    BY <1>2, <2>1, <2>2 DEF RowOfJob, VisiblePunches
<1>3. CASE buf[w][d] = None /\ ~(Inserts(w) /\ d = seen[w].day)
  BY <1>3 DEF VisibleRow
<1>4. CASE buf[w][d] # None /\ ~(Inserts(w) /\ d = seen[w].day)
  <2>1. ~Inserts(w)
    BY <1>1, <1>4 DEF DaysInv, DaysOK, OneDay
  <2>2. RowOfJob(w, d, VisibleRow(w, d)) /\ DayOfJob(w, d)
    BY <1>4 DEF VisibleRow, FreshSession, FlushedRows
  <2>3. CASE Kind(w) = "leave"
    BY <2>2, <2>3 DEF DayOfJob, RowOfJob
  <2>4. CASE Kind(w) # "leave"
    <3>1. Kind(w) \in Rebuilding
      BY <2>1, <2>2, <2>4 DEF DayOfJob, DayJobs, Inserts
    <3>2. job[w].op \in Rebuilding
      BY <1>1, <3>1, ConstantsAssumption
         DEF Kind, JobOK, Settling, Rebuilding, ConstantsAssumption, Types
    <3> QED
      BY <2>1, <2>2, <2>4, <3>2 DEF DayOfJob, RowOfJob, VisiblePunches
  <2> QED
    BY <2>3, <2>4
<1> QED
  BY <1>2, <1>3, <1>4

LEMMA CommitMatches ==
    ASSUME Inv, SerialInv, DaysInv, NEW w \in Workers, FreshSession(w), Commits(w),
           [Next]_vars, NEW e \in Employees, NEW d \in Days, RowMatches(e, d)
    PROVE  RowMatches(e, d)'
<1>1. /\ daily'[e][d] = IF e = job[w].emp THEN VisibleRow(w, d) ELSE daily[e][d]
      /\ punches'[e][d] = IF Inserts(w) /\ e = job[w].emp /\ d = seen[w].day
                          THEN Append(punches[e][d], job[w].punch) ELSE punches[e][d]
  BY CommittedDay
<1>a. Past \subseteq Past'
  BY PastGrows
<1>2. CASE daily'[e][d] = daily[e][d] /\ punches'[e][d] = punches[e][d]
  BY <1>a, <1>2, LeavesStay DEF RowMatches
<1>3. CASE \E m \in Past : daily'[e][d] = Metrics(punches'[e][d], d, m)
  BY <1>a, <1>3 DEF RowMatches
<1>4. CASE /\ e = job[w].emp /\ Kind(w) = "leave" /\ d \in Payload[job[w].req].days
           /\ daily'[e][d] = LeaveRow(daily[e][d], Payload[job[w].req].half)
           /\ punches'[e][d] = punches[e][d]
  <2>1. PICK half \in BOOLEAN : half = Payload[job[w].req].half /\ LeaveApproved(e, d, half)'
    BY <1>4, LeaveTaken
  <2>2. CASE \E m \in Past : daily[e][d] = Metrics(punches[e][d], d, m)
    BY <1>a, <1>4, <2>1, <2>2 DEF RowMatches
  <2>4. CASE \E m \in Past, h \in BOOLEAN :
                LeaveApproved(e, d, h) /\ daily[e][d] = LeaveRow(Metrics(punches[e][d], d, m), h)
    <3>a. PICK m \in Past, h \in BOOLEAN :
                LeaveApproved(e, d, h) /\ daily[e][d] = LeaveRow(Metrics(punches[e][d], d, m), h)
      BY <2>4
    <3>b. PICK row \in Row : row = Metrics(punches[e][d], d, m)
      BY MetricsType
    <3>1. LeaveApproved(e, d, h) /\ daily[e][d] = LeaveRow(row, h)
      BY <3>a, <3>b
    <3>2. LeaveApproved(e, d, h)'
      BY <3>1, LeavesStay
    <3>3. PICK both \in BOOLEAN : both = (h /\ half)
      OBVIOUS
    <3>4. daily'[e][d] = LeaveRow(row, both)
      BY <1>4, <2>1, <3>1, <3>3, LeaveOfLeave
    <3>5. LeaveApproved(e, d, both)'
      BY <2>1, <3>2, <3>3
    <3> QED
      BY <1>a, <1>4, <3>b, <3>4, <3>5 DEF RowMatches
  <2>5. CASE punches[e][d] = <<>>
    BY <1>4, <2>5 DEF RowMatches
  <2> QED
    BY <2>2, <2>4, <2>5 DEF RowMatches
<1>5. CASE e = job[w].emp
  <2>1. Kind(w) = "leave" \/ job[w].op \in Rebuilding => ~Inserts(w)
    BY DEF Inserts, Kind, Rebuilding
  <2> QED
    BY <1>1, <1>2, <1>3, <1>4, <1>5, <2>1, CommittedRow
<1> QED
  BY <1>1, <1>2, <1>5


\* A session that closes a month saves what it has added up.
LEMMA CommittedClosing ==
    ASSUME Inv, NEW w \in Workers, FreshSession(w), CommitClosing(w)
    PROVE  LET e == job[w].emp
               new == NewClosing(w)
           IN  /\ e \in Employees /\ closings' = [closings EXCEPT ![e] = new]
               /\ new \in Closing /\ ~ClosingConflict(w)
               /\ seen[w].closing = closings[e]
               /\ job[w].op \in Rebuilding =>
                     \A d \in Days : new.total[d] = VisibleRow(w, d).worked
               /\ job[w].op = "reopen" => ~new.closed
<1>1. PICK e \in Employees : e = job[w].emp
  BY CommitSteps DEF Commits
<1>2. PICK new \in Closing : new = NewClosing(w)
  BY NewValuesType DEF CommitClosing
<1>3. /\ pc[w] = "commit" /\ job[w].op \in Rebuilding \cup {"reopen"}
      /\ closings' = [closings EXCEPT ![e] = UpdateClosing(@, seen[w].closing, new)]
  BY <1>1, <1>2 DEF CommitClosing
<1>4. PICK cur \in Closing : cur = closings[e] /\ cur = seen[w].closing
  BY <1>1, <1>3 DEF Inv, TypeOK, TablesTyped, FreshSession, ClosingFresh
<1>5. UpdateClosing(cur, cur, new) = new
  <2>1. new.exists
    BY <1>2 DEF NewClosing
  <2> QED
    BY <2>1 DEF UpdateClosing, Column, Closing
<1>6. closings' = [closings EXCEPT ![e] = new]
  BY <1>3, <1>4, <1>5 DEF Inv, TypeOK, TablesTyped
<1>7. ~ClosingConflict(w)
  BY <1>3 DEF FreshSession, ClosingFresh
<1>8. ASSUME job[w].op \in Rebuilding, NEW d \in Days
      PROVE  new.total[d] = VisibleRow(w, d).worked
  BY <1>2, <1>3, <1>8 DEF NewClosing, Rebuilding, FreshSession, TotalFresh
<1>9. job[w].op = "reopen" => ~new.closed
  BY <1>2 DEF NewClosing
<1> QED
  BY <1>1, <1>2, <1>4, <1>6, <1>7, <1>8, <1>9

LEMMA CommitTotals ==
    ASSUME Inv, SerialInv, DaysInv, NEW w \in Workers, FreshSession(w), Commits(w),
           [Next]_vars, TotalsMatchDays
    PROVE  TotalsMatchDays'
<1> SUFFICES ASSUME NEW e \in Employees, NEW d \in Days,
                    closings'[e].closed, ~LeaveApproved(e, d, FALSE)'
             PROVE  closings'[e].total[d] = daily'[e][d].worked
  BY DEF TotalsMatchDays
<1>1. /\ daily'[e][d] = IF e = job[w].emp THEN VisibleRow(w, d) ELSE daily[e][d]
      /\ closings \in [Employees -> Closing]
  BY CommittedDay DEF Inv, TypeOK, TablesTyped
<1>2. ~LeaveApproved(e, d, FALSE)
  BY LeavesStay
<1>3. CASE CommitClosing(w) /\ e = job[w].emp
  <2>1. PICK new \in Closing :
           /\ closings' = [closings EXCEPT ![e] = new]
           /\ job[w].op \in Rebuilding =>
                 \A x \in Days : new.total[x] = VisibleRow(w, x).worked
           /\ job[w].op = "reopen" => ~new.closed
    BY <1>3, CommittedClosing
  <2>2. closings'[e] = new
    BY <1>1, <2>1
  <2>3. job[w].op \in Rebuilding
    BY <1>3, <2>1, <2>2 DEF CommitClosing
  <2> QED
    BY <1>1, <1>3, <2>1, <2>2, <2>3
<1>4. CASE closings'[e] = closings[e] /\ e # job[w].emp
  BY <1>1, <1>2, <1>4 DEF TotalsMatchDays
<1>5. CASE (CommitRequest(w) \/ CommitPunch(w)) /\ e = job[w].emp
  <2>1. closings' = closings /\ pc[w] = "commit"
    BY <1>5 DEF CommitRequest, CommitPunch
  <2>2. ~Inserts(w)
    BY <1>5, <2>1 DEF FreshSession, MonthFresh
  <2>3. job[w].op \notin Rebuilding
    BY <1>5 DEF CommitRequest, CommitPunch, Settling, Rebuilding
  <2>4. VisibleRow(w, d).worked = daily[e][d].worked
    <3>1. CASE /\ Kind(w) = "leave" /\ d \in Payload[job[w].req].days
               /\ VisibleRow(w, d) = LeaveRow(daily[e][d], Payload[job[w].req].half)
      <4>1. PICK half \in BOOLEAN : half = Payload[job[w].req].half /\ LeaveApproved(e, d, half)'
        BY <1>5, <3>1, LeaveTaken
      <4>2. half
        BY <4>1
      <4> QED
        BY <3>1, <4>1, <4>2 DEF LeaveRow
    <3> QED
      BY <1>5, <2>2, <2>3, <3>1, CommittedRow
  <2> QED
    BY <1>1, <1>2, <1>5, <2>1, <2>4 DEF TotalsMatchDays
<1>6. closings'[e] = closings[e] \/ (CommitClosing(w) /\ e = job[w].emp)
  <2>1. CASE CommitClosing(w)
    <3>1. PICK new : closings' = [closings EXCEPT ![job[w].emp] = new]
      BY <2>1, CommittedClosing
    <3> QED
      BY <1>1, <2>1, <3>1
  <2> QED
    BY <2>1 DEF Commits, CommitRequest, CommitPunch
<1> QED
  BY <1>3, <1>4, <1>5, <1>6 DEF Commits

LEMMA CommitUsed ==
    ASSUME Inv, AuditInv, NEW w \in Workers, FreshSession(w), Commits(w),
           NEW e \in Employees, used[e] = Cardinality(HalfDaysApproved(e))
    PROVE  used'[e] = Cardinality(HalfDaysApproved(e)')
<1>1. used \in [Employees -> Nat] /\ IsFiniteSet(HalfDaysApproved(e))
  BY DEF Inv, TypeOK, TablesTyped, AuditInv, Countable
<1>2. CASE CommitRequest(w) /\ Kind(w) = "leave" /\ e = job[w].emp
  <2>1. used'[e] = seen[w].used + ConsumedDays(job[w].req) /\ pc[w] = "commit"
    BY <1>1, <1>2 DEF CommitRequest, CommittedUsed
  <2>2. seen[w].used = used[e]
    BY <1>2, <2>1 DEF FreshSession, BalanceFresh
  <2>3. Cardinality(HalfDaysApproved(e)') =
           Cardinality(HalfDaysApproved(e)) + ConsumedDays(job[w].req)
    BY <1>1, <1>2, HalfDaysStep
  <2> QED
    BY <2>1, <2>2, <2>3
<1>3. CASE CommitRequest(w) /\ ~(Kind(w) = "leave" /\ e = job[w].emp)
  <2>1. used'[e] = used[e]
    BY <1>1, <1>3 DEF CommitRequest, CommittedUsed
  <2>2. HalfDaysApproved(e)' = HalfDaysApproved(e)
    BY <1>1, <1>3, HalfDaysStep
  <2> QED
    BY <2>1, <2>2
<1>4. CASE CommitPunch(w) \/ CommitClosing(w)
  <2>1. used' = used /\ auditLogs' = auditLogs
    BY <1>4 DEF CommitPunch, CommitClosing
  <2>2. HalfDaysApproved(e)' = HalfDaysApproved(e)
    BY <2>1 DEF HalfDaysApproved, ApprovalsOf, LeavesOf
  <2> QED
    BY <2>1, <2>2
<1> QED
  BY <1>2, <1>3, <1>4 DEF Commits

-----------------------------------------------------------------------------
(* The invariant. *)

\* The sessions and the tables of days stay right while no transaction commits.
LEMMA TablesStay ==
    ASSUME Inv, SerialInv, [Next]_vars, SerialDays,
           UNCHANGED <<used, auditLogs, punches, daily, closings>>
    PROVE  /\ \A e \in Employees, d \in Days : RowMatches(e, d)'
           /\ TotalsMatchDays'
           /\ \A e \in Employees : used'[e] = Cardinality(HalfDaysApproved(e)')
<1>1. ASSUME NEW e \in Employees, NEW d \in Days PROVE RowMatches(e, d)'
  BY PastGrows, LeavesStay DEF SerialDays, RowMatches
<1>2. TotalsMatchDays'
  BY LeavesStay DEF SerialDays, TotalsMatchDays
<1>3. ASSUME NEW e \in Employees PROVE used'[e] = Cardinality(HalfDaysApproved(e)')
  <2>1. HalfDaysApproved(e)' = HalfDaysApproved(e)
    BY DEF HalfDaysApproved, ApprovalsOf, LeavesOf
  <2> QED
    BY <2>1 DEF SerialDays
<1> QED
  BY <1>1, <1>2, <1>3

LEMMA SerialDaysStep ==
    ASSUME OneWorker, Inv, SerialInv, DaysInv, AuditInv, SerialDays, [Next]_vars
    PROVE  SerialDays'
<1>1. ASSUME NEW w \in Workers PROVE FreshSession(w)'
  <2>1. FreshSession(w)
    BY DEF SerialDays
  <2>2. Commits(w) => Ended(w)
    BY CommitSteps
  <2> QED
    BY <2>1, <2>2, PastGrows, SerialSteps, QuietIsFresh, BeginIsFresh, ReadIsFresh,
       WriteIsFresh, EndedIsFresh
<1>2. CASE \E w \in Workers : Commits(w)
  <2>1. PICK w \in Workers : Commits(w)
    BY <1>2
  <2>2. FreshSession(w) /\ TotalsMatchDays
    BY DEF SerialDays
  <2>3. \A e \in Employees, d \in Days : RowMatches(e, d)'
    BY <2>1, <2>2, CommitMatches DEF SerialDays
  <2>4. TotalsMatchDays'
    BY <2>1, <2>2, CommitTotals
  <2>5. \A e \in Employees : used'[e] = Cardinality(HalfDaysApproved(e)')
    BY <2>1, <2>2, CommitUsed DEF SerialDays
  <2> QED
    BY <1>1, <2>3, <2>4, <2>5 DEF SerialDays
<1>3. CASE UNCHANGED <<used, auditLogs, punches, daily, closings>>
  <2>1. /\ \A e \in Employees, d \in Days : RowMatches(e, d)'
        /\ TotalsMatchDays'
        /\ \A e \in Employees : used'[e] = Cardinality(HalfDaysApproved(e)')
    BY <1>3, TablesStay
  <2> QED
    BY <1>1, <2>1 DEF SerialDays
<1> QED
  BY <1>2, <1>3, TableSteps DEF CreateRequest, tables

LEMMA InitSerialDays == Init => SerialDays
<1> SUFFICES ASSUME Init PROVE SerialDays
  OBVIOUS
<1>1. ASSUME NEW w \in Workers PROVE FreshSession(w)
  <2>1. /\ pc[w] = "idle" /\ job[w].op = "idle" /\ job[w].todo = {}
        /\ \A d \in Days : buf[w][d] = None
    BY DEF Init, NoJob, NoRows
  <2>2. Kind(w) = "idle" /\ ~Inserts(w)
    BY <2>1 DEF Kind, Inserts
  <2> QED
    BY <2>1, <2>2
       DEF FreshSession, BalanceFresh, MonthFresh, ClosingFresh, TotalFresh, DayFresh,
           DaysOfJob, TimeFresh, FlushedRows, DayJobs, Rebuilding
<1>2. \A e \in Employees, d \in Days : RowMatches(e, d)
  BY DEF Init, RowMatches
<1>3. TotalsMatchDays
  BY DEF Init, TotalsMatchDays, NoClosing
<1>4. ASSUME NEW e \in Employees PROVE used[e] = Cardinality(HalfDaysApproved(e))
  <2>1. AuditInv /\ used[e] = 0
    BY InitAudit DEF Init
  <2>2. LeavesOf(e) \subseteq Reqs /\ \A r \in Reqs : DOMAIN auditLogs[r] = {}
    BY DEF Init, LeavesOf
  <2>3. ApprovalsOf(LeavesOf(e)) = {}
    BY <2>2, InApprovals
  <2>4. HalfDaysApproved(e) = {}
    BY <2>3 DEF HalfDaysApproved
  <2>5. Cardinality({}) = 0
    BY FS_EmptySet
  <2> QED
    BY <2>1, <2>4, <2>5
<1> QED
  BY <1>1, <1>2, <1>3, <1>4 DEF SerialDays

LEMMA SerialDaysInvariance == OneWorker => (Spec => []SerialDays)
<1> SUFFICES ASSUME OneWorker PROVE Spec => []SerialDays
  OBVIOUS
<1>1. Inv /\ SerialInv /\ DaysInv /\ AuditInv /\ SerialDays /\ [Next]_vars => SerialDays'
  BY SerialDaysStep
<1>2. Spec => []SerialInv
  BY SerialInvariance
<1> QED
  BY <1>1, <1>2, InitSerialDays, Invariance, DaysInvariance, AuditInvariance, PTL DEF Spec


\* A balance is the sum of the approved leaves, when they are approved one after
\* another.
THEOREM SerialBalance == OneWorker => (Spec => []UsedMatchesApprovals)
<1> SUFFICES ASSUME OneWorker PROVE Spec => []UsedMatchesApprovals
  OBVIOUS
<1>1. SerialDays => UsedMatchesApprovals
  BY DEF SerialDays, UsedMatchesApprovals
<1> QED
  BY <1>1, SerialDaysInvariance, PTL

\* A daily row is what its punches compute, or what an approved leave makes of
\* that, when the jobs that write rows run one after another.
THEOREM SerialRows == OneWorker => (Spec => []RowMatchesPunches)
<1> SUFFICES ASSUME OneWorker PROVE Spec => []RowMatchesPunches
  OBVIOUS
<1>1. SerialDays => RowMatchesPunches
  BY DEF SerialDays, RowMatches, RowMatchesPunches
<1> QED
  BY <1>1, SerialDaysInvariance, PTL

\* The totals of a closed month are those of its days, but for full days taken off
\* after it was closed, when nothing runs besides the closing.
THEOREM SerialTotals == OneWorker => (Spec => []TotalsMatchDays)
<1> SUFFICES ASSUME OneWorker PROVE Spec => []TotalsMatchDays
  OBVIOUS
<1>1. SerialDays => TotalsMatchDays
  BY DEF SerialDays
<1> QED
  BY <1>1, SerialDaysInvariance, PTL

\* The check that the month is open still holds when the punch is committed.
THEOREM SerialGuard == OneWorker => (Spec => ClosedMonthTakesNoPunch)
<1> SUFFICES ASSUME OneWorker PROVE Spec => ClosedMonthTakesNoPunch
  OBVIOUS
<1> DEFINE Kept == \A e \in Employees : closings[e].closed => punches'[e] = punches[e]
<1>1. Inv /\ SerialDays /\ [Next]_vars => [Kept]_vars
  <2> SUFFICES ASSUME Inv, SerialDays, [Next]_vars, NEW e \in Employees, closings[e].closed
               PROVE  punches'[e] = punches[e]
    OBVIOUS
  <2>1. CASE \E w \in Workers : Commits(w)
    <3>1. PICK w \in Workers : Commits(w)
      BY <2>1
    <3>2. pc[w] = "commit" /\ punches' = CommittedPunch(w)
      BY <3>1, CommitSteps
    <3>3. Inserts(w) => e # job[w].emp
      BY <3>2 DEF SerialDays, FreshSession, MonthFresh
    <3> QED
      BY <3>2, <3>3 DEF CommittedPunch, Inv, TypeOK, TablesTyped
  <2>2. CASE \E r \in Reqs : CreateRequest(r)
    BY <2>2 DEF CreateRequest
  <2>3. CASE UNCHANGED tables
    BY <2>3 DEF tables
  <2> QED
    BY <2>1, <2>2, <2>3, TableSteps
<1> QED
  BY <1>1, SerialDaysInvariance, Invariance, PTL DEF Spec, ClosedMonthTakesNoPunch

\* However late a closed month is recomputed, it finds the totals it was closed
\* with, but for full days taken off and the days that are still open: no punch was
\* added, and the row of any other day is a function of its punches.
THEOREM SerialFreeze == OneWorker => (Spec => DoneTotalsFrozen)
<1> SUFFICES ASSUME OneWorker PROVE Spec => DoneTotalsFrozen
  OBVIOUS
<1> DEFINE Frozen ==
       \A e \in Employees :
          TotalsKept(e, {d \in Days : PunchState(punches[e][d]) # "working"})
<1>1. Inv /\ DaysInv /\ SerialDays /\ [Next]_vars => [Frozen]_vars
  <2> SUFFICES ASSUME Inv, DaysInv, SerialDays, [Next]_vars,
                      NEW e \in Employees, NEW d \in Days,
                      PunchState(punches[e][d]) # "working", closings[e].closed,
                      closings'[e].closed, ~LeaveApproved(e, d, FALSE)
               PROVE  closings'[e].total[d] = closings[e].total[d]
    BY DEF TotalsKept
  <2>1. CASE \E w \in Workers : CommitClosing(w) /\ e = job[w].emp
    <3>1. PICK w \in Workers : CommitClosing(w) /\ e = job[w].emp
      BY <2>1
    <3>2. FreshSession(w) /\ Commits(w)
      BY <3>1 DEF SerialDays, Commits
    <3>3. PICK new \in Closing :
             /\ closings' = [closings EXCEPT ![e] = new]
             /\ ~ClosingConflict(w)
             /\ job[w].op \in Rebuilding =>
                   \A x \in Days : new.total[x] = VisibleRow(w, x).worked
             /\ job[w].op = "reopen" => ~new.closed
      BY <3>1, <3>2, CommittedClosing
    <3>4. closings'[e] = new
      BY <3>3 DEF Inv, TypeOK, TablesTyped
    <3>5. job[w].op = "recompute"
      BY <3>1, <3>3, <3>4 DEF CommitClosing, ClosingConflict, Rebuilding
    <3>6. new.total[d] = VisibleRow(w, d).worked
      BY <3>3, <3>5 DEF Rebuilding
    <3>7. VisibleRow(w, d) = daily[e][d]
             \/ (/\ \E m : VisibleRow(w, d) = Metrics(punches[e][d], d, m)
                 /\ punches[e][d] # <<>>)
      <4>1. ~Inserts(w) /\ Kind(w) # "leave"
        BY <3>5 DEF Inserts, Kind
      <4> QED
        BY <3>1, <3>2, <4>1, CommittedRow
    <3>8. ASSUME punches[e][d] # <<>>, NEW n
          PROVE  daily[e][d].worked = Metrics(punches[e][d], d, n).worked
      <4>1. PICK m : \/ daily[e][d] = Metrics(punches[e][d], d, m)
                     \/ \E half \in BOOLEAN :
                           /\ LeaveApproved(e, d, half)
                           /\ daily[e][d] = LeaveRow(Metrics(punches[e][d], d, m), half)
        BY <3>8 DEF SerialDays, RowMatches
      <4>2. PICK row \in Row : row = Metrics(punches[e][d], d, m)
        BY MetricsType
      <4>3. \A half \in BOOLEAN : LeaveApproved(e, d, half) => half
        OBVIOUS
      <4>4. \A half \in BOOLEAN : half => LeaveRow(row, half).worked = row.worked
        BY DEF LeaveRow
      <4>5. daily[e][d].worked = row.worked
        BY <4>1, <4>2, <4>3, <4>4
      <4>6. row.worked = Worked(punches[e][d], d, n)
        BY <4>2, WorkedOfDone DEF Metrics
      <4> QED
        BY <4>5, <4>6 DEF Metrics
    <3>9. closings[e].total[d] = daily[e][d].worked
      BY DEF SerialDays, TotalsMatchDays
    <3> QED
      BY <3>4, <3>6, <3>7, <3>8, <3>9
  <2>2. CASE \E w \in Workers : CommitClosing(w) /\ e # job[w].emp
    BY <2>2 DEF CommitClosing, Inv, TypeOK, TablesTyped
  <2>3. CASE closings' = closings
    BY <2>3
  <2> QED
    BY <2>1, <2>2, <2>3, TableSteps
       DEF Commits, CommitRequest, CommitPunch, CreateRequest, tables
<1> QED
  BY <1>1, SerialDaysInvariance, DaysInvariance, Invariance, PTL DEF Spec, DoneTotalsFrozen

-----------------------------------------------------------------------------
(* The refinement of Settlement: what a step does to its variables. *)

\* The values of Settlement's fixes and closed.
Fixes  == [e \in Employees |-> Cardinality(AdminPunches(e))]
Closed == [e \in Employees |-> closings[e].closed]

LEMMA FixesStay ==
    ASSUME punches' = punches
    PROVE  Fixes' = Fixes
BY DEF Fixes, AdminPunches

LEMMA CommittedFixes ==
    ASSUME Inv, AuditInv, NEW w \in Workers, Commits(w), NEW x, x = job[w].emp
    PROVE  Fixes' = IF Kind(w) = "punch_fix" THEN [Fixes EXCEPT ![x] = @ + 1] ELSE Fixes
<1>1. ASSUME NEW e \in Employees
      PROVE  Cardinality(AdminPunches(e)') =
               IF Kind(w) = "punch_fix" /\ e = x THEN Cardinality(AdminPunches(e)) + 1
               ELSE Cardinality(AdminPunches(e))
  <2>1. CASE Kind(w) = "punch_fix" /\ e = x
    <3>1. PICK p : AdminPunches(e)' = AdminPunches(e) \cup {p} /\ p \notin AdminPunches(e)
      BY <2>1, AdminPunchesStep
    <3>2. IsFiniteSet(AdminPunches(e))
      BY DEF AuditInv, Countable
    <3>3. Cardinality(AdminPunches(e) \cup {p}) = Cardinality(AdminPunches(e)) + 1
      BY <3>1, <3>2, CountOne
    <3> QED
      BY <2>1, <3>1, <3>3
  <2>2. CASE ~(Kind(w) = "punch_fix" /\ e = x)
    <3>1. AdminPunches(e)' = AdminPunches(e)
      BY <2>2, AdminPunchesStep
    <3> QED
      BY <2>2, <3>1
  <2> QED
    BY <2>1, <2>2
<1>2. Fixes' = [e \in Employees |-> Cardinality(AdminPunches(e)')]
  BY DEF Fixes
<1>3. CASE Kind(w) = "punch_fix"
  BY <1>1, <1>2, <1>3 DEF Fixes
<1>4. CASE Kind(w) # "punch_fix"
  BY <1>1, <1>2, <1>4 DEF Fixes
<1> QED
  BY <1>3, <1>4

\* One worker settles a pending request, whose log is empty.
LEMMA CommittedRequest ==
    ASSUME Inv, SerialInv, AuditInv, SerialDays, NEW w \in Workers, CommitRequest(w)
    PROVE  \E r \in Reqs, op \in Settling :
              /\ r = job[w].req /\ op = job[w].op /\ Owner[r] = job[w].emp
              /\ status[r] = "pending"
              /\ status' = [status EXCEPT ![r] = NewStatus(op)]
              /\ auditLogs' = [auditLogs EXCEPT ![r] =
                                 <<[action |-> NewStatus(op), actor |-> job[w].by]>>]
              /\ op = "cancel" => job[w].by = Owner[r]
              /\ op # "cancel" => job[w].by \in Approvers /\ job[w].by # Owner[r]
              /\ used' = IF op = "approve" /\ Payload[r].type = "leave"
                         THEN [used EXCEPT ![Owner[r]] = @ + ConsumedDays(r)] ELSE used
              /\ op = "approve" /\ Payload[r].type = "leave"
                    => used[Owner[r]] + ConsumedDays(r) <= Entitled[Owner[r]]
              /\ Fixes' = IF op = "approve" /\ Payload[r].type = "punch_fix"
                          THEN [Fixes EXCEPT ![Owner[r]] = @ + 1] ELSE Fixes
              /\ op = "approve" /\ Payload[r].type = "punch_fix" => ~Closed[Owner[r]]
              /\ Closed' = Closed
<1>1. PICK r \in Reqs, op \in Settling : r = job[w].req /\ op = job[w].op
  BY Settlements
<1>2. /\ pc[w] = "commit" /\ closings' = closings /\ Commits(w)
      /\ Owner[r] = job[w].emp /\ Owner[r] \in Employees
      /\ op = "cancel" => job[w].by = Owner[r]
      /\ op # "cancel" => job[w].by \in Approvers /\ job[w].by # Owner[r]
  BY <1>1, Settlements, ConstantsAssumption
     DEF CommitRequest, Commits, JobOK, Settling, ConstantsAssumption
<1>3. status[r] = "pending" /\ auditLogs[r] = <<>>
  BY <1>1 DEF SerialInv
<1>4. PICK entry : /\ entry = [action |-> NewStatus(op), actor |-> job[w].by]
                   /\ auditLogs' = [auditLogs EXCEPT ![r] = Append(@, entry)]
  BY <1>1, Settlements DEF NewStatus
<1>5. auditLogs' = [auditLogs EXCEPT ![r] = <<entry>>]
  <2>1. Append(<<>>, entry) = <<entry>>
    OBVIOUS
  <2> QED
    BY <1>3, <1>4, <2>1
<1>6. Kind(w) = IF op = "approve" THEN Payload[r].type ELSE op
  BY <1>1 DEF Kind
<1>7. Kind(w) = "leave" <=> op = "approve" /\ Payload[r].type = "leave"
  BY <1>6 DEF Settling
<1>8. Kind(w) = "punch_fix" <=> op = "approve" /\ Payload[r].type = "punch_fix"
  BY <1>6 DEF Settling
<1>9. Kind(w) = "leave" => /\ seen[w].used = used[Owner[r]]
                           /\ seen[w].used + ConsumedDays(r) <= Entitled[Owner[r]]
  BY <1>1, <1>2, Settlements DEF SerialDays, FreshSession, BalanceFresh, BalanceOK
<1>10. used' = IF Kind(w) = "leave"
               THEN [used EXCEPT ![Owner[r]] = @ + ConsumedDays(r)] ELSE used
  <2>1. used' = IF Kind(w) = "leave"
                THEN [used EXCEPT ![Owner[r]] = seen[w].used + ConsumedDays(r)] ELSE used
    BY <1>1, <1>2 DEF CommitRequest, CommittedUsed
  <2> QED
    BY <1>9, <2>1
<1>11. Fixes' = IF Kind(w) = "punch_fix" THEN [Fixes EXCEPT ![Owner[r]] = @ + 1] ELSE Fixes
  BY <1>2, CommittedFixes
<1>12. Kind(w) = "punch_fix" => ~Closed[Owner[r]]
  BY <1>2 DEF SerialDays, FreshSession, MonthFresh, Inserts, Closed
<1>13. Closed' = Closed
  BY <1>2 DEF Closed
<1>14. status' = [status EXCEPT ![r] = NewStatus(op)]
  BY <1>1, Settlements
<1> QED
  BY <1>1, <1>2, <1>3, <1>4, <1>5, <1>7, <1>8, <1>9, <1>10, <1>11, <1>12, <1>13, <1>14

\* Closing and reopening toggle the state of the month, recomputing keeps it.
LEMMA CommittedToggle ==
    ASSUME Inv, SerialDays, NEW w \in Workers, CommitClosing(w)
    PROVE  Closed' = Closed \/ \E e \in Employees : Closed' = [Closed EXCEPT ![e] = ~@]
<1>1. FreshSession(w)
  BY DEF SerialDays
<1>2. PICK e \in Employees, new \in Closing :
        /\ e = job[w].emp /\ new = NewClosing(w)
        /\ closings' = [closings EXCEPT ![e] = new]
        /\ ~ClosingConflict(w) /\ seen[w].closing = closings[e]
  BY <1>1, CommittedClosing
<1>3. closings \in [Employees -> Closing] /\ closings[e].closed \in BOOLEAN
  BY DEF Inv, TypeOK, TablesTyped, Closing
<1>4. new.closed = closings[e].closed \/ new.closed = ~closings[e].closed
  BY <1>3, <1>2 DEF Closing
<1>5. Closed' = [Closed EXCEPT ![e] = new.closed]
  BY <1>2, <1>3 DEF Closed
<1>6. Closed[e] = closings[e].closed
  BY DEF Closed
<1>7. CASE new.closed = closings[e].closed
  <2>1. [Closed EXCEPT ![e] = Closed[e]] = Closed
    BY DEF Closed
  <2> QED
    BY <1>5, <1>6, <1>7, <2>1
<1>8. CASE new.closed = ~closings[e].closed
  BY <1>5, <1>6, <1>8
<1> QED
  BY <1>4, <1>7, <1>8


LEMMA PromisedInit == Init => Promise!Init
<1> SUFFICES ASSUME Init PROVE Promise!Init
  OBVIOUS
<1>1. ASSUME NEW e \in Employees PROVE Cardinality(AdminPunches(e)) = 0
  <2>1. \A d \in Days : DOMAIN punches[e][d] = {}
    BY DEF Init
  <2>2. AdminPunches(e) = {}
    BY <2>1, InAdminPunches
  <2>3. Cardinality({}) = 0
    BY FS_EmptySet
  <2> QED
    BY <2>2, <2>3
<1>2. \A e \in Employees : closings[e].closed = FALSE
  BY DEF Init, NoClosing
<1>3. /\ status = [r \in Reqs |-> "none"] /\ auditLogs = [r \in Reqs |-> <<>>]
      /\ used = [e \in Employees |-> 0]
  BY DEF Init
<1> QED
  BY <1>1, <1>2, <1>3 DEF Promise!Init

\* The commit of a settlement is Settlement's Cancel, Reject or Approve.
LEMMA PromisedSettlement ==
    ASSUME Inv, SerialInv, AuditInv, SerialDays, NEW w \in Workers, CommitRequest(w)
    PROVE  \/ \E r \in Reqs : Promise!Cancel(r)
           \/ \E r \in Reqs, a \in Approvers : Promise!Reject(r, a) \/ Promise!Approve(r, a)
<1>1. PICK r \in Reqs, op \in Settling :
              /\ status[r] = "pending"
              /\ status' = [status EXCEPT ![r] = NewStatus(op)]
              /\ auditLogs' = [auditLogs EXCEPT ![r] =
                                 <<[action |-> NewStatus(op), actor |-> job[w].by]>>]
              /\ op = "cancel" => job[w].by = Owner[r]
              /\ op # "cancel" => job[w].by \in Approvers /\ job[w].by # Owner[r]
              /\ used' = IF op = "approve" /\ Payload[r].type = "leave"
                         THEN [used EXCEPT ![Owner[r]] = @ + ConsumedDays(r)] ELSE used
              /\ op = "approve" /\ Payload[r].type = "leave"
                    => used[Owner[r]] + ConsumedDays(r) <= Entitled[Owner[r]]
              /\ Fixes' = IF op = "approve" /\ Payload[r].type = "punch_fix"
                          THEN [Fixes EXCEPT ![Owner[r]] = @ + 1] ELSE Fixes
              /\ op = "approve" /\ Payload[r].type = "punch_fix" => ~Closed[Owner[r]]
              /\ Closed' = Closed
  BY CommittedRequest
<1>2. CASE op = "cancel"
  <2>1. Promise!Cancel(r)
    BY <1>1, <1>2 DEF Promise!Cancel, Promise!Settle, NewStatus, Fixes, Closed
  <2> QED
    BY <2>1
<1>3. CASE op = "reject"
  <2>1. PICK a \in Approvers : a = job[w].by
    BY <1>1, <1>3
  <2>2. Promise!Reject(r, a)
    BY <1>1, <1>3, <2>1 DEF Promise!Reject, Promise!Settle, NewStatus, Decision, Fixes, Closed
  <2> QED
    BY <2>2
<1>4. CASE op = "approve"
  <2>1. PICK a \in Approvers : a = job[w].by
    BY <1>1, <1>4
  <2>2. a # Owner[r] /\ Promise!Settle(r, "approved", a)
    BY <1>1, <1>4, <2>1 DEF Promise!Settle, NewStatus, Decision
  <2>3. Promise!Approve(r, a)
    BY <1>1, <1>4, <2>2 DEF Promise!Approve, Fixes, Closed
  <2> QED
    BY <2>3
<1> QED
  BY <1>2, <1>3, <1>4 DEF Settling

LEMMA PromisedStep ==
    ASSUME Inv, SerialInv, AuditInv, SerialDays, [Next]_vars
    PROVE  [Promise!Next]_(Promise!vars)
<1>1. CASE \E r \in Reqs : CreateRequest(r)
  <2>1. PICK r \in Reqs : CreateRequest(r)
    BY <1>1
  <2>2. Fixes' = Fixes /\ Closed' = Closed
    BY <2>1, FixesStay DEF CreateRequest, Closed
  <2>3. Promise!Submit(r)
    BY <2>1, <2>2 DEF CreateRequest, Promise!Submit, Fixes, Closed
  <2> QED
    BY <2>3 DEF Promise!Next
<1>2. CASE \E w \in Workers : CommitRequest(w)
  BY <1>2, PromisedSettlement DEF Promise!Next
<1>3. CASE \E w \in Workers : CommitPunch(w)
  <2>1. PICK w \in Workers : CommitPunch(w)
    BY <1>3
  <2>2. Commits(w) /\ Kind(w) = "punch"
    BY <2>1 DEF Commits, CommitPunch, Kind
  <2>3. Fixes' = Fixes
    BY <2>2, CommittedFixes
  <2>4. Closed' = Closed /\ UNCHANGED <<status, auditLogs, used>>
    BY <2>1 DEF CommitPunch, Closed
  <2> QED
    BY <2>3, <2>4 DEF Promise!vars, Fixes, Closed
<1>4. CASE \E w \in Workers : CommitClosing(w)
  <2>1. PICK w \in Workers : CommitClosing(w)
    BY <1>4
  <2>2. Fixes' = Fixes /\ UNCHANGED <<status, auditLogs, used>>
    BY <2>1, FixesStay DEF CommitClosing
  <2>3. CASE Closed' = Closed
    BY <2>2, <2>3 DEF Promise!vars, Fixes, Closed
  <2>4. CASE \E e \in Employees : Closed' = [Closed EXCEPT ![e] = ~@]
    <3>1. PICK e \in Employees : Closed' = [Closed EXCEPT ![e] = ~@]
      BY <2>4
    <3>2. Promise!CloseOrReopen(e)
      BY <2>2, <3>1 DEF Promise!CloseOrReopen, Fixes, Closed
    <3> QED
      BY <3>2 DEF Promise!Next
  <2> QED
    BY <2>1, <2>3, <2>4, CommittedToggle
<1>5. CASE UNCHANGED tables
  <2>1. Fixes' = Fixes /\ Closed' = Closed /\ UNCHANGED <<status, auditLogs, used>>
    BY <1>5, FixesStay DEF tables, Closed
  <2> QED
    BY <2>1 DEF Promise!vars, Fixes, Closed
<1> QED
  BY <1>1, <1>2, <1>3, <1>4, <1>5, TableSteps DEF Commits

\* With one worker, the transactions of the server implement Settlement: every
\* request is settled by one step that has all of its effects.
THEOREM SerialRefinement == OneWorker => (Spec => SettlesAtomically)
<1> SUFFICES ASSUME OneWorker PROVE Spec => SettlesAtomically
  OBVIOUS
<1>1. Init => Promise!Init
  BY PromisedInit
<1>2. Inv /\ SerialInv /\ AuditInv /\ SerialDays /\ [Next]_vars
         => [Promise!Next]_(Promise!vars)
  BY PromisedStep
<1> QED
  BY <1>1, <1>2, Invariance, SerialInvariance, AuditInvariance, SerialDaysInvariance, PTL
     DEF Spec, SettlesAtomically, Promise!Spec
=============================================================================
