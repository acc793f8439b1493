------------------------------ MODULE Workflow ------------------------------
(***************************************************************************)
(* Requests, approvals, punches and month closing of the attendance server *)
(* as concurrent database transactions.                                    *)
(*                                                                         *)
(* Every HTTP request is served by a thread of the pool (a worker) in one  *)
(* SQLAlchemy session and one PostgreSQL transaction at READ COMMITTED.  A *)
(* step of a worker is one SELECT, or one flush: it reads the committed    *)
(* tables (and what the transaction itself has written), or it takes the   *)
(* row locks of the rows it writes and keeps them until the transaction    *)
(* ends.  Nothing is locked by a SELECT and no row has a version, so what  *)
(* a worker has read may be stale when it writes.                          *)
(*                                                                         *)
(* Time passes between the steps: a punch is recorded, and the running     *)
(* minutes of a day without a clock_out are counted, at the time that the  *)
(* handler has taken from the clock.                                       *)
(*                                                                         *)
(* Abstractions.  One month and one leave year.  Punches are clock_in and  *)
(* clock_out, those of a punch fix lie on the day it is for.  A daily row  *)
(* keeps the columns status and worked_minutes.  The total of a closing is *)
(* the function of the worked minutes it adds up.  Leave is counted in     *)
(* half days.  The comments, timestamps and e-mails of the handlers are    *)
(* left out.                                                               *)
(***************************************************************************)
EXTENDS Integers, Sequences, FiniteSets

CONSTANTS
    Workers,     \* the threads that serve requests
    Employees,   \* the employees whose attendance is followed
    Approvers,   \* the users, employees of that set or not, who may decide
    Days,        \* the dates of the month, as numbers
    LastMinute,  \* bound: a day is the minutes 0 .. LastMinute (1439 in the code)
    LastDate,    \* bound: the clock stops at the end of this date
    Start,       \* the moment at which a behaviour starts
    Reqs,        \* the requests that can be submitted
    Owner,       \* Owner[r] is the employee who submits r
    Payload,     \* Payload[r] is the JSON payload of r
    Entitled,    \* Entitled[e] = granted + carried-over half days of e
    Handlers,    \* the endpoints that are called
    MaxPunches,  \* bound: punches of one employee on one day
    None         \* SQL NULL, and the unset field of a job

Types     == {"punch_fix", "overtime", "leave"}
Settling  == {"cancel", "approve", "reject"}
Rebuilding == {"close", "recompute"}
Endpoints == Settling \cup Rebuilding \cup {"create", "punch", "reopen"}

Moment  == [day: 0 .. LastDate, at: 0 .. LastMinute]
PunchTypes == {"clock_in", "clock_out"}
Punch   == [type: PunchTypes, at: 0 .. LastMinute, source: {"web", "admin"}]
Row     == [exists: BOOLEAN, status: {"pending", "normal", "leave"}, worked: Nat]
Closing == [exists: BOOLEAN, closed: BOOLEAN, total: [Days -> Nat]]

ASSUME ConstantsAssumption ==
    /\ IsFiniteSet(Workers)
    /\ Days \subseteq Nat /\ IsFiniteSet(Days)
    /\ LastMinute \in Nat /\ LastDate \in Nat /\ Start \in Moment
    /\ Owner \in [Reqs -> Employees]
    /\ Payload \in [Reqs -> [type: Types, days: SUBSET Days, half: BOOLEAN, punch: Punch]]
    /\ \A r \in Reqs : Payload[r].type = "punch_fix" =>  \* PunchFixPayload, _apply_punch_fix
          /\ \E d \in Days : Payload[r].days = {d}
          /\ Payload[r].punch.source = "admin"
    /\ Entitled \in [Employees -> Nat]
    /\ Handlers \subseteq Endpoints
    /\ MaxPunches \in Nat
    /\ None \notin Employees \cup Approvers \cup Days \cup Reqs \cup Punch \cup Row \cup Moment

VARIABLES
    now,        \* the clock of the server: the date and the minute
    status,     \* requests.status, "none" before the request is submitted
    approvals,  \* the approvals row of the request: decision and approver_id
    used,       \* leave_balances.used_days of an employee, in half days
    auditLogs,  \* the audit_logs entries of a request's settlement, in order
    punches,    \* attendance_punches of an employee and day, in insertion order
    daily,      \* the daily_attendance row of an employee and day
    closings,   \* the monthly_closings row of an employee
    pc,         \* the next statement of a worker
    job,        \* what the worker was called with, and the days it still has to write
    seen,       \* what the worker's session has loaded
    buf         \* the daily rows it has flushed and not committed

tables  == <<status, approvals, used, auditLogs, punches, daily, closings>>
session == <<pc, job, seen, buf>>
vars    == <<now, status, approvals, used, auditLogs, punches, daily, closings,
             pc, job, seen, buf>>

NoRow      == [exists |-> FALSE, status |-> "pending", worked |-> 0]
NoClosing  == [exists |-> FALSE, closed |-> FALSE, total |-> [d \in Days |-> 0]]
NoJob      == [op |-> "idle", by |-> None, emp |-> None, req |-> None,
               punch |-> None, todo |-> {}, now |-> None]
NothingSeen == [punches |-> <<>>, day |-> None, now |-> None, row |-> NoRow, used |-> 0,
                total |-> [d \in Days |-> 0], closing |-> NoClosing]
NoRows     == [d \in Days |-> None]

Init ==
    /\ now = Start
    /\ status = [r \in Reqs |-> "none"]
    /\ approvals = [r \in Reqs |-> [decision |-> "pending", approver |-> None]]
    /\ used = [e \in Employees |-> 0]
    /\ auditLogs = [r \in Reqs |-> <<>>]
    /\ punches = [e \in Employees |-> [d \in Days |-> <<>>]]
    /\ daily = [e \in Employees |-> [d \in Days |-> NoRow]]
    /\ closings = [e \in Employees |-> NoClosing]
    /\ pc = [w \in Workers |-> "idle"]
    /\ job = [w \in Workers |-> NoJob]
    /\ seen = [w \in Workers |-> NothingSeen]
    /\ buf = [w \in Workers |-> NoRows]

-----------------------------------------------------------------------------
(* The attendance service: transitions of a day and its metrics. *)

PunchTimes(ps, type) == {ps[i].at : i \in {j \in DOMAIN ps : ps[j].type = type}}

PunchState(ps) ==
    IF PunchTimes(ps, "clock_in") = {} THEN "none"
    ELSE IF PunchTimes(ps, "clock_out") = {} THEN "working" ELSE "done"

ValidTransition(type, ps) ==
    \/ type = "clock_in" /\ PunchState(ps) = "none"
    \/ type = "clock_out" /\ PunchState(ps) = "working"

\* When the work of a day ends, as known at a moment: with its clock_out, or now
\* if the day is still open, or not at all if the date has passed.
Ends(ps, day, moment) ==
    IF PunchTimes(ps, "clock_out") # {} THEN PunchTimes(ps, "clock_out")
    ELSE IF moment.day = day THEN {moment.at} ELSE {}

\* The minutes from the first clock_in to the last end.
Worked(ps, day, moment) ==
    Cardinality({t \in 0 .. LastMinute : /\ \E i \in PunchTimes(ps, "clock_in") : i <= t
                                         /\ \E o \in Ends(ps, day, moment) : t < o})

\* Mutant of Metrics: a day counts as worked once it is clocked in.
MetricsOnceIn(ps, day, moment) ==
    [exists |-> TRUE, worked |-> Worked(ps, day, moment),
     status |-> IF PunchState(ps) = "none" THEN "pending" ELSE "normal"]

Metrics(ps, day, moment) ==
    [exists |-> TRUE, worked |-> Worked(ps, day, moment),
     status |-> IF PunchState(ps) = "done" THEN "normal" ELSE "pending"]

\* A half-day leave keeps the minutes the session has loaded.
LeaveRow(row, half) ==
    [exists |-> TRUE, status |-> "leave", worked |-> IF half THEN row.worked ELSE 0]

ConsumedDays(r) == IF Payload[r].half THEN 1 ELSE 2 * Cardinality(Payload[r].days)

\* An ORM UPDATE writes the columns whose value differs from the loaded one.
Column(current, loaded, new) == IF new = loaded THEN current ELSE new

UpdateRow(current, loaded, new) ==
    [exists |-> TRUE,
     status |-> Column(current.status, loaded.status, new.status),
     worked |-> Column(current.worked, loaded.worked, new.worked)]

UpdateClosing(current, loaded, new) ==
    [exists |-> TRUE,
     closed |-> Column(current.closed, loaded.closed, new.closed),
     total  |-> Column(current.total, loaded.total, new.total)]

-----------------------------------------------------------------------------
(* The session of a worker. *)

Kind(w)    == IF job[w].op = "approve" THEN Payload[job[w].req].type ELSE job[w].op

\* Mutant of Inserts: the approval of a punch fix inserts no punch.
InsertsWebPunch(w) == Kind(w) = "punch"

Inserts(w) == Kind(w) \in {"punch", "punch_fix"}

\* Mutant of VisiblePunches: the session does not see the punch it has flushed.
CommittedPunchesOnly(w, d) == punches[job[w].emp][d]

\* What a SELECT of worker w returns.
VisiblePunches(w, d) ==
    LET ps == punches[job[w].emp][d]
    IN  IF Inserts(w) THEN Append(ps, job[w].punch) ELSE ps

VisibleRow(w, d) == IF buf[w][d] = None THEN daily[job[w].emp][d] ELSE buf[w][d]

NewRow(w) == IF Kind(w) = "leave"
             THEN LeaveRow(seen[w].row, Payload[job[w].req].half)
             ELSE Metrics(seen[w].punches, seen[w].day, seen[w].now)

NewClosing(w) == [exists |-> TRUE,
                  closed |-> CASE job[w].op = "close"  -> TRUE
                               [] job[w].op = "reopen" -> FALSE
                               [] OTHER                -> seen[w].closing.closed,
                  total  |-> IF job[w].op = "reopen" THEN seen[w].closing.total
                                                     ELSE seen[w].total]

\* The rows a flush of worker w locks.
RequestRows(w) ==
    {<<"request", job[w].req>>}
      \cup (IF job[w].op = "cancel" THEN {} ELSE {<<"approval", job[w].req>>})
      \cup (IF Kind(w) = "leave" THEN {<<"balance", job[w].emp>>} ELSE {})

Wanted(w) ==
    CASE pc[w] = "flush" -> RequestRows(w)
      [] pc[w] = "write" /\ NewRow(w) # seen[w].row
           -> {<<"daily", job[w].emp, seen[w].day>>}
      [] pc[w] = "save" /\ NewClosing(w) # seen[w].closing
           -> {<<"closing", job[w].emp>>}
      [] OTHER -> {}

\* The rows worker w keeps locked until its transaction ends.
Held(w) ==
    {<<"daily", job[w].emp, d>> : d \in {x \in Days : buf[w][x] # None}}
      \cup (IF job[w].op \in Settling /\ pc[w] \in {"punches", "daily", "write", "commit"}
            THEN RequestRows(w) ELSE {})
      \cup (IF job[w].op \in Rebuilding \cup {"reopen"} /\ pc[w] = "commit"
               /\ NewClosing(w) # seen[w].closing
            THEN {<<"closing", job[w].emp>>} ELSE {})

Blockers(w) == {v \in Workers \ {w} : Held(v) \cap Wanted(w) # {}}

Goto(w, label) == pc' = [pc EXCEPT ![w] = label]

\* The session is closed: its transaction ends and its locks are released.
Release(w) ==
    /\ pc' = [pc EXCEPT ![w] = "idle"]
    /\ job' = [job EXCEPT ![w] = NoJob]
    /\ seen' = [seen EXCEPT ![w] = NothingSeen]
    /\ buf' = [buf EXCEPT ![w] = NoRows]

-----------------------------------------------------------------------------
(* Requests: create, cancel, approve and reject. *)

\* Mutants of Decidable: the approver may be the requester, and a request may be
\* decided again.
DecidableBySelf(a, r) == status[r] = "pending" /\ approvals[r].decision = "pending"
DecidableAgain(a, r)  == status[r] # "none" /\ a # Owner[r]

\* The checks of decide on the approval and the request it has loaded.
Decidable(a, r) ==
    /\ status[r] = "pending"
    /\ approvals[r].decision = "pending"
    /\ a # Owner[r]

\* POST /requests: inserts only, so no other transaction sees it before its commit.
CreateRequest(r) ==
    /\ "create" \in Handlers
    /\ status[r] = "none"
    /\ status' = [status EXCEPT ![r] = "pending"]
    /\ approvals' = [approvals EXCEPT ![r] = [decision |-> "pending", approver |-> None]]
    /\ UNCHANGED <<used, auditLogs, punches, daily, closings, session>>

\* POST /requests/{id}/cancel: the request is loaded and its status checked.
BeginCancel(w, r) ==
    /\ "cancel" \in Handlers
    /\ pc[w] = "idle"
    /\ status[r] = "pending"
    /\ job' = [job EXCEPT ![w] = [NoJob EXCEPT !.op = "cancel", !.by = Owner[r],
                                               !.emp = Owner[r], !.req = r]]
    /\ Goto(w, "flush")
    /\ UNCHANGED <<tables, seen, buf>>

\* Mutant of DaysToWrite: every approval recomputes the whole month.
AllDaysToWrite(op, r) == IF op = "approve" THEN Days ELSE {}

\* The days whose rows an approval writes.
DaysToWrite(op, r) == IF op = "approve" THEN Payload[r].days ELSE {}

\* POST /approvals/{id}/approve and /reject: the approval and the request are
\* loaded; both must be pending and the approver must not be the requester.
BeginDecide(w, op, a, r) ==
    /\ op \in {"approve", "reject"} \cap Handlers
    /\ pc[w] = "idle"
    /\ Decidable(a, r)
    /\ job' = [job EXCEPT ![w] =
                 [op |-> op, by |-> a, emp |-> Owner[r], req |-> r,
                  punch |-> Payload[r].punch, now |-> None,
                  todo |-> DaysToWrite(op, r)]]
    /\ Goto(w, IF op = "reject" \/ Payload[r].type = "overtime" THEN "flush"
               ELSE IF Payload[r].type = "leave" THEN "balance" ELSE "guard")
    /\ UNCHANGED <<tables, seen, buf>>

\* Mutant of Remaining: what has been used is forgotten.
RemainingOfGrant(e) == Entitled[e]

Remaining(e) == Entitled[e] - used[e]

\* deduct_leave loads the balance row and checks it.
ReadBalance(w) ==
    /\ pc[w] = "balance"
    /\ ConsumedDays(job[w].req) <= Remaining(job[w].emp)
    /\ seen' = [seen EXCEPT ![w].used = used[job[w].emp]]
    /\ Goto(w, "flush")
    /\ UNCHANGED <<tables, job, buf>>

\* The flush of the request and approval rows, with the inserted punch or the
\* new used_days of the balance.
FlushRequest(w) ==
    /\ pc[w] = "flush"
    /\ Blockers(w) = {}
    /\ Goto(w, CASE Kind(w) = "punch_fix" -> "punches"
                 [] Kind(w) = "leave"     -> "daily"
                 [] OTHER                 -> "commit")
    /\ UNCHANGED <<tables, job, seen, buf>>

Decision(op) == IF op = "approve" THEN "approved" ELSE "rejected"

\* Mutants of NewStatus: the verb of the URL is stored, a rejected request is
\* stored as approved, a rejected request goes back to pending.
StatusIsVerb(op)       == op
StatusApproved(op)     == IF op = "cancel" THEN "canceled" ELSE "approved"
StatusBackToPending(op) == IF op = "reject" THEN "pending" ELSE StatusApproved(op)

NewStatus(op) == IF op = "cancel" THEN "canceled" ELSE Decision(op)

\* Mutant of CommittedDays: record_punch does not recompute the day.
DaysWithoutRecompute(w) ==
    IF job[w].op = "punch" THEN daily
    ELSE [daily EXCEPT ![job[w].emp] = [d \in Days |-> VisibleRow(w, d)]]

CommittedDays(w) == [daily EXCEPT ![job[w].emp] = [d \in Days |-> VisibleRow(w, d)]]

CommittedPunch(w) ==
    IF Inserts(w)
    THEN [punches EXCEPT ![job[w].emp][seen[w].day] = Append(@, job[w].punch)]
    ELSE punches

\* Mutants of CommittedUsed: a half day counts as a whole one, and a rejected
\* leave is deducted too.
UsedInFullDays(w) ==
    IF Kind(w) = "leave"
    THEN [used EXCEPT ![job[w].emp] = seen[w].used + 2 * Cardinality(Payload[job[w].req].days)]
    ELSE used
UsedByAnyDecision(w) ==
    IF job[w].op # "cancel" /\ Payload[job[w].req].type = "leave"
    THEN [used EXCEPT ![job[w].emp] = seen[w].used + ConsumedDays(job[w].req)]
    ELSE used

CommittedUsed(w) ==
    IF Kind(w) = "leave"
    THEN [used EXCEPT ![job[w].emp] = seen[w].used + ConsumedDays(job[w].req)]
    ELSE used

\* The audit entry is written and the settlement of the request committed.
CommitRequest(w) ==
    LET r == job[w].req
        op == job[w].op
        action == IF op = "cancel" THEN "canceled" ELSE Decision(op)
    IN  /\ pc[w] = "commit"
        /\ op \in Settling
        /\ status' = [status EXCEPT ![r] = NewStatus(op)]
        /\ approvals' = IF op = "cancel" THEN approvals
                        ELSE [approvals EXCEPT ![r] = [decision |-> Decision(op),
                                                       approver |-> job[w].by]]
        /\ auditLogs' = [auditLogs EXCEPT ![r] =
                           Append(@, [action |-> action, actor |-> job[w].by])]
        /\ used' = CommittedUsed(w)
        /\ punches' = CommittedPunch(w)
        /\ daily' = CommittedDays(w)
        /\ UNCHANGED closings
        /\ Release(w)

-----------------------------------------------------------------------------
(* Punches. *)

\* POST /attendance/punches: the clock gives the time and the day of the punch.
BeginPunch(w, e, type) ==
    /\ "punch" \in Handlers
    /\ pc[w] = "idle"
    /\ now.day \in Days
    /\ Len(punches[e][now.day]) < MaxPunches
    /\ job' = [job EXCEPT ![w] =
                 [op |-> "punch", by |-> e, emp |-> e, req |-> None, now |-> now,
                  punch |-> [type |-> type, at |-> now.at, source |-> "web"],
                  todo |-> {now.day}]]
    /\ Goto(w, "guard")
    /\ UNCHANGED <<tables, seen, buf>>

\* Mutants of MonthOpen: no check, and a check for the web client's punches only.
MonthUnchecked(w)      == TRUE
MonthOpenForPunches(w) == job[w].op = "punch" => ~closings[job[w].emp].closed

MonthOpen(w) == ~closings[job[w].emp].closed

\* _is_closed, called by record_punch and by the approval of a punch fix.
CheckMonthOpen(w) ==
    /\ pc[w] = "guard"
    /\ MonthOpen(w)
    /\ Goto(w, IF job[w].op = "punch" THEN "validate" ELSE "flush")
    /\ UNCHANGED <<tables, job, seen, buf>>

BadTransition(w) ==
    \E d \in job[w].todo : ~ValidTransition(job[w].punch.type, punches[job[w].emp][d])

\* The punches of the day are loaded, the transition is checked, and the new
\* punch is inserted, which no other transaction sees before the commit.
ValidatePunch(w) ==
    /\ pc[w] = "validate"
    /\ ~BadTransition(w)
    /\ Goto(w, "punches")
    /\ UNCHANGED <<tables, job, seen, buf>>

CommitPunch(w) ==
    /\ pc[w] = "commit"
    /\ job[w].op = "punch"
    /\ punches' = CommittedPunch(w)
    /\ daily' = CommittedDays(w)
    /\ UNCHANGED <<status, approvals, used, auditLogs, closings>>
    /\ Release(w)

-----------------------------------------------------------------------------
(* The daily rows: recompute_daily, and the days of an approved leave. *)

\* The moment for which a day is computed: that of the punch, or of the call to
\* recompute the month; an approval looks at the clock once it has inserted the fix.
ReferenceNow(w) == IF job[w].op = "approve" THEN now ELSE job[w].now

\* recompute_daily loads the punches of a day that is still to be done.
ReadPunches(w) ==
    /\ pc[w] = "punches"
    /\ \E d \in job[w].todo :
          seen' = [seen EXCEPT ![w] = [@ EXCEPT !.day = d, !.now = ReferenceNow(w),
                                                !.punches = VisiblePunches(w, d)]]
    /\ Goto(w, "daily")
    /\ UNCHANGED <<tables, job, buf>>

FirstDay(dates) == {d \in dates : \A x \in dates : d <= x}

\* Then the daily row; a leave goes through its days in calendar order.
ReadDaily(w) ==
    /\ pc[w] = "daily"
    /\ \E d \in IF Kind(w) = "leave" THEN FirstDay(job[w].todo) ELSE {seen[w].day} :
          seen' = [seen EXCEPT ![w] = [@ EXCEPT !.day = d, !.row = VisibleRow(w, d)]]
    /\ Goto(w, "write")
    /\ UNCHANGED <<tables, job, buf>>

\* The INSERT of a row that another transaction has committed in the meantime.
DuplicateDay(w) ==
    /\ pc[w] = "write"
    /\ ~seen[w].row.exists
    /\ daily[job[w].emp][seen[w].day].exists

\* The row is flushed: an INSERT, an UPDATE of the changed columns, or nothing.
WriteDay(w) ==
    LET d    == seen[w].day
        rest == job[w].todo \ {d}
    IN  /\ pc[w] = "write"
        /\ Blockers(w) = {}
        /\ ~DuplicateDay(w)
        /\ buf' = IF NewRow(w) = seen[w].row THEN buf
                  ELSE [buf EXCEPT ![w][d] =
                          UpdateRow(VisibleRow(w, d), seen[w].row, NewRow(w))]
        /\ job' = [job EXCEPT ![w].todo = rest]
        /\ Goto(w, IF rest # {} THEN IF Kind(w) = "leave" THEN "daily" ELSE "punches"
                   ELSE IF job[w].op \in Rebuilding THEN "sum" ELSE "commit")
        /\ UNCHANGED <<tables, seen>>

-----------------------------------------------------------------------------
(* Closing, reopening and recomputing the month of one employee. *)

\* POST /admin/closings/close and /recompute with an employee_id: the dates
\* that have punches are loaded, and the clock is read.
BeginRebuild(w, op, e) ==
    /\ op \in Rebuilding \cap Handlers
    /\ pc[w] = "idle"
    /\ LET dates == {d \in Days : punches[e][d] # <<>>}
       IN  /\ job' = [job EXCEPT ![w] = [NoJob EXCEPT !.op = op, !.emp = e, !.todo = dates,
                                                      !.now = now]]
           /\ Goto(w, IF dates = {} THEN "sum" ELSE "punches")
    /\ UNCHANGED <<tables, seen, buf>>

\* POST /admin/closings/reopen
BeginReopen(w, e) ==
    /\ "reopen" \in Handlers
    /\ pc[w] = "idle"
    /\ job' = [job EXCEPT ![w] = [NoJob EXCEPT !.op = "reopen", !.emp = e]]
    /\ Goto(w, "closing")
    /\ UNCHANGED <<tables, seen, buf>>

\* _sum_month
SumMonth(w) ==
    /\ pc[w] = "sum"
    /\ seen' = [seen EXCEPT ![w].total = [d \in Days |-> VisibleRow(w, d).worked]]
    /\ Goto(w, "closing")
    /\ UNCHANGED <<tables, job, buf>>

ClosingConflict(w) ==
    \/ job[w].op = "close" /\ closings[job[w].emp].closed
    \/ job[w].op = "reopen" /\ ~closings[job[w].emp].closed

\* get_closing; a month that is closed is not closed again, nor an open one reopened.
ReadClosing(w) ==
    /\ pc[w] = "closing"
    /\ ~ClosingConflict(w)
    /\ seen' = [seen EXCEPT ![w].closing = closings[job[w].emp]]
    /\ Goto(w, "save")
    /\ UNCHANGED <<tables, job, buf>>

DuplicateClosing(w) ==
    /\ pc[w] = "save"
    /\ ~seen[w].closing.exists
    /\ closings[job[w].emp].exists

SaveClosing(w) ==
    /\ pc[w] = "save"
    /\ Blockers(w) = {}
    /\ ~DuplicateClosing(w)
    /\ Goto(w, "commit")
    /\ UNCHANGED <<tables, job, seen, buf>>

CommitClosing(w) ==
    LET e == job[w].emp IN
    /\ pc[w] = "commit"
    /\ job[w].op \in Rebuilding \cup {"reopen"}
    /\ closings' = [closings EXCEPT ![e] =
                      UpdateClosing(@, seen[w].closing, NewClosing(w))]
    /\ daily' = CommittedDays(w)
    /\ UNCHANGED <<status, approvals, used, auditLogs, punches>>
    /\ Release(w)

-----------------------------------------------------------------------------
(* The ways a transaction ends without a commit. *)

Refused(w) ==
    \/ pc[w] = "guard" /\ ~MonthOpen(w)
    \/ pc[w] = "validate" /\ BadTransition(w)
    \/ pc[w] = "balance" /\ Remaining(job[w].emp) < ConsumedDays(job[w].req)
    \/ pc[w] = "closing" /\ ClosingConflict(w)

\* A rule of the service is violated: the handler rolls back and answers 409.
Refuse(w) == Refused(w) /\ Release(w) /\ UNCHANGED tables

\* A unique constraint refuses an INSERT: the exception is not caught, the
\* session is closed and the client gets a 500.
UniqueViolation(w) ==
    /\ DuplicateDay(w) \/ DuplicateClosing(w)
    /\ Blockers(w) = {}
    /\ Release(w)
    /\ UNCHANGED tables

\* The workers of S wait for each other: from each one, the blockers lead to all.
Deadlocked(S) ==
    /\ \E v \in S : Blockers(v) \cap S # {}
    /\ \A T \in (SUBSET S) \ {{}, S} : \E v \in T : Blockers(v) \cap (S \ T) # {}

\* PostgreSQL aborts a transaction that waits in a cycle.
DeadlockVictim(w) ==
    /\ \E S \in SUBSET Workers : w \in S /\ Deadlocked(S)
    /\ Release(w)
    /\ UNCHANGED tables

\* The server stops, or its connection is lost, before the commit.
Fail(w) ==
    /\ pc[w] # "idle"
    /\ Release(w)
    /\ UNCHANGED tables

-----------------------------------------------------------------------------
Begin(w) ==
    \/ \E r \in Reqs : BeginCancel(w, r)
    \/ \E r \in Reqs, a \in Approvers, op \in {"approve", "reject"} : BeginDecide(w, op, a, r)
    \/ \E e \in Employees, type \in PunchTypes : BeginPunch(w, e, type)
    \/ \E e \in Employees, op \in Rebuilding : BeginRebuild(w, op, e)
    \/ \E e \in Employees : BeginReopen(w, e)

\* What a worker does once it serves a request, up to its answer.
Serve(w) ==
    \/ ReadBalance(w) \/ FlushRequest(w) \/ CommitRequest(w)
    \/ CheckMonthOpen(w) \/ ValidatePunch(w) \/ CommitPunch(w)
    \/ ReadPunches(w) \/ ReadDaily(w) \/ WriteDay(w)
    \/ SumMonth(w) \/ ReadClosing(w) \/ SaveClosing(w) \/ CommitClosing(w)
    \/ Refuse(w) \/ UniqueViolation(w) \/ DeadlockVictim(w)

\* Time passes, until the end of the last date.
Tick ==
    /\ \/ now.at < LastMinute /\ now' = [now EXCEPT !.at = @ + 1]
       \/ now.at = LastMinute /\ now.day < LastDate /\ now' = [day |-> now.day + 1, at |-> 0]
    /\ UNCHANGED <<tables, session>>

Next ==
    \/ /\ \/ \E r \in Reqs : CreateRequest(r)
          \/ \E w \in Workers : Begin(w) \/ Serve(w) \/ Fail(w)
       /\ UNCHANGED now
    \/ Tick

Spec == Init /\ [][Next]_vars
=============================================================================
