--------------------------- MODULE WorkflowProofs ---------------------------
(***************************************************************************)
(* What holds of the transactions of Workflow for every value of the       *)
(* constants: any number of workers, employees, days and requests.         *)
(***************************************************************************)
EXTENDS WorkflowProperties, TLAPS, FiniteSetTheorems

-----------------------------------------------------------------------------
(* The operators return values of their types. *)

\* The minutes of a day are a natural number.
LEMMA WorkedIsNat == \A ps, day, moment : Worked(ps, day, moment) \in Nat
<1>1. IsFiniteSet(0 .. LastMinute)
  BY FS_Interval, ConstantsAssumption DEF ConstantsAssumption
<1> SUFFICES ASSUME NEW ps, NEW day, NEW moment PROVE Worked(ps, day, moment) \in Nat
  OBVIOUS
<1> DEFINE M == {t \in 0 .. LastMinute :
                   /\ \E i \in PunchTimes(ps, "clock_in") : i <= t
                   /\ \E o \in Ends(ps, day, moment) : t < o}
<1>2. IsFiniteSet(M)
  BY <1>1, FS_Subset, M \subseteq 0 .. LastMinute
<1>3. Cardinality(M) \in Nat
  BY <1>2, FS_CardinalityType
<1> QED
  BY <1>3 DEF Worked

\* recompute_daily and _upsert_leave_day produce rows.
LEMMA MetricsType == \A ps, day, moment : Metrics(ps, day, moment) \in Row
BY WorkedIsNat DEF Metrics, Row

LEMMA LeaveRowType == \A row \in Row, half \in BOOLEAN : LeaveRow(row, half) \in Row
BY DEF LeaveRow, Row

\* A leave costs a whole number of half days.
LEMMA ConsumedDaysIsNat == \A r \in Reqs : ConsumedDays(r) \in Nat
<1> SUFFICES ASSUME NEW r \in Reqs PROVE ConsumedDays(r) \in Nat
  OBVIOUS
<1>1. Payload[r].days \subseteq Days
  BY ConstantsAssumption DEF ConstantsAssumption
<1>2. IsFiniteSet(Payload[r].days)
  BY <1>1, FS_Subset, ConstantsAssumption DEF ConstantsAssumption
<1>3. Cardinality(Payload[r].days) \in Nat
  BY <1>2, FS_CardinalityType
<1> QED
  BY <1>3 DEF ConsumedDays

LEMMA UpdateRowType ==
    \A current, loaded, new \in Row : UpdateRow(current, loaded, new) \in Row
BY DEF UpdateRow, Column, Row

LEMMA UpdateClosingType ==
    \A current, loaded, new \in Closing : UpdateClosing(current, loaded, new) \in Closing
BY DEF UpdateClosing, Column, Closing

-----------------------------------------------------------------------------
(* What a worker's session knows about the request it serves. *)

\* The job of a worker agrees with the endpoint it serves and with what was
\* checked when it was accepted.
JobOK(w) ==
    /\ pc[w] # "idle" => job[w].op \in Endpoints /\ job[w].emp \in Employees
    /\ job[w].op \in Settling => job[w].req \in Reqs /\ job[w].emp = Owner[job[w].req]
    /\ job[w].op = "cancel" => job[w].by = Owner[job[w].req]
    /\ job[w].op \in {"approve", "reject"} =>
          job[w].by \in Approvers /\ job[w].by # Owner[job[w].req]
    /\ job[w].op = "approve" => job[w].punch = Payload[job[w].req].punch
    /\ job[w].op = "punch" => job[w].punch \in Punch /\ job[w].punch.source = "web"
    /\ pc[w] = "balance" => Kind(w) = "leave"
    /\ pc[w] = "flush" => job[w].op \in Settling
    /\ pc[w] \in {"guard", "validate"} => Inserts(w)
    /\ pc[w] = "punches" => Kind(w) # "leave"
    /\ pc[w] \in {"sum", "closing", "save"} => job[w].op \in Rebuilding \cup {"reopen"}

\* A session that writes a day has loaded it.
DayOK(w) ==
    \/ pc[w] = "write"
    \/ pc[w] = "daily" /\ Kind(w) # "leave"
    \/ pc[w] = "commit" /\ Inserts(w)
    => seen[w].day \in Days

\* Past its check, a leave still fits into the balance as it was read.
BalanceOK(w) ==
    Kind(w) = "leave" /\ pc[w] \in {"flush", "daily", "write", "commit"}
    => seen[w].used + ConsumedDays(job[w].req) <= Entitled[job[w].emp]

SessionsOK == \A w \in Workers : JobOK(w) /\ DayOK(w) /\ BalanceOK(w)

Inv == TypeOK /\ SessionsOK

LEMMA NoValuesType ==
    /\ NoRow \in Row
    /\ NoClosing \in Closing
    /\ NoJob \in Job
    /\ NothingSeen \in Loaded
    /\ NoRows \in [Days -> Row \cup {None}]
<1>1. NoRow \in Row
  BY DEF NoRow, Row
<1>2. NoClosing \in Closing
  BY DEF NoClosing, Closing
<1>3. NoJob \in Job
  BY DEF NoJob, Job
<1>4. <<>> \in Seq(Punch)
  OBVIOUS
<1>5. NothingSeen \in Loaded
  BY <1>1, <1>2, <1>4 DEF NothingSeen, Loaded
<1> QED
  BY <1>1, <1>2, <1>3, <1>5 DEF NoRows

LEMMA InitInv == Init => Inv
<1> SUFFICES ASSUME Init PROVE Inv
  OBVIOUS
<1>1. TypeOK
  BY NoValuesType, ConstantsAssumption
     DEF Init, TypeOK, TablesTyped, SessionsTyped, Labels, ConstantsAssumption
<1>2. SessionsOK
  BY DEF Init, SessionsOK, JobOK, DayOK, BalanceOK, Kind, Inserts, NoJob, Settling
<1> QED
  BY <1>1, <1>2 DEF Inv

-----------------------------------------------------------------------------
(* The step of one worker. *)

\* What a worker reads is a row, and a list of punches.
LEMMA VisibleType ==
    ASSUME Inv, NEW w \in Workers, NEW d \in Days, pc[w] # "idle"
    PROVE  VisibleRow(w, d) \in Row /\ VisiblePunches(w, d) \in Seq(Punch)
<1>1. job[w].emp \in Employees /\ job[w].op \in Endpoints
  BY DEF Inv, SessionsOK, JobOK
<1>2. VisibleRow(w, d) \in Row
  BY <1>1 DEF Inv, TypeOK, TablesTyped, SessionsTyped, VisibleRow
<1>3. punches[job[w].emp][d] \in Seq(Punch)
  BY <1>1 DEF Inv, TypeOK, TablesTyped
<1>4. ASSUME Inserts(w) PROVE job[w].punch \in Punch
  BY <1>1, <1>4, ConstantsAssumption
     DEF Inv, SessionsOK, JobOK, Inserts, Kind, ConstantsAssumption, Endpoints,
         Settling, Rebuilding
<1>5. VisiblePunches(w, d) \in Seq(Punch)
  BY <1>3, <1>4 DEF VisiblePunches
<1> QED
  BY <1>2, <1>5

\* What a worker writes is a row, and a closing.
LEMMA NewValuesType ==
    ASSUME Inv, NEW w \in Workers, pc[w] # "idle"
    PROVE  NewRow(w) \in Row /\ NewClosing(w) \in Closing
<1>1. seen[w] \in Loaded
  BY DEF Inv, TypeOK, SessionsTyped
<1>2. ASSUME Kind(w) = "leave" PROVE Payload[job[w].req].half \in BOOLEAN
  BY <1>2, ConstantsAssumption
     DEF Inv, SessionsOK, JobOK, Kind, ConstantsAssumption, Endpoints, Settling, Rebuilding
<1>3. NewRow(w) \in Row
  BY <1>1, <1>2, MetricsType, LeaveRowType DEF NewRow, Loaded
<1>4. NewClosing(w) \in Closing
  BY <1>1 DEF NewClosing, Loaded, Closing
<1> QED
  BY <1>3, <1>4

\* A closed session knows nothing.
LEMMA ReleaseInv ==
    ASSUME Inv, NEW w \in Workers, Release(w)
    PROVE  SessionsTyped' /\ SessionsOK'
<1>1. SessionsTyped'
  BY NoValuesType DEF Inv, TypeOK, SessionsTyped, Release, Labels
<1>2. ASSUME NEW v \in Workers PROVE (JobOK(v) /\ DayOK(v) /\ BalanceOK(v))'
  <2>1. CASE v = w
    BY <2>1 DEF Inv, TypeOK, SessionsTyped, Release, JobOK, DayOK, BalanceOK, Kind,
                Inserts, NoJob, Settling
  <2>2. CASE v # w
    BY <2>2 DEF Inv, TypeOK, SessionsTyped, SessionsOK, Release, JobOK, DayOK,
                BalanceOK, Kind, Inserts
  <2> QED
    BY <2>1, <2>2
<1> QED
  BY <1>1, <1>2 DEF SessionsOK

\* A step that changes what one worker knows, and no other's, leaves the others'
\* sessions in order.
LEMMA OtherSessions ==
    ASSUME Inv, NEW w \in Workers, NEW v \in Workers, v # w,
           pc'[v] = pc[v], job'[v] = job[v], seen'[v] = seen[v]
    PROVE  (JobOK(v) /\ DayOK(v) /\ BalanceOK(v))'
BY DEF Inv, SessionsOK, JobOK, DayOK, BalanceOK, Kind, Inserts

\* Accepting a request: the job is what the endpoint was called with.
LEMMA BeginInv ==
    ASSUME Inv, NEW w \in Workers, Begin(w), now' = now
    PROVE  Inv'
<1> USE DEF JobOK, DayOK, BalanceOK, Kind, Inserts, Endpoints, Settling, Rebuilding
<1>1. pc[w] = "idle" /\ UNCHANGED <<tables, seen, buf>>
  BY DEF Begin, BeginCancel, BeginDecide, BeginPunch, BeginRebuild, BeginReopen
<1>2. TablesTyped'
  BY <1>1 DEF Inv, TypeOK, TablesTyped, tables
<1>3. SUFFICES pc' \in [Workers -> Labels] /\ job' \in [Workers -> Job] /\ SessionsOK'
  BY <1>1, <1>2 DEF Inv, TypeOK, SessionsTyped
<1>4. pc \in [Workers -> Labels] /\ job \in [Workers -> Job] /\ NoJob \in Job
  BY NoValuesType DEF Inv, TypeOK, SessionsTyped
<1>5. CASE \E r \in Reqs : BeginCancel(w, r)
  <2>1. PICK r \in Reqs : BeginCancel(w, r)
    BY <1>5
  <2>2. Owner[r] \in Employees
    BY ConstantsAssumption DEF ConstantsAssumption
  <2>3. pc' \in [Workers -> Labels] /\ job' \in [Workers -> Job]
    BY <1>4, <2>1, <2>2 DEF BeginCancel, Goto, Labels, Job, NoJob
  <2>4. (JobOK(w) /\ DayOK(w) /\ BalanceOK(w))'
    BY <1>4, <2>1, <2>2 DEF BeginCancel, Goto, NoJob
  <2>5. \A v \in Workers : v # w => (JobOK(v) /\ DayOK(v) /\ BalanceOK(v))'
    BY <1>1, <1>4, <2>1, OtherSessions DEF BeginCancel, Goto
  <2> QED
    BY <2>3, <2>4, <2>5 DEF SessionsOK
<1>6. CASE \E r \in Reqs, a \in Approvers, op \in {"approve", "reject"} :
             BeginDecide(w, op, a, r)
  <2>1. PICK r \in Reqs, a \in Approvers, op \in {"approve", "reject"} :
               BeginDecide(w, op, a, r)
    BY <1>6
  <2>2. /\ Owner[r] \in Employees
        /\ Payload[r].punch \in Punch /\ Payload[r].days \subseteq Days
        /\ Payload[r].type \in Types
    BY ConstantsAssumption DEF ConstantsAssumption
  <2>3. pc' \in [Workers -> Labels] /\ job' \in [Workers -> Job]
    BY <1>4, <2>1, <2>2 DEF BeginDecide, Goto, Labels, Job, DaysToWrite
  <2>4. (JobOK(w) /\ DayOK(w) /\ BalanceOK(w))'
    <3>1. /\ job'[w] = [op |-> op, by |-> a, emp |-> Owner[r], req |-> r,
                         punch |-> Payload[r].punch, now |-> None,
                         todo |-> IF op = "approve" THEN Payload[r].days ELSE {}]
          /\ a # Owner[r]
          /\ pc'[w] = IF op = "reject" \/ Payload[r].type = "overtime" THEN "flush"
                      ELSE IF Payload[r].type = "leave" THEN "balance" ELSE "guard"
      BY <1>4, <2>1 DEF BeginDecide, Decidable, Goto, DaysToWrite
    <3> QED
      BY <2>1, <2>2, <3>1 DEF Types
  <2>5. \A v \in Workers : v # w => (JobOK(v) /\ DayOK(v) /\ BalanceOK(v))'
    BY <1>1, <1>4, <2>1, OtherSessions DEF BeginDecide, Goto
  <2> QED
    BY <2>3, <2>4, <2>5 DEF SessionsOK
<1>7. CASE \E e \in Employees, type \in PunchTypes : BeginPunch(w, e, type)
  <2>1. PICK e \in Employees, type \in PunchTypes : BeginPunch(w, e, type)
    BY <1>7
  <2>2. PICK p \in Punch : p = [type |-> type, at |-> now.at, source |-> "web"]
    BY DEF Inv, TypeOK, Moment, Punch
  <2>a. p.source = "web"
    BY <2>2
  <2>3. pc' \in [Workers -> Labels] /\ job' \in [Workers -> Job]
    BY <1>4, <2>1, <2>2 DEF BeginPunch, Goto, Labels, Job, Inv, TypeOK
  <2>4. (JobOK(w) /\ DayOK(w) /\ BalanceOK(w))'
    <3>1. /\ pc'[w] = "guard" /\ job'[w].op = "punch" /\ job'[w].emp = e
          /\ job'[w].punch = p
      BY <1>4, <2>1, <2>2 DEF BeginPunch, Goto
    <3> QED
      BY <2>2, <2>a, <3>1
  <2>5. \A v \in Workers : v # w => (JobOK(v) /\ DayOK(v) /\ BalanceOK(v))'
    BY <1>1, <1>4, <2>1, OtherSessions DEF BeginPunch, Goto
  <2> QED
    BY <2>3, <2>4, <2>5 DEF SessionsOK
<1>8. CASE \E e \in Employees, op \in Rebuilding : BeginRebuild(w, op, e)
  <2>1. PICK e \in Employees, op \in Rebuilding : BeginRebuild(w, op, e)
    BY <1>8
  <2>2. pc' \in [Workers -> Labels] /\ job' \in [Workers -> Job]
    BY <1>4, <2>1 DEF BeginRebuild, Goto, Labels, Job, NoJob, Inv, TypeOK
  <2>3. (JobOK(w) /\ DayOK(w) /\ BalanceOK(w))'
    BY <1>4, <2>1 DEF BeginRebuild, Goto, NoJob
  <2> HIDE DEF JobOK, DayOK, BalanceOK, Kind, Inserts
  <2>4. \A v \in Workers : v # w => pc'[v] = pc[v] /\ job'[v] = job[v]
    BY <1>4, <2>1 DEF BeginRebuild, Goto
  <2>5. \A v \in Workers : v # w => (JobOK(v) /\ DayOK(v) /\ BalanceOK(v))'
    BY <1>1, <2>4, OtherSessions
  <2> QED
    BY <2>2, <2>3, <2>5 DEF SessionsOK
<1>9. CASE \E e \in Employees : BeginReopen(w, e)
  <2>1. PICK e \in Employees : BeginReopen(w, e)
    BY <1>9
  <2>2. pc' \in [Workers -> Labels] /\ job' \in [Workers -> Job]
    BY <1>4, <2>1 DEF BeginReopen, Goto, Labels, Job, NoJob
  <2>3. (JobOK(w) /\ DayOK(w) /\ BalanceOK(w))'
    BY <1>4, <2>1 DEF BeginReopen, Goto, NoJob
  <2>4. \A v \in Workers : v # w => (JobOK(v) /\ DayOK(v) /\ BalanceOK(v))'
    BY <1>1, <1>4, <2>1, OtherSessions DEF BeginReopen, Goto
  <2> QED
    BY <2>2, <2>3, <2>4 DEF SessionsOK
<1> QED
  BY <1>5, <1>6, <1>7, <1>8, <1>9 DEF Begin

\* Reading and flushing: no step of a transaction before its end changes what
\* the others see, and each keeps its own session in order.
LEMMA ReadInv ==
    ASSUME Inv, NEW w \in Workers,
           \/ ReadBalance(w) \/ FlushRequest(w) \/ CheckMonthOpen(w) \/ ValidatePunch(w)
           \/ ReadPunches(w) \/ ReadDaily(w) \/ WriteDay(w)
           \/ SumMonth(w) \/ ReadClosing(w) \/ SaveClosing(w),
           now' = now
    PROVE  Inv'
<1>1. TablesTyped'
  BY DEF Inv, TypeOK, TablesTyped, tables, ReadBalance, FlushRequest, CheckMonthOpen,
         ValidatePunch, ReadPunches, ReadDaily, WriteDay, SumMonth, ReadClosing, SaveClosing
<1>2. ASSUME SessionsTyped', (JobOK(w) /\ DayOK(w) /\ BalanceOK(w))',
             \A v \in Workers : v # w =>
                 pc'[v] = pc[v] /\ job'[v] = job[v] /\ seen'[v] = seen[v]
      PROVE  Inv'
  BY <1>1, <1>2, OtherSessions DEF Inv, TypeOK, SessionsOK
<1>3. /\ pc \in [Workers -> Labels]
      /\ job \in [Workers -> Job]
      /\ seen \in [Workers -> Loaded]
      /\ buf \in [Workers -> [Days -> Row \cup {None}]]
      /\ JobOK(w) /\ DayOK(w) /\ BalanceOK(w)
  BY DEF Inv, TypeOK, SessionsTyped, SessionsOK
<1>4. CASE ReadBalance(w)
  <2>a. used[job[w].emp] \in Nat /\ Entitled[job[w].emp] \in Nat
    BY <1>3, <1>4, ConstantsAssumption
       DEF ReadBalance, JobOK, Inv, TypeOK, TablesTyped, ConstantsAssumption
  <2>b. ConsumedDays(job[w].req) \in Nat
    BY <1>3, <1>4, ConsumedDaysIsNat DEF ReadBalance, JobOK, Kind, Settling, Endpoints, Rebuilding
  <2>1. SessionsTyped'
    BY <1>3, <1>4, <2>a DEF ReadBalance, Goto, SessionsTyped, Labels, Loaded
  <2>2. (JobOK(w) /\ DayOK(w) /\ BalanceOK(w))'
    <3>1. /\ pc[w] = "balance" /\ pc'[w] = "flush" /\ job'[w] = job[w]
          /\ seen'[w].used = used[job[w].emp]
          /\ ConsumedDays(job[w].req) <= Entitled[job[w].emp] - used[job[w].emp]
      BY <1>3, <1>4 DEF ReadBalance, Goto, Loaded, Remaining
    <3>2. (JobOK(w) /\ DayOK(w))'
      BY <1>3, <3>1 DEF JobOK, DayOK, Kind, Inserts, Endpoints, Settling, Rebuilding
    <3>3. BalanceOK(w)'
      BY <3>1, <2>a, <2>b DEF BalanceOK, Kind
    <3> QED
      BY <3>2, <3>3
  <2>3. \A v \in Workers : v # w => pc'[v] = pc[v] /\ job'[v] = job[v] /\ seen'[v] = seen[v]
    BY <1>4 DEF ReadBalance, Goto, Inv, TypeOK, SessionsTyped
  <2> QED
    BY <1>1, <1>2, <2>1, <2>2, <2>3
<1>5. CASE FlushRequest(w)
  <2>1. SessionsTyped'
    BY <1>3, <1>5 DEF FlushRequest, Goto, SessionsTyped, Labels
  <2>2. (JobOK(w) /\ DayOK(w) /\ BalanceOK(w))'
    <3>1. /\ pc[w] = "flush" /\ job'[w] = job[w] /\ seen'[w] = seen[w]
          /\ \/ Kind(w) = "punch_fix" /\ pc'[w] = "punches"
             \/ Kind(w) = "leave" /\ pc'[w] = "daily"
             \/ Kind(w) \notin {"punch_fix", "leave"} /\ pc'[w] = "commit"
      BY <1>3, <1>5 DEF FlushRequest, Goto
    <3>2. job[w].op = "approve" => Payload[job[w].req].type \in Types
      BY <1>3, <3>1, ConstantsAssumption DEF JobOK, Settling, ConstantsAssumption
    <3> QED
      BY <1>3, <3>1, <3>2 DEF Types, JobOK, DayOK, BalanceOK, Kind, Inserts, Endpoints, Settling, Rebuilding
  <2>3. \A v \in Workers : v # w => pc'[v] = pc[v] /\ job'[v] = job[v] /\ seen'[v] = seen[v]
    BY <1>5 DEF FlushRequest, Goto, Inv, TypeOK, SessionsTyped
  <2> QED
    BY <1>1, <1>2, <2>1, <2>2, <2>3
<1>6. CASE CheckMonthOpen(w)
  <2>1. SessionsTyped'
    BY <1>6, <1>3 DEF CheckMonthOpen, Goto, SessionsTyped, Labels
  <2>2. (JobOK(w) /\ DayOK(w) /\ BalanceOK(w))'
    BY <1>6, <1>3 DEF CheckMonthOpen, Goto, JobOK, DayOK, BalanceOK, Kind, Inserts, Endpoints, Settling, Rebuilding
  <2>3. \A v \in Workers : v # w => pc'[v] = pc[v] /\ job'[v] = job[v] /\ seen'[v] = seen[v]
    BY <1>6 DEF CheckMonthOpen, Goto, Inv, TypeOK, SessionsTyped
  <2> QED
    BY <1>1, <1>2, <2>1, <2>2, <2>3
<1>7. CASE ValidatePunch(w)
  <2>1. SessionsTyped'
    BY <1>7, <1>3 DEF ValidatePunch, Goto, SessionsTyped, Labels
  <2>2. (JobOK(w) /\ DayOK(w) /\ BalanceOK(w))'
    BY <1>7, <1>3 DEF ValidatePunch, Goto, JobOK, DayOK, BalanceOK, Kind, Inserts, Endpoints, Settling, Rebuilding
  <2>3. \A v \in Workers : v # w => pc'[v] = pc[v] /\ job'[v] = job[v] /\ seen'[v] = seen[v]
    BY <1>7 DEF ValidatePunch, Goto, Inv, TypeOK, SessionsTyped
  <2> QED
    BY <1>1, <1>2, <2>1, <2>2, <2>3
<1>8. CASE ReadPunches(w)
  <2>a. PICK d \in job[w].todo :
          seen' = [seen EXCEPT ![w] =
                     [@ EXCEPT !.day = d, !.now = ReferenceNow(w),
                               !.punches = VisiblePunches(w, d)]]
    BY <1>8 DEF ReadPunches
  <2>b. d \in Days
    BY <1>3, <2>a DEF Job
  <2>c. pc[w] = "punches" /\ pc' = [pc EXCEPT ![w] = "daily"] /\ UNCHANGED <<job, buf>>
    BY <1>8 DEF ReadPunches, Goto
  <2>1. SessionsTyped'
    <3>a. VisiblePunches(w, d) \in Seq(Punch)
      BY <2>b, <2>c, VisibleType
    <3>b. ReferenceNow(w) \in Moment \cup {None}
      BY <1>3 DEF ReferenceNow, Job, Inv, TypeOK
    <3>1. [seen[w] EXCEPT !.day = d, !.now = ReferenceNow(w),
                          !.punches = VisiblePunches(w, d)] \in Loaded
      BY <1>3, <2>b, <3>a, <3>b DEF Loaded
    <3>2. seen' \in [Workers -> Loaded]
      BY <1>3, <2>a, <3>1
    <3> QED
      BY <1>3, <2>c, <3>2 DEF SessionsTyped, Labels
  <2>2. (JobOK(w) /\ DayOK(w) /\ BalanceOK(w))'
    <3>1. /\ pc'[w] = "daily" /\ job'[w] = job[w]
          /\ seen'[w].day \in Days /\ seen'[w].used = seen[w].used
      BY <1>3, <2>a, <2>b, <2>c DEF Loaded
    <3> QED
      BY <1>3, <2>c, <3>1 DEF JobOK, DayOK, BalanceOK, Kind, Inserts, Endpoints, Settling, Rebuilding
  <2>3. \A v \in Workers : v # w => pc'[v] = pc[v] /\ job'[v] = job[v] /\ seen'[v] = seen[v]
    BY <1>8 DEF ReadPunches, Goto, Inv, TypeOK, SessionsTyped
  <2> QED
    BY <1>1, <1>2, <2>1, <2>2, <2>3
<1>9. CASE ReadDaily(w)
  <2>a. PICK d \in IF Kind(w) = "leave" THEN FirstDay(job[w].todo) ELSE {seen[w].day} :
          seen' = [seen EXCEPT ![w] = [@ EXCEPT !.day = d, !.row = VisibleRow(w, d)]]
    BY <1>9 DEF ReadDaily
  <2>c. pc[w] = "daily" /\ pc' = [pc EXCEPT ![w] = "write"] /\ UNCHANGED <<job, buf>>
    BY <1>9 DEF ReadDaily, Goto
  <2>b. d \in Days
    BY <1>3, <2>a, <2>c DEF Job, FirstDay, DayOK
  <2>1. SessionsTyped'
    <3>1. [seen[w] EXCEPT !.day = d, !.row = VisibleRow(w, d)] \in Loaded
      BY <1>3, <2>b, <2>c, VisibleType DEF Loaded
    <3>2. seen' \in [Workers -> Loaded]
      BY <1>3, <2>a, <3>1
    <3> QED
      BY <1>3, <2>c, <3>2 DEF SessionsTyped, Labels
  <2>2. (JobOK(w) /\ DayOK(w) /\ BalanceOK(w))'
    <3>1. /\ pc'[w] = "write" /\ job'[w] = job[w]
          /\ seen'[w].day \in Days /\ seen'[w].used = seen[w].used
      BY <1>3, <2>a, <2>b, <2>c DEF Loaded
    <3> QED
      BY <1>3, <2>c, <3>1 DEF JobOK, DayOK, BalanceOK, Kind, Inserts, Endpoints, Settling, Rebuilding
  <2>3. \A v \in Workers : v # w => pc'[v] = pc[v] /\ job'[v] = job[v] /\ seen'[v] = seen[v]
    BY <1>9 DEF ReadDaily, Goto, Inv, TypeOK, SessionsTyped
  <2> QED
    BY <1>1, <1>2, <2>1, <2>2, <2>3
<1>10. CASE WriteDay(w)
  <2>a. pc[w] = "write" /\ seen' = seen /\ seen[w].day \in Days
    BY <1>3, <1>10 DEF WriteDay, DayOK
  <2>1. SessionsTyped'
    <3>1. UpdateRow(VisibleRow(w, seen[w].day), seen[w].row, NewRow(w)) \in Row
      BY <1>3, <2>a, VisibleType, NewValuesType, UpdateRowType DEF Loaded
    <3>2. buf' \in [Workers -> [Days -> Row \cup {None}]]
      BY <1>3, <1>10, <3>1 DEF WriteDay
    <3>3. job' \in [Workers -> Job]
      <4>1. job' = [job EXCEPT ![w] = [@ EXCEPT !.todo = job[w].todo \ {seen[w].day}]]
        BY <1>10 DEF WriteDay
      <4>2. ASSUME NEW j \in Job, NEW d PROVE [j EXCEPT !.todo = j.todo \ {d}] \in Job
        BY DEF Job
      <4> QED
        BY <1>3, <4>1, <4>2
    <3>4. pc' \in [Workers -> Labels]
      BY <1>3, <1>10 DEF WriteDay, Goto, Labels
    <3> QED
      BY <1>3, <2>a, <3>2, <3>3, <3>4 DEF SessionsTyped
  <2>2. (JobOK(w) /\ DayOK(w) /\ BalanceOK(w))'
    <3>1. /\ job'[w].op = job[w].op /\ job'[w].emp = job[w].emp /\ job'[w].by = job[w].by
          /\ job'[w].req = job[w].req /\ job'[w].punch = job[w].punch
      BY <1>3, <1>10 DEF WriteDay, Job
    <3>2. \/ Kind(w) = "leave" /\ pc'[w] = "daily"
          \/ Kind(w) # "leave" /\ pc'[w] = "punches"
          \/ job[w].op \in Rebuilding /\ pc'[w] = "sum"
          \/ job[w].op \notin Rebuilding /\ pc'[w] = "commit"
      BY <1>3, <1>10 DEF WriteDay, Goto
    <3> QED
      BY <1>3, <2>a, <3>1, <3>2
      DEF JobOK, DayOK, BalanceOK, Kind, Inserts, Endpoints, Settling, Rebuilding
  <2>3. \A v \in Workers : v # w => pc'[v] = pc[v] /\ job'[v] = job[v] /\ seen'[v] = seen[v]
    BY <1>10 DEF WriteDay, Goto, Inv, TypeOK, SessionsTyped
  <2> QED
    BY <1>1, <1>2, <2>1, <2>2, <2>3
<1>11. CASE SumMonth(w)
  <2>1. SessionsTyped'
    <3>1. [d \in Days |-> VisibleRow(w, d).worked] \in [Days -> Nat]
      BY <1>11, VisibleType DEF SumMonth, Row
    <3>2. seen' \in [Workers -> Loaded]
      BY <1>3, <1>11, <3>1 DEF SumMonth, Loaded
    <3> QED
      BY <1>3, <1>11, <3>2 DEF SumMonth, Goto, SessionsTyped, Labels
  <2>2. (JobOK(w) /\ DayOK(w) /\ BalanceOK(w))'
    <3>1. pc[w] = "sum" /\ pc'[w] = "closing" /\ job'[w] = job[w]
      BY <1>3, <1>11 DEF SumMonth, Goto
    <3> QED
      BY <1>3, <3>1 DEF JobOK, DayOK, BalanceOK, Kind, Inserts, Endpoints, Settling, Rebuilding
  <2>3. \A v \in Workers : v # w => pc'[v] = pc[v] /\ job'[v] = job[v] /\ seen'[v] = seen[v]
    BY <1>11 DEF SumMonth, Goto, Inv, TypeOK, SessionsTyped
  <2> QED
    BY <1>1, <1>2, <2>1, <2>2, <2>3
<1>12. CASE ReadClosing(w)
  <2>1. SessionsTyped'
    <3>1. closings[job[w].emp] \in Closing
      BY <1>3, <1>12 DEF ReadClosing, JobOK, Inv, TypeOK, TablesTyped
    <3>2. seen' \in [Workers -> Loaded]
      BY <1>3, <1>12, <3>1 DEF ReadClosing, Loaded
    <3> QED
      BY <1>3, <1>12, <3>2 DEF ReadClosing, Goto, SessionsTyped, Labels
  <2>2. (JobOK(w) /\ DayOK(w) /\ BalanceOK(w))'
    BY <1>12, <1>3 DEF ReadClosing, Goto, JobOK, DayOK, BalanceOK, Kind, Inserts, Endpoints, Settling, Rebuilding, Loaded, Job
  <2>3. \A v \in Workers : v # w => pc'[v] = pc[v] /\ job'[v] = job[v] /\ seen'[v] = seen[v]
    BY <1>12 DEF ReadClosing, Goto, Inv, TypeOK, SessionsTyped
  <2> QED
    BY <1>1, <1>2, <2>1, <2>2, <2>3
<1>13. CASE SaveClosing(w)
  <2>1. SessionsTyped'
    BY <1>13, <1>3 DEF SaveClosing, Goto, SessionsTyped, Labels
  <2>2. (JobOK(w) /\ DayOK(w) /\ BalanceOK(w))'
    BY <1>13, <1>3 DEF SaveClosing, Goto, JobOK, DayOK, BalanceOK, Kind, Inserts, Endpoints, Settling, Rebuilding
  <2>3. \A v \in Workers : v # w => pc'[v] = pc[v] /\ job'[v] = job[v] /\ seen'[v] = seen[v]
    BY <1>13 DEF SaveClosing, Goto, Inv, TypeOK, SessionsTyped
  <2> QED
    BY <1>1, <1>2, <2>1, <2>2, <2>3
<1> QED
  BY <1>4, <1>5, <1>6, <1>7, <1>8, <1>9, <1>10, <1>11, <1>12, <1>13

\* What a commit makes visible has the type of its tables.
LEMMA CommittedType ==
    ASSUME Inv, NEW w \in Workers, pc[w] = "commit"
    PROVE  /\ CommittedUsed(w) \in [Employees -> Nat]
           /\ CommittedPunch(w) \in [Employees -> [Days -> Seq(Punch)]]
           /\ CommittedDays(w) \in [Employees -> [Days -> Row]]
<1>1. /\ JobOK(w) /\ DayOK(w)
      /\ job[w].emp \in Employees /\ job[w].op \in Endpoints
      /\ seen[w] \in Loaded
      /\ TablesTyped
  BY DEF Inv, TypeOK, SessionsTyped, SessionsOK, JobOK
<1>2. CommittedUsed(w) \in [Employees -> Nat]
  <2>1. CASE Kind(w) = "leave"
    <3>1. ConsumedDays(job[w].req) \in Nat
      BY <1>1, <2>1, ConsumedDaysIsNat DEF JobOK, Kind, Settling, Endpoints, Rebuilding
    <3>2. seen[w].used + ConsumedDays(job[w].req) \in Nat
      BY <1>1, <3>1 DEF Loaded
    <3> QED
      BY <1>1, <2>1, <3>2 DEF CommittedUsed, TablesTyped
  <2>2. CASE Kind(w) # "leave"
    BY <1>1, <2>2 DEF CommittedUsed, TablesTyped
  <2> QED
    BY <2>1, <2>2
<1>3. CommittedPunch(w) \in [Employees -> [Days -> Seq(Punch)]]
  <2>1. CASE Inserts(w)
    <3>1. job[w].punch \in Punch
      BY <1>1, <2>1, ConstantsAssumption
         DEF JobOK, Inserts, Kind, ConstantsAssumption, Endpoints, Settling, Rebuilding
    <3>2. seen[w].day \in Days
      BY <1>1, <2>1 DEF DayOK
    <3>3. Append(punches[job[w].emp][seen[w].day], job[w].punch) \in Seq(Punch)
      BY <1>1, <3>1, <3>2 DEF TablesTyped
    <3> QED
      BY <1>1, <2>1, <3>3 DEF CommittedPunch, TablesTyped
  <2>2. CASE ~Inserts(w)
    BY <1>1, <2>2 DEF CommittedPunch, TablesTyped
  <2> QED
    BY <2>1, <2>2
<1>4. CommittedDays(w) \in [Employees -> [Days -> Row]]
  <2>1. [d \in Days |-> VisibleRow(w, d)] \in [Days -> Row]
    BY VisibleType
  <2> QED
    BY <1>1, <2>1 DEF CommittedDays, TablesTyped
<1> QED
  BY <1>2, <1>3, <1>4

\* The end of a transaction: its writes become visible, and its session is closed.
LEMMA CommitInv ==
    ASSUME Inv, NEW w \in Workers,
           CommitRequest(w) \/ CommitPunch(w) \/ CommitClosing(w),
           now' = now
    PROVE  Inv'
<1>1. pc[w] = "commit" /\ Release(w)
  BY DEF CommitRequest, CommitPunch, CommitClosing
<1>2. SessionsTyped' /\ SessionsOK'
  BY <1>1, ReleaseInv
<1>3. TablesTyped /\ JobOK(w) /\ seen[w] \in Loaded
  BY DEF Inv, TypeOK, SessionsTyped, SessionsOK
<1>4. TablesTyped'
  <2>1. CASE CommitRequest(w)
    <3>1. job[w].op \in Settling /\ job[w].req \in Reqs /\ job[w].by \in Employees \cup Approvers
      BY <1>3, <2>1, ConstantsAssumption
         DEF CommitRequest, JobOK, Settling, ConstantsAssumption
    <3>2. status' \in [Reqs -> {"none", "pending", "approved", "rejected", "canceled"}]
      BY <1>3, <2>1 DEF CommitRequest, NewStatus, Decision, TablesTyped
    <3>3. approvals' \in [Reqs -> [decision: {"pending", "approved", "rejected"},
                                   approver: Approvers \cup {None}]]
      BY <1>3, <2>1, <3>1 DEF CommitRequest, Decision, TablesTyped, JobOK, Settling
    <3>4. auditLogs' \in [Reqs -> Seq(Entry)]
      <4> DEFINE entry == [action |-> IF job[w].op = "cancel" THEN "canceled"
                                      ELSE Decision(job[w].op),
                           actor |-> job[w].by]
      <4>1. entry \in Entry
        BY <3>1 DEF Entry, Decision
      <4>2. auditLogs' = [auditLogs EXCEPT ![job[w].req] = Append(@, entry)]
        BY <2>1 DEF CommitRequest
      <4>3. Append(auditLogs[job[w].req], entry) \in Seq(Entry)
        BY <1>3, <3>1, <4>1 DEF TablesTyped
      <4> QED
        BY <1>3, <4>2, <4>3 DEF TablesTyped
    <3>5. /\ used' = CommittedUsed(w) /\ punches' = CommittedPunch(w)
          /\ daily' = CommittedDays(w) /\ closings' = closings
      BY <2>1 DEF CommitRequest
    <3> QED
      BY <1>1, <1>3, <3>2, <3>3, <3>4, <3>5, CommittedType DEF TablesTyped
  <2>2. CASE CommitPunch(w)
    BY <1>1, <1>3, <2>2, CommittedType DEF CommitPunch, TablesTyped
  <2>3. CASE CommitClosing(w)
    <3>1. UpdateClosing(closings[job[w].emp], seen[w].closing, NewClosing(w)) \in Closing
      BY <1>1, <1>3, NewValuesType, UpdateClosingType
         DEF TablesTyped, Loaded, JobOK
    <3>2. closings' \in [Employees -> Closing]
      BY <1>3, <2>3, <3>1 DEF CommitClosing, TablesTyped
    <3> QED
      BY <1>1, <1>3, <2>3, <3>2, CommittedType DEF CommitClosing, TablesTyped
  <2> QED
    BY <2>1, <2>2, <2>3
<1> QED
  BY <1>2, <1>4 DEF Inv, TypeOK

\* A transaction that is rolled back leaves the tables alone.
LEMMA RollbackInv ==
    ASSUME Inv, NEW w \in Workers,
           Refuse(w) \/ UniqueViolation(w) \/ DeadlockVictim(w) \/ Fail(w),
           now' = now
    PROVE  Inv'
<1>1. Release(w) /\ UNCHANGED tables
  BY DEF Refuse, UniqueViolation, DeadlockVictim, Fail
<1>2. TablesTyped'
  BY <1>1 DEF Inv, TypeOK, TablesTyped, tables
<1> QED
  BY <1>1, <1>2, ReleaseInv DEF Inv, TypeOK

\* Every step preserves the invariant.
LEMMA NextInv == Inv /\ [Next]_vars => Inv'
<1> SUFFICES ASSUME Inv, [Next]_vars PROVE Inv'
  OBVIOUS
<1>1. CASE (\E r \in Reqs : CreateRequest(r)) /\ now' = now
  <2>1. PICK r \in Reqs : CreateRequest(r) /\ now' = now
    BY <1>1
  <2>2. TablesTyped'
    BY <2>1 DEF CreateRequest, Inv, TypeOK, TablesTyped
  <2>3. UNCHANGED <<pc, job, seen, buf>>
    BY <2>1 DEF CreateRequest, session
  <2> QED
    BY <2>1, <2>2, <2>3
    DEF Inv, TypeOK, SessionsTyped, SessionsOK, JobOK, DayOK, BalanceOK, Kind, Inserts
<1>2. CASE (\E w \in Workers : Begin(w) \/ Serve(w) \/ Fail(w)) /\ now' = now
  BY <1>2, BeginInv, ReadInv, CommitInv, RollbackInv DEF Serve
<1>3. CASE UNCHANGED vars
  BY <1>3 DEF vars, Inv, TypeOK, TablesTyped, SessionsTyped, SessionsOK, JobOK, DayOK,
              BalanceOK, Kind, Inserts
<1>4. CASE Tick
  <2>1. now' \in Moment
    BY <1>4, ConstantsAssumption DEF Tick, Inv, TypeOK, Moment, ConstantsAssumption
  <2>2. UNCHANGED <<tables, session>>
    BY <1>4 DEF Tick
  <2> QED
    BY <2>1, <2>2 DEF tables, session, Inv, TypeOK, TablesTyped, SessionsTyped, SessionsOK,
                      JobOK, DayOK, BalanceOK, Kind, Inserts
<1> QED
  BY <1>1, <1>2, <1>3, <1>4 DEF Next

\* The tables and the sessions hold values of their types, and the sessions
\* agree with what was checked for them, in every reachable state.
THEOREM Invariance == Spec => []Inv
<1> QED
  BY InitInv, NextInv, PTL DEF Spec

\* Type correctness, for any number of workers, employees, requests and days.
THEOREM TypeCorrect == Spec => []TypeOK
<1>1. Inv => TypeOK
  BY DEF Inv
<1> QED
  BY <1>1, Invariance, PTL

-----------------------------------------------------------------------------
(* Steps as one worker and as the tables see them. *)

\* The step belongs to another worker, or to none.
Same(w) ==
    pc'[w] = pc[w] /\ job'[w] = job[w] /\ seen'[w] = seen[w] /\ buf'[w] = buf[w]

\* The worker's transaction ends.
Ended(w) ==
    pc'[w] = "idle" /\ job'[w] = NoJob /\ seen'[w] = NothingSeen /\ buf'[w] = NoRows

\* The steps within a transaction, which write no table.
Works(w) ==
    \/ ReadBalance(w) \/ FlushRequest(w) \/ CheckMonthOpen(w) \/ ValidatePunch(w)
    \/ ReadPunches(w) \/ ReadDaily(w) \/ WriteDay(w)
    \/ SumMonth(w) \/ ReadClosing(w) \/ SaveClosing(w)

\* The steps that write a table.
Commits(w) == CommitRequest(w) \/ CommitPunch(w) \/ CommitClosing(w)

\* A worker starts, works on, ends, or is left alone.
LEMMA SessionSteps ==
    ASSUME Inv, [Next]_vars, NEW w \in Workers
    PROVE  \/ Same(w)
           \/ Begin(w) /\ UNCHANGED tables
           \/ Works(w) /\ UNCHANGED tables
           \/ Ended(w)
<1>1. /\ pc \in [Workers -> Labels] /\ job \in [Workers -> Job]
      /\ seen \in [Workers -> Loaded] /\ buf \in [Workers -> [Days -> Row \cup {None}]]
  BY DEF Inv, TypeOK, SessionsTyped
<1>2. CASE UNCHANGED session
  BY <1>2 DEF session, Same
<1>3. ASSUME NEW v \in Workers, Release(v) PROVE Same(w) \/ Ended(w)
  BY <1>1, <1>3 DEF Release, Same, Ended
<1>4. ASSUME NEW v \in Workers, Begin(v)
      PROVE  Same(w) \/ (Begin(w) /\ UNCHANGED tables)
  <2>1. UNCHANGED tables
    BY <1>4 DEF Begin, BeginCancel, BeginDecide, BeginPunch, BeginRebuild, BeginReopen
  <2>2. v # w => Same(w)
    BY <1>1, <1>4 DEF Begin, BeginCancel, BeginDecide, BeginPunch, BeginRebuild,
                      BeginReopen, Goto, Same
  <2> QED
    BY <1>4, <2>1, <2>2
<1>5. ASSUME NEW v \in Workers, Works(v)
      PROVE  Same(w) \/ (Works(w) /\ UNCHANGED tables)
  <2>1. UNCHANGED tables
    BY <1>5 DEF Works, ReadBalance, FlushRequest, CheckMonthOpen, ValidatePunch,
                ReadPunches, ReadDaily, WriteDay, SumMonth, ReadClosing, SaveClosing
  <2>2. v # w => Same(w)
    BY <1>1, <1>5 DEF Works, ReadBalance, FlushRequest, CheckMonthOpen, ValidatePunch,
                      ReadPunches, ReadDaily, WriteDay, SumMonth, ReadClosing,
                      SaveClosing, Goto, Same
  <2> QED
    BY <1>5, <2>1, <2>2
<1>6. CASE \E v \in Workers : Serve(v) \/ Fail(v)
  <2>1. PICK v \in Workers : Serve(v) \/ Fail(v)
    BY <1>6
  <2>2. Works(v) \/ Release(v)
    BY <2>1 DEF Serve, Fail, Works, CommitRequest, CommitPunch, CommitClosing, Refuse,
                UniqueViolation, DeadlockVictim
  <2> QED
    BY <1>3, <1>5, <2>2
<1>7. CASE \E r \in Reqs : CreateRequest(r)
  BY <1>2, <1>7 DEF CreateRequest
<1>8. CASE Tick \/ UNCHANGED vars
  BY <1>2, <1>8 DEF Tick, vars, session
<1> QED
  BY <1>4, <1>6, <1>7, <1>8 DEF Next

\* What a worker may start with.
LEMMA BeginFacts ==
    ASSUME Inv, NEW w \in Workers, Begin(w)
    PROVE  /\ pc[w] = "idle" /\ UNCHANGED <<tables, seen, buf>>
           /\ pc'[w] \in {"flush", "balance", "guard", "punches", "sum", "closing"}
           /\ pc'[w] = "flush" => Kind(w)' # "leave"
           /\ pc'[w] \in {"punches", "sum"} => job'[w].op \in Rebuilding
           /\ pc'[w] = "closing" => job'[w].op = "reopen"
           /\ Inserts(w)' => pc'[w] = "guard"
           /\ Kind(w)' = "leave" => job'[w].todo = Payload[job'[w].req].days
           /\ job'[w].op \in Rebuilding =>
                 \A d \in job'[w].todo : punches[job'[w].emp][d] # <<>>
           /\ job'[w].op \in {"punch"} \cup Rebuilding => job'[w].now = now
<1>1. job \in [Workers -> Job] /\ pc \in [Workers -> Labels]
  BY DEF Inv, TypeOK, SessionsTyped
<1>2. pc[w] = "idle" /\ UNCHANGED <<tables, seen, buf>>
  BY DEF Begin, BeginCancel, BeginDecide, BeginPunch, BeginRebuild, BeginReopen
<1>3. CASE \E r \in Reqs, a \in Approvers, op \in {"approve", "reject"} :
             BeginDecide(w, op, a, r)
  <2>1. PICK r \in Reqs, a \in Approvers, op \in {"approve", "reject"} :
               BeginDecide(w, op, a, r)
    BY <1>3
  <2>2. /\ job'[w].op = op /\ job'[w].req = r
        /\ job'[w].todo = IF op = "approve" THEN Payload[r].days ELSE {}
    BY <1>1, <2>1 DEF BeginDecide, DaysToWrite
  <2>3. pc'[w] = IF op = "reject" \/ Payload[r].type = "overtime" THEN "flush"
                 ELSE IF Payload[r].type = "leave" THEN "balance" ELSE "guard"
    BY <1>1, <2>1 DEF BeginDecide, Goto
  <2>4. Payload[r].type \in Types
    BY ConstantsAssumption DEF ConstantsAssumption
  <2> QED
    BY <1>2, <2>1, <2>2, <2>3, <2>4 DEF Kind, Inserts, Types, Rebuilding
<1>4. CASE \E e \in Employees, type \in PunchTypes : BeginPunch(w, e, type)
  <2>1. pc'[w] = "guard" /\ job'[w].op = "punch" /\ job'[w].now = now
    BY <1>1, <1>4 DEF BeginPunch, Goto
  <2> QED
    BY <1>2, <2>1 DEF Kind, Inserts, Rebuilding
<1>5. CASE \E e \in Employees, op \in Rebuilding : BeginRebuild(w, op, e)
  <2>1. PICK e \in Employees, op \in Rebuilding : BeginRebuild(w, op, e)
    BY <1>5
  <2>2. /\ job'[w].op = op /\ job'[w].emp = e
        /\ job'[w].todo = {d \in Days : punches[e][d] # <<>>}
        /\ pc'[w] \in {"sum", "punches"} /\ job'[w].now = now
    BY <1>1, <2>1 DEF BeginRebuild, Goto, NoJob
  <2> QED
    BY <1>2, <2>2 DEF Kind, Inserts, Rebuilding
<1>6. CASE \/ \E r \in Reqs : BeginCancel(w, r)
           \/ \E e \in Employees : BeginReopen(w, e)
  <2>1. \/ job'[w].op = "cancel" /\ pc'[w] = "flush"
        \/ job'[w].op = "reopen" /\ pc'[w] = "closing"
    BY <1>1, <1>6 DEF BeginCancel, BeginReopen, Goto, NoJob
  <2> QED
    BY <1>2, <2>1 DEF Kind, Inserts, Rebuilding
<1> QED
  BY <1>3, <1>4, <1>5, <1>6 DEF Begin

\* Within a transaction, a worker keeps its job, up to the days that are left.
LEMMA WorksFacts ==
    ASSUME Inv, NEW w \in Workers, Works(w)
    PROVE  /\ job[w].emp \in Employees /\ job[w].op \in Endpoints
           /\ job'[w].op = job[w].op /\ job'[w].req = job[w].req
           /\ job'[w].emp = job[w].emp /\ job'[w].punch = job[w].punch
           /\ job'[w].todo \subseteq job[w].todo /\ job'[w].now = job[w].now
           /\ Kind(w)' = Kind(w) /\ Inserts(w)' = Inserts(w)
           /\ ~WriteDay(w) => job' = job /\ buf' = buf
           /\ UNCHANGED tables
<1>1. job \in [Workers -> Job] /\ pc[w] # "idle"
  BY DEF Inv, TypeOK, SessionsTyped, Works, ReadBalance, FlushRequest, CheckMonthOpen,
         ValidatePunch, ReadPunches, ReadDaily, WriteDay, SumMonth, ReadClosing, SaveClosing
<1>2. job[w].emp \in Employees /\ job[w].op \in Endpoints
  BY <1>1 DEF Inv, SessionsOK, JobOK
<1>3. UNCHANGED tables /\ (~WriteDay(w) => job' = job /\ buf' = buf)
  BY DEF Works, ReadBalance, FlushRequest, CheckMonthOpen, ValidatePunch, ReadPunches,
         ReadDaily, WriteDay, SumMonth, ReadClosing, SaveClosing
<1>4. job'[w] = job[w] \/ job'[w] = [job[w] EXCEPT !.todo = @ \ {seen[w].day}]
  BY <1>1, <1>3 DEF WriteDay
<1>5. /\ job'[w].op = job[w].op /\ job'[w].req = job[w].req
      /\ job'[w].emp = job[w].emp /\ job'[w].punch = job[w].punch
      /\ job'[w].todo \subseteq job[w].todo /\ job'[w].now = job[w].now
  BY <1>1, <1>4 DEF Job
<1> QED
  BY <1>2, <1>3, <1>5 DEF Kind, Inserts

\* A leave that is past its check of the balance keeps what it has read of it.
LEMMA LeaveStages ==
    ASSUME Inv, NEW w \in Workers, Works(w), ~ReadBalance(w), Kind(w) = "leave",
           pc'[w] \in {"flush", "daily", "write", "commit"}
    PROVE  /\ pc[w] \in {"flush", "daily", "write", "commit"}
           /\ seen'[w].used = seen[w].used
<1>1. pc \in [Workers -> Labels] /\ seen \in [Workers -> Loaded] /\ JobOK(w)
  BY DEF Inv, TypeOK, SessionsTyped, SessionsOK
<1>2. seen'[w].used = seen[w].used
  BY <1>1 DEF Works, FlushRequest, CheckMonthOpen, ValidatePunch, ReadPunches, ReadDaily,
              WriteDay, SumMonth, ReadClosing, SaveClosing, Loaded
<1>3. pc[w] \in {"flush", "daily", "write", "commit"}
  BY <1>1 DEF Works, FlushRequest, CheckMonthOpen, ValidatePunch, ReadPunches, ReadDaily,
              WriteDay, SumMonth, ReadClosing, SaveClosing, Goto, JobOK, Kind, Inserts,
              Rebuilding
<1> QED
  BY <1>2, <1>3

\* The tables change when a request is submitted or a transaction commits.
LEMMA TableSteps ==
    ASSUME [Next]_vars
    PROVE  \/ \E r \in Reqs : CreateRequest(r)
           \/ \E w \in Workers : Commits(w)
           \/ UNCHANGED tables
<1>1. CASE \E w \in Workers : Begin(w)
  BY <1>1 DEF Begin, BeginCancel, BeginDecide, BeginPunch, BeginRebuild, BeginReopen
<1>2. CASE \E w \in Workers : Serve(w) \/ Fail(w)
  BY <1>2 DEF Serve, Fail, Commits, ReadBalance, FlushRequest, CheckMonthOpen,
              ValidatePunch, ReadPunches, ReadDaily, WriteDay, SumMonth, ReadClosing,
              SaveClosing, Refuse, UniqueViolation, DeadlockVictim
<1>3. CASE Tick \/ UNCHANGED vars
  BY <1>3 DEF Tick, vars, tables
<1> QED
  BY <1>1, <1>2, <1>3 DEF Next

\* What a commit does to the punches, the days and the worker's session.
LEMMA CommitSteps ==
    ASSUME Inv, NEW w \in Workers, Commits(w)
    PROVE  /\ pc[w] = "commit" /\ job[w].emp \in Employees /\ job[w].op \in Endpoints
           /\ daily' = CommittedDays(w)
           /\ punches' = CommittedPunch(w)
           /\ Ended(w)
<1>1. pc[w] = "commit" /\ Release(w) /\ daily' = CommittedDays(w)
  BY DEF Commits, CommitRequest, CommitPunch, CommitClosing
<1>2. job[w].emp \in Employees /\ job[w].op \in Endpoints
  BY <1>1 DEF Inv, SessionsOK, JobOK
<1>3. punches' = CommittedPunch(w)
  BY DEF Commits, CommitRequest, CommitPunch, CommitClosing, CommittedPunch, Inserts, Kind,
         Rebuilding
<1>4. Ended(w)
  BY <1>1 DEF Release, Ended, Inv, TypeOK, SessionsTyped
<1> QED
  BY <1>1, <1>2, <1>3, <1>4

\* What the approval of a punch fix, or record_punch, inserts is a punch.
LEMMA InsertedPunch ==
    ASSUME Inv, NEW w \in Workers, pc[w] # "idle", Inserts(w)
    PROVE  job[w].punch \in Punch
BY ConstantsAssumption
   DEF Inv, SessionsOK, JobOK, Inserts, Kind, ConstantsAssumption, Endpoints, Settling,
       Rebuilding

\* A commit appends the punch that was inserted, and replaces the rows of the
\* employee by those that the session sees.
LEMMA CommittedDay ==
    ASSUME Inv, NEW w \in Workers, Commits(w), NEW e \in Employees, NEW d \in Days
    PROVE  /\ daily'[e][d] = IF e = job[w].emp THEN VisibleRow(w, d) ELSE daily[e][d]
           /\ punches'[e][d] =
                IF Inserts(w) /\ e = job[w].emp /\ d = seen[w].day
                THEN Append(punches[e][d], job[w].punch) ELSE punches[e][d]
<1>1. /\ pc[w] = "commit" /\ job[w].emp \in Employees
      /\ daily' = CommittedDays(w) /\ punches' = CommittedPunch(w)
  BY CommitSteps
<1>2. /\ daily \in [Employees -> [Days -> Row]]
      /\ punches \in [Employees -> [Days -> Seq(Punch)]]
  BY DEF Inv, TypeOK, TablesTyped
<1>3. daily'[e][d] = IF e = job[w].emp THEN VisibleRow(w, d) ELSE daily[e][d]
  BY <1>1, <1>2 DEF CommittedDays
<1>4. Inserts(w) => seen[w].day \in Days
  BY <1>1 DEF Inv, SessionsOK, DayOK
<1>5. CASE Inserts(w)
  BY <1>1, <1>2, <1>3, <1>4, <1>5 DEF CommittedPunch
<1>6. CASE ~Inserts(w)
  BY <1>1, <1>3, <1>6 DEF CommittedPunch
<1> QED
  BY <1>5, <1>6

\* Nothing is removed from the punches of a day, nor inserted before the last one.
LEMMA PunchesGrow ==
    ASSUME Inv, [Next]_vars, NEW e \in Employees, NEW d \in Days
    PROVE  \/ punches'[e][d] = punches[e][d]
           \/ \E q \in Punch : punches'[e][d] = Append(punches[e][d], q)
<1>1. CASE \E w \in Workers : Commits(w)
  <2>1. PICK w \in Workers : Commits(w)
    BY <1>1
  <2>2. pc[w] # "idle"
    BY <2>1, CommitSteps
  <2> QED
    BY <2>1, <2>2, CommittedDay, InsertedPunch
<1>2. CASE \E r \in Reqs : CreateRequest(r)
  BY <1>2 DEF CreateRequest
<1>3. CASE UNCHANGED tables
  BY <1>3 DEF tables
<1> QED
  BY <1>1, <1>2, <1>3, TableSteps

-----------------------------------------------------------------------------
(* Safety of the settlement of requests. *)

\* Only a submission and the commit of a settlement change what is on record
\* about a request.
LEMMA RequestSteps ==
    ASSUME [Next]_vars
    PROVE  \/ \E r \in Reqs : CreateRequest(r)
           \/ \E w \in Workers : CommitRequest(w)
           \/ UNCHANGED <<status, approvals, used, auditLogs>>
<1>1. CASE \E w \in Workers : Begin(w)
  <2>1. PICK w \in Workers : Begin(w)
    BY <1>1
  <2>2. UNCHANGED tables
    BY <2>1 DEF Begin, BeginCancel, BeginDecide, BeginPunch, BeginRebuild, BeginReopen
  <2> QED
    BY <2>2 DEF tables
<1>2. CASE \E w \in Workers : Serve(w) \/ Fail(w)
  BY <1>2 DEF Serve, Fail, ReadBalance, FlushRequest, CheckMonthOpen, ValidatePunch,
              CommitPunch, ReadPunches, ReadDaily, WriteDay, SumMonth, ReadClosing,
              SaveClosing, CommitClosing, Refuse, UniqueViolation, DeadlockVictim, tables
<1>3. CASE Tick \/ UNCHANGED vars
  BY <1>3 DEF Tick, vars, tables
<1> QED
  BY <1>1, <1>2, <1>3 DEF Next

\* What the commit of a settlement puts on record.
LEMMA Settlements ==
    ASSUME Inv, NEW w \in Workers, CommitRequest(w)
    PROVE  LET r == job[w].req
               op == job[w].op
           IN  /\ r \in Reqs /\ op \in Settling
               /\ JobOK(w) /\ BalanceOK(w)
               /\ status' = [status EXCEPT ![r] = NewStatus(op)]
               /\ op = "cancel" => approvals' = approvals
               /\ op # "cancel" =>
                     approvals' = [approvals EXCEPT ![r] = [decision |-> Decision(op),
                                                            approver |-> job[w].by]]
               /\ auditLogs' = [auditLogs EXCEPT ![r] = Append(@,
                     [action |-> IF op = "cancel" THEN "canceled" ELSE Decision(op),
                      actor  |-> job[w].by])]
               /\ used' = CommittedUsed(w)
BY DEF CommitRequest, Inv, SessionsOK, JobOK

\* The enums of status and decision agree with each other, as the handlers of
\* requests write them: see StatusMatchesDecision.
THEOREM StatusAgrees == Spec => []StatusMatchesDecision
<1>1. Init => StatusMatchesDecision
  BY DEF Init, StatusMatchesDecision
<1>2. Inv /\ StatusMatchesDecision /\ [Next]_vars => StatusMatchesDecision'
  <2> SUFFICES ASSUME Inv, StatusMatchesDecision, [Next]_vars
               PROVE  StatusMatchesDecision'
    OBVIOUS
  <2>1. /\ status \in [Reqs -> {"none", "pending", "approved", "rejected", "canceled"}]
        /\ approvals \in [Reqs -> [decision: {"pending", "approved", "rejected"},
                                   approver: Approvers \cup {None}]]
    BY DEF Inv, TypeOK, TablesTyped
  <2>2. CASE \E r \in Reqs : CreateRequest(r)
    BY <2>1, <2>2 DEF CreateRequest, StatusMatchesDecision
  <2>3. CASE \E w \in Workers : CommitRequest(w)
    <3>1. PICK w \in Workers : CommitRequest(w)
      BY <2>3
    <3> DEFINE r == job[w].req
               op == job[w].op
    <3>2. /\ r \in Reqs /\ op \in Settling
          /\ status' = [status EXCEPT ![r] = NewStatus(op)]
          /\ op = "cancel" => approvals' = approvals
          /\ op # "cancel" =>
                approvals' = [approvals EXCEPT ![r] = [decision |-> Decision(op),
                                                       approver |-> job[w].by]]
      BY <3>1, Settlements
    <3> HIDE DEF r, op
    <3>3. CASE op = "cancel"
      BY <2>1, <3>2, <3>3 DEF StatusMatchesDecision, NewStatus
    <3>4. CASE op # "cancel"
      <4>1. NewStatus(op) = Decision(op) /\ Decision(op) \in {"approved", "rejected"}
        BY <3>2, <3>4 DEF NewStatus, Decision
      <4>2. status'[r] = Decision(op) /\ approvals'[r].decision = Decision(op)
        BY <2>1, <3>2, <3>4, <4>1
      <4>3. \A q \in Reqs : q # r => status'[q] = status[q] /\ approvals'[q] = approvals[q]
        BY <2>1, <3>2, <3>4
      <4> QED
        BY <4>1, <4>2, <4>3 DEF StatusMatchesDecision
    <3> QED
      BY <3>3, <3>4
  <2>4. CASE UNCHANGED <<status, approvals, used, auditLogs>>
    BY <2>4 DEF StatusMatchesDecision
  <2> QED
    BY <2>2, <2>3, <2>4, RequestSteps
<1> QED
  BY <1>1, <1>2, Invariance, PTL DEF Spec

\* Separation of duties, for any number of concurrent approvers.
THEOREM NobodyDecidesAlone == Spec => []NoSelfDecision
<1>1. Init => NoSelfDecision
  BY ConstantsAssumption DEF Init, NoSelfDecision, ConstantsAssumption
<1>2. Inv /\ NoSelfDecision /\ [Next]_vars => NoSelfDecision'
  <2> SUFFICES ASSUME Inv, NoSelfDecision, [Next]_vars
               PROVE  NoSelfDecision'
    OBVIOUS
  <2>1. /\ approvals \in [Reqs -> [decision: {"pending", "approved", "rejected"},
                                   approver: Approvers \cup {None}]]
        /\ auditLogs \in [Reqs -> Seq(Entry)]
    BY DEF Inv, TypeOK, TablesTyped
  <2>2. CASE \E r \in Reqs : CreateRequest(r)
    <3>1. \A r \in Reqs : Owner[r] # None
      BY ConstantsAssumption DEF ConstantsAssumption
    <3> QED
      BY <2>1, <2>2, <3>1 DEF CreateRequest, NoSelfDecision
  <2>3. CASE \E w \in Workers : CommitRequest(w)
    <3>1. PICK w \in Workers : CommitRequest(w)
      BY <2>3
    <3> DEFINE r == job[w].req
               op == job[w].op
               entry == [action |-> IF op = "cancel" THEN "canceled" ELSE Decision(op),
                         actor |-> job[w].by]
    <3>2. /\ r \in Reqs /\ op \in Settling /\ JobOK(w)
          /\ auditLogs' = [auditLogs EXCEPT ![r] = Append(@, entry)]
          /\ op = "cancel" => approvals' = approvals
          /\ op # "cancel" =>
                approvals' = [approvals EXCEPT ![r] = [decision |-> Decision(op),
                                                       approver |-> job[w].by]]
      BY <3>1, Settlements
    <3>3. IF entry.action = "canceled" THEN entry.actor = Owner[r]
          ELSE entry.actor \in Approvers \ {Owner[r]}
      BY <3>2 DEF JobOK, Settling, Decision
    <3>4. \A q \in Reqs : approvals'[q].approver # Owner[q]
      <4>1. CASE op = "cancel"
        BY <3>2, <4>1 DEF NoSelfDecision
      <4>2. CASE op # "cancel"
        <5>1. job[w].by # Owner[r]
          BY <3>2, <4>2 DEF JobOK, Settling
        <5>2. approvals'[r].approver = job[w].by
          BY <2>1, <3>2, <4>2
        <5>3. \A q \in Reqs : q # r => approvals'[q] = approvals[q]
          BY <2>1, <3>2, <4>2
        <5> QED
          BY <5>1, <5>2, <5>3 DEF NoSelfDecision
      <4> QED
        BY <4>1, <4>2
    <3>5. ASSUME NEW q \in Reqs, NEW i \in DOMAIN auditLogs'[q]
          PROVE  IF auditLogs'[q][i].action = "canceled"
                 THEN auditLogs'[q][i].actor = Owner[q]
                 ELSE auditLogs'[q][i].actor \in Approvers \ {Owner[q]}
      <4>1. CASE q = r /\ i = Len(auditLogs[r]) + 1
        <5>1. auditLogs'[q][i] = entry
          BY <2>1, <3>2, <4>1
        <5> QED
          BY <3>3, <4>1, <5>1
      <4>2. CASE ~(q = r /\ i = Len(auditLogs[r]) + 1)
        <5>1. i \in DOMAIN auditLogs[q] /\ auditLogs'[q][i] = auditLogs[q][i]
          BY <2>1, <3>2, <3>5, <4>2
        <5> QED
          BY <5>1 DEF NoSelfDecision
      <4> QED
        BY <4>1, <4>2
    <3> QED
      BY <3>4, <3>5 DEF NoSelfDecision
  <2>4. CASE UNCHANGED <<status, approvals, used, auditLogs>>
    BY <2>4 DEF NoSelfDecision
  <2> QED
    BY <2>2, <2>3, <2>4, RequestSteps
<1> QED
  BY <1>1, <1>2, Invariance, PTL DEF Spec

\* No overdraft, however many leaves of one employee are approved at once.
THEOREM BalanceCovers == Spec => []NoOverdraft
<1>1. Init => NoOverdraft
  BY ConstantsAssumption DEF Init, NoOverdraft, ConstantsAssumption
<1>2. Inv /\ NoOverdraft /\ [Next]_vars => NoOverdraft'
  <2> SUFFICES ASSUME Inv, NoOverdraft, [Next]_vars
               PROVE  NoOverdraft'
    OBVIOUS
  <2>1. CASE \E r \in Reqs : CreateRequest(r)
    BY <2>1 DEF CreateRequest, NoOverdraft
  <2>2. CASE \E w \in Workers : CommitRequest(w)
    <3>1. PICK w \in Workers : CommitRequest(w)
      BY <2>2
    <3>2. used' = CommittedUsed(w) /\ BalanceOK(w) /\ pc[w] = "commit"
      BY <3>1, Settlements DEF CommitRequest
    <3>3. used \in [Employees -> Nat]
      BY DEF Inv, TypeOK, TablesTyped
    <3> QED
      BY <3>2, <3>3 DEF CommittedUsed, BalanceOK, NoOverdraft
  <2>3. CASE UNCHANGED <<status, approvals, used, auditLogs>>
    BY <2>3 DEF NoOverdraft
  <2> QED
    BY <2>1, <2>2, <2>3, RequestSteps
<1> QED
  BY <1>1, <1>2, Invariance, PTL DEF Spec

\* A settled request stays settled: a race may change which decision it bears,
\* but no step returns it to the approval queue.
THEOREM SettledForGood == Spec => NeverReopened
<1> DEFINE Settled == {"approved", "rejected", "canceled"}
           Stays == \A r \in Reqs : status[r] \in Settled => status'[r] \in Settled
<1>1. Inv /\ [Next]_vars => [Stays]_status
  <2> SUFFICES ASSUME Inv, [Next]_vars PROVE [Stays]_status
    OBVIOUS
  <2>1. status \in [Reqs -> {"none", "pending", "approved", "rejected", "canceled"}]
    BY DEF Inv, TypeOK, TablesTyped
  <2>2. CASE \E r \in Reqs : CreateRequest(r)
    BY <2>1, <2>2 DEF CreateRequest
  <2>3. CASE \E w \in Workers : CommitRequest(w)
    BY <2>1, <2>3, Settlements DEF NewStatus, Decision, Settling
  <2>4. CASE UNCHANGED <<status, approvals, used, auditLogs>>
    BY <2>4
  <2> QED
    BY <2>2, <2>3, <2>4, RequestSteps
<1> QED
  BY <1>1, Invariance, PTL DEF Spec, NeverReopened

-----------------------------------------------------------------------------
(* One request at a time.  What the interleaving of transactions breaks (see *)
(* SettledOnce in the runs) holds when a single worker serves the requests.  *)

OneWorker == \A v, w \in Workers : v = w

\* The request a worker settles is still pending, and only settled requests
\* have an entry in the audit log.
SerialInv ==
    /\ \A w \in Workers : job[w].op \in Settling => status[job[w].req] = "pending"
    /\ \A r \in Reqs : status[r] \in {"none", "pending"} => auditLogs[r] = <<>>
    /\ SettledOnce

\* Within a transaction, the job changes only in the days that are left.
LEMMA JobStep ==
    ASSUME Inv, [Next]_vars, NEW w \in Workers
    PROVE  \/ job'[w].op \notin Settling
           \/ job'[w].op = job[w].op /\ job'[w].req = job[w].req
           \/ status[job'[w].req] = "pending"
<1>1. job \in [Workers -> Job] /\ job[w] \in Job
  BY DEF Inv, TypeOK, SessionsTyped
<1>2. CASE \E r \in Reqs : CreateRequest(r)
  BY <1>2 DEF CreateRequest, session
<1>3. CASE Tick \/ UNCHANGED vars
  BY <1>3 DEF Tick, vars, session
<1>4. CASE \E v \in Workers : v # w /\ (Begin(v) \/ Serve(v) \/ Fail(v))
  <2>1. PICK v \in Workers : v # w /\ (Begin(v) \/ Serve(v) \/ Fail(v))
    BY <1>4
  <2>2. ASSUME Begin(v) PROVE job'[w] = job[w]
    BY <1>1, <2>1, <2>2
       DEF Begin, BeginCancel, BeginDecide, BeginPunch, BeginRebuild, BeginReopen
  <2>3. ASSUME Serve(v) \/ Fail(v) PROVE job'[w] = job[w]
    BY <1>1, <2>1, <2>3
       DEF Serve, Fail, ReadBalance, FlushRequest, CheckMonthOpen, ValidatePunch, Release,
           CommitRequest, CommitPunch, ReadPunches, ReadDaily, WriteDay, SumMonth,
           ReadClosing, SaveClosing, CommitClosing, Refuse, UniqueViolation, DeadlockVictim
  <2> QED
    BY <2>1, <2>2, <2>3
<1>5. CASE Begin(w)
  <2>1. CASE \E r \in Reqs : BeginCancel(w, r)
    BY <1>1, <2>1 DEF BeginCancel, NoJob
  <2>2. CASE \E r \in Reqs, a \in Approvers, op \in {"approve", "reject"} :
               BeginDecide(w, op, a, r)
    BY <1>1, <2>2 DEF BeginDecide, Decidable
  <2>3. CASE \E e \in Employees, type \in PunchTypes : BeginPunch(w, e, type)
    BY <1>1, <2>3 DEF BeginPunch, Settling
  <2>4. CASE \E e \in Employees, op \in Rebuilding : BeginRebuild(w, op, e)
    BY <1>1, <2>4 DEF BeginRebuild, NoJob, Settling, Rebuilding
  <2>5. CASE \E e \in Employees : BeginReopen(w, e)
    BY <1>1, <2>5 DEF BeginReopen, NoJob, Settling
  <2> QED
    BY <1>5, <2>1, <2>2, <2>3, <2>4, <2>5 DEF Begin
<1>6. CASE Serve(w) \/ Fail(w)
  <2>1. ASSUME Release(w) PROVE job'[w].op \notin Settling
    BY <1>1, <2>1 DEF Release, NoJob, Settling
  <2>2. CASE WriteDay(w)
    BY <1>1, <2>2 DEF WriteDay, Job
  <2> QED
    BY <1>1, <1>6, <2>1, <2>2
       DEF Serve, Fail, ReadBalance, FlushRequest, CheckMonthOpen, ValidatePunch,
           CommitRequest, CommitPunch, ReadPunches, ReadDaily, SumMonth,
           ReadClosing, SaveClosing, CommitClosing, Refuse, UniqueViolation, DeadlockVictim
<1> QED
  BY <1>2, <1>3, <1>4, <1>5, <1>6 DEF Next

LEMMA SerialInvariance == OneWorker => (Spec => []SerialInv)
<1> SUFFICES ASSUME OneWorker PROVE Spec => []SerialInv
  OBVIOUS
<1>1. Init => SerialInv
  BY DEF Init, SerialInv, SettledOnce, NoJob, Settling
<1>2. Inv /\ SerialInv /\ [Next]_vars => SerialInv'
  <2> SUFFICES ASSUME Inv, SerialInv, [Next]_vars PROVE SerialInv'
    OBVIOUS
  <2>1. /\ status \in [Reqs -> {"none", "pending", "approved", "rejected", "canceled"}]
        /\ auditLogs \in [Reqs -> Seq(Entry)]
    BY DEF Inv, TypeOK, TablesTyped
  <2>2. \A w \in Workers : job[w].op \in Settling => job[w].req \in Reqs
    BY DEF Inv, SessionsOK, JobOK
  <2>3. CASE \E r \in Reqs : CreateRequest(r)
    BY <2>1, <2>3 DEF CreateRequest, session, SerialInv, SettledOnce
  <2>4. CASE \E w \in Workers : CommitRequest(w)
    <3>1. PICK w \in Workers : CommitRequest(w)
      BY <2>4
    <3> DEFINE r == job[w].req
    <3>2. PICK entry :
             /\ r \in Reqs /\ job[w].op \in Settling
             /\ status' = [status EXCEPT ![r] = NewStatus(job[w].op)]
             /\ auditLogs' = [auditLogs EXCEPT ![r] = Append(@, entry)]
      BY <3>1, Settlements
    <3>3. auditLogs[r] = <<>>
      BY <3>2 DEF SerialInv
    <3>4. auditLogs'[r] = <<entry>> /\ status'[r] \notin {"none", "pending"}
      BY <2>1, <3>2, <3>3 DEF NewStatus, Decision
    <3>5. \A v \in Workers : job'[v].op \notin Settling
      BY <3>1 DEF OneWorker, CommitRequest, Release, NoJob, Settling, Inv, TypeOK, SessionsTyped
    <3>6. \A q \in Reqs : q # r => auditLogs'[q] = auditLogs[q] /\ status'[q] = status[q]
      BY <2>1, <3>2
    <3>7. ASSUME NEW q \in Reqs PROVE Len(auditLogs'[q]) <= 1
      <4>1. CASE q = r
        <5>1. auditLogs'[q] = <<entry>>
          BY <3>4, <4>1
        <5>2. Len(<<entry>>) = 1
          OBVIOUS
        <5> QED
          BY <5>1, <5>2
      <4>2. CASE q # r
        BY <3>6, <4>2 DEF SerialInv, SettledOnce
      <4> QED
        BY <4>1, <4>2
    <3>8. \A q \in Reqs : status'[q] \in {"none", "pending"} => auditLogs'[q] = <<>>
      BY <3>4, <3>6 DEF SerialInv
    <3> QED
      BY <3>5, <3>7, <3>8 DEF SerialInv, SettledOnce
  <2>5. CASE UNCHANGED <<status, approvals, used, auditLogs>>
    BY <2>5, JobStep DEF SerialInv, SettledOnce
  <2> QED
    BY <2>3, <2>4, <2>5, RequestSteps
<1> QED
  BY <1>1, <1>2, Invariance, PTL DEF Spec

\* With one worker, a request is settled at most once.
THEOREM SerialSettlement == OneWorker => (Spec => []SettledOnce)
<1> SUFFICES ASSUME OneWorker PROVE Spec => []SettledOnce
  OBVIOUS
<1>1. Spec => []SerialInv
  BY SerialInvariance
<1>2. SerialInv => SettledOnce
  BY DEF SerialInv
<1> QED
  BY <1>1, <1>2, PTL
=============================================================================
