------------------------- MODULE WorkflowProperties -------------------------
(* What is true, and what the documents say, of the transactions of Workflow. *)
EXTENDS Workflow

Labels == {"idle", "balance", "guard", "validate", "flush", "punches", "daily",
           "write", "sum", "closing", "save", "commit"}
Job    == [op: Endpoints \cup {"idle"}, by: Employees \cup Approvers \cup {None},
           emp: Employees \cup {None}, req: Reqs \cup {None},
           punch: Punch \cup {None}, todo: SUBSET Days, now: Moment \cup {None}]
Loaded == [punches: Seq(Punch), day: Days \cup {None}, now: Moment \cup {None}, row: Row,
           used: Nat, total: [Days -> Nat], closing: Closing]
Entry  == [action: {"approved", "rejected", "canceled"}, actor: Employees \cup Approvers]

TablesTyped ==
    /\ status \in [Reqs -> {"none", "pending", "approved", "rejected", "canceled"}]
    /\ approvals \in [Reqs -> [decision: {"pending", "approved", "rejected"},
                               approver: Approvers \cup {None}]]
    /\ used \in [Employees -> Nat]
    /\ auditLogs \in [Reqs -> Seq(Entry)]
    /\ punches \in [Employees -> [Days -> Seq(Punch)]]
    /\ daily \in [Employees -> [Days -> Row]]
    /\ closings \in [Employees -> Closing]

SessionsTyped ==
    /\ pc \in [Workers -> Labels]
    /\ job \in [Workers -> Job]
    /\ seen \in [Workers -> Loaded]
    /\ buf \in [Workers -> [Days -> Row \cup {None}]]

\* The columns of the tables hold values of their types, and so does what the
\* sessions know: the models' enums, the schemas' fields and the loaded rows.
TypeOK == TablesTyped /\ SessionsTyped /\ now \in Moment

\* Separation of duties: the approver on record, and every decision in the
\* audit log, is an approver other than the requester; only the requester cancels.
NoSelfDecision ==
    \A r \in Reqs :
        /\ approvals[r].approver # Owner[r]
        /\ \A i \in DOMAIN auditLogs[r] :
              IF auditLogs[r][i].action = "canceled"
              THEN auditLogs[r][i].actor = Owner[r]
              ELSE auditLogs[r][i].actor \in Approvers \ {Owner[r]}

\* The two rows of a request never contradict each other on a decision, however
\* approvers and the requester race: a pending request is in the approval
\* queue, an approved or rejected one carries that decision.
StatusMatchesDecision ==
    \A r \in Reqs :
        /\ status[r] = "pending" => approvals[r].decision = "pending"
        /\ status[r] \in {"approved", "rejected"} => approvals[r].decision = status[r]

\* However many approvals run at once, the used days of a balance never exceed
\* what was granted and carried over.
NoOverdraft == \A e \in Employees : used[e] <= Entitled[e]

\* The approvals of requests of S in the audit log.
ApprovalsOf(S) ==
    {p \in UNION {{r} \X DOMAIN auditLogs[r] : r \in S} :
        auditLogs[p[1]][p[2]].action = "approved"}

FixesOf(e)  == {r \in Reqs : Owner[r] = e /\ Payload[r].type = "punch_fix"}
LeavesOf(e) == {r \in Reqs : Owner[r] = e /\ Payload[r].type = "leave"}

AdminPunches(e) ==
    {p \in UNION {{d} \X DOMAIN punches[e][d] : d \in Days} :
        punches[e][p[1]][p[2]].source = "admin"}

HalfDaysApproved(e) ==
    UNION {{p} \X (1 .. ConsumedDays(p[1])) : p \in ApprovalsOf(LeavesOf(e))}

\* Every punch of source admin comes from one audited approval of a punch fix,
\* and every such approval has inserted its punch: a failure between the
\* statements of an approval leaves neither without the other.
PunchFixesAudited ==
    \A e \in Employees :
        Cardinality(AdminPunches(e)) = Cardinality(ApprovalsOf(FixesOf(e)))

\* No leave is deducted without an audited approval that accounts for it.
DeductionsAudited ==
    \A e \in Employees : used[e] <= Cardinality(HalfDaysApproved(e))

\* A day with a punch has its daily row, which is what closings and exports read.
PunchedDayHasRow ==
    \A e \in Employees, d \in Days : punches[e][d] # <<>> => daily[e][d].exists

\* A day that counts as worked was clocked in and out, whatever transactions
\* overwrote the row and whatever failed on the way.
NormalDayWasClockedOut ==
    \A e \in Employees, d \in Days :
        daily[e][d].status = "normal" => PunchState(punches[e][d]) = "done"

\* A settled request never becomes pending again.
NeverReopened ==
    [][\A r \in Reqs : status[r] \in {"approved", "rejected", "canceled"}
                          => status'[r] \in {"approved", "rejected", "canceled"}]_status

\* Rows are locked in one order - request, approval, balance, days by date,
\* closing - by everything but a recomputation, which takes the days as an
\* unordered DISTINCT returns them: approvals, cancellations, punches and
\* reopenings never wait for each other in a circle, and whenever transactions do,
\* one of them recomputes a month and the others recompute or approve a leave.
DeadlocksNeedRebuild ==
    \A S \in SUBSET Workers : Deadlocked(S) =>
        /\ \A w \in S : Kind(w) \in Rebuilding \cup {"leave"}
        /\ \E w \in S : job[w].op \in Rebuilding

\* A request is settled at most once: the second decision gets a 409.
SettledOnce == \A r \in Reqs : Len(auditLogs[r]) <= 1

\* When every request was settled at most once and no approval is in flight, the
\* used days of a balance are the days of the approvals in the audit log.
UsedMatchesApprovals ==
    (\A w \in Workers : pc[w] = "idle") /\ SettledOnce
        => \A e \in Employees : used[e] = Cardinality(HalfDaysApproved(e))

\* A full-day or a half-day leave of employee e that covers day d is approved.
LeaveApproved(e, d, half) ==
    \E r \in Reqs : /\ Owner[r] = e /\ Payload[r].type = "leave" /\ d \in Payload[r].days
                    /\ Payload[r].half = half /\ status[r] = "approved"

\* The moments up to now.
Past == {m \in Moment : m.day < now.day \/ (m.day = now.day /\ m.at <= now.at)}

\* Once no transaction is running, the daily row is what all of its punches compute
\* for some moment up to now, or what an approved leave makes of that: a half day
\* only changes its status.
RowMatchesPunches ==
    (\A w \in Workers : pc[w] = "idle")
        => \A e \in Employees, d \in Days :
              punches[e][d] # <<>> => \E m \in Past :
                 \/ daily[e][d] = Metrics(punches[e][d], d, m)
                 \/ \E half \in BOOLEAN :
                       /\ LeaveApproved(e, d, half)
                       /\ daily[e][d] = LeaveRow(Metrics(punches[e][d], d, m), half)

\* No punch is added to a closed month.
ClosedMonthTakesNoPunch ==
    [][\A e \in Employees : closings[e].closed => punches'[e] = punches[e]]_vars

\* A closed month's totals are the sums of its daily rows, but for the days
\* taken off: approving a leave is not refused in a closed month.
TotalsMatchDays ==
    \A e \in Employees, d \in Days : closings[e].closed /\ ~LeaveApproved(e, d, FALSE)
        => closings[e].total[d] = daily[e][d].worked

\* A month that stays closed keeps its totals for the days of a set, but for the
\* full days taken off.
TotalsKept(e, days) ==
    closings[e].closed /\ closings'[e].closed
        => \A d \in days : ~LeaveApproved(e, d, FALSE)
              => closings'[e].total[d] = closings[e].total[d]

\* Closing a month takes a snapshot of its totals.
ClosedTotalsFrozen == [][\A e \in Employees : TotalsKept(e, Days)]_vars

\* The totals of a closed month stay what they were when it was closed, whatever
\* is recomputed and however late, but for the days that are still open: those
\* have a clock_in and no clock_out.
DoneTotalsFrozen ==
    [][\A e \in Employees :
          TotalsKept(e, {d \in Days : PunchState(punches[e][d]) # "working"})]_vars

\* What the handling of requests promises, as a refinement.
Promise == INSTANCE Settlement WITH
    RequestType <- [r \in Reqs |-> Payload[r].type],
    Cost   <- [r \in Reqs |-> ConsumedDays(r)],
    log    <- auditLogs,
    fixes  <- [e \in Employees |-> Cardinality(AdminPunches(e))],
    closed <- [e \in Employees |-> closings[e].closed]

SettlesAtomically == Promise!Spec
=============================================================================
