----------------------------- MODULE Settlement -----------------------------
(***************************************************************************)
(* What the handling of requests promises: a request is settled once, by   *)
(* one atomic step that changes its status, writes its audit entry and has *)
(* all of its effects, and an approval has no effect that the balance or   *)
(* the closing of the month forbids.                                       *)
(***************************************************************************)
EXTENDS Integers, Sequences

CONSTANTS
    Employees, Approvers, Reqs, Owner,
    RequestType,      \* RequestType[r] is the type of request r
    Cost,      \* Cost[r] is the leave request r consumes
    Entitled   \* the leave an employee may use

VARIABLES
    status,    \* the status of a request
    log,       \* the settlements of a request: at most one
    used,      \* the leave an employee has used
    fixes,     \* the punches that approvals have added for an employee
    closed     \* whether the month of an employee is closed

vars == <<status, log, used, fixes, closed>>

Init ==
    /\ status = [r \in Reqs |-> "none"]
    /\ log = [r \in Reqs |-> <<>>]
    /\ used = [e \in Employees |-> 0]
    /\ fixes = [e \in Employees |-> 0]
    /\ closed = [e \in Employees |-> FALSE]

Submit(r) ==
    /\ status[r] = "none"
    /\ status' = [status EXCEPT ![r] = "pending"]
    /\ UNCHANGED <<log, used, fixes, closed>>

Settle(r, outcome, actor) ==
    /\ status[r] = "pending"
    /\ status' = [status EXCEPT ![r] = outcome]
    /\ log' = [log EXCEPT ![r] = <<[action |-> outcome, actor |-> actor]>>]

Cancel(r) ==
    /\ Settle(r, "canceled", Owner[r])
    /\ UNCHANGED <<used, fixes, closed>>

Reject(r, a) ==
    /\ a # Owner[r]
    /\ Settle(r, "rejected", a)
    /\ UNCHANGED <<used, fixes, closed>>

Approve(r, a) ==
    /\ a # Owner[r]
    /\ Settle(r, "approved", a)
    /\ IF RequestType[r] = "leave"
       THEN /\ used[Owner[r]] + Cost[r] <= Entitled[Owner[r]]
            /\ used' = [used EXCEPT ![Owner[r]] = @ + Cost[r]]
       ELSE UNCHANGED used
    /\ IF RequestType[r] = "punch_fix"
       THEN /\ ~closed[Owner[r]]
            /\ fixes' = [fixes EXCEPT ![Owner[r]] = @ + 1]
       ELSE UNCHANGED fixes
    /\ UNCHANGED closed

CloseOrReopen(e) ==
    /\ closed' = [closed EXCEPT ![e] = ~@]
    /\ UNCHANGED <<status, log, used, fixes>>

Next ==
    \/ \E r \in Reqs : Submit(r) \/ Cancel(r)
    \/ \E r \in Reqs, a \in Approvers : Reject(r, a) \/ Approve(r, a)
    \/ \E e \in Employees : CloseOrReopen(e)

Spec == Init /\ [][Next]_vars
=============================================================================
