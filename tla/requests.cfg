SPECIFICATION Spec
CONSTANTS
    w1 = w1  w2 = w2  ann = ann  bob = bob  cyn = cyn
    f1 = f1  f2 = f2  l1 = l1  l2 = l2  o1 = o1
    None = None
    Payload <- MCPayload
    Entitled <- MCEntitled
    Owner <- MCOwner
    Workers = {w1, w2}
    Employees = {ann, bob}
    Approvers = {bob, cyn}
    Reqs = {f2, l1, l2}
    Days = {1, 2}
    LastMinute = 3
    LastDate = 2
    Start <- MonthEnd
    Handlers = {"create", "cancel", "approve", "reject"}
    MaxPunches = 0
SYMMETRY WorkerSymmetry
INVARIANTS TypeOK NoSelfDecision StatusMatchesDecision NoOverdraft DeductionsAudited PunchFixesAudited
PROPERTIES NeverReopened
CHECK_DEADLOCK FALSE
