SPECIFICATION Spec
CONSTANTS
    w1 = w1  w2 = w2  ann = ann  bob = bob  cyn = cyn
    f1 = f1  f2 = f2  l1 = l1  l2 = l2  o1 = o1
    None = None
    Payload <- MCPayload
    Entitled <- MCEntitled
    Owner <- OneOwner
    Workers = {w1}
    Employees = {ann}
    Approvers = {bob}
    Reqs = {}
    Days = {1}
    LastMinute = 2
    LastDate = 1
    Start <- Morning
    Handlers = {"punch", "close", "recompute"}
    MaxPunches = 1
PROPERTY ClosedTotalsFrozen
CHECK_DEADLOCK FALSE
