---------------------------- MODULE AuditProofs -----------------------------
(***************************************************************************)
(* Effects and audit entries go together: the punches that approvals have  *)
(* inserted and the leave they have deducted, counted against the entries  *)
(* of the audit log, for any number of transactions at once.               *)
(***************************************************************************)
EXTENDS WorkflowProofs

-----------------------------------------------------------------------------
(* Counting. *)

LEMMA CountDisjoint ==
    ASSUME NEW S, NEW T, IsFiniteSet(S), IsFiniteSet(T), S \cap T = {}
    PROVE  /\ IsFiniteSet(S \cup T)
           /\ Cardinality(S \cup T) = Cardinality(S) + Cardinality(T)
<1>1. Cardinality(S) \in Nat /\ Cardinality(T) \in Nat
  BY FS_CardinalityType
<1>2. Cardinality(S \cap T) = 0
  BY FS_EmptySet
<1>3. /\ IsFiniteSet(S \cup T)
      /\ Cardinality(S \cup T) = Cardinality(S) + Cardinality(T) - Cardinality(S \cap T)
  BY FS_Union
<1> QED
  BY <1>1, <1>2, <1>3

LEMMA CountOne ==
    ASSUME NEW S, NEW x, IsFiniteSet(S), x \notin S
    PROVE  /\ IsFiniteSet(S \cup {x})
           /\ Cardinality(S \cup {x}) = Cardinality(S) + 1
BY FS_AddElement

\* The half days of one approval.
HalfDaysOf(p) == {p} \X (1 .. ConsumedDays(p[1]))

LEMMA CountHalfDays ==
    ASSUME NEW p, p[1] \in Reqs
    PROVE  /\ IsFiniteSet(HalfDaysOf(p))
           /\ Cardinality(HalfDaysOf(p)) = ConsumedDays(p[1])
<1>1. PICK c \in Nat : c = ConsumedDays(p[1])
  BY ConsumedDaysIsNat
<1>2. IsFiniteSet(1 .. c) /\ Cardinality(1 .. c) = c
  BY FS_Interval
<1>3. IsFiniteSet({p}) /\ Cardinality({p}) = 1
  BY FS_Singleton
<1>4. IsFiniteSet({p} \X (1 .. c)) /\ Cardinality({p} \X (1 .. c)) = 1 * c
  BY <1>2, <1>3, FS_Product
<1> QED
  BY <1>1, <1>4 DEF HalfDaysOf

-----------------------------------------------------------------------------
(* What a step adds to the audit log, and to the punches of source admin. *)

LEMMA InApprovals ==
    ASSUME NEW S
    PROVE  \A p : p \in ApprovalsOf(S) <=>
              \E r \in S : \E i \in DOMAIN auditLogs[r] :
                 p = <<r, i>> /\ auditLogs[r][i].action = "approved"
<1>1. \A p : p \in UNION {{r} \X DOMAIN auditLogs[r] : r \in S} <=>
         \E r \in S : \E i \in DOMAIN auditLogs[r] : p = <<r, i>>
  OBVIOUS
<1> QED
  BY <1>1 DEF ApprovalsOf

LEMMA ApprovalsSame ==
    ASSUME NEW S, \A r \in S : auditLogs'[r] = auditLogs[r]
    PROVE  ApprovalsOf(S)' = ApprovalsOf(S)
BY DEF ApprovalsOf

\* The commit of an approval adds one element to the approvals of a set of
\* requests that contains the approved one; other settlements add none.
LEMMA ApprovalsStep ==
    ASSUME Inv, NEW w \in Workers, CommitRequest(w), NEW S \in SUBSET Reqs
    PROVE  IF job[w].op = "approve" /\ job[w].req \in S
           THEN \E i : /\ ApprovalsOf(S)' = ApprovalsOf(S) \cup {<<job[w].req, i>>}
                       /\ <<job[w].req, i>> \notin ApprovalsOf(S)
           ELSE ApprovalsOf(S)' = ApprovalsOf(S)
<1>1. PICK r \in Reqs, op \in Settling : r = job[w].req /\ op = job[w].op
  BY Settlements
<1>2. PICK entry :
        /\ entry.action = IF op = "cancel" THEN "canceled" ELSE Decision(op)
        /\ auditLogs' = [auditLogs EXCEPT ![r] = Append(@, entry)]
  BY <1>1, Settlements
<1>3. entry.action = "approved" <=> op = "approve"
  BY <1>2 DEF Decision, Settling
<1>4. PICK log \in Seq(Entry) : log = auditLogs[r]
  BY DEF Inv, TypeOK, TablesTyped
<1>5. PICK n : n = Len(log) + 1
  OBVIOUS
<1>6. auditLogs \in [Reqs -> Seq(Entry)]
  BY DEF Inv, TypeOK, TablesTyped
<1>7. /\ \A q \in Reqs : q # r => auditLogs'[q] = auditLogs[q]
      /\ auditLogs'[r] = Append(log, entry)
  BY <1>2, <1>4, <1>6
<1>8. /\ DOMAIN auditLogs'[r] = DOMAIN auditLogs[r] \cup {n} /\ n \notin DOMAIN auditLogs[r]
      /\ \A i \in DOMAIN auditLogs[r] : auditLogs'[r][i] = auditLogs[r][i]
      /\ auditLogs'[r][n] = entry
  BY <1>4, <1>5, <1>7
<1>9. \A p : p \in ApprovalsOf(S) <=>
         \E q \in S : \E i \in DOMAIN auditLogs[q] :
            p = <<q, i>> /\ auditLogs[q][i].action = "approved"
  BY InApprovals
<1>10. \A p : p \in ApprovalsOf(S)' <=>
         \E q \in S : \E i \in DOMAIN auditLogs'[q] :
            p = <<q, i>> /\ auditLogs'[q][i].action = "approved"
  <2>1. \A p : p \in UNION {{q} \X DOMAIN auditLogs'[q] : q \in S} <=>
           \E q \in S : \E i \in DOMAIN auditLogs'[q] : p = <<q, i>>
    OBVIOUS
  <2> QED
    BY <2>1 DEF ApprovalsOf
<1>11. CASE r \notin S
  BY <1>1, <1>7, <1>11, ApprovalsSame
<1>12. CASE r \in S
  <2>1. \A p : p \in ApprovalsOf(S)' <=>
                 p \in ApprovalsOf(S) \/ (op = "approve" /\ p = <<r, n>>)
    <3>1. ASSUME NEW q \in S, NEW p
          PROVE  (\E i \in DOMAIN auditLogs'[q] :
                    p = <<q, i>> /\ auditLogs'[q][i].action = "approved")
                 <=> \/ \E i \in DOMAIN auditLogs[q] :
                          p = <<q, i>> /\ auditLogs[q][i].action = "approved"
                     \/ q = r /\ op = "approve" /\ p = <<r, n>>
      BY <1>3, <1>7, <1>8
    <3> QED
      BY <1>9, <1>10, <1>12, <3>1
  <2>2. <<r, n>> \notin ApprovalsOf(S)
    BY <1>8, <1>9
  <2>3. op = "approve" => ApprovalsOf(S)' = ApprovalsOf(S) \cup {<<r, n>>}
    BY <2>1
  <2>4. op # "approve" => ApprovalsOf(S)' = ApprovalsOf(S)
    BY <2>1
  <2> QED
    BY <1>1, <1>12, <2>2, <2>3, <2>4
<1> QED
  BY <1>11, <1>12

LEMMA InAdminPunches ==
    ASSUME NEW e
    PROVE  \A p : p \in AdminPunches(e) <=>
              \E d \in Days : \E i \in DOMAIN punches[e][d] :
                 p = <<d, i>> /\ punches[e][d][i].source = "admin"
<1>1. \A p : p \in UNION {{d} \X DOMAIN punches[e][d] : d \in Days} <=>
         \E d \in Days : \E i \in DOMAIN punches[e][d] : p = <<d, i>>
  OBVIOUS
<1> QED
  BY <1>1 DEF AdminPunches

\* The commit of a punch fix adds one punch of source admin, of its owner; a punch
\* of the web client is none.
LEMMA AdminPunchesStep ==
    ASSUME Inv, NEW w \in Workers, Commits(w), NEW e \in Employees
    PROVE  IF Kind(w) = "punch_fix" /\ e = job[w].emp
           THEN \E p : /\ AdminPunches(e)' = AdminPunches(e) \cup {p}
                       /\ p \notin AdminPunches(e)
           ELSE AdminPunches(e)' = AdminPunches(e)
<1>1. /\ pc[w] = "commit" /\ job[w].op \in Endpoints /\ JobOK(w)
  BY CommitSteps DEF Inv, SessionsOK
<1>2. Kind(w) = "punch_fix" => job[w].punch.source = "admin"
  BY <1>1, ConstantsAssumption
     DEF Kind, JobOK, ConstantsAssumption, Endpoints, Settling, Rebuilding
<1>3. Kind(w) = "punch" => job[w].punch.source = "web"
  <2>1. Kind(w) = "punch" => job[w].op = "punch"
    BY <1>1, ConstantsAssumption
       DEF Kind, JobOK, ConstantsAssumption, Endpoints, Settling, Rebuilding, Types
  <2> QED
    BY <1>1, <2>1 DEF JobOK
<1>4. \A p : p \in AdminPunches(e) <=>
         \E d \in Days : \E i \in DOMAIN punches[e][d] :
            p = <<d, i>> /\ punches[e][d][i].source = "admin"
  BY InAdminPunches
<1>5. \A p : p \in AdminPunches(e)' <=>
         \E d \in Days : \E i \in DOMAIN punches'[e][d] :
            p = <<d, i>> /\ punches'[e][d][i].source = "admin"
  <2>1. \A p : p \in UNION {{d} \X DOMAIN punches'[e][d] : d \in Days} <=>
           \E d \in Days : \E i \in DOMAIN punches'[e][d] : p = <<d, i>>
    OBVIOUS
  <2> QED
    BY <2>1 DEF AdminPunches
<1>6. CASE Inserts(w) /\ e = job[w].emp
  <2>1. PICK x \in Days : x = seen[w].day
    BY <1>1, <1>6 DEF Inv, SessionsOK, DayOK
  <2>2. PICK ps \in Seq(Punch) : ps = punches[e][x]
    BY DEF Inv, TypeOK, TablesTyped
  <2>3. PICK q \in Punch : q = job[w].punch
    BY <1>1, <1>6, InsertedPunch
  <2>4. PICK n : n = Len(ps) + 1
    OBVIOUS
  <2>5. /\ punches'[e][x] = Append(ps, q)
        /\ \A d \in Days : d # x => punches'[e][d] = punches[e][d]
    BY <1>6, <2>1, <2>2, <2>3, CommittedDay
  <2>6. /\ DOMAIN punches'[e][x] = DOMAIN punches[e][x] \cup {n}
        /\ n \notin DOMAIN punches[e][x]
        /\ \A i \in DOMAIN punches[e][x] : punches'[e][x][i] = punches[e][x][i]
        /\ punches'[e][x][n] = q
    BY <2>2, <2>4, <2>5
  <2>7. \A p : p \in AdminPunches(e)' <=>
                 p \in AdminPunches(e) \/ (q.source = "admin" /\ p = <<x, n>>)
    <3>1. ASSUME NEW d \in Days, NEW p
          PROVE  (\E i \in DOMAIN punches'[e][d] :
                    p = <<d, i>> /\ punches'[e][d][i].source = "admin")
                 <=> \/ \E i \in DOMAIN punches[e][d] :
                          p = <<d, i>> /\ punches[e][d][i].source = "admin"
                     \/ d = x /\ q.source = "admin" /\ p = <<x, n>>
      BY <2>5, <2>6
    <3> QED
      BY <1>4, <1>5, <3>1
  <2>8. <<x, n>> \notin AdminPunches(e)
    BY <1>4, <2>6
  <2>9. q.source = "admin" => AdminPunches(e)' = AdminPunches(e) \cup {<<x, n>>}
    BY <2>7
  <2>10. q.source # "admin" => AdminPunches(e)' = AdminPunches(e)
    BY <2>7
  <2> QED
    BY <1>2, <1>3, <1>6, <2>3, <2>8, <2>9, <2>10 DEF Inserts
<1>7. CASE ~(Inserts(w) /\ e = job[w].emp)
  <2>1. \A d \in Days : punches'[e][d] = punches[e][d]
    BY <1>7, CommittedDay
  <2>2. \A p : p \in AdminPunches(e)' <=> p \in AdminPunches(e)
    BY <1>4, <1>5, <2>1
  <2>3. AdminPunches(e)' = AdminPunches(e)
    BY <2>2
  <2> QED
    BY <1>7, <2>3 DEF Inserts
<1> QED
  BY <1>6, <1>7

\* The commit of a leave adds the half days it costs, to its owner's.
LEMMA HalfDaysStep ==
    ASSUME Inv, NEW w \in Workers, CommitRequest(w), NEW e \in Employees,
           IsFiniteSet(HalfDaysApproved(e))
    PROVE  IF Kind(w) = "leave" /\ e = job[w].emp
           THEN /\ IsFiniteSet(HalfDaysApproved(e)')
                /\ Cardinality(HalfDaysApproved(e)') =
                     Cardinality(HalfDaysApproved(e)) + ConsumedDays(job[w].req)
           ELSE HalfDaysApproved(e)' = HalfDaysApproved(e)
<1>1. PICK r \in Reqs, op \in Settling : r = job[w].req /\ op = job[w].op
  BY Settlements
<1>2. job[w].emp = Owner[r]
  BY <1>1, Settlements DEF JobOK
<1>3. Kind(w) = "leave" <=> op = "approve" /\ Payload[r].type = "leave"
  BY <1>1 DEF Kind, Settling
<1>4. LeavesOf(e) \in SUBSET Reqs
  BY DEF LeavesOf
<1>5. r \in LeavesOf(e) <=> Owner[r] = e /\ Payload[r].type = "leave"
  BY DEF LeavesOf
<1>6. CASE Kind(w) = "leave" /\ e = job[w].emp
  <2>1. PICK i : /\ ApprovalsOf(LeavesOf(e))' = ApprovalsOf(LeavesOf(e)) \cup {<<r, i>>}
                 /\ <<r, i>> \notin ApprovalsOf(LeavesOf(e))
    BY <1>1, <1>2, <1>3, <1>4, <1>5, <1>6, ApprovalsStep
  <2>2. PICK p : p = <<r, i>>
    OBVIOUS
  <2>3. HalfDaysApproved(e)' = HalfDaysApproved(e) \cup HalfDaysOf(p)
    BY <2>1, <2>2 DEF HalfDaysApproved, HalfDaysOf, LeavesOf
  <2>4. HalfDaysApproved(e) \cap HalfDaysOf(p) = {}
    BY <2>1, <2>2 DEF HalfDaysApproved, HalfDaysOf
  <2>5. p[1] = r
    BY <2>2
  <2>6. /\ IsFiniteSet(HalfDaysOf(p))
        /\ Cardinality(HalfDaysOf(p)) = ConsumedDays(r)
    BY <2>5, CountHalfDays
  <2> QED
    BY <1>1, <1>6, <2>3, <2>4, <2>6, CountDisjoint
<1>7. CASE ~(Kind(w) = "leave" /\ e = job[w].emp)
  <2>1. ApprovalsOf(LeavesOf(e))' = ApprovalsOf(LeavesOf(e))
    BY <1>1, <1>2, <1>3, <1>4, <1>5, <1>7, ApprovalsStep
  <2>2. HalfDaysApproved(e)' = HalfDaysApproved(e)
    BY <2>1 DEF HalfDaysApproved, LeavesOf
  <2> QED
    BY <1>7, <2>2
<1> QED
  BY <1>6, <1>7

-----------------------------------------------------------------------------
(* The audit properties. *)

\* Past its check, a leave knows of no more used days than the approvals account
\* for.
ReadIsAudited(w) ==
    Kind(w) = "leave" /\ pc[w] \in {"flush", "daily", "write", "commit"}
       => seen[w].used <= Cardinality(HalfDaysApproved(job[w].emp))

\* The sets that are counted are finite, although nothing bounds the requests.
Countable ==
    \A e \in Employees : /\ IsFiniteSet(AdminPunches(e))
                         /\ IsFiniteSet(ApprovalsOf(FixesOf(e)))
                         /\ IsFiniteSet(HalfDaysApproved(e))

AuditInv ==
    /\ Countable
    /\ PunchFixesAudited
    /\ DeductionsAudited
    /\ \A w \in Workers : ReadIsAudited(w)

LEMMA InitAudit == Init => AuditInv
<1> SUFFICES ASSUME Init PROVE AuditInv
  OBVIOUS
<1>1. ASSUME NEW S \in SUBSET Reqs PROVE ApprovalsOf(S) = {}
  <2>1. \A r \in S : DOMAIN auditLogs[r] = {}
    BY DEF Init
  <2> QED
    BY <2>1, InApprovals
<1>2. ASSUME NEW e \in Employees
      PROVE  AdminPunches(e) = {} /\ ApprovalsOf(FixesOf(e)) = {} /\ HalfDaysApproved(e) = {}
  <2>1. \A d \in Days : DOMAIN punches[e][d] = {}
    BY DEF Init
  <2>2. AdminPunches(e) = {}
    BY <2>1, InAdminPunches
  <2>3. FixesOf(e) \in SUBSET Reqs /\ LeavesOf(e) \in SUBSET Reqs
    BY DEF FixesOf, LeavesOf
  <2>4. ApprovalsOf(FixesOf(e)) = {} /\ ApprovalsOf(LeavesOf(e)) = {}
    BY <1>1, <2>3
  <2> QED
    BY <2>2, <2>4 DEF HalfDaysApproved
<1>3. IsFiniteSet({}) /\ Cardinality({}) = 0
  BY FS_EmptySet
<1>4. ASSUME NEW e \in Employees
      PROVE  /\ IsFiniteSet(AdminPunches(e)) /\ Cardinality(AdminPunches(e)) = 0
             /\ IsFiniteSet(ApprovalsOf(FixesOf(e))) /\ Cardinality(ApprovalsOf(FixesOf(e))) = 0
             /\ IsFiniteSet(HalfDaysApproved(e)) /\ Cardinality(HalfDaysApproved(e)) = 0
             /\ used[e] = 0
  <2>1. AdminPunches(e) = {} /\ ApprovalsOf(FixesOf(e)) = {} /\ HalfDaysApproved(e) = {}
    BY <1>2
  <2>2. used[e] = 0
    BY DEF Init
  <2> QED
    BY <1>3, <2>1, <2>2
<1>5. \A w \in Workers : ReadIsAudited(w)
  BY DEF Init, ReadIsAudited
<1> QED
  BY <1>4, <1>5 DEF AuditInv, Countable, PunchFixesAudited, DeductionsAudited

\* The punches of source admin and the approvals of punch fixes grow together.
LEMMA FixesStep ==
    ASSUME Inv, AuditInv, [Next]_vars, NEW e \in Employees
    PROVE  /\ IsFiniteSet(AdminPunches(e)')
           /\ IsFiniteSet(ApprovalsOf(FixesOf(e))')
           /\ Cardinality(AdminPunches(e)') = Cardinality(ApprovalsOf(FixesOf(e))')
<1>1. /\ IsFiniteSet(AdminPunches(e)) /\ IsFiniteSet(ApprovalsOf(FixesOf(e)))
      /\ Cardinality(AdminPunches(e)) = Cardinality(ApprovalsOf(FixesOf(e)))
  BY DEF AuditInv, Countable, PunchFixesAudited
<1>2. FixesOf(e)' = FixesOf(e) /\ FixesOf(e) \in SUBSET Reqs
  BY DEF FixesOf
<1>3. ASSUME punches'[e] = punches[e], auditLogs' = auditLogs
      PROVE  AdminPunches(e)' = AdminPunches(e)
             /\ ApprovalsOf(FixesOf(e))' = ApprovalsOf(FixesOf(e))
  BY <1>3 DEF AdminPunches, ApprovalsOf, FixesOf
<1>4. CASE \E w \in Workers : CommitRequest(w)
  <2>1. PICK w \in Workers : CommitRequest(w)
    BY <1>4
  <2>2. Commits(w)
    BY <2>1 DEF Commits
  <2>3. PICK r \in Reqs, op \in Settling : r = job[w].req /\ op = job[w].op
    BY <2>1, Settlements
  <2>4. job[w].emp = Owner[r]
    BY <2>1, <2>3, Settlements DEF JobOK
  <2>5. Kind(w) = "punch_fix" /\ e = job[w].emp <=> op = "approve" /\ r \in FixesOf(e)
    BY <2>3, <2>4 DEF Kind, Settling, FixesOf
  <2>6. CASE op = "approve" /\ r \in FixesOf(e)
    <3>1. PICK p : AdminPunches(e)' = AdminPunches(e) \cup {p} /\ p \notin AdminPunches(e)
      BY <2>2, <2>5, <2>6, AdminPunchesStep
    <3>2. PICK q : /\ ApprovalsOf(FixesOf(e))' = ApprovalsOf(FixesOf(e)) \cup {q}
                   /\ q \notin ApprovalsOf(FixesOf(e))
      BY <1>2, <2>1, <2>3, <2>6, ApprovalsStep
    <3>3. /\ IsFiniteSet(AdminPunches(e)')
          /\ Cardinality(AdminPunches(e)') = Cardinality(AdminPunches(e)) + 1
      BY <1>1, <3>1, CountOne
    <3>4. /\ IsFiniteSet(ApprovalsOf(FixesOf(e))')
          /\ Cardinality(ApprovalsOf(FixesOf(e))') = Cardinality(ApprovalsOf(FixesOf(e))) + 1
      BY <1>1, <3>2, CountOne
    <3> QED
      BY <1>1, <3>3, <3>4
  <2>7. CASE ~(op = "approve" /\ r \in FixesOf(e))
    <3>1. AdminPunches(e)' = AdminPunches(e)
      BY <2>2, <2>5, <2>7, AdminPunchesStep
    <3>2. ApprovalsOf(FixesOf(e))' = ApprovalsOf(FixesOf(e))
      BY <1>2, <2>1, <2>3, <2>7, ApprovalsStep
    <3> QED
      BY <1>1, <3>1, <3>2
  <2> QED
    BY <2>6, <2>7
<1>5. CASE \E w \in Workers : CommitPunch(w)
  <2>1. PICK w \in Workers : CommitPunch(w)
    BY <1>5
  <2>2. Commits(w) /\ auditLogs' = auditLogs /\ Kind(w) = "punch"
    BY <2>1 DEF Commits, CommitPunch, Kind
  <2>3. AdminPunches(e)' = AdminPunches(e)
    BY <2>2, AdminPunchesStep
  <2>4. ApprovalsOf(FixesOf(e))' = ApprovalsOf(FixesOf(e))
    BY <2>2 DEF ApprovalsOf, FixesOf
  <2> QED
    BY <1>1, <2>3, <2>4
<1>6. CASE \E w \in Workers : CommitClosing(w)
  BY <1>1, <1>3, <1>6 DEF CommitClosing
<1>7. CASE \E r \in Reqs : CreateRequest(r)
  BY <1>1, <1>3, <1>7 DEF CreateRequest
<1>8. CASE UNCHANGED tables
  BY <1>1, <1>3, <1>8 DEF tables
<1> QED
  BY <1>4, <1>5, <1>6, <1>7, <1>8, TableSteps DEF Commits

\* The approved half days of an employee only grow.
LEMMA HalfDaysGrow ==
    ASSUME Inv, AuditInv, [Next]_vars, NEW e \in Employees
    PROVE  /\ IsFiniteSet(HalfDaysApproved(e)')
           /\ Cardinality(HalfDaysApproved(e)) <= Cardinality(HalfDaysApproved(e)')
<1>1. IsFiniteSet(HalfDaysApproved(e)) /\ Cardinality(HalfDaysApproved(e)) \in Nat
  BY FS_CardinalityType DEF AuditInv, Countable
<1>2. CASE \E w \in Workers : CommitRequest(w)
  <2>1. PICK w \in Workers : CommitRequest(w)
    BY <1>2
  <2>2. ConsumedDays(job[w].req) \in Nat
    BY <2>1, Settlements, ConsumedDaysIsNat
  <2> QED
    BY <1>1, <2>1, <2>2, HalfDaysStep
<1>3. CASE auditLogs' = auditLogs
  <2>1. HalfDaysApproved(e)' = HalfDaysApproved(e)
    BY <1>3 DEF HalfDaysApproved, ApprovalsOf, LeavesOf
  <2> QED
    BY <1>1, <2>1
<1>4. CASE \E r \in Reqs : CreateRequest(r)
  BY <1>3, <1>4 DEF CreateRequest
<1> QED
  BY <1>2, <1>3, <1>4, RequestSteps

LEMMA ReadIsAuditedStep ==
    ASSUME Inv, AuditInv, [Next]_vars, NEW w \in Workers
    PROVE  ReadIsAudited(w)'
<1>1. /\ pc \in [Workers -> Labels] /\ job \in [Workers -> Job]
      /\ seen \in [Workers -> Loaded] /\ used \in [Employees -> Nat]
      /\ JobOK(w) /\ ReadIsAudited(w)
  BY DEF Inv, TypeOK, TablesTyped, SessionsTyped, SessionsOK, AuditInv
<1>2. CASE Ended(w)
  BY <1>2 DEF Ended, ReadIsAudited
<1>3. ASSUME job'[w].op = job[w].op, job'[w].req = job[w].req, job'[w].emp = job[w].emp,
             Kind(w) = "leave", pc[w] \in {"flush", "daily", "write", "commit"},
             seen'[w].used = seen[w].used
      PROVE  ReadIsAudited(w)'
  <2>1. PICK e \in Employees : e = job[w].emp
    BY <1>1, <1>3 DEF JobOK
  <2>2. seen[w].used <= Cardinality(HalfDaysApproved(e))
    BY <1>1, <1>3, <2>1 DEF ReadIsAudited
  <2>3. Cardinality(HalfDaysApproved(e)) <= Cardinality(HalfDaysApproved(e)')
        /\ IsFiniteSet(HalfDaysApproved(e)) /\ IsFiniteSet(HalfDaysApproved(e)')
    BY HalfDaysGrow DEF AuditInv, Countable
  <2>4. /\ Cardinality(HalfDaysApproved(e)) \in Nat /\ Cardinality(HalfDaysApproved(e)') \in Nat
        /\ seen[w].used \in Nat
    BY <1>1, <2>3, FS_CardinalityType DEF Loaded
  <2>5. seen[w].used <= Cardinality(HalfDaysApproved(e)')
    BY <2>2, <2>3, <2>4
  <2>6. job'[w].emp = e
    BY <1>3, <2>1
  <2> QED
    BY <1>3, <2>5, <2>6 DEF ReadIsAudited
<1>4. CASE Same(w)
  <2>1. Kind(w)' = Kind(w)
    BY <1>4 DEF Same, Kind
  <2> QED
    BY <1>3, <1>4, <2>1 DEF Same, ReadIsAudited
<1>5. CASE Begin(w)
  BY <1>5, BeginFacts DEF ReadIsAudited
<1>6. CASE Works(w) /\ UNCHANGED tables
  <2>1. /\ job'[w].op = job[w].op /\ job'[w].req = job[w].req /\ job'[w].emp = job[w].emp
        /\ Kind(w)' = Kind(w)
    BY <1>6, WorksFacts
  <2>2. CASE ReadBalance(w)
    <3>1. seen'[w].used = used[job[w].emp] /\ job[w].emp \in Employees
      BY <1>1, <2>2 DEF ReadBalance, Loaded, JobOK
    <3>2. HalfDaysApproved(job[w].emp)' = HalfDaysApproved(job[w].emp)
      BY <1>6, <2>1 DEF HalfDaysApproved, ApprovalsOf, LeavesOf, tables
    <3>3. used[job[w].emp] <= Cardinality(HalfDaysApproved(job[w].emp))
      BY <3>1 DEF AuditInv, DeductionsAudited
    <3> QED
      BY <3>1, <3>2, <3>3 DEF ReadIsAudited
  <2>3. CASE ~ReadBalance(w)
    <3>1. Kind(w) = "leave" /\ pc'[w] \in {"flush", "daily", "write", "commit"}
             => /\ pc[w] \in {"flush", "daily", "write", "commit"}
                /\ seen'[w].used = seen[w].used
      BY <1>6, <2>3, LeaveStages
    <3> QED
      BY <1>3, <2>1, <3>1 DEF ReadIsAudited
  <2> QED
    BY <2>2, <2>3
<1> QED
  BY <1>2, <1>4, <1>5, <1>6, SessionSteps

LEMMA DeductionsStep ==
    ASSUME Inv, AuditInv, [Next]_vars
    PROVE  DeductionsAudited'
<1> SUFFICES ASSUME NEW e \in Employees
             PROVE  used'[e] <= Cardinality(HalfDaysApproved(e)')
  BY DEF DeductionsAudited
<1>1. /\ used \in [Employees -> Nat]
      /\ used[e] <= Cardinality(HalfDaysApproved(e))
      /\ IsFiniteSet(HalfDaysApproved(e)) /\ Cardinality(HalfDaysApproved(e)) \in Nat
  BY FS_CardinalityType DEF Inv, TypeOK, TablesTyped, AuditInv, DeductionsAudited, Countable
<1>2. IsFiniteSet(HalfDaysApproved(e)') /\ Cardinality(HalfDaysApproved(e)') \in Nat
      /\ Cardinality(HalfDaysApproved(e)) <= Cardinality(HalfDaysApproved(e)')
  BY HalfDaysGrow, FS_CardinalityType
<1>3. CASE \E w \in Workers : CommitRequest(w) /\ Kind(w) = "leave" /\ e = job[w].emp
  <2>1. PICK w \in Workers : CommitRequest(w) /\ Kind(w) = "leave" /\ e = job[w].emp
    BY <1>3
  <2>2. used'[e] = seen[w].used + ConsumedDays(job[w].req)
    BY <1>1, <2>1 DEF CommitRequest, CommittedUsed
  <2>3. seen[w].used <= Cardinality(HalfDaysApproved(e))
    BY <2>1 DEF AuditInv, ReadIsAudited, CommitRequest
  <2>4. Cardinality(HalfDaysApproved(e)') =
           Cardinality(HalfDaysApproved(e)) + ConsumedDays(job[w].req)
    BY <1>1, <2>1, HalfDaysStep
  <2>5. seen[w].used \in Nat /\ ConsumedDays(job[w].req) \in Nat
    BY <2>1, Settlements, ConsumedDaysIsNat DEF Inv, TypeOK, SessionsTyped, Loaded
  <2> QED
    BY <1>1, <2>2, <2>3, <2>4, <2>5
<1>4. CASE \E w \in Workers : CommitRequest(w) /\ ~(Kind(w) = "leave" /\ e = job[w].emp)
  <2>1. used'[e] = used[e]
    BY <1>1, <1>4 DEF CommitRequest, CommittedUsed
  <2> QED
    BY <1>1, <1>2, <2>1
<1>5. CASE (\E r \in Reqs : CreateRequest(r)) \/ UNCHANGED <<status, approvals, used, auditLogs>>
  <2>1. used' = used
    BY <1>5 DEF CreateRequest
  <2> QED
    BY <1>1, <1>2, <2>1
<1> QED
  BY <1>3, <1>4, <1>5, RequestSteps

LEMMA AuditInvariance == Spec => []AuditInv
<1>1. Inv /\ AuditInv /\ [Next]_vars => AuditInv'
  <2> SUFFICES ASSUME Inv, AuditInv, [Next]_vars PROVE AuditInv'
    OBVIOUS
  <2>1. Countable' /\ PunchFixesAudited'
    BY FixesStep, HalfDaysGrow DEF Countable, PunchFixesAudited
  <2> QED
    BY <2>1, DeductionsStep, ReadIsAuditedStep DEF AuditInv
<1> QED
  BY <1>1, InitAudit, Invariance, PTL DEF Spec

\* An approved punch fix and its punch are committed together or not at all: in
\* every interleaving, and whatever fails, there are as many of the one as of the
\* other.
THEOREM FixesAreAudited == Spec => []PunchFixesAudited
<1>1. AuditInv => PunchFixesAudited
  BY DEF AuditInv
<1> QED
  BY <1>1, AuditInvariance, PTL

\* Lost updates of a balance only lose deductions: the used days never exceed
\* what the approvals in the audit log account for.
THEOREM DeductionsAreAudited == Spec => []DeductionsAudited
<1>1. AuditInv => DeductionsAudited
  BY DEF AuditInv
<1> QED
  BY <1>1, AuditInvariance, PTL
=============================================================================
