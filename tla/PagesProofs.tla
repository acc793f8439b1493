----------------------------- MODULE PagesProofs -----------------------------
(***************************************************************************)
(* What holds of the pages for any users, scenes and cards.                *)
(***************************************************************************)
EXTENDS Pages, TLAPS

(* The operations. *)

Names == PunchTypes \cup Cards \cup
         {"punch", "punch_fix", "overtime_pre", "overtime_post", "leave", "cancel",
          "approve", "reject", "create", "edit", "dialog", "toggleActive", "row", "close",
          "reopen", "recomputeAll", "closeAll", "upsert", "delete", "assign", "grantOne",
          "grantAll", "carryover", "add", "del"}

\* An operation invalidates what it writes to, but for the queue of the approvers, and a
\* punch writes to the day.
Honest ==
    {op \in [name : Names, busy : Names, needs : SUBSET ListNames, writes : SUBSET ListNames,
             at : {"shown", "next", "any"}, refreshes : SUBSET ListNames,
             exact : BOOLEAN, modal : BOOLEAN] :
        /\ op.writes \ {"queue"} \subseteq op.refreshes
        /\ op.busy = "punch" => /\ op.name \in PunchTypes
                                /\ op.writes = {"today", "monthly"} /\ op.refreshes = op.writes}

Thorough == {op \in Honest : op.writes \subseteq op.refreshes}

LEMMA ThoroughIsHonest == Thorough \subseteq Honest
BY DEF Thorough

LEMMA OpHonest ==
    ASSUME NEW name \in Names, NEW busy \in Names \ {"punch"}, NEW needs \in SUBSET ListNames,
           NEW refreshes \in SUBSET ListNames, NEW writesTo \in SUBSET refreshes
    PROVE  Op(name, busy, needs, writesTo, refreshes) \in Thorough
BY DEF Thorough, Honest, Op

LEMMA OneListHonest ==
    ASSUME NEW name \in Names, NEW busy \in Names \ {"punch"}, NEW needs \in SUBSET ListNames,
           NEW n \in ListNames
    PROVE  Op(name, busy, needs, {n}, {n}) \in Thorough
BY OpHonest

LEMMA WrappedHonest ==
    ASSUME NEW op \in Thorough
    PROVE  /\ \A where \in {"shown", "next", "any"} : At(where, op) \in Thorough
           /\ Exact(op) \in Thorough /\ Modal(op) \in Thorough
BY DEF Thorough, Honest, At, Exact, Modal

LEMMA ListsKnown ==
    ListNames = {"employees", "today", "monthly", "own", "queue", "overtime", "balance", "me",
                 "leaves", "types", "shifts", "mine", "flex", "departments", "holidays", "closings"}
BY DEF ListNames, EmployeeLists, AttendanceLists, RequestLists, OvertimeLists, LeaveLists,
       ShiftLists, MasterLists, ClosingLists

LEMMA PartsHonest ==
    ASSUME NEW u, NEW p \in PageNames, NEW s \in Selections,
           NEW part \in Parts(u, p, s), NEW op \in part.ops
    PROVE  op \in Honest /\ (p # "requests" => op \in Thorough)
<1>1. CASE part = NotificationBell(u)
  BY <1>1 DEF NotificationBell, Part
<1>2. CASE part \in ClockPage
  <2>1. part = ClockHero
    BY <1>2 DEF ClockPage, MonthlyStatsTiles, TodayCard, WeekCard, LeaveBalanceCard, Part
  <2>2. PICK type \in PunchTypes :
            op = Op(type, "punch", {}, {"today", "monthly"}, {"today", "monthly"})
    BY <2>1 DEF ClockHero, Part
  <2> QED
    BY <2>2, ListsKnown DEF Op, Honest, Thorough, Names
<1>3. CASE p = "requests" /\ part \in RequestsPage(s)
  <2>1. PICK kind \in {"punch_fix", "overtime_pre", "overtime_post", "leave"} :
            part \in {Part({}, {"own"}, {}, {}), RequestTable, RequestForm(kind)}
    BY <1>3 DEF RequestsPage, Selections, PunchFixForm, OvertimeForm, OvertimePostForm, LeaveForm
  <2>2. PICK name \in {kind, "cancel"} : op = Op(name, name, {}, {"own", "queue"}, {"own"})
    BY <2>1 DEF RequestTable, RequestForm, Part
  <2>3. {kind, "cancel"} \subseteq Names \ {"punch"} /\ {"own", "queue"} \subseteq ListNames
    BY ListsKnown DEF Names
  <2>4. op \in Honest
    BY <2>2, <2>3 DEF Honest, Op
  <2> QED
    BY <1>3, <2>4
<1>4. CASE part \in MyShiftsPage
  BY <1>4 DEF MyShiftsPage, Part
<1>5. CASE part \in ApprovalsPage
  <2>1. PICK i \in Cards : part = ApprovalCard(i)
    BY <1>5 DEF ApprovalsPage, Part
  <2>2. PICK verb \in {"approve", "reject"} : op = Op(verb, i, {}, {"queue"}, {"queue"})
    BY <2>1 DEF ApprovalCard, Part
  <2>3. i \in Names \ {"punch"} /\ verb \in Names /\ "queue" \in ListNames
    BY PagesAssumption, ListsKnown DEF Names
  <2> QED
    BY <2>2, <2>3, OneListHonest, ThoroughIsHonest
<1>6. CASE part \in EmployeesPage
  <2>1. op \in {CreateEmployee, EditEmployee,
                Op("toggleActive", "toggleActive", {"employees"}, {"employees"}, {"employees"})}
    BY <1>6 DEF EmployeesPage, Part
  <2>2. /\ {"create", "edit", "dialog", "toggleActive"} \subseteq Names \ {"punch"}
        /\ "employees" \in ListNames
    BY ListsKnown DEF Names
  <2>3. Op("create", "dialog", {}, {"employees"}, {"employees"}) \in Thorough
    BY <2>2, OneListHonest
  <2>4. Op("edit", "dialog", {"employees"}, {"employees"}, {"employees"}) \in Thorough
    BY <2>2, OneListHonest
  <2>5. Op("toggleActive", "toggleActive", {"employees"}, {"employees"}, {"employees"}) \in Thorough
    BY <2>2, OneListHonest
  <2> QED
    BY <2>1, <2>3, <2>4, <2>5, WrappedHonest, ThoroughIsHonest DEF CreateEmployee, EditEmployee
<1>7. CASE part \in ClosingPage
  <2>1. \/ op \in StatusTable
        \/ \E verb \in {"recomputeAll", "closeAll"} :
              op = Exact(Op(verb, verb, {}, {"closings"}, {"closings"}))
    BY <1>7 DEF ClosingPage, Part
  <2> QED
    BY <2>1, OneListHonest, WrappedHonest, ThoroughIsHonest, ListsKnown DEF Names, StatusTable
<1>8. CASE part \in ShiftsPage
  <2>1. op \in {Op("assign", "assign", {"employees", "types"}, {}, {"employees"}),
                At("any", Op("upsert", "upsert", {}, {"shifts"}, {"shifts"})),
                Op("delete", "delete", {}, {"shifts"}, {"shifts"})}
    BY <1>8 DEF ShiftsPage, ShiftAddForm, ShiftList, Part
  <2>2. {"assign", "upsert", "delete"} \subseteq Names \ {"punch"}
    BY DEF Names
  <2>3. {"employees", "types", "shifts"} \subseteq ListNames
    BY ListsKnown
  <2>4. Op("assign", "assign", {"employees", "types"}, {}, {"employees"}) \in Thorough
    BY <2>2, <2>3, OpHonest
  <2>5. Op("upsert", "upsert", {}, {"shifts"}, {"shifts"}) \in Thorough
    BY <2>2, <2>3, OneListHonest, ThoroughIsHonest
  <2>6. Op("delete", "delete", {}, {"shifts"}, {"shifts"}) \in Thorough
    BY <2>2, <2>3, OneListHonest, ThoroughIsHonest
  <2> QED
    BY <2>1, <2>4, <2>5, <2>6, WrappedHonest, ThoroughIsHonest
<1>9. CASE part \in OvertimePage
  BY <1>9 DEF OvertimePage, Part
<1>10. CASE part \in LeavesPage
  <2>1. op \in {Exact(Op("grantAll", "grantAll", {}, {"leaves"}, {"leaves"})), GrantOneDialog,
                At("next", Op("carryover", "carryover", {}, {"leaves"}, {"leaves"}))}
    BY <1>10 DEF LeavesPage, Part
  <2> QED
    BY <2>1, OneListHonest, WrappedHonest, ThoroughIsHonest, ListsKnown DEF Names, GrantOneDialog
<1>11. CASE part \in DepartmentsPage
  <2>1. op \in {Op("add", "add", {}, {"departments"}, {"departments"}),
                Op("del", "del", {"departments"}, {"departments"}, {"departments"})}
    BY <1>11 DEF DepartmentsPage, Part
  <2> QED
    BY <2>1, OneListHonest, ThoroughIsHonest, ListsKnown DEF Names
<1>12. CASE part \in HolidaysPage
  <2>1. op \in {At("any", Op("add", "add", {}, {"holidays"}, {"holidays"})),
                Op("del", "del", {"holidays"}, {"holidays"}, {"holidays"})}
    BY <1>12 DEF HolidaysPage, Part
  <2> QED
    BY <2>1, OneListHonest, WrappedHonest, ThoroughIsHonest, ListsKnown DEF Names
<1> QED
  BY <1>1, <1>2, <1>3, <1>4, <1>5, <1>6, <1>7, <1>8, <1>9, <1>10, <1>11, <1>12
     DEF Parts, PageParts, PageNames

-----------------------------------------------------------------------------
(* Types. *)

Day  == [in : BOOLEAN, out : BOOLEAN, break : BOOLEAN]
Bell == [open : BOOLEAN, seenAt : Int, decided : SUBSET Versions, read : SUBSET Versions]
Call == [id : 1 .. scene.writes, op : Honest, by : Users, at : Nat, shown : Selections,
         here : BOOLEAN, saw : Versions \cup {None}, phase : {"sent", "done"} \cup Refusals,
         wrote : Versions]

Types ==
    /\ scene \in Scenes
    /\ user \in Users \cup {None} /\ page \in PageNames
    /\ sel \in Selections /\ sel \in SelectionsOf(page)
    /\ cache \in [Followed -> Query]
    /\ calls \subseteq Call
    /\ writes \in Versions /\ changed \in [Followed -> Versions]
    /\ promised \in [Followed -> Versions]
    /\ dayAt \in Seq(Day) /\ Len(dayAt) = writes + 1
    /\ closed \in BOOLEAN
    /\ bell \in Bell

LEMMA TypesGive == Types => TypeOK
BY DEF Types, TypeOK, Call, Bell

LEMMA SceneTypes ==
    ASSUME Types
    PROVE  /\ scene.writes \in Nat /\ scene.lists \subseteq ListNames
           /\ scene.users \subseteq Users /\ scene.pages \subseteq PageNames
           /\ Versions \subseteq Nat /\ 0 \in Versions /\ None \notin Versions
           /\ scene.skew \in Int
BY PagesAssumption DEF Types, Scene, Versions

LEMMA Frame ==
    ASSUME scene' = scene
    PROVE  /\ Versions' = Versions /\ Followed' = Followed
           /\ Query' = Query /\ Call' = Call /\ Bell' = Bell
BY DEF Versions, Followed, Query, Call, Bell

LEMMA UnloadedIsQuery == Types => Unloaded \in Query
BY SceneTypes DEF Unloaded, Query

\* A component that begins to observe a key changes nothing but starts a fetch.
LEMMA ObservedQuery ==
    ASSUME NEW c \in [Followed -> Query], NEW u \in Users \cup {None}, NEW keys
    PROVE  /\ Observed(c, u, keys) \in [Followed -> Query]
           /\ \A k \in Followed :
                 LET q == c[k]
                     r == Observed(c, u, keys)[k]
                 IN /\ r.data = q.data /\ r.of = q.of /\ r.due = q.due /\ r.carries = q.carries
                    /\ \/ r = q
                       \/ k \in keys /\ q.fetch = "none" /\ r.fetch = "asked" /\ r.asker = u
BY DEF Observed, Query

LEMMA ObservedKeeps ==
    ASSUME NEW c \in [Followed -> Query], NEW u \in Users \cup {None}, NEW keys,
           NEW k \in Followed
    PROVE  /\ Observed(c, u, keys)[k].data = c[k].data
           /\ Observed(c, u, keys)[k].carries = c[k].carries
BY DEF Observed, Query

\* The calls that are kept change nothing but what their page shows.
LEMMA KeptCalls ==
    ASSUME Types, NEW u, NEW p, NEW s \in Selections
    PROVE  /\ Kept(u, p, s) \subseteq Call
           /\ \A d \in Kept(u, p, s) : \E c \in calls :
                 /\ d.id = c.id /\ d.saw = c.saw
                 /\ d.op = c.op /\ d.at = c.at /\ d.phase = c.phase /\ d.wrote = c.wrote
                 /\ d.here => c.here /\ p = page /\ d.shown = s
           /\ (\A c, d \in calls : c.id = d.id => c = d)
                 => \A c, d \in Kept(u, p, s) : c.id = d.id => c = d
<1> DEFINE ops == UNION {part.ops : part \in Rendered(cache, u, p, s)}
           kept(c) == [c EXCEPT !.here = @ /\ p = page /\ c.op \in ops,
                                !.shown = IF c.here /\ p = page /\ c.op \in ops THEN s ELSE @]
<1>1. Kept(u, p, s) = {kept(c) : c \in calls}
  BY DEF Kept
<1> HIDE DEF ops
<1>2. ASSUME NEW c \in calls
      PROVE  /\ kept(c) \in Call
             /\ kept(c).id = c.id /\ kept(c).saw = c.saw
             /\ kept(c).op = c.op /\ kept(c).at = c.at /\ kept(c).phase = c.phase
             /\ kept(c).wrote = c.wrote
             /\ kept(c).here => c.here /\ p = page /\ kept(c).shown = s
  <2>1. c \in Call
    BY DEF Types
  <2> QED
    BY <2>1 DEF Call
<1> HIDE DEF kept
<1> QED
  BY <1>1, <1>2

-----------------------------------------------------------------------------
(* The steps. *)

\* A user signs in, or goes to another page or selection.
Visits ==
    \E u \in Users, p \in PageNames, s \in Selections :
        /\ user \in {None, u} /\ s \in SelectionsOf(p)
        /\ user' = u /\ page' = p /\ sel' = s
        /\ \E keys : cache' = Observed(cache, u, keys)
        /\ calls' = Kept(u, p, s)
        /\ UNCHANGED <<server, bell, promised>>

LEMMA Steps ==
    ASSUME Types, [Next]_vars
    PROVE  /\ scene' = scene
           /\ \/ Visits
              \/ (Press \/ ToggleBell \/ Logout \/ LoseSession) /\ UNCHANGED server
              \/ \E c \in calls : Serve(c) \/ TakeAnswer(c) \/ LoseAnswer(c)
              \/ Elsewhere \/ Midnight \/ CloseElsewhere
              \/ \E k \in Followed :
                    Poll(k) \/ ServeFetch(k) \/ TakeList(k) \/ FailFetch(k) \/ GoStale(k)
              \/ UNCHANGED vars
<1>1. CASE UNCHANGED vars
  BY <1>1 DEF vars
<1>2. CASE User /\ UNCHANGED <<server, faults, scene>>
  <2> USE DEF SelectionsOf
  <2>1. CASE Login
    BY <1>2, <2>1, SceneTypes DEF Login, MayVisit, Visit, Visits, Selections, Types
  <2>2. CASE Go
    BY <1>2, <2>2, SceneTypes DEF Go, MayVisit, Visit, Visits, Selections, Types
  <2>3. CASE Select
    <3>1. user \in Users /\ page \in PageNames
      BY <2>3 DEF Select, Types
    <3>2. SelectionsOf(page) \subseteq Selections
      BY DEF SelectionsOf, Selections
    <3> QED
      BY <1>2, <2>3, <3>1, <3>2 DEF Select, Visit, Visits
  <2> QED
    BY <1>2, <2>1, <2>2, <2>3 DEF User
<1> QED
  BY <1>1, <1>2 DEF Next, Progress

LEMMA VisitTypes ==
    ASSUME Types, scene' = scene, Visits
    PROVE  /\ user' \in Users /\ page' \in PageNames
           /\ sel' \in Selections /\ sel' \in SelectionsOf(page)'
           /\ cache' \in [Followed' -> Query'] /\ calls' \subseteq Call'
<1>1. PICK u \in Users, p \in PageNames, s \in Selections :
          /\ s \in SelectionsOf(p)
          /\ user' = u /\ page' = p /\ sel' = s
          /\ \E keys : cache' = Observed(cache, u, keys)
          /\ calls' = Kept(u, p, s)
  BY DEF Visits
<1>2. cache' \in [Followed -> Query]
  BY <1>1, ObservedQuery DEF Types
<1>3. calls' \subseteq Call
  BY <1>1, KeptCalls
<1>4. sel' \in SelectionsOf(page)'
  BY <1>1 DEF SelectionsOf
<1> QED
  BY <1>1, <1>2, <1>3, <1>4, Frame

LEMMA PressTypes ==
    ASSUME Types, scene' = scene, Press
    PROVE  calls' \subseteq Call'
<1>1. PICK op \in Ops, id \in 1 .. scene.writes :
          \E s \in Targets(op) :
             calls' = calls \cup
                 {[id |-> id, op |-> op, by |-> user, at |-> s, shown |-> sel, here |-> TRUE,
                   saw |-> SeenToday, phase |-> "sent", wrote |-> 0]}
  BY DEF Press
<1>2. op \in Honest
  BY PartsHonest DEF Ops, Rendered, Types
<1>3. Targets(op) \subseteq Nat
  <2>1. op.at \in {"shown", "next", "any"} /\ sel \in 1 .. 4 /\ page \in PageNames
    BY <1>2 DEF Honest, Types, Selections
  <2>2. SelectionsOf(page) \subseteq 1 .. 4
    BY DEF SelectionsOf, Selections
  <2> QED
    BY <2>1, <2>2 DEF Targets
<1>4. SeenToday \in Versions \cup {None}
  <2>1. ASSUME "today" \in scene.lists
        PROVE  KeyOf("today", 0) \in Followed
    <3>1. "today" \in ListNames /\ KeyOf("today", 0) = KeyOf("today", 1)
      BY ListsKnown DEF KeyOf, Selected
    <3> QED
      BY <2>1, <3>1 DEF Followed, KeysOf, KeyOf
  <2> QED
    BY <2>1 DEF SeenToday, Types, Query
<1>5. user \in Users
  BY DEF Press, Types
<1>6. ASSUME NEW s \in Targets(op)
      PROVE  [id |-> id, op |-> op, by |-> user, at |-> s, shown |-> sel, here |-> TRUE,
              saw |-> SeenToday, phase |-> "sent", wrote |-> 0] \in Call
  <2>1. sel \in Selections /\ s \in Nat /\ 0 \in Versions
    BY <1>3, SceneTypes DEF Types
  <2> QED
    BY <2>1, <1>2, <1>4, <1>5 DEF Call
<1>7. calls' \subseteq Call
  BY <1>1, <1>6 DEF Types
<1> QED
  BY <1>7, Frame

LEMMA WriteTypes ==
    ASSUME Types, scene' = scene, NEW keys, NEW day \in Day, Write(keys, day)
    PROVE  /\ writes' \in Versions' /\ writes' = writes + 1
           /\ changed' \in [Followed' -> Versions']
           /\ dayAt' \in Seq(Day) /\ Len(dayAt') = writes' + 1
<1>1. writes + 1 \in Versions
  BY SceneTypes DEF Write, Types, Versions
<1> QED
  BY <1>1, Frame DEF Write, Types

LEMMA DaysKnown ==
    ASSUME Types
    PROVE  /\ Today \in Day /\ \A type : Punched(Today, type) \in Day
           /\ Fixed(Today) \subseteq Day
<1>1. Today \in Day
  BY SceneTypes DEF Types, Today
<1>2. \A type : Punched(Today, type) \in Day
  BY <1>1 DEF Punched, Day
<1>3. ASSUME NEW type
      PROVE  [Punched(Today, type) EXCEPT !.break = Today.break] \in Day
  BY <1>1, <1>2 DEF Day
<1> QED
  BY <1>1, <1>2, <1>3 DEF Fixed

\* What a press, a click on the bell, or the end of a session leaves well typed.
LEMMA UserTypes ==
    ASSUME Types, scene' = scene, UNCHANGED server,
           Press \/ ToggleBell \/ Logout \/ LoseSession
    PROVE  Types'
<1>1. CASE Press
  BY <1>1, PressTypes, Frame DEF Press, Types, server, client
<1>2. CASE ToggleBell
  <2>1. bell' \in Bell
    <3>1. Listed \subseteq bell.decided
      BY DEF Listed
    <3>2. BrowserNow \in Int
      BY SceneTypes DEF Types, BrowserNow
    <3> QED
      BY <1>2, <3>1, <3>2 DEF ToggleBell, Types, Bell
  <2> QED
    BY <1>2, <2>1, Frame DEF ToggleBell, Types, server
<1>3. CASE Logout \/ LoseSession
  <2>1. /\ user' = None /\ bell' = [bell EXCEPT !.open = FALSE]
        /\ calls' = Kept(None, page, sel)
        /\ UNCHANGED <<page, sel, promised>>
    BY <1>3 DEF Logout, LoseSession, SignedOut
  <2>2. bell' \in Bell
    BY <2>1 DEF Types, Bell
  <2>3. calls' \subseteq Call
    BY <2>1, KeptCalls DEF Types
  <2>4. cache' \in [Followed -> Query]
    BY <1>3, UnloadedIsQuery DEF Logout, LoseSession, Types
  <2> QED
    BY <2>1, <2>2, <2>3, <2>4, Frame DEF Types, server
<1> QED
  BY <1>1, <1>2, <1>3

\* A call is carried out, or refused for a reason.
LEMMA Served ==
    ASSUME NEW c, Serve(c)
    PROVE  Carry(c) \/ \E why \in Refusals : Refuse(c, why)
BY DEF Serve, ServePunch, ServeOther, Refusals

LEMMA AnswerTypes ==
    ASSUME Types, scene' = scene, NEW c \in calls, Serve(c) \/ TakeAnswer(c) \/ LoseAnswer(c)
    PROVE  Types'
<1>1. c \in Call
  BY DEF Types
<1>2. CASE Serve(c) /\ Carry(c)
  <2>1. PICK day \in Day : Write(KeysOf(c.op.writes, c.at), day)
    BY <1>2, DaysKnown DEF Carry
  <2>2. /\ writes' \in Versions' /\ writes' = writes + 1
        /\ changed' \in [Followed' -> Versions']
        /\ dayAt' \in Seq(Day) /\ Len(dayAt') = writes' + 1
    BY <2>1, WriteTypes
  <2>3. [c EXCEPT !.phase = "done", !.wrote = writes + 1] \in Call
    BY <1>1, <2>2, Frame DEF Call
  <2>4. calls' \subseteq Call
    BY <1>2, <2>3 DEF Carry, Settle, Types
  <2>5. closed' \in BOOLEAN
    BY <1>2 DEF Carry, MayClose, Types
  <2> QED
    BY <1>2, <2>2, <2>4, <2>5, Frame DEF Serve, Types, client
<1>3. ASSUME NEW why \in Refusals, Serve(c), Refuse(c, why)
      PROVE  Types'
  <2>1. [c EXCEPT !.phase = why, !.wrote = 0] \in Call
    BY <1>1, SceneTypes DEF Call
  <2>2. calls' \subseteq Call
    BY <1>3, <2>1 DEF Refuse, Settle, Types
  <2> QED
    BY <1>3, <2>2, Frame DEF Refuse, Serve, Types, client, server
<1>4. CASE TakeAnswer(c)
  <2>1. ASSUME NEW k \in Followed, NEW observed
        PROVE  Invalidated(cache[k], observed) \in Query
    BY DEF Types, Invalidated, Query
  <2>2. cache' \in [Followed -> Query]
    <3>1. CASE c.phase = "done"
      <4>1. cache' = [k \in Followed |-> IF k \in Refreshes(c)
                                         THEN Invalidated(cache[k], k \in Shown) ELSE cache[k]]
        BY <1>4, <3>1 DEF TakeAnswer
      <4> QED
        BY <2>1, <4>1 DEF Types
    <3>2. CASE c.phase # "done"
      BY <1>4, <3>2 DEF TakeAnswer, Types
    <3> QED
      BY <3>1, <3>2
  <2>3. promised' \in [Followed -> Versions]
    BY <1>1, <1>4 DEF TakeAnswer, Types, Call
  <2> QED
    BY <1>4, <2>2, <2>3, Frame DEF TakeAnswer, Types, client, server
<1>5. CASE LoseAnswer(c)
  BY <1>5, Frame DEF LoseAnswer, Types, client, server
<1> QED
  BY <1>2, <1>3, <1>4, <1>5, Served

LEMMA FetchTypes ==
    ASSUME Types, scene' = scene, NEW k \in Followed,
           Poll(k) \/ ServeFetch(k) \/ TakeList(k) \/ FailFetch(k) \/ GoStale(k)
    PROVE  Types'
<1>1. /\ cache[k] \in Query /\ user \in Users \cup {None}
      /\ changed[k] \in Versions
  BY DEF Types
<1>2. UNCHANGED <<client, server, calls, promised>>
  BY DEF Poll, ServeFetch, TakeList, FailFetch, GoStale, Fetch
<1>3. cache' \in [Followed -> Query]
  <2>1. CASE Poll(k)
    BY <1>1, <2>1 DEF Poll, Fetch, Types, Query
  <2>2. CASE ServeFetch(k)
    BY <1>1, <2>2 DEF ServeFetch, Fetch, Types, Query
  <2>3. CASE FailFetch(k)
    BY <1>1, <2>3 DEF FailFetch, Fetch, Types, Query
  <2>4. CASE GoStale(k)
    BY <1>1, <2>4 DEF GoStale, Fetch, Types, Query
  <2>5. CASE TakeList(k)
    <3> DEFINE q == [Unloaded EXCEPT !.data = cache[k].carries, !.of = cache[k].asker, !.due = FALSE]
               c == [cache EXCEPT ![k] = q]
               keys == Mounted(Rendered(c, user, page, sel), sel) \ Shown
    <3>1. q \in Query
      BY <1>1, UnloadedIsQuery DEF Query
    <3>2. c \in [Followed -> Query]
      BY <3>1 DEF Types
    <3>3. cache' = Observed(c, user, keys)
      BY <2>5 DEF TakeList
    <3> HIDE DEF q, c, keys
    <3> QED
      BY <1>1, <3>2, <3>3, ObservedQuery
  <2> QED
    BY <2>1, <2>2, <2>3, <2>4, <2>5
<1> QED
  BY <1>2, <1>3, Frame DEF Types, client, server

LEMMA ElsewhereTypes ==
    ASSUME Types, scene' = scene, Elsewhere \/ Midnight
    PROVE  Types'
<1>1. PICK day \in Day : \E keys : Write(keys, day)
  <2>1. NoPunch \in Day
    BY DEF NoPunch, Day
  <2>2. CASE Midnight
    BY <2>1, <2>2 DEF Midnight
  <2>3. CASE Elsewhere
    <3>1. PICK k \in Followed :
              \E day \in IF k[1] = "today" /\ ~closed THEN Fixed(Today) ELSE {Today} :
                 Write({k}, day)
      BY <2>3 DEF Elsewhere
    <3> QED
      BY <3>1, DaysKnown
  <2> QED
    BY <2>2, <2>3
<1>2. /\ writes' \in Versions' /\ writes' = writes + 1
      /\ changed' \in [Followed' -> Versions']
      /\ dayAt' \in Seq(Day) /\ Len(dayAt') = writes' + 1
  BY <1>1, WriteTypes
<1>3. bell' \in Bell
  <2>1. writes + 1 \in Versions
    BY <1>2, Frame
  <2>2. bell' = bell \/ bell' = [bell EXCEPT !.decided = @ \cup {writes + 1}]
    BY DEF Elsewhere, Midnight, client
  <2>3. bell \in Bell /\ Bell' = Bell
    BY Frame DEF Types
  <2> QED
    BY <2>1, <2>2, <2>3 DEF Bell
<1>4. closed' \in BOOLEAN
  BY DEF Elsewhere, Midnight, Types
<1> QED
  BY <1>2, <1>3, <1>4, Frame DEF Elsewhere, Midnight, client, Types

LEMMA CloseTypes ==
    ASSUME Types, scene' = scene, CloseElsewhere
    PROVE  Types'
BY Frame DEF CloseElsewhere, client, Types

LEMMA TypesInitially == Init => Types
<1> SUFFICES ASSUME Init
             PROVE  Types
  OBVIOUS
<1>1. scene \in Scenes /\ Versions \subseteq Nat /\ 0 \in Versions
  BY PagesAssumption DEF Init, Scene, Versions
<1>2. Unloaded \in Query
  BY <1>1 DEF Unloaded, Query
<1>3. NoPunch \in Day
  BY DEF NoPunch, Day
<1>4. bell \in Bell
  BY <1>1 DEF Init, Bell
<1>5. page \in PageNames /\ sel \in Selections /\ sel \in SelectionsOf(page)
  BY DEF Init, PageNames, Selections, SelectionsOf
<1>6. dayAt \in Seq(Day) /\ Len(dayAt) = writes + 1
  BY <1>3 DEF Init
<1>7. closed \in BOOLEAN
  BY DEF Init
<1>8. /\ cache \in [Followed -> Query] /\ calls \subseteq Call /\ writes \in Versions
      /\ changed \in [Followed -> Versions] /\ promised \in [Followed -> Versions]
      /\ user \in Users \cup {None}
  BY <1>1, <1>2 DEF Init
<1> QED
  BY <1>1, <1>4, <1>5, <1>6, <1>7, <1>8 DEF Types

LEMMA TypesStep == Types /\ [Next]_vars => Types'
<1> SUFFICES ASSUME Types, [Next]_vars
             PROVE  Types'
  OBVIOUS
<1>1. scene' = scene
  BY Steps
<1>2. CASE Visits
  BY <1>1, <1>2, VisitTypes, Frame DEF Visits, Types, server
<1>3. CASE UNCHANGED vars
  BY <1>1, <1>3, Frame DEF vars, Types, client, server
<1> QED
  BY <1>1, <1>2, <1>3, Steps, UserTypes, AnswerTypes, FetchTypes, ElsewhereTypes,
     CloseTypes

\* The store, the cache and the calls of the pages hold values of their types.
THEOREM PagesTyped == Spec => []TypeOK
<1>1. Spec => []Types
  BY TypesInitially, TypesStep, PTL DEF Spec
<1> QED
  BY <1>1, TypesGive, PTL

-----------------------------------------------------------------------------
(* The lists of the user who is signed in. *)

\* Nothing has been loaded, or is being loaded, for anyone else.
OwnCache ==
    /\ Types
    /\ \A k \in Followed :
          /\ cache[k].data # None => user # None /\ cache[k].of = user
          /\ cache[k].fetch # "none" => user # None /\ cache[k].asker = user

LEMMA NobodySeesNothing ==
    ASSUME user = None
    PROVE  Rendered(cache, user, page, sel) = {} /\ Polled = {} /\ Shown = {}
BY DEF Rendered, Polled, Shown, Mounted, KeysOf

LEMMA ShownFollowed == Types => Shown \subseteq Followed
<1> SUFFICES ASSUME Types, NEW k \in Shown
             PROVE  k \in Followed
  OBVIOUS
<1>1. user # None /\ user \in Users
  BY NobodySeesNothing DEF Types
<1>2. PICK part \in Parts(user, page, sel), n \in scene.lists :
          n \in part.shows /\ k = KeyOf(n, sel)
  <2> DEFINE rendered == Rendered(cache, user, page, sel)
  <2>1. PICK n \in (UNION {part.shows : part \in rendered}) \cap scene.lists : k = KeyOf(n, sel)
    BY DEF Shown, Mounted, KeysOf
  <2>2. rendered \subseteq Parts(user, page, sel)
    BY <1>1 DEF Rendered
  <2> HIDE DEF rendered
  <2>3. PICK part \in rendered : n \in part.shows
    BY <2>1
  <2> QED
    BY <2>1, <2>2, <2>3
<1>3. n \in ListNames
  BY <1>2, SceneTypes
<1>4. sel \in {1, 2} \/ n \notin Selected
  <2>1. page = "requests" \/ sel \in {1, 2}
    BY DEF Types, SelectionsOf
  <2>2. ASSUME page = "requests"
        PROVE  n \in {"own", "queue"}
    <3>1. part \in {NotificationBell(user)} \cup RequestsPage(sel)
      BY <1>2, <2>2 DEF Parts, PageParts
    <3>2. sel \in 1 .. 4
      BY DEF Types, Selections
    <3> QED
      BY <1>2, <3>1, <3>2
         DEF NotificationBell, RequestsPage, RequestTable, PunchFixForm, OvertimeForm,
             OvertimePostForm, LeaveForm, RequestForm, Part
  <2> QED
    BY <2>1, <2>2 DEF Selected
<1> QED
  BY <1>2, <1>3, <1>4 DEF Followed, KeysOf, KeyOf

LEMMA OwnCacheStep ==
    ASSUME \A s \in Scenes : "lose" \notin s.does
    PROVE  OwnCache /\ [Next]_vars => OwnCache'
<1> SUFFICES ASSUME OwnCache, [Next]_vars
             PROVE  OwnCache'
  OBVIOUS
<1>1. Types /\ Types' /\ scene' = scene /\ Followed' = Followed
  BY TypesStep, Steps, Frame DEF OwnCache
<1>2. \A k \in Followed : cache[k] \in Query
  BY <1>1 DEF Types
<1>3. ASSUME UNCHANGED <<user, cache>>
      PROVE  OwnCache'
  BY <1>1, <1>3 DEF OwnCache
<1>4. CASE Visits
  <2>1. PICK u \in Users : /\ user \in {None, u} /\ user' = u
                           /\ \E keys : cache' = Observed(cache, u, keys)
    BY <1>4 DEF Visits
  <2>2. u # None
    BY PagesAssumption
  <2>3. \A k \in Followed :
           /\ cache'[k].data = cache[k].data /\ cache'[k].of = cache[k].of
           /\ \/ cache'[k] = cache[k]
              \/ cache'[k].asker = u
    BY <1>1, <2>1, ObservedQuery DEF Types
  <2> QED
    BY <1>1, <2>1, <2>2, <2>3 DEF OwnCache
<1>5. CASE Press \/ ToggleBell \/ Elsewhere \/ Midnight \/ CloseElsewhere
  BY <1>3, <1>5 DEF Press, ToggleBell, Elsewhere, Midnight, CloseElsewhere, client
<1>6. CASE Logout
  <2>1. \A k \in Followed : cache'[k].data = None /\ cache'[k].fetch = "none"
    BY <1>6 DEF Logout, Unloaded
  <2> QED
    BY <1>1, <2>1 DEF OwnCache
<1>7. CASE LoseSession
  BY <1>1, <1>7 DEF LoseSession, Types
<1>8. ASSUME NEW c \in calls, Serve(c) \/ LoseAnswer(c)
      PROVE  OwnCache'
  BY <1>3, <1>8 DEF Serve, LoseAnswer, client
<1>9. ASSUME NEW c \in calls, TakeAnswer(c)
      PROVE  OwnCache'
  <2>1. user' = user
    BY <1>9 DEF TakeAnswer, client
  <2>2. ASSUME NEW k \in Followed
        PROVE  /\ cache'[k].data = cache[k].data /\ cache'[k].of = cache[k].of
               /\ \/ cache'[k].fetch = cache[k].fetch /\ cache'[k].asker = cache[k].asker
                  \/ user # None /\ cache'[k].asker = user
    <3>1. cache'[k] \in {cache[k], Invalidated(cache[k], k \in Shown)}
      BY <1>9 DEF TakeAnswer, Types
    <3>2. k \in Shown => user # None
      BY NobodySeesNothing
    <3> QED
      BY <1>2, <3>1, <3>2 DEF Invalidated, Query
  <2> QED
    BY <1>1, <2>1, <2>2 DEF OwnCache
<1>10. ASSUME NEW k \in Followed, Poll(k) \/ ServeFetch(k) \/ FailFetch(k) \/ GoStale(k)
       PROVE  OwnCache'
  <2>1. user' = user /\ \A j \in Followed \ {k} : cache'[j] = cache[j]
    BY <1>1, <1>10 DEF Poll, ServeFetch, FailFetch, GoStale, Fetch, client, Types
  <2>2. Poll(k) => user # None
    BY NobodySeesNothing DEF Poll
  <2>3. /\ cache'[k].data = cache[k].data /\ cache'[k].of = cache[k].of
        /\ \/ cache'[k].fetch = "none"
           \/ cache[k].fetch # "none" /\ cache'[k].asker = cache[k].asker
           \/ cache'[k].fetch = cache[k].fetch /\ cache'[k].asker = cache[k].asker
           \/ user # None /\ cache'[k].asker = user
    <3>1. cache[k] \in Query /\ cache \in [Followed -> Query]
      BY <1>1 DEF Types
    <3>2. CASE Poll(k)
      BY <2>2, <3>1, <3>2 DEF Poll, Fetch, Query
    <3>3. CASE ServeFetch(k)
      BY <3>1, <3>3 DEF ServeFetch, Fetch, Query
    <3>4. CASE FailFetch(k)
      BY <3>1, <3>4 DEF FailFetch, Fetch, Query
    <3>5. CASE GoStale(k)
      BY <3>1, <3>5 DEF GoStale, Fetch, Query
    <3> QED
      BY <1>10, <3>2, <3>3, <3>4, <3>5
  <2> QED
    BY <1>1, <2>1, <2>3 DEF OwnCache
<1>11. ASSUME NEW k \in Followed, TakeList(k)
       PROVE  OwnCache'
  <2> DEFINE q == [Unloaded EXCEPT !.data = cache[k].carries, !.of = cache[k].asker, !.due = FALSE]
             c == [cache EXCEPT ![k] = q]
             keys == Mounted(Rendered(c, user, page, sel), sel) \ Shown
  <2>1. user # None /\ user' = user /\ user \in Users \cup {None} /\ cache[k].asker = user
    BY <1>1, <1>11 DEF TakeList, client, OwnCache, Types
  <2>2. q \in Query /\ q.of = user /\ q.fetch = "none"
    BY <1>1, <1>2, <2>1, UnloadedIsQuery DEF Query, Unloaded
  <2>3. c \in [Followed -> Query] /\ \A j \in Followed : c[j] = IF j = k THEN q ELSE cache[j]
    BY <1>1, <2>2 DEF Types
  <2>4. cache' = Observed(c, user, keys)
    BY <1>11 DEF TakeList
  <2> HIDE DEF q, c, keys
  <2>5. \A j \in Followed :
           /\ cache'[j].data = c[j].data /\ cache'[j].of = c[j].of
           /\ cache'[j] = c[j] \/ cache'[j].asker = user
    BY <2>1, <2>3, <2>4, ObservedQuery
  <2> QED
    BY <1>1, <2>1, <2>2, <2>3, <2>5 DEF OwnCache
<1>12. CASE UNCHANGED vars
  BY <1>3, <1>12 DEF vars, client
<1> QED
  BY <1>1, <1>4, <1>5, <1>6, <1>7, <1>8, <1>9, <1>10, <1>11, <1>12, Steps

\* Unless a session is lost, nobody sees the lists of the user who was signed in before
\* on this browser: the cache is cleared by a logout, and a fetch that was on its way is
\* dropped with it.
THEOREM ListsOfTheUser ==
    ASSUME \A s \in Scenes : "lose" \notin s.does
    PROVE  Spec => []CacheOfUser
<1>1. Init => OwnCache
  <2> SUFFICES ASSUME Init
               PROVE  OwnCache
    OBVIOUS
  <2>1. Types /\ cache = [k \in Followed |-> Unloaded]
    BY TypesInitially DEF Init
  <2> QED
    BY <2>1 DEF OwnCache, Unloaded
<1>2. OwnCache => CacheOfUser
  BY ShownFollowed DEF OwnCache, CacheOfUser
<1>3. OwnCache /\ [Next]_vars => OwnCache'
  BY OwnCacheStep
<1> QED
  BY <1>1, <1>2, <1>3, PTL DEF Spec

-----------------------------------------------------------------------------
(* The user's own changes. *)

\* What was promised has happened, and what is on its way or up to date contains it.
KeySound(k) ==
    /\ promised[k] <= changed[k] /\ changed[k] <= writes
    /\ cache[k].fetch = "served" => cache[k].carries # None /\ promised[k] <= cache[k].carries
    /\ cache[k].data # None /\ ~cache[k].due /\ cache[k].fetch = "none"
          => promised[k] <= cache[k].data

\* A call knows what its page shows, its write has changed the lists it writes to, and
\* only the page of the requests leaves a list that it writes to as it is.
CallSound(c) ==
    /\ c.here => c.shown = sel /\ (page # "requests" => c.op \in Thorough)
    /\ c.phase = "done" => \A k \in KeysOf(c.op.writes, c.at) \cap Followed : c.wrote <= changed[k]

WritesSound ==
    /\ Types
    /\ \A k \in Followed : KeySound(k)
    /\ \A c \in calls : CallSound(c)

\* What a page promises to show, it loads again: the operations invalidate the lists they
\* write to, and the page still shows the selection that they refresh.
LEMMA RequestsShowOwn ==
    ASSUME Types, page = "requests", NEW k \in ShownByPage
    PROVE  \E n : k = KeyOf(n, sel) /\ n = "own"
<1>1. PICK part \in PageParts(page, sel) : \E n \in part.shows : k = KeyOf(n, sel)
  <2> DEFINE parts == Rendered(cache, user, page, sel) \cap PageParts(page, sel)
  <2>1. PICK n \in (UNION {part.shows : part \in parts}) \cap scene.lists : k = KeyOf(n, sel)
    BY DEF ShownByPage, Mounted, KeysOf
  <2>2. parts \subseteq PageParts(page, sel)
    OBVIOUS
  <2> HIDE DEF parts
  <2> QED
    BY <2>1, <2>2
<1>2. part \in RequestsPage(sel) /\ sel \in 1 .. 4
  BY <1>1 DEF PageParts, Types, Selections
<1>3. part.shows \subseteq {"own"}
  BY <1>2
     DEF RequestsPage, RequestTable, PunchFixForm, OvertimeForm, OvertimePostForm, LeaveForm,
         RequestForm, Part
<1> QED
  BY <1>1, <1>3

LEMMA PromisesRefreshed ==
    ASSUME Types, NEW c \in calls, CallSound(c), NEW k \in Followed, k \in Promises(c)
    PROVE  k \in Refreshes(c) /\ k \in Shown /\ cache[k].data # None
<1>1. c.here /\ k \in ShownByPage /\ cache[k].data # None
  BY DEF Promises
<1>2. k \in Shown
  BY <1>1 DEF ShownByPage, Shown, Mounted, KeysOf
<1>3. c.shown = sel /\ (page # "requests" => c.op \in Thorough)
  BY <1>1 DEF CallSound
<1>4. PICK n \in c.op.writes : k = KeyOf(n, c.at)
  BY DEF Promises, KeysOf
<1>5. PICK m : k = KeyOf(m, sel) /\ (page = "requests" => m = "own")
  <2>1. CASE page = "requests"
    BY <1>1, <2>1, RequestsShowOwn
  <2>2. CASE page # "requests"
    BY <1>1, <2>2 DEF ShownByPage, Mounted, KeysOf
  <2> QED
    BY <2>1, <2>2
<1>6. n = m /\ k = KeyOf(n, c.shown) /\ k[1] = n
  BY <1>3, <1>4, <1>5 DEF KeyOf
<1>7. n \in c.op.refreshes
  <2>1. c.op.writes \ {"queue"} \subseteq c.op.refreshes
    BY DEF Types, Call, Honest
  <2> QED
    BY <1>3, <1>4, <1>5, <1>6, <2>1 DEF Thorough
<1>8. k \in KeysOf(c.op.refreshes, c.shown)
  BY <1>6, <1>7 DEF KeysOf
<1> QED
  BY <1>1, <1>2, <1>6, <1>7, <1>8 DEF Refreshes

LEMMA KeyTypes ==
    ASSUME Types
    PROVE  /\ Versions \subseteq Nat /\ None \notin Nat /\ writes \in Nat
           /\ \A k \in Followed : /\ cache[k] \in Query
                                  /\ changed[k] \in Nat /\ promised[k] \in Nat
           /\ \A c \in calls : c \in Call /\ c.wrote \in Nat
<1>1. Versions \subseteq Nat /\ None \notin Nat
  BY SceneTypes, PagesAssumption
<1> QED
  BY <1>1 DEF Types, Call

LEMMA VisitSound ==
    ASSUME WritesSound, scene' = scene, Visits
    PROVE  /\ \A k \in Followed : KeySound(k)'
           /\ \A d \in calls' : CallSound(d)'
<1>1. PICK u \in Users, p \in PageNames, s \in Selections :
          /\ sel' = s /\ page' = p
          /\ \E keys : cache' = Observed(cache, u, keys)
          /\ calls' = Kept(u, p, s)
          /\ UNCHANGED <<server, bell, promised>>
  BY DEF Visits
<1>2. ASSUME NEW k \in Followed
      PROVE  KeySound(k)'
  <2>1. /\ cache'[k].data = cache[k].data /\ cache'[k].due = cache[k].due
        /\ cache'[k].carries = cache[k].carries
        /\ cache'[k] = cache[k] \/ cache'[k].fetch = "asked"
    BY <1>1, ObservedQuery DEF WritesSound, Types
  <2> QED
    BY <1>1, <2>1 DEF WritesSound, KeySound, server
<1>3. ASSUME NEW d \in calls'
      PROVE  CallSound(d)'
  <2>1. PICK c \in calls : /\ d.op = c.op /\ d.at = c.at /\ d.phase = c.phase
                           /\ d.wrote = c.wrote
                           /\ d.here => c.here /\ page' = page /\ d.shown = sel'
    BY <1>1, KeptCalls DEF WritesSound
  <2> QED
    BY <1>1, <2>1, Frame DEF WritesSound, CallSound, server
<1> QED
  BY <1>2, <1>3

LEMMA EndSound ==
    ASSUME WritesSound, scene' = scene, UNCHANGED server, Logout \/ LoseSession
    PROVE  /\ \A k \in Followed : KeySound(k)'
           /\ \A d \in calls' : CallSound(d)'
<1>1. calls' = Kept(None, page, sel) /\ UNCHANGED <<page, sel, promised>>
  BY DEF Logout, LoseSession, SignedOut
<1>2. ASSUME NEW k \in Followed
      PROVE  KeySound(k)'
  <2>1. cache'[k] \in {cache[k], Unloaded}
    BY DEF Logout, LoseSession
  <2> QED
    BY <1>1, <2>1 DEF WritesSound, KeySound, Unloaded, server
<1>3. ASSUME NEW d \in calls'
      PROVE  CallSound(d)'
  <2>1. PICK c \in calls : /\ d.op = c.op /\ d.at = c.at /\ d.phase = c.phase
                           /\ d.wrote = c.wrote
                           /\ d.here => c.here /\ d.shown = sel
    BY <1>1, KeptCalls DEF WritesSound, Types
  <2> QED
    BY <1>1, <2>1, Frame DEF WritesSound, CallSound, server
<1> QED
  BY <1>2, <1>3

LEMMA WriteSound ==
    ASSUME WritesSound, scene' = scene, NEW keys, NEW day, Write(keys, day),
           UNCHANGED <<page, sel, cache, promised>>
    PROVE  /\ \A k \in Followed : changed'[k] = IF k \in keys THEN writes + 1 ELSE changed[k]
           /\ \A k \in Followed : changed[k] <= changed'[k] /\ KeySound(k)'
           /\ \A c \in calls : CallSound(c)'
<1>1. \A k \in Followed : changed'[k] = IF k \in keys THEN writes + 1 ELSE changed[k]
  BY DEF Write
<1>2. ASSUME NEW k \in Followed
      PROVE  changed[k] <= changed'[k] /\ KeySound(k)'
  <2>1. writes' = writes + 1
    BY DEF Write
  <2> QED
    BY <1>1, <2>1, KeyTypes DEF WritesSound, KeySound
<1>3. ASSUME NEW c \in calls
      PROVE  CallSound(c)'
  <2>1. CallSound(c) /\ Followed' = Followed
    BY Frame DEF WritesSound
  <2>2. ASSUME NEW k \in KeysOf(c.op.writes, c.at) \cap Followed, c.phase = "done"
        PROVE  c.wrote <= changed'[k]
    <3>1. c.wrote <= changed[k] /\ changed[k] <= changed'[k]
      BY <1>2, <2>1, <2>2 DEF CallSound
    <3>2. c.wrote \in Nat /\ changed[k] \in Nat /\ changed'[k] \in Nat
      BY <1>1, KeyTypes DEF WritesSound
    <3> QED
      BY <3>1, <3>2
  <2> QED
    BY <2>1, <2>2 DEF CallSound
<1> QED
  BY <1>1, <1>2, <1>3

LEMMA ServeSound ==
    ASSUME WritesSound, scene' = scene, NEW c \in calls, Serve(c)
    PROVE  /\ \A k \in Followed : KeySound(k)'
           /\ \A d \in calls' : CallSound(d)'
<1>1. c \in Call /\ CallSound(c) /\ UNCHANGED <<page, sel, cache, promised>>
  BY DEF WritesSound, Types, Serve, client
<1>2. CASE Carry(c)
  <2>1. PICK day : Write(KeysOf(c.op.writes, c.at), day)
    BY <1>2 DEF Carry
  <2>2. /\ \A k \in Followed : KeySound(k)'
        /\ \A k \in KeysOf(c.op.writes, c.at) \cap Followed : changed'[k] = writes + 1
        /\ \A d \in calls : CallSound(d)'
    BY <1>1, <2>1, WriteSound
  <2>3. PICK d : /\ d = [c EXCEPT !.phase = "done", !.wrote = writes + 1]
                 /\ calls' = (calls \ {c}) \cup {d}
    BY <1>2 DEF Carry, Settle
  <2>4. CallSound(d)'
    <3>1. /\ d.op = c.op /\ d.at = c.at /\ d.here = c.here /\ d.shown = c.shown
          /\ d.wrote = writes + 1
      BY <1>1, <2>3 DEF Call
    <3>2. \A k \in KeysOf(d.op.writes, d.at) \cap Followed' : d.wrote <= changed'[k]
      BY <2>2, <3>1, KeyTypes, Frame DEF WritesSound
    <3> QED
      BY <1>1, <3>1, <3>2 DEF CallSound
  <2> QED
    BY <2>2, <2>3, <2>4
<1>3. ASSUME NEW why \in Refusals, Refuse(c, why)
      PROVE  /\ \A k \in Followed : KeySound(k)'
             /\ \A d \in calls' : CallSound(d)'
  <2> DEFINE d == [c EXCEPT !.phase = why, !.wrote = 0]
  <2>1. calls' = (calls \ {c}) \cup {d} /\ UNCHANGED server
    BY <1>3 DEF Refuse, Settle
  <2>2. d.op = c.op /\ d.here = c.here /\ d.shown = c.shown /\ d.phase # "done"
    BY <1>1, <1>3 DEF Call, Refusals
  <2> HIDE DEF d
  <2>3. CallSound(d)'
    BY <1>1, <2>2 DEF CallSound
  <2> QED
    BY <1>1, <2>1, <2>3, Frame DEF WritesSound, KeySound, CallSound, server
<1> QED
  BY <1>2, <1>3, Served

LEMMA TakeAnswerSound ==
    ASSUME WritesSound, scene' = scene, NEW c \in calls, TakeAnswer(c)
    PROVE  \A k \in Followed : KeySound(k)'
<1> SUFFICES ASSUME NEW k \in Followed
             PROVE  KeySound(k)'
  OBVIOUS
<1>1. KeySound(k) /\ CallSound(c) /\ UNCHANGED <<changed, writes>>
  BY DEF WritesSound, TakeAnswer, server
<1>2. cache[k] \in Query /\ changed[k] \in Nat /\ promised[k] \in Nat
  BY KeyTypes DEF WritesSound
<1>3. CASE c.phase # "done"
  BY <1>1, <1>3 DEF TakeAnswer, KeySound
<1>4. CASE c.phase = "done"
  <2>1. /\ cache'[k] = IF k \in Refreshes(c) THEN Invalidated(cache[k], k \in Shown) ELSE cache[k]
        /\ promised'[k] = IF k \in Promises(c) /\ promised[k] < c.wrote
                          THEN c.wrote ELSE promised[k]
    BY <1>4 DEF TakeAnswer
  <2>2. CASE k \in Promises(c)
    <3>1. c.wrote <= changed[k]
      BY <1>1, <1>4, <2>2 DEF CallSound, Promises
    <3>2. k \in Refreshes(c) /\ k \in Shown /\ cache[k].data # None
      BY <1>1, <2>2, PromisesRefreshed DEF WritesSound
    <3>3. cache'[k].fetch = "asked"
      BY <1>2, <2>1, <3>2 DEF Invalidated, Query
    <3> QED
      BY <1>1, <1>2, <2>1, <3>1, <3>3 DEF KeySound
  <2>3. CASE k \notin Promises(c)
    <3>1. promised'[k] = promised[k]
      BY <2>1, <2>3
    <3>2. CASE cache'[k] = cache[k]
      BY <1>1, <3>1, <3>2 DEF KeySound
    <3>3. CASE cache'[k] = Invalidated(cache[k], k \in Shown)
      <4>1. CASE k \notin Shown
        <5>1. /\ cache'[k].due /\ cache'[k].fetch = cache[k].fetch
              /\ cache'[k].carries = cache[k].carries
          BY <1>2, <3>3, <4>1 DEF Invalidated, Query
        <5> QED
          BY <1>1, <3>1, <5>1 DEF KeySound
      <4>2. CASE k \in Shown
        <5>1. cache'[k] = cache[k] \/ cache'[k].fetch = "asked"
          BY <1>2, <3>3, <4>2 DEF Invalidated, Query
        <5> QED
          BY <1>1, <3>1, <5>1 DEF KeySound
      <4> QED
        BY <4>1, <4>2
    <3> QED
      BY <2>1, <3>2, <3>3
  <2> QED
    BY <2>2, <2>3
<1> QED
  BY <1>3, <1>4

LEMMA FetchSound ==
    ASSUME WritesSound, scene' = scene, NEW k \in Followed,
           Poll(k) \/ ServeFetch(k) \/ TakeList(k) \/ FailFetch(k) \/ GoStale(k)
    PROVE  \A j \in Followed : KeySound(j)'
<1>1. /\ cache[k] \in Query /\ changed[k] \in Nat /\ promised[k] \in Nat /\ None \notin Nat
      /\ cache \in [Followed -> Query] /\ \A j \in Followed : KeySound(j)
  BY KeyTypes DEF WritesSound, Types
<1>2. UNCHANGED <<server, promised>>
  BY DEF Poll, ServeFetch, TakeList, FailFetch, GoStale, Fetch
<1>3. ASSUME NEW q \in Query, Fetch(k, q),
             q.fetch = "served" => q.carries # None /\ promised[k] <= q.carries,
             q.fetch = "none" => q.due
      PROVE  \A j \in Followed : KeySound(j)'
  <2>1. \A j \in Followed : cache'[j] = IF j = k THEN q ELSE cache[j]
    BY <1>1, <1>3 DEF Fetch
  <2> QED
    BY <1>1, <1>2, <1>3, <2>1 DEF KeySound, server
<1>4. CASE Poll(k)
  <2> DEFINE q == [cache[k] EXCEPT !.fetch = "asked", !.asker = user]
  <2>1. q \in Query /\ q.fetch = "asked"
    BY <1>1 DEF Query, WritesSound, Types
  <2> QED
    BY <1>3, <1>4, <2>1 DEF Poll
<1>5. CASE ServeFetch(k)
  <2> DEFINE q == [cache[k] EXCEPT !.fetch = "served", !.carries = changed[k]]
  <2>1. q \in Query /\ q.fetch = "served" /\ q.carries = changed[k]
    BY <1>1 DEF Query, WritesSound, Types
  <2>2. promised[k] <= changed[k]
    BY <1>1 DEF KeySound
  <2> QED
    BY <1>1, <1>3, <1>5, <2>1, <2>2 DEF ServeFetch
<1>6. CASE FailFetch(k)
  <2> DEFINE q == [cache[k] EXCEPT !.fetch = "none", !.carries = None, !.asker = None, !.due = TRUE]
  <2>1. q \in Query /\ q.fetch = "none" /\ q.due
    BY <1>1 DEF Query
  <2> QED
    BY <1>3, <1>6, <2>1 DEF FailFetch
<1>7. CASE GoStale(k)
  <2> DEFINE q == [cache[k] EXCEPT !.due = TRUE]
  <2>1. q \in Query /\ q.fetch = cache[k].fetch /\ q.carries = cache[k].carries /\ q.due
    BY <1>1 DEF Query
  <2>2. cache[k].fetch = "served" => cache[k].carries # None /\ promised[k] <= cache[k].carries
    BY <1>1 DEF KeySound
  <2> QED
    BY <1>3, <1>7, <2>1, <2>2 DEF GoStale
<1>8. CASE TakeList(k)
  <2> DEFINE q == [Unloaded EXCEPT !.data = cache[k].carries, !.of = cache[k].asker, !.due = FALSE]
             c == [cache EXCEPT ![k] = q]
             keys == Mounted(Rendered(c, user, page, sel), sel) \ Shown
  <2>1. /\ q \in Query /\ q.data = cache[k].carries /\ q.fetch = "none"
    BY <1>1, UnloadedIsQuery DEF WritesSound, Query, Unloaded
  <2>2. c \in [Followed -> Query] /\ \A j \in Followed : c[j] = IF j = k THEN q ELSE cache[j]
    BY <1>1, <2>1
  <2>3. cache' = Observed(c, user, keys) /\ cache[k].fetch = "served"
    BY <1>8 DEF TakeList
  <2>4. promised[k] <= q.data
    BY <1>1, <2>1, <2>3 DEF KeySound
  <2>5. user \in Users \cup {None}
    BY DEF WritesSound, Types
  <2> HIDE DEF q, c, keys
  <2>6. \A j \in Followed :
           /\ cache'[j].data = c[j].data /\ cache'[j].due = c[j].due
           /\ cache'[j].carries = c[j].carries
           /\ cache'[j] = c[j] \/ cache'[j].fetch = "asked"
    BY <2>2, <2>3, <2>5, ObservedQuery
  <2> QED
    BY <1>1, <1>2, <2>1, <2>2, <2>4, <2>6 DEF KeySound, server
<1> QED
  BY <1>4, <1>5, <1>6, <1>7, <1>8

LEMMA WritesStep == WritesSound /\ [Next]_vars => WritesSound'
<1> SUFFICES ASSUME WritesSound, [Next]_vars
             PROVE  WritesSound'
  OBVIOUS
<1>1. Types /\ Types' /\ scene' = scene /\ Followed' = Followed
  BY TypesStep, Steps, Frame DEF WritesSound
<1>2. ASSUME \A k \in Followed : KeySound(k)', \A d \in calls' : CallSound(d)'
      PROVE  WritesSound'
  BY <1>1, <1>2 DEF WritesSound
<1>3. ASSUME UNCHANGED <<page, sel, changed>>, calls' \subseteq calls
      PROVE  \A d \in calls' : CallSound(d)'
  BY <1>1, <1>3 DEF WritesSound, CallSound
<1>4. ASSUME UNCHANGED <<writes, changed, cache, promised>>
      PROVE  \A k \in Followed : KeySound(k)'
  BY <1>4 DEF WritesSound, KeySound, server
<1>5. CASE Press /\ UNCHANGED server
  <2>1. UNCHANGED <<server, page, sel, cache, promised>>
    BY <1>5 DEF Press, client
  <2>2. ASSUME NEW d \in calls' \ calls
        PROVE  d.shown = sel /\ d.phase = "sent" /\ d.op \in Ops
    BY <1>5 DEF Press
  <2>3. ASSUME NEW op \in Ops
        PROVE  page # "requests" => op \in Thorough
    BY <1>1, PartsHonest DEF Ops, Rendered, Types
  <2>4. \A d \in calls' : CallSound(d)'
    BY <1>1, <2>1, <2>2, <2>3 DEF WritesSound, CallSound, server
  <2> QED
    BY <1>2, <1>4, <2>1, <2>4 DEF server
<1>6. CASE ToggleBell /\ UNCHANGED server
  BY <1>2, <1>3, <1>4, <1>6 DEF ToggleBell, server
<1>7. CASE Elsewhere \/ Midnight
  <2>1. PICK keys, day : Write(keys, day)
    BY <1>7 DEF Elsewhere, Midnight
  <2>2. UNCHANGED <<page, sel, cache, promised, calls>>
    BY <1>7 DEF Elsewhere, Midnight, client
  <2> QED
    BY <1>1, <1>2, <2>1, <2>2, WriteSound
<1>13. CASE CloseElsewhere
  BY <1>2, <1>3, <1>4, <1>13 DEF CloseElsewhere, client
<1>8. ASSUME NEW c \in calls, Serve(c)
      PROVE  WritesSound'
  BY <1>1, <1>2, <1>8, ServeSound
<1>9. ASSUME NEW c \in calls, TakeAnswer(c)
      PROVE  WritesSound'
  BY <1>1, <1>2, <1>3, <1>9, TakeAnswerSound DEF TakeAnswer, client, server
<1>10. ASSUME NEW c \in calls, LoseAnswer(c)
       PROVE  WritesSound'
  BY <1>2, <1>3, <1>4, <1>10 DEF LoseAnswer, client, server
<1>11. ASSUME NEW k \in Followed,
              Poll(k) \/ ServeFetch(k) \/ TakeList(k) \/ FailFetch(k) \/ GoStale(k)
       PROVE  WritesSound'
  <2>1. UNCHANGED <<page, sel, changed, calls>>
    BY <1>11 DEF Poll, ServeFetch, TakeList, FailFetch, GoStale, Fetch, client, server
  <2> QED
    BY <1>1, <1>2, <1>3, <1>11, <2>1, FetchSound
<1>12. CASE UNCHANGED vars
  BY <1>2, <1>3, <1>4, <1>12 DEF vars, client, server
<1> QED
  BY <1>1, <1>2, <1>5, <1>6, <1>7, <1>8, <1>9, <1>10, <1>11, <1>12, <1>13, Steps, VisitSound,
     EndSound

\* Once a change of the user's was answered to a page that showed the changed list in a
\* component of its own, that list never passes for up to date without the change: the
\* operation invalidates every list of its page that it writes to, which replaces the
\* fetch that may have been answered before the change. The queue that an approver's own
\* request changes is a list of the bell, and not of the page of the requests.
THEOREM OwnChangesShown == Spec => []OwnWritesShown
<1>1. Init => WritesSound
  <2> SUFFICES ASSUME Init
               PROVE  WritesSound
    OBVIOUS
  <2>1. /\ Types /\ cache = [k \in Followed |-> Unloaded] /\ calls = {} /\ writes = 0
        /\ changed = [k \in Followed |-> 0] /\ promised = [k \in Followed |-> 0]
    BY TypesInitially DEF Init
  <2> QED
    BY <2>1 DEF WritesSound, KeySound, Unloaded
<1>2. WritesSound => OwnWritesShown
  <2> SUFFICES ASSUME WritesSound, NEW k \in Followed,
                      cache[k].data # None, ~cache[k].due, cache[k].fetch = "none"
               PROVE  cache[k].data >= promised[k]
    BY DEF OwnWritesShown
  <2>1. cache[k].data \in Nat /\ promised[k] \in Nat
    BY KeyTypes DEF WritesSound, Query
  <2> QED
    BY <2>1 DEF WritesSound, KeySound
<1> QED
  BY <1>1, <1>2, WritesStep, PTL DEF Spec

-----------------------------------------------------------------------------
(* Punches. *)

TodayKey == KeyOf("today", 0)

\* Since the last change of the punches, the day has been as it is now, and a punch that
\* waits for its answer was offered by the day that its page showed.
DaySound ==
    /\ TodayKey \in Followed => \A w \in changed[TodayKey] .. writes : dayAt[w + 1] = Today
    /\ \A k \in Followed : /\ changed[k] <= writes
                           /\ cache[k].data # None => cache[k].data <= writes
                           /\ cache[k].carries # None => cache[k].carries <= writes

PunchSound(c) ==
    c.op.busy = "punch" =>
        /\ TodayKey \in Followed
        /\ c.saw # None => /\ c.saw <= writes
                           /\ Offered(c.op.name, PunchState(dayAt[c.saw + 1]))

PunchesSound ==
    /\ Types /\ DaySound
    /\ \A c, d \in calls : c.id = d.id => c = d
    /\ \A c \in calls : PunchSound(c)

\* Who sees the punches of a month sees those of today.
TodayWithMonth == \A s \in Scenes : "monthly" \in s.lists => "today" \in s.lists

LEMMA OfferedIsAccepted ==
    ASSUME NEW type \in PunchTypes, NEW state, Offered(type, state)
    PROVE  Accepted(type, state)
BY DEF Offered, Accepted, PunchTypes

LEMMA TodayFollowed ==
    ASSUME Types
    PROVE  /\ TodayKey \in Followed <=> "today" \in scene.lists
           /\ \A s : KeyOf("today", s) = TodayKey
           /\ \A k \in Followed : k[1] = "today" => k = TodayKey
<1>1. \A s : KeyOf("today", s) = <<"today", 0>>
  BY DEF KeyOf, Selected
<1>2. \A k \in Followed : \E n \in scene.lists : \E s : k = KeyOf(n, s)
  BY DEF Followed, KeysOf
<1>3. \A n, s : KeyOf(n, s)[1] = n
  BY DEF KeyOf
<1>4. ASSUME "today" \in scene.lists
      PROVE  <<"today", 0>> \in Followed
  BY <1>1, <1>4 DEF Followed, KeysOf
<1> QED
  BY <1>1, <1>2, <1>3, <1>4 DEF TodayKey

LEMMA DayTypes ==
    ASSUME Types
    PROVE  /\ Versions \subseteq Nat /\ None \notin Nat /\ writes \in Nat
           /\ \A k \in Followed : cache[k] \in Query /\ changed[k] \in Nat
           /\ Len(dayAt) = writes + 1 /\ Today = dayAt[writes + 1]
           /\ \A c \in calls : c \in Call
BY KeyTypes DEF Types, Today

\* A write that leaves the punches alone, or is counted as their change.
LEMMA WriteDaySound ==
    ASSUME Types, DaySound, scene' = scene, NEW keys, NEW day \in Day, Write(keys, day),
           TodayKey \in keys \/ day = Today, cache' = cache
    PROVE  /\ DaySound'
           /\ \A c \in calls : PunchSound(c) => PunchSound(c)'
<1>1. /\ writes' = writes + 1 /\ dayAt' = Append(dayAt, day) /\ Followed' = Followed
      /\ \A k \in Followed : changed'[k] = IF k \in keys THEN writes + 1 ELSE changed[k]
  BY Frame DEF Write
<1>2. /\ \A w \in 0 .. writes : dayAt'[w + 1] = dayAt[w + 1]
      /\ dayAt'[writes + 2] = day
      /\ Len(dayAt') = writes + 2
  BY <1>1, DayTypes DEF Types
<1>3. Today' = day
  BY <1>2 DEF Today
<1>4. ASSUME TodayKey \in Followed, NEW w \in changed'[TodayKey] .. writes'
      PROVE  dayAt'[w + 1] = Today'
  <2>1. CASE TodayKey \in keys
    <3>1. w = writes + 1
      BY <1>1, <1>4, <2>1, DayTypes
    <3> QED
      BY <1>2, <1>3, <3>1, DayTypes
  <2>2. CASE TodayKey \notin keys /\ day = Today
    <3>1. changed'[TodayKey] = changed[TodayKey]
      BY <1>1, <1>4, <2>2
    <3>2. CASE w = writes + 1
      BY <1>2, <1>3, <3>2, DayTypes
    <3>3. CASE w # writes + 1
      <4>1. w \in changed[TodayKey] .. writes /\ w \in 0 .. writes
        BY <1>1, <1>4, <3>1, <3>3, DayTypes
      <4> QED
        BY <1>2, <1>3, <1>4, <2>2, <4>1 DEF DaySound
    <3> QED
      BY <3>2, <3>3
  <2> QED
    BY <2>1, <2>2
<1>5. DaySound'
  <2>1. \A k \in Followed : /\ changed'[k] <= writes + 1
                            /\ cache[k].data # None => cache[k].data <= writes + 1
                            /\ cache[k].carries # None => cache[k].carries <= writes + 1
    <3> SUFFICES ASSUME NEW k \in Followed
                 PROVE  /\ changed'[k] <= writes + 1
                        /\ cache[k].data # None => cache[k].data <= writes + 1
                        /\ cache[k].carries # None => cache[k].carries <= writes + 1
      OBVIOUS
    <3>1. /\ cache[k].data \in Nat \cup {None} /\ cache[k].carries \in Nat \cup {None}
          /\ changed[k] \in Nat /\ writes \in Nat
      BY DayTypes DEF Query
    <3> QED
      BY <1>1, <3>1 DEF DaySound
  <2> QED
    BY <1>1, <1>4, <2>1 DEF DaySound, TodayKey
<1>6. ASSUME NEW c \in calls, PunchSound(c)
      PROVE  PunchSound(c)'
  <2>1. c.saw \in Nat \cup {None}
    BY DayTypes DEF Call
  <2>2. ASSUME c.saw # None, c.saw <= writes
        PROVE  c.saw <= writes' /\ dayAt'[c.saw + 1] = dayAt[c.saw + 1]
    BY <1>1, <1>2, <2>1, <2>2, DayTypes
  <2> QED
    BY <1>1, <1>6, <2>2 DEF PunchSound, TodayKey
<1> QED
  BY <1>5, <1>6

LEMMA PressSound ==
    ASSUME TodayWithMonth, PunchesSound, scene' = scene, UNCHANGED server, Press
    PROVE  /\ \A c, d \in calls' : c.id = d.id => c = d
           /\ \A c \in calls' : PunchSound(c)'
<1>1. PICK op \in Ops, id \in 1 .. scene.writes :
          /\ \A c \in calls : c.id # id
          /\ op.writes \cap scene.lists # {} \/ op.refreshes \cap scene.lists # {}
          /\ op.busy = "punch" =>
                Offered(op.name, IF SeenToday = None THEN "none" ELSE PunchState(dayAt[SeenToday + 1]))
          /\ \E s \in Targets(op) :
                calls' = calls \cup
                    {[id |-> id, op |-> op, by |-> user, at |-> s, shown |-> sel, here |-> TRUE,
                      saw |-> SeenToday, phase |-> "sent", wrote |-> 0]}
  BY DEF Press
<1>2. op \in Honest
  BY PartsHonest DEF Ops, Rendered, PunchesSound, Types
<1>3. PICK new : new.id = id /\ new.op = op /\ new.saw = SeenToday /\ calls' = calls \cup {new}
  BY <1>1
<1>4. ASSUME op.busy = "punch"
      PROVE  TodayKey \in Followed
  <2>1. "today" \in scene.lists
    <3>1. {"today", "monthly"} \cap scene.lists # {}
      BY <1>1, <1>2, <1>4 DEF Honest
    <3> QED
      BY <3>1 DEF TodayWithMonth, PunchesSound, Types
  <2> QED
    BY <2>1, TodayFollowed DEF PunchesSound
<1>5. ASSUME SeenToday # None
      PROVE  SeenToday <= writes
  <2>1. TodayKey \in Followed /\ SeenToday = cache[TodayKey].data
    BY <1>5, TodayFollowed DEF SeenToday, PunchesSound, TodayKey
  <2> QED
    BY <1>5, <2>1 DEF PunchesSound, DaySound
<1>6. Followed' = Followed /\ writes' = writes /\ dayAt' = dayAt
  BY Frame DEF server
<1>7. PunchSound(new)'
  BY <1>1, <1>3, <1>4, <1>5, <1>6 DEF PunchSound, TodayKey
<1>8. \A c \in calls : PunchSound(c)'
  BY <1>6 DEF PunchesSound, PunchSound, TodayKey
<1> QED
  BY <1>1, <1>3, <1>7, <1>8 DEF PunchesSound

\* The calls that remain are what they were, as far as punches go.
LEMMA SameDaySound ==
    ASSUME PunchesSound, scene' = scene, Types', UNCHANGED <<writes, changed, dayAt>>,
           \A k \in Followed : /\ cache'[k].data # None => cache'[k].data <= writes
                               /\ cache'[k].carries # None => cache'[k].carries <= writes,
           \A d \in calls' : \E c \in calls : d.id = c.id /\ d.op = c.op /\ d.saw = c.saw,
           \A c, d \in calls' : c.id = d.id => c = d
    PROVE  PunchesSound'
<1>1. Followed' = Followed /\ UNCHANGED <<writes, changed, dayAt>> /\ Today' = Today
  BY Frame DEF Today
<1>2. DaySound'
  BY <1>1 DEF PunchesSound, DaySound, TodayKey
<1>3. \A d \in calls' : PunchSound(d)'
  BY <1>1 DEF PunchesSound, PunchSound, TodayKey
<1> QED
  BY <1>2, <1>3 DEF PunchesSound

\* What is in the cache has been written.
LEMMA CacheWritten ==
    ASSUME PunchesSound, [Next]_vars, UNCHANGED server, NEW k \in Followed
    PROVE  /\ cache'[k].data # None => cache'[k].data <= writes
           /\ cache'[k].carries # None => cache'[k].carries <= writes
<1>1. /\ cache[k].data # None => cache[k].data <= writes
      /\ cache[k].carries # None => cache[k].carries <= writes
      /\ changed[k] <= writes
      /\ cache \in [Followed -> Query] /\ cache[k] \in Query /\ user \in Users \cup {None}
  BY DEF PunchesSound, DaySound, Types
<1>2. CASE cache' = cache
  BY <1>1, <1>2
<1>3. CASE Visits
  <2>1. PICK u \in Users : \E keys : cache' = Observed(cache, u, keys)
    BY <1>3 DEF Visits
  <2> QED
    BY <1>1, <2>1, ObservedQuery
<1>4. CASE Logout \/ LoseSession
  BY <1>1, <1>4 DEF Logout, LoseSession, Unloaded
<1>5. ASSUME NEW c \in calls, TakeAnswer(c)
      PROVE  /\ cache'[k].data # None => cache'[k].data <= writes
             /\ cache'[k].carries # None => cache'[k].carries <= writes
  <2>1. cache'[k] \in {cache[k], Invalidated(cache[k], k \in Shown)}
    BY <1>1, <1>5 DEF TakeAnswer
  <2> QED
    BY <1>1, <2>1 DEF Invalidated, Query
<1>6. ASSUME NEW j \in Followed, NEW q, Fetch(j, q),
             q.data = cache[j].data, q.carries \in {cache[j].carries, changed[j], None}
      PROVE  /\ cache'[k].data # None => cache'[k].data <= writes
             /\ cache'[k].carries # None => cache'[k].carries <= writes
  BY <1>1, <1>6 DEF Fetch
<1>7. ASSUME NEW j \in Followed, Poll(j) \/ ServeFetch(j) \/ FailFetch(j) \/ GoStale(j)
      PROVE  /\ cache'[k].data # None => cache'[k].data <= writes
             /\ cache'[k].carries # None => cache'[k].carries <= writes
  <2>1. cache[j] \in Query
    BY <1>1
  <2>2. CASE Poll(j)
    <3> DEFINE q == [cache[j] EXCEPT !.fetch = "asked", !.asker = user]
    <3>1. q.data = cache[j].data /\ q.carries = cache[j].carries
      BY <2>1 DEF Query
    <3> QED
      BY <1>6, <2>2, <3>1 DEF Poll
  <2>3. CASE ServeFetch(j)
    <3> DEFINE q == [cache[j] EXCEPT !.fetch = "served", !.carries = changed[j]]
    <3>1. q.data = cache[j].data /\ q.carries = changed[j]
      BY <2>1 DEF Query
    <3> QED
      BY <1>6, <2>3, <3>1 DEF ServeFetch
  <2>4. CASE FailFetch(j)
    <3> DEFINE q == [cache[j] EXCEPT !.fetch = "none", !.carries = None, !.asker = None, !.due = TRUE]
    <3>1. q.data = cache[j].data /\ q.carries = None
      BY <2>1 DEF Query
    <3> QED
      BY <1>6, <2>4, <3>1 DEF FailFetch
  <2>5. CASE GoStale(j)
    <3> DEFINE q == [cache[j] EXCEPT !.due = TRUE]
    <3>1. q.data = cache[j].data /\ q.carries = cache[j].carries
      BY <2>1 DEF Query
    <3> QED
      BY <1>6, <2>5, <3>1 DEF GoStale
  <2> QED
    BY <1>7, <2>2, <2>3, <2>4, <2>5
<1>8. ASSUME NEW j \in Followed, TakeList(j)
      PROVE  /\ cache'[k].data # None => cache'[k].data <= writes
             /\ cache'[k].carries # None => cache'[k].carries <= writes
  <2> DEFINE q == [Unloaded EXCEPT !.data = cache[j].carries, !.of = cache[j].asker, !.due = FALSE]
             c == [cache EXCEPT ![j] = q]
             keys == Mounted(Rendered(c, user, page, sel), sel) \ Shown
  <2>1. q \in Query /\ q.data = cache[j].carries /\ q.carries = None
    BY <1>1, UnloadedIsQuery DEF PunchesSound, Query, Unloaded
  <2>2. c \in [Followed -> Query] /\ c[k] = IF k = j THEN q ELSE cache[k]
    BY <1>1, <2>1
  <2>3. cache' = Observed(c, user, keys)
    BY <1>8 DEF TakeList
  <2>4. cache[j].carries # None => cache[j].carries <= writes
    BY DEF PunchesSound, DaySound
  <2> HIDE DEF q, c, keys
  <2>5. \A i \in Followed : cache'[i].data = c[i].data /\ cache'[i].carries = c[i].carries
    <3>1. user \in Users \cup {None} /\ c \in [Followed -> Query]
      BY <1>1, <2>2
    <3>2. \A i \in Followed :
             /\ Observed(c, user, keys)[i].data = c[i].data
             /\ Observed(c, user, keys)[i].carries = c[i].carries
      BY <3>1, ObservedKeeps
    <3> QED
      BY <2>3, <3>2
  <2> QED
    BY <1>1, <2>1, <2>2, <2>4, <2>5
<1>9. CASE Press \/ ToggleBell \/ Elsewhere \/ Midnight \/ CloseElsewhere \/ UNCHANGED vars
  BY <1>2, <1>9 DEF Press, ToggleBell, Elsewhere, Midnight, CloseElsewhere, vars
<1>10. ASSUME NEW c \in calls, Serve(c) \/ LoseAnswer(c)
       PROVE  cache' = cache
  BY <1>10 DEF Serve, LoseAnswer
<1> QED
  BY <1>2, <1>3, <1>4, <1>5, <1>7, <1>8, <1>9, <1>10, Steps DEF PunchesSound

LEMMA PunchesServed ==
    ASSUME PunchesSound, scene' = scene, Types', NEW c \in calls, Serve(c)
    PROVE  PunchesSound'
<1>1. c \in Call /\ UNCHANGED <<client, cache>>
  BY DEF Serve, PunchesSound, Types
<1>2. ASSUME NEW d, d.id = c.id, d.op = c.op, d.saw = c.saw,
             calls' = (calls \ {c}) \cup {d},
             DaySound', \A e \in calls : PunchSound(e)'
      PROVE  PunchesSound'
  <2>1. PunchSound(d)'
    BY <1>2 DEF PunchSound
  <2> QED
    BY <1>2, <2>1 DEF PunchesSound
<1>3. CASE Carry(c)
  <2>1. PICK day : /\ Write(KeysOf(c.op.writes, c.at), day)
                   /\ day = IF c.op.busy = "punch" THEN Punched(Today, c.op.name) ELSE Today
    BY <1>3 DEF Carry
  <2>2. day \in Day
    BY <2>1, DaysKnown DEF PunchesSound
  <2>3. c.op.busy = "punch" => TodayKey \in KeysOf(c.op.writes, c.at)
    BY <1>1, TodayFollowed DEF PunchesSound, Call, Honest, KeysOf
  <2>4. DaySound' /\ \A e \in calls : PunchSound(e)'
    BY <1>1, <2>1, <2>2, <2>3, WriteDaySound DEF PunchesSound
  <2>5. PICK d : /\ d = [c EXCEPT !.phase = "done", !.wrote = writes + 1]
                 /\ calls' = (calls \ {c}) \cup {d}
    BY <1>3 DEF Carry, Settle
  <2>6. d.id = c.id /\ d.op = c.op /\ d.saw = c.saw
    BY <1>1, <2>5 DEF Call
  <2> QED
    BY <1>2, <2>4, <2>5, <2>6
<1>4. ASSUME NEW why \in Refusals, Refuse(c, why)
      PROVE  PunchesSound'
  <2>1. PICK d : /\ d = [c EXCEPT !.phase = why, !.wrote = 0]
                 /\ calls' = (calls \ {c}) \cup {d} /\ UNCHANGED <<writes, changed, dayAt>>
    BY <1>4 DEF Refuse, Settle, server
  <2>2. d.id = c.id /\ d.op = c.op /\ d.saw = c.saw
    BY <1>1, <2>1 DEF Call
  <2>3. \A e \in calls' : \E f \in calls : e.id = f.id /\ e.op = f.op /\ e.saw = f.saw
    BY <2>1, <2>2
  <2>4. \A e, f \in calls' : e.id = f.id => e = f
    <3>1. \A e, f \in calls : e.id = f.id => e = f
      BY DEF PunchesSound
    <3>2. calls' = (calls \ {c}) \cup {d}
      BY <2>1
    <3> QED
      BY <2>2, <3>1, <3>2
  <2>5. \A k \in Followed : /\ cache'[k].data # None => cache'[k].data <= writes
                            /\ cache'[k].carries # None => cache'[k].carries <= writes
    BY <1>1 DEF PunchesSound, DaySound
  <2> QED
    BY <2>1, <2>3, <2>4, <2>5, SameDaySound
<1> QED
  BY <1>3, <1>4, Served

LEMMA PunchesStep ==
    ASSUME TodayWithMonth
    PROVE  PunchesSound /\ [Next]_vars => PunchesSound'
<1> SUFFICES ASSUME PunchesSound, [Next]_vars
             PROVE  PunchesSound'
  OBVIOUS
<1>1. Types /\ Types' /\ scene' = scene
  BY TypesStep, Steps DEF PunchesSound
<1>2. ASSUME UNCHANGED server,
             \A d \in calls' : \E c \in calls : d.id = c.id /\ d.op = c.op /\ d.saw = c.saw,
             \A c, d \in calls' : c.id = d.id => c = d
      PROVE  PunchesSound'
  BY <1>1, <1>2, CacheWritten, SameDaySound DEF server
<1>3. ASSUME UNCHANGED server, calls' \subseteq calls
      PROVE  PunchesSound'
  BY <1>2, <1>3 DEF PunchesSound
<1>4. CASE Visits
  <2>1. UNCHANGED server /\ \E u, p : \E s \in Selections : calls' = Kept(u, p, s)
    BY <1>4 DEF Visits
  <2> QED
    BY <1>1, <1>2, <2>1, KeptCalls DEF PunchesSound
<1>5. CASE Press /\ UNCHANGED server
  <2>1. DaySound'
    <3>1. cache' = cache /\ Followed' = Followed /\ Today' = Today
      BY <1>1, <1>5, Frame DEF Press, server, Today
    <3> QED
      BY <1>5, <3>1 DEF PunchesSound, DaySound, server, TodayKey
  <2> QED
    BY <1>1, <1>5, <2>1, PressSound DEF PunchesSound
<1>6. CASE ToggleBell /\ UNCHANGED server
  BY <1>3, <1>6 DEF ToggleBell
<1>7. CASE (Logout \/ LoseSession) /\ UNCHANGED server
  <2>1. calls' = Kept(None, page, sel) /\ sel \in Selections
    BY <1>1, <1>7 DEF Logout, LoseSession, SignedOut, Types
  <2> QED
    BY <1>1, <1>2, <1>7, <2>1, KeptCalls DEF PunchesSound
<1>8. CASE Elsewhere
  <2>1. PICK k \in Followed :
            \E day \in IF k[1] = "today" /\ ~closed THEN Fixed(Today) ELSE {Today} :
               Write({k}, day)
    BY <1>8 DEF Elsewhere
  <2>2. PICK day \in IF k[1] = "today" /\ ~closed THEN Fixed(Today) ELSE {Today} :
            Write({k}, day)
    BY <2>1
  <2>3. day \in Day /\ (TodayKey \in {k} \/ day = Today)
    BY <1>1, <2>2, DaysKnown, TodayFollowed
  <2>4. UNCHANGED <<cache, calls>>
    BY <1>8 DEF Elsewhere
  <2> QED
    BY <1>1, <2>2, <2>3, <2>4, WriteDaySound DEF PunchesSound
<1>13. CASE Midnight
  <2>1. Write({TodayKey}, NoPunch) /\ UNCHANGED <<cache, calls>>
    BY <1>13 DEF Midnight, TodayKey
  <2>2. NoPunch \in Day
    BY DEF NoPunch, Day
  <2> QED
    BY <1>1, <2>1, <2>2, WriteDaySound DEF PunchesSound
<1>14. CASE CloseElsewhere
  <2>1. UNCHANGED <<writes, changed, dayAt, cache, calls>>
    BY <1>14 DEF CloseElsewhere
  <2>2. Today' = Today /\ Followed' = Followed
    BY <1>1, <2>1, Frame DEF Today
  <2> QED
    BY <1>1, <2>1, <2>2 DEF PunchesSound, DaySound, PunchSound, TodayKey
<1>9. ASSUME NEW c \in calls, Serve(c)
      PROVE  PunchesSound'
  BY <1>1, <1>9, PunchesServed
<1>10. ASSUME NEW c \in calls, TakeAnswer(c) \/ LoseAnswer(c)
       PROVE  PunchesSound'
  BY <1>3, <1>10 DEF TakeAnswer, LoseAnswer
<1>11. ASSUME NEW k \in Followed,
              Poll(k) \/ ServeFetch(k) \/ TakeList(k) \/ FailFetch(k) \/ GoStale(k)
       PROVE  PunchesSound'
  BY <1>3, <1>11 DEF Poll, ServeFetch, TakeList, FailFetch, GoStale, Fetch
<1>12. CASE UNCHANGED vars
  BY <1>3, <1>12 DEF vars
<1> QED
  BY <1>1, <1>4, <1>5, <1>6, <1>7, <1>8, <1>9, <1>10, <1>11, <1>12, <1>13, <1>14,
     Steps

LEMMA RefusedOutdated ==
    ASSUME PunchesSound, [Next]_vars, NEW c \in calls, c.op.busy = "punch", c.phase = "sent",
           NEW d \in calls', d.id = c.id, d.phase = "transition"
    PROVE  c.saw # changed[KeyOf("today", 0)]
<1>1. Types /\ \A a, b \in calls : a.id = b.id => a = b
  BY DEF PunchesSound
<1>2. ASSUME NEW e \in calls, d.id = e.id, d.phase = e.phase
      PROVE  FALSE
  BY <1>1, <1>2
<1>3. CASE Visits \/ Logout \/ LoseSession
  <2>1. \E u, p : \E s \in Selections : calls' = Kept(u, p, s)
    BY <1>1, <1>3 DEF Visits, Logout, LoseSession, SignedOut, Types
  <2>2. \E e \in calls : d.id = e.id /\ d.phase = e.phase
    BY <1>1, <2>1, KeptCalls
  <2> QED
    BY <1>2, <2>2
<1>4. CASE Press
  <2>1. d \in calls \/ d.phase = "sent"
    BY <1>4 DEF Press
  <2> QED
    BY <1>2, <2>1
<1>5. CASE calls' \subseteq calls
  BY <1>2, <1>5
<1>6. ASSUME NEW e \in calls, Serve(e)
      PROVE  c.saw # changed[KeyOf("today", 0)]
  <2>1. e \in Call
    BY <1>1 DEF Types
  <2>2. CASE Carry(e)
    <3>1. PICK n : calls' = (calls \ {e}) \cup {[e EXCEPT !.phase = "done", !.wrote = n]}
      BY <2>2 DEF Carry, Settle
    <3>2. d \in calls \/ d.phase = "done"
      BY <2>1, <3>1 DEF Call
    <3> QED
      BY <1>2, <3>2
  <2>3. ASSUME NEW why \in Refusals, Refuse(e, why)
        PROVE  e = c /\ why = "transition"
    <3>1. PICK f : f = [e EXCEPT !.phase = why, !.wrote = 0] /\ calls' = (calls \ {e}) \cup {f}
      BY <2>3 DEF Refuse, Settle
    <3>2. f.id = e.id /\ f.phase = why
      BY <2>1, <3>1 DEF Call
    <3>3. d = f
      BY <1>2, <3>1
    <3> QED
      BY <1>1, <3>2, <3>3
  <2>4. CASE e = c /\ ~Accepted(c.op.name, PunchState(Today))
    <3>2. e = c
      BY <2>4
    <3>3. SUFFICES ASSUME c.saw = changed[TodayKey]
                   PROVE  FALSE
      BY DEF TodayKey
    <3>4. /\ TodayKey \in Followed
          /\ c.saw # None => Offered(c.op.name, PunchState(dayAt[c.saw + 1]))
      BY DEF PunchesSound, PunchSound
    <3>5. c.saw # None /\ c.saw \in changed[TodayKey] .. writes
      BY <1>1, <3>3, <3>4, DayTypes DEF PunchesSound, DaySound
    <3>6. dayAt[c.saw + 1] = Today
      BY <3>4, <3>5 DEF PunchesSound, DaySound
    <3>7. c.op.name \in PunchTypes
      BY <2>1, <3>2 DEF Call, Honest
    <3> QED
      BY <2>4, <3>4, <3>5, <3>6, <3>7, OfferedIsAccepted
  <2>5. Carry(e) \/ \E why \in Refusals : Refuse(e, why)
    BY <1>6, Served
  <2>6. CASE e = c /\ ~Carry(c)
    <3>1. ServePunch(c)
      BY <1>6, <2>6 DEF Serve
    <3>2. ~(closed /\ Refuse(c, "month_closed"))
      BY <2>3, <2>6 DEF Refusals
    <3> QED
      BY <2>4, <2>6, <3>1, <3>2 DEF ServePunch
  <2> QED
    BY <2>2, <2>3, <2>5, <2>6
<1>7. CASE ToggleBell \/ Elsewhere \/ Midnight \/ CloseElsewhere \/ UNCHANGED vars
  BY <1>5, <1>7 DEF ToggleBell, Elsewhere, Midnight, CloseElsewhere, vars
<1>8. ASSUME NEW e \in calls, TakeAnswer(e) \/ LoseAnswer(e)
      PROVE  calls' \subseteq calls
  BY <1>8 DEF TakeAnswer, LoseAnswer
<1>9. ASSUME NEW k \in Followed,
             Poll(k) \/ ServeFetch(k) \/ TakeList(k) \/ FailFetch(k) \/ GoStale(k)
      PROVE  calls' \subseteq calls
  BY <1>9 DEF Poll, ServeFetch, TakeList, FailFetch, GoStale, Fetch
<1> QED
  BY <1>1, <1>3, <1>4, <1>5, <1>6, <1>7, <1>8, <1>9, Steps

\* The server refuses a punch for the state of the day only if the page that offered it
\* showed an older state: what the buttons offer for a state is what the server accepts in
\* it, and only a punch, a fix of one and midnight change the day.
THEOREM RefusedPunchWasOutdated ==
    ASSUME TodayWithMonth
    PROVE  Spec => PunchRefusedOnlyIfOutdated
<1>1. Init => PunchesSound
  <2> SUFFICES ASSUME Init
               PROVE  PunchesSound
    OBVIOUS
  <2>1. /\ Types /\ cache = [k \in Followed |-> Unloaded] /\ calls = {} /\ writes = 0
        /\ changed = [k \in Followed |-> 0] /\ dayAt = <<NoPunch>>
    BY TypesInitially DEF Init
  <2>2. dayAt[1] = Today
    BY <2>1 DEF Today
  <2>3. TodayKey \in Followed => \A w \in changed[TodayKey] .. writes : dayAt[w + 1] = Today
    BY <2>1, <2>2
  <2> QED
    BY <2>1, <2>3 DEF PunchesSound, DaySound, Unloaded
<1>2. PunchesSound /\ [Next]_vars => PunchesSound'
  BY PunchesStep
<1>3. PunchesSound /\ [Next]_vars =>
         [\A c \in calls : c.op.busy = "punch" /\ c.phase = "sent"
             /\ (\E d \in calls' : d.id = c.id /\ d.phase = "transition")
                 => c.saw # changed[KeyOf("today", 0)]]_vars
  BY RefusedOutdated
<1> QED
  BY <1>1, <1>2, <1>3, PTL DEF Spec, PunchRefusedOnlyIfOutdated

=============================================================================
