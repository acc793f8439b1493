-------------------------------- MODULE Pages --------------------------------
(***************************************************************************)
(* The pages of the browser client over the cache of its queries.          *)
(*                                                                         *)
(* A page is a set of components.  A component shows lists, each under a   *)
(* key of the query cache, may poll them, and offers operations.  An       *)
(* operation is a call to the server; when it has succeeded, the component *)
(* invalidates the lists it believes changed.  A list that is shown is     *)
(* then loaded again, another one when it is shown next.                   *)
(*                                                                         *)
(* Abstractions.  Writes to the database are numbered, as is midnight,     *)
(* which empties the list of today.  A list is known by the last of these  *)
(* changes it contains, so rows, wording and layout are left out; the      *)
(* punches of today keep their state, and decisions on the user's requests *)
(* their numbers, which stand for the server's clock.  A year or a month   *)
(* is one selection.  A scene fixes which pages the users visit, which     *)
(* lists are followed and how far the clock of the browser is off.         *)
(***************************************************************************)
EXTENDS Integers, Sequences

CONSTANTS
    Users,      \* who signs in on this browser
    Role,       \* Role[u] is "member", "approver" or "admin"
    Scenes,     \* the scenes to be played, each with bounds on writes and lost answers
    Cards,      \* the requests of a queue, as names
    None        \* null, or undefined

Selections == 1 .. 4

\* The lists of the API, section by section.
EmployeeLists   == {"employees"}
AttendanceLists == {"today", "monthly"}
RequestLists    == {"own", "queue"}
OvertimeLists   == {"overtime"}
LeaveLists      == {"balance", "me", "leaves"}
ShiftLists      == {"types", "shifts", "mine", "flex"}
MasterLists     == {"departments", "holidays"}
ClosingLists    == {"closings"}

ListNames == EmployeeLists \cup AttendanceLists \cup RequestLists \cup OvertimeLists
               \cup LeaveLists \cup ShiftLists \cup MasterLists \cup ClosingLists
PageNames == {"clock", "requests", "myshifts", "approvals", "employees", "closing",
              "shifts", "overtime", "leaves", "departments", "holidays"}

\* The lists of a year or a month have a key for each.
Selected == {"holidays", "shifts", "mine", "flex", "leaves", "overtime", "closings"}
KeyOf(n, s)  == <<n, IF n \in Selected THEN s ELSE 0>>
KeysOf(N, s) == {KeyOf(n, s) : n \in N}

Scene == [users: SUBSET Users, pages: SUBSET PageNames, lists: SUBSET ListNames,
          does: SUBSET {"logout", "lose", "bell"}, writes: Nat, faults: Nat, skew: Int]

ASSUME PagesAssumption ==
    /\ Role \in [Users -> {"member", "approver", "admin"}]
    /\ Scenes \subseteq Scene
    /\ None \notin Users \cup Nat
    /\ "punch" \notin Cards

VARIABLES
    scene,      \* what is played
    user,       \* the user of the store
    page,       \* the route
    sel,        \* the tab, or the year and month, selected on the page
    cache,      \* the query cache
    calls,      \* the operations that wait for their answers
    writes,     \* the number of writes to the database
    closed,     \* the user's month of today is closed
    changed,    \* changed[k]: the last write that changed the list of k
    promised,   \* history: the last own write that was answered to a page showing k
    dayAt,      \* history: the punches of today, before and after each write
    bell,       \* the notification bell, and the decisions it is about
    faults      \* lost answers so far

client == <<user, page, sel, bell>>
server == <<writes, changed, dayAt, closed>>
vars   == <<scene, client, server, cache, calls, promised, faults>>

Versions == 0 .. scene.writes

\* The keys that the scene follows.
Followed == KeysOf(scene.lists, 1) \cup KeysOf(scene.lists, 2)

\* A query: what it has loaded and for whom, whether it is stale or invalidated,
\* and the fetch that is on its way.
Query == [data: Versions \cup {None}, of: Users \cup {None}, due: BOOLEAN,
          fetch: {"none", "asked", "served"}, carries: Versions \cup {None},
          asker: Users \cup {None}]

Unloaded == [data |-> None, of |-> None, due |-> TRUE,
             fetch |-> "none", carries |-> None, asker |-> None]

-----------------------------------------------------------------------------
(***************************************************************************)
(* The punches of today, as the server and the buttons see them.           *)
(***************************************************************************)
NoPunch == [in |-> FALSE, out |-> FALSE, break |-> FALSE]

PunchState(d) ==
    IF ~d.in THEN "none" ELSE IF d.out THEN "done" ELSE IF d.break THEN "on_break" ELSE "working"

Punched(d, type) ==
    [in    |-> d.in \/ type = "clock_in",
     out   |-> d.out \/ type = "clock_out",
     break |-> (d.break \/ type = "break_start") /\ type # "break_end"]

\* _validate_transition
Accepted(type, state) ==
    CASE type = "clock_in"                     -> state = "none"
      [] type \in {"break_start", "clock_out"} -> state = "working"
      [] type = "break_end"                    -> state = "on_break"

\* Mutant: the break need not be ended first.
OfferedOnBreak(type, state) ==
    CASE type = "clock_in"    -> state = "none"
      [] type = "break_start" -> state = "working"
      [] type = "clock_out"   -> state \in {"working", "on_break"}
      [] type = "break_end"   -> state = "on_break"

\* The buttons of ClockHero that are not disabled.
Offered(type, state) ==
    CASE type = "clock_in"                     -> state = "none"
      [] type \in {"clock_out", "break_start"} -> state = "working"
      [] type = "break_end"                    -> state = "on_break"

PunchTypes == {"clock_in", "clock_out", "break_start", "break_end"}

\* An approved fix adds a punch anywhere in the day.
Fixed(d) == {Punched(d, type) : type \in PunchTypes}
              \cup {[Punched(d, type) EXCEPT !.break = d.break] : type \in PunchTypes}

-----------------------------------------------------------------------------
(***************************************************************************)
(* The components.                                                         *)
(***************************************************************************)
\* An operation: the mutation whose isPending disables it, the lists it needs, the
\* lists of its page and of the bell that it writes, and those it invalidates when it
\* has succeeded.
Op(name, busy, needs, writesTo, refreshes) ==
    [name |-> name, busy |-> busy, needs |-> needs, writes |-> writesTo,
     at |-> "shown", refreshes |-> refreshes, exact |-> FALSE, modal |-> FALSE]

\* It writes to the next year, or to whatever the form says.
At(where, op) == [op EXCEPT !.at = where]
\* It invalidates the key of the selection only.
Exact(op) == [op EXCEPT !.exact = TRUE]
\* It is submitted by a dialog that covers the page.
Modal(op) == [op EXCEPT !.modal = TRUE]

\* A component is rendered once the lists of needs are loaded.
Part(needs, shows, polls, ops) ==
    [needs |-> needs, shows |-> shows, polls |-> polls, ops |-> ops]

\* Mutant: the bell loads its lists once.
NotificationBellOnce(u) == Part({}, {"own"}, {}, {})

NotificationBell(u) ==
    LET lists == {"own"} \cup (IF Role[u] \in {"approver", "admin"} THEN {"queue"} ELSE {})
    IN Part({}, lists, lists, {})

ClockHero ==
    Part({}, {"today"}, {"today"},
         {Op(type, "punch", {}, {"today", "monthly"}, {"today", "monthly"}) : type \in PunchTypes})

MonthlyStatsTiles == Part({}, {"monthly", "balance"}, {}, {})
TodayCard         == Part({}, {"today"}, {"today"}, {})
WeekCard          == Part({}, {"monthly"}, {}, {})
LeaveBalanceCard  == Part({}, {"me"}, {}, {})

ClockPage == {ClockHero, MonthlyStatsTiles, TodayCard, WeekCard, LeaveBalanceCard}

\* A form of its own: another tab unmounts it. The queue of the approvers holds every
\* pending request, an approver's own ones included.
RequestForm(kind) == Part({}, {}, {}, {Op(kind, kind, {}, {"own", "queue"}, {"own"})})
PunchFixForm      == RequestForm("punch_fix")
OvertimeForm      == RequestForm("overtime_pre")
OvertimePostForm  == RequestForm("overtime_post")
LeaveForm         == RequestForm("leave")

\* Mutant: the table waits for the next poll.
RequestTableSilent == Part({"own"}, {}, {}, {Op("cancel", "cancel", {}, {"own", "queue"}, {})})

RequestTable == Part({"own"}, {}, {}, {Op("cancel", "cancel", {}, {"own", "queue"}, {"own"})})

RequestsPage(tab) ==
    {Part({}, {"own"}, {}, {}), RequestTable,
     <<PunchFixForm, OvertimeForm, OvertimePostForm, LeaveForm>>[tab]}

MyShiftsPage == {Part({}, {"mine", "flex"}, {}, {})}

ApprovalCard(i) ==
    Part({"queue"}, {}, {}, {Op(verb, i, {}, {"queue"}, {"queue"})
                                : verb \in {"approve", "reject"}})

ApprovalsPage == {Part({}, {"queue"}, {"queue"}, {})} \cup {ApprovalCard(i) : i \in Cards}

CreateEmployee == Modal(Op("create", "dialog", {}, {"employees"}, {"employees"}))
EditEmployee   == Modal(Op("edit", "dialog", {"employees"}, {"employees"}, {"employees"}))

EmployeesPage ==
    {Part({}, {"employees", "departments"}, {},
          {CreateEmployee, EditEmployee,
           Op("toggleActive", "toggleActive", {"employees"}, {"employees"}, {"employees"})})}

\* The buttons of a row share busy.
StatusTable ==
    {Exact(Op(verb, "row", {"closings"}, {"closings"}, {"closings"})) : verb \in {"close", "reopen"}}

ClosingPage ==
    {Part({}, {"closings"}, {},
          StatusTable \cup {Exact(Op(verb, verb, {}, {"closings"}, {"closings"}))
                               : verb \in {"recomputeAll", "closeAll"}})}

ShiftAddForm ==
    Part({"employees"}, {}, {}, {At("any", Op("upsert", "upsert", {}, {"shifts"}, {"shifts"}))})
ShiftList ==
    Part({"shifts"}, {}, {}, {Op("delete", "delete", {}, {"shifts"}, {"shifts"})})

\* The first employee of the list is selected; only then are shifts loaded. The
\* employment type of an employee is in none of the lists.
ShiftsPage ==
    {Part({}, {"employees", "types"}, {},
          {Op("assign", "assign", {"employees", "types"}, {}, {"employees"})}),
     Part({"employees"}, {"shifts"}, {}, {}), ShiftAddForm, ShiftList}

OvertimePage == {Part({}, {"overtime"}, {}, {})}

GrantOneDialog == Modal(Exact(Op("grantOne", "dialog", {"leaves"}, {"leaves"}, {"leaves"})))

\* A carry-over writes to the balances of the next year.
LeavesPage ==
    {Part({}, {"leaves"}, {},
          {Exact(Op("grantAll", "grantAll", {}, {"leaves"}, {"leaves"})), GrantOneDialog,
           At("next", Op("carryover", "carryover", {}, {"leaves"}, {"leaves"}))})}

DepartmentsPage ==
    {Part({}, {"departments"}, {},
          {Op("add", "add", {}, {"departments"}, {"departments"}),
           Op("del", "del", {"departments"}, {"departments"}, {"departments"})})}

\* The date of a new holiday does not follow the year that is shown.
HolidaysPage ==
    {Part({}, {"holidays"}, {},
          {At("any", Op("add", "add", {}, {"holidays"}, {"holidays"})),
           Op("del", "del", {"holidays"}, {"holidays"}, {"holidays"})})}

PageParts(p, s) ==
    CASE p = "clock"       -> ClockPage
      [] p = "requests"    -> RequestsPage(s)
      [] p = "myshifts"    -> MyShiftsPage
      [] p = "approvals"   -> ApprovalsPage
      [] p = "employees"   -> EmployeesPage
      [] p = "closing"     -> ClosingPage
      [] p = "shifts"      -> ShiftsPage
      [] p = "overtime"    -> OvertimePage
      [] p = "leaves"      -> LeavesPage
      [] p = "departments" -> DepartmentsPage
      [] p = "holidays"    -> HolidaysPage

\* The header of every page has the bell.
Parts(u, p, s) == {NotificationBell(u)} \cup PageParts(p, s)

\* Bound: the years and months between which a user goes.
SelectionsOf(p) ==
    CASE p = "requests" -> Selections
      [] p \in {"clock", "approvals", "employees", "departments"} -> {1}
      [] OTHER -> {1, 2}

\* The routes of ProtectedRoute, which are also those of the sidebar.
MayVisit(u) ==
    scene.pages \cap
    CASE Role[u] = "member"   -> {"clock", "requests", "myshifts"}
      [] Role[u] = "approver" -> {"clock", "requests", "myshifts", "approvals"}
      [] Role[u] = "admin"    -> PageNames

-----------------------------------------------------------------------------
(***************************************************************************)
(* What is on the screen.                                                  *)
(***************************************************************************)
Loaded(c, names, s) == \A n \in names \cap scene.lists : c[KeyOf(n, s)].data # None

Rendered(c, u, p, s) ==
    IF u = None THEN {} ELSE {part \in Parts(u, p, s) : Loaded(c, part.needs, s)}

\* The keys that have an observer, and those that are polled.
Mounted(parts, s) == KeysOf((UNION {part.shows : part \in parts}) \cap scene.lists, s)
Polled == KeysOf((UNION {part.polls : part \in Rendered(cache, user, page, sel)})
                    \cap scene.lists, sel)

Shown == Mounted(Rendered(cache, user, page, sel), sel)

\* What the page shows itself, apart from the bell in the header.
ShownByPage == Mounted(Rendered(cache, user, page, sel) \cap PageParts(page, sel), sel)

Ops   == UNION {part.ops : part \in Rendered(cache, user, page, sel)}

\* useQuery, react-query: a component that begins to observe a key loads it if it is due.
Observed(c, u, keys) ==
    [k \in Followed |-> IF k \in keys /\ c[k].due /\ c[k].fetch = "none"
                        THEN [c[k] EXCEPT !.fetch = "asked", !.asker = u] ELSE c[k]]

\* The calls of the components that are gone no longer count as pending; the others
\* answer to what is selected now.
Kept(u, p, s) ==
    LET ops == UNION {part.ops : part \in Rendered(cache, u, p, s)}
    IN {[c EXCEPT !.here = @ /\ p = page /\ c.op \in ops,
                  !.shown = IF c.here /\ p = page /\ c.op \in ops THEN s ELSE @] : c \in calls}

-----------------------------------------------------------------------------
Init ==
    /\ scene \in Scenes
    /\ user = None /\ page = "clock" /\ sel = 1
    /\ cache = [k \in Followed |-> Unloaded]
    /\ calls = {}
    /\ writes = 0 /\ changed = [k \in Followed |-> 0] /\ dayAt = <<NoPunch>>
    /\ closed = FALSE
    /\ promised = [k \in Followed |-> 0]
    /\ bell = [open |-> FALSE, seenAt |-> 0, decided |-> {}, read |-> {}]
    /\ faults = 0

(***************************************************************************)
(* The user.                                                               *)
(***************************************************************************)
\* The page p appears, and the components that observed the keys before remain.
Visit(u, p, s, remain, before) ==
    /\ user' = u /\ page' = p /\ sel' = s
    /\ cache' = Observed(cache, u, Mounted(Rendered(cache, u, p, s) \ remain, s) \ before)
    /\ calls' = Kept(u, p, s)

Login ==
    /\ user = None
    /\ \E u \in scene.users : \E p \in MayVisit(u) : Visit(u, p, 1, {}, {})
    /\ UNCHANGED <<bell, promised>>

Covered == \E c \in calls : c.here /\ c.op.modal

Go ==
    /\ user # None
    /\ \E p \in MayVisit(user) \ {page} : Visit(user, p, 1, {NotificationBell(user)}, {})
    /\ UNCHANGED <<bell, promised>>

Select ==
    /\ user # None /\ ~Covered
    /\ \E s \in SelectionsOf(page) \ {sel} : Visit(user, page, s, {}, Shown)
    /\ UNCHANGED <<bell, promised>>

Targets(op) ==
    CASE op.at = "shown" -> {sel}
      [] op.at = "next"  -> {sel + 1}
      [] op.at = "any"   -> SelectionsOf(page)

\* today.data
SeenToday == IF "today" \in scene.lists THEN cache[KeyOf("today", 0)].data ELSE None

Press ==
    /\ user # None /\ ~Covered
    /\ \E op \in Ops, id \in 1 .. scene.writes :
          /\ \A c \in calls : c.id # id /\ ~(c.here /\ c.op.busy = op.busy)
          /\ \A i \in 1 .. id - 1 : \E c \in calls : c.id = i
          /\ Loaded(cache, op.needs, sel)
          /\ op.writes \cap scene.lists # {} \/ op.refreshes \cap scene.lists # {}
          /\ op.busy = "punch" =>
                Offered(op.name, IF SeenToday = None THEN "none" ELSE PunchState(dayAt[SeenToday + 1]))
          /\ \E s \in Targets(op) :
                calls' = calls \cup
                    {[id |-> id, op |-> op, by |-> user, at |-> s, shown |-> sel, here |-> TRUE,
                      saw |-> SeenToday, phase |-> "sent", wrote |-> 0]}
    /\ UNCHANGED <<client, cache, promised>>

\* decidedItems
Listed ==
    IF "own" \notin scene.lists THEN {}
    ELSE LET own == cache[KeyOf("own", 0)].data
         IN IF own = None THEN {} ELSE {d \in bell.decided : d <= own}

\* unreadDecided: the server's decided_at against the browser's clock.
Unread == {d \in Listed : d > bell.seenAt}

\* Date.now()
BrowserNow == writes + scene.skew

ToggleBell ==
    /\ user # None /\ "bell" \in scene.does
    /\ bell' = [bell EXCEPT !.open = ~@,
                            !.seenAt = IF bell.open THEN @ ELSE BrowserNow,
                            !.read = IF bell.open THEN @ ELSE @ \cup Listed]
    /\ UNCHANGED <<user, page, sel, cache, calls, promised>>

SignedOut ==
    /\ user' = None
    /\ bell' = [bell EXCEPT !.open = FALSE]
    /\ calls' = Kept(None, page, sel)
    /\ UNCHANGED <<page, sel, promised>>

\* Mutant: the cache is left as it is.
LogoutOnly ==
    /\ user # None /\ "logout" \in scene.does
    /\ SignedOut
    /\ cache' = cache

\* useAuth: the store and the cache are cleared, with the fetches of the cache.
Logout ==
    /\ user # None /\ "logout" \in scene.does
    /\ SignedOut
    /\ cache' = [k \in Followed |-> Unloaded]

\* refreshAccessToken: a refresh that fails clears the store.
LoseSession ==
    /\ user # None /\ "lose" \in scene.does
    /\ SignedOut
    /\ cache' = cache

(***************************************************************************)
(* The server, and the answers to the operations.                          *)
(***************************************************************************)
Write(keys, day) ==
    /\ writes < scene.writes
    /\ writes' = writes + 1
    /\ changed' = [k \in Followed |-> IF k \in keys THEN writes + 1 ELSE changed[k]]
    /\ dayAt' = Append(dayAt, day)

Today == dayAt[Len(dayAt)]

\* Mutant: the number of the next write.
SettleNext(c, answer, n) ==
    calls' = (calls \ {c}) \cup {[c EXCEPT !.phase = answer, !.wrote = n + 1]}

Settle(c, answer, n) == calls' = (calls \ {c}) \cup {[c EXCEPT !.phase = answer, !.wrote = n]}

\* The closing of a month may be that of the user's own month of today.
MayClose(op) ==
    CASE op.name \in {"close", "closeAll"} -> {closed, TRUE}
      [] op.name = "reopen"               -> {closed, FALSE}
      [] OTHER                            -> {closed}

Carry(c) ==
    /\ closed' \in MayClose(c.op)
    /\ Write(KeysOf(c.op.writes, c.at), IF c.op.busy = "punch" THEN Punched(Today, c.op.name) ELSE Today)
    /\ Settle(c, "done", writes + 1)

Refusals == {"month_closed", "transition", "conflict"}

Refuse(c, why) == Settle(c, why, 0) /\ UNCHANGED server

\* A punch is refused for its month, or else for the state of the day.
ServePunch(c) ==
    \/ closed /\ Refuse(c, "month_closed")
    \/ ~closed /\ Accepted(c.op.name, PunchState(Today)) /\ Carry(c)
    \/ ~closed /\ ~Accepted(c.op.name, PunchState(Today)) /\ Refuse(c, "transition")

\* Another operation may conflict with anything.
ServeOther(c) == Carry(c) \/ Refuse(c, "conflict")

Serve(c) ==
    /\ c.phase = "sent"
    /\ IF c.op.busy = "punch" THEN ServePunch(c) ELSE ServeOther(c)
    /\ UNCHANGED <<client, cache, promised, faults>>

\* invalidateQueries, react-query: a fetch on its way is replaced, unless it is the
\* first; a list without an observer is marked.
Invalidated(q, observed) ==
    CASE ~observed -> [q EXCEPT !.due = TRUE]
      [] observed /\ q.fetch # "none" /\ q.data = None -> q
      [] OTHER -> [q EXCEPT !.due = TRUE, !.fetch = "asked", !.carries = None, !.asker = user]

Refreshes(c) ==
    IF c.op.exact THEN KeysOf(c.op.refreshes, c.shown)
    ELSE {k \in Followed : k[1] \in c.op.refreshes}

\* What the page of c shows of what c has changed.
Promises(c) ==
    {k \in KeysOf(c.op.writes, c.at) \cap ShownByPage : c.here /\ cache[k].data # None}

TakeAnswer(c) ==
    /\ c.phase # "sent"
    /\ calls' = calls \ {c}
    /\ IF c.phase = "done"
       THEN /\ cache' = [k \in Followed |-> IF k \in Refreshes(c)
                                            THEN Invalidated(cache[k], k \in Shown) ELSE cache[k]]
            /\ promised' = [k \in Followed |-> IF k \in Promises(c) /\ promised[k] < c.wrote
                                               THEN c.wrote ELSE promised[k]]
       ELSE UNCHANGED <<cache, promised>>
    /\ UNCHANGED <<client, server, faults>>

LoseAnswer(c) ==
    /\ faults < scene.faults /\ faults' = faults + 1
    /\ calls' = calls \ {c}
    /\ UNCHANGED <<client, server, cache, promised>>

\* Another user or another device writes; a write to the user's requests may be a
\* decision.
Elsewhere ==
    /\ \E k \in Followed :
          /\ \E day \in IF k[1] = "today" /\ ~closed THEN Fixed(Today) ELSE {Today} : Write({k}, day)
          /\ \/ UNCHANGED bell
             \/ k[1] = "own" /\ bell' = [bell EXCEPT !.decided = @ \cup {writes + 1}]
    /\ UNCHANGED <<user, page, sel, closed, cache, calls, promised, faults>>

\* The date of today is the next one, which has no punches and may be of another month.
\* Bound: counted as a write.
Midnight ==
    /\ "today" \in scene.lists
    /\ Write({KeyOf("today", 0)}, NoPunch) /\ closed' \in BOOLEAN
    /\ UNCHANGED <<client, cache, calls, promised, faults>>

\* An administrator closes or reopens the month elsewhere.
CloseElsewhere ==
    /\ "today" \in scene.lists
    /\ closed' = ~closed
    /\ UNCHANGED <<client, writes, changed, dayAt, cache, calls, promised, faults>>

(***************************************************************************)
(* The fetches of the cache, react-query.                                  *)
(***************************************************************************)
Fetch(k, q) ==
    /\ cache' = [cache EXCEPT ![k] = q]
    /\ UNCHANGED <<client, server, calls, promised>>

\* refetchInterval
Poll(k) ==
    /\ cache[k].fetch = "none" /\ k \in Polled
    /\ Fetch(k, [cache[k] EXCEPT !.fetch = "asked", !.asker = user])
    /\ UNCHANGED faults

ServeFetch(k) ==
    /\ cache[k].fetch = "asked" /\ cache[k].asker = user
    /\ Fetch(k, [cache[k] EXCEPT !.fetch = "served", !.carries = changed[k]])
    /\ UNCHANGED faults

\* The list is shown; components that needed it are rendered.
TakeList(k) ==
    /\ cache[k].fetch = "served"
    /\ LET q == [Unloaded EXCEPT !.data = cache[k].carries, !.of = cache[k].asker, !.due = FALSE]
           c == [cache EXCEPT ![k] = q]
       IN cache' = Observed(c, user, Mounted(Rendered(c, user, page, sel), sel) \ Shown)
    /\ UNCHANGED <<client, server, calls, promised, faults>>

\* A lost answer, or a 401 for a session that is over.
FailFetch(k) ==
    /\ cache[k].fetch # "none"
    /\ \/ faults < scene.faults /\ faults' = faults + 1
       \/ cache[k].asker # user /\ UNCHANGED faults
    /\ Fetch(k, [cache[k] EXCEPT !.fetch = "none", !.carries = None, !.asker = None, !.due = TRUE])

\* staleTime
GoStale(k) ==
    /\ cache[k].data # None /\ ~cache[k].due
    /\ Fetch(k, [cache[k] EXCEPT !.due = TRUE])
    /\ UNCHANGED faults

Progress(k) ==
    /\ k \in Followed
    /\ Poll(k) \/ ServeFetch(k) \/ TakeList(k)
    /\ UNCHANGED scene

User == Login \/ Go \/ Select \/ Press \/ ToggleBell \/ Logout \/ LoseSession

Next ==
    \/ (User /\ UNCHANGED <<server, faults, scene>>)
    \/ \E c \in calls : (Serve(c) \/ TakeAnswer(c) \/ LoseAnswer(c)) /\ UNCHANGED scene
    \/ (Elsewhere \/ Midnight \/ CloseElsewhere) /\ UNCHANGED scene
    \/ \E k \in Followed : Progress(k) \/ ((FailFetch(k) \/ GoStale(k)) /\ UNCHANGED scene)

Spec == Init /\ [][Next]_vars

\* The keys that some component polls.
PolledKeys == KeysOf({"own", "queue", "today"}, 1)

\* Timers fire, the server answers a list, and the answer is delivered.
FairSpec == Spec /\ \A k \in PolledKeys : WF_vars(Progress(k))

-----------------------------------------------------------------------------
\* The store, the cache and the calls hold values of their types.
TypeOK ==
    /\ scene \in Scenes
    /\ user \in Users \cup {None} /\ page \in PageNames /\ sel \in Selections
    /\ cache \in [Followed -> Query]
    /\ \A c \in calls : /\ c.id \in 1 .. scene.writes /\ c.by \in Users /\ c.wrote \in Versions
                        /\ c.phase \in {"sent", "done"} \cup Refusals
    /\ closed \in BOOLEAN /\ writes \in Versions /\ changed \in [Followed -> Versions]
    /\ promised \in [Followed -> Versions]
    /\ Len(dayAt) = writes + 1
    /\ bell.seenAt \in Int /\ bell.decided \subseteq Versions

\* Once a change of the user's was answered to a page that showed the changed list in a
\* component of its own, that list never passes for up to date without the change,
\* whatever other fetches were on their way. The bell is left out: a request of an
\* approver's own is missing from the queue it counts until the next poll.
OwnWritesShown ==
    \A k \in Followed :
        LET q == cache[k]
        IN q.data # None /\ ~q.due /\ q.fetch = "none" => q.data >= promised[k]

\* Nobody sees the lists of the user who was signed in before on this browser.
CacheOfUser == user # None => \A k \in Shown : cache[k].data # None => cache[k].of = user

\* The server refuses a punch for the state of the day only if the page that offered it
\* showed an older state, or one of the day before, or had not loaded it. (It may refuse
\* any punch of a closed month, which the page does not know.)
PunchRefusedOnlyIfOutdated ==
    [][\A c \in calls : c.op.busy = "punch" /\ c.phase = "sent"
            /\ (\E d \in calls' : d.id = c.id /\ d.phase = "transition")
                => c.saw # changed[KeyOf("today", 0)]]_vars

\* The requests of the bell, the queue of the approvals and the punches of today catch
\* up with every write, whoever made it, on every page that shows them.
Behind(k) ==
    /\ k \in Followed /\ (cache[k].data = None \/ cache[k].data < changed[k])
    /\ k \in Shown
PolledCatchUp == \A k \in PolledKeys : Behind(k) ~> ~Behind(k)

\* README: the badge counts the decisions that the user has not seen, even when the two
\* clocks agree.
UnseenIsUnread == user # None => Listed \ bell.read \subseteq Unread
=============================================================================
