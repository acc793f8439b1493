# Attendance management: a TLA+ model

This directory models the attendance-management system of this repository: the
FastAPI/PostgreSQL server under `backend/app` and the React client under
`frontend/src`. The modules are translated from the source; `PROJECT.json` maps
every definition to the lines it models.

## 1. Inventory

| Component | State it keeps | Operations | Correct when |
|---|---|---|---|
| requests and approvals (`services/requests.py`, `api/v1/requests.py`) | `requests`, `approvals` | create, cancel, approve, reject | settled at most once; never by the requester; all effects or none |
| attendance (`services/attendance.py`) | `attendance_punches`, `daily_attendance` | record a punch, recompute a day | a daily row is what its punches compute; nothing is added to a closed month |
| monthly closings (`services/closings.py`) | `monthly_closings` | close, recompute, reopen, close all, CSV | totals are the sums of the days; those of the days that are done stay put while closed |
| leave balances (`services/leaves.py`) | `leave_balances` | grant, set, carry over, deduct | used days are the approved leaves, never more than granted |
| audit log (`services/audit.py`) | `audit_logs` | append | one entry per settled request |
| authentication (`services/auth.py`, `api/v1/auth.py`, `api/deps.py`, `core/security.py`) | `users_sessions`, `revoked_access_tokens` | login, refresh, logout, change password | a rotated token is not used by its owner; a logout ends its session |
| scheduled jobs (`jobs/scheduler.py`) | advisory locks of pooled connections | daily alerts, purge of the denylist | the purge takes only what has expired; a lock is given back |
| overtime alerts (`services/overtime.py`) | `overtime_alerts` | check thresholds | one alert per threshold and month |
| shifts, employment types, flex (`services/shifts.py`, `services/flex.py`) | `shifts`, `employment_types` | upsert, delete, assign, settle | settlement agrees with the calendar |
| employees, departments, holidays | their tables | create, update, delete | unique keys |
| browser session (`lib/api.ts`, `lib/auth-store.ts`, `features/auth/*`) | tokens in memory and in local storage, the shared refresh promise | bootstrap, login, refresh on 401, logout, change password | one refresh per expired token; every call ends |
| pages (`App.tsx`, `features/*`) | the query cache of react-query, pending mutations, what is selected | visit, select, press a button | own changes are shown; no list of another user is; buttons fit the state of the day |
| notification bell (`NotificationBell.tsx`) | read mark in local storage, polled lists | poll, open | a decision is counted until it was seen |
| notifier, rate limit, seeds, configuration, migrations, nginx | none of their own that spans steps | | |

How they interact. Every HTTP request is served by a thread of one server
process, in a session of its own (`db/session.py`) and one transaction.
Components of the server meet in the tables: the approval of a punch fix calls the
attendance service, the approval of a leave the leave service and the daily rows; a
closing recomputes the days and sums them; the jobs read the daily rows. No row is
read with `FOR UPDATE`, none has a version column, and the isolation level is
PostgreSQL's default, READ COMMITTED. The only protection between a read and the
write that depends on it is a unique constraint, where there is one.

A page of the client is a set of components over one query cache. Each component
observes lists under keys of the cache and some poll them; an operation is a call
that, when it succeeded, invalidates the keys its author thought of. All calls pass
the interceptors of `lib/api.ts`, which take the access token from the store and,
after a 401, wait for one refresh that the calls of the tab share. The store writes
its refresh token to the local storage, which the tabs of a browser share and no tab
listens to.

What is hard: on the server the interleavings of transactions (a check that is stale
when its transaction writes), failures between their statements, the order in which
they lock rows, long sequences of legal calls (close, approve, recompute, reopen)
whose effects meet in the same rows, and rows whose value depends on when they were
computed; in the client what happens at an `await`:
tokens that change under a call, answers that arrive after a reload, a logout or a
newer answer, lists that are on their way while a write is answered, and lists that
nobody invalidates. `PROJECT.json` lists each hazard at its line, with the properties
that would notice it.

## 2. The modules

| Module | What it is |
|---|---|
| `Settlement` | abstract specification: a request is submitted and settled once, with all its effects, in one step |
| `Workflow` | requests, approvals, punches, daily rows and closings as concurrent transactions |
| `WorkflowProperties` | what should hold of `Workflow`, and the refinement mapping to `Settlement` |
| `WorkflowMC` | the instances of `Workflow` |
| `WorkflowProofs` | theorems about requests for every value of the constants, and what the proofs about the other tables share |
| `DaysProofs`, `AuditProofs` | theorems about daily rows, and about the audit log as the record of punches and deductions |
| `LockProofs` | the theorem about who waits for whom in a circle |
| `SerialProofs` | theorems about one worker: balances, rows, closings and the refinement of `Settlement` |
| `Sessions` | tabs with their stores, shared refresh and open calls, composed with the authentication endpoints and the network |
| `SessionsMC`, `SessionsProofs`, `RotationProofs` | instances of `Sessions`, and theorems about it |
| `Pages` | the pages of the client over the query cache, and what others write meanwhile |
| `PagesMC`, `PagesProofs` | instances of `Pages`, and theorems about it |

### Workflow

A *worker* is a server thread. `pc[w]` is the statement its transaction executes
next, `job[w]` what it was called with, `seen[w]` what its session has loaded,
`buf[w]` the daily rows it has flushed and not committed. `now` is the clock, a date
and a minute; the other variables are the tables as committed.

| Code | Action |
|---|---|
| `create_request` | `CreateRequest` (inserts only: one step) |
| `cancel_request` | `BeginCancel` (load, check), `FlushRequest`, `CommitRequest` |
| `_decide` / `decide` | `BeginDecide` (load, check), then by type: `ReadBalance` (`deduct_leave`) or `CheckMonthOpen` (`_is_closed`), `FlushRequest`, the days, `CommitRequest` |
| `record_punch` | `BeginPunch`, `CheckMonthOpen`, `ValidatePunch`, the day, `CommitPunch` |
| `recompute_daily` | `ReadPunches`, `ReadDaily`, `WriteDay` |
| `_upsert_leave_day` | `ReadDaily`, `WriteDay`, day by day |
| `close_month`, `recompute_month` | `BeginRebuild`, the days in any order, `SumMonth`, `ReadClosing`, `SaveClosing`, `CommitClosing` |
| `reopen_month` | `BeginReopen`, `ReadClosing`, `SaveClosing`, `CommitClosing` |
| a rule refuses, 409 | `Refuse` |
| a unique constraint refuses, 500 | `UniqueViolation` |
| PostgreSQL aborts a deadlocked transaction | `DeadlockVictim` |
| the process or the connection is lost | `Fail` |
| the wall clock | `Tick`, between any two statements |

A SELECT takes no lock and returns committed rows, or the transaction's own. A
flush waits until no other transaction holds a row it updates (`Blockers`) and
holds its rows until `Release`. An UPDATE of the ORM writes the columns whose
value differs from the loaded one (`Column`), and a flush that changes nothing
locks nothing.

A daily row depends on when it is computed. `Metrics` counts a day without a
clock_out up to the moment it is given (`ReferenceNow`) on the day itself, and 0 once
the date has passed. That moment is the time of the punch in `record_punch`, of the
call in `recompute_month`, and in `_apply_punch_fix` that after the insert.

Abstractions: one month and one leave year; punches are clock_in and clock_out;
those of a fix lie on the day it is for; the total of a closing is kept
as the function of the minutes it sums; leave is counted in half days; comments,
timestamps and mails are left out. Two SELECTs of `_decide` (approval, request)
are one step: the checks pass on the pair only if both rows were pending at the
time of the later read. The two flushes of `close_month` write the same row and
are one step.

### Settlement

One action per outcome: submit, cancel, reject, approve (with the deduction or
the punch, and only in an open month), close or reopen. `SettlesAtomically` says
that `Workflow` implements it under the mapping at the end of
`WorkflowProperties`: `fixes` is the number of punches of source `admin`.

### Sessions

A tab runs JavaScript: what happens between two awaits is one step, several calls
wait at once. `thread[t][th]` is what the call `th` of tab `t` waits for: the
bootstrap of `useAuth`, the login form, a logout, or one of the `Calls` of the pages
and the password dialog. `mem[t]` is the store and the route, `disk[b]` the local
storage. `wire` holds every request until it is answered; a message of which
`gone` is true is one that no tab waits for any more, which the server may serve
all the same. A number stands for a token pair; `session` is its row in
`users_sessions`, `denied` is `revoked_access_tokens`.

| Code | Action |
|---|---|
| `login`, `me` and every authorized route | `ServeLogin`, `ServeGet` |
| `rotate_refresh` | `ReadRefresh` (load, check), then `Rotate` or, for a revoked token, `RevokeSeen` |
| `change_password` | `ReadPassword` (check, load the sessions), `RevokeSeen` |
| `logout` of the server | `ServeLogout` |
| `_run_purge_revoked_access_tokens`; `exp`, `expires_at` | `Purge`; `Expire`, `Lapse` |
| timeout, broken connection, lost request | `Lose`, `Drop` |
| a page load, and `bootstrap` | `Load`, then `TakeTokens`, `TakeAnswer`, `TakeError` |
| `login`, `logout` of `useAuth`, a call of a page, the password dialog | `Login`, `Logout`, `Call` |
| the response interceptor on a 401 | `ShareRefresh`, `LeadRefresh`, `NothingToRefresh` |
| `refreshAccessToken` is answered, the waiting calls go on | `Refreshed`, `RefreshFailed` |
| every `set()` of the persisted store | `Remember` |
| `ProtectedRoute` | `Routed` |

There are two clocks. The server judges the `exp` of an access token and the
`expires_at` of a session by its own (`Expire`, `Lapse`), the purge compares the
`expires_at` of the denylist with the database's (`Purge`), and nothing ties the one
to the other. So no property says that a logged-out access token stays refused: once
its row is purged it is accepted until the server's clock has passed its `exp`.

Abstractions: one account, which stays active; a call of a page is an authorized
GET; tokens end in the order in which they were issued, on either clock; `rotate_refresh`
and `revoke_all_for_user` are split between the rows they read and the rows they
write, the other endpoints are one statement.

### Pages

A page is a set of *parts* (`PageParts`, and the bell of the header), one for each
component that matters: the lists it needs to be rendered, the lists it observes, those it polls, and its operations.
An operation (`Op`) names the mutation whose `isPending` disables it, the lists it
of its page and of the bell it writes, and the lists it invalidates; `Exact`, `At` and `Modal` are the places where
the pages differ. `cache[k]` is a query of react-query: the data and for whom it was
loaded, whether it is stale or invalidated (`due`), and the fetch that is on its way.
A list is known by the number of the last write it contains, so the server is
`changed[k]`, and `dayAt`, the state of today's punches after each write. `closed` is
the closing of the user's month, which refuses her punches before their transition is
looked at (`ServePunch`).

| Code | Action |
|---|---|
| login, logout, a session that ends on its own | `Login`, `Logout`, `LoseSession` |
| the sidebar, a tab or a month of a page | `Go`, `Select` |
| a button or a form | `Press` |
| the endpoint, 409 or 200, and a lost answer | `Serve`, `LoseAnswer` |
| `onSuccess`, `onError` | `TakeAnswer` |
| other users, other devices, decisions | `Elsewhere` |
| a closing or reopening by an administrator | `CloseElsewhere`, or an operation of `ClosingPage` (`MayClose`) |
| the date of today changes | `Midnight` |
| `refetchInterval`, `staleTime`, fetches | `Poll`, `GoStale`, `ServeFetch`, `TakeList`, `FailFetch` |
| `toggle` of the bell | `ToggleBell` |

What is taken from react-query, as the pages use it: a component that begins to
observe a key loads it if it is due; an invalidation replaces the fetch of an observed
key, except its first one, which goes on; a fetch that fails leaves its list due; a
mutation ends with its component, but its `onSuccess` still runs, with what the page
has selected *by then*, as react-query takes the options of the last rendering.

A request of an approver's own, and its cancellation, change the queue too
(`approval_queue` leaves out nobody's), which `RequestsPage` does not invalidate: her
bell is behind until it polls. The bell compares `decided_at`, the server's clock,
with a mark set by the browser's; `skew` is how far the latter is off. A decision that
was listed when the bell was opened is therefore counted again under a browser clock
that is behind, which the model shows and no property denies.

Abstractions: rows, wording and the contents of forms; the limits of ten items and
seven days of the bell; midnight is counted with the writes; polling does
not stop in a background tab; `seenAt` is one mark per browser, as in the code. A
dialog covers its page while it submits, but the browser's back button leaves it. A
*scene* fixes the users, the pages and the lists of a behaviour, because lists that
are not shown together do not influence each other.

## 3. Runs

| Run | Bounds | Result |
|---|---|---|
| `requests` | 2 workers, 2 employees, 2 approvers (one of them an employee with a leave of his own), a punch fix and two leaves | types, separation of duties, agreement of the two tables, no overdraft, every effect audited, nothing returns to the queue |
| `timesheet` | 2 workers, 2 days, 2 minutes each from the last minute of the first day, one punch a day, a punch fix, recomputations | a punched day has a row; a day counts as worked only if clocked in and out; transactions that wait in a circle include a recomputation |
| `serial` | 1 worker, 2 days of 2 minutes each, one employee who is an approver too; a punch fix, a full-day and a half-day leave, punches, close, recompute, reopen | settled once, balance equals approved leaves, refinement of `Settlement`; a row is what its punches compute for some moment up to now, or what an approved leave makes of that; but for days taken off, the totals of a closed month are those of its rows, and those of the days that are not open stay what they were; a closed month takes no punch |
| `sessions` | 1 tab with its bootstrap, login, logout and one call; 2 token pairs; one page load or lost answer; fairness | one refresh per token, a rotated token is not presented, every call ends |
| `pages` | 15 scenes, each with the lists that are shown together, one or two writes or midnights, at most one lost answer, a browser clock that agrees or is behind; an administrator, a member; fairness | a page shows the user's own changes, no list of another user, punches refused for the state of the day were offered on an older list, polled lists catch up |
| `second_decision` | 2 workers, 2 approvers | violated: both decisions are carried out |
| `punch_after_close` | 2 workers | violated: a punch lands in a closed month |
| `closed_snapshot` | 1 worker, one day of 3 minutes | violated: recomputing a closed month rewrites the total of a day that is still open |
| `own_device` | 2 tabs in two browsers | violated: the device on which the password was changed loses its session too |
| `logout_session` | 1 tab, 2 token pairs | violated: a logout that needs a refresh leaves the new session live |
| `next_user` | 2 users of one browser | violated: the lists of a session that ended on its own are shown to the next user |
| `unseen_decision` | the bell and one decision | violated: a decision made before the bell was opened and polled after it is never counted |

**Workflow.** Workers are symmetric in `requests` and `timesheet` (`WorkerSymmetry`;
their action property does not name a worker), the other runs do not use symmetry. One
or two days, two to four minutes per day and five half days of leave suffice: a
conflict needs two transactions on a row of one employee, a lock cycle needs two rows,
and an overdraft needs leaves (2 full days and a half day) that fit one by one and not
twice. The clock starts with the first day (`Morning`), at its last minute
(`Evening`), so that midnight passes between two statements, or stands at the end of
the last day (`MonthEnd`) where no row depends on it; it stops at `LastDate`,
`LastMinute`. Two minutes in a day are one running minute and its change at midnight.
The runs with two workers show what survives the races; `serial` shows that the rules
are right when requests do not overlap, so that the violated ones are due to the
interleaving. Sequences that break what one might expect even then are known: a
full-day leave that is approved after the closing clears minutes that its totals
contain, so `TotalsMatchDays` and `DoneTotalsFrozen` are about the other days; a
punch overwrites the leave mark of its day, so `RowMatchesPunches` allows a row both
with and without what the leave made of it; and a recomputation of a closed month
counts an open day anew, which the run `closed_snapshot` shows and for which
`DoneTotalsFrozen` leaves the open days out.

`DeadlocksNeedRebuild` is about who waits for whom and not about what PostgreSQL then
does: everything but a recomputation locks request, approval, balance, days by date
and closing in this order. The wait graph is computed from the rows that each
transaction holds and wants, and the run finds circles (of a recomputation with
another one) that satisfy it. That the victim of a circle is aborted and the others
go on is PostgreSQL's part; no liveness is claimed of the server's transactions.

**Sessions.** Two token pairs are one rotation, which is what the refreshes and the
logouts meet; with one call, the bootstrap, the login form and the logout four
threads can wait for the shared refresh. One fault is a reload in any state, or a
lost answer of any call, and the server may still serve what was lost.
`RotatedStaysUnused` excepts behaviours with a fault: a reload while a refresh is on
its way presents the old token again, which ends every session of the user. That is
the cost of a rotation without a grace period. So is a second tab of the browser once
it is loaded: it starts with the token that the first one goes on using. The run has
one tab; the theorems are about any number of them, on one storage or on several.

**Pages.** Two writes make a list that is on its way older than a write that is
answered meanwhile, and newer than another; two selections of a month are enough to
have the wrong one refreshed. `OwnWritesShown` is about what the page shows in
components of its own, not about the queue of the bell, and about the list that was shown when
the answer came: after the month has been switched, `ClosingPage` invalidates the
month that is shown and not the one that was closed, which then stays on its old
state until it grows stale. `PunchRefusedOnlyIfOutdated` is about refusals of
`_validate_transition`: a closed month refuses every punch, which the page cannot
know, and after midnight the page is one that shows the day before. Every page and
every operation occurs in a scene.

Deadlock is checked in `requests`, `timesheet` and `serial` where their cfg does not
say otherwise; it is not in the runs where every request may be settled and every
punch made, where every pair is issued or every write done (nothing is left to do
then), and in those where it could say nothing: the violation runs.

Fairness. `Workflow` has none: its properties are of safety. `sessions`: for each call, weak fairness of "the server serves its request, or the
event loop delivers its answer"; the tokens need not expire and the user need not do
anything. The axios instance has a timeout, so a request that the server does not
answer ends too; the plain axios of the refresh has none, and for it the assumption
is that the connection ends. `pages`: for each polled key, weak fairness of its
timer and fetch; the other lists are not polled and nothing is claimed of them.

## 4. Proofs

`WorkflowProofs` and the modules that extend it assume `ConstantsAssumption`: the types
of the constants, finite sets of workers and days, a moment at which the clock starts,
and that a punch fix is for one day
and its punch of source `admin`, as `PunchFixPayload` and `_apply_punch_fix` have it.
Nothing is assumed on their sizes. `Invariance` is the base. `TypeOK` is not inductive: what a step writes comes from `job` and `seen`, so
its type depends on what the session did before. `Inv` adds `SessionsOK`: the job
agrees with the endpoint and with the checks at acceptance (`JobOK`), a session that
writes a day has loaded it (`DayOK`), and a leave that passed its check still fits
the balance *as it was read* (`BalanceOK`). The last part is why `NoOverdraft`
survives lost updates: whatever is written is a value that was checked, even if it
forgets a concurrent deduction. The step lemma has one part per action;
`OtherSessions` disposes of the other workers.

| Theorem of `WorkflowProofs` | States |
|---|---|
| `TypeCorrect` | `Spec => []TypeOK` |
| `Invariance` | `Spec => []Inv` |
| `StatusAgrees` | `Spec => []StatusMatchesDecision` |
| `NobodyDecidesAlone` | `Spec => []NoSelfDecision` |
| `BalanceCovers` | `Spec => []NoOverdraft` |
| `SettledForGood` | `Spec => NeverReopened` |
| `SerialSettlement` | `OneWorker => (Spec => []SettledOnce)` |

The safety theorems rest on two facts: only `CreateRequest` and `CommitRequest`
change what is on record about a request (`RequestSteps`), and what the latter
writes (`Settlements`). `SerialSettlement` adds that the request a worker settles
is still pending (`SerialInv`), which a second worker would break: that is the
race of the run `second_decision`.

The proofs about the other tables do not go through the actions again. They use what a
step of a worker can be for the tables (`TableSteps`): it begins (`BeginFacts`), it
works on what it has loaded and flushed (`WorksFacts`, with the tables unchanged), it
commits (`CommitSteps`, which says what each table becomes), or it ends (`Ended`).

| Theorem of `DaysProofs` | States |
|---|---|
| `PunchedDaysHaveRows` | `Spec => []PunchedDayHasRow` |
| `NormalDaysAreDone` | `Spec => []NormalDayWasClockedOut` |

Any number of transactions write rows of a day at once here, so nothing a session has
loaded need be true when it is written. `DaysInv` says what is: a session has loaded a
*past* state of what it sees (`LoadedOK`), and what matters of it cannot become false,
because punches are only added and a day that was clocked in and out stays so
(`DoneStays`). That is also why a column that an UPDATE leaves alone does no harm: the
row it stays in is one of a done day or not a normal one. `OneDay` and `WrittenOK` tie a
punch to the one row that is committed with it.

| Theorem of `LockProofs` | States |
|---|---|
| `CirclesRecompute` | `Spec => []DeadlocksNeedRebuild` |

Two facts are kept by every step (`LockInv`). `Exclusive`: a row is locked by one
transaction at a time, as a write of a row waits for its holder. `LocksOK`: nothing is
locked before the request is flushed, and the days still to be written are not locked.
Everyone in a circle holds a row and waits for one, and closings are only locked last,
so all of them wait for a daily row and hold one of another day (`CircleWrites`); only
recomputations and leaves write several days. If all were leaves, one would hold a day
that another of the same employee waits for, and both would hold the row of that
employee's balance, which is locked before (`CircleRebuilds`).

| Theorem of `AuditProofs` | States |
|---|---|
| `FixesAreAudited` | `Spec => []PunchFixesAudited` |
| `DeductionsAreAudited` | `Spec => []DeductionsAudited` |

Both compare numbers: punches of source `admin` with approvals of punch fixes, used half
days with half days approved. A request may be approved twice, so what is counted are
the entries of the log, and the lemmas say what an entry adds to the sets that are
counted. They have to be finite, although nothing bounds the requests (`Countable`).
`ReadIsAudited` is the strengthening: the used days that a leave goes on from are no
more than the log accounts for, and stay so, because the log only grows. Hence a lost
update loses a deduction and never invents one.

| Theorem of `SerialProofs` (each `OneWorker =>`) | States |
|---|---|
| `SerialBalance` | `Spec => []UsedMatchesApprovals` |
| `SerialRows` | `Spec => []RowMatchesPunches` |
| `SerialTotals` | `Spec => []TotalsMatchDays` |
| `SerialGuard` | `Spec => ClosedMonthTakesNoPunch` |
| `SerialFreeze` | `Spec => DoneTotalsFrozen` |
| `SerialRefinement` | `Spec => SettlesAtomically` |

`OneWorker` is a hypothesis that these need: the runs `second_decision` and
`punch_after_close` show what a second worker does to them. Requests, employees, days
and the calls and their failures stay arbitrary. The invariant `SerialDays` is that what
the only session has loaded is *still true* (`FreshSession`), one part for each check the
code makes and uses later: the balance (`BalanceFresh`), the open month (`MonthFresh`),
the closing (`ClosingFresh`), the punches and the row of the day (`DayFresh`), the sums
(`TotalFresh`), and the rows it has flushed (`FlushedRows`). Time passes under all of
them: what a row shows is a moment that is past and stays so. The rest of `SerialDays` is
the properties themselves, since a closing sums rows that earlier jobs have written.
The refinement has three parts: the initial states correspond (`PromisedInit`), a step
that changes no table is a stutter, and each commit is one action of `Settlement`
(`PromisedStep`), for which `CommittedFixes` counts the punches of source `admin` before
and after.

`SessionsProofs` assumes `SessionsAssumption`, which says nothing on the number of
tabs, calls, pairs and faults, nor on which tabs share a storage.

| Theorem of `SessionsProofs` | States |
|---|---|
| `TypesHold` | `Spec => []TypeOK` |
| `OneRefreshPerToken` | `Spec => []RefreshesShared` |
| `RotatedNeverPresented` (in `RotationProofs`) | `Spec => []RotatedStaysUnused` |

`OneRefreshPerToken` is the deep one. `refreshPromise` makes the refreshes of the
interceptor one, but the bootstrap refreshes on its own, and its token is the one the
store holds. `SharingInv` says why the two never meet: a message of a tab is what its
thread has open (`WireMatches`, `OneEach`), only the bootstrap calls for a refresh and
one thread leads the shared one (`ThreadsOK`), and while the bootstrap's refresh is
open, nothing but a login is, unless the store holds another token by then
(`BootAlone`): the splash screen hides the pages. That another token *is* another
token needs `FreshPairs`: a pair that was issued and is still on its way is known to
no store, storage, call or message. The step lemma has, for each action of a tab, a
part about the shape (`...Shape`) and one about fresh pairs (`...Fresh`); steps of
the server and the network put at most one message in the place of another
(`Replaces`), which `ReplacedShape` and `ReplacedFresh` carry over.

`RotatedNeverPresented` builds on it. `RotationInv` adds what holds until a page is loaded
again or an answer is lost (`Undisturbed`): the one token of a tab that may be rotated is
the one in its store, and only while the answer with the new pair is on its way to it
(`RotatedIsAnswered`). That answer is awaited by the leader of the shared refresh, so
no second refresh is sent before it is taken. `OwnTokens` keeps tabs apart that share a
storage: each has its token from a login of its own. The step lemma needs two cases, what
the server makes of a request (`Serves`) and what a tab takes and sends (`Moves`).

`PagesProofs` assumes `PagesAssumption`: the types of the constants, and that no
card is named like the punches. The users, the scenes and the cards are arbitrary.

| Theorem of `PagesProofs` | States |
|---|---|
| `PagesTyped` | `Spec => []TypeOK` |
| `ListsOfTheUser` | no scene loses a session `=> (Spec => []CacheOfUser)` |
| `OwnChangesShown` | `Spec => []OwnWritesShown` |
| `RefusedPunchWasOutdated` | `TodayWithMonth => (Spec => PunchRefusedOnlyIfOutdated)` |

- `PartsHonest` goes through the components of every page once: each operation
  invalidates the lists that it writes to, but for those of the requests page, which
  leave out the queue, and no part of that page shows the queue.
- `OwnChangesShown` rests on it. `PromisesRefreshed` shows that what a page promises
  is among what it loads again, also where only the key of the selection is
  invalidated: a component that is still there answers to the selection that is shown
  (`CallSound`), as its callbacks are those of the last render. `KeySound` then says
  that a fetch that was served, and a list that passes for up to date, contain every
  promise: the fetch that was on its way has been replaced.
- `ListsOfTheUser` needs its assumption: with a session that is lost, the run
  `next_user` finds the lists of the user before. `OwnCache` covers the fetches too: a
  fetch that is answered after the logout has no query to land in.
- `RefusedPunchWasOutdated` keeps the history of the day (`DaySound`): since the punches
  last changed, the day has been as it is now. A punch was offered by the day that its
  page showed (`PunchSound`), and what is offered is accepted (`OfferedIsAccepted`)
  unless the month is closed. Midnight is one of the changes.
  `TodayWithMonth` says that a scene that follows the month's list of punches follows
  today's too, without which the property has nothing to compare.

Every invariant and action property that holds in a run is proved for all values of the
constants, those of `serial` for one worker and two of `pages` under the hypotheses
named above. Only model-checked are the liveness properties (`CallsSettle`,
`PolledCatchUp`): fairness and `ENABLED` are outside the proof system.

## 5. Plan

1. Done: `Settlement`, `Workflow`, `Sessions`, `Pages`, their properties, instances
   and proofs.
2. Done: the proofs of what the runs check, but for liveness. Next would be what keeps
   the properties of `serial` with several workers: requests that overlap only for
   different employees.
3. Server: closing of all employees in one transaction; leave balances over several
   years (grant, carry-over, a leave across the new year); the four punch types over
   two dates against a minute-by-minute reference.
4. Jobs: advisory locks on pooled connections and the alert job, which need several
   server processes.

## 6. Not modelled

Mails are best effort and leave no state. Rate limiting, seeds, configuration,
migrations and the proxy keep nothing that spans steps. The flex settlement and the
overtime report are sequential computations over a month, as are the figures of the
week and the breaks of a day, which unit tests reach. What the forms hold, the CSV
download and the help text are the layout of the client; a form that overwrites
what another administrator saved is listed as a hazard. Employees, shifts,
departments and holidays are single-row writes on the server, which `Pages` takes as
numbered writes. Several accounts, disabled accounts and two threads that rotate one
token at the same statement are left out of `Sessions`.
