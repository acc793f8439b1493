------------------------------ MODULE Sessions ------------------------------
(***************************************************************************)
(* The browser's session handling (lib/api.ts, lib/auth-store.ts, useAuth) *)
(* over the authentication endpoints of the server.                        *)
(*                                                                         *)
(* A tab runs JavaScript: what happens between two awaits is one step, and *)
(* several calls may be waiting at once.  A call that gets a 401 waits for *)
(* the tab's one shared refresh and is then sent again.  The store of a    *)
(* tab is in memory; its refresh token is also written to the local        *)
(* storage that the tabs of a browser share.                               *)
(*                                                                         *)
(* A login and a refresh issue a pair: an access token and the session row *)
(* of a refresh token.  One number stands for both.                        *)
(*                                                                         *)
(* Abstractions.  One account, which stays active; the pages' calls are    *)
(* one kind of authorized call; a request is one statement on the server   *)
(* except where it reads a session and writes it later.                    *)
(***************************************************************************)
EXTENDS Naturals

CONSTANTS
    Tabs,       \* the open tabs
    Storage,    \* Storage[t] is the browser whose local storage t uses
    Calls,      \* the calls the pages of a tab can have open at once
    Dialogs,    \* which of "login", "logout" and "password" the user uses
    MaxPairs,   \* bound: token pairs issued
    MaxFaults,  \* bound: page loads and lost answers
    None        \* null

Browsers == {Storage[t] : t \in Tabs}
Pairs    == 1 .. MaxPairs
Threads  == {"boot", "login", "logout"} \cup Calls
Requests == {"login", "refresh", "get", "logout", "password"}

ASSUME SessionsAssumption ==
    /\ Calls \cap {"boot", "login", "logout"} = {}
    /\ Dialogs \subseteq {"login", "logout", "password"}
    /\ MaxPairs \in Nat /\ MaxFaults \in Nat
    /\ None \notin Pairs

VARIABLES
    session,    \* users_sessions: the row of a refresh token is live, its expires_at
                \* has passed, or its revoked_at is set, by a rotation or otherwise
    expired,    \* the access tokens whose exp has passed
    denied,     \* revoked_access_tokens
    wire,       \* the requests of the tabs, until they are answered
    mem,        \* the store of a tab, and the route it shows
    disk,       \* the refresh token in the local storage of a browser
    thread,     \* what each call of a tab waits for
    faults      \* page loads and lost answers so far

server == <<session, expired, denied>>
client == <<mem, disk, thread>>
vars   == <<server, wire, client, faults>>

Answers == {"ok", "unauthorized", "failed"}
Message == [from: Tabs \X Threads, gone: BOOLEAN, call: Requests,
            token: Pairs \cup {None}, bearer: Pairs \cup {None},
            at: {"sent", "rotating", "revoking"} \cup Answers,
            saw: SUBSET Pairs, pair: Pairs \cup {None}]
Memory  == [user: BOOLEAN, access: Pairs \cup {None}, refresh: Pairs \cup {None},
            boot: BOOLEAN, page: {"login", "app"}]
Thread  == [waits: {"nothing", "answer", "refresh", "shared"}, call: Requests,
            retried: BOOLEAN, token: Pairs \cup {None}]

Idle == [waits |-> "nothing", call |-> "get", retried |-> FALSE, token |-> None]

SignedOut == [user |-> FALSE, access |-> None, refresh |-> None,
              boot |-> FALSE, page |-> "login"]

Init ==
    /\ session = [p \in Pairs |-> "none"]
    /\ expired = {} /\ denied = {}
    /\ wire = {}
    /\ mem = [t \in Tabs |-> SignedOut]
    /\ disk = [b \in Browsers |-> None]
    /\ thread = [t \in Tabs |-> [th \in Threads |-> Idle]]
    /\ faults = 0

(***************************************************************************)
(* The server.                                                             *)
(***************************************************************************)
Unrevoked == {p \in Pairs : session[p] \in {"live", "lapsed"}}
Issued == {p \in Pairs : session[p] # "none"}

\* get_current_user: signature and exp, then the denylist.
Authorized(m) == m.bearer # None /\ m.bearer \notin expired \cup denied

\* The server's answer to m, for the tab if it still waits; p is the pair issued.
Reply(m, a, p) ==
    IF m.gone THEN {}
    ELSE {[m EXCEPT !.at = a, !.pair = p, !.bearer = None, !.saw = {}]}

Answer(m, a) == wire' = (wire \ {m}) \cup Reply(m, a, None)

\* The server goes on with m in a later statement.
Continue(m, a, rows) == wire' = (wire \ {m}) \cup {[m EXCEPT !.at = a, !.saw = rows]}

IssuePair(m, rows) ==
    \E p \in Pairs \ Issued :
        /\ p - 1 \in Issued \cup {0}
        /\ session' = [rows EXCEPT ![p] = "live"]
        /\ wire' = (wire \ {m}) \cup Reply(m, "ok", p)

\* The credentials are right, or they are not.
ServeLogin(m) ==
    /\ m.call = "login" /\ m.at = "sent"
    /\ \/ IssuePair(m, session)
       \/ Answer(m, "unauthorized") /\ UNCHANGED session
    /\ UNCHANGED <<expired, denied>>

ServeGet(m) ==
    /\ m.call = "get" /\ m.at = "sent"
    /\ Answer(m, IF Authorized(m) THEN "ok" ELSE "unauthorized")
    /\ UNCHANGED server

\* The refresh token of the body is revoked, and the access token that was
\* presented is put on the denylist, whether or not that session was live.
ServeLogout(m) ==
    /\ m.call = "logout" /\ m.at = "sent"
    /\ IF Authorized(m)
       THEN /\ session' = [session EXCEPT ![m.token] =
                                IF @ = "rotated" THEN @ ELSE "revoked"]
            /\ denied' = denied \cup {m.bearer}
            /\ Answer(m, "ok")
       ELSE Answer(m, "unauthorized") /\ UNCHANGED <<session, denied>>
    /\ UNCHANGED expired

\* rotate_refresh loads the row of the token; a token that was revoked before is
\* taken for stolen, and the live sessions are loaded to be revoked.
ReadRefresh(m) ==
    /\ m.call = "refresh" /\ m.at = "sent"
    /\ \/ session[m.token] \in {"rotated", "revoked"} /\ Continue(m, "revoking", Unrevoked)
       \/ session[m.token] = "lapsed" /\ Answer(m, "unauthorized")
       \/ session[m.token] = "live" /\ Continue(m, "rotating", {})
    /\ UNCHANGED server

Rotate(m) ==
    /\ m.at = "rotating"
    /\ IssuePair(m, [session EXCEPT ![m.token] = "rotated"])
    /\ UNCHANGED <<expired, denied>>

\* change_password: the current password is wrong, or the live sessions of the
\* account are loaded, that of the caller with the others.
ReadPassword(m) ==
    /\ m.call = "password" /\ m.at = "sent"
    /\ \/ ~Authorized(m) /\ Answer(m, "unauthorized")
       \/ Authorized(m) /\ Answer(m, "failed")
       \/ Authorized(m) /\ Continue(m, "revoking", Unrevoked)
    /\ UNCHANGED server

RevokeSeen(m) ==
    /\ m.at = "revoking"
    /\ session' = [p \in Pairs |-> IF p \in m.saw THEN "revoked" ELSE session[p]]
    /\ Answer(m, IF m.call = "password" THEN "ok" ELSE "unauthorized")
    /\ UNCHANGED <<expired, denied>>

Serve(m) ==
    \/ ServeLogin(m) \/ ServeGet(m) \/ ServeLogout(m)
    \/ ReadRefresh(m) \/ Rotate(m) \/ ReadPassword(m) \/ RevokeSeen(m)

Unanswered == {m \in wire : m.at \notin Answers}

\* The client gets a timeout or a broken connection in place of the answer; the
\* server may have the request still.
Lose(m) ==
    /\ ~m.gone /\ m.at # "failed"
    /\ faults < MaxFaults /\ faults' = faults + 1
    /\ wire' = (wire \ {m}) \cup Reply(m, "failed", None)
                 \cup {[n EXCEPT !.gone = TRUE] : n \in {m} \cap Unanswered}
    /\ UNCHANGED server

\* Nobody waits for the answer, or the request never arrived.
Drop(m) ==
    /\ wire' = wire \ {m}
    /\ UNCHANGED server

\* Bound: with every pair issued, a request that needs one fails.
OutOfPairs(m) ==
    /\ Issued = Pairs /\ (m.at = "rotating" \/ (m.call = "login" /\ m.at = "sent"))
    /\ Answer(m, "failed")
    /\ UNCHANGED server

\* Time: an access token lives 15 minutes, a refresh token 14 days, so tokens
\* end in the order in which they were issued.  This is the clock of the server,
\* by which it judges the exp of an access token and the row of a session.
Oldest(S) == {p \in S : \A q \in S : p <= q}

Expire ==
    /\ Issued \ expired # {}
    /\ expired' = expired \cup Oldest(Issued \ expired)
    /\ UNCHANGED <<session, denied>>

Lapse ==
    \E p \in Oldest({q \in Pairs : session[q] = "live"}) \cap expired :
        /\ session' = [session EXCEPT ![p] = "lapsed"]
        /\ UNCHANGED <<expired, denied>>

\* _run_purge_revoked_access_tokens: the rows whose expires_at is before the now()
\* of the database are deleted, those of the tokens that were issued up to some
\* one.  Nothing else looks at that clock, and nothing ties it to the server's.
Purge ==
    \E last \in denied :
        /\ denied' = {p \in denied : p > last}
        /\ UNCHANGED <<session, expired>>

(***************************************************************************)
(* The client.                                                             *)
(***************************************************************************)
SignedIn(m) == m.user /\ m.access # None

Cleared(m) == [m EXCEPT !.user = FALSE, !.access = None, !.refresh = None]

\* Mutants: the refresh token is taken from the wrong field of the answer; only
\* a login stores it.
WithTokensMixed(m, p)   == [m EXCEPT !.access = p, !.refresh = MaxPairs + p]
WithTokensOfLogin(m, p) == [m EXCEPT !.access = p, !.refresh = IF @ = None THEN p ELSE @]

WithTokens(m, p) == [m EXCEPT !.access = p, !.refresh = p]

\* ProtectedRoute: without a user the app gives way to the login page.
Routed(m) == IF m.boot \/ SignedIn(m) THEN m ELSE [m EXCEPT !.page = "login"]

\* Every set() of the store writes its refresh token to the local storage.
Remember(t, m) ==
    /\ mem' = [mem EXCEPT ![t] = Routed(m)]
    /\ disk' = [disk EXCEPT ![Storage[t]] = m.refresh]

Busy(t, th) == thread[t][th].waits # "nothing"

\* The request as the interceptor sends it: with the store's access token.
Sent(t, th, call, token, access) ==
    [from |-> <<t, th>>, gone |-> FALSE, call |-> call, token |-> token,
     bearer |-> access, at |-> "sent", saw |-> {}, pair |-> None]

Awaits(call, token) ==
    [waits |-> "answer", call |-> call, retried |-> FALSE, token |-> token]

Open(t, th, call, token, access) ==
    /\ thread' = [thread EXCEPT ![t][th] = Awaits(call, token)]
    /\ wire' = wire \cup {Sent(t, th, call, token, access)}

\* A reload shows the same route and forgets the calls of the old page. The store
\* comes back from the local storage, and bootstrap refreshes with it.
Load(t) ==
    /\ faults < MaxFaults /\ faults' = faults + 1
    /\ LET old   == {m \in wire : m.from[1] = t /\ ~m.gone}
           left  == {[m EXCEPT !.gone = TRUE] : m \in old \cap Unanswered}
           token == disk[Storage[t]]
           fresh == [th \in Threads |-> Idle]
       IN /\ mem' = [mem EXCEPT ![t] =
                Routed([SignedOut EXCEPT !.refresh = token, !.boot = token # None,
                                         !.page = mem[t].page])]
          /\ IF token = None
             THEN /\ thread' = [thread EXCEPT ![t] = fresh]
                  /\ wire' = (wire \ old) \cup left
             ELSE /\ thread' = [thread EXCEPT ![t] =
                        [fresh EXCEPT !["boot"] = Awaits("refresh", token)]]
                  /\ wire' = (wire \ old) \cup left
                               \cup {Sent(t, "boot", "refresh", token, None)}
    /\ UNCHANGED <<server, disk>>

Login(t) ==
    /\ "login" \in Dialogs /\ mem[t].page = "login" /\ ~Busy(t, "login")
    /\ Open(t, "login", "login", None, mem[t].access)
    /\ UNCHANGED <<server, mem, disk, faults>>

InApp(t) == mem[t].page = "app" /\ ~mem[t].boot /\ SignedIn(mem[t])

\* A page reads or writes something, or the dialog that changes the password
\* submits. That dialog cannot be closed meanwhile, and it covers the menu.
Changing(t) == \E c \in Calls : Busy(t, c) /\ thread[t][c].call = "password"

Call(t) ==
    /\ InApp(t)
    /\ \E c \in Calls, call \in {"get"} \cup (Dialogs \cap {"password"}) :
          /\ ~Busy(t, c) /\ (call = "password" => ~Changing(t))
          /\ Open(t, c, call, None, mem[t].access)
    /\ UNCHANGED <<server, mem, disk, faults>>

\* The refresh token of the body is read now, and sent again as it is.
Logout(t) ==
    /\ "logout" \in Dialogs /\ InApp(t) /\ ~Busy(t, "logout") /\ ~Changing(t)
    /\ IF mem[t].refresh # None
       THEN /\ Open(t, "logout", "logout", mem[t].refresh, mem[t].access)
            /\ UNCHANGED <<mem, disk>>
       ELSE Remember(t, Cleared(mem[t])) /\ UNCHANGED <<wire, thread>>
    /\ UNCHANGED <<server, faults>>

\* The calls of ths are over.
End(t, ths) ==
    thread' = [thread EXCEPT ![t] = [th \in Threads |-> IF th \in ths THEN Idle ELSE @[th]]]

\* The store is cleared; a bootstrap among ths is over.
Clear(t, ths) ==
    Remember(t, [Cleared(mem[t]) EXCEPT !.boot = @ /\ "boot" \notin ths])

\* The answer that th waits for.
Answered(t, th, waits, m) ==
    /\ m \in wire /\ m.from = <<t, th>> /\ ~m.gone /\ m.at \in Answers
    /\ thread[t][th].waits = waits

\* A login or the bootstrap's refresh stores the tokens and asks who the user is.
TakeTokens(t, th, m) ==
    /\ Answered(t, th, "answer", m) /\ m.at = "ok" /\ m.call \in {"login", "refresh"}
    /\ Remember(t, WithTokens(mem[t], m.pair))
    /\ thread' = [thread EXCEPT ![t][th] = Awaits("get", None)]
    /\ wire' = (wire \ {m}) \cup {Sent(t, th, "get", None, m.pair)}

TakeAnswer(t, th, m) ==
    /\ Answered(t, th, "answer", m) /\ m.at = "ok"
    /\ m.call \in {"get", "password", "logout"}
    /\ wire' = wire \ {m}
    /\ End(t, {th})
    /\ CASE th = "login"  -> Remember(t, [mem[t] EXCEPT !.user = TRUE, !.page = "app"])
         [] th = "boot"   -> Remember(t, [mem[t] EXCEPT !.user = TRUE, !.boot = FALSE])
         [] th = "logout" -> Remember(t, Cleared(mem[t]))
         [] OTHER         -> UNCHANGED <<mem, disk>>

\* A 401 that the response interceptor handles.
Challenged(t, th, m) ==
    /\ Answered(t, th, "answer", m)
    /\ m.at = "unauthorized" /\ m.call \notin {"login", "refresh"} /\ ~thread[t][th].retried

\* Mutant: the promise of the refresh is not shared.
RefreshingAlone(t) == FALSE

Refreshing(t) == \E th \in Threads : thread[t][th].waits = "refresh"

ShareRefresh(t, th, m) ==
    /\ Challenged(t, th, m) /\ Refreshing(t)
    /\ thread' = [thread EXCEPT ![t][th] =
                    [@ EXCEPT !.waits = "shared", !.retried = TRUE]]
    /\ wire' = wire \ {m}
    /\ UNCHANGED <<mem, disk>>

LeadRefresh(t, th, m) ==
    /\ Challenged(t, th, m) /\ ~Refreshing(t)
    /\ mem[t].refresh # None
    /\ thread' = [thread EXCEPT ![t][th] =
                    [@ EXCEPT !.waits = "refresh", !.retried = TRUE]]
    /\ wire' = (wire \ {m}) \cup {Sent(t, th, "refresh", mem[t].refresh, None)}
    /\ UNCHANGED <<mem, disk>>

NothingToRefresh(t, th, m) ==
    /\ Challenged(t, th, m) /\ ~Refreshing(t)
    /\ mem[t].refresh = None
    /\ wire' = wire \ {m}
    /\ End(t, {th}) /\ Clear(t, {th})

\* The call is rejected; bootstrap and logout clear the store even so.
TakeError(t, th, m) ==
    /\ Answered(t, th, "answer", m) /\ m.at # "ok" /\ ~Challenged(t, th, m)
    /\ wire' = wire \ {m}
    /\ End(t, {th})
    /\ IF th \in {"boot", "logout"} THEN Clear(t, {th}) ELSE UNCHANGED <<mem, disk>>

\* Mutant: the callers that found the promise set do not await it.
SharingLeader(t) == {th \in Threads : thread[t][th].waits = "refresh"}

Sharing(t) == {th \in Threads : thread[t][th].waits \in {"refresh", "shared"}}

\* The tokens are stored and the calls that waited are sent again.
Refreshed(t, th, m) ==
    /\ Answered(t, th, "refresh", m) /\ m.at = "ok"
    /\ Remember(t, WithTokens(mem[t], m.pair))
    /\ thread' = [thread EXCEPT ![t] = [c \in Threads |->
            IF c \in Sharing(t) THEN [@[c] EXCEPT !.waits = "answer"] ELSE @[c]]]
    /\ wire' = (wire \ {m}) \cup {Sent(t, c, thread[t][c].call, thread[t][c].token, m.pair)
                                    : c \in Sharing(t)}

RefreshFailed(t, th, m) ==
    /\ Answered(t, th, "refresh", m) /\ m.at # "ok"
    /\ wire' = wire \ {m}
    /\ End(t, Sharing(t)) /\ Clear(t, Sharing(t))

Receive(t, th, m) ==
    \/ TakeTokens(t, th, m) \/ TakeAnswer(t, th, m) \/ TakeError(t, th, m)
    \/ ShareRefresh(t, th, m) \/ LeadRefresh(t, th, m) \/ NothingToRefresh(t, th, m)
    \/ Refreshed(t, th, m) \/ RefreshFailed(t, th, m)

User(t) == Load(t) \/ Login(t) \/ Call(t) \/ Logout(t)

\* What moves the call of th on: the server serves it, or the tab takes the answer.
Progress(t, th) ==
    \E m \in {n \in wire : n.from = <<t, th>> /\ ~n.gone} :
        \/ (Serve(m) \/ OutOfPairs(m)) /\ UNCHANGED <<client, faults>>
        \/ Receive(t, th, m) /\ UNCHANGED <<server, faults>>

Next ==
    \/ \E t \in Tabs : User(t) \/ \E th \in Threads : Progress(t, th)
    \/ \E m \in wire : Lose(m) /\ UNCHANGED client
    \/ \E m \in wire : m.gone /\ (Serve(m) \/ Drop(m)) /\ UNCHANGED <<client, faults>>
    \/ (Expire \/ Lapse \/ Purge) /\ UNCHANGED <<wire, client, faults>>

Spec == Init /\ [][Next]_vars

\* The server answers, and the event loop of a tab delivers the answer.
FairSpec == Spec /\ \A t \in Tabs, th \in Threads : WF_vars(Progress(t, th))

-----------------------------------------------------------------------------
\* The stores, the storage, the tables and the messages hold values of their types.
TypeOK ==
    /\ session \in [Pairs -> {"none", "live", "lapsed", "rotated", "revoked"}]
    /\ expired \subseteq Pairs /\ denied \subseteq Pairs
    /\ wire \subseteq Message
    /\ mem \in [Tabs -> Memory]
    /\ disk \in [Browsers -> Pairs \cup {None}]
    /\ thread \in [Tabs -> [Threads -> Thread]]
    /\ faults \in 0 .. MaxFaults

Refreshes(t) == {m \in wire : m.from[1] = t /\ ~m.gone /\ m.call = "refresh"}

\* A tab never has two refreshes of one token open: bootstrap, login and the
\* calls that got a 401 at the same time share one (refreshPromise).
RefreshesShared ==
    \A t \in Tabs : \A m, n \in Refreshes(t) : m.token = n.token => m = n

\* A tab of its own presents no refresh token that was rotated, which the server
\* would take for a stolen one, unless a page load or a lost answer intervened.
RotatedStaysUnused ==
    faults = 0 => \A m \in Unanswered : m.call = "refresh" => session[m.token] # "rotated"

\* The bootstrap and every call of the pages end, also when they waited
\* for the refresh that another of them started.
CallsSettle ==
    \A t \in Tabs, th \in Calls \cup {"boot"} : Busy(t, th) ~> ~Busy(t, th)

\* HelpDialog: the device on which the password was changed stays signed in.
OwnDeviceContinues ==
    \A m \in wire : m.call = "password" /\ m.at = "ok"
                       => session[mem[m.from[1]].refresh] = "live"

\* test_logout_revokes_refresh: once a user's only device is logged out, none of
\* the user's sessions is left.
LogoutEndsSessions ==
    [][denied' \ denied # {} => \A p \in Pairs : session'[p] # "live"]_vars
=============================================================================
